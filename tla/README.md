# A TLA+ model of opendlssg-fg

opendlssg-fg is a proxy DLL that makes NVIDIA's frame generation (DLSS-G) run on Ampere
GPUs. It hooks functions and patches code in a process it does not own: the game's
threads, Streamline, NGX and the Windows loader call into it in any order, on any thread,
while one worker thread of its own keeps looking for modules to hook. What can go wrong is
therefore mostly an order of steps: an image unmapped between two of them, a decision taken
by two threads, an answer given before what it promises is ready. Most of these modules are
about those orders; two are about what is decided from a file of settings and from machine
code, where the cases are too many to write a test for each.

Line numbers below are those of the sources under `src/src/`, unless a path says otherwise.
`PROJECT.json` maps every definition to the lines it was translated from.

## The system

| Part | State it keeps | Operations | Called by |
|---|---|---|---|
| Start-up: `dllmain.cpp`, `app/runtime.cpp`, `proxy/` | `g_initialized`, forwarding table | pin the DLL, bind the forwarded exports, read settings, hand them on, start the loader | Windows loader, then a thread of its own, once a process |
| Settings: `app/settings.cpp`, `core/config.cpp` | sections and rejected values of one file | load, read numbers, switches, names and lists | start-up |
| Loader: `app/loader.cpp` | `g_runtimes`, `g_component_loads`, wake event | `LoadLibraryExW` hook; the worker's module scan, every second or when woken | any thread; the worker |
| Provider: `provider/` | `g_enabled` | recognise a runtime, find and rewrite its multi-frame gates | loader |
| Plugin patches: `streamline/plugin_patch.cpp` | `g_patched` | claim, pin, analyse and patch a `sl.dlss_g.dll` | load hook and worker |
| NVAPI spoof: `spoof/nvapi.cpp` | `g_real_architecture`, spoof list, hook slots | answer `GetArchInfo`, stub `SetRawScgPriority`, route kernel creations | any module, any thread |
| Kernels: `kernels/` | target architecture, provider indexes, counters | activate, resolve the target, index runtimes, decide on an image, retry, summarise | NVAPI and Vulkan wrappers; worker |
| Vulkan: `vulkan/`, `core/hooks.*` | resolver slots, `g_resolutions`, `g_wrapping`, sleep flag | hook both resolvers, hand out wrappers, dispatch per device, pace Reflex | worker; the game and Streamline |
| Streamline: `streamline/streamline.cpp` | force multiplier, `g_frame_generation_on`, answer tables | wrap `slDLSSGSetOptions`; log what the interposer answers | Streamline, the game |
| Log: `core/log.cpp` | the log file of the process, and those of others in one directory | prune, open, write lines | start-up, then everyone |
| Paths, PE and x86 readers: `core/` | none | pure helpers; two ways of writing code | everyone |

How they interact. The loader finds modules and calls the provider, the plugin patches, the
index builder and the hook installers. A `GetArchInfo` answer about an Ampere GPU activates
the kernels *before* it says Ada; being told Ada is what makes a runtime create kernels; each
creation comes back through NVAPI or Vulkan and is decided by the kernels, from the indexes
the worker builds. `g_real_architecture` gates runtime and plugin patches, the priority stub,
and, once, the Reflex wrappers. The Reflex wrappers read Streamline's frame-generation flag.

What is hard: everything between two locks. No engine lock is held while the Windows loader
lock may be taken, so claims, pins, records and writes are separate steps of two kinds of
actors; the worker acts on lists that may be stale; results of one thread are read by another
without a lock. Hooks go live one by one, and fail one by one, while the game already calls
what is hooked. No messages can be lost, and only one thing survives a process that ends or
crashes: its log file, in a directory other processes prune.

## Modules

| Module | Models | Key correspondences |
|---|---|---|
| `ModuleTable` | the Windows loader, as far as the code relies on it | `image`: what is mapped at an address; `refs`, `pinned`; addresses are reused |
| `RuntimeLifecycle` | abstract: absent, recorded, claimed, unlocked; indexed alongside | refined by `RuntimeLoading` |
| `RuntimeLoading` | `HookedLoadLibraryExW`/`LoadAndPrepare` for runtimes, `InspectProvider` | `recorded` = `g_runtimes`, `claimant` = who set `multi_frame`, `writes` = `UnlockMultiFrame` calls, `indexed` = `ProviderIndexed` |
| `PluginLoading` | the load hook and the scan for plugins, `PatchPlugin` | `patched` = `g_patched`, `bytes` = what is in the image |
| `CodeAnalysis` | which instructions are gates, flag stores and clamps: `FindMultiFrameGates`, `PublishedParameter`, `AnalyzeFlipMetering`, `AnalyzeModelVersionStore`, `AnalyzeFrameClamp`, over the questions of `core/x86.cpp` | code is a sequence of instructions; one is a record of what the questions tell of it |
| `CodePatching` | extends `CodeAnalysis`: `UnlockMultiFrame`, `WritePatch`, `PatchCode`, `PatchRunningCode` and the line logged at the end | `torn`: the instruction that is partly old and partly new |
| `ArchSpoof` | `HookedGetArchInfo`, `kernels::Activate`, `HookedSetRawScgPriority`, `SpoofCallers` | one action per atomic access of shared state |
| `NvapiInstall` | extends `ArchSpoof`: `loader::Start`, `InspectLoadedModules` as far as NVAPI goes, `nvapi::Install`, `HookInterface` | `hook`: how far each interface has come; `install_state`, `attempts` as in the code |
| `Fatbin` | `CanRun`, `Retarget` on sets of images | |
| `KernelCreation` | extends `ArchSpoof` and `Fatbin`: `Decide`, `DecideCubin`, `Fallback`, target resolution, indexing | each index lookup is a step, because each takes its lock by itself |
| `KernelSummary` | the counters and `ReportSummary` | counters are read one by one |
| `VulkanResolvers` | `InstallLoaderHooks`, `hooks::Install`, the detours, `ShouldWrap`, `Record`, `Original` | a driver function is named by its device and how often that handle was used |
| `FrameGeneration` | `HookSetOptions`, `SetOptions` | `applied` is what Streamline works with, `granted` the request behind it |
| `ReflexPacing` | extends `FrameGeneration`: both latency wrappers | `saw` holds what a call has read of the two flags |
| `AnswerTable` | `AnswerChanged`, `HookIsFeatureSupported`, `HookIsFeatureLoaded` | `feature` and `result` of each slot; one action per atomic access |
| `Interposer` | extends `AnswerTable`: `InstallInterposerHooks`, `HookGetFeatureFunction`, a plugin that is loaded again | `set_options` = `g_set_options`, `held` = what the game calls |
| `Settings` | `Ini::Load` and its readers, `Settings::FromIni`; beside them `Documented`, what `docs/CONFIGURATION.md` says of each kind of setting | a file is a sequence of lines, `Reading` what has been made of it after each; `Number` and `Items` say what a text is as a number or a list |
| `Startup` | extends `Settings`: `DllMain`, `BindActive`, `Initialize`, `PruneOldLogs`, `log::Open`, in processes that come, go and crash | `logs`: the files of the folder, written last first; `doomed`: what a process has listed for deletion |

`...MC` modules give the instances, `...Proofs` modules the theorems: `NvapiProofs` those of
`ArchSpoof` and `NvapiInstall`, `KernelProofs` of `KernelCreation` and `KernelSummary`,
`VulkanProofs` of `VulkanResolvers`, `FrameGeneration` and `ReflexPacing`, `InterposerProofs` of
`AnswerTable` and `Interposer`, `StartupProofs` of `Settings` and `Startup`, each of the others
of the module it is named after. Where two of them meet in one, their specifications have names
of their own (`SummarySpec`, `InstallSpec`, `ResolverSpec`). `RuntimeLoading` and
`PluginLoading` share `ModuleTable`, and take what `CodePatching` does in detail as one step;
`KernelCreation` composes `ArchSpoof` and `Fatbin`: kernels are only created by a runtime
`ArchSpoof` has told Ada. Operators marked *a mutant of X* are never
used by the specifications: each is the form X would have with a plausible bug, and shows
that some property notices it.

## What is checked

| Run | Instance and bounds | Shows |
|---|---|---|
| `RuntimeLoading` | 2 threads, 1 address, the game's runtime, the redirected one and another DLL, fairness | records are pinned and mapped, also when a listed address is reused; only runtimes are rewritten, once; a load never loses its runtime to the worker; some load has unlocked it on return; the loader implements `RuntimeLifecycle`; recorded runtimes are indexed, and those loaded before the GPU was known are unlocked |
| `PluginLoading` | 2 threads, 2 addresses, fairness | one patcher per image, patched images stay mapped, no stale record, a plugin that stays is patched |
| `CodePatching` | runtimes of up to 3 of 10 blocks around a comparison, plugins of 4 beginnings and 3 of 13 instructions, at 2 alignments | only the frame count's gates move, and they then take Ada for Blackwell; a plugin reported as done cannot turn hardware metering on; no running thread meets half an instruction |
| `NvapiInstall` | 2 threads, Ampere and Turing, 3 interfaces, 2 attempts | nobody is told Ada before kernels are active; runtimes are told Ada; the Ada-only call is stubbed unless the other GPU was asked about; only an interface whose own hook failed stays open; `Start` ends with the architecture hooked |
| `KernelCreation` | 2 threads, 2 runtimes, 11 shapes of images, CUDA answering or not | the driver gets only images it can run, first time and on the retry; the retry differs; the target is known; answers come from the caller's images |
| `KernelSummary` | 3 decisions, fairness | a summary's numbers were true together, the final ones are written |
| `VulkanResolvers` | 2 threads, 2 device handles each used twice | no resolution comes back empty, the latency functions agree, wrappers reach their device |
| `ReflexPacing` | 2 threads, 4x forced, accepted or refused; five kinds of request; fairness | forcing changes only counts and loses no request; early sleepers are untouched; low latency comes off and the request comes back |
| `Interposer` | 2 threads, 3 exports, 3 features and 2 slots, 2 loads of the plugin, symmetric | the wrapper reaches the plugin that is loaded; what is reported is what changed |
| `Startup` | 2 processes at a time under 4 process ids, 2 logs kept, 6 files, symmetric | the DLL can be used and freed once loaded; no value is dropped without a word; a launch alone keeps the newest logs; overlapping launches leave a bounded number |
| `RuntimeTwoLoads`, `PluginStaleListing` | expected violations | two places where a comment or a document says more than the code does, see below |

Why the bounds are enough. Two threads and the worker are three actors: every race in the
code is between two of them over one module, record, flag or call, with at most a third one
changing the ground. One address that is mapped, freed and mapped again by different files
without limit is the hard case for the runtimes; the plugins have a second, so that a list
can name one while the other changes. Image shapes are one of each form the
code distinguishes: a cubin with a twin, one from a container, one with neither, a runnable
one, containers with matching and differing interfaces, one that cannot be decompressed, PTX
text, and unrecognised bytes. Three features and two slots stand for nine and
`kTrackedFeatures`; three interfaces for the five of `Install`: the first, on which all
depends, the one that needs a stub, and one behind it; two attempts (`kNvapiAttempts`) for five. Two kept logs
stand for ten; a process id that is used again finds a log of its own. `kMaxGates` and the
three windows of the analyses are lowered so that they end within the code of an instance.
The eight settings in `Documented` are at least one of each reader but the two that accept
any text. Three decisions are the least at which a sum can settle, change
and settle again. `MaxSerial` lets each device handle be used again once; a third device
behaves as the second. `MaxDecisions` and `MaxSerial` are the only
bounds of ours in a guard; `kNvapiAttempts` is the code's.

Fairness. `WF_vars(InspectProvider)` and `WF_vars(InspectPlugins)`: the worker waits at most a
second before it scans again, and every step of a scan ends (`loader.cpp:383-390`).
`WF_vars(Hooked(t))`: a `LoadLibraryExW` call returns. `WF_vars(ReportSummary)`: every scan
ends in one. `WF_vars(ReportDriverResult)`: the driver answers. `WF_vars(Progress(t))`: a call
into Streamline or the driver returns. Nobody is assumed to *start* anything: loads, queries,
sleeps and creations may stop at any time, and what depends on them says so in its premise
(`DeferredRuntimesUnlocked`, `PluginsPatched`: loads of components come to an end;
`LowLatencyComesOff`, `RequestComesBack`: the sleep mode is set again and again).
`VulkanResolvers` may stop: `CHECK_DEADLOCK FALSE`, because once no hook could be installed
the game's resolutions are none of its business. `CodePatching` stops by design: an image
that has been reported is left as it is.

## What is proved

Every safety invariant and every action property a passing run checks is also a theorem, for
any number of threads, processes, modules, addresses, files, GPUs and images, and for code of
any length. What stays with TLC is liveness: `RuntimesIndexed`, `DeferredRuntimesUnlocked`,
`PluginsPatched`, `FinalTotalsWritten`, `LowLatencyComesOff`, `RequestComesBack` (temporal
reasoning with `ENABLED` is out of the prover's reach).

The assumptions. Those of most modules only say that sentinels differ from real values, which
sets are finite and what type a constant has; TLC evaluates all of them. Two say more, both in
`CodePatching`. `CodePatchingAssumption`: no GPU's id lies strictly between those of Ada and
Blackwell, 0x190 and 0x1B0 (`kernels/device.h:8-13`); moving a floor from one to the other
would otherwise open it to that GPU too. `BuildsAssumption`: what the builds of NVIDIA's files
are like, as the sources say they were found. A comparison that decides the frame count
publishes no other parameter, one that decides another capability publishes that one, and a
byte that once holds a boolean always does (`provider/multi_frame.h:32-34`,
`provider/multi_frame.cpp:33-35`, `streamline/plugin_patch.cpp:110-113`). Without it
neither `OtherAnswersStay` nor `AdaCountsAsBlackwell` would hold, as the code has nothing but the
published name to tell capabilities apart by. The runtimes and plugins of the run satisfy it.

* `RuntimeLoadingProofs`: types, every safety invariant of `RuntimeLoading`, and that it
  implements `RuntimeLifecycle`. None of the invariants is inductive alone; the strengthening
  comes in layers, each proved from the ones before. `TypeInvariant`: every actor at work on a
  module has one. `CounterIsExact`: the load counter is the number of threads in the hook.
  `Pinning`: what is recorded, listed again or being worked on is pinned and mapped, hence
  keeps its image. `Claims`: an image that is claimed is a runtime, and has been rewritten or
  its claimant is about to. `Duty`: a load that mapped a runtime is still in the hook, which by
  the counter the worker would have seen, and nobody but a load has claimed its image.
* `PluginLoadingProofs`: types, one patcher, images that stay, no stale record. A plugin is
  recorded before it is pinned, so a record alone says nothing of the image. `Records` says
  what it is: somebody's work, or an image that is pinned and has been dealt with. Together
  with `Recorded` (whoever is at work has a record) and `OnePatcher` itself it is inductive
  over `Pinning`.
* `NvapiProofs`, the spoof: truthful answers, activation before Ada, runtimes told Ada, the
  stub. The invariant says which steps a thread is at imply which stores are done
  (`CallsMove`), and that `g_real_architecture` is the architecture of some GPU already asked
  about. `AdaCallNeverRunsAlways` is the corollary for a machine with Ampere GPUs only.
* `NvapiProofs`, the installation: hooking NVAPI step by step implements `ArchSpoof`, so its
  theorems hold while hooks are being installed; only broken interfaces stay open, attempts are
  failures, `Start` leaves the architecture hooked. `ClaimHeld` ties `g_install_state` to who
  installs, `HookedFirst` says that nothing behind the architecture is hooked before it is, and
  `DealtWith` that an interface the installation has passed is hooked or has failed.
* `KernelProofs`, creation: what reaches the driver, the target, runnable images, answers,
  retries. The invariant `KInv` carries `ArchSpoof`'s own through every creation; `TargetInv`
  ties the target a call works with to the one of the process, and `OfferInv` says what an offer
  and a place in `DecideCubin` mean for the call. `RetryInv` follows a rejected offer to the
  second one: both come from one runtime, because the only index at the second decision was the
  only one at the first.
* `KernelProofs`, the summary: types, snapshot and news. Totals only grow, so two equal sums
  around a sequence of reads mean that nothing was counted in between (`FourSums`).
* `VulkanProofs`, the resolvers: types, no empty answer, the pair, dispatch. `Published` orders
  the steps of an installation, also when they fail; `Answering`, `Agreeing` and `Dispatching`
  tie the threads in a resolution and the pointers handed out to what is enabled, decided and
  recorded. The compare-and-swap of `ShouldWrap` is what `Agreeing` rests on.
* `VulkanProofs`, pacing: forcing a count costs the game no request, and never switches frame
  generation; latency requests made before frames were first generated reach the driver as
  made. `Undisturbed` is what it takes: a thread that has seen frames generated after a
  sleep came first has seen that sleep too, because it reads that flag second.
* `InterposerProofs`: for `AnswerTable` types, quiet only beyond the slots, reports only of
  changes. Slots are claimed in their order and keep their owner (`Claimed`), so what a thread
  has passed stays another's (`Passed`), no feature gets a second slot, and its slot holds what
  was reported last (`Reported`). `Interposer` implements the table, whichever hooks are live,
  so its reports too are of changes; and `Reaching` says that the wrapper is only ever in
  hands, of the game or of a thread about to return it, when what it calls is kept.
* `StartupProofs`: the DLL can be used and freed once loaded (`Usable`); a launch alone keeps the
  newest logs (`Undisturbed`: the directory is always what it keeps, followed by what it has
  yet to delete); overlapping launches leave a bounded number. That last one is the
  hardest: processes delete by lists that may be out of date, so no sum over single processes is
  bounded. `Budget` bounds, for *every* set of processes in the middle of pruning, the sum of
  the files that are on none of their lists nor open, the processes that have a log, and the
  size of the set. A
  process that lists may join the set, as its list covers all but `kKeptLogs - 1` of the files
  there are; one that is done leaves it, and the file it opens takes its place. Of `Budget` for
  the empty set `LogsBounded` is a consequence.
* `StartupProofs`, the settings: nothing is silently dropped, whatever the file holds. What
  `Ini::Load` makes of a file is a function defined by recursion over its lines. The library's
  induction theorems cannot be used, so `ReadingIs` shows that there is such a function and
  `LoadedIs` that it finds the last pair under a section, both by the least line at which they
  would fail (`Least`). Then every reader gives its text the meaning that is documented
  (`SettingsAsDocumented`), and the log has been told before the engine starts (`Named`).
* `CodePatchingProofs`: other answers stay, Ada counts as Blackwell, information means off,
  nothing is torn. Most lemmas are about the analyses: `Ordered` leaves no rewrite out and adds
  none (`OrderedHasAll`), every gate and flag store is rewritten as it should be and nothing
  else is (`GatesRewritten`, `FlipRewritten`, `ModelVersionStoreIs`, `ClampRewritten`), and the
  store after the model version that `InfoMeansOff` speaks of is the one the analysis
  finds (`ModelStoreFound`). `PatchingInv` follows the writes: what is left to do is a rest of
  the plan (`Pending`), an instruction is what it was or what the plan makes of it and is that
  once it counts as written (`Rewritten`), and a report says whether all were (`Reported`). A
  gate changes one byte (`OneByte`), which is why a runtime may be patched while it runs.

Some theorems are about invariants that no run lists: gates are only moved on a GPU that needs
it (`NativeGpuUntouchedAlways`), runnable images are left alone (`RunnableLeftAloneAlways`),
each summary is news, attempts are failures, and a quiet answer means that no slot is left.

## Where the code and its documents differ

Two runs are expected to end in a violation, each of one sentence of the repository:

* `UnlockedBeforeReturn` (`docs/ARCHITECTURE.md:161`): of two overlapping loads of one runtime
  the one that does not claim the gates can return before the other has rewritten them.
* `LoadKeepsItsPlugin` (`app/loader.cpp:67-69`): the worker lists plugins, then reads the load
  counter; a listed address can belong to a new load by the time it claims it. Runtimes do not
  have this problem, because only pinned records are used after the counter was read.

Others, seen while modelling, which no run is kept for:

* `SpoofCallers=none` makes the answer unconditional (`docs/CONFIGURATION.md:85`) unless the
  runtime is redirected: the list then names that runtime only.
* "Mapping it here, on this thread, makes the ordering certain" (`loader.cpp:411-413`): between
  the return of `LoadLibraryW` and the hook another thread can have NVAPI, too, and ask.
  `StartLeavesArchHooked` says what is certain.
* "The newest ten are kept" (`ARCHITECTURE.md:678-679`) holds for a launch on its own. Two that
  overlap prune by their own lists, so that more are kept, or a log written meanwhile is deleted
  as one of the oldest; `LogsBounded` says how many more.
* A rejected value is named in the log (`CONFIGURATION.md:27-28`) if there is one: at `Level=0`
  it is not. `Mode=` left empty is rejected, while every other empty value is the default.
* `ARCHITECTURE.md:604-607` shows a gate of a comparison, a move and a `cmovl`. The code looks
  only at the instruction directly after the comparison (`multi_frame.cpp:109-117`), and would
  leave that one alone.
* A floor read with "greater than" is moved like one read with "at least", which does not open
  it to Ada itself. A check that publishes nothing of its own, but stands just before another
  capability's name, is left alone. `AdaCountsAsBlackwell` is about the rest.
* Of several references to the model version only the first that a store follows is handled,
  while constant stores are rewritten through any base register (`plugin_patch.cpp:195-206`).
* A game that resolved `slDLSSGSetOptions` before the hooks keeps the real function, and an
  interposer that is unloaded and loaded again is not hooked again, as `g_installed` stays set
  (`streamline.cpp:437`).
* A load that finds its component mapped already patches it "at load" while it may be running
  (`loader.cpp:65-67`, `loader.cpp:199`, `plugin_patch.cpp:225`), if it was mapped before the
  GPU was known.
* With a second, not spoofed GPU in the machine `g_real_architecture` is the last one asked
  about, and the Ada-only call runs after a query about the other one (`ARCHITECTURE.md:82`,
  `nvapi.cpp:209`). `AdaCallStubbed` states exactly when.
* A `RuntimeFile` with a directory part is never recognised among the callers
  (`ARCHITECTURE.md:99-100`, `nvapi.cpp:124`): the leaf is compared with the whole setting.
* A kernel can be created before its runtime is indexed, and is then refused although the
  runtime holds a twin (`loader.cpp:214`). The only indexed runtime also answers for a caller
  that is another build and could not be identified (`substitute.h:65-66`, `substitute.cpp:195`).
* A cubin is refused when its container holds a runnable image but no PTX that can be
  retargeted (`substitute.h:20`, `substitute.cpp:220`).
* A driver's rejection after the last summary is never written (`substitute.h:111`,
  `substitute.cpp:348`).
* A function recorded for a device whose handle was used again is called for the new device,
  if the game resolves the new one's functions through `vkGetInstanceProcAddr` only
  (`ARCHITECTURE.md:590-592`, `loader_hooks.cpp:104-110`). `DeviceDispatch` is about the rest.
* The two latency functions are "always wrapped together" (`ARCHITECTURE.md:389-390`) only as
  far as both are resolved through a hooked resolver.
* A line in the log is written after the table has accepted the answer: of two threads with
  different answers the one that stored first may write last (`streamline.cpp:303-308`).
* `FrameGenerationOn` is "the game's last accepted" request (`streamline.h:22-23`) unless two
  threads set options at once: the flag is stored after Streamline has answered.

## Abstractions

* Locks with no call inside are one action; calls made outside them are actions of their own.
  The lock *order* is not modelled.
* The wake event is a hint: the worker may scan at any time, as its one-second rescan does.
* Outside `Startup` settings are constants, or chosen once in `Init`: `ApplySettings` runs
  before any hook exists. Modes that switch a component off entirely (`MultiFrame=0`, `VulkanHooks=0`) are left out.
* In the two loading modules the GPU becomes known once; several GPUs are `ArchSpoof`'s subject.
* In the two loading modules the analysis of machine code always finds its places in a real
  plugin or runtime and never in another module. When a patch does not fit a word of running code the
  plugin counts as handled.
* Images are architecture, kind, interface and readability; ELF, LZ4 and PTX text are not bytes
  here, nor is the search for the image in NVAPI's parameter block and its restoration after
  the call.
* The three kernel routes differ only in how the image is handed over, so they are one.
* In `CodeAnalysis` code is decoded already, so a pattern that matches in the middle of an
  instruction does not occur; the frame clamp, four instructions to the processor, is one. What a
  comparison decides (`decides`) is known to the properties and to nothing else. `at_load` is
  what the caller says: the second load of a mapped module, above, says so too.
* `Settings` takes names and values as they are once encoding, blanks, comments and letter case
  are gone. `Startup` takes the system DLL to be there with every export; a file's time of last
  write is its place in `logs`; Windows refuses to delete a file that is open as the log is.
* In `Interposer` a game drops what it holds of a plugin it unloads, does not resolve functions
  while it unloads it, and may be given the wrapper by a tool in front of Streamline only while
  it holds it. The interposer itself stays mapped.
* A query that NVAPI refuses changes nothing and is left out. Counters do not wrap.
* The re-entrance guard of the load hook, the refusal to pin an image of a redirected load
  that failed, and the order of `g_runtimes` are left out.
* The Reflex wrappers are held as a pair; one viewport. Once both Vulkan hooks have failed,
  the loader's reference is given back, which nothing here depends on.

Not modelled: the readers of PE, ELF, LZ4 and NVAPI's parameter block, the preferences `slInit`
is called with while diagnostics are on, the reports of other modules, the formatting of the
log, tests, tools and third-party headers. They are pure functions of bytes with unit tests of
their own, or output only. The order of locks is not modelled either: it is a question about
the Windows loader and MinHook more than about this code. `PROJECT.json` gives the reason for
each.

## Plan

Done, in this order: loader (runtimes, then plugins), spoof, kernels, summary, Vulkan, Reflex,
answer table; then the installation of the NVAPI hooks, settings and start-up with the log,
analysis and patching of code, the interposer; the proofs about each, those about pacing,
start-up, settings and code last.
Left, the most important first:

1. `PluginLoading` and `RuntimeLoading` take the writing of an image as one step: show that
   `CodePatching` implements it.
2. Several viewports in `FrameGeneration`, and the flag under two threads.
3. NVAPI's parameter block: the search for an image, its replacement and its restoration.
4. `LockOrder`: engine locks, the loader lock and thread suspension by MinHook.

## Running

    tlc -config RuntimeLoading.cfg RuntimeLoading.tla
    tlapm RuntimeLoadingProofs.tla

`PROJECT.json` names the module of every configuration. The largest run, `VulkanResolvers`, has
5.8 million distinct states and takes one to two minutes.
