-------------------------- MODULE PluginLoadingProofs --------------------------
(***************************************************************************)
(* Proofs about PluginLoading, for any number of threads, addresses and    *)
(* files.  A plugin is recorded before it is pinned, so a record alone     *)
(* says nothing of the image: the invariant says what every record is,     *)
(* somebody's work or an image that is pinned and settled.                 *)
(***************************************************************************)
EXTENDS PluginLoading, TLAPS

\* An actor past the point where it has a module has one.
AtModule == {"prepare", "claim", "pin", "write", "erase", "using"}
HasModule == \A a \in Actors : pc[a] \in AtModule => Subject(a) \in Handles

\* The variables keep their types, and every actor at work on a module has one.
LEMMA TypeInvariant == Spec => [](TypeOK /\ HasModule)
<1> USE PluginAssumption, TableAssumption DEF TypeOK, TableTypeOK, Actors, WorkerAt, InHook,
        Bytes, HasModule, AtModule, Subject
<1>1. Init => TypeOK /\ HasModule
  <2> SUFFICES ASSUME Init  PROVE TypeOK /\ HasModule
    OBVIOUS
  <2>1. /\ pc \in [Actors -> InHook \cup WorkerAt \cup {"idle", "using"}]
        /\ pc[Worker] = "scan"
        /\ \A t \in Threads : pc[t] = "idle"
    BY DEF Init
  <2>2. TableTypeOK
    BY DEF Init, TableInit
  <2>3. bytes \in [Handles -> Bytes] /\ due \in [Threads -> BOOLEAN]
    BY DEF Init
  <2>4. arch = "Unknown" /\ component_loads \in Int /\ patched = {} /\ listed = {}
        /\ current = NoHandle
    BY DEF Init
  <2> QED
    BY <2>1, <2>2, <2>3, <2>4
<1>2. TypeOK /\ HasModule /\ [Next]_vars => (TypeOK /\ HasModule)'
  <2> SUFFICES ASSUME TypeOK, HasModule, [Next]_vars
               PROVE  TypeOK' /\ HasModule'
    OBVIOUS
  <2> USE DEF Goto, Done, tableVars, workerVars
  <2>1. ASSUME NEW t \in Threads, EnterHook(t)  PROVE TypeOK' /\ HasModule'
    BY <2>1 DEF EnterHook
  <2>2. ASSUME NEW t \in Threads, LoadPlugin(t)  PROVE TypeOK' /\ HasModule'
    BY <2>2 DEF LoadPlugin, LoadModule
  <2>3. ASSUME NEW t \in Threads, LoadFails(t) \/ PreparePlugin(t)  PROVE TypeOK' /\ HasModule'
    BY <2>3 DEF LoadFails, PreparePlugin, Enabled
  <2>4. ASSUME NEW t \in Threads, LeaveHook(t)  PROVE TypeOK' /\ HasModule'
    BY <2>4 DEF LeaveHook
  <2>5. ASSUME NEW t \in Threads, FreePlugin(t)  PROVE TypeOK' /\ HasModule'
    BY <2>5 DEF FreePlugin, FreeModule, ImageAfterDrop, ForgetUnmapped
  <2>6. ASSUME NEW a \in Actors, Claim(a)  PROVE TypeOK' /\ HasModule'
    BY <2>6 DEF Claim, Known
  <2>7. ASSUME NEW a \in Actors, Pin(a)  PROVE TypeOK' /\ HasModule'
    BY <2>7 DEF Pin, PinModule
  <2>8. ASSUME NEW a \in Actors, WritePatches(a)  PROVE TypeOK' /\ HasModule'
    BY <2>8 DEF WritePatches
  <2>9. CASE PinFails \/ DropRecord
    BY <2>9 DEF PinFails, DropRecord
  <2>10. CASE ListPlugins \/ LookForLoads
    BY <2>10 DEF ListPlugins, LookForLoads
  <2>11. CASE PatchListed \/ EndScan
    BY <2>11 DEF PatchListed, EndScan
  <2>12. CASE Identify
    BY <2>12 DEF Identify
  <2>13. ASSUME NEW h \in Handles, ImportOrDrop(h)  PROVE TypeOK' /\ HasModule'
    BY <2>13 DEF ImportOrDrop, ImportModule, DropImport, ImageAfterDrop, ForgetUnmapped
  <2>14. CASE UNCHANGED vars
    BY <2>14 DEF vars
  <2> QED
    BY <2>1, <2>2, <2>3, <2>4, <2>5, <2>6, <2>7, <2>8, <2>9, <2>10, <2>11, <2>12, <2>13, <2>14
    DEF Next, Hooked, PatchPlugin, InspectPlugins
<1> QED
  BY <1>1, <1>2, PTL DEF Spec

\* Type correctness, and which program counters each actor can have.
THEOREM TypesAlways == Spec => []TypeOK
  BY TypeInvariant, PTL
-----------------------------------------------------------------------------
\* What may be relied on to stay mapped, and where bytes have been written.
Pinning ==
    /\ \A h \in pinned : Mapped(h)
    /\ \A t \in Threads : handle[t] \in Handles => Mapped(handle[t])
    /\ \A a \in Actors : pc[a] = "write" => Subject(a) \in pinned
    /\ \A h \in Handles : bytes[h] # "stock" => h \in pinned /\ image[h] \in Plugins

\* The actions that change which image is mapped where.
LEMMA ImagesMove ==
    ASSUME [Next]_vars
    PROVE  \/ UNCHANGED <<image, pinned, handle, imported>>
           \/ \E t \in Threads : LoadPlugin(t) \/ FreePlugin(t)
           \/ \E h \in Handles : ImportOrDrop(h)
           \/ \E a \in Actors : Pin(a)
<1> USE DEF tableVars, Actors
<1>1. ASSUME NEW t \in Threads, EnterHook(t) \/ LoadFails(t) \/ PreparePlugin(t) \/ LeaveHook(t)
      PROVE UNCHANGED tableVars
  BY <1>1 DEF EnterHook, LoadFails, PreparePlugin, LeaveHook
<1>2. ASSUME NEW a \in Actors, Claim(a) \/ WritePatches(a)  PROVE UNCHANGED tableVars
  BY <1>2 DEF Claim, WritePatches
<1>3. ASSUME ListPlugins \/ LookForLoads \/ PatchListed \/ EndScan \/ PinFails \/ DropRecord
             \/ Identify \/ UNCHANGED vars
      PROVE UNCHANGED tableVars
  BY <1>3 DEF ListPlugins, LookForLoads, PatchListed, EndScan, PinFails, DropRecord, Identify, vars
<1> QED
  BY <1>1, <1>2, <1>3 DEF Next, Hooked, PatchPlugin, InspectPlugins

\* No step replaces or unmaps an image that is pinned, or that a thread keeps its
\* reference to.
LEMMA ImagesStay ==
    ASSUME TypeOK, [Next]_vars, NEW h \in Handles, Mapped(h),
           h \in pinned \/ \E t \in Threads : handle[t] = h /\ handle'[t] = h
    PROVE  image'[h] = image[h] /\ (h \in pinned => h \in pinned')
<1> USE TableAssumption DEF TypeOK, TableTypeOK, Mapped
<1>1. ASSUME NEW t \in Threads, LoadPlugin(t)
      PROVE image'[h] = image[h] /\ (h \in pinned => h \in pinned')
  BY <1>1 DEF LoadPlugin, LoadModule, MapsAt
<1>2. ASSUME NEW t \in Threads, FreePlugin(t)
      PROVE image'[h] = image[h] /\ (h \in pinned => h \in pinned')
  <2>1. image' = image \/ (image' = [image EXCEPT ![handle[t]] = NoFile] /\ handle[t] \notin pinned
                            /\ \A u \in Threads \ {t} : handle[u] # handle[t])
    BY <1>2 DEF FreePlugin, FreeModule, ImageAfterDrop
  <2>2. handle'[t] = NoHandle /\ UNCHANGED pinned
    BY <1>2 DEF FreePlugin, FreeModule
  <2> QED
    BY <2>1, <2>2
<1>3. ASSUME NEW g \in Handles, ImportOrDrop(g)
      PROVE image'[h] = image[h] /\ (h \in pinned => h \in pinned')
  <2>1. CASE DropImport(g)
    BY <2>1 DEF DropImport, ImageAfterDrop
  <2>2. ASSUME NEW f \in Files, ImportModule(f, g)
        PROVE image'[h] = image[h] /\ (h \in pinned => h \in pinned')
    BY <2>2 DEF ImportModule, MapsAt
  <2> QED
    BY <1>3, <2>1, <2>2 DEF ImportOrDrop
<1>4. ASSUME NEW a \in Actors, Pin(a)
      PROVE image'[h] = image[h] /\ (h \in pinned => h \in pinned')
  BY <1>4 DEF Pin, PinModule
<1> QED
  BY <1>1, <1>2, <1>3, <1>4, ImagesMove

\* Whoever writes has pinned the image, and what is written to is a plugin that stays.
LEMMA PinningHolds == Spec => []Pinning
<1> USE PluginAssumption, TableAssumption DEF Actors, Subject, Mapped
<1>1. Init => Pinning
  BY DEF Init, TableInit, Pinning
<1>2. TypeOK /\ HasModule /\ Pinning /\ [Next]_vars => Pinning'
  <2> SUFFICES ASSUME TypeOK, HasModule, Pinning, [Next]_vars
               PROVE  Pinning'
    OBVIOUS
  <2> USE DEF Goto, Done, tableVars, workerVars, TypeOK, TableTypeOK
  <2>1. ASSUME NEW t \in Threads, EnterHook(t) \/ LoadFails(t) \/ PreparePlugin(t) \/ LeaveHook(t)
        PROVE Pinning'
    BY <2>1 DEF EnterHook, LoadFails, PreparePlugin, LeaveHook, Pinning
  <2>2. ASSUME NEW t \in Threads, LoadPlugin(t)  PROVE Pinning'
    BY <2>2 DEF LoadPlugin, LoadModule, MapsAt, Pinning
  <2>3. ASSUME NEW t \in Threads, FreePlugin(t)  PROVE Pinning'
    <3>1. /\ UNCHANGED <<pinned, current>>
          /\ \A u \in Threads \ {t} : handle'[u] = handle[u] /\ pc'[u] = pc[u]
          /\ handle'[t] = NoHandle /\ pc'[t] = "idle" /\ pc'[Worker] = pc[Worker]
          /\ \A h \in Handles : bytes'[h] # "stock" => bytes'[h] = bytes[h]
      BY <2>3 DEF FreePlugin, FreeModule, ForgetUnmapped
    <3>2. \A h \in pinned : image'[h] = image[h]
      BY ImagesStay DEF Pinning
    <3>3. \A u \in Threads \ {t} : handle[u] \in Handles => image'[handle[u]] = image[handle[u]]
      BY <3>1, ImagesStay DEF Pinning
    <3> QED
      BY <3>1, <3>2, <3>3 DEF Pinning
  <2>4. ASSUME NEW a \in Actors, Claim(a)  PROVE Pinning'
    BY <2>4 DEF Claim, Known, Pinning
  <2>5. ASSUME NEW a \in Actors, Pin(a)  PROVE Pinning'
    BY <2>5 DEF Pin, PinModule, Pinning
  <2>6. ASSUME NEW a \in Actors, WritePatches(a)  PROVE Pinning'
    BY <2>6 DEF WritePatches, Pinning
  <2>7. CASE ListPlugins \/ LookForLoads \/ PinFails \/ DropRecord
    BY <2>7 DEF ListPlugins, LookForLoads, PinFails, DropRecord, Pinning
  <2>8. CASE PatchListed \/ EndScan
    BY <2>8 DEF PatchListed, EndScan, Pinning
  <2>9. CASE Identify
    BY <2>9 DEF Identify, Pinning
  <2>10. ASSUME NEW h \in Handles, ImportOrDrop(h)  PROVE Pinning'
    <3>1. /\ UNCHANGED <<pinned, current, handle, pc>>
          /\ \A g \in Handles : bytes'[g] # "stock" => bytes'[g] = bytes[g]
      BY <2>10 DEF ImportOrDrop, ImportModule, DropImport, ForgetUnmapped
    <3>2. \A g \in pinned : image'[g] = image[g]
      BY ImagesStay DEF Pinning
    <3>3. \A t \in Threads : handle[t] \in Handles => image'[handle[t]] = image[handle[t]]
      BY <3>1, ImagesStay DEF Pinning
    <3> QED
      BY <3>1, <3>2, <3>3 DEF Pinning
  <2>11. CASE UNCHANGED vars
    BY <2>11 DEF vars, Pinning
  <2> QED
    BY <2>1, <2>2, <2>3, <2>4, <2>5, <2>6, <2>7, <2>8, <2>9, <2>10, <2>11
    DEF Next, Hooked, PatchPlugin, InspectPlugins
<1> QED
  BY <1>1, <1>2, TypeInvariant, PTL DEF Spec

\* An image is written to only while it is pinned, and what was written to stays.
THEOREM PatchedImagesStayAlways == Spec => []PatchedImagesStay
<1>1. Pinning /\ TypeOK /\ HasModule => PatchedImagesStay
  BY DEF Pinning, PatchedImagesStay, TypeOK, TableTypeOK
<1> QED
  BY <1>1, PinningHolds, TypeInvariant, PTL
-----------------------------------------------------------------------------
AtStep == {"pin", "write", "erase"}

\* Who is at work on a module, by the places its actors are at.
Recorded == \A a \in Actors : pc[a] \in AtStep => Subject(a) \in patched

\* Each record is somebody's work, or its image is pinned and has been dealt with.
Records ==
    \A h \in patched : \/ \E a \in Actors : AtWork(a, h)
                       \/ h \in pinned /\ (image[h] \in Plugins => bytes[h] # "stock")

Claims == OnePatcher /\ Recorded /\ Records

\* A step in which nobody takes up or finishes work, nothing is recorded, and no
\* image that is pinned changes.
LEMMA ClaimsKept ==
    ASSUME TypeOK, Claims, UNCHANGED patched,
           \A a \in Actors : /\ pc'[a] \in AtStep <=> pc[a] \in AtStep
                             /\ pc[a] \in AtStep => Subject(a)' = Subject(a),
           \A h \in patched : h \in pinned => h \in pinned' /\ image'[h] = image[h],
           \A h \in patched : h \in pinned /\ bytes[h] # "stock" => bytes'[h] # "stock"
    PROVE  Claims'
<1>1. \A a \in Actors : \A h \in Handles : AtWork(a, h)' <=> AtWork(a, h)
  BY DEF AtWork, AtStep
<1>2. OnePatcher'
  BY <1>1 DEF OnePatcher, Claims
<1>3. Recorded'
  BY DEF Recorded, Claims
<1>4. Records'
  BY <1>1 DEF Records, Claims, TypeOK
<1> QED
  BY <1>2, <1>3, <1>4 DEF Claims

\* One actor at a time works on a plugin, and no record outlives what it was made for.
LEMMA ClaimsHold == Spec => []Claims
<1> USE PluginAssumption, TableAssumption DEF Actors, Subject, AtStep
<1>1. Init => Claims
  BY DEF Init, Claims, OnePatcher, AtWork, Recorded, Records
<1>2. TypeOK /\ HasModule /\ Pinning /\ Claims /\ [Next]_vars => Claims'
  <2> SUFFICES ASSUME TypeOK, HasModule, Pinning, Claims, [Next]_vars
               PROVE  Claims'
    OBVIOUS
  <2> USE DEF Goto, Done, tableVars, workerVars
  <2> DEFINE ImagesKept == \A h \in patched : h \in pinned => h \in pinned' /\ image'[h] = image[h]
  <2>1. ImagesKept
    BY ImagesStay DEF Pinning, TypeOK
  <2>2. ASSUME NEW t \in Threads, EnterHook(t) \/ LoadFails(t) \/ PreparePlugin(t) \/ LeaveHook(t)
        PROVE Claims'
    <3>1. \A a \in Actors : /\ pc'[a] \in AtStep <=> pc[a] \in AtStep
                            /\ pc[a] \in AtStep => Subject(a)' = Subject(a)
      BY <2>2 DEF EnterHook, LoadFails, PreparePlugin, LeaveHook, TypeOK
    <3>2. UNCHANGED <<patched, bytes>>
      BY <2>2 DEF EnterHook, LoadFails, PreparePlugin, LeaveHook
    <3> QED
      BY <2>1, <3>1, <3>2, ClaimsKept
  <2>3. ASSUME NEW t \in Threads, LoadPlugin(t)  PROVE Claims'
    <3>1. \A a \in Actors : /\ pc'[a] \in AtStep <=> pc[a] \in AtStep
                            /\ pc[a] \in AtStep => Subject(a)' = Subject(a)
      BY <2>3 DEF LoadPlugin, LoadModule, TypeOK, TableTypeOK
    <3>2. UNCHANGED <<patched, bytes>>
      BY <2>3 DEF LoadPlugin
    <3> QED
      BY <2>1, <3>1, <3>2, ClaimsKept
  <2>4. ASSUME NEW t \in Threads, FreePlugin(t)  PROVE Claims'
    <3>1. \A a \in Actors : /\ pc'[a] \in AtStep <=> pc[a] \in AtStep
                            /\ pc[a] \in AtStep => Subject(a)' = Subject(a)
      BY <2>4 DEF FreePlugin, FreeModule, TypeOK, TableTypeOK
    <3>2. UNCHANGED patched
      BY <2>4 DEF FreePlugin
    <3>3. \A h \in patched : h \in pinned /\ bytes[h] # "stock" => bytes'[h] # "stock"
      BY <2>1, <2>4 DEF FreePlugin, ForgetUnmapped, Pinning, Mapped, TypeOK
    <3> QED
      BY <2>1, <3>1, <3>2, <3>3, ClaimsKept
  <2>5. ASSUME NEW h \in Handles, ImportOrDrop(h)  PROVE Claims'
    <3>1. UNCHANGED <<pc, patched, current, handle>>
      BY <2>5 DEF ImportOrDrop, ImportModule, DropImport
    <3>2. \A g \in patched : g \in pinned /\ bytes[g] # "stock" => bytes'[g] # "stock"
      BY <2>1, <2>5 DEF ImportOrDrop, ForgetUnmapped, Pinning, Mapped, TypeOK
    <3> QED
      BY <2>1, <3>1, <3>2, ClaimsKept
  <2>6. ASSUME NEW a \in Actors, Claim(a)  PROVE Claims'
    <3>1. UNCHANGED <<handle, current, image, pinned, bytes>>
      BY <2>6 DEF Claim
    <3>2. Subject(a) \in Handles
      BY <2>6 DEF Claim, HasModule, AtModule
    <3>3. CASE Known(a)
      <4>1. \A b \in Actors : pc'[b] \in AtStep <=> pc[b] \in AtStep
        BY <2>6, <3>3 DEF Claim, TypeOK
      <4>2. UNCHANGED patched
        BY <2>6, <3>3 DEF Claim, Known, TypeOK
      <4> QED
        BY <2>1, <3>1, <4>1, <4>2, ClaimsKept
    <3>4. CASE ~Known(a)
      <4>1. /\ patched' = patched \cup {Subject(a)} /\ Subject(a) \notin patched
            /\ pc[a] = "claim" /\ pc'[a] = "pin"
            /\ \A b \in Actors \ {a} : pc'[b] = pc[b]
        BY <2>6, <3>4 DEF Claim, Known, TypeOK
      <4>2. \A b \in Actors : ~AtWork(b, Subject(a))
        BY <4>1 DEF AtWork, Claims, Recorded
      <4>3. \A b \in Actors : \A h \in Handles :
              AtWork(b, h)' <=> AtWork(b, h) \/ (b = a /\ h = Subject(a))
        BY <3>1, <4>1 DEF AtWork
      <4>4. OnePatcher'
        BY <4>2, <4>3 DEF Claims, OnePatcher
      <4>5. Recorded'
        BY <3>1, <4>1 DEF Claims, Recorded
      <4>6. Records'
        BY <3>1, <3>2, <4>1, <4>3 DEF Claims, Records, TypeOK
      <4> QED
        BY <4>4, <4>5, <4>6 DEF Claims
    <3> QED
      BY <3>3, <3>4
  <2>7. ASSUME NEW a \in Actors, Pin(a)  PROVE Claims'
    <3>1. \A b \in Actors : pc'[b] \in AtStep <=> pc[b] \in AtStep
      BY <2>7 DEF Pin, TypeOK
    <3>2. UNCHANGED <<patched, bytes, handle, current>>
      BY <2>7 DEF Pin, PinModule
    <3> QED
      BY <2>1, <3>1, <3>2, ClaimsKept
  <2>8. ASSUME NEW a \in Actors, WritePatches(a)  PROVE Claims'
    <3>1. /\ UNCHANGED <<handle, current, image, pinned, patched>>
          /\ pc[a] = "write" /\ pc'[a] \notin AtStep
          /\ \A b \in Actors \ {a} : pc'[b] = pc[b]
      BY <2>8 DEF WritePatches, TypeOK
    <3>2. Subject(a) \in pinned /\ Subject(a) \in Handles
      BY <3>1 DEF Pinning, HasModule, AtModule
    <3>3. /\ image[Subject(a)] \in Plugins => bytes'[Subject(a)] # "stock"
          /\ \A h \in Handles \ {Subject(a)} : bytes'[h] = bytes[h]
      BY <2>8, <3>2 DEF WritePatches, TypeOK
    <3>4. \A b \in Actors : \A h \in Handles : AtWork(b, h)' <=> AtWork(b, h) /\ b # a
      BY <3>1 DEF AtWork
    <3>5. OnePatcher'
      BY <3>4 DEF Claims, OnePatcher
    <3>6. Recorded'
      BY <3>1 DEF Claims, Recorded
    <3>7. \A h \in Handles : AtWork(a, h) => h = Subject(a)
      BY DEF AtWork
    <3>8. Records'
      BY <3>1, <3>2, <3>3, <3>4, <3>7 DEF Claims, Records, TypeOK
    <3> QED
      BY <3>5, <3>6, <3>8 DEF Claims
  <2>9. CASE PinFails
    <3>1. \A b \in Actors : pc'[b] \in AtStep <=> pc[b] \in AtStep
      BY <2>9 DEF PinFails, TypeOK
    <3>2. UNCHANGED <<patched, bytes, handle, current>>
      BY <2>9 DEF PinFails
    <3> QED
      BY <2>1, <3>1, <3>2, ClaimsKept
  <2>10. CASE DropRecord
    <3>1. /\ UNCHANGED <<handle, current, image, pinned, bytes>>
          /\ patched' = patched \ {current}
          /\ pc[Worker] = "erase" /\ pc'[Worker] = "patch"
          /\ \A t \in Threads : pc'[t] = pc[t]
      BY <2>10 DEF DropRecord, TypeOK
    <3>2. current \in Handles /\ AtWork(Worker, current)
      BY <3>1 DEF HasModule, AtModule, AtWork
    <3>3. \A b \in Actors : \A h \in Handles : AtWork(b, h)' <=> AtWork(b, h) /\ b # Worker
      BY <3>1 DEF AtWork
    <3>4. \A t \in Threads : ~AtWork(t, current)
      BY <3>2 DEF Claims, OnePatcher
    <3>5. OnePatcher'
      BY <3>3 DEF Claims, OnePatcher
    <3>6. Recorded'
      BY <3>1, <3>2, <3>4 DEF Claims, Recorded, AtWork, HasModule, AtModule
    <3>7. \A h \in Handles : AtWork(Worker, h) => h = current
      BY DEF AtWork
    <3>8. Records'
      BY <3>1, <3>3, <3>7 DEF Claims, Records, TypeOK
    <3> QED
      BY <3>5, <3>6, <3>8 DEF Claims
  <2>11. CASE ListPlugins \/ LookForLoads \/ PatchListed \/ EndScan \/ Identify \/ UNCHANGED vars
    <3>1. \A a \in Actors : /\ pc'[a] \in AtStep <=> pc[a] \in AtStep
                            /\ pc[a] \in AtStep => Subject(a)' = Subject(a)
      BY <2>11 DEF ListPlugins, LookForLoads, PatchListed, EndScan, Identify, vars, TypeOK
    <3>2. UNCHANGED <<patched, bytes>>
      BY <2>11 DEF ListPlugins, LookForLoads, PatchListed, EndScan, Identify, vars
    <3> QED
      BY <2>1, <3>1, <3>2, ClaimsKept
  <2> QED
    BY <2>2, <2>3, <2>4, <2>5, <2>6, <2>7, <2>8, <2>9, <2>10, <2>11
    DEF Next, Hooked, PatchPlugin, InspectPlugins
<1> QED
  BY <1>1, <1>2, TypeInvariant, PinningHolds, PTL DEF Spec

\* The load hook and the worker never both patch the same image.
THEOREM OnePatcherAlways == Spec => []OnePatcher
<1>1. Claims => OnePatcher
  BY DEF Claims
<1> QED
  BY <1>1, ClaimsHold, PTL

\* A record stands for the image that is mapped now, however often the address of an
\* image that was gone before it could be pinned is used again.
THEOREM NoStaleRecordAlways == Spec => []NoStaleRecord
<1>1. Claims => NoStaleRecord
  BY DEF Claims, Records, NoStaleRecord
<1> QED
  BY <1>1, ClaimsHold, PTL
================================================================================
