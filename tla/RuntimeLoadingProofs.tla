------------------------- MODULE RuntimeLoadingProofs -------------------------
(***************************************************************************)
(* Proofs about RuntimeLoading, for any number of threads, addresses and   *)
(* files.  The inductive invariant is layered: types; the counter of loads *)
(* under way; what is pinned; who claimed what; and the loads' due.        *)
(***************************************************************************)
EXTENDS RuntimeLoading, FiniteSetTheorems, TLAPS

\* An actor past the point where it has a module has one.
AtModule == {"prepare", "pin", "push", "gates", "claim", "write", "index", "using"}
HasModule == \A a \in Actors : pc[a] \in AtModule => Subject(a) \in Handles

\* The variables keep their types, and every actor at work on a module has one.
LEMMA TypeInvariant == Spec => [](TypeOK /\ HasModule)
<1> USE RuntimeAssumption, TableAssumption DEF TypeOK, TableTypeOK, Actors, WorkerAt, InHook,
        HasModule, AtModule, Subject
<1>1. Init => TypeOK /\ HasModule
  <2> SUFFICES ASSUME Init  PROVE TypeOK /\ HasModule
    OBVIOUS
  <2>1. /\ pc \in [Actors -> InHook \cup WorkerAt \cup {"idle", "using"}]
        /\ pc[Worker] = "scan"
        /\ \A t \in Threads : pc[t] = "idle"
    BY DEF Init
  <2>2. HasModule
    BY <2>1
  <2>3. TableTypeOK
    BY DEF Init, TableInit
  <2>4. /\ claimant \in [Handles -> Actors \cup {Nobody}]
        /\ writes \in [Handles -> Nat]
        /\ due \in [Threads -> BOOLEAN]
    BY DEF Init
  <2>5. /\ arch = "Unknown" /\ component_loads \in Int
        /\ recorded = {} /\ indexed = {} /\ found = {} /\ listed = {} /\ current = NoHandle
    BY DEF Init
  <2>6. loading \in BOOLEAN
    BY Zenon DEF Init
  <2>7. TypeOK
    BY <2>1, <2>3, <2>4, <2>5, <2>6
  <2> QED
    BY <2>2, <2>7
<1>2. TypeOK /\ HasModule /\ [Next]_vars => (TypeOK /\ HasModule)'
  <2> SUFFICES ASSUME TypeOK, HasModule, [Next]_vars
               PROVE  TypeOK' /\ HasModule'
    OBVIOUS
  <2> USE DEF Goto, Settled, tableVars, workerVars
  <2>1. ASSUME NEW t \in Threads, EnterHook(t)  PROVE TypeOK' /\ HasModule'
    BY <2>1 DEF EnterHook
  <2>2. ASSUME NEW t \in Threads, LoadRuntime(t)  PROVE TypeOK' /\ HasModule'
    BY <2>2 DEF LoadRuntime, MaybeRedirect, LoadModule
  <2>3. ASSUME NEW t \in Threads, LoadFails(t)  PROVE TypeOK' /\ HasModule'
    BY <2>3 DEF LoadFails
  <2>4. ASSUME NEW t \in Threads, PrepareRuntime(t)  PROVE TypeOK' /\ HasModule'
    BY <2>4 DEF PrepareRuntime, AfterPrepare
  <2>5. ASSUME NEW t \in Threads, LeaveHook(t)  PROVE TypeOK' /\ HasModule'
    BY <2>5 DEF LeaveHook
  <2>6. ASSUME NEW t \in Threads, FreeRuntime(t)  PROVE TypeOK' /\ HasModule'
    BY <2>6 DEF FreeRuntime, FreeModule, ImageAfterDrop, ForgetUnmapped
  <2>7. ASSUME NEW a \in Actors, Pin(a)  PROVE TypeOK' /\ HasModule'
    BY <2>7 DEF Pin, PinModule
  <2>8. ASSUME NEW a \in Actors, Push(a)  PROVE TypeOK' /\ HasModule'
    BY <2>8 DEF Push
  <2>9. ASSUME NEW a \in Actors, MaybeUnlockMultiFrame(a)  PROVE TypeOK' /\ HasModule'
    BY <2>9 DEF MaybeUnlockMultiFrame, Enabled
  <2>10. ASSUME NEW a \in Actors, ClaimGates(a)  PROVE TypeOK' /\ HasModule'
    BY <2>10 DEF ClaimGates, Unclaimed
  <2>11. ASSUME NEW a \in Actors, UnlockMultiFrame(a)  PROVE TypeOK' /\ HasModule'
    BY <2>11 DEF UnlockMultiFrame
  <2>12. CASE ListRuntimes
    BY <2>12 DEF ListRuntimes
  <2>13. CASE RecordFound
    BY <2>13 DEF RecordFound
  <2>14. CASE PinFails \/ ListKnown
    BY <2>14 DEF PinFails, ListKnown
  <2>20. CASE LookForLoads
    BY <2>20 DEF LookForLoads, ComponentLoading
  <2>15. CASE InspectKnown
    BY <2>15 DEF InspectKnown, AfterLook
  <2>16. CASE BuildProviderIndex \/ EndScan
    BY <2>16 DEF BuildProviderIndex, EndScan
  <2>17. CASE Identify
    BY <2>17 DEF Identify
  <2>18. ASSUME NEW h \in Handles, ImportOrDrop(h)  PROVE TypeOK' /\ HasModule'
    BY <2>18 DEF ImportOrDrop, ImportModule, DropImport, ImageAfterDrop, ForgetUnmapped
  <2>19. CASE UNCHANGED vars
    BY <2>19 DEF vars
  <2> QED
    BY <2>1, <2>2, <2>3, <2>4, <2>5, <2>6, <2>7, <2>8, <2>9, <2>10, <2>11, <2>12, <2>13, <2>14,
       <2>15, <2>16, <2>17, <2>18, <2>19, <2>20
    DEF Next, Hooked, Prepare, InspectProvider
<1> QED
  BY <1>1, <1>2, PTL DEF Spec
-----------------------------------------------------------------------------
\* What moves the counter, and which threads are inside the hook.
LoadsUnderWay == {t \in Threads : pc[t] \in InHook}
LoadsCounted == component_loads = Cardinality(LoadsUnderWay)

\* Only entering and leaving the hook change who is inside it.
LEMMA LoadsMove ==
    ASSUME TypeOK, HasModule, [Next]_vars
    PROVE  \/ \E t \in Threads : EnterHook(t) \/ LeaveHook(t)
           \/ UNCHANGED component_loads /\ LoadsUnderWay' = LoadsUnderWay
<1> USE RuntimeAssumption DEF TypeOK, Actors, InHook, Goto, Settled
<1> DEFINE Same == UNCHANGED component_loads /\ \A t \in Threads : pc'[t] \in InHook <=> pc[t] \in InHook
<1>1. ASSUME NEW t \in Threads, LoadRuntime(t) \/ LoadFails(t) \/ PrepareRuntime(t)  PROVE Same
  BY <1>1 DEF LoadRuntime, LoadFails, PrepareRuntime, AfterPrepare
<1>2. ASSUME NEW t \in Threads, FreeRuntime(t)  PROVE Same
  BY <1>2 DEF FreeRuntime
<1>3. ASSUME NEW a \in Actors, Prepare(a)  PROVE Same
  BY <1>3 DEF Prepare, Pin, Push, MaybeUnlockMultiFrame, ClaimGates, UnlockMultiFrame
<1>4. ASSUME InspectProvider  PROVE Same
  <2>1. CASE ListRuntimes \/ RecordFound \/ PinFails \/ ListKnown
    BY <2>1 DEF ListRuntimes, RecordFound, PinFails, ListKnown
  <2>2. CASE LookForLoads \/ InspectKnown \/ BuildProviderIndex \/ EndScan
    BY <2>2 DEF LookForLoads, ComponentLoading, InspectKnown, BuildProviderIndex, EndScan
  <2> QED
    BY <1>3, <1>4, <2>1, <2>2 DEF InspectProvider
<1>5. ASSUME Identify \/ (\E h \in Handles : ImportOrDrop(h)) \/ UNCHANGED vars  PROVE Same
  BY <1>5 DEF Identify, ImportOrDrop, vars
<1>6. (\E t \in Threads : EnterHook(t) \/ LeaveHook(t)) \/ Same
  BY <1>1, <1>2, <1>3, <1>4, <1>5 DEF Next, Hooked
<1> QED
  BY <1>6 DEF LoadsUnderWay

\* g_component_loads counts the threads inside HookedLoadLibraryExW, so zero means
\* that no load of a component is under way.
LEMMA CounterIsExact == Spec => []LoadsCounted
<1>1. Init => LoadsCounted
  <2> SUFFICES ASSUME Init  PROVE LoadsUnderWay = {} /\ component_loads = 0
    BY FS_EmptySet DEF LoadsCounted
  <2> QED
    BY RuntimeAssumption DEF Init, LoadsUnderWay, Actors, InHook
<1>2. TypeOK /\ HasModule /\ LoadsCounted /\ [Next]_vars => LoadsCounted'
  <2> SUFFICES ASSUME TypeOK, HasModule, LoadsCounted, [Next]_vars
               PROVE  LoadsCounted'
    OBVIOUS
  <2>1. IsFiniteSet(LoadsUnderWay)
    BY RuntimeAssumption, FS_Subset DEF LoadsUnderWay
  <2>2. ASSUME NEW t \in Threads, EnterHook(t)  PROVE LoadsCounted'
    <3>1. LoadsUnderWay' = LoadsUnderWay \cup {t} /\ t \notin LoadsUnderWay
      BY <2>2, RuntimeAssumption DEF EnterHook, Goto, LoadsUnderWay, InHook, TypeOK, Actors
    <3>2. component_loads' = component_loads + 1
      BY <2>2 DEF EnterHook
    <3> QED
      BY <3>1, <3>2, <2>1, FS_AddElement DEF LoadsCounted
  <2>3. ASSUME NEW t \in Threads, LeaveHook(t)  PROVE LoadsCounted'
    <3>1. LoadsUnderWay' = LoadsUnderWay \ {t} /\ t \in LoadsUnderWay
      BY <2>3, RuntimeAssumption DEF LeaveHook, Goto, LoadsUnderWay, InHook, TypeOK, Actors
    <3>2. component_loads' = component_loads - 1
      BY <2>3 DEF LeaveHook
    <3> QED
      BY <3>1, <3>2, <2>1, FS_RemoveElement DEF LoadsCounted
  <2> QED
    BY <2>2, <2>3, LoadsMove DEF LoadsCounted
<1> QED
  BY <1>1, <1>2, TypeInvariant, PTL DEF Spec
-----------------------------------------------------------------------------
\* What is pinned, and what may be relied on to stay mapped.
Pinning ==
    /\ \A h \in pinned : Mapped(h)
    /\ \A t \in Threads : handle[t] \in Handles => Mapped(handle[t])
    /\ recorded \subseteq pinned
    /\ indexed \subseteq recorded
    /\ listed \subseteq recorded
    /\ \A a \in Actors : pc[a] = "push" => Subject(a) \in pinned
    /\ \A a \in Actors : pc[a] \in {"gates", "claim", "write", "index"} =>
           Subject(a) \in recorded /\ image[Subject(a)] \in Providers
    /\ \A t \in Threads : pc[t] \in {"pin", "push"} => image[handle[t]] \in Providers
    /\ \A h \in indexed : image[h] \in Providers

\* No step replaces or unmaps an image that is pinned, or that a thread keeps its
\* reference to.
LEMMA ImagesStay ==
    ASSUME TypeOK, HasModule, [Next]_vars, NEW h \in Handles, Mapped(h),
           h \in pinned \/ \E t \in Threads : handle[t] = h /\ handle'[t] = h
    PROVE  image'[h] = image[h] /\ (h \in pinned => h \in pinned')
<1> USE TableAssumption DEF TypeOK, TableTypeOK, Mapped, tableVars
<1>1. ASSUME NEW t \in Threads, LoadRuntime(t)
      PROVE image'[h] = image[h] /\ (h \in pinned => h \in pinned')
  BY <1>1 DEF LoadRuntime, MaybeRedirect, LoadModule, MapsAt
<1>2. ASSUME NEW t \in Threads, FreeRuntime(t)
      PROVE image'[h] = image[h] /\ (h \in pinned => h \in pinned')
  <2>1. image' = image \/ (image' = [image EXCEPT ![handle[t]] = NoFile] /\ handle[t] \notin pinned
                            /\ \A u \in Threads \ {t} : handle[u] # handle[t])
    BY <1>2 DEF FreeRuntime, FreeModule, ImageAfterDrop
  <2>2. handle'[t] = NoHandle /\ UNCHANGED pinned
    BY <1>2 DEF FreeRuntime, FreeModule
  <2> QED
    BY <2>1, <2>2
<1>3. ASSUME NEW g \in Handles, ImportOrDrop(g)
      PROVE image'[h] = image[h] /\ (h \in pinned => h \in pinned')
  <2>1. CASE DropImport(g)
    BY <2>1 DEF DropImport, ImageAfterDrop
  <2>2. ASSUME NEW f \in Files, ImportModule(f, g)
        PROVE image'[h] = image[h] /\ (h \in pinned => h \in pinned')
    BY <2>2 DEF ImportModule, MapsAt
  <2> QED
    BY <1>3, <2>1, <2>2 DEF ImportOrDrop
<1>4. ASSUME NEW a \in Actors, Pin(a)
      PROVE image'[h] = image[h] /\ (h \in pinned => h \in pinned')
  BY <1>4 DEF Pin, PinModule
<1>5. ASSUME NEW a \in Actors, Push(a) \/ MaybeUnlockMultiFrame(a) \/ ClaimGates(a) \/ UnlockMultiFrame(a)
      PROVE UNCHANGED tableVars
  BY <1>5 DEF Push, MaybeUnlockMultiFrame, ClaimGates, UnlockMultiFrame
<1>6. ASSUME NEW t \in Threads, EnterHook(t) \/ LoadFails(t) \/ PrepareRuntime(t) \/ LeaveHook(t)
      PROVE UNCHANGED tableVars
  BY <1>6 DEF EnterHook, LoadFails, PrepareRuntime, LeaveHook
<1>7. ASSUME ListRuntimes \/ RecordFound \/ PinFails \/ ListKnown \/ LookForLoads \/ InspectKnown
             \/ BuildProviderIndex \/ EndScan \/ Identify \/ UNCHANGED vars
      PROVE UNCHANGED tableVars
  BY <1>7 DEF ListRuntimes, RecordFound, PinFails, ListKnown, LookForLoads, InspectKnown, AfterLook,
              BuildProviderIndex, EndScan, Identify, vars
<1> QED
  BY <1>1, <1>2, <1>3, <1>4, <1>5, <1>6, <1>7 DEF Next, Hooked, Prepare, InspectProvider, Actors

\* Every record, and every image the index points into, is pinned first.
LEMMA PinningHolds == Spec => []Pinning
<1> USE RuntimeAssumption, TableAssumption DEF Actors, Subject, Mapped
<1>1. Init => Pinning
  BY DEF Init, TableInit, Pinning
<1>2. TypeOK /\ HasModule /\ Pinning /\ [Next]_vars => Pinning'
  <2> SUFFICES ASSUME TypeOK, HasModule, Pinning, [Next]_vars
               PROVE  Pinning'
    OBVIOUS
  <2> USE DEF Goto, Settled, tableVars, workerVars, TypeOK, TableTypeOK
  <2>1. ASSUME NEW t \in Threads, EnterHook(t)  PROVE Pinning'
    BY <2>1 DEF EnterHook, Pinning
  <2>2. ASSUME NEW t \in Threads, LoadRuntime(t)  PROVE Pinning'
    BY <2>2 DEF LoadRuntime, MaybeRedirect, LoadModule, MapsAt, Pinning
  <2>3. ASSUME NEW t \in Threads, LoadFails(t)  PROVE Pinning'
    BY <2>3 DEF LoadFails, Pinning
  <2>4. ASSUME NEW t \in Threads, PrepareRuntime(t)  PROVE Pinning'
    BY <2>4 DEF PrepareRuntime, AfterPrepare, Pinning
  <2>5. ASSUME NEW t \in Threads, LeaveHook(t)  PROVE Pinning'
    BY <2>5 DEF LeaveHook, Pinning
  <2>6. ASSUME NEW t \in Threads, FreeRuntime(t)  PROVE Pinning'
    <3>1. /\ UNCHANGED <<pinned, recorded, indexed, listed, current>>
          /\ \A u \in Threads \ {t} : handle'[u] = handle[u] /\ pc'[u] = pc[u]
          /\ handle'[t] = NoHandle /\ pc'[t] = "idle" /\ pc'[Worker] = pc[Worker]
      BY <2>6 DEF FreeRuntime, FreeModule
    <3>2. \A h \in pinned : image'[h] = image[h]
      BY ImagesStay DEF Pinning
    <3>3. \A u \in Threads \ {t} : handle[u] \in Handles => image'[handle[u]] = image[handle[u]]
      BY <3>1, ImagesStay DEF Pinning
    <3>4. \A u \in Threads \ {t} : pc[u] \in AtModule => handle[u] \in Handles
      BY DEF HasModule
    <3> QED
      BY <3>1, <3>2, <3>3, <3>4 DEF Pinning, AtModule
  <2>7. ASSUME NEW a \in Actors, Pin(a)  PROVE Pinning'
    BY <2>7 DEF Pin, PinModule, Pinning
  <2>8. ASSUME NEW a \in Actors, Push(a)  PROVE Pinning'
    BY <2>8 DEF Push, Pinning
  <2>9. ASSUME NEW a \in Actors, MaybeUnlockMultiFrame(a)  PROVE Pinning'
    BY <2>9 DEF MaybeUnlockMultiFrame, Enabled, Pinning
  <2>10. ASSUME NEW a \in Actors, ClaimGates(a)  PROVE Pinning'
    BY <2>10 DEF ClaimGates, Unclaimed, Pinning
  <2>11. ASSUME NEW a \in Actors, UnlockMultiFrame(a)  PROVE Pinning'
    BY <2>11 DEF UnlockMultiFrame, Pinning
  <2>12. CASE ListRuntimes
    BY <2>12 DEF ListRuntimes, Pinning
  <2>13. CASE RecordFound
    BY <2>13 DEF RecordFound, Pinning
  <2>14. CASE PinFails \/ ListKnown
    BY <2>14 DEF PinFails, ListKnown, Pinning
  <2>15. CASE LookForLoads
    BY <2>15 DEF LookForLoads, ComponentLoading, Pinning
  <2>16. CASE InspectKnown
    BY <2>16 DEF InspectKnown, AfterLook, Pinning
  <2>17. CASE BuildProviderIndex
    BY <2>17 DEF BuildProviderIndex, Pinning
  <2>20. CASE EndScan
    BY <2>20 DEF EndScan, Pinning
  <2>18. CASE Identify \/ UNCHANGED vars
    BY <2>18 DEF Identify, vars, Pinning
  <2>19. ASSUME NEW h \in Handles, ImportOrDrop(h)  PROVE Pinning'
    BY <2>19, ImagesStay DEF ImportOrDrop, ImportModule, DropImport, Pinning, HasModule, AtModule
  <2> QED
    BY <2>1, <2>2, <2>3, <2>4, <2>5, <2>6, <2>7, <2>8, <2>9, <2>10, <2>11, <2>12, <2>13, <2>14,
       <2>15, <2>16, <2>17, <2>18, <2>19, <2>20
    DEF Next, Hooked, Prepare, InspectProvider
<1> QED
  BY <1>1, <1>2, TypeInvariant, PTL DEF Spec

\* The variables of the loader keep their types (loader.cpp:56-71).
THEOREM TypesAlways == Spec => []TypeOK
BY TypeInvariant, PTL

\* RecordsArePinned for every number of threads, addresses and files.
THEOREM RecordsArePinnedAlways == Spec => []RecordsArePinned
<1>1. Pinning => RecordsArePinned
  BY DEF Pinning, RecordsArePinned
<1> QED
  BY <1>1, PinningHolds, PTL
-----------------------------------------------------------------------------
\* Who has claimed a runtime's gates, and how far the claimant has come.
Claims ==
    /\ \A h \in Handles \ recorded : claimant[h] = Nobody
    /\ \A h \in Handles : claimant[h] = Nobody => writes[h] = 0
    /\ \A h \in Handles : claimant[h] # Nobody =>
           /\ arch = "Supported"
           /\ image[h] \in Providers
           /\ \/ writes[h] = 1
              \/ writes[h] = 0 /\ pc[claimant[h]] = "write" /\ Subject(claimant[h]) = h
    /\ \A a \in Actors : pc[a] = "write" => claimant[Subject(a)] = a /\ writes[Subject(a)] = 0
    /\ \A a \in Actors : pc[a] = "claim" => arch = "Supported"

\* One actor claims each runtime, only on Ampere, and only it writes the gates.
LEMMA ClaimsHold == Spec => []Claims
<1> USE RuntimeAssumption, TableAssumption DEF Actors, Subject, Mapped
<1>1. Init => Claims
  BY DEF Init, TableInit, Claims
<1>2. TypeOK /\ HasModule /\ Pinning /\ Pinning' /\ Claims /\ [Next]_vars => Claims'
  <2> SUFFICES ASSUME TypeOK, HasModule, Pinning, Pinning', Claims, [Next]_vars
               PROVE  Claims'
    OBVIOUS
  <2>0. \A h \in Handles : claimant[h] # Nobody => h \in recorded /\ h \in pinned /\ image'[h] = image[h]
    BY ImagesStay DEF Claims, Pinning
  <2> USE DEF Goto, Settled, tableVars, workerVars, TypeOK, TableTypeOK
  <2>1. ASSUME NEW t \in Threads, EnterHook(t)  PROVE Claims'
    BY <2>1 DEF EnterHook, Claims
  <2>2. ASSUME NEW t \in Threads, LoadRuntime(t)  PROVE Claims'
    BY <2>0, <2>2 DEF LoadRuntime, MaybeRedirect, LoadModule, MapsAt, Claims
  <2>3. ASSUME NEW t \in Threads, LoadFails(t)  PROVE Claims'
    BY <2>3 DEF LoadFails, Claims
  <2>4. ASSUME NEW t \in Threads, PrepareRuntime(t)  PROVE Claims'
    BY <2>4 DEF PrepareRuntime, AfterPrepare, Claims
  <2>5. ASSUME NEW t \in Threads, LeaveHook(t)  PROVE Claims'
    BY <2>5 DEF LeaveHook, Claims
  <2>6. ASSUME NEW t \in Threads, FreeRuntime(t)  PROVE Claims'
    BY <2>0, <2>6 DEF FreeRuntime, FreeModule, ForgetUnmapped, Claims, Pinning
  <2>7. ASSUME NEW a \in Actors, Pin(a)  PROVE Claims'
    BY <2>7 DEF Pin, PinModule, Claims
  <2>8. ASSUME NEW a \in Actors, Push(a)  PROVE Claims'
    BY <2>8 DEF Push, Claims
  <2>9. ASSUME NEW a \in Actors, MaybeUnlockMultiFrame(a)  PROVE Claims'
    BY <2>9 DEF MaybeUnlockMultiFrame, Enabled, Claims
  <2>10. ASSUME NEW a \in Actors, ClaimGates(a)  PROVE Claims'
    BY <2>10 DEF ClaimGates, Unclaimed, Claims, Pinning
  <2>11. ASSUME NEW a \in Actors, UnlockMultiFrame(a)  PROVE Claims'
    BY <2>11 DEF UnlockMultiFrame, Claims
  <2>12. CASE ListRuntimes
    BY <2>12 DEF ListRuntimes, Claims
  <2>13. CASE RecordFound
    BY <2>13 DEF RecordFound, Claims
  <2>14. CASE PinFails \/ ListKnown
    BY <2>14 DEF PinFails, ListKnown, Claims
  <2>15. CASE LookForLoads
    BY <2>15 DEF LookForLoads, ComponentLoading, Claims
  <2>16. CASE InspectKnown
    BY <2>16 DEF InspectKnown, AfterLook, Claims
  <2>17. CASE BuildProviderIndex
    BY <2>17 DEF BuildProviderIndex, Claims
  <2>18. CASE EndScan
    BY <2>18 DEF EndScan, Claims
  <2>19. CASE Identify
    BY <2>19 DEF Identify, Claims
  <2>20. CASE UNCHANGED vars
    BY <2>20 DEF vars, Claims
  <2>21. ASSUME NEW h \in Handles, ImportOrDrop(h)  PROVE Claims'
    <3>1. UNCHANGED <<arch, recorded, claimant, pc, handle, current>> /\ ForgetUnmapped
      BY <2>21 DEF ImportOrDrop, ImportModule, DropImport
    <3>2. \A g \in Handles : claimant[g] # Nobody => image'[g] # NoFile
      BY <2>0, <3>1 DEF Pinning
    <3>3. \A g \in Handles : writes'[g] = IF image'[g] = NoFile THEN 0 ELSE writes[g]
      BY <3>1 DEF ForgetUnmapped
    <3>4. \A g \in Handles : writes'[g] = writes[g]
      BY <3>2, <3>3 DEF Claims
    <3> QED
      BY <2>0, <3>1, <3>4 DEF Claims, HasModule, AtModule
  <2> QED
    BY <2>1, <2>2, <2>3, <2>4, <2>5, <2>6, <2>7, <2>8, <2>9, <2>10, <2>11, <2>12, <2>13, <2>14,
       <2>15, <2>16, <2>17, <2>18, <2>19, <2>20, <2>21
    DEF Next, Hooked, Prepare, InspectProvider
<1> QED
  BY <1>1, <1>2, TypeInvariant, PinningHolds, PTL DEF Spec
-----------------------------------------------------------------------------
\* A load that is due to unlock its runtime, and a worker that may unlock what it
\* has listed, because it saw no load under way, are never after the same runtime.
Unlocking == {"gates", "claim", "write"}
Duty ==
    /\ \A t \in Threads : due[t] =>
           /\ pc[t] \in InHook \ {"load"}
           /\ handle[t] \in Handles
           /\ arch = "Supported"
           /\ image[handle[t]] \in Providers
           /\ claimant[handle[t]] # Worker
           /\ pc[t] = "leave" => claimant[handle[t]] # Nobody
    /\ pc[Worker] \in Unlocking => ~loading
    /\ pc[Worker] \in Unlocking \cup {"inspect", "index"} /\ ~loading =>
           \A t \in Threads : due[t] =>
               /\ handle[t] \notin listed
               /\ pc[Worker] \in Unlocking => handle[t] # current

\* The duty of a load survives everything the worker and the other threads do.
LEMMA DutyHolds == Spec => []Duty
<1> USE RuntimeAssumption, TableAssumption DEF Actors, Subject, Mapped
<1>1. Init => Duty
  BY DEF Init, TableInit, Duty, Unlocking
<1>2. TypeOK /\ HasModule /\ LoadsCounted /\ Pinning /\ Claims /\ Duty /\ [Next]_vars => Duty'
  <2> SUFFICES ASSUME TypeOK, HasModule, LoadsCounted, Pinning, Claims, Duty, [Next]_vars
               PROVE  Duty'
    OBVIOUS
  <2> USE DEF Goto, Settled, tableVars, workerVars, TypeOK, TableTypeOK, Duty, Unlocking, InHook
  <2>1. ASSUME NEW t \in Threads, EnterHook(t)  PROVE Duty'
    BY <2>1 DEF EnterHook
  <2>2. ASSUME NEW t \in Threads, LoadRuntime(t)  PROVE Duty'
    <3>1. PICK f \in RuntimeNamed \cup MaybeRedirect, h \in Handles :
              /\ LoadModule(t, f, h)
              /\ due' = [due EXCEPT ![t] = ~Mapped(h) /\ f \in Providers /\ arch = "Supported"]
      BY <2>2 DEF LoadRuntime
    <3>2. ~Mapped(h) => h \notin recorded /\ h \notin listed /\ claimant[h] = Nobody
                        /\ (pc[Worker] \in Unlocking => h # current)
      BY DEF Pinning, Claims
    <3>3. /\ pc' = [pc EXCEPT ![t] = "prepare"] /\ handle' = [handle EXCEPT ![t] = h]
          /\ UNCHANGED <<arch, claimant, listed, loading, current>>
      BY <2>2, <3>1 DEF LoadRuntime, MaybeRedirect, LoadModule
    <3>4. image'[h] = f /\ \A u \in Threads \ {t} : due[u] => image'[handle[u]] = image[handle[u]]
      BY <3>1 DEF LoadModule, MapsAt
    <3> QED
      BY <3>1, <3>2, <3>3, <3>4
  <2>3. ASSUME NEW t \in Threads, LoadFails(t)  PROVE Duty'
    BY <2>3 DEF LoadFails
  <2>4. ASSUME NEW t \in Threads, PrepareRuntime(t)  PROVE Duty'
    BY <2>4 DEF PrepareRuntime, AfterPrepare
  <2>5. ASSUME NEW t \in Threads, LeaveHook(t)  PROVE Duty'
    BY <2>5 DEF LeaveHook
  <2>6. ASSUME NEW t \in Threads, FreeRuntime(t)  PROVE Duty'
    <3>1. /\ UNCHANGED <<arch, claimant, due, listed, loading, current>> /\ ~due[t]
          /\ handle' = [handle EXCEPT ![t] = NoHandle] /\ pc' = [pc EXCEPT ![t] = "idle"]
      BY <2>6 DEF FreeRuntime, FreeModule
    <3>2. \A u \in Threads : due[u] => handle'[u] = handle[u] /\ image'[handle[u]] = image[handle[u]]
      BY <3>1, ImagesStay DEF Pinning
    <3> QED
      BY <3>1, <3>2
  <2>7. ASSUME NEW a \in Actors, Pin(a)  PROVE Duty'
    BY <2>7 DEF Pin, PinModule
  <2>8. ASSUME NEW a \in Actors, Push(a)  PROVE Duty'
    BY <2>8 DEF Push
  <2>9. ASSUME NEW a \in Actors, MaybeUnlockMultiFrame(a)  PROVE Duty'
    BY <2>9 DEF MaybeUnlockMultiFrame, Enabled
  <2>10. ASSUME NEW a \in Actors, ClaimGates(a)  PROVE Duty'
    BY <2>10 DEF ClaimGates, Unclaimed
  <2>11. ASSUME NEW a \in Actors, UnlockMultiFrame(a)  PROVE Duty'
    BY <2>11 DEF UnlockMultiFrame, Claims
  <2>12. CASE ListRuntimes \/ RecordFound
    BY <2>12 DEF ListRuntimes, RecordFound
  <2>13. CASE PinFails \/ ListKnown
    BY <2>13 DEF PinFails, ListKnown
  <2>14. CASE LookForLoads
    <3>1. ASSUME component_loads = 0, NEW t \in Threads  PROVE ~due[t]
      <4>1. IsFiniteSet(LoadsUnderWay)
        BY FS_Subset DEF LoadsUnderWay
      <4>2. LoadsUnderWay = {}
        BY <3>1, <4>1, FS_EmptySet DEF LoadsCounted
      <4> QED
        BY <4>2 DEF LoadsUnderWay
    <3>2. component_loads \in Nat
      <4>1. IsFiniteSet(LoadsUnderWay)
        BY FS_Subset DEF LoadsUnderWay
      <4> QED
        BY <4>1, FS_CardinalityType DEF LoadsCounted
    <3> QED
      BY <2>14, <3>1, <3>2 DEF LookForLoads, ComponentLoading
  <2>15. CASE InspectKnown
    BY <2>15 DEF InspectKnown, AfterLook
  <2>16. CASE BuildProviderIndex
    BY <2>16 DEF BuildProviderIndex
  <2>17. CASE EndScan
    BY <2>17 DEF EndScan
  <2>18. CASE Identify
    BY <2>18 DEF Identify
  <2>19. CASE UNCHANGED vars
    BY <2>19 DEF vars
  <2>20. ASSUME NEW h \in Handles, ImportOrDrop(h)  PROVE Duty'
    <3>1. UNCHANGED <<arch, claimant, due, listed, loading, current, handle, pc>>
      BY <2>20 DEF ImportOrDrop, ImportModule, DropImport
    <3>2. \A u \in Threads : due[u] => image'[handle[u]] = image[handle[u]]
      BY <3>1, ImagesStay DEF Pinning
    <3> QED
      BY <3>1, <3>2
  <2> QED
    BY <2>1, <2>2, <2>3, <2>4, <2>5, <2>6, <2>7, <2>8, <2>9, <2>10, <2>11, <2>12, <2>13, <2>14,
       <2>15, <2>16, <2>17, <2>18, <2>19, <2>20
    DEF Next, Hooked, Prepare, InspectProvider
<1> QED
  BY <1>1, <1>2, TypeInvariant, CounterIsExact, PinningHolds, ClaimsHold, PTL DEF Spec

-----------------------------------------------------------------------------

\* Only DLSS-G runtimes are rewritten or indexed, although the worker names them
\* by addresses that other modules can come to occupy.
THEOREM OnlyRuntimesTouchedAlways == Spec => []OnlyRuntimesTouched
<1>1. TypeOK /\ Pinning /\ Claims => OnlyRuntimesTouched
  BY DEF TypeOK, Pinning, Claims, OnlyRuntimesTouched
<1> QED
  BY <1>1, TypeInvariant, PinningHolds, ClaimsHold, PTL

\* No image is rewritten twice, however its loads and the scans overlap.
THEOREM UnlockedOnceAlways == Spec => []UnlockedOnce
<1>1. TypeOK /\ Claims => UnlockedOnce
  BY RuntimeAssumption DEF TypeOK, Claims, UnlockedOnce
<1> QED
  BY <1>1, TypeInvariant, ClaimsHold, PTL

\* A GPU that needs nothing gets nothing.
THEOREM NativeGpuUntouchedAlways == Spec => []NativeGpuUntouched
<1>1. Claims => NativeGpuUntouched
  BY DEF Claims, NativeGpuUntouched
<1> QED
  BY <1>1, ClaimsHold, PTL

\* The counter does its work: the worker never takes a runtime from the load that
\* mapped it.
THEOREM LoadKeepsItsRuntimeAlways == Spec => []LoadKeepsItsRuntime
<1>1. Duty => LoadKeepsItsRuntime
  BY DEF Duty, LoadKeepsItsRuntime
<1> QED
  BY <1>1, DutyHolds, PTL

\* When the load that mapped a runtime on a known Ampere GPU returns, its gates have
\* been rewritten or another load is rewriting them.
THEOREM SomeLoadUnlocksAlways == Spec => []SomeLoadUnlocks
<1>1. TypeOK /\ Claims /\ Duty => SomeLoadUnlocks
  BY RuntimeAssumption DEF TypeOK, Claims, Duty, SomeLoadUnlocks, Actors, Subject
<1> QED
  BY <1>1, TypeInvariant, ClaimsHold, DutyHolds, PTL
-----------------------------------------------------------------------------

\* A step that leaves every runtime's stage and the index alone is a stutter.
LEMMA LifecycleStutters ==
    ASSUME \A h \in Handles : Stage(h)' = Stage(h), UNCHANGED indexed
    PROVE  UNCHANGED <<[h \in Handles |-> Stage(h)], indexed>>
BY Zenon

\* The pinned images keep their bytes, so a record never falls back a stage.
LEMMA BytesStay ==
    ASSUME TypeOK, HasModule, Pinning, [Next]_vars, ForgetUnmapped
    PROVE  \A h \in recorded : writes'[h] = writes[h]
<1>1. \A h \in recorded : h \in Handles /\ image'[h] # NoFile
  BY ImagesStay DEF Pinning, Mapped, TypeOK, TableTypeOK
<1> QED
  BY <1>1 DEF ForgetUnmapped

\* RuntimeLoading implements RuntimeLifecycle: whichever actors meet at a runtime, it
\* is recorded, claimed and unlocked once each and in that order, and never forgotten.
THEOREM ImplementsLifecycleAlways == Spec => ImplementsLifecycle
<1> DEFINE StageFn == [h \in Handles |-> Stage(h)]
<1> USE RuntimeAssumption, TableAssumption DEF Actors, Subject, TypeOK, TableTypeOK, Stage
<1>1. Init => Lifecycle!Init
  BY DEF Init, Lifecycle!Init
<1>2. TypeOK /\ HasModule /\ Pinning /\ Claims /\ [Next]_vars => [Lifecycle!Next]_<<StageFn, indexed>>
  <2> SUFFICES ASSUME TypeOK, HasModule, Pinning, Claims, [Next]_vars
               PROVE  Lifecycle!Next \/ UNCHANGED <<StageFn, indexed>>
    BY Zenon
  <2> USE DEF Goto, tableVars, workerVars
  <2> DEFINE Stutter == (\A h \in Handles : Stage(h)' = Stage(h)) /\ UNCHANGED indexed
  <2>1. ASSUME NEW t \in Threads,
               EnterHook(t) \/ LoadRuntime(t) \/ LoadFails(t) \/ PrepareRuntime(t) \/ LeaveHook(t)
        PROVE  Stutter
    BY <2>1 DEF EnterHook, LoadRuntime, LoadFails, PrepareRuntime, LeaveHook
  <2>2. ASSUME NEW t \in Threads, FreeRuntime(t)  PROVE Stutter
    <3>1. UNCHANGED <<recorded, claimant, indexed>> /\ \A h \in recorded : writes'[h] = writes[h]
      BY <2>2, BytesStay DEF FreeRuntime
    <3> QED
      BY <3>1
  <2>3. ASSUME NEW h \in Handles, ImportOrDrop(h)  PROVE Stutter
    <3>1. UNCHANGED <<recorded, claimant, indexed>> /\ \A g \in recorded : writes'[g] = writes[g]
      BY <2>3, BytesStay DEF ImportOrDrop
    <3> QED
      BY <3>1
  <2>4. ASSUME NEW a \in Actors, Pin(a) \/ MaybeUnlockMultiFrame(a)  PROVE Stutter
    BY <2>4 DEF Pin, MaybeUnlockMultiFrame
  <2>5. ASSUME ListRuntimes \/ RecordFound \/ PinFails \/ ListKnown \/ LookForLoads
               \/ InspectKnown \/ EndScan \/ Identify \/ UNCHANGED vars
        PROVE  Stutter
    BY <2>5 DEF ListRuntimes, RecordFound, PinFails, ListKnown, LookForLoads, InspectKnown, AfterLook,
                EndScan, Identify, vars
  <2>6. ASSUME NEW a \in Actors, Push(a)  PROVE Lifecycle!Next \/ Stutter
    <3>0. PICK h \in Handles : h = Subject(a)
      BY <2>6 DEF Push, HasModule, AtModule
    <3>1. h \in Handles /\ recorded' = recorded \cup {h}
          /\ UNCHANGED <<claimant, writes, indexed>>
      BY <2>6, <3>0 DEF Push, HasModule, AtModule
    <3>2. CASE h \in recorded
      BY <3>0, <3>1, <3>2
    <3>3. CASE h \notin recorded
      <4>1. claimant[h] = Nobody
        BY <3>0, <3>1, <3>3 DEF Claims
      <4>2. StageFn' = [StageFn EXCEPT ![h] = "recorded"] /\ StageFn[h] = "absent"
        BY <3>0, <3>1, <3>3, <4>1
      <4>3. Lifecycle!Record(h)
        BY <3>0, <3>1, <4>2 DEF Lifecycle!Record, Lifecycle!Advance
      <4> QED
        BY <3>0, <3>1, <4>3 DEF Lifecycle!Next
    <3> QED
      BY <3>2, <3>3
  <2>7. ASSUME NEW a \in Actors, ClaimGates(a)  PROVE Lifecycle!Next \/ Stutter
    <3>0. PICK h \in Handles : h = Subject(a)
      BY <2>7 DEF ClaimGates, Unclaimed, HasModule, AtModule
    <3>1. h \in recorded /\ h \in Handles
      BY <2>7, <3>0 DEF ClaimGates, Unclaimed, HasModule, AtModule, Pinning
    <3>2. CASE claimant[h] # Nobody
      BY <2>7, <3>0, <3>2 DEF ClaimGates, Unclaimed
    <3>3. CASE claimant[h] = Nobody
      <4>1. claimant' = [claimant EXCEPT ![h] = a] /\ UNCHANGED <<recorded, writes, indexed>>
        BY <2>7, <3>0, <3>3 DEF ClaimGates, Unclaimed
      <4>2. writes[h] = 0
        BY <3>0, <3>1, <3>3 DEF Claims
      <4>3. StageFn' = [StageFn EXCEPT ![h] = "claimed"] /\ StageFn[h] = "recorded"
        BY <3>0, <3>1, <3>3, <4>1, <4>2
      <4>4. Lifecycle!Claim(h)
        BY <4>1, <4>3 DEF Lifecycle!Claim, Lifecycle!Advance
      <4> QED
        BY <3>0, <3>1, <4>4 DEF Lifecycle!Next
    <3> QED
      BY <3>2, <3>3
  <2>8. ASSUME NEW a \in Actors, UnlockMultiFrame(a)  PROVE Lifecycle!Next
    <3>0. PICK h \in Handles : h = Subject(a)
      BY <2>8 DEF UnlockMultiFrame, HasModule, AtModule
    <3>1. h \in recorded /\ h \in Handles
      BY <2>8, <3>0 DEF UnlockMultiFrame, HasModule, AtModule, Pinning
    <3>2. claimant[h] # Nobody /\ writes[h] = 0
      BY <2>8, <3>0 DEF UnlockMultiFrame, Claims
    <3>3. writes' = [writes EXCEPT ![h] = 1] /\ UNCHANGED <<recorded, claimant, indexed>>
      BY <2>8, <3>0, <3>1, <3>2 DEF UnlockMultiFrame
    <3>4. StageFn' = [StageFn EXCEPT ![h] = "unlocked"] /\ StageFn[h] = "claimed"
      BY <3>0, <3>1, <3>2, <3>3
    <3>5. Lifecycle!Unlock(h)
      BY <3>3, <3>4 DEF Lifecycle!Unlock, Lifecycle!Advance
    <3> QED
      BY <3>0, <3>1, <3>5 DEF Lifecycle!Next
  <2>9. ASSUME BuildProviderIndex  PROVE Lifecycle!Next
    <3>1. current \in recorded /\ current \in Handles
      BY <2>9 DEF BuildProviderIndex, HasModule, AtModule, Pinning
    <3>2. StageFn[current] # "absent"
      BY <3>1
    <3>3. UNCHANGED StageFn
      BY <2>9 DEF BuildProviderIndex
    <3>4. Lifecycle!Index(current)
      BY <2>9, <3>2, <3>3 DEF BuildProviderIndex, Lifecycle!Index
    <3> QED
      BY <3>1, <3>4 DEF Lifecycle!Next
  <2>10. Stutter => UNCHANGED <<StageFn, indexed>>
    BY LifecycleStutters
  <2> QED
    BY <2>1, <2>2, <2>3, <2>4, <2>5, <2>6, <2>7, <2>8, <2>9, <2>10
    DEF Next, Hooked, Prepare, InspectProvider
<1> QED
  BY <1>1, <1>2, TypeInvariant, PinningHolds, ClaimsHold, PTL
  DEF Spec, ImplementsLifecycle, Lifecycle!Spec
=============================================================================
