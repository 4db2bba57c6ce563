----------------------------- MODULE ModuleTable -----------------------------
(***************************************************************************)
(* The Windows loader's table of mapped modules, as the engine depends on  *)
(* it.  A module handle is the address an image is mapped at, so a handle  *)
(* outlives its image: after the last reference is dropped the same handle *)
(* can come to name another file.  A file is mapped at most once, each     *)
(* successful load is a reference, and a pinned image is never unmapped.   *)
(*                                                                         *)
(* Each thread holds at most one reference here, the one its latest load   *)
(* returned.  Images mapped as static imports of another DLL are owned by  *)
(* that DLL ("imported") and reach no thread.                              *)
(***************************************************************************)
CONSTANTS Threads,   \* the threads of the game that load and free modules
          Handles,   \* addresses a module can be mapped at
          Files,     \* module files that can be loaded
          NoFile,    \* nothing is mapped at an address
          NoHandle   \* a thread holds no reference

ASSUME TableAssumption ==
    /\ NoFile \notin Files
    /\ NoHandle \notin Handles

VARIABLES image,     \* the file mapped at each handle
          pinned,    \* handles pinned for the rest of the process
          imported,  \* handles kept mapped by a static import
          handle     \* the reference each thread holds

tableVars == <<image, pinned, imported, handle>>

TableTypeOK ==
    /\ image \in [Handles -> Files \cup {NoFile}]
    /\ pinned \in SUBSET Handles
    /\ imported \in SUBSET Handles
    /\ handle \in [Threads -> Handles \cup {NoHandle}]

TableInit ==
    /\ image = [h \in Handles |-> NoFile]
    /\ pinned = {}
    /\ imported = {}
    /\ handle = [t \in Threads |-> NoHandle]

Mapped(h) == image[h] # NoFile

\* Where loading f ends up: the image already mapped, or any free address.
MapsAt(f, h) ==
    \/ image[h] = f
    \/ ~Mapped(h) /\ \A g \in Handles : image[g] # f

\* LoadLibraryExW on thread t mapped, or found, f at h.
LoadModule(t, f, h) ==
    /\ MapsAt(f, h)
    /\ image' = [image EXCEPT ![h] = f]
    /\ handle' = [handle EXCEPT ![t] = h]
    /\ UNCHANGED <<pinned, imported>>

\* The image at h after an owner is gone, when `others` still reference it.
ImageAfterDrop(h, others) ==
    IF others \/ h \in pinned THEN image ELSE [image EXCEPT ![h] = NoFile]

\* FreeLibrary on thread t.
FreeModule(t) ==
    LET h == handle[t] IN
    /\ handle' = [handle EXCEPT ![t] = NoHandle]
    /\ image' = ImageAfterDrop(h, h \in imported \/ \E u \in Threads \ {t} : handle[u] = h)
    /\ UNCHANGED <<pinned, imported>>

\* A module that arrives, and leaves, as a static import of another DLL.
ImportModule(f, h) ==
    /\ h \notin imported
    /\ MapsAt(f, h)
    /\ image' = [image EXCEPT ![h] = f]
    /\ imported' = imported \cup {h}
    /\ UNCHANGED <<pinned, handle>>

DropImport(h) ==
    /\ h \in imported
    /\ imported' = imported \ {h}
    /\ image' = ImageAfterDrop(h, \E t \in Threads : handle[t] = h)
    /\ UNCHANGED <<pinned, handle>>

\* paths::PinModule: it pins whatever is mapped at the address by now.
PinModule(h) ==
    /\ Mapped(h)
    /\ pinned' = pinned \cup {h}
    /\ UNCHANGED <<image, imported, handle>>
=============================================================================
