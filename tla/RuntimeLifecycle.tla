--------------------------- MODULE RuntimeLifecycle ---------------------------
(***************************************************************************)
(* What the loader promises about each DLSS-G runtime, whichever actors    *)
(* handle it: it is recorded, then claimed by one of them, then its        *)
(* multi-frame gates are rewritten, once, and no step is ever taken back.  *)
(* Indexing goes alongside and is not taken back either.                   *)
(***************************************************************************)
CONSTANT Handles

VARIABLES stage,  \* how far each runtime has come
          usable  \* the runtimes whose kernels can be answered

Init == stage = [h \in Handles |-> "absent"] /\ usable = {}

Advance(h, from, to) == stage[h] = from /\ stage' = [stage EXCEPT ![h] = to] /\ UNCHANGED usable

Record(h) == Advance(h, "absent", "recorded")
Claim(h) == Advance(h, "recorded", "claimed")
Unlock(h) == Advance(h, "claimed", "unlocked")

Index(h) ==
    /\ stage[h] # "absent"
    /\ usable' = usable \cup {h}
    /\ UNCHANGED stage

Next == \E h \in Handles : Record(h) \/ Claim(h) \/ Unlock(h) \/ Index(h)

Spec == Init /\ [][Next]_<<stage, usable>>
=============================================================================
