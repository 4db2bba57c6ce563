----------------------------- MODULE ReflexPacingMC -----------------------------
(* A small instance of ReflexPacing: a multiplier, 4x or three frames, that     *)
(* Streamline accepts or refuses, and requests of every kind.                   *)
EXTENDS ReflexPacing

Options(mode, frames, newer) == [mode |-> mode, frames |-> frames, newer |-> newer]
MCRequests == {Options("off", 0, FALSE), Options("on", 1, FALSE), Options("on", 3, FALSE),
               Options("dynamic", 1, FALSE), Options("on", 1, TRUE)}
=============================================================================
