------------------------------ MODULE InterposerMC ------------------------------
(* A small instance of Interposer; threads and features are interchangeable.      *)
EXTENDS Interposer, TLC

CONSTANTS t1, t2, f1, f2, f3
MCExports == <<"slGetFeatureFunction", "slIsFeatureSupported", "slIsFeatureLoaded">>
Symmetric == Permutations({t1, t2}) \cup Permutations({f1, f2, f3})
=============================================================================
