--------------------------- MODULE VulkanResolversMC ---------------------------
(* Small instances of VulkanResolvers. *)
EXTENDS VulkanResolvers, TLC

CONSTANTS t1, t2, d1, d2

Interchangeable == Permutations({t1, t2}) \cup Permutations({d1, d2})
=============================================================================
