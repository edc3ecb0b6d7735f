---------------------------- MODULE MCLazyCache ----------------------------
(***************************************************************************)
(* Instance of LazyCache for TLC: a small and a large file.                *)
(***************************************************************************)
EXTENDS LazyCache

CONSTANTS small, large

MCFiles == {small, large}
MCSizeOf == [h \in MCFiles |-> IF h = small THEN 1 ELSE 2]

=============================================================================
