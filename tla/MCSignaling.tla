----------------------------- MODULE MCSignaling -----------------------------
(***************************************************************************)
(* Signaling for TLC: two consoles of this code, or one with a stranger.   *)
(***************************************************************************)
EXTENDS Signaling, TLC

CONSTANTS A, B, R

OneEach == [p \in Nodes |-> 1]
None == [p \in Nodes |-> 0]
FirstOnly == [p \in Nodes |-> IF p = A THEN 1 ELSE 0]
TwoEach == [p \in Nodes |-> 2]

=============================================================================
