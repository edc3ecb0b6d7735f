----------------------- MODULE MCDecompressionStream -----------------------
(***************************************************************************)
(* DecompressionStream for TLC: a few streams of up to four blocks.        *)
(***************************************************************************)
EXTENDS DecompressionStream

Packed(n) == [size |-> n, packed |-> TRUE, sound |-> TRUE]
Damaged(n) == [size |-> n, packed |-> TRUE, sound |-> FALSE]
Stored(n) == [size |-> n, packed |-> FALSE, sound |-> TRUE]

MCStreams ==
  { <<Packed(1), Packed(2), Packed(1), Packed(1)>>,
    <<Packed(1), Stored(2), Packed(2), Packed(1)>>,
    <<Stored(1), Packed(2), Damaged(1)>>,
    <<Packed(1), Packed(0)>>,
    <<>> }

=============================================================================
