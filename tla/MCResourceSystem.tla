-------------------------- MODULE MCResourceSystem --------------------------
(***************************************************************************)
(* ResourceSystem for TLC: what the game asks for in the small instances.  *)
(***************************************************************************)
EXTENDS ResourceSystem

Ordinary == [level |-> 5, dont |-> FALSE, load |-> TRUE]
Streamed == [level |-> 4, dont |-> TRUE, load |-> TRUE]
CreateOnly == [level |-> 5, dont |-> FALSE, load |-> FALSE]

\* Resource 1 is ordinary, 2 is streamed when another resource refers to it, and 3
\* is a temporary one.
MCAsks ==
  {<<1, Ordinary>>, <<2, Streamed>>, <<2, CreateOnly>>, <<3, Ordinary>>}
    \intersect (Resources \X Priorities)
MCWaits == {<<1>>, <<3>>, <<1, 2>>} \intersect Seq(Resources)

=============================================================================
