---------------------------- MODULE MCJobManager ----------------------------
(***************************************************************************)
(* JobManager for TLC: what the callers of the small instances ask for.    *)
(***************************************************************************)
EXTENDS JobManager, TLC

CONSTANTS c1, c2

\* Caller c1 asks twice for ordinary work, c2 once for urgent work; the tags
\* tell their jobs apart.
MCRequests == {<<c1, 0, "x">>, <<c2, 1, "y">>}

MCMaxCalls == (c1 :> 2) @@ (c2 :> 1)

=============================================================================
