------------------------------ MODULE JobPool ------------------------------
(***************************************************************************)
(* What CJobManager promises the code that hands it work, whatever its     *)
(* threads, queues and semaphores do: a job that was submitted is started  *)
(* at most once, by one worker, never ahead of a more urgent job that is   *)
(* waiting, and is finished only after it was started.                     *)
(***************************************************************************)
EXTENDS Integers

CONSTANT Jobs            \* the jobs that can be submitted; j.key orders them

VARIABLES
  waiting,               \* submitted, taken by no worker
  running,               \* taken by a worker, function not yet returned
  finished               \* function returned

poolVars == <<waiting, running, finished>>

Init ==
  /\ waiting  = {}
  /\ running  = {}
  /\ finished = {}

Submit(j) ==
  /\ j \notin waiting \union running \union finished
  /\ waiting' = waiting \union {j}
  /\ UNCHANGED <<running, finished>>

Start(j) ==
  /\ j \in waiting
  /\ \A k \in waiting : j.key <= k.key
  /\ waiting' = waiting \ {j}
  /\ running' = running \union {j}
  /\ UNCHANGED finished

Finish(j) ==
  /\ j \in running
  /\ running'  = running \ {j}
  /\ finished' = finished \union {j}
  /\ UNCHANGED waiting

Next == \E j \in Jobs : Submit(j) \/ Start(j) \/ Finish(j)

Spec == Init /\ [][Next]_poolVars

=============================================================================
