--------------------------- MODULE PriorityQueue ---------------------------
(***************************************************************************)
(* The data of CPriorityQueue<T> (CoreLib/src/fifo.h): a vector of         *)
(* (priority, value) entries kept in ascending order of priority.  Each    *)
(* operator here is one critical section of the class; the semaphore that  *)
(* goes with the queue belongs to the threads and is modelled in           *)
(* JobManager, because Push and Pop touch it outside the lock.             *)
(***************************************************************************)
EXTENDS Integers, Sequences, FiniteSets, SequencesExt

Entry(prio, value) == [priority |-> prio, value |-> value]

Sorted(q) == \A i, j \in DOMAIN q : i < j => q[i].priority <= q[j].priority

\* Broken: a push that ignores the priority.
LowerBound_Back(q, prio) == Len(q) + 1

(***************************************************************************)
(* std::lower_bound: the first position whose priority is not less than    *)
(* prio.  An entry pushed at a priority already present therefore goes     *)
(* BEFORE its equals: the queue is last-in first-out within a priority.    *)
(***************************************************************************)
LowerBound(q, prio) ==
  CHOOSE i \in 1 .. Len(q) + 1 :
    /\ \A j \in 1 .. i - 1 : q[j].priority < prio
    /\ i <= Len(q) => q[i].priority >= prio

Push(q, prio, value) == InsertAt(q, LowerBound(q, prio), Entry(prio, value))

Values(q) == {q[i].value : i \in DOMAIN q}

\* Peek with pop = true, on a queue that is not empty.
Pop(q) == Tail(q)

\* Broken: every entry that matches goes.
EraseFirst_Every(q, hits) ==
  LET rest == DOMAIN q \ hits
  IN  [i \in 1 .. Cardinality(rest) |->
         q[CHOOSE k \in rest : Cardinality({j \in rest : j <= k}) = i]]

\* Find(p, remove_if_found = true, ...): only the first entry that matches
\* goes; "hits" are the positions the predicate accepts.
EraseFirst(q, hits) ==
  IF hits = {} THEN q ELSE RemoveAt(q, CHOOSE i \in hits : \A j \in hits : i <= j)

=============================================================================
