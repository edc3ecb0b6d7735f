------------------------ MODULE ResourceSystem_proof ------------------------
(***************************************************************************)
(* Proofs about ResourceSystem, for any resources, requests and waits: the *)
(* types, where the serialised resource of a load is, that a load ends     *)
(* once, and what a wait answers.                                          *)
(***************************************************************************)
EXTENDS ResourceSystem, FiniteSetTheorems, WellFoundedInduction, TLAPS

USE ResourcesAssumption, InputsAssumption

-----------------------------------------------------------------------------
(* Lemmas.                                                                 *)

Less == {ss \in Nat \X Nat : ss[1] < ss[2]}

\* A set of naturals that is not empty has a least element.
LEMMA LeastNatural ==
  ASSUME NEW T \in SUBSET Nat, T # {}
  PROVE  \E x \in T : \A y \in T : x <= y
<1>1. IsWellFoundedOn(Less, Nat)
  BY ONLY NatLessThanWellFounded DEF OpToRel, Less
<1>2. PICK x \in T : \A y \in T : ~ (<<y, x>> \in Less)
  BY <1>1, WFMin
<1>3. ASSUME NEW y \in T PROVE x <= y
  <2>1. x \in Nat /\ y \in Nat
    OBVIOUS
  <2>2. y < x => <<y, x>> \in Less
    BY <2>1 DEF Less
  <2> QED BY <1>2, <2>1, <2>2
<1> QED BY <1>3

\* A finite set of numbers has a least and a greatest element (Min and Max).
LEMMA LeastAndGreatest ==
  ASSUME NEW S \in SUBSET Nat, IsFiniteSet(S), S # {}
  PROVE  Min(S) \in S /\ (\A y \in S : Min(S) <= y) /\ Max(S) \in S
<1>1. \E x \in S : \A y \in S : x <= y
  BY LeastNatural
<1>2. \E x \in S : \A y \in S : x >= y
  <2> DEFINE Above(x) == {y \in S : y > x}
             Sizes == {Cardinality(Above(x)) : x \in S}
  <2>1. \A x \in S : IsFiniteSet(Above(x)) /\ Cardinality(Above(x)) \in Nat
    <3> TAKE x \in S
    <3>1. Above(x) \subseteq S
      OBVIOUS
    <3> HIDE DEF Above
    <3> QED BY <3>1, FS_Subset, FS_CardinalityType
  <2>2. Sizes \in SUBSET Nat /\ Sizes # {}
    BY <2>1
  <2>3. PICK n \in Sizes : \A m \in Sizes : n <= m
    <3> HIDE DEF Sizes
    <3> QED BY <2>2, LeastNatural
  <2>4. PICK x \in S : n = Cardinality(Above(x))
    OBVIOUS
  <2>5. ASSUME NEW y \in S, ~ (x >= y) PROVE FALSE
    <3>0. x \in Nat /\ y \in Nat /\ y > x
      BY <2>5
    <3>a. \A z \in S : z > y => z > x
      BY <3>0
    <3>1. y \in Above(x) /\ y \notin Above(y) /\ Above(y) \subseteq Above(x)
      <4>1. y \in Above(x)
        BY <3>0
      <4>2. y \notin Above(y)
        BY <3>0
      <4>3. Above(y) \subseteq Above(x)
        BY <3>a
      <4> QED BY <4>1, <4>2, <4>3
    <3>2. n <= Cardinality(Above(y))
      BY <2>3
    <3> HIDE DEF Above
    <3>3. /\ IsFiniteSet(Above(x)) /\ Cardinality(Above(x)) \in Nat
          /\ Cardinality(Above(y)) \in Nat /\ Above(y) # Above(x)
      BY <2>1, <3>1
    <3>4. /\ Cardinality(Above(y)) <= Cardinality(Above(x))
          /\ Cardinality(Above(x)) = Cardinality(Above(y)) => Above(y) = Above(x)
      BY <3>1, <3>3, FS_Subset
    <3> QED BY <2>4, <3>2, <3>3, <3>4
  <2> QED BY <2>5
<1> QED BY <1>1, <1>2 DEF Min, Max

LEMMA CSRFacts ==
  /\ MaxLoads \in Nat
  /\ \A r \in Resources, n \in 1 .. MaxLoads :
       /\ [of |-> r, load |-> n] \in CSRs
       /\ [of |-> r, load |-> n].of = r /\ [of |-> r, load |-> n].load = n
  /\ \A c \in CSRs : c.of \in Resources /\ c.load \in 1 .. MaxLoads
  /\ \A c, d \in CSRs : c.of = d.of /\ c.load = d.load => c = d
  /\ None \notin CSRs
<1>1. MaxLoads \in Nat
  BY DEF MaxLoads
<1>2. \A c \in CSRs : \E r \in Resources, n \in 1 .. MaxLoads : c = [of |-> r, load |-> n]
  BY DEF CSRs
<1>3. \A r \in Resources, n \in 1 .. MaxLoads : [of |-> r, load |-> n] \in CSRs
  BY DEF CSRs
<1>4. None \notin CSRs
  <2>1. None.load = 0
    BY DEF None
  <2> QED BY <1>1, <1>2, <2>1
<1> QED BY <1>1, <1>2, <1>3, <1>4

-----------------------------------------------------------------------------
(* gResourceArray.                                                         *)

\* The type of what LoadResource and the threads share.
DataTyped ==
  /\ state \in [Resources -> States]
  /\ csr \in [Resources -> CSRs \union {None}]
  /\ prio \in [Resources -> Priorities]
  /\ staging \subseteq CSRs /\ slow \subseteq CSRs
  /\ done \in [CSRs -> Nat]
  /\ loads \in [Resources -> 0 .. MaxLoads]
  /\ strayed \in BOOLEAN

LEMMA ListedFacts ==
  ASSUME NEW S \in SUBSET Listed, S # {}
  PROVE  Min(S) \in S /\ Max(S) \in S
<1>1. S \subseteq Resources
  BY DEF Listed
<1> QED BY <1>1, FS_Subset, LeastAndGreatest

\* What FindResourceInList answers.
LEMMA Found ==
  ASSUME NEW c
  PROVE  /\ FindResource(c) = NoResource <=> Listed = {}
         /\ FindResource(c) # NoResource =>
              /\ FindResource(c) \in Listed
              /\ ~ Strays(c) => csr[FindResource(c)] = c
         /\ NoResource \notin Resources /\ Listed \subseteq Resources
<1>0. NoResource \notin Resources /\ Listed \subseteq Resources
  BY DEF NoResource, Listed
<1> DEFINE holders == {r \in Listed : csr[r] = c}
<1>1. CASE holders # {}
  <2>1. Min(holders) \in holders
    <3> HIDE DEF holders
    <3>1. holders \in SUBSET Listed
      BY DEF holders
    <3> QED BY <1>1, <3>1, ListedFacts
  <2>2. FindResource(c) = Min(holders)
    BY <1>1 DEF FindResource
  <2> QED BY <1>0, <2>1, <2>2
<1>2. CASE holders = {} /\ Listed # {}
  <2>1. Max(Listed) \in Listed
    BY <1>2, ListedFacts
  <2>2. FindResource(c) = Max(Listed)
    BY <1>2 DEF FindResource
  <2>3. Strays(c)
    BY <1>2 DEF Strays
  <2> QED BY <1>0, <2>1, <2>2, <2>3
<1>3. CASE Listed = {}
  BY <1>0, <1>3 DEF FindResource
<1> QED BY <1>1, <1>2, <1>3

\* SetResourceError changes nothing while the array is empty; otherwise it ends
\* a resource, which is the one with that CSR unless the CSR strays.
Failed(r, c) ==
  /\ state' = [state EXCEPT ![r] = "error"] /\ csr' = [csr EXCEPT ![r] = None]
  /\ ~ strayed' => csr[r] = c

LEMMA ErrorSet ==
  ASSUME NEW c, SetResourceError(c)
  PROVE  /\ strayed => strayed'
         /\ \/ UNCHANGED <<state, csr>> /\ Listed = {}
            \/ \E r \in Listed : Failed(r, c)
<1>1. FindResource(c) = NoResource \/ FindResource(c) \in Listed
  BY Found
<1>2. CASE FindResource(c) = NoResource
  BY <1>2, Found DEF SetResourceError
<1>3. CASE FindResource(c) \in Listed
  <2>1. FindResource(c) # NoResource
    BY <1>3, Found
  <2>2. ~ strayed' => csr[FindResource(c)] = c
    BY <2>1, Found DEF SetResourceError
  <2>3. Failed(FindResource(c), c)
    BY <2>1, <2>2 DEF SetResourceError, Failed
  <2> QED BY <1>3, <2>3 DEF SetResourceError
<1> QED BY <1>1, <1>2, <1>3

-----------------------------------------------------------------------------
(* Type correctness.                                                       *)

ThreadsTyped ==
  /\ tpc \in [Threads -> {"pop", "test", "read", "left"}]
  /\ hand \in [Threads -> CSRs \union {None}]
  /\ \A t \in Threads : hand[t] = None <=> tpc[t] \in {"pop", "left"}

BlockTyped ==
  /\ wait \in Seq(Resources) /\ at \in 1 .. Len(wait) + 1
  /\ loading \in BOOLEAN /\ error \in BOOLEAN /\ failed \in BOOLEAN

PumpTyped ==
  /\ pc \in WaitPCs \union {"idle", "return", "closing", "join", "closed"}
  /\ popped \in CSRs \union {None}
  /\ popped = None <=> pc \notin {"find", "begin", "deserialise"}
  /\ res \in Resources \union {NoResource}
  /\ res = NoResource <=> pc \notin {"begin", "deserialise"}

BoundsTyped == unloads \in 0 .. MaxUnloads /\ quit \in BOOLEAN

\* A resource is loaded once more than it was unloaded.
LoadsInv ==
  pc # "closed" =>
    \A r \in Resources : loads[r] <= unloads + (IF state[r] \in {"none", "unloaded"} THEN 0 ELSE 1)

TypeInv == DataTyped /\ ThreadsTyped /\ BlockTyped /\ PumpTyped /\ BoundsTyped /\ LoadsInv

LEMMA TypeInit == Init => TypeInv
<1> SUFFICES ASSUME Init PROVE TypeInv
  OBVIOUS
<1> USE CSRFacts DEF Init
<1>1. DataTyped
  <2>1. [level |-> 5, dont |-> FALSE, load |-> TRUE] \in Priorities
    BY DEF Priorities
  <2>2. strayed \in BOOLEAN
    BY Zenon
  <2>3. state \in [Resources -> States] /\ csr \in [Resources -> CSRs \union {None}]
    BY DEF States
  <2>4. loads \in [Resources -> 0 .. MaxLoads] /\ done \in [CSRs -> Nat]
    OBVIOUS
  <2> QED BY <2>1, <2>2, <2>3, <2>4 DEF DataTyped
<1>2. ThreadsTyped
  BY DEF ThreadsTyped
<1>3. BlockTyped
  <2>1. loading \in BOOLEAN /\ error \in BOOLEAN /\ failed \in BOOLEAN
    BY Zenon
  <2> QED BY <2>1 DEF BlockTyped
<1>4. PumpTyped
  BY DEF PumpTyped, WaitPCs
<1>5. BoundsTyped
  <2>1. quit \in BOOLEAN
    BY Zenon
  <2> QED BY <2>1 DEF BoundsTyped
<1>6. LoadsInv
  BY DEF LoadsInv
<1> QED BY <1>1, <1>2, <1>3, <1>4, <1>5, <1>6 DEF TypeInv

\* LoadResource, whoever calls it.
LEMMA LoadTyped ==
  ASSUME TypeInv, NEW r \in Resources, NEW p \in Priorities, LoadResource(r, p), pc # "closed",
         unloads' = unloads
  PROVE  DataTyped' /\ LoadsInv'
<1>0. /\ unloads \in 0 .. MaxUnloads /\ MaxLoads = MaxUnloads + 1 /\ MaxUnloads \in Nat
      /\ DataTyped /\ \A s \in Resources :
           /\ loads[s] \in Nat
           /\ state[s] \in {"none", "unloaded"} => loads[s] <= unloads
           /\ state[s] \notin {"none", "unloaded"} => loads[s] <= unloads + 1
  BY CSRFacts DEF TypeInv, BoundsTyped, LoadsInv, MaxLoads, DataTyped
<1>1. CASE BeginLoad(r, p)
  <2>1. state[r] \in {"none", "unloaded"}
    BY <1>0, <1>1 DEF BeginLoad, StateSeen
  <2>2. loads[r] + 1 \in 1 .. MaxLoads /\ loads[r] + 1 <= unloads + 1
    BY <1>0, <2>1
  <2>3. [of |-> r, load |-> loads[r] + 1] \in CSRs
    BY <2>2, CSRFacts
  <2>4. DataTyped'
    BY <1>0, <1>1, <2>2, <2>3 DEF BeginLoad, DataTyped, States
  <2>5. LoadsInv'
    BY <1>0, <1>1, <2>2 DEF BeginLoad, LoadsInv, DataTyped
  <2> QED BY <2>4, <2>5
<1>2. CASE Resubmit(r, p)
  <2>1. csr[r] # None => csr[r] \in CSRs /\ done[csr[r]] + 1 \in Nat
    BY <1>0 DEF DataTyped
  <2>2. done' \in [CSRs -> Nat]
    BY <1>0, <1>2, <2>1 DEF Resubmit, DataTyped
  <2>3. DataTyped'
    BY <1>0, <1>2, <2>2 DEF Resubmit, DataTyped
  <2>4. LoadsInv'
    BY <1>0, <1>2 DEF Resubmit, LoadsInv
  <2> QED BY <2>3, <2>4
<1>3. CASE Hasten(r, p)
  BY <1>0, <1>3 DEF Hasten, DataTyped, LoadsInv
<1>4. CASE LeaveAsItIs(r, p)
  <2>1. StateSeen(r) \in States /\ (StateSeen(r) \in {"none", "unloaded"} <=> state[r] \in {"none", "unloaded"})
    BY <1>0 DEF StateSeen, DataTyped, States
  <2> QED BY <1>0, <1>4, <2>1 DEF LeaveAsItIs, DataTyped, LoadsInv
<1> QED BY <1>1, <1>2, <1>3, <1>4 DEF LoadResource

\* Steps that end or put aside a resource.
LEMMA StateTyped ==
  ASSUME TypeInv, NEW r \in Resources, NEW s \in States \ {"none", "unloaded"},
         NEW c \in CSRs \union {None}, unloads' = unloads,
         state' = [state EXCEPT ![r] = s], csr' = [csr EXCEPT ![r] = c],
         UNCHANGED <<prio, staging, slow, done, loads>>, strayed' \in BOOLEAN
  PROVE  DataTyped' /\ (pc # "closed" \/ pc' = pc => LoadsInv')
<1>1. DataTyped'
  BY DEF TypeInv, DataTyped
<1>2. ASSUME NEW q \in Resources, pc # "closed"
      PROVE  loads'[q] <= unloads' + (IF state'[q] \in {"none", "unloaded"} THEN 0 ELSE 1)
  <2>1. /\ loads[q] \in 0 .. MaxLoads /\ unloads \in Nat
        /\ loads[q] <= unloads + (IF state[q] \in {"none", "unloaded"} THEN 0 ELSE 1)
    BY <1>2 DEF TypeInv, DataTyped, LoadsInv, BoundsTyped
  <2>2. loads[q] <= unloads + 1
    BY <2>1, CSRFacts
  <2>3. q # r => state'[q] = state[q]
    BY DEF TypeInv, DataTyped
  <2>4. q = r => state'[q] = s
    BY DEF TypeInv, DataTyped
  <2> QED BY <2>1, <2>2, <2>3, <2>4
<1> QED BY <1>1, <1>2 DEF LoadsInv

LEMMA ErrorTyped ==
  ASSUME TypeInv, NEW c \in CSRs, SetResourceError(c), UNCHANGED <<pc, unloads>>,
         UNCHANGED <<prio, staging, slow, done, loads>>
  PROVE  DataTyped' /\ LoadsInv'
<1>1. strayed' \in BOOLEAN
  <2>1. strayed' <=> (strayed \/ Strays(c))
    BY DEF SetResourceError
  <2>2. strayed' = (strayed \/ Strays(c))
    BY DEF SetResourceError
  <2> QED BY <2>2
<1>2. CASE UNCHANGED <<state, csr>>
  BY <1>1, <1>2 DEF TypeInv, DataTyped, LoadsInv
<1>3. ASSUME NEW r \in Listed, Failed(r, c) PROVE DataTyped' /\ LoadsInv'
  <2>1. r \in Resources /\ "error" \in States \ {"none", "unloaded"}
    BY DEF Listed, States
  <2> QED BY <1>1, <1>3, <2>1, StateTyped DEF Failed
<1> QED BY <1>2, <1>3, ErrorSet

LEMMA AskTyped == ASSUME TypeInv, NEW a \in Asks, Ask(a[1], a[2]) PROVE TypeInv'
<1>1. a[1] \in Resources /\ a[2] \in Priorities
  OBVIOUS
<1>2. LoadResource(a[1], a[2]) /\ UNCHANGED <<threadVars, mainVars, unloads, quit>> /\ pc # "closed"
  BY DEF Ask
<1>3. DataTyped' /\ LoadsInv'
  BY <1>1, <1>2, LoadTyped
<1>4. ThreadsTyped' /\ BlockTyped' /\ PumpTyped' /\ BoundsTyped'
  BY <1>2 DEF TypeInv, ThreadsTyped, BlockTyped, PumpTyped, BoundsTyped, threadVars, mainVars, blockVars
<1> QED BY <1>3, <1>4 DEF TypeInv

LEMMA UnloadTyped == ASSUME TypeInv, NEW r \in Resources, Unload(r) PROVE TypeInv'
<1>1. ThreadsTyped' /\ BlockTyped' /\ PumpTyped'
  BY DEF Unload, TypeInv, ThreadsTyped, BlockTyped, PumpTyped, threadVars, mainVars, blockVars
<1>2. unloads' = unloads + 1 /\ unloads' \in 0 .. MaxUnloads /\ unloads \in Nat
  BY DEF Unload, TypeInv, BoundsTyped
<1>3. done' \in [CSRs -> Nat]
  <2>1. \A c \in CSRs : (IF c = csr[r] /\ done[c] > 0 THEN done[c] - 1 ELSE done[c]) \in Nat
    BY DEF TypeInv, DataTyped
  <2> QED BY <2>1 DEF Unload
<1>4. DataTyped'
  BY <1>3 DEF Unload, TypeInv, DataTyped, States
<1>5. LoadsInv'
  <2>1. ASSUME NEW q \in Resources
        PROVE  loads'[q] <= unloads' + (IF state'[q] \in {"none", "unloaded"} THEN 0 ELSE 1)
    <3>1. /\ loads[q] \in Nat /\ loads'[q] = loads[q] /\ pc # "closed"
          /\ loads[q] <= unloads + (IF state[q] \in {"none", "unloaded"} THEN 0 ELSE 1)
      BY CSRFacts DEF Unload, TypeInv, DataTyped, LoadsInv
    <3> QED BY <1>2, <3>1
  <2> QED BY <2>1 DEF LoadsInv
<1> QED BY <1>1, <1>2, <1>4, <1>5 DEF TypeInv, BoundsTyped, Unload

LEMMA ThreadTyped == ASSUME TypeInv, NEW t \in Threads, ThreadStep(t) PROVE TypeInv'
<1>0. /\ DataTyped /\ ThreadsTyped /\ BlockTyped /\ PumpTyped /\ BoundsTyped
      /\ UNCHANGED <<mainVars, unloads, quit>> /\ t \in Threads
  BY DEF TypeInv, ThreadStep, PopQueue, TestQuit, Deliver, FailToRead, Leave, PassToSlow
<1>1. BlockTyped' /\ PumpTyped' /\ BoundsTyped'
  BY <1>0 DEF BlockTyped, PumpTyped, BoundsTyped, mainVars, blockVars
<1>2. None \notin CSRs
  BY CSRFacts
<1>3. CASE PopQueue(t)
  <2>1. PICK c \in InQueue(t) :
           /\ hand' = [hand EXCEPT ![t] = c]
           /\ staging' = IF t = "loader" THEN staging \ {c} ELSE staging
           /\ slow' = IF t = "slow" THEN slow \ {c} ELSE slow
    BY <1>3 DEF PopQueue
  <2>2. c \in CSRs
    BY <1>0 DEF InQueue, DataTyped
  <2>3. DataTyped' /\ LoadsInv'
    BY <1>0, <1>3, <2>1 DEF PopQueue, DataTyped, LoadsInv, TypeInv, mainVars
  <2>4. ThreadsTyped'
    BY <1>0, <1>2, <1>3, <2>1, <2>2 DEF PopQueue, Goto, ThreadsTyped
  <2> QED BY <1>1, <2>3, <2>4 DEF TypeInv
<1>4. ASSUME tpc[t] \in {"test", "read"} PROVE hand[t] \in CSRs
  BY <1>0, <1>4 DEF ThreadsTyped
<1>5. CASE TestQuit(t)
  <2>1. tpc[t] = "test" /\ tpc' = [tpc EXCEPT ![t] = IF quit THEN "pop" ELSE "read"]
    BY <1>5 DEF TestQuit, Goto
  <2>2. ThreadsTyped'
    <3>1. CASE quit
      BY <1>0, <2>1, <1>5, <3>1 DEF TestQuit, ThreadsTyped
    <3>2. CASE ~ quit
      BY <1>0, <2>1, <1>5, <3>2 DEF TestQuit, ThreadsTyped
    <3> QED BY <3>1, <3>2
  <2>3. DataTyped' /\ LoadsInv'
    <3>1. CASE quit
      <4>1. /\ SetResourceError(hand[t]) /\ hand[t] \in CSRs
            /\ UNCHANGED <<prio, staging, slow, done, loads>>
        BY <1>4, <1>5, <2>1, <3>1 DEF TestQuit
      <4> QED BY <1>0, <4>1, ErrorTyped DEF mainVars
    <3>2. CASE ~ quit
      BY <1>0, <1>5, <3>2 DEF TestQuit, DataTyped, LoadsInv, TypeInv, mainVars
    <3> QED BY <3>1, <3>2
  <2> QED BY <1>1, <2>2, <2>3 DEF TypeInv
<1>6. CASE Deliver(t)
  <2>1. hand[t] \in CSRs
    BY <1>4, <1>6 DEF Deliver, Goto
  <2>2. DataTyped' /\ LoadsInv'
    BY <1>0, <1>6, <2>1 DEF Deliver, DataTyped, LoadsInv, TypeInv, mainVars
  <2>3. ThreadsTyped'
    BY <1>0, <1>6 DEF Deliver, Goto, ThreadsTyped
  <2> QED BY <1>1, <2>2, <2>3 DEF TypeInv
<1>7. CASE FailToRead(t)
  <2>1. /\ SetResourceError(hand[t]) /\ hand[t] \in CSRs
        /\ UNCHANGED <<prio, staging, slow, done, loads>>
    BY <1>4, <1>7 DEF FailToRead, Goto
  <2>2. DataTyped' /\ LoadsInv'
    BY <1>0, <2>1, ErrorTyped DEF mainVars
  <2>3. ThreadsTyped'
    BY <1>0, <1>7 DEF FailToRead, Goto, ThreadsTyped
  <2> QED BY <1>1, <2>2, <2>3 DEF TypeInv
<1>8. CASE Leave(t)
  <2>1. ThreadsTyped'
    BY <1>0, <1>8 DEF Leave, Goto, ThreadsTyped
  <2>2. DataTyped' /\ LoadsInv'
    BY <1>0, <1>8 DEF Leave, DataTyped, LoadsInv, TypeInv, dataVars, mainVars
  <2> QED BY <1>1, <2>1, <2>2 DEF TypeInv
<1>9. CASE t = "loader" /\ PassToSlow
  <2>1. hand[t] \in CSRs
    BY <1>4, <1>9 DEF PassToSlow, Goto
  <2>2. DataTyped' /\ LoadsInv'
    BY <1>0, <1>9, <2>1 DEF PassToSlow, DataTyped, LoadsInv, TypeInv, mainVars
  <2>3. ThreadsTyped'
    BY <1>0, <1>9 DEF PassToSlow, Goto, ThreadsTyped
  <2> QED BY <1>1, <2>2, <2>3 DEF TypeInv
<1> QED BY <1>3, <1>5, <1>6, <1>7, <1>8, <1>9 DEF ThreadStep

\* Steps that only look at the data.
LEMMA OnlyLooks ==
  ASSUME TypeInv, UNCHANGED <<dataVars, threadVars, unloads>>, pc # "closed"
  PROVE  DataTyped' /\ ThreadsTyped' /\ LoadsInv'
BY DEF TypeInv, DataTyped, ThreadsTyped, LoadsInv, dataVars, threadVars

LEMMA WaitTyped ==
  ASSUME TypeInv,
         Request \/ Requested \/ Check \/ Turn \/ NoneLeft \/ Return \/ \E rs \in Waits : Block(rs)
  PROVE  TypeInv'
<1> DEFINE n == Len(wait)
<1>0. /\ DataTyped /\ BlockTyped /\ PumpTyped /\ BoundsTyped
      /\ n \in Nat /\ at \in 1 .. n + 1 /\ wait \in Seq(Resources)
  BY DEF TypeInv, BlockTyped
<1>1. BoundsTyped' /\ UNCHANGED <<threadVars, popped, res, unloads, quit>>
  BY <1>0 DEF Request, Requested, Check, Turn, NoneLeft, Return, Block, BoundsTyped, blockVars
<1> HIDE DEF n
<1>2. CASE Request
  <2>1. at \in 1 .. n /\ Waited \in Resources /\ at + 1 \in 1 .. n + 1
    BY <1>0, <1>2 DEF Request, Waited, n
  <2>2. Immediate \in Priorities
    BY DEF Immediate, Priorities
  <2>3. DataTyped' /\ LoadsInv'
    <3>1. CASE state[Waited] = "error"
      BY <1>1, <1>2, <3>1, OnlyLooks DEF Request
    <3>2. CASE state[Waited] # "error"
      BY <1>1, <1>2, <2>1, <2>2, <3>2, LoadTyped DEF Request
    <3> QED BY <3>1, <3>2
  <2>4. ThreadsTyped'
    BY <1>1 DEF TypeInv, ThreadsTyped, threadVars
  <2>5. PumpTyped'
    BY <1>0, <1>1, <1>2 DEF Request, PumpTyped
  <2>6. loading' \in BOOLEAN /\ error' \in BOOLEAN /\ failed' \in BOOLEAN
    <3>1. failed' = failed
      BY <1>2 DEF Request
    <3>2. CASE state[Waited] = "error"
      <4>1. error' = TRUE /\ loading' = loading
        BY <1>2, <3>2 DEF Request
      <4> QED BY <1>0, <3>1, <4>1, Zenon DEF BlockTyped
    <3>3. CASE state[Waited] # "error"
      <4>1. error' = error /\ loading' = (loading \/ state[Waited] # "loaded")
        BY <1>2, <3>3 DEF Request
      <4> QED BY <1>0, <3>1, <4>1, Zenon DEF BlockTyped
    <3> QED BY <3>2, <3>3
  <2>7. BlockTyped'
    BY <1>0, <1>2, <2>1, <2>6 DEF Request, BlockTyped, n
  <2> QED BY <1>1, <2>3, <2>4, <2>5, <2>7 DEF TypeInv
<1>3. CASE Requested \/ Check \/ Turn \/ NoneLeft \/ Return \/ \E rs \in Waits : Block(rs)
  <2>1. UNCHANGED dataVars /\ pc # "closed"
    BY <1>3 DEF Requested, Check, Turn, NoneLeft, Return, Block
  <2>2. DataTyped' /\ ThreadsTyped' /\ LoadsInv'
    BY <1>1, <2>1, OnlyLooks
  <2>3. PumpTyped'
    BY <1>0, <1>1, <1>3 DEF Requested, Check, Turn, NoneLeft, Return, Block, PumpTyped, WaitPCs
  <2>4. wait' \in Seq(Resources) /\ at' \in 1 .. Len(wait') + 1
    <3>1. CASE Requested \/ Check \/ Turn \/ NoneLeft
      <4>1. wait' = wait /\ at' \in {at, 1, at + 1} /\ (at' = at + 1 => at <= n)
        <5>1. CASE Turn
          BY <5>1 DEF Turn, n
        <5>2. CASE Requested
          BY <1>0, <5>2 DEF Requested
        <5>3. CASE Check \/ NoneLeft
          BY <1>0, <5>3 DEF Check, NoneLeft, blockVars
        <5> QED BY <3>1, <5>1, <5>2, <5>3
      <4> QED BY <1>0, <4>1 DEF n
    <3>2. CASE Return \/ \E rs \in Waits : Block(rs)
      <4>1. wait' \in Seq(Resources) /\ at' = 1
        <5>1. CASE Return
          BY <5>1 DEF Return
        <5>2. ASSUME NEW rs \in Waits, Block(rs) PROVE wait' \in Seq(Resources) /\ at' = 1
          BY <5>2 DEF Block
        <5> QED BY <3>2, <5>1, <5>2
      <4> QED BY <4>1
    <3> QED BY <1>3, <3>1, <3>2
  <2>5. loading' \in BOOLEAN /\ error' \in BOOLEAN /\ failed' \in BOOLEAN
    <3>1. CASE Requested \/ Turn \/ NoneLeft
      <4>1. UNCHANGED <<loading, error, failed>>
        BY <3>1 DEF Requested, Turn, NoneLeft, blockVars
      <4> QED BY <1>0, <4>1 DEF BlockTyped
    <3>2. CASE Check
      <4>1. UNCHANGED <<loading, error>>
        BY <3>2 DEF Check
      <4>2. failed' = (NotLoaded # {} /\ state[wait[Min(NotLoaded)]] = "error")
        BY <3>2 DEF Check
      <4>3. failed' \in BOOLEAN
        BY <4>2
      <4> QED BY <1>0, <4>1, <4>3 DEF BlockTyped
    <3>3. CASE Return \/ \E rs \in Waits : Block(rs)
      <4>1. loading' = FALSE /\ error' = FALSE /\ failed' = FALSE
        BY <3>3 DEF Return, Block
      <4> QED BY <4>1, Zenon
    <3> QED BY <1>3, <3>1, <3>2, <3>3
  <2> QED BY <1>1, <2>2, <2>3, <2>4, <2>5 DEF TypeInv, BlockTyped
<1> QED BY <1>2, <1>3

LEMMA PumpStepTyped ==
  ASSUME TypeInv, PopDone \/ PumpTimesOut \/ Discard \/ Attach \/ BeginDeserialise \/ EndDeserialise
  PROVE  TypeInv'
<1>0. /\ DataTyped /\ BlockTyped /\ PumpTyped /\ BoundsTyped /\ ThreadsTyped
      /\ UNCHANGED <<threadVars, blockVars, unloads, quit>> /\ pc # "closed"
  BY DEF TypeInv, PopDone, PumpTimesOut, Discard, Attach, BeginDeserialise, EndDeserialise
<1>1. ThreadsTyped' /\ BlockTyped' /\ BoundsTyped'
  BY <1>0 DEF ThreadsTyped, BlockTyped, BoundsTyped, threadVars, blockVars
<1>2. None \notin CSRs /\ NoResource \notin Resources
  BY CSRFacts, Found
<1>3. CASE PopDone
  <2>1. PICK c \in CSRs : done[c] > 0 /\ done' = [done EXCEPT ![c] = @ - 1] /\ popped' = c
    BY <1>3 DEF PopDone
  <2>2. done[c] - 1 \in Nat
    BY <1>0, <2>1 DEF DataTyped
  <2>3. DataTyped' /\ LoadsInv'
    BY <1>0, <1>3, <2>1, <2>2 DEF PopDone, DataTyped, LoadsInv, TypeInv
  <2>4. PumpTyped'
    BY <1>0, <1>2, <1>3, <2>1 DEF PopDone, PumpTyped, WaitPCs
  <2> QED BY <1>1, <2>3, <2>4 DEF TypeInv
<1>4. CASE PumpTimesOut \/ Discard
  <2>1. DataTyped' /\ LoadsInv'
    BY <1>0, <1>4, OnlyLooks DEF PumpTimesOut, Discard
  <2>2. PumpTyped'
    BY <1>0, <1>4 DEF PumpTimesOut, Discard, PumpTyped, WaitPCs
  <2> QED BY <1>1, <2>1, <2>2 DEF TypeInv
<1>5. CASE Attach
  <2> DEFINE r == FindResource(popped)
  <2>1. r \in Resources /\ popped \in CSRs
    <3>1. r \in Listed /\ Listed \subseteq Resources
      BY <1>5, Found DEF Attach
    <3> QED BY <1>0, <1>5, <3>1 DEF Attach, PumpTyped
  <2>2. strayed' \in BOOLEAN
    <3>1. strayed' = (strayed \/ Strays(popped))
      BY <1>5 DEF Attach
    <3> QED BY <3>1
  <2>3. /\ state' = [state EXCEPT ![r] = "pending"] /\ csr' = [csr EXCEPT ![r] = popped]
        /\ UNCHANGED <<prio, staging, slow, done, loads>>
    BY <1>5 DEF Attach
  <2>4. \/ pc' \in {"pump", "check"} /\ popped' = None /\ res' = NoResource
        \/ pc' = "begin" /\ res' = r /\ popped' = popped
    BY <1>5 DEF Attach, PumpGoesOn
  <2> HIDE DEF r
  <2>5. DataTyped' /\ LoadsInv'
    BY <1>0, <2>1, <2>2, <2>3, StateTyped DEF States
  <2>6. PumpTyped'
    BY <1>0, <1>2, <2>1, <2>4 DEF PumpTyped, WaitPCs
  <2> QED BY <1>1, <2>5, <2>6 DEF TypeInv
<1>6. CASE BeginDeserialise
  <2>1. res \in Resources /\ popped \in CSRs /\ strayed' \in BOOLEAN
    BY <1>0, <1>6 DEF BeginDeserialise, PumpTyped, DataTyped
  <2>2. /\ UNCHANGED <<prio, staging, slow, done, loads>>
        /\ \/ /\ state' = [state EXCEPT ![res] = "error"] /\ csr' = [csr EXCEPT ![res] = None]
              /\ pc' \in {"pump", "check"} /\ popped' = None /\ res' = NoResource
           \/ /\ state' = [state EXCEPT ![res] = "loading"] /\ csr' = [csr EXCEPT ![res] = csr[res]]
              /\ pc' = "deserialise" /\ popped' = popped /\ res' = res
    <3>1. csr = [csr EXCEPT ![res] = csr[res]]
      BY <1>0 DEF DataTyped
    <3> QED BY <1>6, <3>1 DEF BeginDeserialise, PumpGoesOn
  <2>3. DataTyped' /\ LoadsInv'
    <3>1. csr[res] \in CSRs \union {None}
      BY <1>0, <2>1 DEF DataTyped
    <3> QED BY <1>0, <2>1, <2>2, <3>1, StateTyped DEF States
  <2>4. PumpTyped'
    BY <1>0, <1>2, <2>1, <2>2 DEF PumpTyped, WaitPCs
  <2> QED BY <1>1, <2>3, <2>4 DEF TypeInv
<1>7. CASE EndDeserialise
  <2>1. res \in Resources /\ strayed' \in BOOLEAN
    BY <1>0, <1>7 DEF EndDeserialise, PumpTyped, DataTyped
  <2>2. PICK s \in Ended : state' = [state EXCEPT ![res] = s]
    BY <1>7 DEF EndDeserialise
  <2>3. /\ UNCHANGED <<prio, staging, slow, done, loads>>
        /\ csr' = [csr EXCEPT ![res] = None]
        /\ pc' \in {"pump", "check"} /\ popped' = None /\ res' = NoResource
    BY <1>7 DEF EndDeserialise, PumpGoesOn
  <2>4. DataTyped' /\ LoadsInv'
    BY <1>0, <2>1, <2>2, <2>3, StateTyped DEF States, Ended
  <2>5. PumpTyped'
    BY <1>0, <1>2, <2>1, <2>3 DEF PumpTyped, WaitPCs
  <2> QED BY <1>1, <2>4, <2>5 DEF TypeInv
<1> QED BY <1>3, <1>4, <1>5, <1>6, <1>7

LEMMA ClosingTyped == ASSUME TypeInv, WantQuit \/ AbortQueues \/ Close PROVE TypeInv'
<1>0. /\ DataTyped /\ BlockTyped /\ PumpTyped /\ BoundsTyped /\ ThreadsTyped
      /\ UNCHANGED <<threadVars, blockVars, popped, res, unloads>> /\ pc # "closed"
  BY DEF TypeInv, WantQuit, AbortQueues, Close
<1>1. ThreadsTyped' /\ BlockTyped'
  BY <1>0 DEF ThreadsTyped, BlockTyped, threadVars, blockVars
<1>2. PumpTyped'
  BY <1>0 DEF PumpTyped, WaitPCs, WantQuit, AbortQueues, Close
<1>3. BoundsTyped'
  <2>1. quit' = TRUE \/ quit' = quit
    BY DEF WantQuit, AbortQueues, Close
  <2>2. quit' \in BOOLEAN
    BY <1>0, <2>1, Zenon DEF BoundsTyped
  <2> QED BY <1>0, <2>2 DEF BoundsTyped
<1>4. DataTyped' /\ LoadsInv'
  <2>1. CASE WantQuit \/ AbortQueues
    BY <1>0, <2>1, OnlyLooks DEF WantQuit, AbortQueues
  <2>2. CASE Close
    <3>1. PICK gone : /\ staging' = staging \ gone /\ slow' = slow \ gone
                      /\ done' = [c \in CSRs |-> IF c \in gone /\ done[c] > 0 THEN done[c] - 1 ELSE done[c]]
      BY <2>2 DEF Close
    <3>2. \A c \in CSRs : (IF c \in gone /\ done[c] > 0 THEN done[c] - 1 ELSE done[c]) \in Nat
      BY <1>0 DEF DataTyped
    <3>3. done' \in [CSRs -> Nat]
      BY <3>1, <3>2
    <3>4. /\ state' \in [Resources -> States] /\ csr' \in [Resources -> CSRs \union {None}]
          /\ UNCHANGED <<prio, loads, strayed>> /\ pc' = "closed"
      BY <1>0, <2>2 DEF Close, DataTyped, States
    <3> QED BY <1>0, <3>1, <3>3, <3>4 DEF DataTyped, LoadsInv
  <2> QED BY <2>1, <2>2
<1> QED BY <1>1, <1>2, <1>3, <1>4 DEF TypeInv

LEMMA TypeStep == TypeInv /\ [Next]_vars => TypeInv'
<1> SUFFICES ASSUME TypeInv, [Next]_vars PROVE TypeInv'
  OBVIOUS
<1>1. CASE UNCHANGED vars
  BY <1>1 DEF vars, dataVars, threadVars, mainVars, blockVars, TypeInv, DataTyped, ThreadsTyped, BlockTyped,
     PumpTyped, BoundsTyped, LoadsInv
<1>2. CASE MainStep
  BY <1>2, WaitTyped, PumpStepTyped, ClosingTyped DEF MainStep
<1> QED BY <1>1, <1>2, AskTyped, UnloadTyped, ThreadTyped, WaitTyped, ClosingTyped DEF Next

LEMMA TypeInvariant == Spec => []TypeInv
BY TypeInit, TypeStep, PTL DEF Spec

\* The arrays, the queues and the locals keep their types: CSRsDone never holds
\* less than no copy of a CSR, and a thread and the pump hold one just as long as
\* they work on it.
THEOREM TypeCorrect == Spec => []TypeOK
<1>1. TypeInv => TypeOK
  BY DEF TypeInv, TypeOK, DataTyped, ThreadsTyped, BlockTyped, PumpTyped, BoundsTyped
<1> QED BY <1>1, TypeInvariant, PTL

-----------------------------------------------------------------------------
(* Where a CSR is: a thread has it or will have it, or it has been read.   *)

Front(c) == c \in staging \/ c \in slow \/ \E t \in Threads : hand[t] = c
Back(c) == done[c] > 0 \/ popped = c \/ \E r \in Resources : csr[r] = c /\ state[r] = "pending"
Named(c) == \E r \in Resources : csr[r] = c

\* A resource has a CSR while it is being loaded.
CsrInv == \A r \in Resources : csr[r] # None <=> state[r] \in {"loading", "pending"}

\* LoadResource makes a CSR that is nowhere yet.
Fresh == \A c \in CSRs : Front(c) \/ Back(c) \/ Named(c) => c.load <= loads[c.of]

\* A thread works on a CSR, or it has been read: what has been read is not
\* given to a thread again.
FrontOrBack == \A c \in CSRs : ~ (Front(c) /\ Back(c))

FrontOnce ==
  /\ staging \intersect slow = {}
  /\ \A t \in Threads : hand[t] \notin staging \union slow
  /\ \A t, u \in Threads : hand[t] = hand[u] => t = u \/ hand[t] = None

PlaceInv == CsrInv /\ Fresh /\ FrontOrBack /\ FrontOnce

LEMMA PlaceInit == Init => PlaceInv
<1> SUFFICES ASSUME Init PROVE PlaceInv
  OBVIOUS
<1>1. \A c \in CSRs : ~ Front(c) /\ ~ Back(c) /\ ~ Named(c)
  BY CSRFacts DEF Init, Front, Back, Named
<1>2. CsrInv
  BY DEF Init, CsrInv
<1>3. FrontOnce
  BY DEF Init, FrontOnce
<1> QED BY <1>1, <1>2, <1>3 DEF PlaceInv, Fresh, FrontOrBack

\* Steps that bring a CSR to no new place.
LEMMA NowhereNew ==
  ASSUME TypeInv, PlaceInv, loads' = loads, FrontOnce', CsrInv',
         NEW c \in CSRs \union {None},
         \A d \in CSRs : /\ Front(d)' => Front(d) /\ d # c
                         /\ Back(d)' => Back(d) \/ d = c
                         /\ Named(d)' => Named(d) \/ Back(d),
         c # None => Front(c)
  PROVE  PlaceInv'
<1>1. Fresh'
  BY CSRFacts DEF PlaceInv, Fresh
<1>2. FrontOrBack'
  BY DEF PlaceInv, FrontOrBack
<1> QED BY <1>1, <1>2 DEF PlaceInv

\* LoadResource, whoever calls it.
LEMMA LoadPlaces ==
  ASSUME TypeInv, PlaceInv, NEW r \in Resources, NEW p \in Priorities, LoadResource(r, p), pc # "closed",
         UNCHANGED <<hand, popped>>
  PROVE  PlaceInv'
<1>0. DataTyped /\ ThreadsTyped /\ CsrInv /\ Fresh /\ FrontOrBack /\ FrontOnce
  BY DEF TypeInv, PlaceInv
<1>1. CASE BeginLoad(r, p)
  <2> DEFINE c == [of |-> r, load |-> loads[r] + 1]
  <2>1. state[r] \in {"none", "unloaded"} /\ csr[r] = None
    BY <1>0, <1>1 DEF BeginLoad, StateSeen, CsrInv, DataTyped
  <2>2. c \in CSRs /\ c.of = r /\ c.load = loads[r] + 1 /\ loads[r] \in Nat
    <3>1. /\ loads[r] <= unloads /\ unloads \in 0 .. MaxUnloads /\ loads[r] \in 0 .. MaxLoads
          /\ MaxLoads = MaxUnloads + 1 /\ MaxUnloads \in Nat
      BY <2>1 DEF TypeInv, LoadsInv, BoundsTyped, DataTyped, MaxLoads
    <3>2. loads[r] + 1 \in 1 .. MaxLoads
      BY <3>1
    <3> QED BY <3>1, <3>2, CSRFacts
  <2>3. /\ loads' = [loads EXCEPT ![r] = @ + 1] /\ state' = [state EXCEPT ![r] = "loading"]
        /\ csr' = [csr EXCEPT ![r] = c] /\ staging' = staging \union {c}
        /\ UNCHANGED <<slow, done>>
    BY <1>1 DEF BeginLoad
  <2> HIDE DEF c
  <2>4. ~ Front(c) /\ ~ Back(c) /\ ~ Named(c)
    BY <1>0, <2>2 DEF Fresh
  <2>5. \A d \in CSRs : /\ Front(d)' => Front(d) \/ d = c
                        /\ Back(d)' => Back(d)
                        /\ Named(d)' => Named(d) \/ d = c
    BY <1>0, <2>3 DEF Front, Back, Named, DataTyped
  <2>6. CsrInv'
    BY <1>0, <2>2, <2>3, CSRFacts DEF CsrInv, DataTyped
  <2>7. Fresh'
    <3>1. \A d \in CSRs : loads[d.of] \in Nat /\ loads'[d.of] = (IF d.of = r THEN loads[r] + 1 ELSE loads[d.of])
      <4>1. \A q \in Resources : loads[q] \in Nat /\ loads'[q] = (IF q = r THEN loads[r] + 1 ELSE loads[q])
        BY <1>0, <2>3, CSRFacts DEF DataTyped
      <4> QED BY <4>1, CSRFacts
    <3>2. \A d \in CSRs : d.load \in Nat
      BY CSRFacts
    <3> QED BY <1>0, <2>2, <2>5, <3>1, <3>2 DEF Fresh
  <2>8. FrontOrBack'
    BY <1>0, <2>4, <2>5 DEF FrontOrBack
  <2>9. FrontOnce'
    BY <1>0, <2>3, <2>4 DEF FrontOnce, Front
  <2> QED BY <2>6, <2>7, <2>8, <2>9 DEF PlaceInv
<1>2. CASE Resubmit(r, p) \/ Hasten(r, p) \/ LeaveAsItIs(r, p)
  <2>1. UNCHANGED <<csr, staging, slow, loads>>
    BY <1>2 DEF Resubmit, Hasten, LeaveAsItIs
  <2>2. \A q \in Resources : state'[q] = state[q] \/ (state[q] = "none" /\ state'[q] = "unloaded")
    BY <1>0, <1>2 DEF Resubmit, Hasten, LeaveAsItIs, StateSeen, DataTyped
  <2>3. \A d \in CSRs : done'[d] > 0 => done[d] > 0 \/ (csr[r] = d /\ state[r] = "pending")
    BY <1>0, <1>2 DEF Resubmit, Hasten, LeaveAsItIs, DataTyped
  <2>4. CsrInv' /\ FrontOnce'
    BY <1>0, <2>1, <2>2 DEF CsrInv, FrontOnce
  <2>5. \A d \in CSRs : /\ Front(d)' => Front(d)
                        /\ Back(d)' => Back(d)
                        /\ Named(d)' => Named(d)
    BY <2>1, <2>2, <2>3 DEF Front, Back, Named
  <2> QED BY <2>1, <2>4, <2>5, NowhereNew, CSRFacts
<1> QED BY <1>1, <1>2 DEF LoadResource

\* A resource is ended because its load failed.
LEMMA FailedPlaces ==
  ASSUME TypeInv, PlaceInv, NEW c, SetResourceError(c), UNCHANGED <<done, popped>>
  PROVE  /\ CsrInv'
         /\ \A d \in CSRs : (Back(d)' => Back(d)) /\ (Named(d)' => Named(d))
<1>1. CASE UNCHANGED <<state, csr>>
  BY <1>1 DEF PlaceInv, CsrInv, Back, Named
<1>2. ASSUME NEW r \in Listed, Failed(r, c)
      PROVE  /\ CsrInv'
             /\ \A d \in CSRs : (Back(d)' => Back(d)) /\ (Named(d)' => Named(d))
  <2>1. r \in Resources
    BY DEF Listed
  <2>2. \A q \in Resources :
           /\ state'[q] = (IF q = r THEN "error" ELSE state[q])
           /\ csr'[q] = (IF q = r THEN None ELSE csr[q])
    BY <1>2 DEF Failed, TypeInv, DataTyped
  <2>3. CsrInv'
    BY <2>1, <2>2 DEF PlaceInv, CsrInv
  <2>4. \A d \in CSRs : (Back(d)' => Back(d)) /\ (Named(d)' => Named(d))
    BY <2>1, <2>2, CSRFacts DEF Back, Named
  <2> QED BY <2>3, <2>4
<1> QED BY <1>1, <1>2, ErrorSet

LEMMA ThreadPlaces == ASSUME TypeInv, PlaceInv, NEW t \in Threads, ThreadStep(t) PROVE PlaceInv'
<1>0. /\ DataTyped /\ ThreadsTyped /\ CsrInv /\ Fresh /\ FrontOrBack /\ FrontOnce
      /\ UNCHANGED <<pc, popped, loads>> /\ None \notin CSRs
  BY CSRFacts DEF TypeInv, PlaceInv, mainVars, dataVars, ThreadStep, PopQueue, TestQuit, Deliver, FailToRead, Leave,
     PassToSlow
<1>1. CASE PopQueue(t)
  <2>1. PICK c \in InQueue(t) :
           /\ hand' = [hand EXCEPT ![t] = c]
           /\ staging' = IF t = "loader" THEN staging \ {c} ELSE staging
           /\ slow' = IF t = "slow" THEN slow \ {c} ELSE slow
    BY <1>1 DEF PopQueue
  <2>2. c \in CSRs /\ UNCHANGED <<state, csr, done>>
    BY <1>0, <1>1 DEF InQueue, DataTyped, PopQueue
  <2>3. \A u \in Threads : hand'[u] = IF u = t THEN c ELSE hand[u]
    BY <1>0, <2>1 DEF ThreadsTyped
  <2>4. Front(c)
    BY DEF InQueue, Front
  <2>5. \A d \in CSRs : Front(d)' => Front(d)
    BY <2>1, <2>3, <2>4 DEF Front
  <2>6. FrontOnce'
    <3>1. c \notin staging' \union slow'
      BY <1>0, <2>1 DEF FrontOnce, InQueue, Threads
    <3>2. \A u \in Threads : hand[u] # c
      BY <1>0 DEF FrontOnce, InQueue
    <3>3. staging' \subseteq staging /\ slow' \subseteq slow
      BY <2>1
    <3> QED BY <1>0, <2>3, <3>1, <3>2, <3>3 DEF FrontOnce
  <2>7. CsrInv' /\ \A d \in CSRs : (Back(d)' => Back(d)) /\ (Named(d)' => Named(d))
    BY <1>0, <2>2 DEF CsrInv, Back, Named
  <2> QED BY <1>0, <2>5, <2>6, <2>7, NowhereNew
<1>2. CASE Deliver(t)
  <2> DEFINE c == hand[t]
  <2>1. c \in CSRs /\ Front(c)
    BY <1>0, <1>2 DEF Deliver, Goto, ThreadsTyped, Front
  <2>2. /\ done' = [done EXCEPT ![c] = @ + 1] /\ hand' = [hand EXCEPT ![t] = None]
        /\ UNCHANGED <<state, csr, staging, slow>>
    BY <1>2 DEF Deliver
  <2> HIDE DEF c
  <2>3. \A u \in Threads : hand'[u] = IF u = t THEN None ELSE hand[u]
    BY <1>0, <2>2 DEF ThreadsTyped
  <2>4. \A d \in CSRs : Front(d)' => Front(d) /\ d # c
    BY <1>0, <2>2, <2>3 DEF Front, FrontOnce, c
  <2>5. \A d \in CSRs : (Back(d)' => Back(d) \/ d = c) /\ (Named(d)' => Named(d))
    BY <1>0, <2>2 DEF Back, Named, DataTyped
  <2>6. CsrInv' /\ FrontOnce'
    BY <1>0, <2>2, <2>3 DEF CsrInv, FrontOnce, DataTyped
  <2> QED BY <1>0, <2>1, <2>4, <2>5, <2>6, NowhereNew
<1>3. ASSUME SetResourceError(hand[t]), UNCHANGED <<done, staging, slow>>, hand' = [hand EXCEPT ![t] = None]
      PROVE  PlaceInv'
  <2>1. \A u \in Threads : hand'[u] = IF u = t THEN None ELSE hand[u]
    BY <1>0, <1>3 DEF ThreadsTyped
  <2>2. FrontOnce' /\ \A d \in CSRs : Front(d)' => Front(d)
    BY <1>0, <1>3, <2>1 DEF Front, FrontOnce, DataTyped
  <2> QED BY <1>0, <1>3, <2>2, FailedPlaces, NowhereNew
<1>4. ASSUME UNCHANGED <<state, csr, done, staging, slow, hand>> PROVE PlaceInv'
  <2>1. \A d \in CSRs : (Front(d)' => Front(d)) /\ (Back(d)' => Back(d)) /\ (Named(d)' => Named(d))
    BY <1>0, <1>4 DEF Front, Back, Named
  <2>2. CsrInv' /\ FrontOnce'
    BY <1>0, <1>4 DEF CsrInv, FrontOnce
  <2> QED BY <1>0, <2>1, <2>2, NowhereNew
<1>5. CASE PassToSlow /\ t = "loader"
  <2> DEFINE c == hand[t]
  <2>1. c \in CSRs /\ Front(c)
    BY <1>0, <1>5 DEF PassToSlow, Goto, ThreadsTyped, Front
  <2>2. /\ slow' = slow \union {c} /\ hand' = [hand EXCEPT ![t] = None]
        /\ UNCHANGED <<state, csr, staging, done>>
    BY <1>5 DEF PassToSlow
  <2> HIDE DEF c
  <2>3. \A u \in Threads : hand'[u] = IF u = t THEN None ELSE hand[u]
    BY <1>0, <2>2 DEF ThreadsTyped
  <2>4. \A d \in CSRs : (Front(d)' => Front(d)) /\ (Back(d)' => Back(d)) /\ (Named(d)' => Named(d))
    BY <1>0, <2>1, <2>2, <2>3 DEF Front, Back, Named
  <2>5. CsrInv' /\ FrontOnce'
    BY <1>0, <2>1, <2>2, <2>3 DEF CsrInv, FrontOnce, DataTyped, c
  <2> QED BY <1>0, <2>4, <2>5, NowhereNew
<1> QED BY <1>1, <1>2, <1>3, <1>4, <1>5 DEF ThreadStep, TestQuit, FailToRead, Leave, dataVars

LEMMA PumpPlaces ==
  ASSUME TypeInv, PlaceInv, PopDone \/ Attach \/ BeginDeserialise \/ EndDeserialise
  PROVE  PlaceInv'
<1>0. /\ DataTyped /\ PumpTyped /\ CsrInv /\ Fresh /\ FrontOrBack /\ FrontOnce
      /\ UNCHANGED <<hand, loads, staging, slow>> /\ None \notin CSRs /\ NoResource \notin Resources
  BY CSRFacts, Found DEF TypeInv, PlaceInv, threadVars, PopDone, Attach, BeginDeserialise, EndDeserialise
<1>1. FrontOnce' /\ \A d \in CSRs : Front(d)' => Front(d)
  BY <1>0 DEF FrontOnce, Front
<1>2. CASE PopDone
  <2>1. PICK c \in CSRs : done[c] > 0 /\ done' = [done EXCEPT ![c] = @ - 1] /\ popped' = c
    BY <1>2 DEF PopDone
  <2>2. UNCHANGED <<state, csr>>
    BY <1>2 DEF PopDone
  <2>3. \A d \in CSRs : (Back(d)' => Back(d)) /\ (Named(d)' => Named(d))
    BY <1>0, <2>1, <2>2 DEF Back, Named, DataTyped
  <2>4. CsrInv'
    BY <1>0, <2>2 DEF CsrInv
  <2> QED BY <1>0, <1>1, <2>3, <2>4, NowhereNew
<1>3. CASE Attach
  <2>1. PICK r \in Resources :
           /\ state' = [state EXCEPT ![r] = "pending"] /\ csr' = [csr EXCEPT ![r] = popped]
           /\ done' = done /\ popped' \in {None, popped}
    BY <1>3, Found DEF Attach, PumpGoesOn
  <2>2. popped \in CSRs /\ Back(popped)
    BY <1>0, <1>3 DEF Attach, PumpTyped, Back
  <2>3. \A q \in Resources :
           /\ state'[q] = (IF q = r THEN "pending" ELSE state[q])
           /\ csr'[q] = (IF q = r THEN popped ELSE csr[q])
    BY <1>0, <2>1 DEF DataTyped
  <2>4. \A d \in CSRs : (Back(d)' => Back(d)) /\ (Named(d)' => Named(d) \/ Back(d))
    BY <1>0, <2>1, <2>2, <2>3 DEF Back, Named
  <2>5. CsrInv'
    BY <1>0, <2>2, <2>3 DEF CsrInv
  <2> QED BY <1>0, <1>1, <2>4, <2>5, NowhereNew
<1>4. CASE BeginDeserialise \/ EndDeserialise
  <2>1. res \in Resources /\ csr[res] \in CSRs \union {None}
    BY <1>0, <1>4 DEF BeginDeserialise, EndDeserialise, PumpTyped, DataTyped
  <2>2. PICK s \in States \ {"none", "unloaded", "pending"}, c \in {None, csr[res]} :
           /\ state' = [state EXCEPT ![res] = s] /\ csr' = [csr EXCEPT ![res] = c]
           /\ c # None <=> s = "loading"
           /\ done' = done /\ popped' \in {None, popped}
    <3>1. CASE BeginDeserialise /\ (csr[res] = None \/ state[res] = "error")
      BY <3>1 DEF BeginDeserialise, States, PumpGoesOn
    <3>2. CASE BeginDeserialise /\ csr[res] # None /\ state[res] # "error"
      <4>1. csr = [csr EXCEPT ![res] = csr[res]]
        BY <1>0 DEF DataTyped
      <4>2. /\ state' = [state EXCEPT ![res] = "loading"] /\ csr' = [csr EXCEPT ![res] = csr[res]]
            /\ done' = done /\ popped' = popped
        BY <3>2, <4>1 DEF BeginDeserialise
      <4> QED BY <3>2, <4>2 DEF States
    <3>3. CASE EndDeserialise
      <4>1. PICK s \in Ended : state' = [state EXCEPT ![res] = s]
        BY <3>3 DEF EndDeserialise
      <4>2. csr' = [csr EXCEPT ![res] = None] /\ done' = done /\ popped' = None
        BY <3>3 DEF EndDeserialise, PumpGoesOn
      <4> QED BY <4>1, <4>2 DEF States, Ended
    <3> QED BY <1>4, <3>1, <3>2, <3>3
  <2>3. \A q \in Resources :
           /\ state'[q] = (IF q = res THEN s ELSE state[q])
           /\ csr'[q] = (IF q = res THEN c ELSE csr[q])
    BY <1>0, <2>2 DEF DataTyped
  <2>4. \A d \in CSRs : (Back(d)' => Back(d)) /\ (Named(d)' => Named(d))
    BY <1>0, <2>1, <2>2, <2>3 DEF Back, Named
  <2>5. CsrInv'
    BY <1>0, <2>2, <2>3 DEF CsrInv, States
  <2> QED BY <1>0, <1>1, <2>4, <2>5, NowhereNew
<1> QED BY <1>2, <1>3, <1>4

LEMMA UnloadPlaces ==
  ASSUME TypeInv, PlaceInv, Close \/ \E r \in Resources : Unload(r)
  PROVE  PlaceInv'
<1>0. /\ DataTyped /\ PumpTyped /\ CsrInv /\ Fresh /\ FrontOrBack /\ FrontOnce
      /\ UNCHANGED <<hand, loads, popped>> /\ None \notin CSRs
  BY CSRFacts DEF TypeInv, PlaceInv, threadVars, mainVars, Close, Unload
<1>1. /\ staging' \subseteq staging /\ slow' \subseteq slow
      /\ \A d \in CSRs : done'[d] > 0 => done[d] > 0
  BY <1>0 DEF Close, Unload, DataTyped
<1>2. \A q \in Resources :
         \/ csr'[q] = csr[q] /\ state'[q] = state[q]
         \/ csr'[q] = None /\ state'[q] = "unloaded"
  BY <1>0 DEF Close, Unload, DataTyped
<1>3. \A d \in CSRs : (Front(d)' => Front(d)) /\ (Back(d)' => Back(d)) /\ (Named(d)' => Named(d))
  BY <1>0, <1>1, <1>2 DEF Front, Back, Named
<1>4. CsrInv' /\ FrontOnce'
  BY <1>0, <1>1, <1>2 DEF CsrInv, FrontOnce
<1> QED BY <1>0, <1>3, <1>4, NowhereNew

\* Steps that move no CSR.
LEMMA Unmoved ==
  ASSUME TypeInv, PlaceInv, UNCHANGED <<dataVars, threadVars>>, popped' \in {popped, None}
  PROVE  PlaceInv'
<1>1. CsrInv' /\ FrontOnce' /\ loads' = loads /\ None \notin CSRs
  BY CSRFacts DEF PlaceInv, CsrInv, FrontOnce, dataVars, threadVars
<1>2. \A d \in CSRs : (Front(d)' => Front(d)) /\ (Back(d)' => Back(d)) /\ (Named(d)' => Named(d))
  BY <1>1 DEF Front, Back, Named, dataVars, threadVars
<1> QED BY <1>1, <1>2, NowhereNew

LEMMA PlaceStep == TypeInv /\ PlaceInv /\ [Next]_vars => PlaceInv'
<1> SUFFICES ASSUME TypeInv, PlaceInv, [Next]_vars PROVE PlaceInv'
  OBVIOUS
<1>1. ASSUME NEW a \in Asks, Ask(a[1], a[2]) PROVE PlaceInv'
  <2>1. a[1] \in Resources /\ a[2] \in Priorities
    OBVIOUS
  <2>2. LoadResource(a[1], a[2]) /\ UNCHANGED <<hand, popped>> /\ pc # "closed"
    BY <1>1 DEF Ask, threadVars, mainVars
  <2> QED BY <2>1, <2>2, LoadPlaces
<1>2. CASE Request
  <2>1. Waited \in Resources /\ Immediate \in Priorities /\ UNCHANGED <<hand, popped>> /\ pc # "closed"
    BY <1>2 DEF Request, Waited, Immediate, Priorities, TypeInv, BlockTyped, threadVars
  <2>2. CASE state[Waited] = "error"
    BY <1>2, <2>2, Unmoved DEF Request
  <2>3. CASE state[Waited] # "error"
    BY <1>2, <2>1, <2>3, LoadPlaces DEF Request
  <2> QED BY <2>2, <2>3
<1>3. CASE \/ Requested \/ Check \/ Turn \/ NoneLeft \/ Return \/ PumpTimesOut \/ Discard \/ WantQuit
           \/ AbortQueues \/ (\E rs \in Waits : Block(rs)) \/ UNCHANGED vars
  <2>1. UNCHANGED <<dataVars, threadVars>> /\ popped' \in {popped, None}
    BY <1>3 DEF Requested, Check, Turn, NoneLeft, Return, PumpTimesOut, Discard, WantQuit, AbortQueues, Block, vars,
       mainVars
  <2> QED BY <2>1, Unmoved
<1> QED BY <1>1, <1>2, <1>3, ThreadPlaces, PumpPlaces, UnloadPlaces DEF Next, MainStep

-----------------------------------------------------------------------------
(* As long as no CSR has strayed, each resource has its own, and what is    *)
(* loading is on its way.                                                   *)

Mine == \A r \in Resources : csr[r] # None => csr[r].of = r

OnItsWay(c) ==
  \/ Front(c)
  \/ done[c] = 1 /\ popped # c
  \/ done[c] = 0 /\ popped = c

UnderWay == \A r \in Listed : state[r] = "loading" => OnItsWay(csr[r])

\* What is put aside is streamed, but for the resource the pump has in hand.
AsideInv == \A r \in Resources : state[r] = "pending" => prio[r].dont \/ (pc = "begin" /\ r = res)

\* What the pump has in hand nobody else touches.
PumpInv ==
  /\ pc \in {"begin", "deserialise"} => res \in Listed /\ csr[res] = popped /\ done[popped] = 0
  /\ pc = "begin" => state[res] = "pending"
  /\ pc = "deserialise" => state[res] = "loading"

LoadInv == ~ strayed => Mine /\ UnderWay /\ AsideInv /\ PumpInv

\* What the steps below start from.
Steady ==
  /\ DataTyped /\ ThreadsTyped /\ PumpTyped /\ CsrInv /\ FrontOrBack /\ FrontOnce
  /\ Mine /\ UnderWay /\ AsideInv /\ PumpInv
  /\ \A r, s \in Resources : csr[r] = csr[s] /\ csr[r] # None => r = s
  /\ \A r \in Resources : csr[r] # None => csr[r] \in CSRs
  /\ None \notin CSRs /\ NoResource \notin Resources /\ Listed \subseteq Resources

LEMMA SteadyNow == ASSUME TypeInv, PlaceInv, LoadInv, ~ strayed PROVE Steady
<1>1. \A r, s \in Resources : csr[r] = csr[s] /\ csr[r] # None => r = s
  BY DEF LoadInv, Mine
<1>2. /\ None \notin CSRs /\ NoResource \notin Resources /\ Listed \subseteq Resources
      /\ \A r \in Resources : csr[r] # None => csr[r] \in CSRs
  <2>1. \A r \in Resources : csr[r] \in CSRs \union {None}
    BY DEF TypeInv, DataTyped
  <2>2. NoResource \notin Resources /\ Listed \subseteq Resources
    BY Found
  <2> QED BY <2>1, <2>2, CSRFacts
<1>3. /\ DataTyped /\ ThreadsTyped /\ PumpTyped /\ CsrInv /\ FrontOrBack /\ FrontOnce
      /\ Mine /\ UnderWay /\ AsideInv /\ PumpInv
  BY Zenon DEF LoadInv, TypeInv, PlaceInv
<1> QED BY <1>1, <1>2, <1>3 DEF Steady

LEMMA LoadInit == Init => LoadInv
BY DEF Init, LoadInv, Mine, UnderWay, Listed, AsideInv, PumpInv

\* LoadResource, whoever calls it.
LEMMA LoadAsked ==
  ASSUME TypeInv, PlaceInv, LoadInv, NEW r \in Resources, NEW p \in Priorities, LoadResource(r, p),
         UNCHANGED <<hand, popped, res, pc>>, pc \notin {"begin", "closed"}
  PROVE  LoadInv'
<1>s. strayed' = strayed
  BY DEF LoadResource, BeginLoad, Resubmit, Hasten, LeaveAsItIs
<1> SUFFICES ASSUME ~ strayed PROVE (Mine /\ UnderWay /\ AsideInv /\ PumpInv)'
  BY <1>s DEF LoadInv
<1>0. Steady
  BY SteadyNow
<1>1. CASE BeginLoad(r, p)
  <2>0. PICK c : c = [of |-> r, load |-> loads[r] + 1]
    OBVIOUS
  <2>1. /\ state[r] \in {"none", "unloaded"} /\ csr[r] = None /\ c.of = r
        /\ state' = [state EXCEPT ![r] = "loading"] /\ csr' = [csr EXCEPT ![r] = c]
        /\ prio' = [prio EXCEPT ![r] = p] /\ staging' = staging \union {c}
        /\ UNCHANGED <<slow, done>>
    BY <1>0, <1>1, <2>0 DEF BeginLoad, StateSeen, CsrInv, DataTyped, Steady
  <2>2. \A q \in Resources :
           /\ state'[q] = (IF q = r THEN "loading" ELSE state[q])
           /\ csr'[q] = (IF q = r THEN c ELSE csr[q])
           /\ q # r => prio'[q] = prio[q]
    BY <1>0, <2>1 DEF Steady, DataTyped
  <2>3. Mine'
    BY <1>0, <2>1, <2>2 DEF Steady, Mine
  <2>4. UnderWay'
    <3>1. OnItsWay(c)'
      BY <2>1 DEF OnItsWay, Front
    <3>2. \A d : OnItsWay(d) => OnItsWay(d)'
      BY <2>1 DEF OnItsWay, Front
    <3>3. \A q \in Listed' : q \in Resources /\ (q # r => q \in Listed)
      BY <2>2 DEF Listed
    <3> QED BY <1>0, <2>2, <3>1, <3>2, <3>3 DEF Steady, UnderWay
  <2>5. AsideInv'
    BY <1>0, <2>2 DEF Steady, AsideInv
  <2>6. PumpInv'
    BY <1>0, <2>1, <2>2 DEF Steady, PumpInv, Listed
  <2> QED BY <2>3, <2>4, <2>5, <2>6
<1>2. CASE Resubmit(r, p) \/ Hasten(r, p) \/ LeaveAsItIs(r, p)
  <2>1. UNCHANGED <<csr, staging, slow, loads>>
    BY <1>2 DEF Resubmit, Hasten, LeaveAsItIs
  <2>2. \A q \in Resources :
           /\ state'[q] = state[q] \/ (state[q] = "none" /\ state'[q] = "unloaded")
           /\ prio'[q].dont = prio[q].dont \/ prio'[q].dont \/ state[q] = "loading"
    BY <1>0, <1>2 DEF Resubmit, Hasten, LeaveAsItIs, StateSeen, DataTyped, Steady
  <2>3. \A d \in CSRs : done'[d] = done[d] \/ (csr[r] = d /\ state[r] = "pending")
    BY <1>0, <1>2 DEF Resubmit, Hasten, LeaveAsItIs, DataTyped, Steady
  <2>4. Mine'
    BY <1>0, <2>1 DEF Steady, Mine
  <2>5. UnderWay'
    <3>1. ASSUME NEW q \in Listed', state'[q] = "loading" PROVE OnItsWay(csr[q])'
      <4>1. q \in Listed /\ q \in Resources /\ state[q] = "loading" /\ csr[q] \in CSRs
        BY <1>0, <2>2, <3>1 DEF Listed, Steady, CsrInv
      <4>2. done'[csr[q]] = done[csr[q]]
        BY <1>0, <2>3, <4>1 DEF Steady
      <4> QED BY <1>0, <2>1, <4>1, <4>2 DEF Steady, UnderWay, OnItsWay, Front
    <3> QED BY <3>1 DEF UnderWay
  <2>6. AsideInv'
    BY <1>0, <2>2 DEF Steady, AsideInv
  <2>7. PumpInv'
    <3>1. CASE pc = "deserialise"
      <4>1. res \in Listed /\ res \in Resources /\ csr[res] = popped /\ done[popped] = 0 /\ state[res] = "loading"
        BY <1>0, <3>1 DEF Steady, PumpInv
      <4>2. popped \in CSRs
        BY <1>0, <3>1 DEF Steady, PumpTyped
      <4>3. done'[popped] = 0
        BY <1>0, <2>3, <4>1, <4>2 DEF Steady
      <4> QED BY <2>1, <2>2, <3>1, <4>1, <4>3 DEF PumpInv, Listed
    <3>2. CASE pc # "deserialise"
      BY <3>2 DEF PumpInv
    <3> QED BY <3>1, <3>2
  <2> QED BY <2>4, <2>5, <2>6, <2>7
<1> QED BY <1>1, <1>2 DEF LoadResource

LEMMA LoadThreads ==
  ASSUME TypeInv, PlaceInv, LoadInv, NEW t \in Threads, ThreadStep(t)
  PROVE  LoadInv'
<1>s. UNCHANGED <<pc, popped, res, prio>> /\ (strayed => strayed')
  BY ErrorSet DEF ThreadStep, PopQueue, TestQuit, Deliver, FailToRead, Leave, PassToSlow, mainVars, dataVars
<1> SUFFICES ASSUME ~ strayed' PROVE (Mine /\ UnderWay /\ AsideInv /\ PumpInv)'
  BY DEF LoadInv
<1>0. Steady /\ ~ strayed
  BY <1>s, SteadyNow
\* Steps that leave the resources alone.
<1>1. ASSUME UNCHANGED <<state, csr>>, \A d \in CSRs : OnItsWay(d) => OnItsWay(d)',
             done[popped]' = done[popped] \/ pc \notin {"begin", "deserialise"}
      PROVE  (Mine /\ UnderWay /\ AsideInv /\ PumpInv)'
  <2>1. Mine' /\ AsideInv'
    BY <1>0, <1>1, <1>s DEF Steady, Mine, AsideInv
  <2>2. UnderWay'
    <3>1. ASSUME NEW q \in Listed, state[q] = "loading" PROVE OnItsWay(csr[q])'
      <4>1. csr[q] \in CSRs /\ csr'[q] = csr[q] /\ OnItsWay(csr[q])
        BY <1>0, <1>1, <3>1 DEF Steady, UnderWay, CsrInv
      <4>2. PICK d \in CSRs : d = csr[q]
        BY <4>1
      <4>3. OnItsWay(d)' /\ csr'[q] = d
        BY <1>1, <4>1, <4>2
      <4> QED BY <4>3 DEF OnItsWay, Front
    <3> QED BY <1>1, <3>1 DEF UnderWay, Listed
  <2>3. PumpInv'
    BY <1>0, <1>1, <1>s DEF Steady, PumpInv, Listed
  <2> QED BY <2>1, <2>2, <2>3
<1>2. CASE PopQueue(t)
  <2>1. PICK c \in InQueue(t) :
           /\ hand' = [hand EXCEPT ![t] = c]
           /\ staging' = IF t = "loader" THEN staging \ {c} ELSE staging
           /\ slow' = IF t = "slow" THEN slow \ {c} ELSE slow
    BY <1>2 DEF PopQueue
  <2>2. \A u \in Threads : hand'[u] = IF u = t THEN c ELSE hand[u]
    BY <1>0, <2>1 DEF Steady, ThreadsTyped
  <2>3. UNCHANGED <<state, csr, done>> /\ hand[t] = None
    BY <1>0, <1>2 DEF PopQueue, Goto, Steady, ThreadsTyped
  <2>4. \A d \in CSRs : Front(d) => Front(d)'
    BY <1>0, <2>1, <2>2, <2>3 DEF Front, Steady
  <2>5. \A d \in CSRs : OnItsWay(d) => OnItsWay(d)'
    BY <1>s, <2>3, <2>4 DEF OnItsWay
  <2> QED BY <1>1, <1>s, <2>3, <2>5
<1>3. CASE Deliver(t)
  <2>0. PICK c : c = hand[t]
    OBVIOUS
  <2>1. c \in CSRs /\ Front(c) /\ done[c] = 0 /\ popped # c
    <3>1. c \in CSRs /\ Front(c)
      BY <1>0, <1>3, <2>0 DEF Deliver, Goto, ThreadsTyped, Front, Steady
    <3> QED BY <1>0, <3>1 DEF Steady, FrontOrBack, Back, DataTyped
  <2>2. /\ done' = [done EXCEPT ![c] = @ + 1] /\ hand' = [hand EXCEPT ![t] = None]
        /\ UNCHANGED <<state, csr, staging, slow>>
    BY <1>3, <2>0 DEF Deliver
  <2>3. \A u \in Threads : hand'[u] = IF u = t THEN None ELSE hand[u]
    BY <1>0, <2>2 DEF Steady, ThreadsTyped
  <2>4. \A d \in CSRs : done'[d] = IF d = c THEN 1 ELSE done[d]
    BY <1>0, <2>1, <2>2 DEF Steady, DataTyped
  <2>5. \A d \in CSRs : OnItsWay(d) => OnItsWay(d)'
    <3>1. \A d \in CSRs : Front(d) => Front(d)' \/ d = c
      BY <2>0, <2>2, <2>3 DEF Front
    <3> QED BY <1>s, <2>1, <2>4, <3>1 DEF OnItsWay
  <2>6. done[popped]' = done[popped] \/ pc \notin {"begin", "deserialise"}
    BY <1>0, <1>s, <2>1, <2>4 DEF Steady, PumpTyped
  <2> QED BY <1>1, <2>2, <2>5, <2>6
<1>4. ASSUME SetResourceError(hand[t]), UNCHANGED <<done, staging, slow>>, hand' = [hand EXCEPT ![t] = None],
             tpc[t] \in {"test", "read"}
      PROVE  (Mine /\ UnderWay /\ AsideInv /\ PumpInv)'
  <2>0. PICK c : c = hand[t]
    OBVIOUS
  <2>1. c \in CSRs /\ Front(c) /\ popped # c
    <3>1. c \in CSRs /\ Front(c)
      BY <1>0, <1>4, <2>0 DEF ThreadsTyped, Front, Steady
    <3> QED BY <1>0, <3>1 DEF Steady, FrontOrBack, Back, DataTyped
  <2>2. \A u \in Threads : hand'[u] = IF u = t THEN None ELSE hand[u]
    BY <1>0, <1>4 DEF Steady, ThreadsTyped
  <2>3. \A d \in CSRs : d # c /\ OnItsWay(d) => OnItsWay(d)'
    BY <1>s, <1>4, <2>0, <2>2 DEF OnItsWay, Front
  <2>4. CASE UNCHANGED <<state, csr>> /\ Listed = {}
    <3>1. Listed' = {}
      BY <2>4 DEF Listed
    <3> QED BY <1>0, <1>4, <1>s, <2>4, <3>1 DEF Steady, Mine, UnderWay, AsideInv, PumpInv
  <2>5. ASSUME NEW r \in Listed, Failed(r, c) PROVE (Mine /\ UnderWay /\ AsideInv /\ PumpInv)'
    <3>1. r \in Resources /\ csr[r] = c
      BY <1>0, <2>5 DEF Failed, Steady
    <3>2. \A q \in Resources :
             /\ state'[q] = (IF q = r THEN "error" ELSE state[q])
             /\ csr'[q] = (IF q = r THEN None ELSE csr[q])
      BY <1>0, <2>5 DEF Failed, Steady, DataTyped
    <3>3. Mine' /\ AsideInv'
      BY <1>0, <1>s, <3>2 DEF Steady, Mine, AsideInv
    <3>4. UnderWay'
      <4>1. ASSUME NEW q \in Listed', state'[q] = "loading" PROVE OnItsWay(csr[q])'
        <5>1. q \in Listed /\ q \in Resources /\ q # r /\ state[q] = "loading" /\ csr'[q] = csr[q]
          BY <3>2, <4>1 DEF Listed
        <5>2. PICK d \in CSRs : d = csr[q] /\ d # c /\ OnItsWay(d)
          BY <1>0, <3>1, <5>1 DEF Steady, UnderWay, CsrInv
        <5>3. OnItsWay(d)' /\ csr'[q] = d
          BY <2>3, <5>1, <5>2
        <5> QED BY <5>3 DEF OnItsWay, Front
      <4> QED BY <4>1 DEF UnderWay
    <3>5. PumpInv'
      BY <1>0, <1>4, <1>s, <2>1, <3>1, <3>2 DEF Steady, PumpInv, Listed
    <3> QED BY <3>3, <3>4, <3>5
  <2> QED BY <1>4, <2>0, <2>4, <2>5, ErrorSet
<1>5. CASE PassToSlow /\ t = "loader"
  <2>0. PICK c : c = hand[t]
    OBVIOUS
  <2>1. /\ slow' = slow \union {c} /\ hand' = [hand EXCEPT ![t] = None]
        /\ UNCHANGED <<state, csr, staging, done>>
    BY <1>5, <2>0 DEF PassToSlow
  <2>2. \A u \in Threads : hand'[u] = IF u = t THEN None ELSE hand[u]
    BY <1>0, <2>1 DEF Steady, ThreadsTyped
  <2>3. \A d \in CSRs : Front(d) => Front(d)'
    BY <2>0, <2>1, <2>2 DEF Front
  <2>4. \A d \in CSRs : OnItsWay(d) => OnItsWay(d)'
    BY <1>s, <2>1, <2>3 DEF OnItsWay
  <2> QED BY <1>1, <1>s, <2>1, <2>4
<1>6. CASE UNCHANGED <<state, csr, done, staging, slow, hand>>
  <2>1. \A d \in CSRs : OnItsWay(d) => OnItsWay(d)'
    BY <1>s, <1>6 DEF OnItsWay, Front
  <2> QED BY <1>1, <1>s, <1>6, <2>1
<1> QED BY <1>2, <1>3, <1>4, <1>5, <1>6 DEF ThreadStep, TestQuit, FailToRead, Leave, dataVars, Goto

LEMMA LoadPump ==
  ASSUME TypeInv, PlaceInv, LoadInv, PopDone \/ Discard \/ Attach \/ BeginDeserialise \/ EndDeserialise
  PROVE  LoadInv'
<1>s. UNCHANGED <<prio, hand, staging, slow>> /\ (strayed => strayed')
  <2>1. CASE PopDone
    BY <2>1 DEF PopDone, threadVars
  <2>2. CASE Discard
    BY <2>2 DEF Discard, threadVars, dataVars
  <2>3. CASE Attach
    <3>1. UNCHANGED <<prio, hand, staging, slow>> /\ strayed' = (strayed \/ Strays(popped))
      BY <2>3, Zenon DEF Attach, threadVars
    <3> QED BY <3>1, Zenon
  <2>4. CASE BeginDeserialise
    BY <2>4 DEF BeginDeserialise, threadVars
  <2>5. CASE EndDeserialise
    BY <2>5 DEF EndDeserialise, threadVars
  <2> QED BY <2>1, <2>2, <2>3, <2>4, <2>5
<1> SUFFICES ASSUME ~ strayed' PROVE (Mine /\ UnderWay /\ AsideInv /\ PumpInv)'
  BY DEF LoadInv
<1>0. Steady /\ ~ strayed
  BY <1>s, SteadyNow
<1>1. CASE PopDone
  <2>1. PICK c \in CSRs : done[c] > 0 /\ done' = [done EXCEPT ![c] = @ - 1] /\ popped' = c
    BY <1>1 DEF PopDone
  <2>2. UNCHANGED <<state, csr>> /\ pc = "pump" /\ pc' = "find" /\ popped = None
    BY <1>0, <1>1 DEF PopDone, Steady, PumpTyped
  <2>3. \A d \in CSRs : done[d] \in Nat /\ done'[d] = IF d = c THEN done[d] - 1 ELSE done[d]
    BY <1>0, <2>1 DEF Steady, DataTyped
  <2>4. ~ Front(c)
    BY <1>0, <2>1 DEF Steady, FrontOrBack, Back
  <2>5. \A d \in CSRs : OnItsWay(d) => OnItsWay(d)'
    <3>1. ASSUME NEW d \in CSRs, OnItsWay(d) PROVE OnItsWay(d)'
      <4>1. CASE d = c
        BY <1>0, <2>1, <2>2, <2>3, <2>4, <3>1, <4>1 DEF OnItsWay
      <4>2. CASE d # c
        BY <1>0, <1>s, <2>1, <2>2, <2>3, <3>1, <4>2 DEF OnItsWay, Front, Steady
      <4> QED BY <4>1, <4>2
    <3> QED BY <3>1
  <2>6. UnderWay'
    <3>1. ASSUME NEW q \in Listed, state[q] = "loading" PROVE OnItsWay(csr[q])'
      <4>1. PICK d \in CSRs : d = csr[q] /\ OnItsWay(d)
        BY <1>0, <3>1 DEF Steady, UnderWay, CsrInv
      <4>2. OnItsWay(d)' /\ csr'[q] = d
        BY <2>2, <2>5, <4>1
      <4> QED BY <4>2 DEF OnItsWay, Front
    <3> QED BY <2>2, <3>1 DEF UnderWay, Listed
  <2>7. Mine' /\ AsideInv' /\ PumpInv'
    BY <1>0, <1>s, <2>2 DEF Steady, Mine, AsideInv, PumpInv
  <2> QED BY <2>6, <2>7
<1>2. CASE Discard
  <2>1. Listed = {} /\ UNCHANGED <<state, csr, done>> /\ pc = "find" /\ pc' = "check"
    BY <1>2, Found DEF Discard, dataVars
  <2>2. Listed' = {}
    BY <2>1 DEF Listed
  <2> QED BY <1>0, <1>s, <2>1, <2>2 DEF Steady, Mine, UnderWay, AsideInv, PumpInv
<1>3. CASE Attach
  <2>1. PICK r \in Listed :
           /\ state' = [state EXCEPT ![r] = "pending"] /\ csr' = [csr EXCEPT ![r] = popped]
           /\ csr[r] = popped
           /\ IF prio[r].dont THEN PumpGoesOn ELSE pc' = "begin" /\ res' = r /\ UNCHANGED popped
    <3>1. FindResource(popped) \in Listed /\ ~ Strays(popped)
      BY <1>3, Found DEF Attach
    <3> QED BY <1>3, <3>1, Found DEF Attach
  <2>2. pc = "find" /\ popped \in CSRs /\ Back(popped) /\ done' = done /\ popped' \in {popped, None}
    BY <1>0, <1>3, <2>1 DEF Attach, Steady, PumpTyped, Back, PumpGoesOn
  <2>3. r \in Resources /\ state[r] \in {"loading", "pending"}
    BY <1>0, <2>1, <2>2 DEF Steady, CsrInv
  <2>4. \A q \in Resources : csr'[q] = csr[q] /\ state'[q] = (IF q = r THEN "pending" ELSE state[q])
    BY <1>0, <2>1 DEF Steady, DataTyped
  <2>5. Mine'
    BY <1>0, <2>4 DEF Steady, Mine
  <2>6. UnderWay'
    <3>1. ASSUME NEW q \in Listed', state'[q] = "loading" PROVE OnItsWay(csr[q])'
      <4>1. q \in Listed /\ q \in Resources /\ q # r /\ state[q] = "loading" /\ csr'[q] = csr[q]
        BY <2>3, <2>4, <3>1 DEF Listed
      <4>2. PICK d \in CSRs : d = csr[q] /\ d # popped /\ OnItsWay(d)
        BY <1>0, <2>1, <2>3, <4>1 DEF Steady, UnderWay, CsrInv
      <4>3. OnItsWay(d)' /\ csr'[q] = d
        BY <1>0, <1>s, <2>2, <4>1, <4>2 DEF OnItsWay, Front, Steady
      <4> QED BY <4>3 DEF OnItsWay, Front
    <3> QED BY <3>1 DEF UnderWay
  <2>7. AsideInv'
    BY <1>0, <1>s, <2>1, <2>2, <2>3, <2>4 DEF Steady, AsideInv
  <2>8. PumpInv'
    <3>1. CASE prio[r].dont
      BY <2>1, <3>1 DEF PumpGoesOn, PumpInv
    <3>2. CASE ~ prio[r].dont
      <4>1. pc' = "begin" /\ res' = r /\ popped' = popped
        BY <2>1, <3>2
      <4>2. state[r] = "loading"
        BY <1>0, <2>2, <2>3, <3>2 DEF Steady, AsideInv
      <4>3. OnItsWay(popped) /\ ~ Front(popped)
        BY <1>0, <2>1, <2>2, <4>2 DEF Steady, UnderWay, FrontOrBack
      <4>4. done[popped] = 0
        BY <4>3 DEF OnItsWay
      <4>5. r \in Listed'
        BY <2>1, <2>3, <2>4 DEF Listed
      <4> QED BY <2>1, <2>2, <2>3, <2>4, <4>1, <4>4, <4>5 DEF PumpInv
    <3> QED BY <3>1, <3>2
  <2> QED BY <2>5, <2>6, <2>7, <2>8
<1>4. CASE BeginDeserialise
  <2>1. /\ pc = "begin" /\ res \in Listed /\ res \in Resources /\ csr[res] = popped /\ done[popped] = 0
        /\ state[res] = "pending" /\ popped \in CSRs
    BY <1>0, <1>4 DEF BeginDeserialise, Steady, PumpInv, PumpTyped
  <2>2. csr[res] # None /\ state[res] # "error"
    BY <1>0, <2>1 DEF Steady
  <2>3. /\ state' = [state EXCEPT ![res] = "loading"] /\ pc' = "deserialise"
        /\ UNCHANGED <<csr, popped, res, done>>
    BY <1>4, <2>2 DEF BeginDeserialise
  <2>4. \A q \in Resources : state'[q] = (IF q = res THEN "loading" ELSE state[q])
    BY <1>0, <2>3 DEF Steady, DataTyped
  <2>5. \A q \in Listed' : q \in Listed
    BY <2>1, <2>4 DEF Listed
  <2>6. UnderWay'
    <3>1. ASSUME NEW q \in Listed', state'[q] = "loading" PROVE OnItsWay(csr[q])'
      <4>1. CASE q = res
        <5>1. OnItsWay(popped)'
          BY <2>1, <2>3 DEF OnItsWay
        <5>2. csr'[q] = popped' /\ popped' = popped
          BY <2>1, <2>3, <4>1
        <5> QED BY <5>1, <5>2 DEF OnItsWay, Front
      <4>2. CASE q # res
        <5>1. q \in Listed /\ q \in Resources /\ state[q] = "loading" /\ csr'[q] = csr[q]
          BY <2>3, <2>4, <2>5, <3>1, <4>2 DEF Listed
        <5>2. PICK d \in CSRs : d = csr[q] /\ OnItsWay(d)
          BY <1>0, <5>1 DEF Steady, UnderWay, CsrInv
        <5>3. OnItsWay(d)' /\ csr'[q] = d
          BY <1>s, <2>1, <2>3, <5>1, <5>2 DEF OnItsWay, Front
        <5> QED BY <5>3 DEF OnItsWay, Front
      <4> QED BY <4>1, <4>2
    <3> QED BY <3>1 DEF UnderWay
  <2>7. Mine' /\ AsideInv'
    BY <1>0, <1>s, <2>1, <2>3, <2>4 DEF Steady, Mine, AsideInv
  <2>8. PumpInv'
    BY <2>1, <2>3, <2>4 DEF PumpInv, Listed
  <2> QED BY <2>6, <2>7, <2>8
<1>5. CASE EndDeserialise
  <2>1. /\ pc = "deserialise" /\ res \in Listed /\ res \in Resources /\ csr[res] = popped /\ popped \in CSRs
    BY <1>0, <1>5 DEF EndDeserialise, Steady, PumpInv, PumpTyped
  <2>2. PICK s \in Ended : state' = [state EXCEPT ![res] = s]
    BY <1>5 DEF EndDeserialise
  <2>3. /\ csr' = [csr EXCEPT ![res] = None] /\ done' = done
        /\ pc' \in {"pump", "check"} /\ popped' = None
    BY <1>5 DEF EndDeserialise, PumpGoesOn
  <2>4. \A q \in Resources :
           /\ state'[q] = (IF q = res THEN s ELSE state[q])
           /\ csr'[q] = (IF q = res THEN None ELSE csr[q])
    BY <1>0, <2>2, <2>3 DEF Steady, DataTyped
  <2>5. Mine' /\ AsideInv' /\ PumpInv'
    BY <1>0, <1>s, <2>1, <2>3, <2>4 DEF Steady, Mine, AsideInv, PumpInv, Ended
  <2>6. UnderWay'
    <3>1. ASSUME NEW q \in Listed', state'[q] = "loading" PROVE OnItsWay(csr[q])'
      <4>1. q \in Listed /\ q \in Resources /\ q # res /\ state[q] = "loading" /\ csr'[q] = csr[q]
        BY <2>1, <2>4, <3>1 DEF Listed, Ended
      <4>2. PICK d \in CSRs : d = csr[q] /\ d # popped /\ OnItsWay(d)
        BY <1>0, <2>1, <4>1 DEF Steady, UnderWay, CsrInv
      <4>3. OnItsWay(d)' /\ csr'[q] = d
        BY <1>0, <1>s, <2>3, <4>1, <4>2 DEF OnItsWay, Front, Steady
      <4> QED BY <4>3 DEF OnItsWay, Front
    <3> QED BY <3>1 DEF UnderWay
  <2> QED BY <2>5, <2>6
<1> QED BY <1>1, <1>2, <1>3, <1>4, <1>5

LEMMA LoadUnloaded ==
  ASSUME TypeInv, PlaceInv, LoadInv, Close \/ \E r \in Resources : Unload(r)
  PROVE  LoadInv'
<1>s. UNCHANGED <<prio, hand, popped, res, strayed>>
  BY DEF Close, Unload, threadVars, mainVars
<1> SUFFICES ASSUME ~ strayed PROVE (Mine /\ UnderWay /\ AsideInv /\ PumpInv)'
  BY <1>s DEF LoadInv
<1>0. Steady
  BY SteadyNow
<1>1. \A q \in Resources :
         \/ csr'[q] = csr[q] /\ state'[q] = state[q]
         \/ csr'[q] = None /\ state'[q] = "unloaded"
  BY <1>0 DEF Close, Unload, Steady, DataTyped
<1>2. pc \in {"idle", "join"} /\ pc' \in {"idle", "closed"}
  BY DEF Close, Unload, mainVars
<1>3. Mine' /\ AsideInv' /\ PumpInv'
  BY <1>0, <1>1, <1>2, <1>s DEF Steady, Mine, AsideInv, PumpInv
<1>4. UnderWay'
  <2>1. CASE Close
    <3>1. \A q \in Resources : state'[q] = IF q \in Listed THEN "unloaded" ELSE state[q]
      BY <2>1 DEF Close
    <3>2. \A q \in Listed' : state'[q] = "unloaded"
      BY <3>1 DEF Listed
    <3> QED BY <3>2 DEF UnderWay
  <2>2. ASSUME NEW r \in Resources, Unload(r) PROVE UnderWay'
    <3>1. PICK c : c = csr[r]
      OBVIOUS
    <3>2. /\ staging' = staging \ {c} /\ slow' = slow \ {c}
          /\ done' = [d \in CSRs |-> IF d = c /\ done[d] > 0 THEN done[d] - 1 ELSE done[d]]
          /\ csr' = [csr EXCEPT ![r] = None] /\ state' = [state EXCEPT ![r] = "unloaded"]
      BY <2>2, <3>1 DEF Unload
    <3>3. \A d \in CSRs : d # c => done'[d] = done[d]
      BY <3>2
    <3>4. ASSUME NEW q \in Listed', state'[q] = "loading" PROVE OnItsWay(csr[q])'
      <4>1. q \in Listed /\ q \in Resources /\ q # r /\ state[q] = "loading" /\ csr'[q] = csr[q]
        BY <1>0, <3>2, <3>4 DEF Listed, Steady, DataTyped
      <4>2. PICK d \in CSRs : d = csr[q] /\ d # c /\ OnItsWay(d)
        BY <1>0, <3>1, <4>1 DEF Steady, UnderWay, CsrInv
      <4>3. OnItsWay(d)' /\ csr'[q] = d
        BY <1>s, <3>2, <3>3, <4>1, <4>2 DEF OnItsWay, Front
      <4> QED BY <4>3 DEF OnItsWay, Front
    <3> QED BY <3>4 DEF UnderWay
  <2> QED BY <2>1, <2>2
<1> QED BY <1>3, <1>4

\* Steps of the main thread that leave the data alone.
LEMMA LoadLeft ==
  ASSUME TypeInv, PlaceInv, LoadInv, UNCHANGED <<dataVars, threadVars, popped, res>>,
         pc' = pc \/ (pc # "begin" /\ pc' \notin {"begin", "deserialise"})
  PROVE  LoadInv'
BY DEF LoadInv, Mine, UnderWay, AsideInv, PumpInv, OnItsWay, Front, Listed, dataVars, threadVars

LEMMA LoadStep == TypeInv /\ PlaceInv /\ LoadInv /\ [Next]_vars => LoadInv'
<1> SUFFICES ASSUME TypeInv, PlaceInv, LoadInv, [Next]_vars PROVE LoadInv'
  OBVIOUS
<1>1. ASSUME NEW a \in Asks, Ask(a[1], a[2]) PROVE LoadInv'
  <2>1. a[1] \in Resources /\ a[2] \in Priorities
    OBVIOUS
  <2>2. LoadResource(a[1], a[2]) /\ UNCHANGED <<hand, popped, res, pc>> /\ pc \notin {"begin", "closed"}
    BY <1>1 DEF Ask, threadVars, mainVars
  <2> QED BY <2>1, <2>2, LoadAsked
<1>2. CASE Request
  <2>1. /\ Waited \in Resources /\ Immediate \in Priorities
        /\ UNCHANGED <<threadVars, hand, popped, res, pc>> /\ pc \notin {"begin", "closed"}
    BY <1>2 DEF Request, Waited, Immediate, Priorities, TypeInv, BlockTyped, threadVars
  <2>2. CASE state[Waited] = "error"
    BY <1>2, <2>1, <2>2, LoadLeft DEF Request
  <2>3. CASE state[Waited] # "error"
    BY <1>2, <2>1, <2>3, LoadAsked DEF Request
  <2> QED BY <2>2, <2>3
<1>3. CASE \/ Requested \/ Check \/ Turn \/ NoneLeft \/ Return \/ PumpTimesOut \/ WantQuit
           \/ AbortQueues \/ (\E rs \in Waits : Block(rs)) \/ UNCHANGED vars
  <2>1. /\ UNCHANGED <<dataVars, threadVars, popped, res>>
        /\ pc' = pc \/ (pc # "begin" /\ pc' \notin {"begin", "deserialise"})
    BY <1>3 DEF Requested, Check, Turn, NoneLeft, Return, PumpTimesOut, WantQuit, AbortQueues, Block, vars,
       mainVars
  <2> QED BY <2>1, LoadLeft
<1> QED BY <1>1, <1>2, <1>3, LoadThreads, LoadPump, LoadUnloaded DEF Next, MainStep

\* What is on its way is in one place.
LEMMA OneCopy ==
  ASSUME TypeInv, PlaceInv, NEW c \in CSRs, OnItsWay(c)
  PROVE  Copies(c) = 1
<1> DEFINE hands == {t \in Threads : hand[t] = c}
           queues == {q \in {"staging", "slow", "pump"} :
                        CASE q = "staging" -> c \in staging
                          [] q = "slow"    -> c \in slow
                          [] q = "pump"    -> c = popped}
<1>1. /\ c # None /\ done[c] \in Nat
      /\ Front(c) => done[c] = 0 /\ popped # c
      /\ staging \intersect slow = {} /\ \A t \in Threads : hand[t] \notin staging \union slow
      /\ \A t, u \in Threads : hand[t] = c /\ hand[u] = c => t = u
  BY CSRFacts DEF TypeInv, DataTyped, PlaceInv, FrontOrBack, FrontOnce, Back
<1>2. /\ "staging" \in queues <=> c \in staging
      /\ "slow" \in queues <=> c \in slow
      /\ "pump" \in queues <=> popped = c
      /\ queues \subseteq {"staging", "slow", "pump"}
  OBVIOUS
<1>3. hands = {} \/ \E t \in Threads : hands = {t}
  BY <1>1
<1>4. (hands = {} <=> \A t \in Threads : hand[t] # c) /\ Copies(c) = done[c] + Cardinality(hands) + Cardinality(queues)
  BY DEF Copies
<1> HIDE DEF hands, queues
<1>5. \A x : Cardinality({x}) = 1
  BY FS_Singleton
<1>6. Cardinality({}) = 0
  BY FS_EmptySet
<1>7. CASE c \in staging
  <2>1. hands = {} /\ queues = {"staging"} /\ done[c] = 0
    BY <1>1, <1>2, <1>4, <1>7 DEF Front
  <2>2. Cardinality(hands) = 0
    BY <1>6, <2>1
  <2>3. Cardinality(queues) = 1
    BY <1>5, <2>1
  <2> QED BY <1>4, <2>1, <2>2, <2>3
<1>8. CASE c \in slow
  <2>1. hands = {} /\ queues = {"slow"} /\ done[c] = 0
    BY <1>1, <1>2, <1>4, <1>8 DEF Front
  <2>2. Cardinality(hands) = 0
    BY <1>6, <2>1
  <2>3. Cardinality(queues) = 1
    BY <1>5, <2>1
  <2> QED BY <1>4, <2>1, <2>2, <2>3
<1>9. CASE \E t \in Threads : hand[t] = c
  <2>1. queues = {} /\ done[c] = 0
    BY <1>1, <1>2, <1>9 DEF Front
  <2>2. Cardinality(hands) = 1
    BY <1>3, <1>4, <1>5, <1>9
  <2> QED BY <1>4, <1>6, <2>1, <2>2
<1>10. CASE ~ Front(c)
  <2>1. hands = {}
    BY <1>4, <1>10 DEF Front
  <2>2. CASE popped = c
    <3>1. queues = {"pump"} /\ done[c] = 0
      BY <1>2, <1>10, <2>2 DEF Front, OnItsWay
    <3>2. Cardinality(hands) = 0
      BY <1>6, <2>1
    <3>3. Cardinality(queues) = 1
      BY <1>5, <3>1
    <3> QED BY <1>4, <3>1, <3>2, <3>3
  <2>3. CASE popped # c
    <3>1. queues = {} /\ done[c] = 1
      BY <1>2, <1>10, <2>3 DEF Front, OnItsWay
    <3> QED BY <1>4, <1>6, <2>1, <3>1
  <2> QED BY <2>2, <2>3
<1> QED BY <1>7, <1>8, <1>9, <1>10 DEF Front

LEMMA LoadInvariant == Spec => [](TypeInv /\ PlaceInv /\ LoadInv)
<1>1. Init => TypeInv /\ PlaceInv /\ LoadInv
  BY TypeInit, PlaceInit, LoadInit
<1>2. TypeInv /\ PlaceInv /\ LoadInv /\ [Next]_vars => (TypeInv /\ PlaceInv /\ LoadInv)'
  BY TypeStep, PlaceStep, LoadStep
<1> QED BY <1>1, <1>2, PTL DEF Spec

\* A resource that is loading is being loaded: its CSR is in one queue or in one
\* pair of hands, and in no two.
THEOREM LoadsUnderWay == Spec => []LoadingIsUnderWay
<1>1. ASSUME TypeInv, PlaceInv, LoadInv PROVE LoadingIsUnderWay
  <2> SUFFICES ASSUME ~ strayed, NEW r \in Listed, state[r] = "loading"
               PROVE  csr[r] # None /\ Copies(csr[r]) = 1
    BY DEF LoadingIsUnderWay
  <2>1. csr[r] \in CSRs /\ OnItsWay(csr[r]) /\ csr[r] # None
    BY <1>1, SteadyNow DEF Steady, UnderWay, CsrInv
  <2> QED BY <1>1, <2>1, OneCopy
<1> QED BY <1>1, LoadInvariant, PTL

-----------------------------------------------------------------------------
(* A load ends once.                                                       *)

\* What was loaded or failed only an unloading changes, and nothing is unloaded
\* while the main thread waits.
Kept(r) == state'[r] = state[r] \/ (state'[r] = "unloaded" /\ pc \in {"idle", "join"})

\* FindResourceInList cannot take back a wrong answer.
LEMMA StrayedForGood == ASSUME TypeInv, [Next]_vars, strayed PROVE strayed'
<1>1. ASSUME NEW q, NEW p, LoadResource(q, p) PROVE strayed'
  BY <1>1 DEF LoadResource, BeginLoad, Resubmit, Hasten, LeaveAsItIs
<1>2. CASE \E a \in Asks : Ask(a[1], a[2])
  BY <1>1, <1>2 DEF Ask
<1>3. CASE Request
  BY <1>1, <1>3 DEF Request, dataVars
<1>4. CASE \E t \in Threads : ThreadStep(t)
  BY <1>4, ErrorSet DEF ThreadStep, PopQueue, TestQuit, Deliver, FailToRead, Leave, PassToSlow, dataVars
<1>5. CASE Attach
  <2>1. strayed' = (strayed \/ Strays(popped))
    BY <1>5 DEF Attach
  <2> QED BY <2>1, Zenon
<1>6. CASE \/ Requested \/ Check \/ Turn \/ NoneLeft \/ Return \/ PopDone \/ PumpTimesOut \/ Discard
           \/ BeginDeserialise \/ EndDeserialise \/ WantQuit \/ AbortQueues \/ Close
           \/ (\E rs \in Waits : Block(rs)) \/ (\E q \in Resources : Unload(q)) \/ UNCHANGED vars
  BY <1>6 DEF Requested, Check, Turn, NoneLeft, Return, PopDone, PumpTimesOut, Discard, BeginDeserialise,
     EndDeserialise, WantQuit, AbortQueues, Close, Block, Unload, vars, dataVars
<1> QED BY <1>2, <1>3, <1>4, <1>5, <1>6 DEF Next, MainStep

LEMMA EndsOnce ==
  ASSUME TypeInv, PlaceInv, LoadInv, [Next]_vars, ~ strayed', NEW r \in Resources, state[r] \in Ended
  PROVE  Kept(r)
<1>0. CASE strayed
  BY <1>0, StrayedForGood
<1> SUFFICES ASSUME ~ strayed PROVE Kept(r)
  BY <1>0
<1>1. Steady
  BY SteadyNow
<1>2. csr[r] = None /\ state[r] \notin {"none", "unloaded", "loading", "pending"}
  BY <1>1 DEF Steady, CsrInv, Ended
<1>3. ASSUME NEW q \in Resources, NEW p \in Priorities, LoadResource(q, p) PROVE Kept(r)
  BY <1>1, <1>2, <1>3 DEF LoadResource, BeginLoad, Resubmit, Hasten, LeaveAsItIs, StateSeen, Steady, DataTyped,
     Kept
<1>4. ASSUME NEW c \in CSRs, SetResourceError(c) PROVE Kept(r)
  <2>1. \A q \in Listed : Failed(q, c) => q # r
    BY <1>1, <1>2 DEF Failed, Steady
  <2> QED BY <1>1, <1>4, <2>1, ErrorSet DEF Failed, Steady, DataTyped, Kept
<1>5. ASSUME NEW a \in Asks, Ask(a[1], a[2]) PROVE Kept(r)
  <2>1. a[1] \in Resources /\ a[2] \in Priorities
    OBVIOUS
  <2> QED BY <1>3, <1>5, <2>1 DEF Ask
<1>6. CASE Request
  <2>1. Waited \in Resources /\ Immediate \in Priorities
    BY <1>6 DEF Request, Waited, Immediate, Priorities, TypeInv, BlockTyped
  <2> QED BY <1>3, <1>6, <2>1 DEF Request, dataVars, Kept
<1>7. ASSUME NEW t \in Threads, ThreadStep(t) PROVE Kept(r)
  <2>1. CASE SetResourceError(hand[t]) /\ tpc[t] \in {"test", "read"}
    <3>1. hand[t] \in CSRs
      BY <1>1, <2>1 DEF Steady, ThreadsTyped
    <3> QED BY <1>4, <2>1, <3>1
  <2>2. CASE state' = state
    BY <2>2 DEF Kept
  <2>3. state' = state \/ (SetResourceError(hand[t]) /\ tpc[t] \in {"test", "read"})
    BY <1>7 DEF ThreadStep, PopQueue, TestQuit, Deliver, FailToRead, Leave, PassToSlow, dataVars, Goto
  <2> QED BY <2>1, <2>2, <2>3
<1>8. CASE Attach
  <2>1. FindResource(popped) \in Listed /\ csr[FindResource(popped)] = popped /\ popped # None
    BY <1>1, <1>8, Found DEF Attach, Steady, PumpTyped
  <2>2. FindResource(popped) # r
    BY <1>2, <2>1
  <2> QED BY <1>1, <1>8, <2>2 DEF Attach, Steady, DataTyped, Kept
<1>9. CASE BeginDeserialise \/ EndDeserialise
  <2>1. res # r
    BY <1>1, <1>2, <1>9 DEF BeginDeserialise, EndDeserialise, Steady, PumpInv
  <2> QED BY <1>1, <1>9, <2>1 DEF BeginDeserialise, EndDeserialise, Steady, DataTyped, Kept
<1>10. CASE Close \/ \E q \in Resources : Unload(q)
  BY <1>1, <1>10 DEF Close, Unload, Steady, DataTyped, Kept
<1>11. CASE \/ Requested \/ Check \/ Turn \/ NoneLeft \/ Return \/ PopDone \/ PumpTimesOut \/ Discard
            \/ WantQuit \/ AbortQueues \/ (\E rs \in Waits : Block(rs)) \/ UNCHANGED vars
  <2>1. state' = state
    BY <1>11 DEF Requested, Check, Turn, NoneLeft, Return, PopDone, PumpTimesOut, Discard, WantQuit, AbortQueues,
       Block, vars, dataVars
  <2> QED BY <2>1 DEF Kept
<1> QED BY <1>5, <1>6, <1>7, <1>8, <1>9, <1>10, <1>11 DEF Next, MainStep

\* Nothing a thread still does, and no copy of a CSR left in CSRsDone, changes a
\* resource that was loaded or failed, until it is unloaded.
THEOREM EndedKept == Spec => EndedStaysEnded
<1>1. ASSUME TypeInv, PlaceInv, LoadInv, [Next]_vars
      PROVE  ~ strayed' =>
               \A r \in Resources : state[r] \in Ended => state'[r] \in {state[r], "unloaded"}
  BY <1>1, EndsOnce DEF Kept
<1> QED BY <1>1, LoadInvariant, PTL DEF Spec, EndedStaysEnded

-----------------------------------------------------------------------------
(* What a wait answers.                                                    *)

\* A flag of BlockUntilResourcesLoaded is set because a resource failed; what
\* its loops have gone past is over.
AnswerParts ==
  /\ pc \in WaitPCs \union {"return"} =>
       (error \/ failed => \E i \in DOMAIN wait : state[wait[i]] = "error")
  /\ pc = "request" => \A i \in 1 .. at - 1 : loading \/ state[wait[i]] \in Ended
  /\ pc \in WaitPCs \ {"request"} => \A i \in 1 .. at - 1 : state[wait[i]] \in Ended
  /\ pc = "return" => \A i \in DOMAIN wait : state[wait[i]] \in Ended

AnswerInv == ~ strayed => AnswerParts

LEMMA AnswerInit == Init => AnswerInv
BY DEF Init, AnswerInv, AnswerParts, WaitPCs

\* Steps that are not of the wait itself.
LEMMA AnswerLeft ==
  ASSUME TypeInv, PlaceInv, LoadInv, AnswerParts, [Next]_vars, ~ strayed', UNCHANGED blockVars,
         \/ pc' = pc
         \/ pc \in WaitPCs \ {"request"} /\ pc' \in WaitPCs \ {"request"}
         \/ pc' \notin WaitPCs \union {"return"}
  PROVE  AnswerParts'
<1> SUFFICES ASSUME pc' \in WaitPCs \union {"return"} PROVE AnswerParts'
  BY DEF AnswerParts, WaitPCs
<1>1. /\ pc \in WaitPCs \union {"return"}
      /\ pc' = pc \/ (pc \in WaitPCs \ {"request"} /\ pc' \in WaitPCs \ {"request"})
      /\ UNCHANGED <<wait, at, loading, error, failed>>
  BY DEF blockVars
<1>2. \A i \in DOMAIN wait : wait[i] \in Resources
  BY DEF TypeInv, BlockTyped
<1>3. \A i \in DOMAIN wait : state[wait[i]] \in Ended => state'[wait[i]] = state[wait[i]]
  <2>1. ASSUME NEW r \in Resources, state[r] \in Ended PROVE state'[r] = state[r]
    BY <1>1, <2>1, EndsOnce DEF Kept, WaitPCs
  <2> QED BY <1>2, <2>1
<1>4. at - 1 <= Len(wait) /\ at \in Int /\ DOMAIN wait = 1 .. Len(wait) /\ Len(wait) \in Nat
  BY DEF TypeInv, BlockTyped
<1>5. \A i \in 1 .. at - 1 : i \in DOMAIN wait
  BY <1>4
<1>6. (error \/ failed => \E i \in DOMAIN wait : state[wait[i]] = "error")'
  <2>1. error \/ failed => \E i \in DOMAIN wait : state[wait[i]] = "error"
    BY <1>1 DEF AnswerParts
  <2> QED BY <1>1, <1>3, <2>1 DEF Ended
<1>7. (pc = "request" => \A i \in 1 .. at - 1 : loading \/ state[wait[i]] \in Ended)'
  BY <1>1, <1>3, <1>5 DEF AnswerParts
<1>8. (pc \in WaitPCs \ {"request"} => \A i \in 1 .. at - 1 : state[wait[i]] \in Ended)'
  <2>1. CASE pc' \in WaitPCs \ {"request"}
    <3>1. pc \in WaitPCs \ {"request"}
      BY <1>1, <2>1
    <3> QED BY <1>1, <1>3, <1>5, <3>1 DEF AnswerParts
  <2> QED BY <2>1
<1>9. (pc = "return" => \A i \in DOMAIN wait : state[wait[i]] \in Ended)'
  BY <1>1, <1>3 DEF AnswerParts, WaitPCs
<1> QED BY <1>6, <1>7, <1>8, <1>9 DEF AnswerParts

\* The steps of BlockUntilResourcesLoaded and BlockUntilLoaded_.
LEMMA AnswerWait ==
  ASSUME TypeInv, PlaceInv, LoadInv, AnswerParts, [Next]_vars, ~ strayed',
         \/ \E rs \in Waits : Block(rs)
         \/ Request \/ Requested \/ Check \/ Turn \/ NoneLeft \/ Return
  PROVE  AnswerParts'
<1>0. /\ at \in 1 .. Len(wait) + 1 /\ Len(wait) \in Nat /\ DOMAIN wait = 1 .. Len(wait)
      /\ \A i \in DOMAIN wait : wait[i] \in Resources
  BY DEF TypeInv, BlockTyped
<1>1. ASSUME NEW rs \in Waits, Block(rs) PROVE AnswerParts'
  <2>1. /\ wait' = rs /\ at' = 1 /\ loading' = FALSE /\ error' = FALSE /\ failed' = FALSE
        /\ state' = state /\ rs \in Seq(Resources)
        /\ \/ pc' = "return" /\ Len(rs) = 1 /\ state[rs[1]] = "loaded"
           \/ pc' = "request"
    BY <1>1 DEF Block, dataVars
  <2>2. CASE pc' = "request"
    BY <2>1, <2>2 DEF AnswerParts
  <2>3. CASE pc' = "return" /\ Len(rs) = 1 /\ state[rs[1]] = "loaded"
    <3>1. DOMAIN rs = {1}
      BY <2>1, <2>3
    <3> QED BY <2>1, <2>3, <3>1 DEF AnswerParts, WaitPCs, Ended
  <2> QED BY <2>1, <2>2, <2>3
<1>2. CASE Request
  <2>1. /\ pc = "request" /\ pc' = "request" /\ at <= Len(wait) /\ at' = at + 1 /\ UNCHANGED <<wait, failed>>
        /\ at \in DOMAIN wait /\ Waited = wait[at] /\ wait[at] \in Resources
    BY <1>0, <1>2 DEF Request, Waited
  <2>2. \A i \in DOMAIN wait : state[wait[i]] \in Ended => state'[wait[i]] = state[wait[i]]
    <3>1. ASSUME NEW r \in Resources, state[r] \in Ended PROVE state'[r] = state[r]
      BY <2>1, <3>1, EndsOnce DEF Kept
    <3> QED BY <1>0, <3>1
  <2>3. \A i \in 1 .. at - 1 : i \in DOMAIN wait /\ (loading \/ state[wait[i]] \in Ended)
    BY <1>0, <2>1 DEF AnswerParts
  <2>4. error \/ failed => \E i \in DOMAIN wait : state[wait[i]] = "error"
    BY <2>1 DEF AnswerParts, WaitPCs
  <2>5. /\ loading => loading'
        /\ error' => error \/ state[wait[at]] = "error"
        /\ loading' \/ state[wait[at]] \in Ended
    <3>1. CASE state[Waited] = "error"
      BY <1>2, <2>1, <3>1 DEF Request, Ended
    <3>2. CASE state[Waited] # "error"
      <4>1. loading' = (loading \/ state[Waited] # "loaded") /\ error' = error
        BY <1>2, <3>2, Zenon DEF Request
      <4> QED BY <2>1, <4>1, Zenon DEF Ended
    <3> QED BY <3>1, <3>2
  <2>6. \A i \in 1 .. at' - 1 : i \in 1 .. at - 1 \/ i = at
    BY <1>0, <2>1
  <2>7. \A i \in 1 .. at' - 1 : loading' \/ state'[wait[i]] \in Ended
    BY <2>1, <2>2, <2>3, <2>5, <2>6
  <2>8. (error \/ failed => \E i \in DOMAIN wait : state[wait[i]] = "error")'
    BY <2>1, <2>2, <2>4, <2>5 DEF Ended
  <2> QED BY <2>1, <2>7, <2>8 DEF AnswerParts
<1>3. CASE Requested
  <2>1. /\ pc = "request" /\ at > Len(wait) /\ at' = 1 /\ UNCHANGED <<state, wait, error, failed>>
        /\ pc' = IF loading THEN "check" ELSE "return"
    BY <1>3 DEF Requested, dataVars
  <2>2. error \/ failed => \E i \in DOMAIN wait : state[wait[i]] = "error"
    BY <2>1 DEF AnswerParts, WaitPCs
  <2>3. ~ loading => \A i \in DOMAIN wait : state[wait[i]] \in Ended
    BY <1>0, <2>1 DEF AnswerParts
  <2> QED BY <2>1, <2>2, <2>3 DEF AnswerParts, WaitPCs
<1>4. CASE Check
  <2>1. /\ pc = "check" /\ UNCHANGED <<state, wait, at, loading, error>>
        /\ pc' = IF NotLoaded = {} THEN "return" ELSE "turn"
    BY <1>4 DEF Check, dataVars
  <2>2. failed' => \E i \in DOMAIN wait : state[wait[i]] = "error"
    <3> SUFFICES ASSUME failed' PROVE \E i \in DOMAIN wait : state[wait[i]] = "error"
      OBVIOUS
    <3>1. failed' = (NotLoaded # {} /\ state[wait[Min(NotLoaded)]] = "error")
      BY <1>4 DEF Check
    <3>2. NotLoaded # {} /\ state[wait[Min(NotLoaded)]] = "error"
      BY <3>1, Zenon
    <3>3. NotLoaded \subseteq 1 .. Len(wait) /\ NotLoaded \in SUBSET Nat
      BY <1>0 DEF NotLoaded
    <3>4. IsFiniteSet(NotLoaded)
      <4>1. IsFiniteSet(1 .. Len(wait))
        BY <1>0, FS_Interval
      <4> QED BY <3>3, <4>1, FS_Subset
    <3>5. Min(NotLoaded) \in NotLoaded
      BY <3>2, <3>3, <3>4, LeastAndGreatest
    <3> QED BY <3>2, <3>5 DEF NotLoaded
  <2>3. error => \E i \in DOMAIN wait : state[wait[i]] = "error"
    BY <2>1 DEF AnswerParts, WaitPCs
  <2>4. NotLoaded = {} => \A i \in DOMAIN wait : state[wait[i]] \in Ended
    BY DEF NotLoaded, Ended
  <2>5. \A i \in 1 .. at - 1 : state[wait[i]] \in Ended
    BY <2>1 DEF AnswerParts, WaitPCs
  <2> QED BY <2>1, <2>2, <2>3, <2>4, <2>5 DEF AnswerParts, WaitPCs
<1>5. CASE Turn
  <2>1. /\ pc = "turn" /\ at <= Len(wait) /\ UNCHANGED <<state, wait, loading, error, failed>>
        /\ \/ state[wait[at]] \in Ended /\ at' = at + 1 /\ pc' = "turn"
           \/ pc' = "pump" /\ at' = at
    BY <1>5 DEF Turn, dataVars, Waited
  <2>2. error \/ failed => \E i \in DOMAIN wait : state[wait[i]] = "error"
    BY <2>1 DEF AnswerParts, WaitPCs
  <2>3. \A i \in 1 .. at - 1 : state[wait[i]] \in Ended
    BY <2>1 DEF AnswerParts, WaitPCs
  <2>4. \A i \in 1 .. at' - 1 : i \in 1 .. at - 1 \/ (at' = at + 1 /\ i = at)
    BY <1>0, <2>1
  <2>5. \A i \in 1 .. at' - 1 : state[wait[i]] \in Ended
    BY <1>0, <2>1, <2>3, <2>4
  <2> QED BY <2>1, <2>2, <2>5 DEF AnswerParts, WaitPCs
<1>6. CASE NoneLeft
  <2>1. /\ pc = "turn" /\ at > Len(wait) /\ UNCHANGED <<state, wait, at, loading, error, failed>>
        /\ pc' = "return"
    BY <1>6 DEF NoneLeft, dataVars, blockVars
  <2>2. error \/ failed => \E i \in DOMAIN wait : state[wait[i]] = "error"
    BY <2>1 DEF AnswerParts, WaitPCs
  <2>3. \A i \in DOMAIN wait : state[wait[i]] \in Ended
    BY <1>0, <2>1 DEF AnswerParts, WaitPCs
  <2> QED BY <2>1, <2>2, <2>3 DEF AnswerParts, WaitPCs
<1>7. CASE Return
  <2>1. pc' = "idle"
    BY <1>7 DEF Return
  <2> QED BY <2>1 DEF AnswerParts, WaitPCs
<1> QED BY <1>1, <1>2, <1>3, <1>4, <1>5, <1>6, <1>7

LEMMA AnswerStep == TypeInv /\ PlaceInv /\ LoadInv /\ AnswerInv /\ [Next]_vars => AnswerInv'
<1> SUFFICES ASSUME TypeInv, PlaceInv, LoadInv, AnswerInv, [Next]_vars, ~ strayed' PROVE AnswerParts'
  BY DEF AnswerInv
<1>1. AnswerParts
  BY StrayedForGood DEF AnswerInv
<1>2. CASE \/ \E rs \in Waits : Block(rs)
           \/ Request \/ Requested \/ Check \/ Turn \/ NoneLeft \/ Return
  BY <1>1, <1>2, AnswerWait
<1>3. CASE (\E a \in Asks : Ask(a[1], a[2])) \/ (\E r \in Resources : Unload(r)) \/ UNCHANGED vars
  BY <1>1, <1>3, AnswerLeft DEF Ask, Unload, mainVars, vars
<1>4. CASE \E t \in Threads : ThreadStep(t)
  <2>1. UNCHANGED <<pc, blockVars>>
    BY <1>4 DEF ThreadStep, PopQueue, TestQuit, Deliver, FailToRead, Leave, PassToSlow, mainVars
  <2> QED BY <1>1, <2>1, AnswerLeft
<1>5. CASE PopDone \/ PumpTimesOut \/ Discard \/ Attach \/ BeginDeserialise \/ EndDeserialise
  <2>1. /\ UNCHANGED blockVars
        /\ pc \in {"pump", "find", "begin", "deserialise"}
        /\ pc' \in {"pump", "check", "find", "begin", "deserialise"}
    BY <1>5 DEF PopDone, PumpTimesOut, Discard, Attach, BeginDeserialise, EndDeserialise, PumpGoesOn
  <2> QED BY <1>1, <2>1, AnswerLeft DEF WaitPCs
<1>6. CASE WantQuit \/ AbortQueues \/ Close
  <2>1. UNCHANGED blockVars /\ pc' \notin WaitPCs \union {"return"}
    BY <1>6 DEF WantQuit, AbortQueues, Close, WaitPCs
  <2> QED BY <1>1, <2>1, AnswerLeft
<1> QED BY <1>2, <1>3, <1>4, <1>5, <1>6 DEF Next, MainStep

\* BlockUntilResourcesLoaded returns when there is nothing left to wait for, and
\* with "false" only if one of the resources failed.
THEOREM AnswersSound == Spec => []AnswerIsSound
<1> DEFINE IInv == TypeInv /\ PlaceInv /\ LoadInv /\ AnswerInv
<1>1. Init => IInv
  BY TypeInit, PlaceInit, LoadInit, AnswerInit
<1>2. IInv /\ [Next]_vars => IInv'
  BY TypeStep, PlaceStep, LoadStep, AnswerStep
<1>3. IInv => AnswerIsSound
  BY DEF AnswerInv, AnswerParts, AnswerIsSound, Answer, WaitPCs
<1> QED BY <1>1, <1>2, <1>3, PTL DEF Spec

=============================================================================
