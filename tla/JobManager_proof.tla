-------------------------- MODULE JobManager_proof --------------------------
(***************************************************************************)
(* Proofs about PriorityQueue, for every queue of entries with an integer  *)
(* priority, and about JobManager, for any number of callers, workers and  *)
(* calls.                                                                  *)
(***************************************************************************)
EXTENDS JobManager, SequenceTheorems, FiniteSetTheorems, WellFoundedInduction, TLAPS

(***************************************************************************)
(* What the critical sections of CPriorityQueue do to a queue.             *)
(***************************************************************************)

Entries(S) == [priority : Int, value : S]

Less == {ss \in Nat \X Nat : ss[1] < ss[2]}

\* A set of naturals that is not empty has a least element.
LEMMA LeastNatural ==
  ASSUME NEW T \in SUBSET Nat, T # {}
  PROVE  \E x \in T : \A y \in T : x <= y
<1>1. IsWellFoundedOn(Less, Nat)
  BY ONLY NatLessThanWellFounded DEF OpToRel, Less
<1>2. PICK x \in T : \A y \in T : ~ (<<y, x>> \in Less)
  BY <1>1, WFMin
<1>3. \A a, b \in Nat : b < a => <<b, a>> \in Less
  <2> TAKE a, b \in Nat
  <2> HAVE b < a
  <2>1. <<b, a>> \in Nat \X Nat /\ <<b, a>>[1] = b /\ <<b, a>>[2] = a
    OBVIOUS
  <2> QED BY <2>1 DEF Less
<1>4. ASSUME NEW y \in T PROVE x <= y
  <2>1. x \in Nat /\ y \in Nat
    OBVIOUS
  <2>2. ~ (y < x)
    BY <1>2, <1>3, <2>1
  <2> QED BY <2>1, <2>2
<1> QED BY <1>4

\* A queue is a function on 1 .. Len(q) whose entries are entries.
LEMMA QueueElements ==
  ASSUME NEW S, NEW q \in Seq(Entries(S))
  PROVE  /\ Len(q) \in Nat
         /\ DOMAIN q = 1 .. Len(q)
         /\ \A i \in 1 .. Len(q) : /\ q[i] \in Entries(S)
                                   /\ q[i].priority \in Int
                                   /\ q[i].value \in S
<1>1. Len(q) \in Nat /\ DOMAIN q = 1 .. Len(q)
  BY LenProperties
<1>2. \A i \in 1 .. Len(q) : q[i] \in Entries(S)
  BY ElementOfSeq
<1> QED BY <1>1, <1>2 DEF Entries

\* std::lower_bound finds a position, and that position splits the queue.
LEMMA LowerBoundSplits ==
  ASSUME NEW S, NEW q \in Seq(Entries(S)), NEW prio \in Int
  PROVE  /\ LowerBound(q, prio) \in 1 .. Len(q) + 1
         /\ \A j \in 1 .. LowerBound(q, prio) - 1 : q[j].priority < prio
         /\ LowerBound(q, prio) <= Len(q) => q[LowerBound(q, prio)].priority >= prio
<1> DEFINE T == {i \in 1 .. Len(q) + 1 : i <= Len(q) => q[i].priority >= prio}
<1>0. Len(q) \in Nat /\ \A i \in 1 .. Len(q) : q[i].priority \in Int
  BY QueueElements
<1>1. T \in SUBSET Nat /\ Len(q) + 1 \in T
  BY <1>0
<1>2. PICK i \in T : \A y \in T : i <= y
  BY <1>1, LeastNatural
<1>3. i \in 1 .. Len(q) + 1 /\ (i <= Len(q) => q[i].priority >= prio)
  BY <1>2
<1>4. \A j \in 1 .. i - 1 : q[j].priority < prio
  <2> SUFFICES ASSUME NEW j \in 1 .. i - 1, ~ (q[j].priority < prio) PROVE FALSE
    OBVIOUS
  <2>1. j \in 1 .. Len(q) + 1 /\ j < i
    BY <1>0, <1>3
  <2>2. j \in 1 .. Len(q)
    BY <1>0, <1>3
  <2>3. j \in T
    BY <1>0, <2>1, <2>2
  <2> QED BY <1>0, <1>2, <1>3, <2>1, <2>3
<1>5. QED
  BY <1>3, <1>4 DEF LowerBound

\* The critical section of Push adds one entry, and that entry is the value
\* pushed: what was there before it stays before it, and what was not, after.
LEMMA PushProperties ==
  ASSUME NEW S, NEW q \in Seq(Entries(S)), NEW prio \in Int, NEW v \in S
  PROVE  /\ Push(q, prio, v) \in Seq(Entries(S))
         /\ Len(Push(q, prio, v)) = Len(q) + 1
         /\ \A i \in 1 .. Len(q) + 1 :
              Push(q, prio, v)[i] = IF i < LowerBound(q, prio) THEN q[i]
                                    ELSE IF i = LowerBound(q, prio) THEN Entry(prio, v)
                                    ELSE q[i - 1]
<1> DEFINE k == LowerBound(q, prio)
           before == SubSeq(q, 1, k - 1)
           new == <<Entry(prio, v)>>
           after == SubSeq(q, k, Len(q))
<1>0. /\ Len(q) \in Nat /\ \A i \in 1 .. Len(q) : q[i] \in Entries(S)
      /\ k \in 1 .. Len(q) + 1
  BY QueueElements, LowerBoundSplits
<1> HIDE DEF k
<1>1. /\ before \in Seq(Entries(S)) /\ Len(before) = k - 1
      /\ \A i \in 1 .. k - 1 : before[i] = q[i]
  <2>1. \A i \in 1 .. k - 1 : q[i] \in Entries(S)
    BY <1>0
  <2>2. \A i \in 1 .. (k - 1) - 1 + 1 : before[i] = q[1 + i - 1]
    BY <1>0, <2>1, SubSeqProperties
  <2>3. before \in Seq(Entries(S)) /\ Len(before) = IF 1 <= k - 1 THEN (k - 1) - 1 + 1 ELSE 0
    BY <1>0, <2>1, SubSeqProperties
  <2> QED BY <1>0, <2>2, <2>3
<1>2. /\ after \in Seq(Entries(S)) /\ Len(after) = Len(q) - k + 1
      /\ \A i \in 1 .. Len(q) - k + 1 : after[i] = q[k + i - 1]
  <2>1. \A i \in k .. Len(q) : q[i] \in Entries(S)
    BY <1>0
  <2>2. /\ after \in Seq(Entries(S))
        /\ Len(after) = IF k <= Len(q) THEN Len(q) - k + 1 ELSE 0
        /\ \A i \in 1 .. Len(q) - k + 1 : after[i] = q[k + i - 1]
    BY <1>0, <2>1, SubSeqProperties
  <2> QED BY <1>0, <2>2
<1>3. new \in Seq(Entries(S)) /\ Len(new) = 1 /\ new[1] = Entry(prio, v)
  BY DEF Entry, Entries
<1> HIDE DEF before, new, after
<1>4. /\ before \o new \in Seq(Entries(S))
      /\ Len(before \o new) = k
      /\ \A i \in 1 .. k : (before \o new)[i] = IF i <= k - 1 THEN before[i] ELSE new[i - (k - 1)]
  <2>1. /\ before \o new \in Seq(Entries(S))
        /\ Len(before \o new) = Len(before) + Len(new)
        /\ \A i \in 1 .. Len(before) + Len(new) :
             (before \o new)[i] = IF i <= Len(before) THEN before[i] ELSE new[i - Len(before)]
    BY <1>1, <1>3, ConcatProperties
  <2> QED BY <1>0, <1>1, <1>3, <2>1
<1>5. /\ (before \o new) \o after \in Seq(Entries(S))
      /\ Len((before \o new) \o after) = Len(q) + 1
      /\ \A i \in 1 .. Len(q) + 1 :
           ((before \o new) \o after)[i] = IF i <= k THEN (before \o new)[i] ELSE after[i - k]
  <2>1. /\ (before \o new) \o after \in Seq(Entries(S))
        /\ Len((before \o new) \o after) = Len(before \o new) + Len(after)
        /\ \A i \in 1 .. Len(before \o new) + Len(after) :
             ((before \o new) \o after)[i] = IF i <= Len(before \o new) THEN (before \o new)[i]
                                             ELSE after[i - Len(before \o new)]
    BY <1>2, <1>4, ConcatProperties
  <2> QED BY <1>0, <1>2, <1>4, <2>1
<1>6. Push(q, prio, v) = (before \o new) \o after
  BY DEF Push, InsertAt, k, before, new, after
<1>7. ASSUME NEW i \in 1 .. Len(q) + 1
      PROVE  Push(q, prio, v)[i] = IF i < k THEN q[i]
                                   ELSE IF i = k THEN Entry(prio, v) ELSE q[i - 1]
  <2>1. CASE i < k
    <3>0. i <= k /\ i <= k - 1 /\ i \in 1 .. k - 1 /\ i \in 1 .. k
      BY <1>0, <2>1
    <3>1. Push(q, prio, v)[i] = (before \o new)[i]
      BY <1>5, <1>6, <3>0
    <3>2. (before \o new)[i] = before[i] /\ before[i] = q[i]
      <4>1. (before \o new)[i] = before[i]
        BY <1>4, <3>0
      <4>2. before[i] = q[i]
        BY <1>1, <3>0
      <4> QED BY <4>1, <4>2
    <3> QED BY <2>1, <3>1, <3>2
  <2>2. CASE i = k
    <3>0. i <= k
      BY <1>0, <2>2
    <3>4. Push(q, prio, v)[i] = (before \o new)[i]
      BY <1>5, <1>6, <3>0
    <3>1. Push(q, prio, v)[i] = (before \o new)[k]
      BY <2>2, <3>4
    <3>2. (before \o new)[k] = new[k - (k - 1)]
      BY <1>0, <1>4
    <3>3. k - (k - 1) = 1
      BY <1>0
    <3> QED BY <1>0, <1>3, <2>2, <3>1, <3>2, <3>3
  <2>3. CASE i > k
    <3>1. Push(q, prio, v)[i] = after[i - k] /\ i - k \in 1 .. Len(q) - k + 1
      BY <1>0, <1>5, <1>6, <2>3
    <3>2. after[i - k] = q[k + (i - k) - 1] /\ k + (i - k) - 1 = i - 1
      BY <1>0, <1>2, <3>1
    <3> QED BY <1>0, <2>3, <3>1, <3>2
  <2> QED BY <1>0, <2>1, <2>2, <2>3
<1> QED
  BY <1>5, <1>6, <1>7 DEF k

(***************************************************************************)
(* Push, Pop and EraseFirst all leave two queues of which one is the other *)
(* with an entry at place k.                                               *)
(***************************************************************************)
Extends(p, q, k) ==
  /\ Len(p) = Len(q) + 1 /\ k \in 1 .. Len(p)
  /\ \A i \in 1 .. Len(q) : p[IF i < k THEN i ELSE i + 1] = q[i]

\* The places of the values in X.
Places(q, X) == {i \in DOMAIN q : q[i].value \in X}

\* That entry is one more value, and counts once wherever its value counts.
LEMMA ExtendsValues ==
  ASSUME NEW S, NEW p \in Seq(Entries(S)), NEW q \in Seq(Entries(S)), NEW k, Extends(p, q, k)
  PROVE  Values(p) = Values(q) \union {p[k].value}
<1>1. /\ Len(q) \in Nat /\ DOMAIN q = 1 .. Len(q) /\ DOMAIN p = 1 .. Len(q) + 1 /\ k \in 1 .. Len(q) + 1
      /\ \A i \in 1 .. Len(q) : p[IF i < k THEN i ELSE i + 1] = q[i]
  BY QueueElements DEF Extends
<1>2. ASSUME NEW i \in DOMAIN q PROVE q[i].value \in Values(p)
  <2>1. (IF i < k THEN i ELSE i + 1) \in DOMAIN p
    BY <1>1
  <2> QED BY <1>1, <2>1 DEF Values
<1>3. ASSUME NEW i \in DOMAIN p PROVE p[i].value \in Values(q) \union {p[k].value}
  <2>1. CASE i < k
    <3>1. i \in 1 .. Len(q) /\ p[i] = q[i]
      BY <1>1, <2>1
    <3> QED BY <1>1, <3>1 DEF Values
  <2>2. CASE i > k
    <3>1. i - 1 \in 1 .. Len(q) /\ ~ (i - 1 < k) /\ (i - 1) + 1 = i
      BY <1>1, <2>2
    <3>2. p[i] = q[i - 1]
      BY <1>1, <3>1
    <3> QED BY <1>1, <3>1, <3>2 DEF Values
  <2> QED BY <1>1, <2>1, <2>2
<1>4. p[k].value \in Values(p)
  BY <1>1 DEF Values
<1> QED BY <1>2, <1>3, <1>4 DEF Values

LEMMA ExtendsPlaces ==
  ASSUME NEW S, NEW p \in Seq(Entries(S)), NEW q \in Seq(Entries(S)), NEW k, Extends(p, q, k), NEW X
  PROVE  /\ Cardinality(Places(q, X)) \in Nat
         /\ Cardinality(Places(p, X))
              = Cardinality(Places(q, X)) + (IF p[k].value \in X THEN 1 ELSE 0)
<1> DEFINE f == [i \in Places(q, X) |-> IF i < k THEN i ELSE i + 1]
           T == Places(p, X) \ {k}
<1>1. /\ Len(q) \in Nat /\ DOMAIN q = 1 .. Len(q) /\ DOMAIN p = 1 .. Len(q) + 1 /\ k \in 1 .. Len(q) + 1
      /\ \A i \in 1 .. Len(q) : p[IF i < k THEN i ELSE i + 1] = q[i]
  BY QueueElements DEF Extends
<1>2. f \in [Places(q, X) -> T]
  <2> SUFFICES ASSUME NEW i \in Places(q, X) PROVE (IF i < k THEN i ELSE i + 1) \in T
    OBVIOUS
  <2>1. i \in 1 .. Len(q) /\ q[i].value \in X
    BY <1>1 DEF Places
  <2>2. (IF i < k THEN i ELSE i + 1) \in DOMAIN p /\ (IF i < k THEN i ELSE i + 1) # k
    BY <1>1, <2>1
  <2> QED BY <1>1, <2>1, <2>2 DEF Places
<1>3. \A i, j \in Places(q, X) : f[i] = f[j] => i = j
  BY <1>1 DEF Places
<1>4. ASSUME NEW t \in T PROVE \E i \in Places(q, X) : f[i] = t
  <2>1. t \in 1 .. Len(q) + 1 /\ t # k /\ p[t].value \in X
    BY <1>1 DEF Places
  <2>2. CASE t < k
    <3>1. t \in 1 .. Len(q) /\ q[t] = p[t]
      BY <1>1, <2>1, <2>2
    <3>2. t \in Places(q, X)
      BY <1>1, <2>1, <3>1 DEF Places
    <3> QED BY <2>2, <3>2
  <2>3. CASE t > k
    <3>1. t - 1 \in 1 .. Len(q) /\ ~ (t - 1 < k) /\ (t - 1) + 1 = t
      BY <1>1, <2>1, <2>3
    <3>2. q[t - 1] = p[t]
      BY <1>1, <3>1
    <3>3. t - 1 \in Places(q, X)
      BY <1>1, <2>1, <3>1, <3>2 DEF Places
    <3> QED BY <3>1, <3>3
  <2> QED BY <1>1, <2>1, <2>2, <2>3
<1>5. ExistsBijection(Places(q, X), T)
  <2> HIDE DEF f, T
  <2>0. f \in Surjection(Places(q, X), T)
    BY <1>2, <1>4, Zenon DEF Surjection
  <2>1. f \in Injection(Places(q, X), T)
    BY <1>2, <1>3, Zenon DEF Injection, IsInjective
  <2> QED BY <2>0, <2>1 DEF ExistsBijection, Bijection
<1>6. IsFiniteSet(Places(q, X)) /\ IsFiniteSet(Places(p, X))
  <2>1. Places(q, X) \subseteq 1 .. Len(q) /\ Places(p, X) \subseteq 1 .. Len(q) + 1
    BY <1>1 DEF Places
  <2>2. IsFiniteSet(1 .. Len(q)) /\ IsFiniteSet(1 .. Len(q) + 1)
    <3>1. 1 \in Int /\ Len(q) \in Int /\ Len(q) + 1 \in Int
      BY <1>1
    <3> QED BY <3>1, FS_Interval, Zenon
  <2> QED BY <2>1, <2>2, FS_Subset
<1> HIDE DEF f, T
<1>7. Cardinality(T) = Cardinality(Places(q, X)) /\ Cardinality(Places(q, X)) \in Nat /\ IsFiniteSet(T)
  BY <1>5, <1>6, FS_Bijection, FS_CardinalityType
<1>8. CASE p[k].value \in X
  <2>1. Places(p, X) = T \union {k} /\ k \notin T
    BY <1>1, <1>8 DEF T, Places
  <2>2. Cardinality(T \union {k}) = Cardinality(T) + 1
    BY <1>7, <2>1, FS_AddElement
  <2> QED BY <1>7, <1>8, <2>1, <2>2
<1>9. CASE p[k].value \notin X
  <2>1. Places(p, X) = T
    BY <1>1, <1>9 DEF T, Places
  <2> QED BY <1>7, <1>9, <2>1
<1> QED BY <1>8, <1>9

\* A queue of the entries that remain is sorted if the whole was.
LEMMA ExtendsSorted ==
  ASSUME NEW S, NEW p \in Seq(Entries(S)), NEW q \in Seq(Entries(S)), NEW k, Extends(p, q, k), Sorted(p)
  PROVE  Sorted(q)
<1>1. /\ Len(q) \in Nat /\ DOMAIN q = 1 .. Len(q) /\ DOMAIN p = 1 .. Len(q) + 1 /\ k \in 1 .. Len(q) + 1
      /\ \A i \in 1 .. Len(q) : p[IF i < k THEN i ELSE i + 1] = q[i]
  BY QueueElements DEF Extends
<1>2. ASSUME NEW i \in 1 .. Len(q), NEW j \in 1 .. Len(q), i < j
      PROVE  q[i].priority <= q[j].priority
  <2> DEFINE x == IF i < k THEN i ELSE i + 1
             y == IF j < k THEN j ELSE j + 1
  <2>1. x \in DOMAIN p /\ y \in DOMAIN p /\ x < y
    BY <1>1, <1>2
  <2>2. p[x] = q[i] /\ p[y] = q[j]
    BY <1>1
  <2> QED BY <2>1, <2>2 DEF Sorted
<1> QED BY <1>1, <1>2 DEF Sorted

\* Push puts its entry at its place, and keeps the queue sorted.
LEMMA PushExtends ==
  ASSUME NEW S, NEW q \in Seq(Entries(S)), NEW prio \in Int, NEW v \in S
  PROVE  /\ Extends(Push(q, prio, v), q, LowerBound(q, prio))
         /\ Push(q, prio, v)[LowerBound(q, prio)] = Entry(prio, v)
         /\ Sorted(q) => Sorted(Push(q, prio, v))
<1> DEFINE k == LowerBound(q, prio)
           p == Push(q, prio, v)
<1>1. /\ Len(q) \in Nat /\ k \in 1 .. Len(q) + 1 /\ DOMAIN q = 1 .. Len(q)
      /\ DOMAIN p = 1 .. Len(q) + 1 /\ Len(p) = Len(q) + 1
      /\ \A j \in 1 .. k - 1 : q[j].priority < prio
      /\ k <= Len(q) => q[k].priority >= prio
      /\ \A i \in 1 .. Len(q) : q[i].priority \in Int
  <2>1. Len(q) \in Nat /\ DOMAIN q = 1 .. Len(q) /\ \A i \in 1 .. Len(q) : q[i].priority \in Int
    BY QueueElements
  <2>2. p \in Seq(Entries(S)) /\ Len(p) = Len(q) + 1
    BY PushProperties
  <2>3. DOMAIN p = 1 .. Len(q) + 1
    BY <2>2, LenProperties
  <2> QED BY <2>1, <2>2, <2>3, LowerBoundSplits
<1>2. \A i \in 1 .. Len(q) + 1 : p[i] = IF i < k THEN q[i]
                                        ELSE IF i = k THEN Entry(prio, v) ELSE q[i - 1]
  BY PushProperties
<1> HIDE DEF k, p
<1>3. \A i \in 1 .. Len(q) : p[IF i < k THEN i ELSE i + 1] = q[i]
  <2> TAKE i \in 1 .. Len(q)
  <2>1. CASE i < k
    BY <1>1, <1>2, <2>1
  <2>2. CASE ~ (i < k)
    <3>1. i + 1 \in 1 .. Len(q) + 1 /\ ~ (i + 1 < k) /\ i + 1 # k /\ (i + 1) - 1 = i
      BY <1>1, <2>2
    <3> QED BY <1>2, <2>2, <3>1
  <2> QED BY <2>1, <2>2
<1>4. p[k] = Entry(prio, v) /\ p[k].priority = prio
  BY <1>1, <1>2 DEF Entry
<1>5. ASSUME Sorted(q), NEW i \in 1 .. Len(q) + 1, NEW j \in 1 .. Len(q) + 1, i < j
      PROVE  p[i].priority <= p[j].priority
  <2>0. \A x, y \in 1 .. Len(q) : x < y => q[x].priority <= q[y].priority
    BY <1>1, <1>5 DEF Sorted
  <2>1. CASE i < k /\ j < k
    BY <1>1, <1>2, <1>5, <2>0, <2>1
  <2>2. CASE i < k /\ j = k
    <3>1. p[i] = q[i] /\ i \in 1 .. k - 1 /\ i \in 1 .. Len(q)
      BY <1>1, <1>2, <2>2
    <3> QED BY <1>1, <1>4, <2>2, <3>1
  <2>3. CASE i < k /\ j > k
    <3>1. p[i] = q[i] /\ p[j] = q[j - 1] /\ i \in 1 .. Len(q) /\ j - 1 \in 1 .. Len(q)
      BY <1>1, <1>2, <2>3
    <3>2. q[i].priority \in Int /\ (i = j - 1 \/ i < j - 1)
      BY <1>1, <2>3, <3>1
    <3> QED BY <2>0, <3>1, <3>2
  <2>4. CASE i = k /\ j > k
    <3>1. p[j] = q[j - 1] /\ j - 1 \in 1 .. Len(q) /\ k \in 1 .. Len(q) /\ (k = j - 1 \/ k < j - 1)
      BY <1>1, <1>2, <2>4
    <3>2. q[k].priority >= prio /\ q[k].priority <= q[j - 1].priority
          /\ q[k].priority \in Int /\ q[j - 1].priority \in Int
      <4>1. q[k].priority \in Int /\ q[j - 1].priority \in Int
        BY <1>1, <3>1
      <4>2. q[k].priority >= prio
        BY <1>1, <3>1
      <4>3. q[k].priority <= q[j - 1].priority
        BY <2>0, <3>1, <4>1
      <4> QED BY <4>1, <4>2, <4>3
    <3>3. prio <= q[j - 1].priority
      <4>1. \A x, y \in Int : x >= prio /\ x <= y => prio <= y
        OBVIOUS
      <4> QED BY <3>2, <4>1
    <3>4. p[i].priority = prio /\ p[j].priority = q[j - 1].priority
      BY <1>4, <2>4, <3>1
    <3> QED BY <3>3, <3>4
  <2>5. CASE i > k
    <3>1. p[i] = q[i - 1] /\ p[j] = q[j - 1] /\ i - 1 < j - 1 /\ i - 1 \in 1 .. Len(q) /\ j - 1 \in 1 .. Len(q)
      BY <1>1, <1>2, <1>5, <2>5
    <3> QED BY <2>0, <3>1
  <2> QED BY <1>1, <1>5, <2>1, <2>2, <2>3, <2>4, <2>5
<1> QED BY <1>1, <1>3, <1>4, <1>5 DEF Extends, Sorted, k, p

\* Values after a Push: one more.
LEMMA PushValues ==
  ASSUME NEW S, NEW q \in Seq(Entries(S)), NEW prio \in Int, NEW v \in S
  PROVE  Values(Push(q, prio, v)) = Values(q) \union {v}
<1> DEFINE k == LowerBound(q, prio)
           p == Push(q, prio, v)
<1>1. /\ Len(q) \in Nat /\ k \in 1 .. Len(q) + 1
      /\ DOMAIN q = 1 .. Len(q) /\ DOMAIN p = 1 .. Len(q) + 1
  BY QueueElements, LowerBoundSplits, PushProperties
<1>2. \A i \in 1 .. Len(q) + 1 : p[i] = IF i < k THEN q[i]
                                        ELSE IF i = k THEN Entry(prio, v) ELSE q[i - 1]
  BY PushProperties
<1>3. Entry(prio, v).value = v
  BY DEF Entry
<1> HIDE DEF k, p
<1>4. ASSUME NEW i \in DOMAIN q PROVE \E j \in DOMAIN p : p[j] = q[i]
  <2>1. CASE i < k
    BY <1>1, <1>2, <2>1
  <2>2. CASE i >= k
    <3>1. i + 1 \in 1 .. Len(q) + 1 /\ i + 1 > k /\ (i + 1) - 1 = i
      BY <1>1, <2>2
    <3> QED BY <1>1, <1>2, <3>1
  <2> QED BY <1>1, <2>1, <2>2
<1>5. ASSUME NEW i \in DOMAIN p PROVE p[i].value = v \/ \E j \in DOMAIN q : p[i] = q[j]
  <2>1. CASE i < k
    BY <1>1, <1>2, <2>1
  <2>2. CASE i = k
    BY <1>1, <1>2, <1>3, <2>2
  <2>3. CASE i > k
    <3>1. i - 1 \in 1 .. Len(q)
      BY <1>1, <2>3
    <3> QED BY <1>1, <1>2, <2>3, <3>1
  <2> QED BY <1>1, <2>1, <2>2, <2>3
<1>6. k \in DOMAIN p /\ p[k].value = v
  BY <1>1, <1>2, <1>3
<1> QED
  BY <1>4, <1>5, <1>6 DEF Values, p

\* The critical section of Peek(pop = true) takes the front entry.
LEMMA PopProperties ==
  ASSUME NEW S, NEW q \in Seq(Entries(S)), q # <<>>
  PROVE  /\ Pop(q) \in Seq(Entries(S))
         /\ Len(Pop(q)) = Len(q) - 1
         /\ \A i \in 1 .. Len(q) - 1 : Pop(q)[i] = q[i + 1]
         /\ Head(q) = q[1] /\ Len(q) >= 1
         /\ Head(q).value \in Values(q)
         /\ Head(q).value \in S
         /\ Values(Pop(q)) \subseteq Values(q)
<1>1. /\ Tail(q) \in Seq(Entries(S)) /\ Len(Tail(q)) = Len(q) - 1
      /\ \A i \in 1 .. Len(Tail(q)) : Tail(q)[i] = q[i + 1]
      /\ Head(q) = q[1]
  BY HeadTailProperties, Z3
<1>2. Len(q) \in Nat /\ Len(q) >= 1 /\ DOMAIN q = 1 .. Len(q)
  BY EmptySeq, QueueElements
<1>3. DOMAIN Tail(q) = 1 .. Len(q) - 1
  BY <1>1, <1>2, LenProperties
<1>4. q[1].value \in Values(q) /\ q[1].value \in S
  BY <1>2, QueueElements DEF Values
<1>5. \A i \in 1 .. Len(q) - 1 : i + 1 \in DOMAIN q
  BY <1>2
<1>6. Values(Tail(q)) \subseteq Values(q)
  BY <1>1, <1>3, <1>5 DEF Values
<1> QED BY <1>1, <1>2, <1>4, <1>6 DEF Pop

\* Pop removes the entry at the first place.
LEMMA PopExtends ==
  ASSUME NEW S, NEW q \in Seq(Entries(S)), q # <<>>
  PROVE  Extends(q, Pop(q), 1)
<1>1. Len(q) \in Nat /\ Len(q) >= 1 /\ Len(Pop(q)) = Len(q) - 1
      /\ \A i \in 1 .. Len(q) - 1 : Pop(q)[i] = q[i + 1]
  BY PopProperties, QueueElements
<1>2. \A i \in 1 .. Len(q) - 1 : ~ (i < 1)
  BY <1>1
<1> QED BY <1>1, <1>2 DEF Extends

\* The critical section of Find(remove_if_found): the queue shrinks by the
\* first hit, or stays as it is.
LEMMA EraseFirstExtends ==
  ASSUME NEW S, NEW q \in Seq(Entries(S)), NEW hits \in SUBSET DOMAIN q, hits # {}
  PROVE  /\ EraseFirst(q, hits) \in Seq(Entries(S))
         /\ \E k \in hits : Extends(q, EraseFirst(q, hits), k)
<1> DEFINE k == CHOOSE i \in hits : \A j \in hits : i <= j
           before == SubSeq(q, 1, k - 1)
           after == SubSeq(q, k + 1, Len(q))
<1>0. Len(q) \in Nat /\ DOMAIN q = 1 .. Len(q) /\ \A i \in 1 .. Len(q) : q[i] \in Entries(S)
  BY QueueElements
<1>1. k \in hits /\ k \in 1 .. Len(q)
  <2>1. hits \in SUBSET Nat
    BY <1>0
  <2>2. \E i \in hits : \A j \in hits : i <= j
    BY <2>1, LeastNatural
  <2> QED BY <1>0, <2>2
<1>2. EraseFirst(q, hits) = before \o after
  BY DEF EraseFirst, RemoveAt
<1> HIDE DEF k
<1>3. /\ before \in Seq(Entries(S)) /\ Len(before) = k - 1
      /\ \A i \in 1 .. k - 1 : before[i] = q[i]
  <2>1. \A i \in 1 .. k - 1 : q[i] \in Entries(S)
    BY <1>0, <1>1
  <2>2. /\ before \in Seq(Entries(S))
        /\ Len(before) = IF 1 <= k - 1 THEN (k - 1) - 1 + 1 ELSE 0
        /\ \A i \in 1 .. (k - 1) - 1 + 1 : before[i] = q[1 + i - 1]
    BY <1>0, <1>1, <2>1, SubSeqProperties
  <2> QED BY <1>0, <1>1, <2>2
<1>4. /\ after \in Seq(Entries(S)) /\ Len(after) = Len(q) - k
      /\ \A i \in 1 .. Len(q) - k : after[i] = q[k + i]
  <2>1. \A i \in k + 1 .. Len(q) : q[i] \in Entries(S)
    BY <1>0, <1>1
  <2>2. /\ after \in Seq(Entries(S))
        /\ Len(after) = IF k + 1 <= Len(q) THEN Len(q) - (k + 1) + 1 ELSE 0
        /\ \A i \in 1 .. Len(q) - (k + 1) + 1 : after[i] = q[(k + 1) + i - 1]
    BY <1>0, <1>1, <2>1, SubSeqProperties
  <2>3. Len(q) - (k + 1) + 1 = Len(q) - k /\ \A i \in 1 .. Len(q) - k : (k + 1) + i - 1 = k + i
    BY <1>0, <1>1
  <2>4. Len(after) = Len(q) - k
    BY <1>0, <1>1, <2>2, <2>3
  <2>5. \A i \in 1 .. Len(q) - k : after[i] = q[k + i]
    <3> HIDE DEF after
    <3> QED BY <2>2, <2>3
  <2> QED BY <2>2, <2>4, <2>5
<1> HIDE DEF before, after
<1>5. /\ before \o after \in Seq(Entries(S))
      /\ Len(before \o after) = Len(before) + Len(after)
      /\ \A i \in 1 .. Len(before) + Len(after) :
           (before \o after)[i] = IF i <= Len(before) THEN before[i]
                                  ELSE after[i - Len(before)]
  BY <1>3, <1>4, ConcatProperties
<1>6. Len(before) + Len(after) = Len(q) - 1
  BY <1>0, <1>1, <1>3, <1>4
<1>7. ASSUME NEW i \in 1 .. Len(q) - 1
      PROVE  q[IF i < k THEN i ELSE i + 1] = (before \o after)[i]
  <2>1. CASE i < k
    BY <1>0, <1>1, <1>3, <1>5, <1>6, <2>1
  <2>2. CASE ~ (i < k)
    <3>1. i - (k - 1) \in 1 .. Len(q) - k /\ k + (i - (k - 1)) = i + 1
      BY <1>0, <1>1, <2>2
    <3>2. (before \o after)[i] = after[i - (k - 1)]
      <4>1. ~ (i <= Len(before)) /\ Len(before) = k - 1 /\ i \in 1 .. Len(before) + Len(after)
        BY <1>0, <1>1, <1>3, <1>6, <2>2
      <4> QED BY <1>5, <4>1
    <3>3. after[i - (k - 1)] = q[i + 1]
      BY <1>4, <3>1
    <3> QED BY <2>2, <3>2, <3>3
  <2> QED BY <2>1, <2>2
<1>8. Extends(q, before \o after, k)
  <2>1. Len(before \o after) = Len(q) - 1
    BY <1>5, <1>6
  <2>2. Len(q) = Len(before \o after) + 1
    BY <1>0, <2>1
  <2> QED BY <1>1, <1>7, <2>1, <2>2 DEF Extends
<1> QED BY <1>1, <1>2, <1>5, <1>8

LEMMA EraseFirstProperties ==
  ASSUME NEW S, NEW q \in Seq(Entries(S)), NEW hits \in SUBSET DOMAIN q
  PROVE  EraseFirst(q, hits) \in Seq(Entries(S))
<1>1. CASE hits = {}
  BY <1>1 DEF EraseFirst
<1>2. CASE hits # {}
  BY <1>2, EraseFirstExtends
<1> QED BY <1>1, <1>2

(***************************************************************************)
(* The job manager.                                                        *)
(***************************************************************************)

USE ThreadsAssumption, BoundsAssumption

(***************************************************************************)
(* Type correctness.                                                       *)
(***************************************************************************)

\* The local variable "job" is set while the code uses it.
JobsHeld ==
  /\ \A c \in Callers : pc[c] # "idle" => job[c] \in Job
  /\ \A w \in Workers : pc[w] \in {"run", "erase"} => job[w] \in Job

TypeInv == TypeOK /\ JobsHeld

LEMMA KeyIsInt == \A j \in Job : QueueKey(j.Priority) \in Int
BY DEF Job, Priorities, QueueKey

LEMMA JobIsNotNoJob == NoJob \notin Job
BY DEF Job, NoJob, Calls

\* Where a step leaves the threads.
PCsTyped ==
  /\ pc \in [Threads -> CallerPCs \union WorkerPCs \union CloserPCs]
  /\ \A c \in Callers : pc[c] \in CallerPCs
  /\ \A w \in Workers : pc[w] \in WorkerPCs
  /\ pc[Closer] \in CloserPCs

LEMMA GotoTyped ==
  ASSUME PCsTyped, NEW t \in Threads, NEW from, NEW to, Goto(t, from, to),
         t \in Callers => to \in CallerPCs,
         t \in Workers => to \in WorkerPCs,
         t = Closer => to \in CloserPCs
  PROVE  /\ PCsTyped'
         /\ pc[t] = from /\ pc'[t] = to
         /\ \A u \in Threads \ {t} : pc'[u] = pc[u]
<1>1. to \in CallerPCs \union WorkerPCs \union CloserPCs
  BY DEF Threads
<1>2. /\ pc' = [pc EXCEPT ![t] = to] /\ pc[t] = from
      /\ pc' \in [Threads -> CallerPCs \union WorkerPCs \union CloserPCs]
      /\ pc'[t] = to /\ \A u \in Threads \ {t} : pc'[u] = pc[u]
  BY <1>1 DEF Goto, PCsTyped
<1>3. /\ \A c \in Callers : pc'[c] \in CallerPCs
      /\ \A w \in Workers : pc'[w] \in WorkerPCs
      /\ pc'[Closer] \in CloserPCs
  BY <1>2 DEF PCsTyped, Threads
<1> QED BY <1>2, <1>3 DEF PCsTyped

LEMMA InitTypeInv == Init => TypeInv
<1> SUFFICES ASSUME Init PROVE TypeInv
  OBVIOUS
<1> USE DEF Init
<1>1. queue \in [Queues -> Seq([priority : Int, value : Job])]
  BY DEF Queues
<1>2. pc \in [Threads -> CallerPCs \union WorkerPCs \union CloserPCs]
  BY DEF Threads, CallerPCs, WorkerPCs, CloserPCs
<1>3. /\ \A c \in Callers : pc[c] = "idle"
      /\ \A w \in Workers : pc[w] = "loop"
      /\ pc[Closer] = "idle"
  BY DEF Threads
<1>4. /\ sem \in [Queues -> Nat] /\ abort \in BOOLEAN /\ nextID \in Nat
      /\ job \in [Callers \union Workers -> Job \union {NoJob}]
      /\ calls \in [Callers -> Nat] /\ finished \in SUBSET Job
  BY DEF Queues
<1> QED
  BY <1>1, <1>2, <1>3, <1>4 DEF TypeInv, TypeOK, JobsHeld, CallerPCs, WorkerPCs, CloserPCs

LEMMA StepTypeInv == TypeInv /\ [Next]_vars => TypeInv'
<1> SUFFICES ASSUME TypeInv, [Next]_vars PROVE TypeInv'
  OBVIOUS
<1> USE DEF TypeInv, TypeOK, JobsHeld, Goto, Threads, CallerPCs, WorkerPCs, CloserPCs
<1>1. ASSUME NEW r \in Requests, IncrementID(r[1], r[2], r[3]) PROVE TypeInv'
  <2>1. r[1] \in Callers /\ r[2] \in Priorities /\ r[3] \in Tags
    BY DEF Priorities, Tags
  <2>2. <<r[1], calls[r[1]] + 1>> \in Calls
    BY <1>1, <2>1 DEF IncrementID, Calls
  <2>3. [JobID |-> nextID, Tag |-> r[3], Priority |-> r[2], call |-> <<r[1], calls[r[1]] + 1>>] \in Job
    BY <2>1, <2>2 DEF Job
  <2>4. /\ PCsTyped' /\ pc'[r[1]] = "readID"
        /\ \A u \in Threads \ {r[1]} : pc'[u] = pc[u]
    BY <1>1, <2>1, GotoTyped DEF IncrementID, PCsTyped
  <2>5. /\ job' \in [Callers \union Workers -> Job \union {NoJob}]
        /\ job'[r[1]] \in Job
        /\ \A u \in (Callers \union Workers) \ {r[1]} : job'[u] = job[u]
    BY <1>1, <2>1, <2>3 DEF IncrementID
  <2>6. /\ nextID' \in Nat /\ calls' \in [Callers -> Nat]
        /\ UNCHANGED <<queue, sem, abort, finished>>
    BY <1>1 DEF IncrementID
  <2> QED BY <2>1, <2>4, <2>5, <2>6 DEF PCsTyped
<1>2. ASSUME NEW c \in Callers, ReadID(c) PROVE TypeInv'
  <2>1. job[c] \in Job /\ [job[c] EXCEPT !.JobID = nextID + 1] \in Job
    <3>1. job[c] \in Job
      BY <1>2 DEF ReadID
    <3>2. nextID + 1 \in Nat
      OBVIOUS
    <3> QED BY ONLY <3>1, <3>2 DEF Job
  <2> QED BY <1>2, <2>1 DEF ReadID
<1>3. ASSUME NEW c \in Callers, PushActive(c) PROVE TypeInv'
  <2>1. job[c] \in Job /\ QueueKey(job[c].Priority) \in Int
    BY <1>3, KeyIsInt DEF PushActive
  <2>2. Push(queue["active"], QueueKey(job[c].Priority), job[c]) \in Seq([priority : Int, value : Job])
    BY <2>1, PushProperties, ZenonT(60) DEF Entries, Queues
  <2>3. queue' \in [Queues -> Seq([priority : Int, value : Job])]
    BY <1>3, <2>2 DEF PushActive, Queues
  <2>4. sem' \in [Queues -> Nat]
    BY <1>3 DEF PushActive, Queues
  <2> QED BY <1>3, <2>3, <2>4 DEF PushActive
<1>4. ASSUME NEW c \in Callers, InsertWork(c) PROVE TypeInv'
  <2>1. job[c] \in Job /\ QueueKey(job[c].Priority) \in Int
    BY <1>4, KeyIsInt DEF InsertWork
  <2>2. Push(queue["work"], QueueKey(job[c].Priority), job[c]) \in Seq([priority : Int, value : Job])
    BY <2>1, PushProperties, ZenonT(60) DEF Entries, Queues
  <2>3. queue' \in [Queues -> Seq([priority : Int, value : Job])]
    BY <1>4, <2>2 DEF InsertWork, Queues
  <2> QED BY <1>4, <2>3 DEF InsertWork
<1>5. ASSUME NEW c \in Callers, CheckAbort(c) PROVE TypeInv'
  BY <1>5 DEF CheckAbort
<1>6. ASSUME NEW c \in Callers, Post(c) PROVE TypeInv'
  BY <1>6 DEF Post, Queues
<1>7. ASSUME NEW w \in Workers, TestAborted(w) PROVE TypeInv'
  BY <1>7 DEF TestAborted
<1>8. ASSUME NEW w \in Workers, TakeToken(w) PROVE TypeInv'
  BY <1>8 DEF TakeToken, Queues
<1>9. ASSUME NEW w \in Workers, AnswerWait(w) PROVE TypeInv'
  BY <1>9 DEF AnswerWait
<1>10. ASSUME NEW w \in Workers, PeekEmpty(w) PROVE TypeInv'
  BY <1>10 DEF PeekEmpty
<1>11. ASSUME NEW w \in Workers, PeekJob(w) PROVE TypeInv'
  <2>1. /\ Head(queue["work"]).value \in Job
        /\ Pop(queue["work"]) \in Seq([priority : Int, value : Job])
    <3>1. queue["work"] \in Seq(Entries(Job)) /\ queue["work"] # <<>>
      BY <1>11 DEF PeekJob, Entries, Queues
    <3> QED BY <3>1, PopProperties DEF Entries
  <2>2. queue' \in [Queues -> Seq([priority : Int, value : Job])]
    BY <1>11, <2>1 DEF PeekJob, Queues
  <2> QED BY <1>11, <2>1, <2>2 DEF PeekJob
<1>12. ASSUME NEW w \in Workers, Run(w) PROVE TypeInv'
  BY <1>12, ZenonT(60) DEF Run
<1>13. ASSUME NEW w \in Workers, Erase(w) PROVE TypeInv'
  <2>1. EraseFirst(queue["active"], Matches(queue["active"], job[w].JobID))
          \in Seq([priority : Int, value : Job])
    BY EraseFirstProperties DEF Entries, Queues, Matches
  <2> QED BY <1>13, <2>1 DEF Erase, Queues
<1>14. ASSUME RaiseFlag PROVE TypeInv'
  <2>1. PCsTyped' /\ \A u \in Threads \ {Closer} : pc'[u] = pc[u]
    <3>1. PICK from, to \in CloserPCs : Goto(Closer, from, to)
      BY <1>14 DEF RaiseFlag
    <3> QED BY <3>1, GotoTyped DEF PCsTyped
  <2>2. abort' \in BOOLEAN /\ UNCHANGED <<queue, sem, nextID, job, calls, finished>>
    BY <1>14 DEF RaiseFlag
  <2> QED BY <2>1, <2>2 DEF PCsTyped
<1>15. ASSUME PostTokens PROVE TypeInv'
  <2>1. PCsTyped' /\ \A u \in Threads \ {Closer} : pc'[u] = pc[u]
    <3>1. PICK from, to \in CloserPCs : Goto(Closer, from, to)
      BY <1>15 DEF PostTokens
    <3> QED BY <3>1, GotoTyped DEF PCsTyped
  <2>2. sem' \in [Queues -> Nat] /\ UNCHANGED <<queue, abort, nextID, job, calls, finished>>
    BY <1>15 DEF PostTokens, Queues
  <2> QED BY <2>1, <2>2 DEF PCsTyped
<1>16. ASSUME Join PROVE TypeInv'
  BY <1>16 DEF Join
<1>17. ASSUME UNCHANGED vars PROVE TypeInv'
  BY <1>17 DEF vars
<1> QED
  BY <1>1, <1>2, <1>3, <1>4, <1>5, <1>6, <1>7, <1>8, <1>9, <1>10, <1>11, <1>12, <1>13,
     <1>14, <1>15, <1>16, <1>17
  DEF Next, EnqueueStep, WorkerStep, CloserStep

\* Every state of the manager is well typed.
THEOREM TypeCorrect == Spec => []TypeOK
<1>1. Spec => []TypeInv
  BY InitTypeInv, StepTypeInv, PTL DEF Spec
<1> QED
  BY <1>1, PTL DEF TypeInv

(***************************************************************************)
(* Wake-ups.  WakeupsMatchWork is inductive once it is known that the flag *)
(* is down until the Closer begins.  For PeekersFindWork the flag must     *)
(* also be up from the moment it has begun, which is the order of          *)
(* cell/fifo.cpp: then no worker goes on to the queue after the count      *)
(* stopped being exact.                                                    *)
(***************************************************************************)
FlagFollowsCloser ==
  /\ abort => pc[Closer] # "idle"
  /\ FlagFirst => (pc[Closer] # "idle" => abort)

WakeInv == FlagFollowsCloser /\ WakeupsMatchWork /\ PeekersFindWork

One(P) == IF P THEN 1 ELSE 0

\* Two sets that differ in one element at most differ in size by one at most.
LEMMA MoveCount ==
  ASSUME NEW T, IsFiniteSet(T), NEW t \in T, NEW A \in SUBSET T, NEW B \in SUBSET T,
         \A u \in T \ {t} : u \in A <=> u \in B
  PROVE  /\ Cardinality(A) \in Nat /\ Cardinality(B) \in Nat
         /\ Cardinality(B) = Cardinality(A) + One(t \in B) - One(t \in A)
<1>1. IsFiniteSet(A) /\ IsFiniteSet(B)
  BY FS_Subset
<1>2. Cardinality(A) \in Nat /\ Cardinality(B) \in Nat
  BY <1>1, FS_CardinalityType
<1>3. CASE t \in A /\ t \in B
  <2>1. A = B
    BY <1>3
  <2> QED BY <1>2, <1>3, <2>1 DEF One
<1>4. CASE t \in A /\ t \notin B
  <2>1. B = A \ {t}
    BY <1>4
  <2> QED BY <1>1, <1>2, <1>4, <2>1, FS_RemoveElement DEF One
<1>5. CASE t \notin A /\ t \in B
  <2>1. B = A \union {t}
    BY <1>5
  <2> QED BY <1>1, <1>2, <1>5, <2>1, FS_AddElement DEF One
<1>6. CASE t \notin A /\ t \notin B
  <2>1. A = B
    BY <1>6
  <2> QED BY <1>2, <1>6, <2>1 DEF One
<1> QED BY <1>2, <1>3, <1>4, <1>5, <1>6

LEMMA CountsAreNaturals ==
  /\ \A S : Cardinality(Workers_at(S)) \in Nat
  /\ \A S : Cardinality(Callers_at(S)) \in Nat
<1>1. \A S : Workers_at(S) \in SUBSET Workers /\ Callers_at(S) \in SUBSET Callers
  BY DEF Workers_at, Callers_at
<1> QED BY <1>1, FS_Subset, FS_CardinalityType DEF ThreadsAssumption

LEMMA WorkerMoves ==
  ASSUME PCsTyped, NEW w \in Workers, NEW from, NEW to \in WorkerPCs, Goto(w, from, to)
  PROVE  /\ \A S : Cardinality(Workers_at(S))'
                    = Cardinality(Workers_at(S)) + One(to \in S) - One(from \in S)
         /\ \A S : Cardinality(Workers_at(S))' \in Nat
         /\ \A S : Callers_at(S)' = Callers_at(S)
         /\ pc'[Closer] = pc[Closer]
<1>1. /\ pc[w] = from /\ pc'[w] = to
      /\ \A u \in Threads \ {w} : pc'[u] = pc[u]
  BY GotoTyped DEF Threads
<1>2. ASSUME NEW S
      PROVE  /\ Cardinality(Workers_at(S))'
                  = Cardinality(Workers_at(S)) + One(to \in S) - One(from \in S)
             /\ Cardinality(Workers_at(S))' \in Nat
  <2>1. /\ Workers_at(S) \in SUBSET Workers /\ Workers_at(S)' \in SUBSET Workers
        /\ \A u \in Workers \ {w} : u \in Workers_at(S) <=> u \in Workers_at(S)'
        /\ w \in Workers_at(S) <=> from \in S
        /\ w \in Workers_at(S)' <=> to \in S
    BY <1>1 DEF Workers_at, Threads
  <2>2. /\ Cardinality(Workers_at(S)) \in Nat /\ Cardinality(Workers_at(S)') \in Nat
        /\ Cardinality(Workers_at(S)') = Cardinality(Workers_at(S))
             + One(w \in Workers_at(S)') - One(w \in Workers_at(S))
    BY <2>1, MoveCount
  <2> QED BY <2>1, <2>2 DEF One
<1>3. \A S : Callers_at(S)' = Callers_at(S)
  BY <1>1 DEF Callers_at, Threads
<1> QED BY <1>1, <1>2, <1>3 DEF Threads

LEMMA CallerMoves ==
  ASSUME PCsTyped, NEW c \in Callers, NEW from, NEW to \in CallerPCs, Goto(c, from, to)
  PROVE  /\ \A S : Cardinality(Callers_at(S))'
                    = Cardinality(Callers_at(S)) + One(to \in S) - One(from \in S)
         /\ \A S : Cardinality(Callers_at(S))' \in Nat
         /\ \A S : Workers_at(S)' = Workers_at(S)
         /\ pc'[Closer] = pc[Closer]
<1>1. /\ pc[c] = from /\ pc'[c] = to
      /\ \A u \in Threads \ {c} : pc'[u] = pc[u]
  BY GotoTyped DEF Threads
<1>2. ASSUME NEW S
      PROVE  /\ Cardinality(Callers_at(S))'
                  = Cardinality(Callers_at(S)) + One(to \in S) - One(from \in S)
             /\ Cardinality(Callers_at(S))' \in Nat
  <2>1. /\ Callers_at(S) \in SUBSET Callers /\ Callers_at(S)' \in SUBSET Callers
        /\ \A u \in Callers \ {c} : u \in Callers_at(S) <=> u \in Callers_at(S)'
        /\ c \in Callers_at(S) <=> from \in S
        /\ c \in Callers_at(S)' <=> to \in S
    BY <1>1 DEF Callers_at, Threads
  <2>2. /\ Cardinality(Callers_at(S)) \in Nat /\ Cardinality(Callers_at(S)') \in Nat
        /\ Cardinality(Callers_at(S)') = Cardinality(Callers_at(S))
             + One(c \in Callers_at(S)') - One(c \in Callers_at(S))
    BY <2>1, MoveCount
  <2> QED BY <2>1, <2>2 DEF One
<1>3. \A S : Workers_at(S)' = Workers_at(S)
  BY <1>1 DEF Workers_at, Threads
<1> QED BY <1>1, <1>2, <1>3 DEF Threads

\* A worker at "peek" is one at "woken" or "peek".
LEMMA PeekersAreAwake ==
  Cardinality(Workers_at({"peek"})) <= Cardinality(Workers_at({"woken", "peek"}))
<1>1. /\ Workers_at({"woken", "peek"}) \in SUBSET Workers
      /\ Workers_at({"peek"}) \in SUBSET Workers_at({"woken", "peek"})
  BY DEF Workers_at
<1> QED BY <1>1, FS_Subset DEF ThreadsAssumption

LEMMA InitWakeInv == Init => WakeInv
<1> SUFFICES ASSUME Init PROVE WakeInv
  OBVIOUS
<1>1. /\ \A c \in Callers : pc[c] = "idle"
      /\ \A w \in Workers : pc[w] = "loop"
      /\ pc[Closer] = "idle" /\ abort = FALSE
      /\ queue["work"] = <<>> /\ sem["work"] = 0
  BY DEF Init, Threads, Queues
<1>2. /\ Workers_at({"woken", "peek"}) = {} /\ Workers_at({"peek"}) = {}
      /\ Callers_at({"checkAbort", "post"}) = {}
  BY <1>1 DEF Workers_at, Callers_at
<1>3. /\ Cardinality(Workers_at({"woken", "peek"})) = 0
      /\ Cardinality(Workers_at({"peek"})) = 0
      /\ Cardinality(Callers_at({"checkAbort", "post"})) = 0
  BY <1>2, FS_EmptySet, Zenon
<1>4. Len(queue["work"]) = 0
  BY <1>1
<1>5. WakeupsMatchWork
  BY <1>1, <1>3, <1>4 DEF WakeupsMatchWork
<1>6. PeekersFindWork
  BY <1>3, <1>4 DEF PeekersFindWork
<1> QED
  BY <1>1, <1>5, <1>6 DEF WakeInv, FlagFollowsCloser

LEMMA StepWakeInv == TypeInv /\ WakeInv /\ [Next]_vars => WakeInv'
<1> SUFFICES ASSUME TypeInv, WakeInv, [Next]_vars PROVE WakeInv'
  OBVIOUS
<1> DEFINE L == Len(queue["work"])
           N == sem["work"]
           P == Cardinality(Workers_at({"woken", "peek"}))
           K == Cardinality(Workers_at({"peek"}))
           C == Cardinality(Callers_at({"checkAbort", "post"}))
<1>a. /\ PCsTyped /\ abort \in BOOLEAN
      /\ queue["work"] \in Seq(Entries(Job)) /\ queue["work"] \in Seq([priority : Int, value : Job])
      /\ L \in Nat /\ N \in Nat /\ P \in Nat /\ K \in Nat /\ C \in Nat /\ K <= P
  <2>1. /\ PCsTyped /\ abort \in BOOLEAN /\ N \in Nat
        /\ queue["work"] \in Seq([priority : Int, value : Job])
    BY DEF TypeInv, TypeOK, PCsTyped, Queues
  <2>2. L \in Nat
    BY <2>1, LenProperties
  <2> QED BY <2>1, <2>2, CountsAreNaturals, PeekersAreAwake DEF Entries
<1>b. /\ abort => pc[Closer] # "idle"
      /\ FlagFirst => (pc[Closer] # "idle" => abort)
      /\ pc[Closer] = "idle" => L = N + P + C
      /\ FlagFirst => L >= K
  BY DEF WakeInv, FlagFollowsCloser, WakeupsMatchWork, PeekersFindWork
<1>c. ASSUME abort' => pc'[Closer] # "idle",
             FlagFirst => (pc'[Closer] # "idle" => abort'),
             pc'[Closer] = "idle" => L' = N' + P' + C',
             FlagFirst => L' >= K'
      PROVE  WakeInv'
  BY <1>c DEF WakeInv, FlagFollowsCloser, WakeupsMatchWork, PeekersFindWork
<1> HIDE DEF L, N, P, K, C
<1>d. ASSUME NEW w \in Workers, NEW from, NEW to \in WorkerPCs, Goto(w, from, to)
      PROVE  /\ P' = P + One(to \in {"woken", "peek"}) - One(from \in {"woken", "peek"})
             /\ K' = K + One(to \in {"peek"}) - One(from \in {"peek"})
             /\ C' = C /\ pc'[Closer] = pc[Closer] /\ P' \in Nat /\ K' \in Nat
  BY <1>a, <1>d, WorkerMoves DEF P, K, C
<1>e. ASSUME NEW c \in Callers, NEW from, NEW to \in CallerPCs, Goto(c, from, to)
      PROVE  /\ C' = C + One(to \in {"checkAbort", "post"}) - One(from \in {"checkAbort", "post"})
             /\ P' = P /\ K' = K /\ pc'[Closer] = pc[Closer]
  BY <1>a, <1>e, CallerMoves DEF P, K, C
<1> USE DEF One, CallerPCs, WorkerPCs
<1>1. ASSUME NEW r \in Requests, IncrementID(r[1], r[2], r[3]) PROVE WakeInv'
  <2>1. r[1] \in Callers
    OBVIOUS
  <2>2. C' = C /\ P' = P /\ K' = K /\ pc'[Closer] = pc[Closer]
    <3>1. Goto(r[1], "idle", "readID")
      BY <1>1 DEF IncrementID
    <3> QED BY <1>a, <1>e, <2>1, <3>1
  <2>3. L' = L /\ N' = N /\ abort' = abort
    BY <1>1 DEF IncrementID, L, N
  <2> QED BY <1>b, <1>c, <2>2, <2>3
<1>2. ASSUME NEW c \in Callers, ReadID(c) PROVE WakeInv'
  <2>2. C' = C /\ P' = P /\ K' = K /\ pc'[Closer] = pc[Closer]
    <3>1. Goto(c, "readID", "pushActive")
      BY <1>2 DEF ReadID
    <3> QED BY <1>a, <1>e, <3>1
  <2>3. L' = L /\ N' = N /\ abort' = abort
    BY <1>2 DEF ReadID, L, N
  <2> QED BY <1>b, <1>c, <2>2, <2>3
<1>3. ASSUME NEW c \in Callers, PushActive(c) PROVE WakeInv'
  <2>2. C' = C /\ P' = P /\ K' = K /\ pc'[Closer] = pc[Closer]
    <3>1. Goto(c, "pushActive", "insertWork")
      BY <1>3 DEF PushActive
    <3> QED BY <1>a, <1>e, <3>1
  <2>3. L' = L /\ N' = N /\ abort' = abort
    BY <1>3 DEF PushActive, L, N, TypeInv, TypeOK, Queues
  <2> QED BY <1>b, <1>c, <2>2, <2>3
<1>4. ASSUME NEW c \in Callers, InsertWork(c) PROVE WakeInv'
  <2>1. job[c] \in Job /\ QueueKey(job[c].Priority) \in Int
    BY <1>4, KeyIsInt DEF InsertWork, Goto, TypeInv, JobsHeld
  <2>2. C' = C + 1 /\ P' = P /\ K' = K /\ pc'[Closer] = pc[Closer]
    <3>1. Goto(c, "insertWork", "checkAbort")
      BY <1>4 DEF InsertWork
    <3> QED BY <1>a, <1>e, <3>1
  <2>3. L' = L + 1
    <3>1. queue'["work"] = Push(queue["work"], QueueKey(job[c].Priority), job[c])
      BY <1>4 DEF InsertWork, TypeInv, TypeOK, Queues
    <3> QED BY <1>a, <2>1, <3>1, PushProperties DEF L
  <2>4. N' = N /\ abort' = abort
    BY <1>4 DEF InsertWork, N
  <2> QED BY <1>a, <1>b, <1>c, <2>2, <2>3, <2>4
<1>5. ASSUME NEW c \in Callers, CheckAbort(c) PROVE WakeInv'
  <2>1. L' = L /\ N' = N /\ abort' = abort
    BY <1>5 DEF CheckAbort, L, N
  <2>2. CASE abort
    <3>1. P' = P /\ K' = K /\ pc'[Closer] = pc[Closer]
      <4>1. Goto(c, "checkAbort", "idle")
        BY <1>5, <2>2 DEF CheckAbort
      <4> QED BY <1>a, <1>e, <4>1
    <3> QED BY <1>b, <1>c, <2>1, <2>2, <3>1
  <2>3. CASE ~ abort
    <3>1. C' = C /\ P' = P /\ K' = K /\ pc'[Closer] = pc[Closer]
      <4>1. Goto(c, "checkAbort", "post")
        BY <1>5, <2>3 DEF CheckAbort
      <4> QED BY <1>a, <1>e, <4>1
    <3> QED BY <1>b, <1>c, <2>1, <3>1
  <2> QED BY <2>2, <2>3
<1>6. ASSUME NEW c \in Callers, Post(c) PROVE WakeInv'
  <2>1. C' = C - 1 /\ P' = P /\ K' = K /\ pc'[Closer] = pc[Closer]
    <3>1. Goto(c, "post", "idle")
      BY <1>6 DEF Post
    <3> QED BY <1>a, <1>e, <3>1
  <2>2. L' = L /\ N' = N + 1 /\ abort' = abort
    BY <1>6 DEF Post, L, N, TypeInv, TypeOK, Queues
  <2> QED BY <1>a, <1>b, <1>c, <2>1, <2>2
<1>7. ASSUME NEW w \in Workers, TestAborted(w) PROVE WakeInv'
  <2>1. L' = L /\ N' = N /\ abort' = abort
    BY <1>7 DEF TestAborted, L, N
  <2>2. PICK to \in {"exited", "wait"} : Goto(w, "loop", to)
    BY <1>7 DEF TestAborted
  <2>3. P' = P /\ K' = K /\ C' = C /\ pc'[Closer] = pc[Closer]
    BY <1>a, <1>d, <2>2
  <2> QED BY <1>b, <1>c, <2>1, <2>3
<1>8. ASSUME NEW w \in Workers, TakeToken(w) PROVE WakeInv'
  <2>1. L' = L /\ N' = N - 1 /\ abort' = abort
    BY <1>8 DEF TakeToken, L, N, TypeInv, TypeOK, Queues
  <2>2. P' = P + 1 /\ K' = K /\ C' = C /\ pc'[Closer] = pc[Closer]
    <3>1. Goto(w, "wait", "woken")
      BY <1>8 DEF TakeToken
    <3> QED BY <1>a, <1>d, <3>1
  <2> QED BY <1>a, <1>b, <1>c, <2>1, <2>2
<1>9. ASSUME NEW w \in Workers, AnswerWait(w) PROVE WakeInv'
  <2>1. L' = L /\ N' = N /\ abort' = abort
    BY <1>9 DEF AnswerWait, L, N
  <2>2. CASE abort
    <3>1. K' = K /\ pc'[Closer] = pc[Closer]
      <4>1. Goto(w, "woken", "loop")
        BY <1>9, <2>2 DEF AnswerWait
      <4> QED BY <1>a, <1>d, <4>1
    <3> QED BY <1>b, <1>c, <2>1, <2>2, <3>1
  <2>3. CASE ~ abort
    <3>1. P' = P /\ K' = K + 1 /\ C' = C /\ pc'[Closer] = pc[Closer]
      <4>1. Goto(w, "woken", "peek")
        BY <1>9, <2>3 DEF AnswerWait
      <4> QED BY <1>a, <1>d, <4>1
    <3>2. K' <= P
      <4>1. Cardinality(Workers_at({"peek"}))' <= Cardinality(Workers_at({"woken", "peek"}))'
        <5>1. /\ Workers_at({"woken", "peek"})' \in SUBSET Workers
              /\ Workers_at({"peek"})' \in SUBSET Workers_at({"woken", "peek"})'
          BY DEF Workers_at
        <5>2. IsFiniteSet(Workers_at({"woken", "peek"})')
          BY <5>1, FS_Subset DEF ThreadsAssumption
        <5> QED BY <5>1, <5>2, FS_Subset
      <4> QED BY <3>1, <4>1 DEF K, P
    <3> QED BY <1>a, <1>b, <1>c, <2>1, <2>3, <3>1, <3>2
  <2> QED BY <2>2, <2>3
<1>10. ASSUME NEW w \in Workers, PeekEmpty(w) PROVE WakeInv'
  <2>1. L' = L /\ N' = N /\ abort' = abort /\ L = 0
    BY <1>10 DEF PeekEmpty, L, N
  <2>2. P' = P - 1 /\ K' = K - 1 /\ C' = C /\ pc'[Closer] = pc[Closer] /\ P' \in Nat
    <3>1. Goto(w, "peek", "loop")
      BY <1>10 DEF PeekEmpty
    <3> QED BY <1>a, <1>d, <3>1
  <2> QED BY <1>a, <1>b, <1>c, <2>1, <2>2
<1>11. ASSUME NEW w \in Workers, PeekJob(w) PROVE WakeInv'
  <2>1. N' = N /\ abort' = abort
    BY <1>11 DEF PeekJob, N
  <2>2. L' = L - 1
    <3>1. queue'["work"] = Pop(queue["work"]) /\ queue["work"] # <<>>
      BY <1>11 DEF PeekJob, TypeInv, TypeOK, Queues
    <3> QED BY <1>a, <3>1, PopProperties DEF L
  <2>3. P' = P - 1 /\ K' = K - 1 /\ C' = C /\ pc'[Closer] = pc[Closer]
    <3>1. Goto(w, "peek", "run")
      BY <1>11 DEF PeekJob
    <3> QED BY <1>a, <1>d, <3>1
  <2> QED BY <1>a, <1>b, <1>c, <2>1, <2>2, <2>3
<1>12. ASSUME NEW w \in Workers, Run(w) PROVE WakeInv'
  <2>1. L' = L /\ N' = N /\ abort' = abort
    BY <1>12 DEF Run, L, N
  <2>2. P' = P /\ K' = K /\ C' = C /\ pc'[Closer] = pc[Closer]
    <3>1. Goto(w, "run", "erase")
      BY <1>12 DEF Run
    <3> QED BY <1>a, <1>d, <3>1
  <2> QED BY <1>b, <1>c, <2>1, <2>2
<1>13. ASSUME NEW w \in Workers, Erase(w) PROVE WakeInv'
  <2>1. L' = L /\ N' = N /\ abort' = abort
    BY <1>13 DEF Erase, L, N, TypeInv, TypeOK, Queues
  <2>2. P' = P /\ K' = K /\ C' = C /\ pc'[Closer] = pc[Closer]
    <3>1. Goto(w, "erase", "loop")
      BY <1>13 DEF Erase
    <3> QED BY <1>a, <1>d, <3>1
  <2> QED BY <1>b, <1>c, <2>1, <2>2
<1>f. ASSUME NEW from, NEW to \in CloserPCs, Goto(Closer, from, to)
      PROVE  P' = P /\ K' = K /\ C' = C /\ pc[Closer] = from /\ pc'[Closer] = to
  <2>1. /\ pc[Closer] = from /\ pc'[Closer] = to
        /\ \A u \in Threads \ {Closer} : pc'[u] = pc[u]
    BY <1>a, <1>f, GotoTyped DEF Threads
  <2>2. /\ \A w \in Workers : pc'[w] = pc[w]
        /\ \A c \in Callers : pc'[c] = pc[c]
    BY <2>1 DEF Threads
  <2>3. /\ \A S : Workers_at(S)' = Workers_at(S)
        /\ \A S : Callers_at(S)' = Callers_at(S)
    BY <2>2 DEF Workers_at, Callers_at
  <2> QED BY <2>1, <2>3 DEF P, K, C
<1>14. ASSUME RaiseFlag PROVE WakeInv'
  <2>1. L' = L /\ N' = N /\ abort' = TRUE
    BY <1>14 DEF RaiseFlag, L, N
  <2>2. PICK from, to \in CloserPCs : Goto(Closer, from, to) /\ to # "idle"
    BY <1>14 DEF RaiseFlag, CloserPCs
  <2> QED BY <1>b, <1>c, <1>f, <2>1, <2>2
<1>15. ASSUME PostTokens PROVE WakeInv'
  <2>1. L' = L /\ abort' = abort
    BY <1>15 DEF PostTokens, L
  <2>2. CASE FlagFirst
    <3>1. Goto(Closer, "post", "join")
      BY <1>15, <2>2 DEF PostTokens
    <3>2. P' = P /\ K' = K /\ pc[Closer] = "post" /\ pc'[Closer] = "join"
      BY <1>f, <3>1 DEF CloserPCs
    <3> QED BY <1>b, <1>c, <2>1, <2>2, <3>2
  <2>3. CASE ~ FlagFirst
    <3>1. Goto(Closer, "idle", "flag")
      BY <1>15, <2>3 DEF PostTokens
    <3>2. P' = P /\ K' = K /\ pc[Closer] = "idle" /\ pc'[Closer] = "flag"
      BY <1>f, <3>1 DEF CloserPCs
    <3> QED BY <1>b, <1>c, <2>1, <2>3, <3>2
  <2> QED BY <2>2, <2>3
<1>16. ASSUME Join PROVE WakeInv'
  <2>1. L' = L /\ N' = N /\ abort' = abort
    BY <1>16 DEF Join, L, N
  <2>2. Goto(Closer, "join", "closed") /\ "closed" \in CloserPCs
    BY <1>16 DEF Join, CloserPCs
  <2> QED BY <1>b, <1>c, <1>f, <2>1, <2>2
<1>17. ASSUME UNCHANGED vars PROVE WakeInv'
  <2>1. L' = L /\ N' = N /\ P' = P /\ K' = K /\ C' = C /\ abort' = abort /\ pc' = pc
    BY <1>17 DEF vars, L, N, P, K, C, Workers_at, Callers_at
  <2> QED BY <1>b, <1>c, <2>1
<1> QED
  BY <1>1, <1>2, <1>3, <1>4, <1>5, <1>6, <1>7, <1>8, <1>9, <1>10, <1>11, <1>12, <1>13,
     <1>14, <1>15, <1>16, <1>17
  DEF Next, EnqueueStep, WorkerStep, CloserStep

LEMMA WakeInvariant == Spec => [](TypeInv /\ WakeInv)
<1>1. Init => TypeInv /\ WakeInv
  BY InitTypeInv, InitWakeInv
<1>2. TypeInv /\ WakeInv /\ [Next]_vars => TypeInv' /\ WakeInv'
  BY StepTypeInv, StepWakeInv
<1> QED
  BY <1>1, <1>2, PTL DEF Spec

\* Push and Pop, which touch the queue and the semaphore in separate steps,
\* neither lose a wake-up nor leave one over, for any number of threads.
THEOREM WakeupsAreExact == Spec => []WakeupsMatchWork
<1>1. TypeInv /\ WakeInv => WakeupsMatchWork
  BY DEF WakeInv
<1> QED
  BY <1>1, WakeInvariant, PTL

\* With the flag raised before the shutdown tokens are posted, a worker sent
\* to the queue finds an entry there.
THEOREM PeekersAlwaysFindWork == Spec => []PeekersFindWork
<1>1. TypeInv /\ WakeInv => PeekersFindWork
  BY DEF WakeInv
<1> QED
  BY <1>1, WakeInvariant, PTL

(***************************************************************************)
(* The jobs of the manager from call to end: the IDs a caller gets, the    *)
(* entries that CountJobsWithJobID counts, and that the manager implements *)
(* JobPool.                                                                *)
(***************************************************************************)

Work == queue["work"]
Active == queue["active"]

\* A call of EnqueueJob that has not handed its job to WorkQueue.
Busy == {"readID", "pushActive", "insertWork"}

\* The call that made job j has begun, and has handed j over.
Begun(j) ==
  LET c == j.call[1]
  IN  j.call[2] <= calls[c] /\ (pc[c] \in Busy => j.call[2] < calls[c])

Holding == {"run", "erase"}
Held == {job[w] : w \in Workers_at(Holding)}

DistinctCalls(q) == \A i, k \in DOMAIN q : q[i].value.call = q[k].value.call => i = k
Keyed(q) == \A i \in DOMAIN q : q[i].priority = QueueKey(q[i].value.Priority)

CallersOwn == \A c \in Callers : pc[c] \in Busy => job[c].call = <<c, calls[c]>>
HandedOver == \A j \in Values(Work) \union Held \union finished : Begun(j)

\* No call has two jobs, and no job is in two places, but that a worker about
\* to erase a job has just finished it.
Apart ==
  /\ DistinctCalls(Work)
  /\ \A j \in Values(Work) : \A k \in Held \union finished : j.call # k.call
  /\ \A v, w \in Workers : pc[v] \in Holding /\ pc[w] \in Holding
                             => (job[v].call = job[w].call => v = w)
  /\ \A w \in Workers : pc[w] = "run" => \A j \in finished : job[w].call # j.call
  /\ \A w \in Workers : pc[w] = "erase" => job[w] \in finished

InOrder == Sorted(Work) /\ Keyed(Work)

CallInv == CallersOwn /\ HandedOver /\ Apart /\ InOrder

-----------------------------------------------------------------------------

LEMMA QueueTyped ==
  ASSUME TypeOK
  PROVE  /\ Work \in Seq(Entries(Job)) /\ Active \in Seq(Entries(Job))
         /\ Values(Work) \subseteq Job /\ Values(Active) \subseteq Job
<1>1. Work \in Seq(Entries(Job)) /\ Active \in Seq(Entries(Job))
  BY DEF TypeOK, Work, Active, Queues, Entries
<1> QED BY <1>1, QueueElements DEF Values

LEMMA CallTyped ==
  ASSUME NEW j \in Job
  PROVE  /\ j.call \in Calls /\ j.call[1] \in Callers /\ j.call[2] \in Nat
         /\ j.call = <<j.call[1], j.call[2]>> /\ j.JobID \in Nat
<1>1. j.call \in Calls /\ j.JobID \in Nat
  BY DEF Job
<1>2. PICK c \in Callers : j.call \in {c} \X (1 .. MaxCalls[c])
  BY <1>1 DEF Calls
<1>3. MaxCalls[c] \in Nat
  OBVIOUS
<1> QED BY <1>1, <1>2, <1>3

LEMMA HeldTyped ==
  ASSUME TypeInv
  PROVE  Held \subseteq Job
BY DEF TypeInv, JobsHeld, Held, Workers_at, Holding

\* A queue with one entry more.
LEMMA ExtendsCalls ==
  ASSUME NEW S, NEW p \in Seq(Entries(S)), NEW q \in Seq(Entries(S)), NEW k, Extends(p, q, k)
  PROVE  /\ DistinctCalls(p) => /\ DistinctCalls(q)
                                /\ \A j \in Values(q) : j.call # p[k].value.call
         /\ DistinctCalls(q) /\ (\A j \in Values(q) : j.call # p[k].value.call) => DistinctCalls(p)
<1> DEFINE at(i) == IF i < k THEN i ELSE i + 1
<1>1. /\ Len(q) \in Nat /\ DOMAIN q = 1 .. Len(q) /\ DOMAIN p = 1 .. Len(q) + 1 /\ k \in 1 .. Len(q) + 1
      /\ \A i \in 1 .. Len(q) : p[at(i)] = q[i]
  BY QueueElements DEF Extends
<1>2. \A i \in 1 .. Len(q) : at(i) \in DOMAIN p /\ at(i) # k
  BY <1>1
<1>3. \A i, j \in 1 .. Len(q) : at(i) = at(j) => i = j
  BY <1>1
<1>4. ASSUME NEW t \in DOMAIN p, t # k PROVE \E i \in 1 .. Len(q) : at(i) = t
  <2>1. CASE t < k
    <3>1. t \in 1 .. Len(q) /\ at(t) = t
      BY <1>1, <2>1
    <3> QED BY <3>1
  <2>2. CASE t > k
    <3>1. t - 1 \in 1 .. Len(q) /\ ~ (t - 1 < k) /\ (t - 1) + 1 = t
      BY <1>1, <2>2
    <3> QED BY <3>1
  <2> QED BY <1>1, <1>4, <2>1, <2>2
<1> HIDE DEF at
<1>5. ASSUME DistinctCalls(p)
      PROVE  DistinctCalls(q) /\ \A j \in Values(q) : j.call # p[k].value.call
  <2>1. DistinctCalls(q)
    BY <1>1, <1>2, <1>3, <1>5 DEF DistinctCalls
  <2>2. \A i \in 1 .. Len(q) : q[i].value.call # p[k].value.call
    BY <1>1, <1>2, <1>5 DEF DistinctCalls
  <2> QED BY <1>1, <2>1, <2>2 DEF Values
<1>6. ASSUME DistinctCalls(q), \A j \in Values(q) : j.call # p[k].value.call
      PROVE  DistinctCalls(p)
  <2>1. \A i \in 1 .. Len(q) : p[at(i)].value.call # p[k].value.call
    BY <1>1, <1>6 DEF Values
  <2>2. \A i, j \in 1 .. Len(q) : p[at(i)].value.call = p[at(j)].value.call => i = j
    BY <1>1, <1>6, SMTT(60) DEF DistinctCalls
  <2> QED BY <1>1, <1>4, <2>1, <2>2 DEF DistinctCalls
<1> QED BY <1>5, <1>6

LEMMA ExtendsKeyed ==
  ASSUME NEW S, NEW p \in Seq(Entries(S)), NEW q \in Seq(Entries(S)), NEW k, Extends(p, q, k)
  PROVE  /\ Keyed(p) => Keyed(q)
         /\ Keyed(q) /\ p[k].priority = QueueKey(p[k].value.Priority) => Keyed(p)
<1> DEFINE at(i) == IF i < k THEN i ELSE i + 1
<1>1. /\ Len(q) \in Nat /\ DOMAIN q = 1 .. Len(q) /\ DOMAIN p = 1 .. Len(q) + 1 /\ k \in 1 .. Len(q) + 1
      /\ \A i \in 1 .. Len(q) : p[at(i)] = q[i]
  BY QueueElements DEF Extends
<1>2. \A i \in 1 .. Len(q) : at(i) \in DOMAIN p
  BY <1>1
<1>4. ASSUME NEW t \in DOMAIN p, t # k PROVE \E i \in 1 .. Len(q) : at(i) = t
  <2>1. CASE t < k
    <3>1. t \in 1 .. Len(q) /\ at(t) = t
      BY <1>1, <2>1
    <3> QED BY <3>1
  <2>2. CASE t > k
    <3>1. t - 1 \in 1 .. Len(q) /\ ~ (t - 1 < k) /\ (t - 1) + 1 = t
      BY <1>1, <2>2
    <3> QED BY <3>1
  <2> QED BY <1>1, <1>4, <2>1, <2>2
<1> HIDE DEF at
<1>5. Keyed(p) => Keyed(q)
  BY <1>1, <1>2 DEF Keyed
<1>6. Keyed(q) /\ p[k].priority = QueueKey(p[k].value.Priority) => Keyed(p)
  <2> HAVE Keyed(q) /\ p[k].priority = QueueKey(p[k].value.Priority)
  <2>1. \A i \in 1 .. Len(q) : p[at(i)].priority = QueueKey(p[at(i)].value.Priority)
    BY <1>1 DEF Keyed
  <2>2. \A t \in DOMAIN p : t = k \/ \E i \in 1 .. Len(q) : at(i) = t
    BY <1>4
  <2> QED BY <2>1, <2>2 DEF Keyed
<1> QED BY <1>5, <1>6

-----------------------------------------------------------------------------
(* What each step does to the callers and the workers.                     *)

\* Only IncrementID makes a caller busy, and it begins a call.
LEMMA CallsStep ==
  ASSUME TypeInv, [Next]_vars, NEW c \in Callers
  PROVE  \/ calls'[c] = calls[c] /\ (pc'[c] \in Busy => pc[c] \in Busy)
         \/ calls'[c] = calls[c] + 1
<1> USE DEF Busy, Goto
<1>0. PCsTyped /\ calls \in [Callers -> Nat] /\ c # Closer /\ c \notin Workers
  BY DEF TypeInv, TypeOK, PCsTyped
<1>1. CASE \E r \in Requests : IncrementID(r[1], r[2], r[3])
  <2>1. PICK r \in Requests : IncrementID(r[1], r[2], r[3])
    BY <1>1
  <2> QED BY <1>0, <2>1 DEF IncrementID, PCsTyped, Threads
<1>2. ASSUME NEW d \in Callers, EnqueueStep(d)
      PROVE  calls'[c] = calls[c] /\ (pc'[c] \in Busy => pc[c] \in Busy)
  BY <1>0, <1>2 DEF EnqueueStep, ReadID, PushActive, InsertWork, CheckAbort, Post, PCsTyped, Threads
<1>3. ASSUME NEW w \in Workers, WorkerStep(w)
      PROVE  calls'[c] = calls[c] /\ (pc'[c] \in Busy => pc[c] \in Busy)
  BY <1>0, <1>3 DEF WorkerStep, TestAborted, TakeToken, AnswerWait, PeekEmpty, PeekJob, Run, Erase,
     PCsTyped, Threads
<1>4. CASE CloserStep
  BY <1>0, <1>4 DEF CloserStep, RaiseFlag, PostTokens, Join, PCsTyped, Threads
<1>5. CASE UNCHANGED vars
  BY <1>5 DEF vars
<1> QED BY <1>1, <1>2, <1>3, <1>4, <1>5 DEF Next

LEMMA BegunStays ==
  ASSUME TypeInv, [Next]_vars, NEW j \in Job, Begun(j)
  PROVE  Begun(j)'
<1> DEFINE c == j.call[1]
<1>1. c \in Callers /\ j.call[2] \in Nat /\ calls[c] \in Nat
  BY CallTyped DEF TypeInv, TypeOK
<1>2. \/ calls'[c] = calls[c] /\ (pc'[c] \in Busy => pc[c] \in Busy)
      \/ calls'[c] = calls[c] + 1
  BY <1>1, CallsStep
<1> QED BY <1>1, <1>2 DEF Begun

\* A step that leaves WorkQueue, what the workers hold and what has finished.
LEMMA WorkersStay ==
  ASSUME TypeInv, CallInv, [Next]_vars, Work' = Work, finished' = finished,
         \A w \in Workers : /\ pc'[w] = "run" <=> pc[w] = "run"
                            /\ pc'[w] = "erase" <=> pc[w] = "erase"
                            /\ pc[w] \in Holding => job'[w] = job[w]
  PROVE  HandedOver' /\ Apart' /\ InOrder' /\ Held' = Held
<1>1. Held' = Held
  BY DEF Held, Workers_at, Holding
<1>2. \A j \in Values(Work) \union Held \union finished : j \in Job
  BY QueueTyped, HeldTyped DEF TypeInv, TypeOK
<1>3. HandedOver'
  BY <1>1, <1>2, BegunStays DEF HandedOver, CallInv
<1>4. Apart'
  BY <1>1 DEF Apart, CallInv, Holding
<1>5. InOrder'
  BY DEF InOrder, CallInv
<1> QED BY <1>1, <1>3, <1>4, <1>5

\* What a caller's step does to its own place, and to nobody else's.
LEMMA CallerStep ==
  ASSUME TypeInv, NEW c \in Callers, NEW from, NEW to \in CallerPCs, Goto(c, from, to)
  PROVE  /\ pc[c] = from /\ pc'[c] = to
         /\ \A d \in Callers \ {c} : pc'[d] = pc[d]
         /\ \A w \in Workers : pc'[w] = pc[w]
<1>1. c \in Threads /\ c \notin Workers /\ c # Closer /\ PCsTyped
  BY DEF Threads, TypeInv, TypeOK, PCsTyped
<1>2. pc[c] = from /\ pc'[c] = to /\ \A u \in Threads \ {c} : pc'[u] = pc[u]
  BY <1>1, GotoTyped
<1> QED BY <1>1, <1>2 DEF Threads

LEMMA WorkerStepOf ==
  ASSUME TypeInv, NEW w \in Workers, NEW from, NEW to \in WorkerPCs, Goto(w, from, to)
  PROVE  /\ pc[w] = from /\ pc'[w] = to
         /\ \A v \in Workers \ {w} : pc'[v] = pc[v]
         /\ \A c \in Callers : pc'[c] = pc[c]
<1>1. w \in Threads /\ w \notin Callers /\ w # Closer /\ PCsTyped
  BY DEF Threads, TypeInv, TypeOK, PCsTyped
<1>2. pc[w] = from /\ pc'[w] = to /\ \A u \in Threads \ {w} : pc'[u] = pc[u]
  BY <1>1, GotoTyped
<1> QED BY <1>1, <1>2 DEF Threads

LEMMA CloserStepOf ==
  ASSUME TypeInv, CloserStep
  PROVE  /\ \A t \in Callers \union Workers : pc'[t] = pc[t]
         /\ UNCHANGED <<queue, nextID, job, calls, finished>>
<1>1. \A t \in Callers \union Workers : t \in Threads /\ t # Closer
  BY DEF Threads
<1>2. pc \in [Threads -> CallerPCs \union WorkerPCs \union CloserPCs]
  BY DEF TypeInv, TypeOK
<1> QED BY <1>1, <1>2 DEF CloserStep, RaiseFlag, PostTokens, Join, Goto

-----------------------------------------------------------------------------

LEMMA CallInit == Init => CallInv
<1> SUFFICES ASSUME Init PROVE CallInv
  OBVIOUS
<1>1. /\ \A c \in Callers : pc[c] = "idle"
      /\ \A w \in Workers : pc[w] = "loop"
      /\ Work = <<>> /\ finished = {}
  BY DEF Init, Threads, Queues, Work
<1>2. Held = {} /\ Values(Work) = {}
  BY <1>1 DEF Held, Workers_at, Holding, Values
<1>3. DOMAIN Work = {}
  BY <1>1
<1> QED BY <1>1, <1>2, <1>3
        DEF CallInv, CallersOwn, HandedOver, Apart, InOrder, Busy, Holding, DistinctCalls, Keyed, Sorted

\* InsertWork adds the caller's own job, which no one has yet.
LEMMA InsertCall ==
  ASSUME TypeInv, CallInv, NEW c \in Callers, InsertWork(c)
  PROVE  /\ CallInv'
         /\ job[c] \in Job /\ Values(Work)' = Values(Work) \union {job[c]} /\ Held' = Held
         /\ \A j \in Values(Work) \union Held \union finished : j.call # job[c].call
<1>n. [Next]_vars
  BY DEF Next, EnqueueStep
<1>1. /\ pc[c] = "insertWork" /\ pc'[c] = "checkAbort"
      /\ \A d \in Callers \ {c} : pc'[d] = pc[d]
      /\ \A w \in Workers : pc'[w] = pc[w]
  BY CallerStep DEF InsertWork, CallerPCs
<1>2. UNCHANGED <<job, calls, finished>>
  BY DEF InsertWork
<1>3. job[c] \in Job /\ QueueKey(job[c].Priority) \in Int
  BY <1>1, KeyIsInt DEF TypeInv, JobsHeld
<1> DEFINE v == job[c]
           prio == QueueKey(v.Priority)
<1>4. Work' = Push(Work, prio, v)
  BY DEF InsertWork, Work, TypeInv, TypeOK, Queues
<1>5. Work \in Seq(Entries(Job)) /\ Work' \in Seq(Entries(Job))
  <2>1. Work \in Seq(Entries(Job))
    BY QueueTyped DEF TypeInv
  <2> QED BY <1>3, <1>4, <2>1, PushProperties
<1> DEFINE k == LowerBound(Work, prio)
<1>6. Extends(Work', Work, k) /\ Work'[k] = Entry(prio, v) /\ (Sorted(Work) => Sorted(Work'))
  BY <1>3, <1>4, <1>5, PushExtends
<1>7. Work'[k].value = v /\ Work'[k].priority = prio
  BY <1>6 DEF Entry
<1>8. Values(Work') = Values(Work) \union {v}
  BY <1>5, <1>6, <1>7, ExtendsValues
<1> HIDE DEF k
<1>9. Held' = Held
  BY <1>1, <1>2 DEF Held, Workers_at
<1>10. v.call = <<c, calls[c]>> /\ calls[c] \in Nat
  BY <1>1 DEF CallInv, CallersOwn, Busy, TypeInv, TypeOK
<1>11. \A j \in Values(Work) \union Held \union finished : j \in Job
  BY QueueTyped, HeldTyped DEF TypeInv, TypeOK
<1>12. ASSUME NEW j \in Values(Work) \union Held \union finished PROVE j.call # v.call
  <2>1. Begun(j)
    BY DEF CallInv, HandedOver
  <2>2. j.call[1] = c => j.call[2] < calls[c]
    BY <1>1, <2>1 DEF Begun, Busy
  <2>3. j.call[2] \in Nat
    BY <1>11, CallTyped
  <2> QED BY <1>10, <2>2, <2>3
<1>13. CallersOwn'
  BY <1>1, <1>2 DEF CallInv, CallersOwn, Busy
<1>14. HandedOver'
  <2>1. \A j \in Values(Work) \union Held \union finished : Begun(j)'
    BY <1>n, <1>11, BegunStays DEF CallInv, HandedOver
  <2>2. Begun(v)'
    BY <1>1, <1>2, <1>10 DEF Begun, Busy
  <2> QED BY <1>2, <1>8, <1>9, <2>1, <2>2 DEF HandedOver
<1>15. Apart'
  <2>1. DistinctCalls(Work')
    BY <1>5, <1>6, <1>7, <1>12, ExtendsCalls DEF CallInv, Apart
  <2>2. \A j \in Values(Work') : \A h \in Held' \union finished' : j.call # h.call
    BY <1>2, <1>8, <1>9, <1>12 DEF CallInv, Apart
  <2> QED BY <1>1, <1>2, <2>1, <2>2 DEF CallInv, Apart, Holding
<1>16. InOrder'
  BY <1>5, <1>6, <1>7, ExtendsKeyed DEF CallInv, InOrder
<1> QED BY <1>3, <1>8, <1>9, <1>12, <1>13, <1>14, <1>15, <1>16 DEF CallInv

\* PeekJob takes the most urgent job, and no other entry is of its call.
LEMMA PeekCall ==
  ASSUME TypeInv, CallInv, NEW w \in Workers, PeekJob(w)
  PROVE  /\ CallInv'
         /\ job'[w] \in Values(Work) /\ pc'[w] = "run" /\ pc[w] = "peek"
         /\ \A v \in Workers \ {w} : pc'[v] = pc[v] /\ job'[v] = job[v]
         /\ Values(Work) = Values(Work)' \union {job'[w]}
         /\ \A j \in Values(Work)' : j.call # job'[w].call
         /\ \A j \in Values(Work) : QueueKey(job'[w].Priority) <= QueueKey(j.Priority)
<1>n. [Next]_vars
  BY DEF Next, WorkerStep
<1>1. /\ pc[w] = "peek" /\ pc'[w] = "run"
      /\ \A v \in Workers \ {w} : pc'[v] = pc[v]
      /\ \A c \in Callers : pc'[c] = pc[c]
  BY WorkerStepOf DEF PeekJob, WorkerPCs
<1>2. UNCHANGED <<calls, finished>> /\ Work # <<>>
  BY DEF PeekJob, Work
<1>3. Work' = Pop(Work)
  BY DEF PeekJob, Work, TypeInv, TypeOK, Queues
<1>4. /\ job'[w] = Head(Work).value
      /\ \A t \in (Callers \union Workers) \ {w} : job'[t] = job[t]
  BY DEF PeekJob, Work, TypeInv, TypeOK
<1>5. Work \in Seq(Entries(Job)) /\ Work' \in Seq(Entries(Job)) /\ Head(Work) = Work[1] /\ Len(Work) >= 1
      /\ Extends(Work, Work', 1)
  <2>1. Work \in Seq(Entries(Job))
    BY QueueTyped DEF TypeInv
  <2> QED BY <1>2, <1>3, <2>1, PopProperties, PopExtends
<1>6. 1 \in DOMAIN Work /\ DOMAIN Work = 1 .. Len(Work) /\ Len(Work) \in Nat
  BY <1>5, QueueElements
<1>7. job'[w] = Work[1].value /\ job'[w] \in Values(Work) /\ job'[w] \in Job
  BY <1>4, <1>5, <1>6, QueueElements DEF Values
<1>8. Values(Work) = Values(Work') \union {job'[w]}
  BY <1>5, <1>7, ExtendsValues
<1>9. DistinctCalls(Work') /\ \A j \in Values(Work') : j.call # job'[w].call
  BY <1>5, <1>7, ExtendsCalls DEF CallInv, Apart
<1>10. Keyed(Work') /\ Sorted(Work')
  BY <1>5, ExtendsKeyed, ExtendsSorted DEF CallInv, InOrder
<1>11. Held' = Held \union {job'[w]}
  <2>1. \A v \in Workers \ {w} : job'[v] = job[v]
    BY <1>4
  <2> QED BY <1>1, <2>1 DEF Held, Workers_at, Holding
<1>12. \A j \in Values(Work) \union Held \union finished : j \in Job /\ Begun(j)'
  <2>1. \A j \in Values(Work) \union Held \union finished : j \in Job
    BY QueueTyped, HeldTyped DEF TypeInv, TypeOK
  <2> QED BY <1>n, <2>1, BegunStays DEF CallInv, HandedOver
<1>13. CallersOwn'
  <2>1. \A c \in Callers : job'[c] = job[c]
    BY <1>4
  <2> QED BY <1>1, <1>2, <2>1 DEF CallInv, CallersOwn
<1>14. HandedOver'
  BY <1>2, <1>7, <1>8, <1>11, <1>12 DEF HandedOver
<1>15. Apart'
  <2>1. \A j \in Values(Work') : \A k \in Held' \union finished' : j.call # k.call
    BY <1>2, <1>8, <1>9, <1>11 DEF CallInv, Apart
  <2>2. ASSUME NEW u \in Workers, NEW v \in Workers, pc'[u] \in Holding, pc'[v] \in Holding,
               job'[u].call = job'[v].call
        PROVE  u = v
    <3>1. ASSUME NEW x \in Workers \ {w}, pc'[x] \in Holding PROVE job'[x].call # job'[w].call
      <4>1. job'[x] \in Held
        BY <1>1, <1>4, <3>1 DEF Held, Workers_at
      <4> QED BY <1>7, <4>1 DEF CallInv, Apart
    <3>2. CASE u # w /\ v # w
      <4>1. job'[u] = job[u] /\ job'[v] = job[v] /\ pc'[u] = pc[u] /\ pc'[v] = pc[v]
        BY <1>1, <1>4, <3>2
      <4> QED BY <2>2, <4>1 DEF CallInv, Apart
    <3> QED BY <2>2, <3>1, <3>2
  <2>3. \A v \in Workers : pc'[v] = "run" => \A j \in finished' : job'[v].call # j.call
    <3>1. \A j \in finished : job'[w].call # j.call
      BY <1>7 DEF CallInv, Apart
    <3> QED BY <1>1, <1>2, <1>4, <3>1 DEF CallInv, Apart
  <2>4. \A v \in Workers : pc'[v] = "erase" => job'[v] \in finished'
    BY <1>1, <1>2, <1>4 DEF CallInv, Apart
  <2> QED BY <1>9, <2>1, <2>2, <2>3, <2>4 DEF Apart
<1>16. ASSUME NEW j \in Values(Work) PROVE QueueKey(job'[w].Priority) <= QueueKey(j.Priority)
  <2>1. PICK i \in DOMAIN Work : j = Work[i].value
    BY DEF Values
  <2>2. /\ Work[1].priority = QueueKey(job'[w].Priority)
        /\ Work[i].priority = QueueKey(j.Priority)
    BY <1>6, <1>7, <2>1 DEF CallInv, InOrder, Keyed
  <2>3. i = 1 \/ Work[1].priority <= Work[i].priority
    BY <1>6 DEF CallInv, InOrder, Sorted
  <2>4. QueueKey(job'[w].Priority) \in Int
    BY <1>7, KeyIsInt
  <2> QED BY <2>2, <2>3, <2>4
<1>17. \A v \in Workers \ {w} : job'[v] = job[v]
  BY <1>4
<1> QED BY <1>1, <1>7, <1>8, <1>9, <1>10, <1>13, <1>14, <1>15, <1>16, <1>17 DEF CallInv, InOrder

\* Run finishes the job the worker holds.
LEMMA RunCall ==
  ASSUME TypeInv, CallInv, NEW w \in Workers, Run(w)
  PROVE  /\ CallInv' /\ Held' = Held /\ Work' = Work
         /\ pc[w] = "run" /\ pc'[w] = "erase" /\ job'[w] = job[w] /\ job[w] \in Job
         /\ \A v \in Workers \ {w} : pc'[v] = pc[v] /\ job'[v] = job[v]
         /\ finished' = finished \union {job[w]}
<1>n. [Next]_vars
  BY DEF Next, WorkerStep
<1>1. /\ pc[w] = "run" /\ pc'[w] = "erase"
      /\ \A v \in Workers \ {w} : pc'[v] = pc[v]
      /\ \A c \in Callers : pc'[c] = pc[c]
  BY WorkerStepOf DEF Run, WorkerPCs
<1>2. UNCHANGED <<queue, job, calls>> /\ finished' = finished \union {job[w]} /\ Work' = Work
  BY DEF Run, Work
<1>3. Held' = Held /\ job[w] \in Held /\ job[w] \in Job
  BY <1>1, <1>2, HeldTyped DEF Held, Workers_at, Holding
<1>4. \A j \in Values(Work) \union Held \union finished : j \in Job
  BY QueueTyped, HeldTyped DEF TypeInv, TypeOK
<1>5. CallersOwn'
  BY <1>1, <1>2 DEF CallInv, CallersOwn
<1>6. HandedOver'
  BY <1>n, <1>2, <1>3, <1>4, BegunStays DEF CallInv, HandedOver
<1>7. Apart'
  <2>1. DistinctCalls(Work') /\ \A j \in Values(Work') : \A k \in Held' \union finished' : j.call # k.call
    BY <1>2, <1>3 DEF CallInv, Apart
  <2>2. \A u, v \in Workers : pc'[u] \in Holding /\ pc'[v] \in Holding
                                => (job'[u].call = job'[v].call => u = v)
    BY <1>1, <1>2 DEF CallInv, Apart, Holding
  <2>3. \A v \in Workers : pc'[v] = "run" => \A j \in finished' : job'[v].call # j.call
    BY <1>1, <1>2 DEF CallInv, Apart, Holding
  <2>4. \A v \in Workers : pc'[v] = "erase" => job'[v] \in finished'
    BY <1>1, <1>2 DEF CallInv, Apart
  <2> QED BY <2>1, <2>2, <2>3, <2>4 DEF Apart
<1>8. InOrder'
  BY <1>2 DEF CallInv, InOrder
<1> QED BY <1>1, <1>2, <1>3, <1>5, <1>6, <1>7, <1>8 DEF CallInv

\* Erase lets go of the job the worker holds.
LEMMA EraseCall ==
  ASSUME TypeInv, CallInv, NEW w \in Workers, Erase(w)
  PROVE  /\ CallInv' /\ Held' = Held \ {job[w]} /\ Work' = Work
         /\ pc[w] = "erase" /\ pc'[w] = "loop" /\ job[w] \in Held \intersect finished
         /\ \A v \in Workers \ {w} : pc'[v] = pc[v] /\ job'[v] = job[v]
<1>n. [Next]_vars
  BY DEF Next, WorkerStep
<1>1. /\ pc[w] = "erase" /\ pc'[w] = "loop"
      /\ \A v \in Workers \ {w} : pc'[v] = pc[v]
      /\ \A c \in Callers : pc'[c] = pc[c]
  BY WorkerStepOf DEF Erase, WorkerPCs
<1>2. UNCHANGED <<calls, finished>> /\ Work' = Work
      /\ \A t \in (Callers \union Workers) \ {w} : job'[t] = job[t]
  BY DEF Erase, Work, TypeInv, TypeOK, Queues
<1>3. job[w] \in Held \intersect finished
  BY <1>1 DEF Held, Workers_at, Holding, CallInv, Apart
<1>4. \A v \in Workers \ {w} : pc'[v] = pc[v] /\ job'[v] = job[v]
  BY <1>1, <1>2
<1>5. Held' = Held \ {job[w]}
  <2>1. \A v \in Workers \ {w} : pc[v] \in Holding => job[v] # job[w]
    BY <1>1 DEF CallInv, Apart, Holding
  <2> QED BY <1>1, <1>4, <2>1 DEF Held, Workers_at, Holding
<1>6. \A j \in Values(Work) \union Held \union finished : j \in Job
  BY QueueTyped, HeldTyped DEF TypeInv, TypeOK
<1>7. CallersOwn'
  <2>1. \A c \in Callers : job'[c] = job[c]
    BY <1>2
  <2> QED BY <1>1, <1>2, <2>1 DEF CallInv, CallersOwn
<1>8. HandedOver'
  BY <1>n, <1>2, <1>5, <1>6, BegunStays DEF CallInv, HandedOver
<1>9. Apart'
  <2>1. DistinctCalls(Work') /\ \A j \in Values(Work') : \A k \in Held' \union finished' : j.call # k.call
    BY <1>2, <1>5 DEF CallInv, Apart
  <2>2. \A u, v \in Workers : pc'[u] \in Holding /\ pc'[v] \in Holding
                                => (job'[u].call = job'[v].call => u = v)
    BY <1>1, <1>4 DEF CallInv, Apart, Holding
  <2>3. \A v \in Workers : pc'[v] = "run" => \A j \in finished' : job'[v].call # j.call
    BY <1>1, <1>2, <1>4 DEF CallInv, Apart, Holding
  <2>4. \A v \in Workers : pc'[v] = "erase" => job'[v] \in finished'
    BY <1>1, <1>2, <1>4 DEF CallInv, Apart
  <2> QED BY <2>1, <2>2, <2>3, <2>4 DEF Apart
<1>10. InOrder'
  BY <1>2 DEF CallInv, InOrder
<1> QED BY <1>1, <1>2, <1>3, <1>4, <1>5, <1>7, <1>8, <1>9, <1>10 DEF CallInv

(***************************************************************************)
(* The steps that hand nothing over: all but InsertWork, PeekJob, Run and  *)
(* Erase.                                                                  *)
(***************************************************************************)
Quiet ==
  \/ \E r \in Requests : IncrementID(r[1], r[2], r[3])
  \/ \E c \in Callers : ReadID(c) \/ PushActive(c) \/ CheckAbort(c) \/ Post(c)
  \/ \E w \in Workers : TestAborted(w) \/ TakeToken(w) \/ AnswerWait(w) \/ PeekEmpty(w)
  \/ CloserStep
  \/ UNCHANGED vars

LEMMA QuietCall ==
  ASSUME TypeInv, CallInv, Quiet
  PROVE  /\ CallInv' /\ Held' = Held /\ Work' = Work /\ finished' = finished
         /\ \A w \in Workers : /\ pc'[w] = "run" <=> pc[w] = "run"
                               /\ pc'[w] = "erase" <=> pc[w] = "erase"
                               /\ pc[w] \in Holding => job'[w] = job[w]
<1>n. [Next]_vars
  BY DEF Quiet, Next, EnqueueStep, WorkerStep
<1> DEFINE Still == /\ Work' = Work /\ finished' = finished
                    /\ \A w \in Workers : /\ pc'[w] = "run" <=> pc[w] = "run"
                                          /\ pc'[w] = "erase" <=> pc[w] = "erase"
                                          /\ pc[w] \in Holding => job'[w] = job[w]
<1>0. /\ \A c \in Callers : c \notin Workers
      /\ job \in [Callers \union Workers -> Job \union {NoJob}]
      /\ queue \in [Queues -> Seq([priority : Int, value : Job])] /\ calls \in [Callers -> Nat]
  BY DEF TypeInv, TypeOK
<1>1. ASSUME NEW r \in Requests, IncrementID(r[1], r[2], r[3]) PROVE Still /\ CallersOwn'
  <2> DEFINE c == r[1]
  <2>1. c \in Callers
    OBVIOUS
  <2>2. /\ pc[c] = "idle" /\ pc'[c] = "readID"
        /\ \A d \in Callers \ {c} : pc'[d] = pc[d]
        /\ \A w \in Workers : pc'[w] = pc[w]
    BY <1>1, <2>1, CallerStep DEF IncrementID, CallerPCs
  <2>3. /\ \A t \in (Callers \union Workers) \ {c} : job'[t] = job[t]
        /\ job'[c].call = <<c, calls[c] + 1>> /\ calls'[c] = calls[c] + 1
        /\ \A d \in Callers \ {c} : calls'[d] = calls[d]
        /\ UNCHANGED <<queue, finished>>
    BY <1>0, <1>1, <2>1 DEF IncrementID
  <2>4. CallersOwn'
    BY <2>1, <2>2, <2>3 DEF CallInv, CallersOwn
  <2> QED BY <1>0, <2>1, <2>2, <2>3, <2>4 DEF Work
<1>2. ASSUME NEW c \in Callers, ReadID(c) \/ PushActive(c) \/ CheckAbort(c) \/ Post(c)
      PROVE  Still /\ CallersOwn'
  <2>1. /\ pc[c] \in CallerPCs /\ pc'[c] \in CallerPCs
        /\ pc'[c] \in Busy => pc[c] \in Busy
        /\ \A d \in Callers \ {c} : pc'[d] = pc[d]
        /\ \A w \in Workers : pc'[w] = pc[w]
    BY <1>2, CallerStep DEF ReadID, PushActive, CheckAbort, Post, CallerPCs, Busy
  <2>2. /\ \A t \in (Callers \union Workers) \ {c} : job'[t] = job[t]
        /\ UNCHANGED <<calls, finished>> /\ Work' = Work
    BY <1>0, <1>2 DEF ReadID, PushActive, CheckAbort, Post, Work, Queues
  <2>3. pc'[c] \in Busy => job'[c].call = job[c].call
    <3>1. CASE ReadID(c)
      <4>1. job'[c] = [job[c] EXCEPT !.JobID = nextID + 1] /\ job[c] \in Job
        BY <1>0, <3>1 DEF ReadID, TypeInv, JobsHeld, Goto
      <4>2. job'[c].call = job[c].call
        BY <4>1 DEF Job
      <4> QED BY <4>2
    <3>2. CASE PushActive(c)
      BY <3>2 DEF PushActive
    <3>3. CASE CheckAbort(c) \/ Post(c)
      <4>1. pc'[c] \in {"idle", "post"}
        BY <3>3, CallerStep DEF CheckAbort, Post, CallerPCs
      <4> QED BY <4>1 DEF Busy
    <3> QED BY <1>2, <3>1, <3>2, <3>3
  <2>4. CallersOwn'
    BY <2>1, <2>2, <2>3 DEF CallInv, CallersOwn
  <2> QED BY <1>0, <2>1, <2>2, <2>4
<1>3. ASSUME NEW w \in Workers, TestAborted(w) \/ TakeToken(w) \/ AnswerWait(w) \/ PeekEmpty(w)
      PROVE  Still /\ CallersOwn'
  <2>1. /\ pc[w] \notin Holding /\ pc'[w] \notin Holding
        /\ \A v \in Workers \ {w} : pc'[v] = pc[v]
        /\ \A c \in Callers : pc'[c] = pc[c]
    BY <1>3, WorkerStepOf DEF TestAborted, TakeToken, AnswerWait, PeekEmpty, WorkerPCs, Holding
  <2>2. UNCHANGED <<queue, job, calls, finished>>
    BY <1>3 DEF TestAborted, TakeToken, AnswerWait, PeekEmpty
  <2> QED BY <2>1, <2>2 DEF CallInv, CallersOwn, Work, Holding
<1>4. ASSUME CloserStep PROVE Still /\ CallersOwn'
  BY <1>4, CloserStepOf DEF CallInv, CallersOwn, Work
<1>5. ASSUME UNCHANGED vars PROVE Still /\ CallersOwn'
  BY <1>5 DEF vars, CallInv, CallersOwn, Work
<1>6. Still /\ CallersOwn'
  BY <1>1, <1>2, <1>3, <1>4, <1>5 DEF Quiet
<1> QED BY <1>n, <1>6, WorkersStay DEF CallInv

\* Every step is quiet or one of the four.
LEMMA StepKinds ==
  ASSUME [Next]_vars
  PROVE  \/ Quiet
         \/ \E c \in Callers : InsertWork(c)
         \/ \E w \in Workers : PeekJob(w) \/ Run(w) \/ Erase(w)
BY DEF Quiet, Next, EnqueueStep, WorkerStep

LEMMA CallStep == TypeInv /\ CallInv /\ [Next]_vars => CallInv'
BY StepKinds, QuietCall, InsertCall, PeekCall, RunCall, EraseCall

LEMMA CallInvariant == Spec => [](TypeInv /\ CallInv)
<1>1. Init => TypeInv /\ CallInv
  BY InitTypeInv, CallInit
<1>2. TypeInv /\ CallInv /\ [Next]_vars => TypeInv' /\ CallInv'
  BY StepTypeInv, CallStep
<1> QED BY <1>1, <1>2, PTL DEF Spec

-----------------------------------------------------------------------------
(* The pool the callers see.                                               *)

Waiting  == {PoolJob(j) : j \in Values(Work)}
Running  == {PoolJob(job[w]) : w \in Workers_at({"run"})}
Finished == {PoolJob(j) : j \in finished}

LEMMA PoolJobTyped ==
  /\ \A j \in Job : PoolJob(j) \in [call : Calls, key : {QueueKey(p) : p \in Priorities}]
  /\ \A j : PoolJob(j).call = j.call /\ PoolJob(j).key = QueueKey(j.Priority)
BY DEF PoolJob, Job

LEMMA PoolStays ==
  UNCHANGED <<Waiting, Running, Finished>> => [Pool!Next]_(Pool!poolVars)
BY DEF Pool!poolVars, Waiting, Running, Finished, Work

LEMMA PoolSubmit ==
  ASSUME TypeInv, CallInv, NEW c \in Callers, InsertWork(c)
  PROVE  [Pool!Next]_(Pool!poolVars)
<1> DEFINE p == PoolJob(job[c])
<1>1. /\ job[c] \in Job /\ Values(Work)' = Values(Work) \union {job[c]}
      /\ \A j \in Values(Work) \union Held \union finished : j.call # job[c].call
      /\ UNCHANGED <<job, finished>> /\ \A w \in Workers : pc'[w] = pc[w]
  BY InsertCall, CallerStep DEF InsertWork, CallerPCs
<1>2. Waiting' = Waiting \union {p}
  BY <1>1 DEF Waiting
<1>3. Running' = Running /\ Finished' = Finished
  BY <1>1 DEF Running, Finished, Workers_at
<1>4. p \notin Waiting \union Running \union Finished
  <2>1. \A w \in Workers : pc[w] = "run" => job[w] \in Held
    BY DEF Held, Workers_at, Holding
  <2>2. \A j \in Values(Work) \union Held \union finished : PoolJob(j) # p
    BY <1>1, PoolJobTyped
  <2> QED BY <2>1, <2>2 DEF Waiting, Running, Finished, Workers_at
<1>5. Pool!Submit(p)
  BY <1>2, <1>3, <1>4 DEF Pool!Submit, Waiting, Running, Finished, Work
<1>6. p \in [call : Calls, key : {QueueKey(prio) : prio \in Priorities}]
  BY <1>1, PoolJobTyped
<1> QED BY <1>5, <1>6 DEF Pool!Next

LEMMA PoolStart ==
  ASSUME TypeInv, CallInv, NEW w \in Workers, PeekJob(w)
  PROVE  [Pool!Next]_(Pool!poolVars)
<1> DEFINE p == PoolJob(job'[w])
<1>1. /\ job'[w] \in Values(Work) /\ pc'[w] = "run" /\ pc[w] = "peek"
      /\ \A v \in Workers \ {w} : pc'[v] = pc[v] /\ job'[v] = job[v]
      /\ Values(Work) = Values(Work)' \union {job'[w]}
      /\ \A j \in Values(Work)' : j.call # job'[w].call
      /\ \A j \in Values(Work) : QueueKey(job'[w].Priority) <= QueueKey(j.Priority)
      /\ finished' = finished
  BY PeekCall DEF PeekJob
<1>2. p \in Waiting /\ \A k \in Waiting : p.key <= k.key
  BY <1>1, PoolJobTyped DEF Waiting
<1>3. Waiting' = Waiting \ {p}
  <2>1. \A j \in Values(Work)' : PoolJob(j) # p
    BY <1>1, PoolJobTyped
  <2> QED BY <1>1, <2>1 DEF Waiting
<1>4. Running' = Running \union {p} /\ Finished' = Finished
  BY <1>1 DEF Running, Finished, Workers_at
<1>5. Pool!Start(p)
  BY <1>2, <1>3, <1>4 DEF Pool!Start, Waiting, Running, Finished, Work
<1>6. p \in [call : Calls, key : {QueueKey(prio) : prio \in Priorities}]
  BY <1>1, QueueTyped, PoolJobTyped DEF TypeInv
<1> QED BY <1>5, <1>6 DEF Pool!Next

LEMMA PoolFinish ==
  ASSUME TypeInv, CallInv, NEW w \in Workers, Run(w)
  PROVE  [Pool!Next]_(Pool!poolVars)
<1> DEFINE p == PoolJob(job[w])
<1>1. /\ Work' = Work /\ pc[w] = "run" /\ pc'[w] = "erase" /\ job[w] \in Job
      /\ \A v \in Workers \ {w} : pc'[v] = pc[v] /\ job'[v] = job[v]
      /\ finished' = finished \union {job[w]}
  BY RunCall
<1>2. p \in Running
  BY <1>1 DEF Running, Workers_at
<1>3. Running' = Running \ {p}
  <2>1. \A v \in Workers \ {w} : pc[v] = "run" => PoolJob(job[v]) # p
    BY <1>1, PoolJobTyped DEF CallInv, Apart, Holding
  <2> QED BY <1>1, <2>1 DEF Running, Workers_at
<1>4. Finished' = Finished \union {p} /\ Waiting' = Waiting
  BY <1>1 DEF Finished, Waiting
<1>5. Pool!Finish(p)
  BY <1>2, <1>3, <1>4 DEF Pool!Finish, Waiting, Running, Finished, Work
<1>6. p \in [call : Calls, key : {QueueKey(prio) : prio \in Priorities}]
  BY <1>1, PoolJobTyped
<1> QED BY <1>5, <1>6 DEF Pool!Next

\* Each step of the manager is a step of the pool, or none.
LEMMA PoolStep ==
  TypeInv /\ CallInv /\ [Next]_vars => [Pool!Next]_(Pool!poolVars)
<1> SUFFICES ASSUME TypeInv, CallInv, [Next]_vars PROVE [Pool!Next]_(Pool!poolVars)
  OBVIOUS
<1>1. CASE Quiet
  <2>1. /\ Work' = Work /\ finished' = finished
        /\ \A w \in Workers : /\ pc'[w] = "run" <=> pc[w] = "run"
                              /\ pc[w] \in Holding => job'[w] = job[w]
    BY <1>1, QuietCall
  <2>2. UNCHANGED <<Waiting, Running, Finished>>
    BY <2>1 DEF Waiting, Running, Finished, Workers_at, Holding
  <2> QED BY <2>2, PoolStays
<1>2. CASE \E c \in Callers : InsertWork(c)
  BY <1>2, PoolSubmit
<1>3. CASE \E w \in Workers : PeekJob(w) \/ Run(w)
  BY <1>3, PoolStart, PoolFinish
<1>4. CASE \E w \in Workers : Erase(w)
  <2>1. PICK w \in Workers : Erase(w)
    BY <1>4
  <2>2. /\ Work' = Work /\ pc[w] = "erase" /\ pc'[w] = "loop" /\ finished' = finished
        /\ \A v \in Workers \ {w} : pc'[v] = pc[v] /\ job'[v] = job[v]
    BY <2>1, EraseCall DEF Erase
  <2>3. UNCHANGED <<Waiting, Running, Finished>>
    BY <2>2 DEF Waiting, Running, Finished, Workers_at
  <2> QED BY <2>3, PoolStays
<1> QED BY <1>1, <1>2, <1>3, <1>4, StepKinds

\* However many callers, workers and jobs, and through shutdown, the threads,
\* queues and semaphores implement JobPool: each job is started at most once, by
\* one worker, never ahead of a more urgent one that waits.
THEOREM PoolImplemented == Spec => ImplementsPool
<1>1. Init => Pool!Init
  <2> SUFFICES ASSUME Init PROVE Pool!Init
    OBVIOUS
  <2>1. queue["work"] = <<>> /\ finished = {} /\ \A w \in Workers : pc[w] = "loop"
    BY DEF Init, Queues, Threads
  <2>2. Values(queue["work"]) = {} /\ Workers_at({"run"}) = {}
    BY <2>1 DEF Values, Workers_at
  <2> QED BY <2>1, <2>2 DEF Pool!Init
<1>2. TypeInv /\ CallInv /\ [Next]_vars => [Pool!Next]_(Pool!poolVars)
  BY PoolStep
<1> QED BY <1>1, <1>2, CallInvariant, PTL DEF Spec, ImplementsPool, Pool!Spec

-----------------------------------------------------------------------------
(* The jobs made and unfinished.                                           *)

Inserting == {job[c] : c \in Callers_at({"insertWork"})}
Pushing == {job[c] : c \in Callers_at({"pushActive"})}

LEMMA MadeIs ==
  /\ Unfinished = Inserting \union Values(Work) \union Held
  /\ Made = Unfinished \union finished \union Pushing
  /\ Unfinished' = Inserting' \union Values(Work)' \union Held'
  /\ Made' = Unfinished' \union finished' \union Pushing'
  /\ Work' = Work => Values(Work)' = Values(Work)
<1>1. Work' = Work => Values(Work)' = Values(Work)
  BY DEF Values
<1>2. /\ Unfinished = Inserting \union Values(Work) \union Held
      /\ Made = Unfinished \union finished \union Pushing
  BY DEF Unfinished, Made, Inserting, Pushing, Work, Held, Holding
<1>3. /\ Unfinished' = Inserting' \union Values(Work)' \union Held'
      /\ Made' = Unfinished' \union finished' \union Pushing'
  BY DEF Unfinished, Made, Inserting, Pushing, Work, Held, Holding
<1> QED BY <1>1, <1>2, <1>3

LEMMA MadeTyped ==
  ASSUME TypeInv
  PROVE  Made \subseteq Job /\ Unfinished \subseteq Made /\ nextID \in Nat
<1>1. Inserting \union Pushing \subseteq Job
  BY DEF TypeInv, JobsHeld, Inserting, Pushing, Callers_at
<1>2. Values(Work) \union Held \union finished \subseteq Job
  BY QueueTyped, HeldTyped DEF TypeInv, TypeOK
<1> QED BY <1>1, <1>2, MadeIs DEF TypeInv, TypeOK

\* The steps other than ReadID, PushActive and Erase: the jobs only change hands.
LEMMA HandsOnly ==
  ASSUME TypeInv, CallInv, [Next]_vars,
         \A c \in Callers : ~ ReadID(c) /\ ~ PushActive(c),
         \A w \in Workers : ~ Erase(w)
  PROVE  Unfinished' = Unfinished /\ Made' = Made /\ Active' = Active
<1>0. /\ \A c \in Callers : c \notin Workers
      /\ job \in [Callers \union Workers -> Job \union {NoJob}]
      /\ queue \in [Queues -> Seq([priority : Int, value : Job])]
  BY DEF TypeInv, TypeOK
<1>q. ASSUME \A c \in Callers : /\ pc'[c] = "insertWork" <=> pc[c] = "insertWork"
                                /\ pc'[c] = "pushActive" <=> pc[c] = "pushActive"
                                /\ pc[c] \in {"insertWork", "pushActive"} => job'[c] = job[c]
      PROVE  Inserting' = Inserting /\ Pushing' = Pushing
  BY <1>q DEF Inserting, Pushing, Callers_at
<1>1. CASE \E r \in Requests : IncrementID(r[1], r[2], r[3])
  <2>1. PICK r \in Requests : IncrementID(r[1], r[2], r[3])
    BY <1>1
  <2>2. r[1] \in Callers
    OBVIOUS
  <2>3. /\ pc[r[1]] = "idle" /\ pc'[r[1]] = "readID"
        /\ \A d \in Callers \ {r[1]} : pc'[d] = pc[d]
    BY <2>1, <2>2, CallerStep DEF IncrementID, CallerPCs
  <2>4. \A t \in (Callers \union Workers) \ {r[1]} : job'[t] = job[t]
    BY <1>0, <2>1 DEF IncrementID
  <2>5. Inserting' = Inserting /\ Pushing' = Pushing
    BY <1>q, <2>3, <2>4
  <2>6. Quiet /\ Active' = Active
    BY <2>1 DEF Quiet, IncrementID, Active
  <2> QED BY <2>5, <2>6, QuietCall, MadeIs
<1>2. CASE \E c \in Callers : CheckAbort(c) \/ Post(c)
  <2>1. PICK c \in Callers : CheckAbort(c) \/ Post(c)
    BY <1>2
  <2>2. /\ pc[c] \in {"checkAbort", "post"} /\ pc'[c] \in {"post", "idle"}
        /\ \A d \in Callers \ {c} : pc'[d] = pc[d]
    BY <2>1, CallerStep DEF CheckAbort, Post, CallerPCs
  <2>3. \A t \in (Callers \union Workers) \ {c} : job'[t] = job[t]
    BY <1>0, <2>1 DEF CheckAbort, Post
  <2>4. Inserting' = Inserting /\ Pushing' = Pushing
    BY <1>q, <2>2, <2>3
  <2>5. Quiet /\ Active' = Active
    BY <2>1 DEF Quiet, CheckAbort, Post, Active
  <2> QED BY <2>4, <2>5, QuietCall, MadeIs
<1>3. CASE \E c \in Callers : InsertWork(c)
  <2>1. PICK c \in Callers : InsertWork(c)
    BY <1>3
  <2>2. /\ pc[c] = "insertWork" /\ pc'[c] = "checkAbort"
        /\ \A d \in Callers \ {c} : pc'[d] = pc[d]
    BY <2>1, CallerStep DEF InsertWork, CallerPCs
  <2>3. UNCHANGED <<job, finished>> /\ Active' = Active
    BY <1>0, <2>1 DEF InsertWork, Active, Queues
  <2>4. Values(Work)' = Values(Work) \union {job[c]} /\ Held' = Held
    BY <2>1, InsertCall
  <2>5. Inserting \union {job[c]} = Inserting' \union {job[c]} /\ job[c] \in Inserting /\ Pushing' = Pushing
    BY <2>2, <2>3 DEF Inserting, Pushing, Callers_at
  <2> QED BY <2>3, <2>4, <2>5, MadeIs
<1>4. CASE \E w \in Workers : TestAborted(w) \/ TakeToken(w) \/ AnswerWait(w) \/ PeekEmpty(w)
  <2>1. PICK w \in Workers : TestAborted(w) \/ TakeToken(w) \/ AnswerWait(w) \/ PeekEmpty(w)
    BY <1>4
  <2>2. \A c \in Callers : pc'[c] = pc[c]
    BY <2>1, WorkerStepOf DEF TestAborted, TakeToken, AnswerWait, PeekEmpty, WorkerPCs
  <2>3. UNCHANGED <<queue, job>>
    BY <2>1 DEF TestAborted, TakeToken, AnswerWait, PeekEmpty
  <2>4. Inserting' = Inserting /\ Pushing' = Pushing /\ Quiet /\ Active' = Active
    BY <1>q, <1>4, <2>2, <2>3 DEF Quiet, Active
  <2> QED BY <2>4, QuietCall, MadeIs
<1>5. CASE \E w \in Workers : PeekJob(w)
  <2>1. PICK w \in Workers : PeekJob(w)
    BY <1>5
  <2>2. /\ \A c \in Callers : pc'[c] = pc[c]
        /\ \A t \in (Callers \union Workers) \ {w} : job'[t] = job[t]
        /\ finished' = finished /\ Active' = Active
    BY <1>0, <2>1, WorkerStepOf DEF PeekJob, WorkerPCs, Active, Queues
  <2>3. \A c \in Callers : job'[c] = job[c]
    BY <1>0, <2>2
  <2>4. Inserting' = Inserting /\ Pushing' = Pushing
    BY <1>q, <2>2, <2>3
  <2>5. /\ pc'[w] = "run" /\ pc[w] = "peek"
        /\ \A v \in Workers \ {w} : pc'[v] = pc[v] /\ job'[v] = job[v]
        /\ Values(Work) = Values(Work)' \union {job'[w]}
    BY <2>1, PeekCall
  <2>6. Held' = Held \union {job'[w]}
    BY <2>5 DEF Held, Workers_at, Holding
  <2> QED BY <2>2, <2>4, <2>5, <2>6, MadeIs
<1>6. CASE \E w \in Workers : Run(w)
  <2>1. PICK w \in Workers : Run(w)
    BY <1>6
  <2>2. (\A c \in Callers : pc'[c] = pc[c]) /\ UNCHANGED <<job, queue>>
    BY <2>1, WorkerStepOf DEF Run, WorkerPCs
  <2>3. Inserting' = Inserting /\ Pushing' = Pushing /\ Active' = Active
    BY <1>q, <2>2 DEF Active
  <2>4. /\ Held' = Held /\ Work' = Work /\ pc[w] = "run" /\ finished' = finished \union {job[w]}
    BY <2>1, RunCall
  <2>5. job[w] \in Held
    BY <2>4 DEF Held, Workers_at, Holding
  <2> QED BY <2>3, <2>4, <2>5, MadeIs
<1>7. CASE CloserStep
  <2>1. Inserting' = Inserting /\ Pushing' = Pushing /\ Quiet /\ Active' = Active
    BY <1>q, <1>7, CloserStepOf DEF Quiet, Active
  <2> QED BY <2>1, QuietCall, MadeIs
<1>8. CASE UNCHANGED vars
  BY <1>8 DEF vars, Unfinished, Made, Active, Callers_at, Workers_at
<1> QED BY <1>1, <1>2, <1>3, <1>4, <1>5, <1>6, <1>7, <1>8 DEF Next, EnqueueStep, WorkerStep

\* ReadID makes a job, with an ID above those of all the caller's others.
LEMMA ReadIDMakes ==
  ASSUME TypeInv, CallInv, NEW c \in Callers, ReadID(c)
  PROVE  /\ Unfinished' = Unfinished /\ Made' = Made \union {job'[c]} /\ Active' = Active
         /\ job'[c].JobID = nextID + 1 /\ job'[c].call[1] = c
         /\ pc[c] = "readID" /\ pc'[c] = "pushActive" /\ nextID' = nextID
<1>1. /\ pc[c] = "readID" /\ pc'[c] = "pushActive"
      /\ \A d \in Callers \ {c} : pc'[d] = pc[d]
  BY CallerStep DEF ReadID, CallerPCs
<1>2. /\ job \in [Callers \union Workers -> Job \union {NoJob}] /\ job[c] \in Job
      /\ UNCHANGED <<queue, nextID, finished>>
  BY <1>1 DEF ReadID, TypeInv, TypeOK, JobsHeld
<1>3. /\ job'[c] = [job[c] EXCEPT !.JobID = nextID + 1]
      /\ \A t \in (Callers \union Workers) \ {c} : job'[t] = job[t]
  BY <1>2 DEF ReadID
<1>4. job'[c].JobID = nextID + 1 /\ job'[c].call = job[c].call
  BY <1>2, <1>3 DEF Job
<1>5. job[c].call = <<c, calls[c]>>
  BY <1>1 DEF CallInv, CallersOwn, Busy
<1>6. Inserting' = Inserting /\ Pushing' = Pushing \union {job'[c]}
  BY <1>1, <1>3 DEF Inserting, Pushing, Callers_at
<1>7. Work' = Work /\ Held' = Held
  <2>1. Quiet
    BY DEF Quiet
  <2> QED BY <2>1, QuietCall
<1>8. Active' = Active
  BY <1>2 DEF Active
<1> QED BY <1>1, <1>2, <1>4, <1>5, <1>6, <1>7, <1>8, MadeIs

\* PushActive adds the caller's job to those that are unfinished.
LEMMA PushActiveAdds ==
  ASSUME TypeInv, CallInv, NEW c \in Callers, PushActive(c)
  PROVE  /\ Unfinished' = Unfinished \union {job[c]} /\ job[c] \notin Unfinished /\ Made' = Made
         /\ job[c] \in Job /\ Active' = Push(Active, QueueKey(job[c].Priority), job[c])
<1>1. /\ pc[c] = "pushActive" /\ pc'[c] = "insertWork"
      /\ \A d \in Callers \ {c} : pc'[d] = pc[d]
  BY CallerStep DEF PushActive, CallerPCs
<1>2. job[c] \in Job /\ UNCHANGED <<job, finished>>
  BY <1>1 DEF PushActive, TypeInv, JobsHeld
<1>3. Active' = Push(Active, QueueKey(job[c].Priority), job[c])
  BY DEF PushActive, Active, TypeInv, TypeOK, Queues
<1>4. Inserting' = Inserting \union {job[c]} /\ Pushing = Pushing' \union {job[c]}
  BY <1>1, <1>2 DEF Inserting, Pushing, Callers_at
<1>5. Work' = Work /\ Held' = Held
  <2>1. Quiet
    BY DEF Quiet
  <2> QED BY <2>1, QuietCall
<1>6. job[c].call = <<c, calls[c]>> /\ calls[c] \in Nat
  BY <1>1 DEF CallInv, CallersOwn, Busy, TypeInv, TypeOK
<1>7. job[c] \notin Values(Work) \union Held
  <2>1. ASSUME job[c] \in Values(Work) \union Held PROVE FALSE
    <3>1. Begun(job[c])
      BY <2>1 DEF CallInv, HandedOver
    <3> QED BY <1>1, <1>6, <3>1 DEF Begun, Busy
  <2> QED BY <2>1
<1>8. job[c] \notin Inserting
  <2>1. \A d \in Callers : pc[d] = "insertWork" => d # c /\ job[d].call = <<d, calls[d]>>
    BY <1>1 DEF CallInv, CallersOwn, Busy
  <2>2. \A d \in Callers : pc[d] = "insertWork" => job[d].call[1] # job[c].call[1]
    BY <1>6, <2>1
  <2> QED BY <2>2 DEF Inserting, Callers_at
<1> QED BY <1>2, <1>3, <1>4, <1>5, <1>7, <1>8, MadeIs

\* Erase ends the worker's job, and removes some entry with its ID.
LEMMA EraseEnds ==
  ASSUME TypeInv, CallInv, NEW w \in Workers, Erase(w)
  PROVE  /\ Unfinished' = Unfinished \ {job[w]} /\ job[w] \in Unfinished /\ Made' = Made
         /\ job[w] \in Job /\ Active' = EraseFirst(Active, Matches(Active, job[w].JobID))
<1>1. /\ Held' = Held \ {job[w]} /\ Work' = Work /\ pc[w] = "erase"
      /\ job[w] \in Held \intersect finished
  BY EraseCall
<1>2. /\ \A c \in Callers : pc'[c] = pc[c]
      /\ \A c \in Callers : job'[c] = job[c]
      /\ finished' = finished
      /\ Active' = EraseFirst(Active, Matches(Active, job[w].JobID))
  <2>1. \A c \in Callers : pc'[c] = pc[c]
    BY WorkerStepOf DEF Erase, WorkerPCs
  <2>2. \A c \in Callers : c # w /\ c \in Callers \union Workers
    OBVIOUS
  <2>3. \A t \in (Callers \union Workers) \ {w} : job'[t] = job[t]
    BY DEF Erase, TypeInv, TypeOK
  <2>4. Active' = EraseFirst(Active, Matches(Active, job[w].JobID))
    BY DEF Erase, Active, TypeInv, TypeOK, Queues
  <2> QED BY <2>1, <2>2, <2>3, <2>4 DEF Erase
<1>3. Inserting' = Inserting /\ Pushing' = Pushing
  BY <1>2 DEF Inserting, Pushing, Callers_at
<1>4. job[w] \notin Values(Work)
  BY <1>1 DEF CallInv, Apart
<1>5. job[w] \notin Inserting
  <2>1. Begun(job[w]) /\ job[w] \in Job
    BY <1>1, HeldTyped DEF CallInv, HandedOver
  <2>2. ASSUME NEW c \in Callers, pc[c] = "insertWork" PROVE job[c].call # job[w].call
    <3>1. job[c].call = <<c, calls[c]>> /\ calls[c] \in Nat
      BY <2>2 DEF CallInv, CallersOwn, Busy, TypeInv, TypeOK
    <3> QED BY <2>1, <2>2, <3>1 DEF Begun, Busy
  <2> QED BY <2>2 DEF Inserting, Callers_at
<1>6. job[w] \in Job
  BY <1>1, HeldTyped
<1> QED BY <1>1, <1>2, <1>3, <1>4, <1>5, <1>6, MadeIs

-----------------------------------------------------------------------------
(* The IDs one caller gets.                                                *)

\* The IDs given so far are not above the next, and below it where the caller
\* has incremented the counter and not read it.
IDsBounded ==
  \A j \in Made : /\ j.JobID <= nextID + 1
                  /\ pc[j.call[1]] = "readID" => j.JobID <= nextID

IDInv == IDsBounded /\ IDsDistinctPerCaller

\* The counter only grows, and does where a caller begins a call.
LEMMA CounterStep ==
  ASSUME TypeInv, [Next]_vars, NEW c \in Callers
  PROVE  \/ nextID' = nextID /\ (pc'[c] = "readID" => pc[c] = "readID")
         \/ nextID' = nextID + 1
<1>0. PCsTyped /\ c # Closer /\ c \notin Workers
  BY DEF TypeInv, TypeOK, PCsTyped
<1>1. CASE \E r \in Requests : IncrementID(r[1], r[2], r[3])
  BY <1>1 DEF IncrementID
<1>2. ASSUME NEW d \in Callers, EnqueueStep(d)
      PROVE  nextID' = nextID /\ (pc'[c] = "readID" => pc[c] = "readID")
  BY <1>0, <1>2 DEF Goto, EnqueueStep, ReadID, PushActive, InsertWork, CheckAbort, Post, PCsTyped, Threads
<1>3. ASSUME NEW w \in Workers, WorkerStep(w)
      PROVE  nextID' = nextID /\ (pc'[c] = "readID" => pc[c] = "readID")
  BY <1>0, <1>3 DEF Goto, WorkerStep, TestAborted, TakeToken, AnswerWait, PeekEmpty, PeekJob, Run, Erase,
     PCsTyped, Threads
<1>4. CASE CloserStep
  BY <1>4, CloserStepOf
<1>5. CASE UNCHANGED vars
  BY <1>5 DEF vars
<1> QED BY <1>1, <1>2, <1>3, <1>4, <1>5 DEF Next

LEMMA IDStep ==
  TypeInv /\ CallInv /\ IDInv /\ [Next]_vars => IDInv'
<1> SUFFICES ASSUME TypeInv, CallInv, IDInv, [Next]_vars PROVE IDInv'
  OBVIOUS
<1>0. /\ nextID \in Nat
      /\ \A j \in Made : j.JobID \in Nat /\ j.call[1] \in Callers
  BY MadeTyped, CallTyped
<1>1. ASSUME Made' = Made PROVE IDInv'
  <2>1. ASSUME NEW j \in Made
        PROVE  j.JobID <= nextID' + 1 /\ (pc'[j.call[1]] = "readID" => j.JobID <= nextID')
    <3>1. /\ j.JobID <= nextID + 1
          /\ pc[j.call[1]] = "readID" => j.JobID <= nextID
          /\ j.JobID \in Nat /\ j.call[1] \in Callers
      BY <1>0 DEF IDInv, IDsBounded
    <3> QED BY <1>0, <3>1, CounterStep
  <2>2. IDsBounded'
    BY <1>1, <2>1 DEF IDsBounded
  <2>3. IDsDistinctPerCaller'
    BY <1>1 DEF IDInv, IDsDistinctPerCaller
  <2> QED BY <2>2, <2>3 DEF IDInv
<1>2. ASSUME NEW c \in Callers, ReadID(c) PROVE IDInv'
  <2>1. /\ Made' = Made \union {job'[c]}
        /\ job'[c].JobID = nextID + 1 /\ job'[c].call[1] = c
        /\ pc[c] = "readID" /\ pc'[c] = "pushActive" /\ nextID' = nextID
    BY <1>2, ReadIDMakes
  <2>2. \A j \in Made : j.call[1] = c => j.JobID # job'[c].JobID
    BY <1>0, <2>1 DEF IDInv, IDsBounded
  <2>3. IDsBounded'
    <3>1. ASSUME NEW j \in Made
          PROVE  j.JobID <= nextID' + 1 /\ (pc'[j.call[1]] = "readID" => j.JobID <= nextID')
      <4>1. pc'[j.call[1]] = "readID" => pc[j.call[1]] = "readID"
        BY <1>0, <2>1, CounterStep
      <4> QED BY <2>1, <4>1 DEF IDInv, IDsBounded
    <3>2. job'[c].JobID <= nextID' + 1 /\ pc'[job'[c].call[1]] # "readID"
      BY <1>0, <2>1
    <3> QED BY <2>1, <3>1, <3>2 DEF IDsBounded
  <2>4. IDsDistinctPerCaller'
    BY <2>1, <2>2 DEF IDInv, IDsDistinctPerCaller
  <2> QED BY <2>3, <2>4 DEF IDInv
<1>3. ASSUME NEW c \in Callers, PushActive(c) PROVE IDInv'
  BY <1>1, <1>3, PushActiveAdds
<1>4. ASSUME NEW w \in Workers, Erase(w) PROVE IDInv'
  BY <1>1, <1>4, EraseEnds
<1> QED BY <1>1, <1>2, <1>3, <1>4, HandsOnly

\* The two reads of NextUniqueJobID never give one caller the same ID twice,
\* however the other callers' increments fall between them.
THEOREM CallerIDsDistinct == Spec => []IDsDistinctPerCaller
<1>1. Init => IDInv
  <2> SUFFICES ASSUME Init PROVE IDInv
    OBVIOUS
  <2>1. /\ \A c \in Callers : pc[c] = "idle"
        /\ \A w \in Workers : pc[w] = "loop"
        /\ queue["work"] = <<>> /\ finished = {}
    BY DEF Init, Threads, Queues
  <2>2. Made = {}
    BY <2>1 DEF Made, Unfinished, Values, Callers_at, Workers_at
  <2> QED BY <2>2 DEF IDInv, IDsBounded, IDsDistinctPerCaller
<1>2. IDInv => IDsDistinctPerCaller
  BY DEF IDInv
<1> QED BY <1>1, <1>2, IDStep, CallInvariant, PTL DEF Spec

-----------------------------------------------------------------------------
(* The entries of ActiveQueue.                                             *)

\* The jobs that have ID id, wherever they are; those of them in U.
WithID(id) == {j \in Job : j.JobID = id}
UnfinishedWith(id) == {j \in Unfinished : j.JobID = id}

CountInv ==
  /\ IsFiniteSet(Unfinished)
  /\ \A id \in Nat : Cardinality(Matches(Active, id)) = Cardinality(UnfinishedWith(id))
  /\ IDsDistinct => Values(Active) = Unfinished

LEMMA MatchesArePlaces ==
  ASSUME NEW q \in Seq(Entries(Job)), NEW id \in Nat
  PROVE  Matches(q, id) = Places(q, WithID(id))
<1>1. \A i \in DOMAIN q : q[i].value \in Job
  BY QueueElements
<1> QED BY <1>1 DEF Matches, Places, WithID

LEMMA CountPush ==
  ASSUME TypeInv, CallInv, CountInv, NEW c \in Callers, PushActive(c)
  PROVE  CountInv'
<1>1. /\ Unfinished' = Unfinished \union {job[c]} /\ job[c] \notin Unfinished /\ Made' = Made
      /\ job[c] \in Job /\ Active' = Push(Active, QueueKey(job[c].Priority), job[c])
  BY PushActiveAdds
<1> DEFINE prio == QueueKey(job[c].Priority)
           k == LowerBound(Active, prio)
<1>2. prio \in Int /\ Active \in Seq(Entries(Job))
  BY <1>1, KeyIsInt, QueueTyped DEF TypeInv
<1>3. Active' \in Seq(Entries(Job)) /\ Extends(Active', Active, k) /\ Active'[k].value = job[c]
  <2>1. Push(Active, prio, job[c]) \in Seq(Entries(Job))
    BY <1>1, <1>2, PushProperties
  <2>2. /\ Extends(Push(Active, prio, job[c]), Active, k)
        /\ Push(Active, prio, job[c])[k] = Entry(prio, job[c])
    BY <1>1, <1>2, PushExtends
  <2> QED BY <1>1, <2>1, <2>2 DEF Entry
<1> HIDE DEF k, prio
<1>4. IsFiniteSet(Unfinished')
  BY <1>1, FS_AddElement DEF CountInv
<1>5. ASSUME NEW id \in Nat
      PROVE  Cardinality(Matches(Active', id)) = Cardinality(UnfinishedWith(id)')
  <2> DEFINE old == UnfinishedWith(id)
  <2>1. /\ Cardinality(Matches(Active', id))
             = Cardinality(Matches(Active, id)) + (IF job[c].JobID = id THEN 1 ELSE 0)
        /\ Cardinality(Matches(Active, id)) = Cardinality(old) /\ Cardinality(old) \in Nat
    <3>1. job[c] \in WithID(id) <=> job[c].JobID = id
      BY <1>1 DEF WithID
    <3>2. /\ Cardinality(Places(Active', WithID(id)))
               = Cardinality(Places(Active, WithID(id))) + (IF job[c].JobID = id THEN 1 ELSE 0)
          /\ Cardinality(Places(Active, WithID(id))) \in Nat
      BY <1>2, <1>3, <3>1, ExtendsPlaces
    <3> QED BY <1>2, <1>3, <3>2, MatchesArePlaces DEF CountInv
  <2>2. IsFiniteSet(old)
    <3>1. old \subseteq Unfinished
      BY DEF UnfinishedWith
    <3> QED BY <3>1, FS_Subset DEF CountInv
  <2>3. UnfinishedWith(id)' = IF job[c].JobID = id THEN old \union {job[c]} ELSE old
    BY <1>1 DEF UnfinishedWith
  <2>4. job[c] \notin old
    BY <1>1 DEF UnfinishedWith
  <2> HIDE DEF old
  <2>5. Cardinality(old \union {job[c]}) = Cardinality(old) + 1
    BY <2>2, <2>4, FS_AddElement
  <2> QED BY <2>1, <2>3, <2>5
<1>6. IDsDistinct' => Values(Active)' = Unfinished'
  <2>1. IDsDistinct' => IDsDistinct
    BY <1>1 DEF IDsDistinct
  <2>2. Values(Active') = Values(Active) \union {job[c]}
    BY <1>2, <1>3, ExtendsValues
  <2> QED BY <1>1, <2>1, <2>2 DEF CountInv
<1> QED BY <1>4, <1>5, <1>6 DEF CountInv

\* The worker finds an entry with its job's ID.  It is the job's own when the
\* IDs are distinct, and in any case there is one fewer with that ID.
LEMMA CountErase ==
  ASSUME TypeInv, CallInv, CountInv, NEW w \in Workers, Erase(w)
  PROVE  CountInv'
<1> DEFINE mine == job[w].JobID
           hits == Matches(Active, mine)
<1>1. /\ Unfinished' = Unfinished \ {job[w]} /\ job[w] \in Unfinished /\ Made' = Made
      /\ job[w] \in Job /\ Active' = EraseFirst(Active, hits)
  BY EraseEnds
<1>2. mine \in Nat /\ Active \in Seq(Entries(Job))
  BY <1>1, CallTyped, QueueTyped DEF TypeInv
<1>3. \A id \in Nat : UnfinishedWith(id) \subseteq Unfinished /\ IsFiniteSet(UnfinishedWith(id))
  <2>1. \A id \in Nat : UnfinishedWith(id) \subseteq Unfinished
    BY DEF UnfinishedWith
  <2> QED BY <2>1, FS_Subset DEF CountInv
<1>4. hits # {}
  <2>1. UnfinishedWith(mine) # {}
    BY <1>1 DEF UnfinishedWith
  <2>2. Cardinality(UnfinishedWith(mine)) # 0
    BY <1>2, <1>3, <2>1, FS_EmptySet
  <2>3. Cardinality(hits) # 0
    BY <1>2, <2>2 DEF CountInv
  <2> QED BY <2>3, FS_EmptySet
<1>5. hits \subseteq DOMAIN Active
  BY DEF Matches
<1> HIDE DEF hits
<1>6. PICK k \in hits : Extends(Active, Active', k)
  BY <1>1, <1>2, <1>4, <1>5, EraseFirstExtends
<1>7. Active' \in Seq(Entries(Job))
  BY <1>1, <1>2, <1>4, <1>5, EraseFirstExtends
<1>8. Active[k].value.JobID = mine /\ Active[k].value \in Job /\ Active[k].value \in Values(Active)
  <2>1. k \in DOMAIN Active /\ Active[k].value.JobID = mine
    BY <1>6 DEF hits, Matches
  <2> QED BY <1>2, <2>1, QueueElements DEF Values
<1>9. IsFiniteSet(Unfinished')
  BY <1>1, FS_RemoveElement DEF CountInv
<1>10. ASSUME NEW id \in Nat
       PROVE  /\ Cardinality(Matches(Active', id)) = Cardinality(UnfinishedWith(id)')
              /\ Cardinality(Matches(Active', id)) \in Nat
  <2> DEFINE old == UnfinishedWith(id)
  <2>1. /\ Cardinality(Matches(Active, id))
             = Cardinality(Matches(Active', id)) + (IF mine = id THEN 1 ELSE 0)
        /\ Cardinality(Matches(Active, id)) = Cardinality(old)
        /\ Cardinality(Matches(Active', id)) \in Nat
    <3>1. Active[k].value \in WithID(id) <=> mine = id
      BY <1>8 DEF WithID
    <3> QED BY <1>2, <1>6, <1>7, <3>1, ExtendsPlaces, MatchesArePlaces DEF CountInv
  <2>2. UnfinishedWith(id)' = IF mine = id THEN old \ {job[w]} ELSE old
    BY <1>1 DEF UnfinishedWith
  <2>3. mine = id => job[w] \in old
    BY <1>1 DEF UnfinishedWith
  <2>4. IsFiniteSet(old)
    BY <1>3
  <2> HIDE DEF old, mine
  <2>5. mine = id => Cardinality(old \ {job[w]}) = Cardinality(old) - 1
    BY <2>3, <2>4, FS_RemoveElement
  <2>6. Cardinality(old) \in Nat
    BY <2>4, FS_CardinalityType
  <2> QED BY <2>1, <2>2, <2>5, <2>6
<1>11. IDsDistinct' => Values(Active)' = Unfinished'
  <2> SUFFICES ASSUME IDsDistinct PROVE Values(Active') = Unfinished'
    BY <1>1 DEF IDsDistinct
  <2>1. Values(Active) = Unfinished /\ Unfinished \subseteq Made
    BY MadeTyped DEF CountInv
  <2>2. \A j \in Unfinished : j.JobID = mine => j = job[w]
    BY <1>1, <2>1 DEF IDsDistinct
  <2>3. Values(Active) = Values(Active') \union {job[w]}
    BY <1>2, <1>6, <1>7, <1>8, <2>1, <2>2, ExtendsValues
  <2>4. job[w] \notin Values(Active')
    <3>0. PICK id \in Nat : id = mine
      BY <1>2
    <3>1. UnfinishedWith(id)' = {}
      BY <1>1, <2>2, <3>0 DEF UnfinishedWith
    <3>2. Cardinality(Matches(Active', id)) = 0
      <4>1. Cardinality({}) = 0
        BY FS_EmptySet
      <4>2. Cardinality(Matches(Active', id)) = Cardinality(UnfinishedWith(id)')
        BY <1>10
      <4> QED BY <3>1, <4>1, <4>2
    <3>3. Matches(Active', id) \subseteq DOMAIN Active' /\ IsFiniteSet(DOMAIN Active')
      <4>1. DOMAIN Active' = 1 .. Len(Active') /\ Len(Active') \in Nat
        BY <1>7, QueueElements
      <4>2. 1 \in Int /\ Len(Active') \in Int
        BY <4>1
      <4>3. IsFiniteSet(1 .. Len(Active'))
        BY <4>2, FS_Interval, Zenon
      <4> QED BY <4>1, <4>3 DEF Matches
    <3>4. Matches(Active', id) = {}
      BY <3>2, <3>3, FS_Subset, FS_EmptySet
    <3> QED BY <3>0, <3>4 DEF Matches, Values
  <2> QED BY <1>1, <2>1, <2>3, <2>4
<1> QED BY <1>9, <1>10, <1>11 DEF CountInv

LEMMA CountStep ==
  TypeInv /\ CallInv /\ CountInv /\ [Next]_vars => CountInv'
<1> SUFFICES ASSUME TypeInv, CallInv, CountInv, [Next]_vars PROVE CountInv'
  OBVIOUS
<1>1. ASSUME Unfinished' = Unfinished, Made \subseteq Made', Active' = Active PROVE CountInv'
  <2>1. IDsDistinct' => IDsDistinct
    BY <1>1 DEF IDsDistinct
  <2>2. \A id \in Nat : /\ UnfinishedWith(id)' = UnfinishedWith(id)
                        /\ Matches(Active, id)' = Matches(Active, id)
    BY <1>1 DEF UnfinishedWith, Matches
  <2>3. Values(Active)' = Values(Active)
    BY <1>1 DEF Values
  <2> QED BY <1>1, <2>1, <2>2, <2>3 DEF CountInv
<1>2. ASSUME NEW c \in Callers, ReadID(c) PROVE CountInv'
  BY <1>1, <1>2, ReadIDMakes
<1> QED BY <1>1, <1>2, HandsOnly, CountPush, CountErase

\* CountJobsWithJobID counts the unfinished jobs with the ID, although two
\* calls may share it and a worker erases whichever entry comes first; and
\* while no two calls do, the entries are the unfinished jobs themselves.
THEOREM CountsExact == Spec => []CountsAreExact
<1>1. Init => CountInv
  <2> SUFFICES ASSUME Init PROVE CountInv
    OBVIOUS
  <2>1. /\ \A c \in Callers : pc[c] = "idle"
        /\ \A w \in Workers : pc[w] = "loop"
        /\ queue["work"] = <<>> /\ Active = <<>> /\ finished = {}
    BY DEF Init, Threads, Queues, Active
  <2>2. Unfinished = {} /\ Values(Active) = {}
    BY <2>1 DEF Unfinished, Values, Callers_at, Workers_at
  <2>3. \A id \in Nat : Matches(Active, id) = {} /\ UnfinishedWith(id) = {}
    BY <2>1, <2>2 DEF Matches, UnfinishedWith
  <2> QED BY <2>2, <2>3, FS_EmptySet DEF CountInv
<1>2. TypeInv /\ CountInv => CountsAreExact
  <2> SUFFICES ASSUME TypeInv, CountInv PROVE CountsAreExact
    OBVIOUS
  <2>1. \A j \in Made : j.JobID \in Nat
    BY MadeTyped, CallTyped
  <2> QED BY <2>1 DEF CountInv, CountsAreExact, Active, UnfinishedWith
<1> QED BY <1>1, <1>2, CountStep, CallInvariant, PTL DEF Spec

=============================================================================
