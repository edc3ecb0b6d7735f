--------------------------- MODULE Signaling_proof ---------------------------
(***************************************************************************)
(* Proofs about Signaling, for any consoles and strangers: what the loops  *)
(* over QueuedPackets leave of a queue, the types, and the safety          *)
(* properties of the handshake.                                            *)
(***************************************************************************)
EXTENDS Signaling, FiniteSetTheorems, SequenceTheorems, WellFoundedInduction, TLAPS

USE PeersAssumption, BoundsAssumption

-----------------------------------------------------------------------------
(* Loops.                                                                  *)

Less == {ss \in Nat \X Nat : ss[1] < ss[2]}

\* A set of naturals that is not empty has a least element.
LEMMA LeastNatural ==
  ASSUME NEW T \in SUBSET Nat, T # {}
  PROVE  \E x \in T : \A y \in T : x <= y
<1>1. IsWellFoundedOn(Less, Nat)
  BY ONLY NatLessThanWellFounded DEF OpToRel, Less
<1>2. PICK x \in T : \A y \in T : ~ (<<y, x>> \in Less)
  BY <1>1, WFMin
<1>3. ASSUME NEW y \in T PROVE x <= y
  <2>1. x \in Nat /\ y \in Nat
    OBVIOUS
  <2>2. y < x => <<y, x>> \in Less
    BY <2>1 DEF Less
  <2> QED BY <1>2, <2>1, <2>2
<1> QED BY <1>3

\* What holds before a loop and is kept by each of its turns holds after them.
LEMMA AfterTurns ==
  ASSUME NEW n \in Nat, NEW P, 0 \in P, \A k \in 1 .. n : k - 1 \in P => k \in P
  PROVE  \A k \in 0 .. n : k \in P
<1> DEFINE T == (0 .. n) \ P
<1> SUFFICES ASSUME T # {} PROVE FALSE
  OBVIOUS
<1>1. PICK k \in T : \A m \in T : k <= m
  <2>1. T \in SUBSET Nat
    OBVIOUS
  <2> HIDE DEF T
  <2> QED BY <2>1, LeastNatural
<1>2. k \in 1 .. n /\ k - 1 \in 0 .. n
  BY <1>1
<1>3. k - 1 \notin T
  BY <1>1, <1>2
<1> QED BY <1>1, <1>2, <1>3

\* What a loop of n turns makes of b, when turn k is F[k].
Loops(f, n, b, F) == f[0] = b /\ \A k \in 1 .. n : f[k] = F[k][f[k - 1]]

LEMMA LoopExists ==
  ASSUME NEW n \in Nat, NEW D, NEW b \in D, NEW F,
         \A k \in 1 .. n : \A d \in D : F[k][d] \in D
  PROVE  \E f \in [0 .. n -> D] : Loops(f, n, b, F)
<1> DEFINE Upto(m) == {f \in [0 .. m -> D] :
                         f[0] = b /\ \A k \in 1 .. m : f[k] = F[k][f[k - 1]]}
           P == {m \in 0 .. n : Upto(m) # {}}
<1>1. 0 \in P
  <2>1. [k \in 0 .. 0 |-> b] \in Upto(0)
    OBVIOUS
  <2> QED BY <2>1
<1>2. ASSUME NEW k \in 1 .. n, k - 1 \in P PROVE k \in P
  <2>1. PICK f \in Upto(k - 1) : TRUE
    BY <1>2
  <2>2. /\ f \in [0 .. k - 1 -> D] /\ f[0] = b
        /\ \A j \in 1 .. k - 1 : f[j] = F[j][f[j - 1]]
    BY <2>1
  <2>3. f[k - 1] \in D /\ F[k][f[k - 1]] \in D
    BY <2>2
  <2> DEFINE g == [j \in 0 .. k |-> IF j = k THEN F[k][f[k - 1]] ELSE f[j]]
  <2>4. g \in [0 .. k -> D] /\ g[0] = b
    BY <2>2, <2>3
  <2>5. ASSUME NEW j \in 1 .. k PROVE g[j] = F[j][g[j - 1]]
    <3>1. g[j - 1] = f[j - 1]
      OBVIOUS
    <3>2. CASE j = k
      BY <3>1, <3>2
    <3>3. CASE j # k
      <4>1. j \in 1 .. k - 1
        BY <3>3
      <4> QED BY <2>2, <3>1, <3>3, <4>1
    <3> QED BY <3>2, <3>3
  <2> HIDE DEF g
  <2>6. g \in Upto(k)
    BY <2>4, <2>5
  <2>7. Upto(k) # {}
    BY <2>6
  <2> HIDE DEF Upto
  <2> QED BY <2>7
<1>3. n \in P
  <2> HIDE DEF P
  <2> QED BY <1>1, <1>2, AfterTurns
<1> QED BY <1>3 DEF Loops

-----------------------------------------------------------------------------
(* The entries of a queue.                                                 *)

Elements(q) == {q[i] : i \in DOMAIN q}

\* At most one ping per peer.
OnePing(q) ==
  \A i, j \in DOMAIN q :
    q[i].command = "Ping" /\ q[j].command = "Ping" /\ q[i].to = q[j].to => i = j

LEMMA PlacesAreElements ==
  ASSUME NEW q, NEW to, NEW command
  PROVE  Places(q, to, command) # {} <=> \E e \in Elements(q) : e.to = to /\ e.command = command
BY DEF Places, Elements

LEMMA FirstPlace ==
  ASSUME NEW E, NEW q \in Seq(E), NEW to, NEW command, Places(q, to, command) # {}
  PROVE  LET i == FirstOf(Places(q, to, command))
         IN  i \in DOMAIN q /\ q[i].to = to /\ q[i].command = command
<1>1. Places(q, to, command) \in SUBSET Nat
  BY LenProperties DEF Places
<1>2. \E i \in Places(q, to, command) : \A j \in Places(q, to, command) : i <= j
  BY <1>1, LeastNatural
<1>3. FirstOf(Places(q, to, command)) \in Places(q, to, command)
  BY <1>2 DEF FirstOf
<1> QED BY <1>3 DEF Places

LEMMA Removed ==
  ASSUME NEW E, NEW q \in Seq(E), NEW i \in DOMAIN q
  PROVE  /\ RemoveAt(q, i) \in Seq(E)
         /\ Len(RemoveAt(q, i)) = Len(q) - 1
         /\ \A k \in 1 .. Len(q) - 1 : RemoveAt(q, i)[k] = q[IF k < i THEN k ELSE k + 1]
<1> DEFINE before == SubSeq(q, 1, i - 1)
           after == SubSeq(q, i + 1, Len(q))
<1>0. /\ Len(q) \in Nat /\ i \in 1 .. Len(q) /\ \A k \in 1 .. Len(q) : q[k] \in E
  BY LenProperties, ElementOfSeq
<1>1. /\ before \in Seq(E) /\ Len(before) = i - 1
      /\ \A k \in 1 .. i - 1 : before[k] = q[k]
  <2>1. \A k \in 1 .. i - 1 : q[k] \in E
    BY <1>0
  <2>2. \A k \in 1 .. (i - 1) - 1 + 1 : before[k] = q[1 + k - 1]
    BY <1>0, <2>1, SubSeqProperties
  <2>3. before \in Seq(E) /\ Len(before) = IF 1 <= i - 1 THEN (i - 1) - 1 + 1 ELSE 0
    BY <1>0, <2>1, SubSeqProperties
  <2> QED BY <1>0, <2>2, <2>3
<1>2. /\ after \in Seq(E) /\ Len(after) = Len(q) - i
      /\ \A k \in 1 .. Len(q) - i : after[k] = q[i + k]
  <2>1. \A k \in i + 1 .. Len(q) : q[k] \in E
    BY <1>0
  <2>2. /\ after \in Seq(E)
        /\ Len(after) = IF i + 1 <= Len(q) THEN Len(q) - (i + 1) + 1 ELSE 0
        /\ \A k \in 1 .. Len(q) - (i + 1) + 1 : after[k] = q[(i + 1) + k - 1]
    BY <1>0, <2>1, SubSeqProperties
  <2>3. \A k \in 1 .. Len(q) - i : k \in 1 .. Len(q) - (i + 1) + 1 /\ (i + 1) + k - 1 = i + k
    BY <1>0
  <2> QED BY <1>0, <2>2, <2>3
<1>3. RemoveAt(q, i) = before \o after
  BY DEF RemoveAt
<1> HIDE DEF before, after
<1>4. /\ before \o after \in Seq(E) /\ Len(before \o after) = Len(before) + Len(after)
      /\ \A k \in 1 .. Len(before) + Len(after) :
           (before \o after)[k] = IF k <= Len(before) THEN before[k] ELSE after[k - Len(before)]
  <2>1. before \in Seq(E) /\ after \in Seq(E)
    BY <1>1, <1>2
  <2> QED BY <2>1, ConcatProperties
<1>5. Len(before) + Len(after) = Len(q) - 1
  BY <1>0, <1>1, <1>2
<1>6. ASSUME NEW k \in 1 .. Len(q) - 1 PROVE RemoveAt(q, i)[k] = q[IF k < i THEN k ELSE k + 1]
  <2>1. (before \o after)[k] = IF k <= i - 1 THEN before[k] ELSE after[k - (i - 1)]
    BY <1>1, <1>4, <1>5
  <2>2. CASE k < i
    BY <1>0, <1>1, <1>3, <2>1, <2>2
  <2>3. CASE ~ (k < i)
    <3>1. k - (i - 1) \in 1 .. Len(q) - i /\ i + (k - (i - 1)) = k + 1 /\ ~ (k <= i - 1)
      BY <1>0, <2>3
    <3>2. after[k - (i - 1)] = q[i + (k - (i - 1))]
      BY <1>2, <3>1
    <3> QED BY <1>3, <2>1, <2>3, <3>1, <3>2
  <2> QED BY <2>2, <2>3
<1> QED BY <1>3, <1>4, <1>5, <1>6

LEMMA RemovedElements ==
  ASSUME NEW E, NEW q \in Seq(E), NEW i \in DOMAIN q
  PROVE  LET r == RemoveAt(q, i)
         IN  /\ Elements(r) \subseteq Elements(q) /\ Elements(q) \subseteq Elements(r) \union {q[i]}
             /\ OnePing(q) => /\ OnePing(r)
                              /\ q[i].command = "Ping" =>
                                   \A e \in Elements(r) : ~ (e.command = "Ping" /\ e.to = q[i].to)
<1> DEFINE r == RemoveAt(q, i)
           from(k) == IF k < i THEN k ELSE k + 1
<1>1. /\ Len(q) \in Nat /\ DOMAIN q = 1 .. Len(q) /\ i \in 1 .. Len(q)
      /\ DOMAIN r = 1 .. Len(q) - 1
      /\ \A k \in DOMAIN r : r[k] = q[from(k)]
  <2>1. /\ r \in Seq(E) /\ Len(r) = Len(q) - 1
        /\ \A k \in 1 .. Len(q) - 1 : r[k] = q[from(k)]
    BY Removed
  <2> HIDE DEF r, from
  <2>2. DOMAIN r = 1 .. Len(r) /\ Len(q) \in Nat /\ DOMAIN q = 1 .. Len(q)
    BY <2>1, LenProperties
  <2> QED BY <2>1, <2>2
<1>2. \A k \in DOMAIN r : from(k) \in DOMAIN q /\ from(k) # i
  BY <1>1
<1>3. \A k, m \in DOMAIN r : from(k) = from(m) => k = m
  BY <1>1
<1>4. \A j \in DOMAIN q : j # i => \E k \in DOMAIN r : from(k) = j
  <2> TAKE j \in DOMAIN q
  <2> HAVE j # i
  <2>1. CASE j < i
    <3>1. j \in DOMAIN r /\ from(j) = j
      BY <1>1, <2>1
    <3> QED BY <3>1
  <2>2. CASE j > i
    <3>1. j - 1 \in DOMAIN r /\ from(j - 1) = j
      BY <1>1, <2>2
    <3> QED BY <3>1
  <2> QED BY <1>1, <2>1, <2>2
<1> HIDE DEF r, from
<1>5. Elements(r) \subseteq Elements(q)
  BY <1>1, <1>2 DEF Elements
<1>6. Elements(q) \subseteq Elements(r) \union {q[i]}
  BY <1>1, <1>4 DEF Elements
<1>7. ASSUME OnePing(q)
      PROVE  /\ OnePing(r)
             /\ q[i].command = "Ping" => \A e \in Elements(r) : ~ (e.command = "Ping" /\ e.to = q[i].to)
  <2>1. OnePing(r)
    BY <1>1, <1>2, <1>3, <1>7 DEF OnePing
  <2>2. ASSUME q[i].command = "Ping", NEW k \in DOMAIN r, r[k].command = "Ping", r[k].to = q[i].to PROVE FALSE
    BY <1>1, <1>2, <1>7, <2>2 DEF OnePing
  <2> QED BY <2>1, <2>2 DEF Elements
<1> QED BY <1>5, <1>6, <1>7 DEF r

LEMMA Appended ==
  ASSUME NEW E, NEW q \in Seq(E), NEW e \in E
  PROVE  LET r == Append(q, e)
         IN  /\ r \in Seq(E) /\ Len(r) = Len(q) + 1
             /\ Elements(r) = Elements(q) \union {e}
             /\ OnePing(q) /\ (e.command = "Ping" =>
                                 \A d \in Elements(q) : ~ (d.command = "Ping" /\ d.to = e.to))
                  => OnePing(r)
<1> DEFINE r == Append(q, e)
<1>1. /\ Len(q) \in Nat /\ DOMAIN q = 1 .. Len(q) /\ DOMAIN r = 1 .. Len(q) + 1 /\ r \in Seq(E)
      /\ Len(r) = Len(q) + 1
      /\ r[Len(q) + 1] = e /\ \A k \in 1 .. Len(q) : r[k] = q[k]
  BY LenProperties, AppendProperties
<1>2. \A k \in DOMAIN r : k \in DOMAIN q \/ k = Len(q) + 1
  BY <1>1
<1>3. Len(q) + 1 \in DOMAIN r /\ DOMAIN q \subseteq DOMAIN r
  BY <1>1
<1> HIDE DEF r
<1>4. Elements(r) = Elements(q) \union {e}
  BY <1>1, <1>2, <1>3 DEF Elements
<1>5. ASSUME OnePing(q), e.command = "Ping" => \A d \in Elements(q) : ~ (d.command = "Ping" /\ d.to = e.to)
      PROVE  OnePing(r)
  <2>1. \A k \in DOMAIN q : q[k].command = "Ping" /\ q[k].to = e.to => e.command # "Ping"
    BY <1>5 DEF Elements
  <2> QED BY <1>1, <1>2, <1>5, <2>1 DEF OnePing
<1> QED BY <1>1, <1>4, <1>5 DEF r

\* ReschedulePacket.
LEMMA Moved ==
  ASSUME NEW E, NEW q \in Seq(E), NEW i \in DOMAIN q
  PROVE  LET r == Append(RemoveAt(q, i), q[i])
         IN  /\ r \in Seq(E) /\ Len(r) = Len(q) /\ Elements(r) = Elements(q)
             /\ OnePing(q) => OnePing(r)
<1> DEFINE m == RemoveAt(q, i)
           r == Append(m, q[i])
<1>1. m \in Seq(E) /\ Len(m) = Len(q) - 1 /\ q[i] \in E /\ Len(q) \in Nat /\ q[i] \in Elements(q)
  BY Removed, ElementOfSeq, LenProperties DEF Elements
<1>2. /\ Elements(m) \subseteq Elements(q) /\ Elements(q) \subseteq Elements(m) \union {q[i]}
      /\ OnePing(q) => /\ OnePing(m)
                       /\ q[i].command = "Ping" =>
                            \A e \in Elements(m) : ~ (e.command = "Ping" /\ e.to = q[i].to)
  BY RemovedElements
<1> HIDE DEF m
<1>3. /\ r \in Seq(E) /\ Len(r) = Len(m) + 1 /\ Elements(r) = Elements(m) \union {q[i]}
      /\ OnePing(m) /\ (q[i].command = "Ping" =>
                          \A d \in Elements(m) : ~ (d.command = "Ping" /\ d.to = q[i].to))
           => OnePing(r)
  BY <1>1, Appended
<1> HIDE DEF r
<1> QED BY <1>1, <1>2, <1>3 DEF r, m

LEMMA Retired ==
  ASSUME NEW E, NEW q \in Seq(E), NEW to, NEW command
  PROVE  LET r == RetirePacket(q, to, command)
         IN  /\ r \in Seq(E) /\ Elements(r) \subseteq Elements(q)
             /\ \A e \in Elements(q) : e \in Elements(r) \/ (e.to = to /\ e.command = command)
             /\ OnePing(q) => OnePing(r)
<1> DEFINE r == RetirePacket(q, to, command)
<1>1. CASE Places(q, to, command) = {}
  <2>1. r = q
    BY <1>1 DEF RetirePacket
  <2> QED BY <2>1
<1>2. CASE Places(q, to, command) # {}
  <2>1. PICK i \in DOMAIN q : q[i].to = to /\ q[i].command = command /\ r = RemoveAt(q, i)
    BY <1>2, FirstPlace DEF RetirePacket
  <2>2. r \in Seq(E)
    BY <2>1, Removed
  <2>3. /\ Elements(r) \subseteq Elements(q) /\ Elements(q) \subseteq Elements(r) \union {q[i]}
        /\ OnePing(q) => OnePing(r)
    BY <2>1, RemovedElements
  <2> HIDE DEF r
  <2> QED BY <2>1, <2>2, <2>3 DEF r
<1> QED BY <1>1, <1>2

LEMMA PingRemoved ==
  ASSUME NEW E, NEW q \in Seq(E), NEW to, OnePing(q)
  PROVE  Places(RetirePacket(q, to, "Ping"), to, "Ping") = {}
<1> DEFINE r == RetirePacket(q, to, "Ping")
<1>1. CASE Places(q, to, "Ping") = {}
  BY <1>1 DEF RetirePacket
<1>2. CASE Places(q, to, "Ping") # {}
  <2>1. PICK i \in DOMAIN q : q[i].to = to /\ q[i].command = "Ping" /\ r = RemoveAt(q, i)
    BY <1>2, FirstPlace DEF RetirePacket
  <2>2. q[i].command = "Ping" => \A e \in Elements(r) : ~ (e.command = "Ping" /\ e.to = q[i].to)
    BY <2>1, RemovedElements
  <2> HIDE DEF r
  <2> QED BY <2>1, <2>2, PlacesAreElements DEF r
<1> QED BY <1>1, <1>2

\* RetireAllPackets goes through the whole queue.
LEMMA AllRetired ==
  ASSUME NEW E, NEW q \in Seq(E), NEW to
  PROVE  LET r == RetireAllPackets(q, to)
         IN  /\ r \in Seq(E) /\ Elements(r) = {e \in Elements(q) : e.to # to}
             /\ OnePing(q) => OnePing(r)
<1> DEFINE n == Len(q)
           Turn(k, d) == IF q[k].to = to THEN d ELSE Append(d, q[k])
           IsRest(rest) == rest = [k \in 0 .. Len(q) |-> IF k = 0 THEN <<>> ELSE Turn(k, rest[k - 1])]
           Queues == Seq(E)
           F == [k \in 1 .. n |-> [d \in Queues |-> Turn(k, d)]]
           g == CHOOSE rest : IsRest(rest)
<1>0. n \in Nat /\ DOMAIN q = 1 .. n /\ \A k \in 1 .. n : q[k] \in E /\ q[k] \in Elements(q)
  BY LenProperties, ElementOfSeq DEF Elements
<1>1. RetireAllPackets(q, to) = g[n]
  BY DEF RetireAllPackets
<1>2. \A k \in 1 .. n : \A d \in Queues : Turn(k, d) \in Queues
  BY <1>0, AppendProperties
<1>3. <<>> \in Queues
  OBVIOUS
<1> HIDE DEF Turn, Queues
<1>4. \E f : IsRest(f)
  <2>1. \A k \in 1 .. n : \A d \in Queues : F[k][d] = Turn(k, d)
    OBVIOUS
  <2> HIDE DEF F
  <2>2. \A k \in 1 .. n : \A d \in Queues : F[k][d] \in Queues
    BY <1>2, <2>1
  <2>3. \E f \in [0 .. n -> Queues] : Loops(f, n, <<>>, F)
    <3> HIDE DEF n
    <3> QED BY <1>0, <1>3, <2>2, LoopExists
  <2>4. PICK f \in [0 .. n -> Queues] : f[0] = <<>> /\ \A k \in 1 .. n : f[k] = F[k][f[k - 1]]
    BY <2>3 DEF Loops
  <2>5. \A k \in 1 .. n : f[k] = Turn(k, f[k - 1])
    <3> HIDE DEF n
    <3>1. \A k \in 1 .. n : k - 1 \in 0 .. n
      BY <1>0
    <3>2. \A k \in 1 .. n : f[k - 1] \in Queues
      BY <2>4, <3>1
    <3>3. \A k \in 1 .. n : F[k][f[k - 1]] = Turn(k, f[k - 1])
      BY <2>1, <3>2
    <3> QED BY <2>4, <3>3
  <2>6. f = [k \in 0 .. n |-> IF k = 0 THEN <<>> ELSE Turn(k, f[k - 1])]
    BY <1>0, <2>4, <2>5
  <2> QED BY <2>6
<1>5. IsRest(g)
  BY <1>4
<1> HIDE DEF g
<1>6. g[0] = <<>> /\ \A k \in 1 .. n : g[k] = Turn(k, g[k - 1])
  <2>1. \A k \in 0 .. n : g[k] = IF k = 0 THEN <<>> ELSE Turn(k, g[k - 1])
    BY <1>5
  <2> HIDE DEF n
  <2>2. 0 \in 0 .. n /\ \A k \in 1 .. n : k \in 0 .. n /\ k # 0
    BY <1>0
  <2> QED BY <2>1, <2>2
<1> DEFINE Kept(k) == {q[j] : j \in {i \in 1 .. k : q[i].to # to}}
           Good(k) == /\ g[k] \in Seq(E) /\ Elements(g[k]) = Kept(k)
                      /\ OnePing(q) => OnePing(g[k])
           P == {k \in 0 .. n : Good(k)}
<1> HIDE DEF n, IsRest
<1>7. 0 \in P
  <2>1. g[0] \in Seq(E) /\ Elements(g[0]) = {} /\ OnePing(g[0])
    BY <1>6 DEF Elements, OnePing
  <2>2. Kept(0) = {}
    OBVIOUS
  <2> HIDE DEF Kept
  <2>3. Good(0) /\ 0 \in 0 .. n
    BY <1>0, <2>1, <2>2
  <2> HIDE DEF Good
  <2> QED BY <2>3
<1>8. ASSUME NEW k \in 1 .. n, k - 1 \in P PROVE k \in P
  <2>0. k \in 0 .. n
    BY <1>0
  <2>1. Good(k - 1)
    BY <1>8
  <2>2. CASE q[k].to = to
    <3>1. g[k] = g[k - 1]
      BY <1>6, <2>2 DEF Turn
    <3>2. Kept(k) = Kept(k - 1)
      <4>1. \A j \in 1 .. k : j \in 1 .. k - 1 \/ j = k
        BY <1>0
      <4>2. \A j \in 1 .. k - 1 : j \in 1 .. k
        BY <1>0
      <4>3. {i \in 1 .. k : q[i].to # to} = {i \in 1 .. k - 1 : q[i].to # to}
        BY <2>2, <4>1, <4>2
      <4> QED BY <4>3
    <3> HIDE DEF Kept
    <3> QED BY <2>0, <2>1, <3>1, <3>2
  <2>3. CASE q[k].to # to
    <3>1. g[k] = Append(g[k - 1], q[k])
      BY <1>6, <2>3 DEF Turn
    <3>2. Kept(k) = Kept(k - 1) \union {q[k]}
      BY <1>0, <2>3
    <3>3. OnePing(q) /\ q[k].command = "Ping" =>
            \A d \in Kept(k - 1) : ~ (d.command = "Ping" /\ d.to = q[k].to)
      <4> SUFFICES ASSUME OnePing(q), q[k].command = "Ping", NEW j \in 1 .. k - 1, q[j].command = "Ping",
                          q[j].to = q[k].to
                   PROVE  FALSE
        OBVIOUS
      <4>1. j \in 1 .. n /\ j # k
        BY <1>0
      <4> QED BY <1>0, <4>1 DEF OnePing
    <3> HIDE DEF Kept
    <3>4. /\ g[k] \in Seq(E) /\ Elements(g[k]) = Kept(k)
          /\ OnePing(q) => OnePing(g[k])
      BY <1>0, <2>1, <3>1, <3>2, <3>3, Appended
    <3> QED BY <2>0, <3>4
  <2> QED BY <2>2, <2>3
<1>9. Good(n)
  <2>1. \A k \in 0 .. n : k \in P
    <3> HIDE DEF P
    <3> QED BY <1>0, <1>7, <1>8, AfterTurns
  <2>2. n \in P
    <3> HIDE DEF P
    <3>1. n \in 0 .. n
      BY <1>0
    <3> QED BY <2>1, <3>1
  <2> HIDE DEF Good
  <2> QED BY <2>2
<1>10. Kept(n) = {e \in Elements(q) : e.to # to}
  BY <1>0 DEF Elements
<1> HIDE DEF Kept
<1> QED BY <1>1, <1>9, <1>10

\* The entries a pass sends are those of the queue, and it leaves them there.
LEMMA Passed ==
  ASSUME NEW E, NEW q \in Seq(E), NEW n \in 0 .. Len(q)
  PROVE  LET s == QueuePass(q, n)
         IN  /\ s.q \in Seq(E) /\ Len(s.q) = Len(q) /\ Elements(s.q) = Elements(q)
             /\ s.at = n + 1 /\ s.sent \subseteq Elements(q)
             /\ OnePing(q) => OnePing(s.q)
<1> DEFINE start == [q |-> q, at |-> 1, sent |-> {}]
           States == [q : Seq(E), at : Nat, sent : SUBSET Elements(q)]
           Like(p) == p \in Seq(E) /\ Len(p) = Len(q) /\ Elements(p) = Elements(q) /\ (OnePing(q) => OnePing(p))
           Good == {s \in States : Like(s.q)}
           IsPass(pass) ==
             pass = [k \in 0 .. n |-> IF k = 0 THEN start ELSE QueueTurn(pass[k - 1])]
           F == [k \in 1 .. n |-> [s \in Good |-> IF s.at = k THEN QueueTurn(s) ELSE s]]
           g == CHOOSE pass : IsPass(pass)
<1>0. Len(q) \in Nat /\ DOMAIN q = 1 .. Len(q) /\ n \in Nat
  BY LenProperties
<1>1. start \in Good /\ start.at = 1
  OBVIOUS
<1>2. ASSUME NEW k \in 1 .. n, NEW s \in Good, s.at = k
      PROVE  QueueTurn(s) \in Good /\ QueueTurn(s).at = k + 1
  <2>0. PICK p : p = s.q
    OBVIOUS
  <2>1. Like(p) /\ s.at = k /\ s.sent \subseteq Elements(q)
    BY <1>2, <2>0
  <2>2. k \in DOMAIN p /\ p[k] \in E /\ p[k] \in Elements(q)
    <3>1. p \in Seq(E) /\ Len(p) = Len(q) /\ Elements(p) = Elements(q)
      BY <2>1
    <3>2. DOMAIN p = 1 .. Len(q)
      BY <1>0, <3>1, LenProperties
    <3>3. k \in DOMAIN p
      BY <1>0, <3>2
    <3>4. p[k] \in E
      BY <3>1, <3>3, ElementOfSeq, LenProperties
    <3> QED BY <3>1, <3>3, <3>4 DEF Elements
  <2>3. Places(p, p[k].to, p[k].command) # {}
    BY <2>2 DEF Places
  <2>4. PICK i \in DOMAIN p : i = FirstOf(Places(p, p[k].to, p[k].command))
    BY <2>1, <2>3, FirstPlace
  <2>5. QueueTurn(s) = [q |-> Append(RemoveAt(p, i), p[i]), at |-> k + 1, sent |-> s.sent \union {p[k]}]
    BY <2>0, <2>1, <2>4 DEF QueueTurn
  <2>6. Like(Append(RemoveAt(p, i), p[i]))
    BY <2>1, Moved
  <2>7. s.sent \union {p[k]} \in SUBSET Elements(q) /\ k + 1 \in Nat
    BY <2>1, <2>2
  <2> HIDE DEF Like
  <2>8. Append(RemoveAt(p, i), p[i]) \in Seq(E)
    BY <2>6 DEF Like
  <2>9. PICK r, h : r = Append(RemoveAt(p, i), p[i]) /\ h = s.sent \union {p[k]}
    OBVIOUS
  <2>10. QueueTurn(s) = [q |-> r, at |-> k + 1, sent |-> h] /\ Like(r)
    BY <2>5, <2>6, <2>9
  <2>11. QueueTurn(s) \in States /\ QueueTurn(s).q = r /\ QueueTurn(s).at = k + 1
    BY <2>7, <2>8, <2>9, <2>10
  <2> HIDE DEF States
  <2> QED BY <2>10, <2>11
<1>3. \E f : IsPass(f)
  <2>1. \A k \in 1 .. n : \A s \in Good : F[k][s] = IF s.at = k THEN QueueTurn(s) ELSE s
    OBVIOUS
  <2>2. \A k \in 1 .. n : \A s \in Good : F[k][s] \in Good
    <3> HIDE DEF F, Good
    <3> TAKE k \in 1 .. n
    <3> TAKE s \in Good
    <3>1. CASE s.at = k
      BY <1>2, <2>1, <3>1
    <3>2. CASE s.at # k
      BY <2>1, <3>2
    <3> QED BY <3>1, <3>2
  <2> HIDE DEF F, Good, start
  <2>a. \E f \in [0 .. n -> Good] : Loops(f, n, start, F)
    BY <1>0, <1>1, <2>2, LoopExists
  <2>3. PICK f \in [0 .. n -> Good] : f[0] = start /\ \A k \in 1 .. n : f[k] = F[k][f[k - 1]]
    BY <2>a DEF Loops
  <2>4. \A k \in 1 .. n : f[k] = IF f[k - 1].at = k THEN QueueTurn(f[k - 1]) ELSE f[k - 1]
    <3>1. \A k \in 1 .. n : k - 1 \in 0 .. n
      BY <1>0
    <3>2. \A k \in 1 .. n : f[k - 1] \in Good
      BY <2>3, <3>1
    <3>3. \A k \in 1 .. n :
            F[k][f[k - 1]] = IF f[k - 1].at = k THEN QueueTurn(f[k - 1]) ELSE f[k - 1]
      BY <2>1, <3>2
    <3> QED BY <2>3, <3>3
  <2> DEFINE P == {k \in 0 .. n : f[k].at = k + 1}
  <2>5. \A k \in 0 .. n : k \in P
    <3>1. 0 \in P
      BY <1>0, <1>1, <2>3
    <3>2. ASSUME NEW k \in 1 .. n, k - 1 \in P PROVE k \in P
      <4>1. f[k - 1].at = k /\ f[k - 1] \in Good
        BY <1>0, <2>3, <3>2
      <4> QED BY <1>2, <2>4, <4>1
    <3> HIDE DEF P
    <3> QED BY <1>0, <3>1, <3>2, AfterTurns
  <2>6. \A k \in 1 .. n : f[k] = QueueTurn(f[k - 1])
    <3> TAKE k \in 1 .. n
    <3>1. k - 1 \in 0 .. n /\ (k - 1) + 1 = k
      BY <1>0
    <3>2. f[k - 1].at = k
      BY <2>5, <3>1
    <3> QED BY <2>4, <3>2
  <2>7. f = [k \in 0 .. n |-> IF k = 0 THEN start ELSE QueueTurn(f[k - 1])]
    BY <1>0, <2>3, <2>6
  <2> QED BY <2>7
<1>4. IsPass(g)
  BY <1>3
<1>5. QueuePass(q, n) = g[n]
  BY DEF QueuePass
<1> HIDE DEF g, Good, start
<1>6. g[0] = start /\ \A k \in 1 .. n : g[k] = QueueTurn(g[k - 1])
  BY <1>0, <1>4
<1> DEFINE P == {k \in 0 .. n : g[k] \in Good /\ g[k].at = k + 1}
<1>7. n \in P
  <2>1. 0 \in P
    BY <1>0, <1>1, <1>6
  <2>2. ASSUME NEW k \in 1 .. n, k - 1 \in P PROVE k \in P
    <3>1. g[k - 1].at = k /\ g[k - 1] \in Good
      BY <1>0, <2>2
    <3> QED BY <1>2, <1>6, <3>1
  <2>3. \A k \in 0 .. n : k \in P
    <3> HIDE DEF P
    <3> QED BY <1>0, <2>1, <2>2, AfterTurns
  <2> QED BY <1>0, <2>3
<1>8. g[n] \in Good /\ g[n].at = n + 1
  BY <1>7
<1> QED BY <1>5, <1>8 DEF Good

-----------------------------------------------------------------------------
(* The invariant.                                                          *)

\* What p keeps to send again: every packet but a ping bears p's own name.
Item(p) == {e \in [to : Others(p), command : {"Connect", "ConnectAck", "Ping", "Finished"},
                   npid : Everyone] :
              e.npid = IF e.command = "Ping" THEN e.to ELSE p}

Has(q, to, command) == \E e \in Elements(q) : e.to = to /\ e.command = command

QueueOK(p, q) == q \in Seq(Item(p)) /\ OnePing(q)

CountersOK ==
  /\ DOMAIN asked = Nodes /\ DOMAIN inits = Nodes /\ DOMAIN stops = Nodes
  /\ \A p \in Nodes : /\ asked[p] \in [Others(p) -> Nat]
                      /\ inits[p] \in [Others(p) -> 0 .. MaxInits[p]]
                      /\ stops[p] \in [Others(p) -> 0 .. MaxStops[p]]
  /\ refused \in BOOLEAN

Told(c, stopped) ==
  /\ c.status = "ACTIVE" => c.told = "established"
  /\ c.told = "established" /\ stopped = 0 => c.status = "ACTIVE"
  /\ c.status = "ACTIVE" /\ c.activated => c.ext = "mutual"
  /\ c.activated => c.ext \in {"peer", "mutual"}
  /\ c.ext \in {"peer", "mutual"} /\ stopped = 0 => c.activated

PeerOK(p, r) ==
  /\ Has(queue[p], r, "Ping") => conn[p][r].known /\ conn[p][r].addr
  /\ conn[p][r].status = "PENDING" /\ ~ refused
       => asked[p][r] > 0 \/ Has(queue[p], r, "Connect")
  /\ Told(conn[p][r], stops[p][r])

\* The three packets of the handshake bear their sender's name.
DatagramOK(m) ==
  /\ m \in Packet /\ m.from # m.to
  /\ m.command \in {"Connect", "ConnectAck", "Confirm"} => m.npid = m.from

\* q knows that p takes the connection to be up, or repeats the CONNECT_ACK.
Answered(q, p) == conn[q][p].activated \/ Has(queue[q], p, "ConnectAck")

Closing == {"Finished", "FinishedAck"}

\* Nothing closes a connection, and a CONNECT_ACK was sent by one that repeats
\* it, or has had the CONFIRM.
Steady ==
  /\ \A p \in Nodes : \A q \in Others(p) : ~ Has(queue[p], q, "Finished")
  /\ \A m \in net : m.command \notin Closing /\ (m.command = "ConnectAck" => Answered(m.from, m.to))
  /\ \A p \in Nodes : \A q \in Nodes \ {p} : conn[p][q].status = "ACTIVE" => Answered(q, p)

SignalInv ==
  /\ DOMAIN conn = Nodes /\ DOMAIN queue = Nodes
  /\ \A p \in Nodes : conn[p] \in [Others(p) -> Connections] /\ QueueOK(p, queue[p])
  /\ CountersOK
  /\ \A m \in net : DatagramOK(m)
  /\ \A p \in Nodes : \A r \in Others(p) : PeerOK(p, r)
  /\ Undisturbed => Steady


-----------------------------------------------------------------------------
(* What the handlers do to a queue.                                        *)

LEMMA HasPlaces ==
  ASSUME NEW q, NEW to, NEW command
  PROVE  Has(q, to, command) <=> Places(q, to, command) # {}
BY PlacesAreElements DEF Has

LEMMA ItemFields ==
  ASSUME NEW p, NEW e \in Item(p)
  PROVE  /\ e.to \in Others(p) /\ e.command \in {"Connect", "ConnectAck", "Ping", "Finished"}
         /\ e.npid \in Everyone /\ e.npid = IF e.command = "Ping" THEN e.to ELSE p
BY DEF Item

LEMMA Queued ==
  ASSUME NEW p, NEW q, QueueOK(p, q), NEW e \in Item(p),
         e.command = "Ping" => ~ Has(q, e.to, "Ping")
  PROVE  /\ QueueOK(p, Append(q, e))
         /\ \A y, k : Has(Append(q, e), y, k) <=> Has(q, y, k) \/ (y = e.to /\ k = e.command)
<1> DEFINE r == Append(q, e)
<1>1. q \in Seq(Item(p)) /\ OnePing(q)
  BY DEF QueueOK
<1>2. /\ r \in Seq(Item(p)) /\ Elements(r) = Elements(q) \union {e}
      /\ OnePing(q) /\ (e.command = "Ping" =>
                          \A d \in Elements(q) : ~ (d.command = "Ping" /\ d.to = e.to)) => OnePing(r)
  BY <1>1, Appended
<1> HIDE DEF r
<1>3. OnePing(r)
  BY <1>1, <1>2 DEF Has
<1>4. QueueOK(p, r)
  BY <1>2, <1>3 DEF QueueOK
<1>5. \A y, k : Has(r, y, k) <=> Has(q, y, k) \/ (y = e.to /\ k = e.command)
  BY <1>2 DEF Has
<1> QED BY <1>4, <1>5 DEF r

LEMMA QueuedEntry ==
  ASSUME NEW p \in Nodes, NEW r \in Others(p), NEW q, QueueOK(p, q),
         NEW command \in {"Connect", "ConnectAck", "Finished"}
  PROVE  LET s == Append(q, QueueEntry(r, command, p))
         IN  QueueOK(p, s) /\ \A y, k : Has(s, y, k) <=> Has(q, y, k) \/ (y = r /\ k = command)
<1> DEFINE e == QueueEntry(r, command, p)
<1>1. e \in Item(p) /\ e.to = r /\ e.command = command /\ command # "Ping"
  BY DEF QueueEntry, Item, Everyone, Others
<1> HIDE DEF e
<1>2. /\ QueueOK(p, Append(q, e))
      /\ \A y, k : Has(Append(q, e), y, k) <=> Has(q, y, k) \/ (y = e.to /\ k = e.command)
  BY <1>1, Queued
<1> QED BY <1>1, <1>2 DEF e

LEMMA PingSetUp ==
  ASSUME NEW p \in Nodes, NEW r \in Others(p), NEW q, QueueOK(p, q)
  PROVE  LET s == SetupPing(q, r, r)
         IN  QueueOK(p, s) /\ \A y, k : Has(s, y, k) <=> Has(q, y, k) \/ (y = r /\ k = "Ping")
<1> DEFINE e == QueueEntry(r, "Ping", r)
<1>1. e \in Item(p) /\ e.to = r /\ e.command = "Ping"
  BY DEF QueueEntry, Item, Everyone, Others
<1>2. CASE Has(q, r, "Ping")
  <2>1. SetupPing(q, r, r) = q
    BY <1>2, HasPlaces DEF SetupPing
  <2> QED BY <1>2, <2>1
<1>3. CASE ~ Has(q, r, "Ping")
  <2>1. SetupPing(q, r, r) = Append(q, e)
    BY <1>3, HasPlaces DEF SetupPing
  <2> HIDE DEF e
  <2>2. /\ QueueOK(p, Append(q, e))
        /\ \A y, k : Has(Append(q, e), y, k) <=> Has(q, y, k) \/ (y = e.to /\ k = e.command)
    BY <1>1, <1>3, Queued
  <2> QED BY <1>1, <2>1, <2>2
<1> QED BY <1>2, <1>3

LEMMA OneRetired ==
  ASSUME NEW p, NEW r, NEW q, QueueOK(p, q), NEW command, NEW s, s = RetirePacket(q, r, command)
  PROVE  /\ QueueOK(p, s) /\ \A y, k : Has(s, y, k) => Has(q, y, k)
         /\ \A y, k : Has(q, y, k) => Has(s, y, k) \/ (y = r /\ k = command)
<1>1. q \in Seq(Item(p)) /\ OnePing(q)
  BY DEF QueueOK
<1>2. /\ s \in Seq(Item(p)) /\ Elements(s) \subseteq Elements(q)
      /\ \A e \in Elements(q) : e \in Elements(s) \/ (e.to = r /\ e.command = command)
      /\ OnePing(q) => OnePing(s)
  BY <1>1, Retired
<1>3. QueueOK(p, s)
  BY <1>1, <1>2 DEF QueueOK
<1>4. \A y, k : Has(s, y, k) => Has(q, y, k)
  BY <1>2 DEF Has
<1>5. \A y, k : Has(q, y, k) => Has(s, y, k) \/ (y = r /\ k = command)
  BY <1>2 DEF Has
<1> QED BY <1>3, <1>4, <1>5

LEMMA PingRetired ==
  ASSUME NEW p, NEW r, NEW q, QueueOK(p, q)
  PROVE  ~ Has(RetirePacket(q, r, "Ping"), r, "Ping")
BY PingRemoved, HasPlaces DEF QueueOK

LEMMA PeerRetired ==
  ASSUME NEW p, NEW r, NEW q, QueueOK(p, q)
  PROVE  LET s == RetireAllPackets(q, r)
         IN  QueueOK(p, s) /\ \A y, k : Has(s, y, k) <=> Has(q, y, k) /\ y # r
<1> DEFINE s == RetireAllPackets(q, r)
<1>1. q \in Seq(Item(p)) /\ OnePing(q)
  BY DEF QueueOK
<1>2. /\ s \in Seq(Item(p)) /\ Elements(s) = {e \in Elements(q) : e.to # r}
      /\ OnePing(q) => OnePing(s)
  BY <1>1, AllRetired
<1> HIDE DEF s
<1>3. QueueOK(p, s)
  BY <1>1, <1>2 DEF QueueOK
<1>4. \A y, k : Has(s, y, k) <=> Has(q, y, k) /\ y # r
  BY <1>2 DEF Has
<1> QED BY <1>3, <1>4 DEF s

LEMMA DyingRetired ==
  ASSUME NEW p, NEW r, NEW c, NEW q, QueueOK(p, q)
  PROVE  LET s == RetireIfDying(c, q, r)
         IN  /\ QueueOK(p, s) /\ \A y, k : Has(s, y, k) => Has(q, y, k)
             /\ \A y, k : Has(q, y, k) => Has(s, y, k) \/ y = r
<1>1. CASE c.status # "INACTIVE"
  BY <1>1, PeerRetired DEF RetireIfDying
<1>2. CASE c.status = "INACTIVE"
  BY <1>2 DEF RetireIfDying
<1> QED BY <1>1, <1>2

LEMMA PassSends ==
  ASSUME NEW p, NEW q, QueueOK(p, q), NEW n \in 0 .. Len(q)
  PROVE  LET s == QueuePass(q, n)
         IN  /\ QueueOK(p, s.q) /\ Len(s.q) = Len(q) /\ s.at = n + 1
             /\ \A y, k : Has(s.q, y, k) <=> Has(q, y, k)
             /\ s.sent \subseteq Elements(q) /\ Elements(q) \subseteq Item(p)
<1>1. q \in Seq(Item(p)) /\ OnePing(q)
  BY DEF QueueOK
<1> DEFINE s == QueuePass(q, n)
<1>2. /\ s.q \in Seq(Item(p)) /\ Len(s.q) = Len(q) /\ Elements(s.q) = Elements(q)
      /\ s.at = n + 1 /\ s.sent \subseteq Elements(q)
      /\ OnePing(q) => OnePing(s.q)
  BY <1>1, Passed
<1>3. Elements(q) \subseteq Item(p)
  BY <1>1, ElementOfSeq, LenProperties DEF Elements
<1> HIDE DEF s
<1>4. QueueOK(p, s.q) /\ \A y, k : Has(s.q, y, k) <=> Has(q, y, k)
  BY <1>1, <1>2 DEF QueueOK, Has
<1> QED BY <1>2, <1>3, <1>4 DEF s

LEMMA PingMoved ==
  ASSUME NEW p, NEW q, QueueOK(p, q), NEW r, Places(q, r, "Ping") # {}
  PROVE  LET i == FirstOf(Places(q, r, "Ping"))
             s == Append(RemoveAt(q, i), q[i])
         IN  QueueOK(p, s) /\ \A y, k : Has(s, y, k) <=> Has(q, y, k)
<1> DEFINE i == FirstOf(Places(q, r, "Ping"))
           s == Append(RemoveAt(q, i), q[i])
<1>1. q \in Seq(Item(p)) /\ OnePing(q)
  BY DEF QueueOK
<1>2. i \in DOMAIN q
  BY <1>1, FirstPlace
<1> HIDE DEF i
<1>3. s \in Seq(Item(p)) /\ Len(s) = Len(q) /\ Elements(s) = Elements(q) /\ (OnePing(q) => OnePing(s))
  BY <1>1, <1>2, Moved
<1> HIDE DEF s
<1>4. QueueOK(p, s) /\ \A y, k : Has(s, y, k) <=> Has(q, y, k)
  BY <1>1, <1>3 DEF QueueOK, Has
<1> QED BY <1>4 DEF s, i

-----------------------------------------------------------------------------
(* What a handler of p about its peer r changes.                           *)

\* The connection becomes c, the queue q, and sent is sent.
Changed(p, r, c, q, sent) ==
  /\ DOMAIN conn' = Nodes /\ DOMAIN queue' = Nodes
  /\ \A x \in Nodes \ {p} : conn'[x] = conn[x] /\ queue'[x] = queue[x]
  /\ conn'[p] = [conn[p] EXCEPT ![r] = c]
  /\ queue'[p] = q
  /\ net' \subseteq net \union sent

\* Only the packets to r are touched.
AboutPeer(p, r, q) == \A y \in Others(p) \ {r} : \A k : Has(q, y, k) <=> Has(queue[p], y, k)

OtherCounters(p, r) ==
  \A x \in Nodes : \A y \in Others(x) :
    (x = p /\ y = r) \/ (asked'[x][y] = asked[x][y] /\ stops'[x][y] = stops[x][y])

\* What the connection and the queue owe the handshake.
Quiet(p, r, c, q, sent) ==
  /\ ~ Has(q, r, "Finished")
  /\ r \in Nodes /\ Answered(p, r) => c.activated \/ Has(q, r, "ConnectAck")
  /\ r \in Nodes /\ c.status = "ACTIVE" => conn[p][r].status = "ACTIVE" \/ Answered(r, p)
  /\ \A m \in sent : /\ m.command \notin Closing
                     /\ m.command = "ConnectAck" =>
                          m.from = p /\ m.to = r /\ (c.activated \/ Has(q, r, "ConnectAck"))

LEMMA NobodyDisturbs ==
  ASSUME SignalInv, CountersOK', NEW p \in Nodes, NEW r \in Others(p), OtherCounters(p, r),
         stops'[p][r] = 0 => stops[p][r] = 0
  PROVE  Undisturbed' => Undisturbed
BY DEF Undisturbed, OtherCounters

LEMMA SteadyKept ==
  ASSUME SignalInv, NEW p \in Nodes, NEW r \in Others(p), NEW c \in Connections, NEW q, NEW sent,
         Changed(p, r, c, q, sent), AboutPeer(p, r, q), Undisturbed, Quiet(p, r, c, q, sent)
  PROVE  Steady'
<1>1. Steady /\ p \notin Strangers
  BY DEF SignalInv
<1>2. /\ conn'[p][r] = c /\ \A y \in Others(p) \ {r} : conn'[p][y] = conn[p][y]
  BY DEF SignalInv, Changed
<1>3. \A x \in Nodes : \A y \in Others(x) :
        (x # p \/ y # r) => /\ conn'[x][y] = conn[x][y]
                            /\ \A k : Has(queue'[x], y, k) <=> Has(queue[x], y, k)
  BY <1>2 DEF Changed, AboutPeer
<1>4. ASSUME NEW x \in Nodes, NEW y \in Nodes \ {x}, Answered(x, y) PROVE Answered(x, y)'
  <2>1. y \in Others(x)
    BY DEF Others, Everyone
  <2>2. CASE x = p /\ y = r
    BY <1>2, <1>4, <2>2 DEF Answered, Quiet, Changed
  <2>3. CASE ~ (x = p /\ y = r)
    BY <1>3, <1>4, <2>1, <2>3 DEF Answered
  <2> QED BY <2>2, <2>3
<1>5. \A x \in Nodes : \A y \in Others(x) : ~ Has(queue'[x], y, "Finished")
  <2> TAKE x \in Nodes
  <2> TAKE y \in Others(x)
  <2>1. CASE x = p /\ y = r
    BY <2>1 DEF Quiet, Changed
  <2>2. CASE ~ (x = p /\ y = r)
    BY <1>1, <1>3, <2>2 DEF Steady
  <2> QED BY <2>1, <2>2
<1>6. ASSUME NEW m \in net' PROVE m.command \notin Closing /\ (m.command = "ConnectAck" => Answered(m.from, m.to)')
  <2>1. CASE m \in net
    <3>1. m.from \in Nodes /\ m.to \in Nodes \ {m.from}
      BY <2>1 DEF SignalInv, DatagramOK, Packet
    <3>2. m.command \notin Closing /\ (m.command = "ConnectAck" => Answered(m.from, m.to))
      BY <1>1, <2>1 DEF Steady
    <3> QED BY <1>4, <3>1, <3>2
  <2>2. CASE m \in sent
    BY <1>2, <2>2 DEF Quiet, Answered, Changed
  <2> QED BY <2>1, <2>2 DEF Changed
<1>7. ASSUME NEW x \in Nodes, NEW y \in Nodes \ {x}, conn'[x][y].status = "ACTIVE" PROVE Answered(y, x)'
  <2>0. y \in Others(x) /\ x \in Nodes \ {y}
    BY DEF Others, Everyone
  <2>1. CASE conn[x][y].status = "ACTIVE"
    <3>1. Answered(y, x)
      BY <1>1, <2>1 DEF Steady
    <3> QED BY <1>4, <2>0, <3>1
  <2>2. CASE conn[x][y].status # "ACTIVE"
    <3>1. x = p /\ y = r
      BY <1>3, <1>7, <2>0, <2>2
    <3>2. Answered(y, x)
      BY <1>2, <1>7, <2>2, <3>1 DEF Quiet
    <3> QED BY <1>4, <2>0, <3>2
  <2> QED BY <2>1, <2>2
<1> QED BY <1>5, <1>6, <1>7 DEF Steady

LEMMA ChangeKeeps ==
  ASSUME SignalInv, CountersOK', NEW p \in Nodes, NEW r \in Others(p), NEW c \in Connections,
         NEW q, NEW sent,
         Changed(p, r, c, q, sent), OtherCounters(p, r), AboutPeer(p, r, q), QueueOK(p, q),
         refused => refused', stops'[p][r] = 0 => stops[p][r] = 0,
         Has(q, r, "Ping") => c.known /\ c.addr,
         c.status = "PENDING" /\ ~ refused' => asked'[p][r] > 0 \/ Has(q, r, "Connect"),
         Told(c, stops'[p][r]),
         \A m \in sent : DatagramOK(m),
         Undisturbed /\ Undisturbed' => Quiet(p, r, c, q, sent)
  PROVE  SignalInv'
<1>1. DOMAIN conn' = Nodes /\ DOMAIN queue' = Nodes
  BY DEF Changed
<1>2. /\ conn'[p][r] = c /\ \A y \in Others(p) \ {r} : conn'[p][y] = conn[p][y]
      /\ conn'[p] \in [Others(p) -> Connections]
  BY DEF SignalInv, Changed
<1>3. ASSUME NEW x \in Nodes PROVE conn'[x] \in [Others(x) -> Connections] /\ QueueOK(x, queue'[x])
  BY <1>2 DEF SignalInv, Changed
<1>4. \A m \in net' : DatagramOK(m)
  BY DEF SignalInv, Changed
<1>5. ASSUME NEW x \in Nodes, NEW y \in Others(x) PROVE PeerOK(x, y)'
  <2>1. CASE x = p /\ y = r
    BY <1>2, <2>1 DEF PeerOK, Changed
  <2>2. CASE ~ (x = p /\ y = r)
    <3>1. conn'[x][y] = conn[x][y] /\ \A k : Has(queue'[x], y, k) <=> Has(queue[x], y, k)
      BY <1>2, <2>2 DEF Changed, AboutPeer
    <3>2. asked'[x][y] = asked[x][y] /\ stops'[x][y] = stops[x][y]
      BY <2>2 DEF OtherCounters
    <3>3. PeerOK(x, y)
      BY DEF SignalInv
    <3> QED BY <3>1, <3>2, <3>3 DEF PeerOK
  <2> QED BY <2>1, <2>2
<1>6. Undisturbed' => Steady'
  BY NobodyDisturbs, SteadyKept
<1> QED BY <1>1, <1>3, <1>4, <1>5, <1>6 DEF SignalInv

\* Nothing but the network, the order of the queues and the requests changes.
LEMMA NetChangeKeeps ==
  ASSUME SignalInv, CountersOK', UNCHANGED <<conn, stops>>, refused => refused',
         DOMAIN queue' = Nodes,
         \A x \in Nodes : QueueOK(x, queue'[x]) /\ \A y, k : Has(queue'[x], y, k) <=> Has(queue[x], y, k),
         asked' = asked \/ refused',
         \A m \in net' : DatagramOK(m),
         Undisturbed => \A m \in net' : /\ m.command \notin Closing
                                        /\ m.command = "ConnectAck" => Answered(m.from, m.to)
  PROVE  SignalInv'
<1>1. ASSUME NEW x \in Nodes, NEW y \in Others(x) PROVE PeerOK(x, y)'
  <2>1. PeerOK(x, y)
    BY DEF SignalInv
  <2> QED BY <2>1 DEF PeerOK
<1>2. Undisturbed' => Undisturbed
  BY DEF Undisturbed
<1>3. ASSUME NEW x \in Nodes, NEW y PROVE Answered(x, y)' <=> Answered(x, y)
  BY DEF Answered
<1>4. Undisturbed => Steady'
  <2> SUFFICES ASSUME Undisturbed PROVE Steady'
    OBVIOUS
  <2>1. Steady
    BY DEF SignalInv
  <2>2. \A x \in Nodes : \A y \in Others(x) : ~ Has(queue'[x], y, "Finished")
    BY <2>1 DEF Steady
  <2>3. \A m \in net' : m.command \notin Closing /\ (m.command = "ConnectAck" => Answered(m.from, m.to)')
    <3> TAKE m \in net'
    <3>1. m.from \in Nodes
      BY DEF DatagramOK, Packet
    <3> QED BY <1>3, <3>1
  <2>4. \A x \in Nodes : \A y \in Nodes \ {x} : conn'[x][y].status = "ACTIVE" => Answered(y, x)'
    <3> TAKE x \in Nodes
    <3> TAKE y \in Nodes \ {x}
    <3>1. conn[x][y].status = "ACTIVE" => Answered(y, x)
      BY <2>1 DEF Steady
    <3> QED BY <1>3, <3>1
  <2> QED BY <2>2, <2>3, <2>4 DEF Steady
<1>5. DOMAIN conn' = Nodes /\ \A x \in Nodes : conn'[x] \in [Others(x) -> Connections]
  BY DEF SignalInv
<1> QED BY <1>1, <1>2, <1>4, <1>5 DEF SignalInv

-----------------------------------------------------------------------------
(* What becomes of a connection.                                           *)

LEMMA AddressUpdated ==
  ASSUME NEW c \in Connections
  PROVE  LET d == UpdateAddress(c)
         IN  /\ d \in Connections /\ d.addr /\ d.known = c.known /\ d.status = c.status
             /\ d.activated = c.activated /\ d.told = c.told /\ d.ext = c.ext
BY DEF UpdateAddress, Connections

LEMMA MadeKnown ==
  ASSUME NEW c \in Connections
  PROVE  LET d == [c EXCEPT !.known = TRUE]
         IN  /\ d \in Connections /\ d.known /\ d.addr = c.addr /\ d.status = c.status
             /\ d.activated = c.activated /\ d.told = c.told /\ d.ext = c.ext
BY DEF Connections

LEMMA MadeActive ==
  ASSUME NEW c \in Connections, NEW stopped, Told(c, stopped)
  PROVE  LET d == ToActive(c)
         IN  /\ d \in Connections /\ d.known = c.known /\ d.addr = c.addr
             /\ d.activated = c.activated /\ d.status # "PENDING" /\ Told(d, stopped)
BY DEF ToActive, Connections, Told

LEMMA MadeInactive ==
  ASSUME NEW c \in Connections, NEW stopped, Told(c, stopped)
  PROVE  LET d == ToInactive(c)
         IN  /\ d \in Connections /\ d.known = c.known /\ d.addr = c.addr
             /\ d.activated = c.activated /\ d.status = "INACTIVE" /\ Told(d, stopped)
BY DEF ToInactive, Connections, Told

LEMMA Activated ==
  ASSUME NEW c \in Connections, NEW stopped, Told(c, stopped)
  PROVE  LET d == UpdateExtendedStatus(c, TRUE)
         IN  /\ d \in Connections /\ d.known = c.known /\ d.addr = c.addr
             /\ d.activated /\ d.status = c.status /\ Told(d, stopped)
BY DEF UpdateExtendedStatus, Connections, Told

LEMMA Deactivated ==
  ASSUME NEW c \in Connections, NEW stopped, Told(c, stopped)
  PROVE  LET d == UpdateExtendedStatus(c, FALSE)
         IN  /\ d \in Connections /\ d.known = c.known /\ d.addr = c.addr
             /\ ~ d.activated /\ d.status = c.status /\ Told(d, stopped)
BY DEF UpdateExtendedStatus, Connections, Told

-----------------------------------------------------------------------------
(* Calls of the game and answers of RPCN.                                  *)

LEMMA PeerFacts ==
  ASSUME SignalInv, NEW p \in Nodes, NEW r \in Others(p)
  PROVE  /\ conn[p][r] \in Connections /\ QueueOK(p, queue[p]) /\ PeerOK(p, r)
         /\ asked[p][r] \in Nat /\ stops[p][r] \in Nat /\ p # r /\ r \in Everyone
         /\ p \notin Strangers
<1>1. stops[p][r] \in 0 .. MaxStops[p] /\ MaxStops[p] \in Nat
  BY DEF SignalInv, CountersOK
<1>2. asked[p] \in [Others(p) -> Nat]
  BY DEF SignalInv, CountersOK
<1>3. p # r /\ r \in Everyone /\ p \notin Strangers
  BY DEF Others
<1> QED BY <1>1, <1>2, <1>3 DEF SignalInv

LEMMA SentIsOK ==
  ASSUME NEW p \in Nodes, NEW r \in Others(p), NEW c, NEW command \in Commands, NEW npid \in Everyone,
         command = "Ping" => npid = r, command # "Ping" => npid = p
  PROVE  \A m \in Send(p, c, r, command, npid) :
           /\ DatagramOK(m) /\ m.from = p /\ m.to = r /\ m.command = command
           /\ c.addr /\ r \in Nodes
<1>1. CASE c.addr /\ r \in Nodes
  <2> DEFINE d == [from |-> p, to |-> r, command |-> command, npid |-> npid]
  <2>1. Send(p, c, r, command, npid) = {d}
    BY <1>1 DEF Send
  <2>2. npid \in Nodes
    BY <1>1
  <2>3. d \in Packet /\ d.from = p /\ d.to = r /\ d.command = command /\ d.npid = npid
    BY <1>1, <2>2 DEF Packet
  <2> HIDE DEF d
  <2>4. d.from # d.to /\ (d.command \in {"Connect", "ConnectAck", "Confirm"} => d.npid = d.from)
    BY <2>3 DEF Others
  <2> QED BY <1>1, <2>1, <2>3, <2>4 DEF DatagramOK
<1>2. CASE ~ (c.addr /\ r \in Nodes)
  BY <1>2 DEF Send
<1> QED BY <1>1, <1>2

LEMMA InitKeeps ==
  ASSUME SignalInv, NEW p \in Nodes, NEW r \in Others(p), InitSignaling(p, r)
  PROVE  SignalInv'
<1> USE PeerFacts
<1> DEFINE k == [conn[p][r] EXCEPT !.known = TRUE]
<1>1. PICK c : c = IF k.status = "INACTIVE" THEN [k EXCEPT !.status = "PENDING"] ELSE k
  OBVIOUS
<1>2. /\ k \in Connections /\ k.known /\ k.addr = conn[p][r].addr /\ k.status = conn[p][r].status
      /\ k.activated = conn[p][r].activated /\ k.told = conn[p][r].told /\ k.ext = conn[p][r].ext
  BY MadeKnown
<1>3. Changed(p, r, c, queue[p], {})
  BY <1>1 DEF InitSignaling, Changed, SignalInv
<1> HIDE DEF k
<1>4. /\ c \in Connections /\ c.known /\ c.addr = conn[p][r].addr
      /\ c.activated = conn[p][r].activated /\ c.told = conn[p][r].told /\ c.ext = conn[p][r].ext
      /\ c.status = IF k.status = "INACTIVE" THEN "PENDING" ELSE k.status
  BY <1>1, <1>2 DEF Connections
<1>5. /\ CountersOK' /\ OtherCounters(p, r) /\ refused' = refused /\ stops' = stops
      /\ asked'[p][r] = IF k.status = "INACTIVE" THEN asked[p][r] + 1 ELSE asked[p][r]
  <2>1. inits[p][r] + 1 \in 0 .. MaxInits[p]
    BY DEF SignalInv, CountersOK, InitSignaling
  <2>2. /\ \A x \in Nodes : inits'[x] \in [Others(x) -> 0 .. MaxInits[x]]
        /\ DOMAIN inits' = Nodes
    BY <2>1 DEF SignalInv, CountersOK, InitSignaling
  <2>3. /\ \A x \in Nodes : asked'[x] \in [Others(x) -> Nat]
        /\ DOMAIN asked' = Nodes
        /\ asked'[p][r] = IF k.status = "INACTIVE" THEN asked[p][r] + 1 ELSE asked[p][r]
        /\ \A x \in Nodes : \A y \in Others(x) : (x = p /\ y = r) \/ asked'[x][y] = asked[x][y]
    <3>1. CASE k.status = "INACTIVE"
      <4>1. asked' = [asked EXCEPT ![p][r] = @ + 1]
        BY <3>1 DEF InitSignaling, k
      <4>2. DOMAIN asked = Nodes /\ \A x \in Nodes : asked[x] \in [Others(x) -> Nat]
        BY DEF SignalInv, CountersOK
      <4> QED BY <3>1, <4>1, <4>2
    <3>2. CASE k.status # "INACTIVE"
      BY <3>2 DEF SignalInv, CountersOK, InitSignaling, k
    <3> QED BY <3>1, <3>2
  <2>4. UNCHANGED <<stops, refused>>
    BY DEF InitSignaling
  <2> QED BY <2>2, <2>3, <2>4 DEF SignalInv, CountersOK, OtherCounters
<1>6. Has(queue[p], r, "Ping") => c.known /\ c.addr
  BY <1>4 DEF PeerOK
<1>7. c.status = "PENDING" /\ ~ refused' => asked'[p][r] > 0 \/ Has(queue[p], r, "Connect")
  BY <1>2, <1>4, <1>5 DEF PeerOK
<1>8. Told(c, stops'[p][r])
  BY <1>2, <1>4, <1>5 DEF PeerOK, Told
<1>9. Undisturbed => Quiet(p, r, c, queue[p], {})
  <2>1. ASSUME Undisturbed PROVE ~ Has(queue[p], r, "Finished")
    BY <2>1 DEF SignalInv, Steady
  <2> QED BY <1>2, <1>4, <2>1 DEF Quiet, Answered
<1> QED BY <1>3, <1>4, <1>5, <1>6, <1>7, <1>8, <1>9, ChangeKeeps DEF AboutPeer


LEMMA StartKeeps ==
  ASSUME SignalInv, NEW p \in Nodes, NEW r \in Others(p), StartSignaling(p, r)
  PROVE  SignalInv'
<1> USE PeerFacts
<1>1. PICK c : c = UpdateAddress(conn[p][r])
  OBVIOUS
<1>2. /\ c \in Connections /\ c.addr /\ c.known = conn[p][r].known /\ c.status = conn[p][r].status
      /\ c.activated = conn[p][r].activated /\ c.told = conn[p][r].told /\ c.ext = conn[p][r].ext
  BY <1>1, AddressUpdated
<1>3. PICK q : q = Append(queue[p], QueueEntry(r, "Connect", p))
  OBVIOUS
<1>4. QueueOK(p, q) /\ \A y, k : Has(q, y, k) <=> Has(queue[p], y, k) \/ (y = r /\ k = "Connect")
  BY <1>3, QueuedEntry
<1>5. PICK sent : sent = Send(p, c, r, "Connect", p)
  OBVIOUS
<1>6. \A m \in sent : DatagramOK(m) /\ m.command = "Connect"
  BY <1>5, SentIsOK DEF Commands, Everyone
<1>7. Changed(p, r, c, q, sent)
  BY <1>1, <1>3, <1>5 DEF StartSignaling, Changed, SignalInv
<1>8. CountersOK' /\ OtherCounters(p, r) /\ refused' = refused /\ stops' = stops
  <2>1. asked[p][r] - 1 \in Nat /\ asked' = [asked EXCEPT ![p][r] = @ - 1]
    BY DEF StartSignaling
  <2>2. UNCHANGED <<inits, stops, refused>>
    BY DEF StartSignaling
  <2> QED BY <2>1, <2>2 DEF SignalInv, CountersOK, OtherCounters
<1>9. Has(q, r, "Ping") => c.known /\ c.addr
  BY <1>2, <1>4 DEF PeerOK
<1>10. Has(q, r, "Connect")
  BY <1>4
<1>11. Told(c, stops'[p][r])
  BY <1>2, <1>8 DEF PeerOK, Told
<1>12. Undisturbed => Quiet(p, r, c, q, sent)
  <2>1. ASSUME Undisturbed PROVE ~ Has(q, r, "Finished")
    BY <1>4, <2>1 DEF SignalInv, Steady
  <2> QED BY <1>2, <1>4, <1>6, <2>1 DEF Quiet, Answered, Closing
<1>13. AboutPeer(p, r, q)
  BY <1>4 DEF AboutPeer
<1> QED BY <1>2, <1>4, <1>6, <1>7, <1>8, <1>9, <1>10, <1>11, <1>12, <1>13, ChangeKeeps

LEMMA RefusalKeeps ==
  ASSUME SignalInv, NEW p \in Nodes, NEW r \in Others(p), InfoRefused(p, r)
  PROVE  SignalInv'
<1>1. CountersOK'
  <2>1. asked[p][r] - 1 \in Nat /\ asked' = [asked EXCEPT ![p][r] = @ - 1]
    BY PeerFacts DEF InfoRefused
  <2>2. refused' = TRUE /\ UNCHANGED <<inits, stops>>
    BY DEF InfoRefused
  <2> QED BY <2>1, <2>2 DEF SignalInv, CountersOK
<1>2. refused' /\ UNCHANGED <<conn, queue, net, stops>>
  BY DEF InfoRefused
<1>3. Undisturbed => \A m \in net' : /\ m.command \notin Closing
                                     /\ m.command = "ConnectAck" => Answered(m.from, m.to)
  BY <1>2 DEF SignalInv, Steady
<1>4. DOMAIN queue' = Nodes /\ \A x \in Nodes : QueueOK(x, queue'[x])
  BY <1>2 DEF SignalInv
<1>5. \A m \in net' : DatagramOK(m)
  BY <1>2 DEF SignalInv
<1> QED BY <1>1, <1>2, <1>3, <1>4, <1>5, NetChangeKeeps

LEMMA StopKeeps ==
  ASSUME SignalInv, NEW p \in Nodes, NEW r \in Others(p), StopSignaling(p, r)
  PROVE  SignalInv'
<1> USE PeerFacts
<1>0. PICK stopped : stopped = stops[p][r] + 1
  OBVIOUS
<1>1. PICK c : c = [conn[p][r] EXCEPT !.status = "INACTIVE", !.activated = FALSE]
  OBVIOUS
<1>2. /\ c \in Connections /\ c.known = conn[p][r].known /\ c.addr = conn[p][r].addr
      /\ c.status = "INACTIVE" /\ ~ c.activated /\ Told(c, stopped)
  <2>1. stopped # 0
    BY <1>0
  <2>2. PICK d \in Connections : d = conn[p][r]
    OBVIOUS
  <2>3. c = [d EXCEPT !.status = "INACTIVE", !.activated = FALSE]
    BY <1>1, <2>2
  <2>4. /\ c \in Connections /\ c.known = d.known /\ c.addr = d.addr
        /\ c.status = "INACTIVE" /\ ~ c.activated /\ Told(c, stopped)
    BY <2>1, <2>3 DEF Connections, Told
  <2> QED BY <2>2, <2>4
<1>3. PICK rest : rest = RetireAllPackets(queue[p], r)
  OBVIOUS
<1>4. QueueOK(p, rest) /\ \A y, k : Has(rest, y, k) <=> Has(queue[p], y, k) /\ y # r
  BY <1>3, PeerRetired
<1>5. PICK q : q = Append(rest, QueueEntry(r, "Finished", p))
  OBVIOUS
<1>6. QueueOK(p, q) /\ \A y, k : Has(q, y, k) <=> Has(rest, y, k) \/ (y = r /\ k = "Finished")
  BY <1>4, <1>5, QueuedEntry
<1>7. PICK sent : sent = Send(p, c, r, "Finished", p)
  OBVIOUS
<1>8. \A m \in sent : DatagramOK(m)
  BY <1>7, SentIsOK DEF Commands, Everyone
<1>9. Changed(p, r, c, q, sent)
  BY <1>1, <1>3, <1>5, <1>7 DEF StopSignaling, Changed, SignalInv
<1>10. /\ CountersOK' /\ OtherCounters(p, r) /\ refused' = refused /\ stops'[p][r] = stopped
  <2>1. stopped \in 0 .. MaxStops[p] /\ stops' = [stops EXCEPT ![p][r] = @ + 1]
    BY <1>0 DEF StopSignaling, SignalInv, CountersOK
  <2>2. UNCHANGED <<asked, inits, refused>>
    BY DEF StopSignaling
  <2> QED BY <1>0, <2>1, <2>2 DEF SignalInv, CountersOK, OtherCounters
<1>11. ~ Has(q, r, "Ping")
  BY <1>4, <1>6
<1>12. ~ Undisturbed'
  BY <1>0, <1>10 DEF Undisturbed
<1>13. AboutPeer(p, r, q)
  BY <1>4, <1>6 DEF AboutPeer
<1>14. stopped # 0
  BY <1>0
<1> QED BY <1>2, <1>6, <1>8, <1>9, <1>10, <1>11, <1>12, <1>13, <1>14, ChangeKeeps

LEMMA LossKeeps ==
  ASSUME SignalInv, NEW m \in net, Lose(m)
  PROVE  SignalInv'
<1>1. net' \subseteq net /\ UNCHANGED <<conn, queue, asked, inits, stops, refused>>
  BY DEF Lose
<1>2. CountersOK'
  BY <1>1 DEF SignalInv, CountersOK
<1>3. Undisturbed => \A d \in net' : /\ d.command \notin Closing
                                     /\ d.command = "ConnectAck" => Answered(d.from, d.to)
  BY <1>1 DEF SignalInv, Steady
<1>4. DOMAIN queue' = Nodes /\ \A x \in Nodes : QueueOK(x, queue'[x])
  BY <1>1 DEF SignalInv
<1>5. \A d \in net' : DatagramOK(d)
  BY <1>1 DEF SignalInv
<1> QED BY <1>1, <1>2, <1>3, <1>4, <1>5, NetChangeKeeps


-----------------------------------------------------------------------------
(* HandleQueuedMessages.                                                   *)

\* What a pass sends.
SentOf(p, S) == UNION {Send(p, conn[p][e.to], e.to, e.command, e.npid) : e \in S}

LEMMA PassDatagrams ==
  ASSUME SignalInv, NEW p \in Nodes, NEW S, S \subseteq Elements(queue[p])
  PROVE  /\ \A m \in SentOf(p, S) : DatagramOK(m)
         /\ Undisturbed => \A m \in SentOf(p, S) : /\ m.command \notin Closing
                                                   /\ m.command = "ConnectAck" => Answered(m.from, m.to)
<1>1. S \subseteq Item(p) /\ queue[p] \in Seq(Item(p))
  BY ElementOfSeq, LenProperties DEF SignalInv, QueueOK, Elements
<1>2. ASSUME NEW e \in S, NEW m \in Send(p, conn[p][e.to], e.to, e.command, e.npid)
      PROVE  /\ DatagramOK(m)
             /\ Undisturbed => /\ m.command \notin Closing
                               /\ m.command = "ConnectAck" => Answered(m.from, m.to)
  <2>1. /\ e.to \in Others(p) /\ e.command \in {"Connect", "ConnectAck", "Ping", "Finished"}
        /\ e.npid \in Everyone /\ e.npid = IF e.command = "Ping" THEN e.to ELSE p
    BY <1>1, ItemFields
  <2>2. PICK to, command, npid, c :
          to = e.to /\ command = e.command /\ npid = e.npid /\ c = conn[p][e.to]
    OBVIOUS
  <2>3. DatagramOK(m) /\ m.from = p /\ m.to = to /\ m.command = command
    BY <1>2, <2>1, <2>2, SentIsOK DEF Commands
  <2>4. Has(queue[p], to, command)
    BY <2>2 DEF Has
  <2>5. Undisturbed => ~ Has(queue[p], to, "Finished")
    BY <2>1, <2>2 DEF SignalInv, Steady
  <2> QED BY <2>1, <2>2, <2>3, <2>4, <2>5 DEF Answered, Closing
<1> QED BY <1>2 DEF SentOf

LEMMA Halves ==
  ASSUME NEW n \in Nat
  PROVE  1 .. (n + 1) \div 2 \subseteq 1 .. n /\ (n > 0 => 0 .. (n - 1) \div 2 \subseteq 0 .. n - 1)
OBVIOUS

LEMMA PassKeeps ==
  ASSUME SignalInv, NEW p \in Nodes, NEW n, HandleQueuedMessages(p, n)
  PROVE  SignalInv'
<1>1. QueueOK(p, queue[p]) /\ Len(queue[p]) \in Nat
  BY LenProperties DEF SignalInv, QueueOK
<1>2. n \in 0 .. Len(queue[p])
  <2>1. n \in 1 .. (Len(queue[p]) + 1) \div 2
    BY DEF HandleQueuedMessages
  <2>2. n \in 1 .. Len(queue[p])
    BY <1>1, <2>1, Halves
  <2> QED BY <2>2
<1>3. PICK s : /\ s = QueuePass(queue[p], n)
               /\ queue' = [queue EXCEPT ![p] = s.q] /\ net' = net \union SentOf(p, s.sent)
  BY DEF HandleQueuedMessages, SentOf
<1>4. /\ QueueOK(p, s.q) /\ \A y, k : Has(s.q, y, k) <=> Has(queue[p], y, k)
      /\ s.sent \subseteq Elements(queue[p])
  BY <1>1, <1>2, <1>3, PassSends
<1>5. /\ \A m \in SentOf(p, s.sent) : DatagramOK(m)
      /\ Undisturbed => \A m \in SentOf(p, s.sent) :
                          /\ m.command \notin Closing
                          /\ m.command = "ConnectAck" => Answered(m.from, m.to)
  BY <1>4, PassDatagrams
<1>6. UNCHANGED <<conn, asked, inits, stops, refused>>
  BY DEF HandleQueuedMessages
<1>7. CountersOK'
  BY <1>6 DEF SignalInv, CountersOK
<1>8. /\ \A m \in net' : DatagramOK(m)
      /\ Undisturbed => \A m \in net' : /\ m.command \notin Closing
                                        /\ m.command = "ConnectAck" => Answered(m.from, m.to)
  BY <1>3, <1>5 DEF SignalInv, Steady
<1>9. /\ DOMAIN queue' = Nodes
      /\ \A x \in Nodes : QueueOK(x, queue'[x]) /\ \A y, k : Has(queue'[x], y, k) <=> Has(queue[x], y, k)
  BY <1>3, <1>4 DEF SignalInv
<1> QED BY <1>6, <1>7, <1>8, <1>9, NetChangeKeeps

LEMMA TimeOutKeeps ==
  ASSUME SignalInv, NEW p \in Nodes, NEW n, TimeOut(p, n)
  PROVE  SignalInv'
<1>1. QueueOK(p, queue[p]) /\ Len(queue[p]) \in Nat /\ queue[p] \in Seq(Item(p))
  BY LenProperties DEF SignalInv, QueueOK
<1>2. n \in 0 .. Len(queue[p]) - 1
  <2>1. n \in 0 .. (Len(queue[p]) - 1) \div 2 /\ queue[p] # <<>>
    BY DEF TimeOut
  <2>2. Len(queue[p]) > 0
    BY <1>1, <2>1, EmptySeq
  <2> QED BY <1>1, <2>1, <2>2, Halves
<1>3. PICK s : /\ s = QueuePass(queue[p], n)
               /\ LET r == s.q[s.at].to
                  IN  /\ conn' = [conn EXCEPT ![p][r] = ToInactive(@)]
                      /\ queue' = [queue EXCEPT ![p] =
                                     RetirePacket(RetireIfDying(conn[p][r], s.q, r), r, "Ping")]
                      /\ net' = net \union SentOf(p, s.sent)
  BY DEF TimeOut, SentOf
<1>4. /\ QueueOK(p, s.q) /\ \A y, k : Has(s.q, y, k) <=> Has(queue[p], y, k)
      /\ s.sent \subseteq Elements(queue[p]) /\ s.at = n + 1 /\ Len(s.q) = Len(queue[p])
  <2>1. n \in 0 .. Len(queue[p])
    BY <1>1, <1>2
  <2> QED BY <1>1, <1>3, <2>1, PassSends
<1>5. PICK r \in Others(p) : r = s.q[s.at].to
  <2>1. s.q \in Seq(Item(p)) /\ s.at \in 1 .. Len(s.q)
    BY <1>1, <1>2, <1>4 DEF QueueOK
  <2>2. s.q[s.at] \in Item(p)
    BY <2>1, ElementOfSeq
  <2> QED BY <2>2, ItemFields
<1>6. PICK c : c = ToInactive(conn[p][r])
  OBVIOUS
<1>7. /\ c \in Connections /\ c.known = conn[p][r].known /\ c.addr = conn[p][r].addr
      /\ c.status = "INACTIVE" /\ Told(c, stops[p][r])
  <2>1. conn[p][r] \in Connections /\ PeerOK(p, r)
    BY PeerFacts
  <2>2. PICK d \in Connections : d = conn[p][r] /\ Told(d, stops[p][r])
    BY <2>1 DEF PeerOK
  <2> QED BY <1>6, <2>2, MadeInactive
<1>8. PICK rest : rest = RetireIfDying(conn[p][r], s.q, r)
  OBVIOUS
<1>9. /\ QueueOK(p, rest) /\ \A y, k : Has(rest, y, k) => Has(s.q, y, k)
      /\ \A y, k : Has(s.q, y, k) => Has(rest, y, k) \/ y = r
  <2>1. PICK d, b : d = conn[p][r] /\ b = s.q
    OBVIOUS
  <2>2. QueueOK(p, b) /\ rest = RetireIfDying(d, b, r)
    BY <1>4, <1>8, <2>1
  <2>3. /\ QueueOK(p, rest) /\ \A y, k : Has(rest, y, k) => Has(b, y, k)
        /\ \A y, k : Has(b, y, k) => Has(rest, y, k) \/ y = r
    BY <2>2, DyingRetired
  <2> QED BY <2>1, <2>3
<1>10. PICK q : q = RetirePacket(rest, r, "Ping")
  OBVIOUS
<1>11. /\ QueueOK(p, q) /\ \A y, k : Has(q, y, k) => Has(rest, y, k)
       /\ \A y, k : Has(rest, y, k) => Has(q, y, k) \/ (y = r /\ k = "Ping")
       /\ ~ Has(q, r, "Ping")
  <2>1. /\ QueueOK(p, q) /\ \A y, k : Has(q, y, k) => Has(rest, y, k)
        /\ \A y, k : Has(rest, y, k) => Has(q, y, k) \/ (y = r /\ k = "Ping")
    BY <1>9, <1>10, OneRetired
  <2>2. ~ Has(q, r, "Ping")
    BY <1>9, <1>10, PingRetired
  <2> QED BY <2>1, <2>2
<1>12. AboutPeer(p, r, q)
  BY <1>4, <1>9, <1>11 DEF AboutPeer
<1>13. PICK sent : sent = SentOf(p, s.sent)
  OBVIOUS
<1>14. \A m \in sent : DatagramOK(m)
  BY <1>4, <1>13, PassDatagrams
<1>15. Changed(p, r, c, q, sent)
  BY <1>3, <1>5, <1>6, <1>8, <1>10, <1>13 DEF Changed, SignalInv
<1>16. UNCHANGED <<asked, inits, stops, refused>> /\ ~ Undisturbed
  BY DEF TimeOut, Undisturbed
<1>17. CountersOK' /\ OtherCounters(p, r)
  BY <1>16 DEF SignalInv, CountersOK, OtherCounters
<1>18. Told(c, stops'[p][r]) /\ c.status # "PENDING"
  BY <1>7, <1>16
<1> QED BY <1>7, <1>11, <1>12, <1>14, <1>15, <1>16, <1>17, <1>18, ChangeKeeps


-----------------------------------------------------------------------------
(* HandleIncomingMessage.                                                  *)

\* What is known of a datagram that arrives.
Incoming(m) ==
  /\ m.to \in Nodes /\ m.from \in Others(m.to) /\ m.npid \in Everyone
  /\ m.from \in Nodes <=> m.npid \in Nodes
  /\ m.command \in {"Connect", "ConnectAck", "Confirm"} => m.npid = m.from
  /\ Undisturbed /\ m.from \in Nodes
       => m.command \notin Closing /\ (m.command = "ConnectAck" => Answered(m.from, m.to))

LEMMA NetIsIncoming ==
  ASSUME SignalInv, NEW m \in net
  PROVE  Incoming(m)
<1>1. DatagramOK(m)
  BY DEF SignalInv
<1>2. Undisturbed => m.command \notin Closing /\ (m.command = "ConnectAck" => Answered(m.from, m.to))
  BY DEF SignalInv, Steady
<1> QED BY <1>1, <1>2 DEF Incoming, DatagramOK, Packet, Others, Everyone

LEMMA StrangersAreIncoming ==
  ASSUME NEW m \in FromStrangers, m.npid = m.from
  PROVE  Incoming(m)
<1>1. m.from \in Strangers /\ m.to \in Nodes
  BY DEF FromStrangers
<1>2. m.from \notin Nodes /\ m.from # m.to
  BY <1>1
<1> QED BY <1>1, <1>2 DEF Incoming, Others, Everyone

LEMMA UpdateKeeps ==
  ASSUME SignalInv, NEW p \in Nodes, NEW r \in Others(p), NEW m, m.to = p, m.npid = r,
         NEW c \in Connections, NEW q, NEW sent, NEW kept, Update(m, c, q, sent, kept),
         AboutPeer(p, r, q), QueueOK(p, q),
         Has(q, r, "Ping") => c.known /\ c.addr,
         c.status = "PENDING" => /\ conn[p][r].status = "PENDING"
                                 /\ Has(queue[p], r, "Connect") => Has(q, r, "Connect"),
         Told(c, stops[p][r]),
         \A d \in sent : DatagramOK(d),
         Undisturbed => Quiet(p, r, c, q, sent)
  PROVE  SignalInv'
<1>1. Changed(p, r, c, q, sent)
  BY DEF Update, Rest, Changed, SignalInv
<1>2. UNCHANGED <<asked, inits, stops, refused>>
  BY DEF Update
<1>3. CountersOK' /\ OtherCounters(p, r)
  BY <1>2 DEF SignalInv, CountersOK, OtherCounters
<1>4. c.status = "PENDING" /\ ~ refused' => asked'[p][r] > 0 \/ Has(q, r, "Connect")
  BY <1>2, PeerFacts DEF PeerOK
<1>5. Told(c, stops'[p][r])
  BY <1>2
<1> QED BY <1>1, <1>2, <1>3, <1>4, <1>5, ChangeKeeps

LEMMA ReplyIsOK ==
  ASSUME NEW m, Incoming(m), NEW command \in Commands
  PROVE  \A d \in Reply(m, command) :
           /\ command # "Ping" => DatagramOK(d)
           /\ d.from = m.to /\ d.to = m.from /\ d.command = command
<1>1. CASE m.from \in Nodes
  <2> DEFINE d == [from |-> m.to, to |-> m.from, command |-> command, npid |-> m.to]
  <2>1. Reply(m, command) = {d}
    BY <1>1 DEF Reply
  <2>2. d \in Packet /\ d.from = m.to /\ d.to = m.from /\ d.command = command /\ d.npid = m.to
    BY <1>1 DEF Packet, Incoming
  <2> HIDE DEF d
  <2> QED BY <2>1, <2>2 DEF DatagramOK, Incoming, Others
<1>2. CASE m.from \notin Nodes
  BY <1>2 DEF Reply
<1> QED BY <1>1, <1>2

LEMMA FirstPingIsOK ==
  ASSUME NEW p \in Nodes, NEW r \in Others(p), NEW c, NEW q
  PROVE  \A d \in FirstPing(p, c, q, r, r) : DatagramOK(d) /\ d.command = "Ping"
<1>1. \A d \in Send(p, c, r, "Ping", r) : DatagramOK(d) /\ d.command = "Ping"
  BY SentIsOK DEF Commands, Others
<1> QED BY <1>1 DEF FirstPing

LEMMA KnownPeer ==
  ASSUME NEW m, Incoming(m), Known(m)
  PROVE  m.to \in Nodes /\ m.npid \in Others(m.to) /\ conn[m.to][m.npid].known
BY DEF Incoming, Known, Others

LEMMA NoneFinished ==
  ASSUME SignalInv, NEW p \in Nodes, NEW r \in Others(p), Undisturbed
  PROVE  ~ Has(queue[p], r, "Finished")
BY DEF SignalInv, Steady

\* A datagram that changes no connection.
LEMMA NetStepKeeps ==
  ASSUME SignalInv, UNCHANGED <<conn, queue, asked, inits, stops, refused>>,
         NEW sent, net' \subseteq net \union sent, \A d \in sent : DatagramOK(d),
         Undisturbed => \A d \in sent : /\ d.command \notin Closing
                                        /\ d.command = "ConnectAck" => Answered(d.from, d.to)
  PROVE  SignalInv'
<1>2. CountersOK'
  BY DEF SignalInv, CountersOK
<1>3. Undisturbed => \A d \in net' : /\ d.command \notin Closing
                                     /\ d.command = "ConnectAck" => Answered(d.from, d.to)
  BY DEF SignalInv, Steady
<1>4. DOMAIN queue' = Nodes /\ \A x \in Nodes : QueueOK(x, queue'[x])
  BY DEF SignalInv
<1>5. \A d \in net' : DatagramOK(d)
  BY DEF SignalInv
<1> QED BY <1>2, <1>3, <1>4, <1>5, NetChangeKeeps

LEMMA DropKeeps ==
  ASSUME SignalInv, NEW m, Incoming(m), NEW kept, DropUnknown(m, kept) \/ FinishedByUnknown(m, kept)
  PROVE  SignalInv'
<1>1. CASE DropUnknown(m, kept)
  BY <1>1, NetStepKeeps DEF DropUnknown, Rest
<1>2. CASE FinishedByUnknown(m, kept)
  <2>1. /\ UNCHANGED <<conn, queue, asked, inits, stops, refused>> /\ m.command = "Finished"
        /\ net' \subseteq net \union Reply(m, "FinishedAck")
    BY <1>2 DEF FinishedByUnknown, Rest
  <2>2. \A d \in Reply(m, "FinishedAck") : DatagramOK(d)
    BY ReplyIsOK DEF Commands
  <2>3. Undisturbed => Reply(m, "FinishedAck") = {}
    BY <2>1 DEF Incoming, Reply, Closing
  <2> QED BY <2>1, <2>2, <2>3, NetStepKeeps
<1> QED BY <1>1, <1>2

LEMMA PingKeeps ==
  ASSUME SignalInv, NEW m, Incoming(m), NEW kept, ReceivePing(m, kept)
  PROVE  SignalInv'
<1>1. PICK p, r : p = m.to /\ r = m.npid /\ p \in Nodes /\ r \in Others(p)
  BY KnownPeer DEF ReceivePing
<1> USE <1>1
<1>2. PICK c, q, sent : c = conn[p][r] /\ q = queue[p] /\ sent = Reply(m, "Pong")
  OBVIOUS
<1>3. Update(m, c, q, sent, kept)
  BY <1>1, <1>2 DEF ReceivePing
<1>4. \A d \in sent : DatagramOK(d) /\ d.command = "Pong"
  BY <1>2, ReplyIsOK DEF Commands
<1>5. Undisturbed => Quiet(p, r, c, q, sent)
  BY <1>2, <1>4, NoneFinished DEF Quiet, Answered, Closing
<1>6. AboutPeer(p, r, q)
  BY <1>2 DEF AboutPeer
<1>7. c \in Connections /\ QueueOK(p, q) /\ PeerOK(p, r)
  BY <1>2, PeerFacts
<1> QED BY <1>1, <1>2, <1>3, <1>4, <1>5, <1>6, <1>7, UpdateKeeps DEF PeerOK

LEMMA PongKeeps ==
  ASSUME SignalInv, NEW m, Incoming(m), NEW kept, ReceivePong(m, kept)
  PROVE  SignalInv'
<1>1. PICK p, r : p = m.to /\ r = m.npid /\ p \in Nodes /\ r \in Others(p)
  <2>1. Known(m)
    BY DEF ReceivePong
  <2> QED BY <2>1, KnownPeer
<1> USE <1>1
<1>2. PICK c, b : c = conn[p][r] /\ b = queue[p]
  OBVIOUS
<1>3. c \in Connections /\ QueueOK(p, b) /\ PeerOK(p, r)
  BY <1>2, PeerFacts
<1>4. PICK q : /\ q = IF Places(b, r, "Ping") = {} THEN b
                      ELSE Append(RemoveAt(b, FirstOf(Places(b, r, "Ping"))),
                                  b[FirstOf(Places(b, r, "Ping"))])
               /\ Update(m, c, q, {}, kept)
  BY <1>1, <1>2 DEF ReceivePong
<1>5. QueueOK(p, q) /\ \A y, k : Has(q, y, k) <=> Has(b, y, k)
  <2>1. CASE Places(b, r, "Ping") = {}
    BY <1>3, <1>4, <2>1
  <2>2. CASE Places(b, r, "Ping") # {}
    BY <1>3, <1>4, <2>2, PingMoved
  <2> QED BY <2>1, <2>2
<1>6. Undisturbed => Quiet(p, r, c, q, {})
  BY <1>2, <1>5, NoneFinished DEF Quiet, Answered
<1>7. AboutPeer(p, r, q)
  BY <1>2, <1>5 DEF AboutPeer
<1> QED BY <1>1, <1>2, <1>3, <1>4, <1>5, <1>6, <1>7, UpdateKeeps DEF PeerOK


LEMMA InfoKeeps ==
  ASSUME SignalInv, NEW m, Incoming(m), NEW kept, ReceiveInfo(m, kept)
  PROVE  SignalInv'
<1>1. PICK p, r : p = m.to /\ r = m.npid /\ p \in Nodes /\ r \in Others(p)
  <2>1. m.npid # m.to
    BY DEF ReceiveInfo
  <2> QED BY <2>1 DEF Incoming, Others
<1> USE <1>1
<1>2. PICK d, q : d = conn[p][r] /\ q = queue[p]
  OBVIOUS
<1>3. d \in Connections /\ QueueOK(p, q) /\ PeerOK(p, r)
  BY <1>2, PeerFacts
<1>4. PICK k : k = [d EXCEPT !.known = TRUE]
  OBVIOUS
<1>5. PICK c : c = UpdateAddress(k)
  OBVIOUS
<1>6. /\ c \in Connections /\ c.addr /\ c.known /\ c.status = d.status
      /\ c.activated = d.activated /\ c.told = d.told /\ c.ext = d.ext
  <2>1. /\ k \in Connections /\ k.known /\ k.status = d.status
        /\ k.activated = d.activated /\ k.told = d.told /\ k.ext = d.ext
    BY <1>3, <1>4, MadeKnown
  <2> QED BY <1>5, <2>1, AddressUpdated
<1>7. Update(m, c, q, {}, kept)
  BY <1>1, <1>2, <1>4, <1>5 DEF ReceiveInfo
<1>8. Undisturbed => Quiet(p, r, c, q, {})
  BY <1>2, <1>6, NoneFinished DEF Quiet, Answered
<1>9. AboutPeer(p, r, q)
  BY <1>2 DEF AboutPeer
<1>10. Told(c, stops[p][r])
  BY <1>2, <1>3, <1>6 DEF PeerOK, Told
<1> QED BY <1>1, <1>2, <1>3, <1>6, <1>7, <1>8, <1>9, <1>10, UpdateKeeps

LEMMA ConnectKeeps ==
  ASSUME SignalInv, NEW m, Incoming(m), NEW kept, ReceiveConnect(m, kept)
  PROVE  SignalInv'
<1>1. PICK p, r : p = m.to /\ r = m.npid /\ p \in Nodes /\ r \in Others(p)
  <2>1. m.npid # m.to
    BY DEF ReceiveConnect
  <2> QED BY <2>1 DEF Incoming, Others
<1> USE <1>1
<1>2. PICK d, b : d = conn[p][r] /\ b = queue[p]
  OBVIOUS
<1>3. d \in Connections /\ QueueOK(p, b) /\ PeerOK(p, r)
  BY <1>2, PeerFacts
<1>4. PICK k : k = [d EXCEPT !.known = TRUE]
  OBVIOUS
<1>5. PICK c : c = UpdateAddress(k)
  OBVIOUS
<1>6. /\ c \in Connections /\ c.addr /\ c.known /\ c.status = d.status
      /\ c.activated = d.activated /\ c.told = d.told /\ c.ext = d.ext
  <2>1. /\ k \in Connections /\ k.known /\ k.status = d.status
        /\ k.activated = d.activated /\ k.told = d.told /\ k.ext = d.ext
    BY <1>3, <1>4, MadeKnown
  <2> QED BY <1>5, <2>1, AddressUpdated
<1>7. PICK q, sent : q = Append(b, QueueEntry(r, "ConnectAck", p)) /\ sent = Reply(m, "ConnectAck")
  OBVIOUS
<1>8. QueueOK(p, q) /\ \A y, l : Has(q, y, l) <=> Has(b, y, l) \/ (y = r /\ l = "ConnectAck")
  BY <1>3, <1>7, QueuedEntry
<1>9. Update(m, c, q, sent, kept) /\ m.command = "Connect"
  BY <1>1, <1>2, <1>4, <1>5, <1>7 DEF ReceiveConnect
<1>10. \A e \in sent : DatagramOK(e) /\ e.command = "ConnectAck" /\ e.from = p /\ e.to = r
  BY <1>1, <1>7, <1>9, ReplyIsOK DEF Commands, Incoming
<1>11. Undisturbed => Quiet(p, r, c, q, sent)
  <2>1. Undisturbed => ~ Has(q, r, "Finished")
    BY <1>2, <1>8, NoneFinished
  <2>2. Has(q, r, "ConnectAck")
    BY <1>8
  <2> QED BY <1>2, <1>6, <1>10, <2>1, <2>2 DEF Quiet, Closing
<1>12. AboutPeer(p, r, q)
  BY <1>2, <1>8 DEF AboutPeer
<1>13. Told(c, stops[p][r])
  BY <1>2, <1>3, <1>6 DEF PeerOK, Told
<1>14. Has(b, r, "Connect") => Has(q, r, "Connect")
  BY <1>8
<1> QED BY <1>1, <1>2, <1>6, <1>8, <1>9, <1>10, <1>11, <1>12, <1>13, <1>14, UpdateKeeps

LEMMA ConnectAckKeeps ==
  ASSUME SignalInv, NEW m, Incoming(m), NEW kept, ReceiveConnectAck(m, kept)
  PROVE  SignalInv'
<1>0. Known(m) /\ m.command = "ConnectAck"
  BY DEF ReceiveConnectAck
<1>1. PICK p, r : p = m.to /\ r = m.npid /\ p \in Nodes /\ r \in Others(p)
  BY <1>0, KnownPeer
<1> USE <1>1
<1>2. PICK d, b : d = conn[p][r] /\ b = queue[p]
  OBVIOUS
<1>3. d \in Connections /\ QueueOK(p, b) /\ PeerOK(p, r) /\ Told(d, stops[p][r]) /\ d.known
  BY <1>0, <1>1, <1>2, PeerFacts, KnownPeer DEF PeerOK
<1>4. PICK k : k = UpdateAddress(d)
  OBVIOUS
<1>5. /\ k \in Connections /\ k.addr /\ k.known = d.known /\ k.status = d.status
      /\ k.activated = d.activated /\ k.told = d.told /\ k.ext = d.ext
  BY <1>3, <1>4, AddressUpdated
<1>6. PICK c : c = ToActive(k)
  OBVIOUS
<1>7. /\ c \in Connections /\ c.known /\ c.addr /\ c.activated = d.activated
      /\ c.status # "PENDING" /\ Told(c, stops[p][r])
  <2>1. Told(k, stops[p][r])
    BY <1>3, <1>5 DEF Told
  <2> QED BY <1>3, <1>5, <1>6, <2>1, MadeActive
<1>8. PICK h : h = SetupPing(b, r, r)
  OBVIOUS
<1>9. QueueOK(p, h) /\ \A y, l : Has(h, y, l) <=> Has(b, y, l) \/ (y = r /\ l = "Ping")
  BY <1>3, <1>8, PingSetUp
<1>10. PICK q : q = RetirePacket(h, r, "Connect")
  OBVIOUS
<1>11. /\ QueueOK(p, q) /\ \A y, l : Has(q, y, l) => Has(h, y, l)
       /\ \A y, l : Has(h, y, l) => Has(q, y, l) \/ (y = r /\ l = "Connect")
  BY <1>9, <1>10, OneRetired
<1>12. PICK sent : sent = FirstPing(p, d, b, r, r) \union Reply(m, "Confirm")
  OBVIOUS
<1>13. Update(m, c, q, sent, kept)
  BY <1>1, <1>2, <1>4, <1>6, <1>8, <1>10, <1>12 DEF ReceiveConnectAck
<1>14. \A e \in sent : DatagramOK(e) /\ e.command \in {"Ping", "Confirm"}
  <2>1. \A e \in FirstPing(p, d, b, r, r) : DatagramOK(e) /\ e.command = "Ping"
    BY FirstPingIsOK
  <2>2. \A e \in Reply(m, "Confirm") : DatagramOK(e) /\ e.command = "Confirm"
    BY ReplyIsOK DEF Commands
  <2> QED BY <1>12, <2>1, <2>2
<1>15. AboutPeer(p, r, q)
  BY <1>2, <1>9, <1>11 DEF AboutPeer
<1>16. Undisturbed => Quiet(p, r, c, q, sent)
  <2> SUFFICES ASSUME Undisturbed PROVE Quiet(p, r, c, q, sent)
    OBVIOUS
  <2>1. ~ Has(q, r, "Finished")
    BY <1>2, <1>9, <1>11, NoneFinished
  <2>2. Has(b, r, "ConnectAck") => Has(q, r, "ConnectAck")
    BY <1>9, <1>11
  <2>3. r \in Nodes => Answered(r, p)
    BY <1>0, <1>1 DEF Incoming
  <2> QED BY <1>2, <1>7, <1>14, <2>1, <2>2, <2>3 DEF Quiet, Answered, Closing
<1> QED BY <1>1, <1>7, <1>11, <1>13, <1>14, <1>15, <1>16, UpdateKeeps

LEMMA ConfirmKeeps ==
  ASSUME SignalInv, NEW m, Incoming(m), NEW kept, ReceiveConfirm(m, kept)
  PROVE  SignalInv'
<1>0. Known(m)
  BY DEF ReceiveConfirm
<1>1. PICK p, r : p = m.to /\ r = m.npid /\ p \in Nodes /\ r \in Others(p)
  BY <1>0, KnownPeer
<1> USE <1>1
<1>2. PICK d, b : d = conn[p][r] /\ b = queue[p]
  OBVIOUS
<1>3. d \in Connections /\ QueueOK(p, b) /\ PeerOK(p, r) /\ Told(d, stops[p][r]) /\ d.known
  BY <1>0, <1>1, <1>2, PeerFacts, KnownPeer DEF PeerOK
<1>4. PICK k : k = UpdateAddress(d)
  OBVIOUS
<1>5. /\ k \in Connections /\ k.addr /\ k.known = d.known /\ k.status = d.status
      /\ k.activated = d.activated /\ k.told = d.told /\ k.ext = d.ext
  BY <1>3, <1>4, AddressUpdated
<1>6. PICK c : c = UpdateExtendedStatus(k, TRUE)
  OBVIOUS
<1>7. /\ c \in Connections /\ c.known /\ c.addr /\ c.activated
      /\ c.status = d.status /\ Told(c, stops[p][r])
  <2>1. Told(k, stops[p][r])
    BY <1>3, <1>5 DEF Told
  <2> QED BY <1>3, <1>5, <1>6, <2>1, Activated
<1>8. PICK h : h = SetupPing(b, r, r)
  OBVIOUS
<1>9. QueueOK(p, h) /\ \A y, l : Has(h, y, l) <=> Has(b, y, l) \/ (y = r /\ l = "Ping")
  BY <1>3, <1>8, PingSetUp
<1>10. PICK q : q = RetirePacket(h, r, "ConnectAck")
  OBVIOUS
<1>11. /\ QueueOK(p, q) /\ \A y, l : Has(q, y, l) => Has(h, y, l)
       /\ \A y, l : Has(h, y, l) => Has(q, y, l) \/ (y = r /\ l = "ConnectAck")
  BY <1>9, <1>10, OneRetired
<1>12. PICK sent : sent = FirstPing(p, d, b, r, r)
  OBVIOUS
<1>13. Update(m, c, q, sent, kept)
  BY <1>1, <1>2, <1>4, <1>6, <1>8, <1>10, <1>12 DEF ReceiveConfirm
<1>14. \A e \in sent : DatagramOK(e) /\ e.command = "Ping"
  BY <1>12, FirstPingIsOK
<1>15. AboutPeer(p, r, q)
  BY <1>2, <1>9, <1>11 DEF AboutPeer
<1>16. Undisturbed => Quiet(p, r, c, q, sent)
  <2>1. Undisturbed => ~ Has(q, r, "Finished")
    BY <1>2, <1>9, <1>11, NoneFinished
  <2> QED BY <1>2, <1>7, <1>14, <2>1 DEF Quiet, Closing
<1>17. Has(b, r, "Connect") => Has(q, r, "Connect")
  BY <1>9, <1>11
<1> QED BY <1>1, <1>2, <1>7, <1>11, <1>13, <1>14, <1>15, <1>16, <1>17, UpdateKeeps


LEMMA FinishedKeeps ==
  ASSUME SignalInv, NEW m, Incoming(m), NEW kept, ReceiveFinished(m, kept)
  PROVE  SignalInv'
<1>0. Known(m) /\ m.command = "Finished"
  BY DEF ReceiveFinished
<1>1. PICK p, r : p = m.to /\ r = m.npid /\ p \in Nodes /\ r \in Others(p)
  BY <1>0, KnownPeer
<1> USE <1>1
<1>2. PICK d, b : d = conn[p][r] /\ b = queue[p]
  OBVIOUS
<1>3. d \in Connections /\ QueueOK(p, b) /\ PeerOK(p, r) /\ Told(d, stops[p][r]) /\ d.known
  BY <1>0, <1>2, PeerFacts, KnownPeer DEF PeerOK
<1>4. PICK k : k = UpdateExtendedStatus(d, FALSE)
  OBVIOUS
<1>5. k \in Connections /\ k.known /\ k.addr = d.addr /\ Told(k, stops[p][r])
  BY <1>3, <1>4, Deactivated
<1>6. PICK c : c = ToInactive(k)
  OBVIOUS
<1>7. /\ c \in Connections /\ c.known /\ c.addr = d.addr /\ c.status = "INACTIVE"
      /\ Told(c, stops[p][r])
  BY <1>5, <1>6, MadeInactive
<1>8. PICK q : q = RetireIfDying(d, b, r)
  OBVIOUS
<1>9. /\ QueueOK(p, q) /\ \A y, l : Has(q, y, l) => Has(b, y, l)
      /\ \A y, l : Has(b, y, l) => Has(q, y, l) \/ y = r
  BY <1>3, <1>8, DyingRetired
<1>10. PICK sent : sent = Reply(m, "FinishedAck")
  OBVIOUS
<1>11. Update(m, c, q, sent, kept)
  BY <1>2, <1>4, <1>6, <1>8, <1>10 DEF ReceiveFinished
<1>12. \A e \in sent : DatagramOK(e)
  BY <1>10, ReplyIsOK DEF Commands
<1>13. AboutPeer(p, r, q)
  BY <1>2, <1>9 DEF AboutPeer
<1>14. Undisturbed => Quiet(p, r, c, q, sent)
  <2> SUFFICES ASSUME Undisturbed PROVE Quiet(p, r, c, q, sent)
    OBVIOUS
  <2>1. ~ Has(q, r, "Finished")
    BY <1>2, <1>9, NoneFinished
  <2>2. r \notin Nodes /\ sent = {}
    BY <1>0, <1>10 DEF Incoming, Closing, Reply
  <2> QED BY <2>1, <2>2 DEF Quiet
<1>15. Has(q, r, "Ping") => c.known /\ c.addr
  BY <1>2, <1>3, <1>7, <1>9 DEF PeerOK
<1>16. c.status # "PENDING"
  BY <1>7
<1> QED BY <1>7, <1>9, <1>11, <1>12, <1>13, <1>14, <1>15, <1>16, UpdateKeeps

LEMMA FinishedAckKeeps ==
  ASSUME SignalInv, NEW m, Incoming(m), NEW kept, ReceiveFinishedAck(m, kept)
  PROVE  SignalInv'
<1>0. Known(m) /\ m.command = "FinishedAck"
  BY DEF ReceiveFinishedAck
<1>1. PICK p, r : p = m.to /\ r = m.npid /\ p \in Nodes /\ r \in Others(p)
  BY <1>0, KnownPeer
<1> USE <1>1
<1>2. PICK d, b : d = conn[p][r] /\ b = queue[p]
  OBVIOUS
<1>3. d \in Connections /\ QueueOK(p, b) /\ PeerOK(p, r) /\ Told(d, stops[p][r]) /\ d.known
  BY <1>0, <1>2, PeerFacts, KnownPeer DEF PeerOK
<1>4. PICK c : c = ToInactive(d)
  OBVIOUS
<1>5. /\ c \in Connections /\ c.known /\ c.addr = d.addr /\ c.status = "INACTIVE"
      /\ Told(c, stops[p][r])
  BY <1>3, <1>4, MadeInactive
<1>6. PICK h : h = RetireIfDying(d, b, r)
  OBVIOUS
<1>7. /\ QueueOK(p, h) /\ \A y, l : Has(h, y, l) => Has(b, y, l)
      /\ \A y, l : Has(b, y, l) => Has(h, y, l) \/ y = r
  BY <1>3, <1>6, DyingRetired
<1>8. PICK q : q = RetirePacket(h, r, "Finished")
  OBVIOUS
<1>9. /\ QueueOK(p, q) /\ \A y, l : Has(q, y, l) => Has(h, y, l)
      /\ \A y, l : Has(h, y, l) => Has(q, y, l) \/ (y = r /\ l = "Finished")
  BY <1>7, <1>8, OneRetired
<1>10. Update(m, c, q, {}, kept)
  BY <1>2, <1>4, <1>6, <1>8 DEF ReceiveFinishedAck
<1>11. AboutPeer(p, r, q)
  BY <1>2, <1>7, <1>9 DEF AboutPeer
<1>12. Undisturbed => Quiet(p, r, c, q, {})
  <2> SUFFICES ASSUME Undisturbed PROVE Quiet(p, r, c, q, {})
    OBVIOUS
  <2>1. ~ Has(q, r, "Finished")
    BY <1>2, <1>7, <1>9, NoneFinished
  <2>2. r \notin Nodes
    BY <1>0 DEF Incoming, Closing
  <2> QED BY <2>1, <2>2 DEF Quiet
<1>13. Has(q, r, "Ping") => c.known /\ c.addr
  BY <1>2, <1>3, <1>5, <1>7, <1>9 DEF PeerOK
<1>14. c.status # "PENDING"
  BY <1>5
<1> QED BY <1>5, <1>9, <1>10, <1>11, <1>12, <1>13, <1>14, UpdateKeeps

LEMMA ReceiveKeeps ==
  ASSUME SignalInv, NEW m, Incoming(m), NEW kept, Receive(m, kept)
  PROVE  SignalInv'
BY DropKeeps, PingKeeps, PongKeeps, InfoKeeps, ConnectKeeps, ConnectAckKeeps, ConfirmKeeps,
   FinishedKeeps, FinishedAckKeeps DEF Receive

-----------------------------------------------------------------------------
(* Theorems.                                                               *)

LEMMA InvInitially == Init => SignalInv
<1> SUFFICES ASSUME Init PROVE SignalInv
  OBVIOUS
<1>1. NoConn \in Connections /\ NoConn.status = "INACTIVE" /\ ~ NoConn.activated
      /\ NoConn.told = "nothing" /\ NoConn.ext = "nothing"
  BY DEF NoConn, Connections
<1>2. <<>> \in Seq(Item(0)) /\ \A p : QueueOK(p, <<>>) /\ \A y, k : ~ Has(<<>>, y, k)
  BY DEF QueueOK, OnePing, Has, Elements
<1>3. \A p \in Nodes : conn[p] \in [Others(p) -> Connections] /\ QueueOK(p, queue[p])
  BY <1>1, <1>2 DEF Init
<1>4. CountersOK
  <2>1. ASSUME NEW p \in Nodes
        PROVE  /\ asked[p] \in [Others(p) -> Nat]
               /\ inits[p] \in [Others(p) -> 0 .. MaxInits[p]]
               /\ stops[p] \in [Others(p) -> 0 .. MaxStops[p]]
    <3>1. 0 \in 0 .. MaxInits[p] /\ 0 \in 0 .. MaxStops[p]
      OBVIOUS
    <3>2. /\ asked[p] = [q \in Others(p) |-> 0] /\ inits[p] = [q \in Others(p) |-> 0]
          /\ stops[p] = [q \in Others(p) |-> 0]
      BY DEF Init
    <3> QED BY <3>1, <3>2
  <2>2. DOMAIN asked = Nodes /\ DOMAIN inits = Nodes /\ DOMAIN stops = Nodes /\ refused \in BOOLEAN
    BY DEF Init
  <2> QED BY <2>1, <2>2 DEF CountersOK
<1>5. \A p \in Nodes : \A r \in Others(p) : conn[p][r] = NoConn /\ queue[p] = <<>>
  BY DEF Init
<1>6. \A p \in Nodes : \A r \in Others(p) : PeerOK(p, r)
  BY <1>1, <1>2, <1>5 DEF PeerOK, Told
<1>7. Steady
  <2>1. \A p \in Nodes : \A q \in Nodes \ {p} : conn[p][q].status # "ACTIVE"
    BY <1>1, <1>5 DEF Others, Everyone
  <2> QED BY <1>2, <1>5, <2>1 DEF Steady, Init
<1>8. DOMAIN conn = Nodes /\ DOMAIN queue = Nodes /\ net = {}
  BY DEF Init
<1> QED BY <1>3, <1>4, <1>6, <1>7, <1>8 DEF SignalInv

LEMMA InvKept == SignalInv /\ [Next]_vars => SignalInv'
<1> SUFFICES ASSUME SignalInv, [Next]_vars PROVE SignalInv'
  OBVIOUS
<1>1. CASE UNCHANGED vars
  <2>1. UNCHANGED <<conn, queue, asked, net, inits, stops, refused>>
    BY <1>1 DEF vars
  <2>2. CountersOK' /\ Undisturbed' = Undisturbed /\ Steady' = Steady
    BY <2>1 DEF SignalInv, CountersOK, Undisturbed, Steady, Answered
  <2> QED BY <2>1, <2>2 DEF SignalInv, PeerOK
<1>2. ASSUME NEW p \in Nodes, NEW q \in Others(p),
             InitSignaling(p, q) \/ StartSignaling(p, q) \/ InfoRefused(p, q) \/ StopSignaling(p, q)
      PROVE  SignalInv'
  BY <1>2, InitKeeps, StartKeeps, RefusalKeeps, StopKeeps
<1>3. ASSUME NEW p \in Nodes, NEW n, HandleQueuedMessages(p, n) \/ TimeOut(p, n)
      PROVE  SignalInv'
  BY <1>3, PassKeeps, TimeOutKeeps
<1>4. ASSUME NEW m \in net, NEW kept, Receive(m, kept) PROVE SignalInv'
  BY <1>4, NetIsIncoming, ReceiveKeeps
<1>5. ASSUME NEW m \in FromStrangers, m.npid = m.from, Receive(m, FALSE) PROVE SignalInv'
  BY <1>5, StrangersAreIncoming, ReceiveKeeps
<1>6. ASSUME NEW m \in net, Lose(m) PROVE SignalInv'
  BY <1>6, LossKeeps
<1> QED BY <1>1, <1>2, <1>3, <1>4, <1>5, <1>6 DEF Next

LEMMA Invariant == Spec => []SignalInv
BY InvInitially, InvKept, PTL DEF Spec

\* The types of the variables: whatever arrives, a queue holds packets of
\* other peers only, and of the kinds that are sent again.
THEOREM TypeCorrect == Spec => []TypeOK
<1>1. ASSUME SignalInv PROVE TypeOK
  <2>1. ASSUME NEW p \in Nodes, NEW i \in DOMAIN queue[p]
        PROVE  /\ queue[p][i] \in Entries /\ queue[p][i].to # p
               /\ queue[p][i].command \in {"Connect", "ConnectAck", "Ping", "Finished"}
    <3>1. queue[p][i] \in Item(p)
      BY <1>1, ElementOfSeq, LenProperties DEF SignalInv, QueueOK
    <3>2. queue[p][i] \in [to : Others(p), command : Commands, npid : Everyone]
      BY <3>1 DEF Item, Commands
    <3>3. queue[p][i] \in Entries
      BY <3>2 DEF Entries
    <3>4. queue[p][i].to # p
      BY <3>1, ItemFields DEF Others
    <3> QED BY <3>1, <3>3, <3>4, ItemFields
  <2> QED BY <1>1, <2>1 DEF TypeOK, SignalInv, CountersOK, DatagramOK
<1> QED BY <1>1, Invariant, PTL

\* A PENDING connection is pursued: RPCN is being asked where the peer is, or a
\* CONNECT is kept to be sent until it is answered, unless RPCN refused.
THEOREM PendingPursued == Spec => []PendingIsPursued
<1>1. ASSUME SignalInv PROVE PendingIsPursued
  BY <1>1, HasPlaces DEF SignalInv, PeerOK, PendingIsPursued
<1> QED BY <1>1, Invariant, PTL

\* However many CONNECT_ACKs and CONFIRMs come, a peer has one heartbeat, and
\* only a known peer with an address has.
THEOREM PingsAreSingle == Spec => []OnePingEach
<1>1. ASSUME SignalInv, NEW p \in Nodes, NEW q \in Others(p)
      PROVE  LET pings == Places(queue[p], q, "Ping")
             IN  Cardinality(pings) <= 1 /\ (pings # {} => conn[p][q].known /\ conn[p][q].addr)
  <2> DEFINE pings == Places(queue[p], q, "Ping")
  <2>1. \A i, j \in pings : i = j
    BY <1>1 DEF SignalInv, QueueOK, OnePing, Places
  <2>2. pings # {} => conn[p][q].known /\ conn[p][q].addr
    BY <1>1, HasPlaces DEF SignalInv, PeerOK
  <2> HIDE DEF pings
  <2>3. Cardinality(pings) <= 1
    <3>1. CASE pings = {}
      BY <3>1, FS_EmptySet
    <3>2. CASE pings # {}
      <4>1. PICK i : pings = {i}
        BY <2>1, <3>2
      <4> QED BY <4>1, FS_Singleton
    <3> QED BY <3>1, <3>2
  <2> QED BY <2>2, <2>3 DEF pings
<1>2. SignalInv => OnePingEach
  BY <1>1 DEF OnePingEach
<1> QED BY <1>2, Invariant, PTL

\* What the game was last told agrees with the connection, and a mutual
\* activation is announced whichever of CONNECT_ACK and CONFIRM came first.
THEOREM GameIsTold == Spec => []StatusIsTold
<1>1. ASSUME SignalInv PROVE StatusIsTold
  BY <1>1 DEF SignalInv, PeerOK, Told, StatusIsTold
<1> QED BY <1>1, Invariant, PTL

\* While nobody stops and nobody times out, a console that believes it is
\* connected has a peer that knows, or repeats the CONNECT_ACK.
THEOREM AcksAreRepeated == Spec => []AckIsRepeated
<1>1. ASSUME SignalInv PROVE AckIsRepeated
  <2>1. Undisturbed => Steady
    BY <1>1 DEF SignalInv
  <2> QED BY <2>1, HasPlaces DEF Steady, Answered, AckIsRepeated
<1> QED BY <1>1, Invariant, PTL

=============================================================================
