-------------------------- MODULE LazyCache_proof --------------------------
(***************************************************************************)
(* Proofs about LazyCache, for any files, readers, slots and sizes: the    *)
(* loop of RemoveFilesThatOverlap ends, and what it leaves; the types; and *)
(* what the cache promises of the files that have been synced.             *)
(***************************************************************************)
EXTENDS LazyCache, FiniteSetTheorems, WellFoundedInduction, TLAPS

USE CacheAssumption

-----------------------------------------------------------------------------
(* Numbers and loops.                                                      *)

Less == {ss \in Nat \X Nat : ss[1] < ss[2]}

\* A set of naturals that is not empty has a least element.
LEMMA LeastNatural ==
  ASSUME NEW T \in SUBSET Nat, T # {}
  PROVE  \E x \in T : \A y \in T : x <= y
<1>1. IsWellFoundedOn(Less, Nat)
  BY ONLY NatLessThanWellFounded DEF OpToRel, Less
<1>2. PICK x \in T : \A y \in T : ~ (<<y, x>> \in Less)
  BY <1>1, WFMin
<1>3. ASSUME NEW y \in T PROVE x <= y
  <2>1. x \in Nat /\ y \in Nat
    OBVIOUS
  <2>2. y < x => <<y, x>> \in Less
    BY <2>1 DEF Less
  <2> QED BY <1>2, <2>1, <2>2
<1> QED BY <1>3

\* A bounded one has a greatest, and that is its Max.
LEMMA GreatestNatural ==
  ASSUME NEW n \in Nat, NEW T \in SUBSET (0 .. n), T # {}
  PROVE  Max(T) \in T /\ \A y \in T : y <= Max(T)
<1> DEFINE D == {n - y : y \in T}
<1>1. D \in SUBSET Nat /\ D # {}
  <2>1. \A y \in T : n - y \in Nat
    OBVIOUS
  <2> QED BY <2>1
<1>2. PICK d \in D : \A e \in D : d <= e
  <2> HIDE DEF D
  <2> QED BY <1>1, LeastNatural
<1>3. PICK x \in T : d = n - x
  BY <1>2
<1>4. \A y \in T : x >= y
  <2> SUFFICES ASSUME NEW y \in T PROVE x >= y
    OBVIOUS
  <2>1. n - x <= n - y
    BY <1>2, <1>3
  <2> QED BY <2>1
<1>5. Max(T) \in T /\ \A y \in T : Max(T) >= y
  BY <1>4, Zenon DEF Max
<1> QED BY <1>5

\* What holds before a loop and is kept by each of its turns holds after them.
LEMMA AfterTurns ==
  ASSUME NEW n \in Nat, NEW P, 0 \in P, \A k \in 1 .. n : k - 1 \in P => k \in P
  PROVE  \A k \in 0 .. n : k \in P
<1> DEFINE T == (0 .. n) \ P
<1> SUFFICES ASSUME T # {} PROVE FALSE
  OBVIOUS
<1>1. PICK k \in T : \A m \in T : k <= m
  <2>1. T \in SUBSET Nat
    OBVIOUS
  <2> HIDE DEF T
  <2> QED BY <2>1, LeastNatural
<1>2. k \in 1 .. n /\ k - 1 \in 0 .. n
  BY <1>1
<1>3. k - 1 \notin T
  BY <1>1, <1>2
<1> QED BY <1>1, <1>2, <1>3

\* What a loop of n turns makes of b, when each turn is F.
Loops(f, n, b, F) == f[0] = b /\ \A k \in 1 .. n : f[k] = F[f[k - 1]]

LEMMA LoopExists ==
  ASSUME NEW n \in Nat, NEW D, NEW b \in D, NEW F, \A d \in D : F[d] \in D
  PROVE  \E f \in [0 .. n -> D] : Loops(f, n, b, F)
<1> DEFINE Upto(m) == {f \in [0 .. m -> D] : f[0] = b /\ \A k \in 1 .. m : f[k] = F[f[k - 1]]}
           P == {m \in 0 .. n : Upto(m) # {}}
<1>1. 0 \in P
  <2>1. [k \in 0 .. 0 |-> b] \in Upto(0)
    OBVIOUS
  <2> QED BY <2>1
<1>2. ASSUME NEW k \in 1 .. n, k - 1 \in P PROVE k \in P
  <2>1. PICK f \in Upto(k - 1) : TRUE
    BY <1>2
  <2>2. f \in [0 .. k - 1 -> D] /\ f[0] = b /\ \A j \in 1 .. k - 1 : f[j] = F[f[j - 1]]
    BY <2>1
  <2>3. f[k - 1] \in D /\ F[f[k - 1]] \in D
    BY <2>2
  <2> DEFINE g == [j \in 0 .. k |-> IF j = k THEN F[f[k - 1]] ELSE f[j]]
  <2>4. g \in [0 .. k -> D] /\ g[0] = b
    BY <2>2, <2>3
  <2>5. ASSUME NEW j \in 1 .. k PROVE g[j] = F[g[j - 1]]
    <3>1. g[j - 1] = f[j - 1]
      OBVIOUS
    <3>2. CASE j = k
      BY <3>1, <3>2
    <3>3. CASE j # k
      <4>1. j \in 1 .. k - 1
        BY <3>3
      <4> QED BY <2>2, <3>1, <3>3, <4>1
    <3> QED BY <3>2, <3>3
  <2> HIDE DEF g
  <2>6. g \in Upto(k)
    BY <2>4, <2>5
  <2>7. Upto(k) # {}
    BY <2>6
  <2> HIDE DEF Upto
  <2> QED BY <2>7
<1>3. n \in P
  <2> HIDE DEF P
  <2> QED BY <1>1, <1>2, AfterTurns
<1> QED BY <1>3 DEF Loops

-----------------------------------------------------------------------------
(* The loop of RemoveFilesThatOverlap.                                     *)

FileEntries == {e \in [live : {TRUE}, offset : Nat, size : Nat, seq : Nat, hash : Files] :
                  /\ e.size = SizeOf[e.hash] /\ e.seq > 0
                  /\ CacheFATSize <= e.offset /\ End(e) <= MaxHead}
SlotEntries == FileEntries \union {Free}
Tables == [Slots -> SlotEntries]
Locks == [Slots -> Nat]

\* The loop's variables.
Scans == [i : 1 .. NumSlots + 1, fat : Tables, ofs : Nat, fseq : Nat \union {-1}, fblk : Nat]

LEMMA Entries ==
  ASSUME NEW e \in SlotEntries
  PROVE  /\ e.live \in BOOLEAN /\ (~ e.live <=> e = Free) /\ (e.live <=> e \in FileEntries)
         /\ e.live => /\ e.offset \in Nat /\ e.size \in Nat /\ e.seq \in Nat /\ e.hash \in Files
                      /\ e.seq > 0 /\ e.size = SizeOf[e.hash] /\ e.size > 0
                      /\ CacheFATSize <= e.offset
                      /\ End(e) = e.offset + e.size /\ End(e) <= MaxHead /\ End(e) \in Nat
<1>1. CASE e = Free
  <2>1. Free.live = FALSE
    BY DEF Free
  <2>2. \A x \in FileEntries : x.live = TRUE
    BY DEF FileEntries
  <2>3. e \notin FileEntries /\ e.live = FALSE
    BY <1>1, <2>1, <2>2
  <2> QED BY <1>1, <2>3
<1>2. CASE e \in FileEntries
  <2>1. /\ e.live = TRUE /\ e.offset \in Nat /\ e.size \in Nat /\ e.seq \in Nat /\ e.hash \in Files
        /\ e.seq > 0 /\ e.size = SizeOf[e.hash] /\ CacheFATSize <= e.offset /\ End(e) <= MaxHead
    BY <1>2 DEF FileEntries
  <2>2. Free.live = FALSE
    BY DEF Free
  <2>3. SizeOf[e.hash] \in Nat \ {0}
    BY <2>1
  <2>4. e # Free
    BY <2>1, <2>2
  <2>5. End(e) = e.offset + e.size /\ End(e) \in Nat /\ e.size > 0
    BY <2>1, <2>3 DEF End
  <2> QED BY <1>2, <2>1, <2>4, <2>5
<1> QED BY <1>1, <1>2 DEF SlotEntries

LEMMA ConstantsTyped ==
  /\ NumSlots \in Nat \ {0} /\ CacheFATSize \in Nat \ {0} /\ CacheSize \in Nat \ {0} /\ MaxHead \in Nat
  /\ \A h \in Files : SizeOf[h] \in Nat /\ SizeOf[h] > 0
  /\ Turns \in Nat
BY DEF Turns

\* What a turn makes of s: the loop is over, a goto, an entry kept or one erased.
Ended(s, t) == s.i = NumSlots + 1 /\ t = s

Jumped(s, t, locks, size) ==
  /\ s.fat[s.i].live /\ locks[s.i] # 0
  /\ s.fat[s.i].offset <= s.ofs + CacheFATSize
  /\ s.ofs + CacheFATSize + size < End(s.fat[s.i])
  /\ t.i = 1 /\ t.ofs = End(s.fat[s.i]) /\ t.fat = s.fat /\ t.fseq = s.fseq /\ t.fblk = s.fblk

Kept(s, t, locks, seq) ==
  /\ s.fat[s.i].live /\ locks[s.i] = 0 /\ Below(seq, s.fseq)
  /\ t.i = s.i + 1 /\ t.ofs = s.ofs /\ t.fat = s.fat /\ t.fseq = s.fat[s.i].seq /\ t.fblk = s.i

Erased(s, t) ==
  /\ t.i = s.i + 1 /\ t.ofs = s.ofs /\ t.fat = [s.fat EXCEPT ![s.i] = Free] /\ t.fseq = 0
  /\ t.fblk = IF s.fseq # 0 THEN s.i ELSE IF s.fblk = 0 THEN s.i + 1 ELSE s.fblk

LEMMA ScanJumps ==
  ASSUME NEW s \in Scans, NEW j \in 1 .. NumSlots + 1, NEW n \in Nat
  PROVE  [s EXCEPT !.i = j, !.ofs = n] \in Scans
BY DEF Scans

LEMMA ScanKeeps ==
  ASSUME NEW s \in Scans, NEW j \in 1 .. NumSlots + 1, NEW n \in Nat, NEW m \in Nat
  PROVE  [s EXCEPT !.i = j, !.fseq = n, !.fblk = m] \in Scans
BY DEF Scans

LEMMA ScanErases ==
  ASSUME NEW s \in Scans, NEW j \in 1 .. NumSlots + 1, NEW T \in Tables, NEW m \in Nat
  PROVE  [s EXCEPT !.i = j, !.fat = T, !.fseq = 0, !.fblk = m] \in Scans
BY DEF Scans

LEMMA TurnCases ==
  ASSUME NEW s \in Scans, NEW locks \in Locks, NEW size \in Nat, NEW seq \in Nat
  PROVE  LET t == Turn(s, locks, size, seq)
         IN  /\ t \in Scans
             /\ \/ Ended(s, t)
                \/ s.i \in Slots /\ Jumped(s, t, locks, size)
                \/ s.i \in Slots /\ Kept(s, t, locks, seq)
                \/ s.i \in Slots /\ Erased(s, t)
<1> DEFINE t == Turn(s, locks, size, seq)
           f == s.fat[s.i]
           over == f.live /\ Overlaps(f, s.ofs + CacheFATSize, size)
           kept == f.live /\ ~ over /\ locks[s.i] = 0 /\ Below(seq, s.fseq)
<1>0. /\ s.i \in 1 .. NumSlots + 1 /\ s.fat \in Tables /\ s.ofs \in Nat
      /\ s.fseq \in Nat \union {-1} /\ s.fblk \in Nat
      /\ NumSlots \in Nat /\ CacheFATSize \in Nat
  BY ConstantsTyped DEF Scans
<1>1. CASE s.i > NumSlots
  <2>1. t = s
    BY <1>1 DEF Turn
  <2>2. s.i = NumSlots + 1
    BY <1>0, <1>1
  <2> QED BY <2>1, <2>2 DEF Ended
<1>2. CASE ~ (s.i > NumSlots)
  <2>0. s.i \in Slots /\ f \in SlotEntries /\ s.i + 1 \in 1 .. NumSlots + 1
    <3>1. s.i \in Slots /\ s.i + 1 \in 1 .. NumSlots + 1
      BY <1>0, <1>2 DEF Slots
    <3>2. f \in SlotEntries
      BY <1>0, <3>1, Zenon DEF Tables
    <3> QED BY <3>1, <3>2
  <2>1. CASE over /\ locks[s.i] # 0
    <3>1. t = [s EXCEPT !.i = 1, !.ofs = End(f)]
      BY <1>2, <2>1 DEF Turn
    <3>2. f.live /\ End(f) \in Nat /\ f.offset \in Nat
      BY <2>0, <2>1, Entries
    <3>3. t \in Scans
      <4>1. [s EXCEPT !.i = 1, !.ofs = End(f)] \in Scans
        <5>1. 1 \in 1 .. NumSlots + 1
          BY <1>0
        <5>2. PICK n \in Nat : n = End(f)
          BY ONLY <3>2
        <5>3. [s EXCEPT !.i = 1, !.ofs = n] \in Scans
          BY <5>1, ScanJumps
        <5> QED BY ONLY <5>2, <5>3
      <4> QED BY <3>1, <4>1
    <3>4. t.i = 1 /\ t.ofs = End(f) /\ t.fat = s.fat /\ t.fseq = s.fseq /\ t.fblk = s.fblk
      BY <3>1 DEF Scans
    <3>5. f.offset <= s.ofs + CacheFATSize /\ s.ofs + CacheFATSize + size < End(f)
      BY <1>0, <2>1, <3>2 DEF Overlaps
    <3> QED BY <2>0, <2>1, <3>2, <3>3, <3>4, <3>5 DEF Jumped
  <2>2. CASE ~ (over /\ locks[s.i] # 0) /\ kept
    <3>1. t = [s EXCEPT !.i = s.i + 1, !.fseq = f.seq, !.fblk = s.i]
      BY <1>2, <2>2 DEF Turn
    <3>2. f.live /\ f.seq \in Nat
      BY <2>0, <2>2, Entries
    <3>3. t \in Scans
      <4>1. s.i \in Nat
        BY <1>0
      <4>2. [s EXCEPT !.i = s.i + 1, !.fseq = f.seq, !.fblk = s.i] \in Scans
        BY <2>0, <3>2, <4>1, ScanKeeps
      <4> QED BY <3>1, <4>2
    <3>4. t.i = s.i + 1 /\ t.ofs = s.ofs /\ t.fat = s.fat /\ t.fseq = f.seq /\ t.fblk = s.i
      BY <3>1 DEF Scans
    <3> QED BY <2>0, <2>2, <3>3, <3>4 DEF Kept
  <2>3. CASE ~ (over /\ locks[s.i] # 0) /\ ~ kept
    <3> DEFINE new == [s.fat EXCEPT ![s.i] = Free]
               blk == IF s.fseq # 0 THEN s.i ELSE IF s.fblk = 0 THEN s.i + 1 ELSE s.fblk
    <3>1. t = [s EXCEPT !.i = s.i + 1, !.fat = new, !.fseq = 0, !.fblk = blk]
      BY <1>2, <2>3 DEF Turn
    <3>2. new \in Tables /\ blk \in Nat
      BY <1>0, <2>0 DEF Tables, SlotEntries
    <3> HIDE DEF new, blk
    <3>3. t \in Scans
      <4>1. [s EXCEPT !.i = s.i + 1, !.fat = new, !.fseq = 0, !.fblk = blk] \in Scans
        BY <2>0, <3>2, ScanErases
      <4> QED BY <3>1, <4>1
    <3>4. t.i = s.i + 1 /\ t.ofs = s.ofs /\ t.fat = new /\ t.fseq = 0 /\ t.fblk = blk
      BY <3>1 DEF Scans
    <3> QED BY <2>0, <3>3, <3>4 DEF Erased, new, blk
  <2> QED BY <2>1, <2>2, <2>3
<1> QED BY <1>1, <1>2

\* Where the loop begins.
Start(table, ofs) == [i |-> 1, fat |-> table, ofs |-> ofs, fseq |-> -1, fblk |-> 0]

\* The entries a goto can still be taken for.
Ahead(table, s) == {i \in Slots : table[i].live /\ s.ofs < End(table[i])}

\* The turns that are left, at most.
TurnsLeft(table, s) == Cardinality(Ahead(table, s)) * NumSlots + (NumSlots + 1 - s.i)

\* No entry is changed, other than to be erased, and ofs does not go back.
ErasesOnly(table, ofs, s) ==
  /\ \A i \in Slots : s.fat[i] = table[i] \/ s.fat[i] = Free
  /\ ofs <= s.ofs

LEMMA TurnErasesOnly ==
  ASSUME NEW table \in Tables, NEW ofs \in Nat, NEW s \in Scans, ErasesOnly(table, ofs, s),
         NEW locks \in Locks, NEW size \in Nat, NEW seq \in Nat
  PROVE  ErasesOnly(table, ofs, Turn(s, locks, size, seq))
<1> DEFINE t == Turn(s, locks, size, seq)
<1> SUFFICES ErasesOnly(table, ofs, t)
  OBVIOUS
<1>0. s.fat \in Tables /\ s.ofs \in Nat /\ ofs <= s.ofs /\ CacheFATSize \in Nat
      /\ \A i \in Slots : s.fat[i] = table[i] \/ s.fat[i] = Free
  BY ConstantsTyped DEF Scans, ErasesOnly
<1>1. CASE Ended(s, t)
  BY <1>0, <1>1 DEF Ended, ErasesOnly
<1>2. CASE s.i \in Slots /\ Jumped(s, t, locks, size)
  <2>1. t.ofs = End(s.fat[s.i]) /\ s.ofs + CacheFATSize + size < End(s.fat[s.i]) /\ t.fat = s.fat
    BY <1>2 DEF Jumped
  <2>2. End(s.fat[s.i]) \in Nat
    BY <1>0, <1>2, Entries DEF Tables, Jumped
  <2> HIDE DEF t
  <2>3. ofs <= t.ofs
    BY <1>0, <2>1, <2>2
  <2> QED BY <1>0, <2>1, <2>3 DEF ErasesOnly
<1>3. CASE s.i \in Slots /\ Kept(s, t, locks, seq)
  <2>1. t.fat = s.fat /\ t.ofs = s.ofs
    BY <1>3 DEF Kept
  <2> QED BY <1>0, <2>1 DEF ErasesOnly
<1>4. CASE s.i \in Slots /\ Erased(s, t)
  <2>1. t.fat = [s.fat EXCEPT ![s.i] = Free] /\ t.ofs = s.ofs
    BY <1>4 DEF Erased
  <2> HIDE DEF t
  <2>2. \A i \in Slots : t.fat[i] = s.fat[i] \/ t.fat[i] = Free
    BY <1>0, <2>1 DEF Tables
  <2> QED BY <1>0, <2>1, <2>2 DEF ErasesOnly
<1> QED BY <1>1, <1>2, <1>3, <1>4, TurnCases

LEMMA Multiples ==
  ASSUME NEW a \in Nat, NEW b \in Nat, NEW n \in Nat
  PROVE  /\ a * n \in Nat
         /\ a <= b => a * n <= b * n
         /\ a < b => a * n + n <= b * n
BY Z3

LEMMA AheadFinite ==
  ASSUME NEW table \in Tables, NEW s \in Scans
  PROVE  /\ IsFiniteSet(Ahead(table, s)) /\ Cardinality(Ahead(table, s)) \in 0 .. NumSlots
<1>1. IsFiniteSet(Slots) /\ Cardinality(Slots) = NumSlots
  <2>1. 1 \in Int /\ NumSlots \in Int /\ NumSlots - 1 + 1 = NumSlots /\ ~ (1 > NumSlots)
    BY ConstantsTyped
  <2> QED BY <2>1, FS_Interval DEF Slots
<1>2. Ahead(table, s) \subseteq Slots
  BY DEF Ahead
<1>3. IsFiniteSet(Ahead(table, s)) /\ Cardinality(Ahead(table, s)) <= Cardinality(Slots)
  BY <1>1, <1>2, FS_Subset
<1>4. Cardinality(Ahead(table, s)) \in Nat
  BY <1>3, FS_CardinalityType
<1> QED BY <1>1, <1>3, <1>4, ConstantsTyped

\* Each turn leaves fewer, until the loop is over.
LEMMA TurnsDecrease ==
  ASSUME NEW table \in Tables, NEW ofs \in Nat, NEW s \in Scans, ErasesOnly(table, ofs, s),
         NEW locks \in Locks, NEW size \in Nat, NEW seq \in Nat
  PROVE  LET t == Turn(s, locks, size, seq)
         IN  /\ TurnsLeft(table, s) \in Nat
             /\ s.i # NumSlots + 1 => TurnsLeft(table, t) < TurnsLeft(table, s)
             /\ s.i = NumSlots + 1 => t.i = NumSlots + 1
<1> DEFINE t == Turn(s, locks, size, seq)
           a == Cardinality(Ahead(table, s))
           b == Cardinality(Ahead(table, t))
<1> SUFFICES /\ TurnsLeft(table, s) \in Nat
             /\ s.i # NumSlots + 1 => TurnsLeft(table, t) < TurnsLeft(table, s)
             /\ s.i = NumSlots + 1 => t.i = NumSlots + 1
  OBVIOUS
<1>0. /\ s.i \in 1 .. NumSlots + 1 /\ NumSlots \in Nat /\ a \in Nat
      /\ t \in Scans /\ b \in Nat /\ t.i \in 1 .. NumSlots + 1
  <2>1. t \in Scans
    BY TurnCases
  <2>2. a \in Nat /\ b \in Nat
    <3> HIDE DEF t
    <3> QED BY <2>1, AheadFinite
  <2> HIDE DEF t
  <2> QED BY <2>1, <2>2, ConstantsTyped DEF Scans
<1>1. a * NumSlots \in Nat /\ TurnsLeft(table, s) = a * NumSlots + (NumSlots + 1 - s.i)
  BY <1>0, Multiples DEF TurnsLeft
<1>2. b * NumSlots \in Nat /\ TurnsLeft(table, t) = b * NumSlots + (NumSlots + 1 - t.i)
  BY <1>0, Multiples DEF TurnsLeft
<1>3. TurnsLeft(table, s) \in Nat
  BY <1>0, <1>1
<1>4. CASE Ended(s, t)
  BY <1>3, <1>4 DEF Ended
<1>5. CASE s.i \in Slots /\ Jumped(s, t, locks, size)
  <2> DEFINE e == s.fat[s.i]
  <2>1. /\ e.live /\ s.ofs + CacheFATSize + size < End(e) /\ t.ofs = End(e) /\ t.i = 1
        /\ s.fat \in Tables /\ s.ofs \in Nat /\ CacheFATSize \in Nat
    BY <1>5, ConstantsTyped DEF Jumped, Scans
  <2>2. End(e) \in Nat /\ e # Free /\ e = table[s.i]
    <3>1. e \in SlotEntries
      BY <1>5, <2>1 DEF Tables
    <3>2. End(e) \in Nat /\ e # Free
      BY <2>1, <3>1, Entries
    <3> QED BY <1>5, <3>2 DEF ErasesOnly
  <2> HIDE DEF t
  <2>3. s.ofs < t.ofs
    BY <2>1, <2>2
  <2>4. Ahead(table, t) \subseteq Ahead(table, s)
    <3> SUFFICES ASSUME NEW i \in Slots, table[i].live, t.ofs < End(table[i])
                 PROVE  s.ofs < End(table[i])
      BY DEF Ahead
    <3>1. End(table[i]) \in Nat
      BY Entries DEF Tables
    <3> QED BY <2>1, <2>2, <2>3, <3>1
  <2>5. s.i \in Ahead(table, s) /\ s.i \notin Ahead(table, t)
    BY <1>5, <2>1, <2>2, <2>3 DEF Ahead
  <2>6. b < a
    <3>1. Ahead(table, t) # Ahead(table, s)
      BY <2>5
    <3>2. IsFiniteSet(Ahead(table, s))
      BY AheadFinite
    <3>3. b <= a /\ (b = a => Ahead(table, t) = Ahead(table, s))
      BY <2>4, <3>2, FS_Subset
    <3> QED BY <1>0, <3>1, <3>3
  <2>7. b * NumSlots + NumSlots <= a * NumSlots
    BY <1>0, <2>6, Multiples
  <2>8. s.i <= NumSlots
    BY <1>0, <1>5 DEF Slots
  <2> HIDE DEF a, b
  <2> QED BY <1>0, <1>1, <1>2, <1>3, <2>1, <2>7, <2>8
<1>6. CASE s.i \in Slots /\ t.i = s.i + 1 /\ t.ofs = s.ofs
  <2>1. Ahead(table, t) = Ahead(table, s)
    BY <1>6 DEF Ahead
  <2>2. b = a /\ s.i \in 1 .. NumSlots
    BY <1>6, <2>1 DEF Slots
  <2> HIDE DEF a, b, t
  <2> QED BY <1>0, <1>1, <1>2, <1>3, <1>6, <2>2
<1>7. s.i \in Slots /\ (Kept(s, t, locks, seq) \/ Erased(s, t)) => s.i \in Slots /\ t.i = s.i + 1 /\ t.ofs = s.ofs
  BY DEF Kept, Erased
<1> QED BY <1>4, <1>5, <1>6, <1>7, TurnCases

LEMMA StartTyped ==
  ASSUME NEW table \in Tables, NEW ofs \in Nat
  PROVE  Start(table, ofs) \in Scans /\ ErasesOnly(table, ofs, Start(table, ofs))
         /\ TurnsLeft(table, Start(table, ofs)) <= Turns
<1> DEFINE s == Start(table, ofs)
           a == Cardinality(Ahead(table, s))
<1>1. s \in Scans /\ ErasesOnly(table, ofs, s) /\ s.i = 1
  BY ConstantsTyped DEF Start, Scans, ErasesOnly
<1>2. a \in 0 .. NumSlots
  BY <1>1, AheadFinite
<1>3. a * NumSlots <= NumSlots * NumSlots /\ a * NumSlots \in Nat /\ NumSlots * NumSlots \in Nat
  BY <1>2, Multiples, ConstantsTyped
<1>4. Turns = NumSlots * NumSlots + NumSlots
  BY ConstantsTyped DEF Turns
<1>5. TurnsLeft(table, s) = a * NumSlots + NumSlots
  BY <1>1, <1>2, <1>3, ConstantsTyped DEF TurnsLeft
<1> HIDE DEF s, a
<1>6. TurnsLeft(table, s) <= Turns
  BY <1>3, <1>4, <1>5, ConstantsTyped
<1> QED BY <1>1, <1>6 DEF s

\* The loop ends, with what its beginning has and all turns keep.
LEMMA LoopEnds ==
  ASSUME NEW table \in Tables, NEW locks \in Locks, NEW ofs \in Nat, NEW size \in Nat, NEW seq \in Nat,
         NEW P, Start(table, ofs) \in P,
         \A s \in Scans : s \in P /\ ErasesOnly(table, ofs, s) => Turn(s, locks, size, seq) \in P
  PROVE  \E s \in Scans : /\ s = RemoveFilesThatOverlap(table, locks, ofs, size, seq)
                          /\ s \in P /\ ErasesOnly(table, ofs, s) /\ s.i = NumSlots + 1
<1> DEFINE b == Start(table, ofs)
           n == Turns
           After(s) == Turn(s, locks, size, seq)
           IsScan(scan) == scan = [k \in 0 .. Turns |-> IF k = 0 THEN b ELSE After(scan[k - 1])]
           F == [s \in Scans |-> After(s)]
           g == CHOOSE scan : IsScan(scan)
<1>0. n \in Nat
  BY ConstantsTyped
<1>1. RemoveFilesThatOverlap(table, locks, ofs, size, seq) = g[n]
  BY DEF RemoveFilesThatOverlap, Start
<1>2. /\ \A s \in Scans : After(s) \in Scans
      /\ \A s \in Scans : ErasesOnly(table, ofs, s) => ErasesOnly(table, ofs, After(s))
  BY TurnCases, TurnErasesOnly
<1>3. b \in Scans /\ ErasesOnly(table, ofs, b) /\ TurnsLeft(table, b) <= n
  BY StartTyped
<1>a. /\ b \in P
      /\ \A s \in Scans : s \in P /\ ErasesOnly(table, ofs, s) => After(s) \in P
  OBVIOUS
<1>b. \A s \in Scans : ErasesOnly(table, ofs, s) =>
        /\ TurnsLeft(table, s) \in Nat
        /\ s.i # NumSlots + 1 => TurnsLeft(table, After(s)) < TurnsLeft(table, s)
        /\ s.i = NumSlots + 1 => After(s).i = NumSlots + 1
  BY TurnsDecrease
<1> HIDE DEF After, b
<1>4. \E f : IsScan(f)
  <2>1. \A s \in Scans : F[s] = After(s)
    OBVIOUS
  <2> HIDE DEF F
  <2>2. \A s \in Scans : F[s] \in Scans
    BY <1>2, <2>1
  <2>3. \E f \in [0 .. n -> Scans] : Loops(f, n, b, F)
    <3> HIDE DEF n
    <3> QED BY <1>0, <1>3, <2>2, LoopExists
  <2>4. PICK f \in [0 .. n -> Scans] : f[0] = b /\ \A k \in 1 .. n : f[k] = F[f[k - 1]]
    BY <2>3 DEF Loops
  <2>5. \A k \in 1 .. n : f[k] = After(f[k - 1])
    <3> HIDE DEF n
    <3>1. \A k \in 1 .. n : k - 1 \in 0 .. n
      BY <1>0
    <3>2. \A k \in 1 .. n : f[k - 1] \in Scans
      BY <2>4, <3>1
    <3> QED BY <2>1, <2>4, <3>2
  <2>6. f = [k \in 0 .. n |-> IF k = 0 THEN b ELSE After(f[k - 1])]
    BY <1>0, <2>4, <2>5
  <2> QED BY <2>6
<1>5. IsScan(g)
  BY <1>4
<1> HIDE DEF g
<1>6. g[0] = b /\ \A k \in 1 .. n : g[k] = After(g[k - 1])
  <2>1. \A k \in 0 .. n : g[k] = IF k = 0 THEN b ELSE After(g[k - 1])
    BY <1>5
  <2> HIDE DEF n
  <2>2. 0 \in 0 .. n /\ \A k \in 1 .. n : k \in 0 .. n /\ k # 0
    BY <1>0
  <2> QED BY <2>1, <2>2
<1> HIDE DEF n, IsScan
<1> DEFINE Good(k, s) == /\ s \in Scans /\ s \in P /\ ErasesOnly(table, ofs, s)
                         /\ s.i = NumSlots + 1 \/ TurnsLeft(table, s) + k <= n
           Q == {k \in 0 .. n : Good(k, g[k])}
<1>7. 0 \in Q
  <2>1. TurnsLeft(table, b) + 0 <= n
    <3>1. TurnsLeft(table, b) \in Nat
      BY <1>3, <1>b
    <3> QED BY <1>0, <1>3, <3>1
  <2> QED BY <1>0, <1>3, <1>a, <1>6, <2>1
<1>8. ASSUME NEW k \in 1 .. n, k - 1 \in Q PROVE k \in Q
  <2> DEFINE s == g[k - 1]
  <2>1. Good(k - 1, s) /\ k \in 0 .. n /\ g[k] = After(s)
    BY <1>0, <1>6, <1>8
  <2> HIDE DEF s
  <2>2. After(s) \in Scans /\ After(s) \in P /\ ErasesOnly(table, ofs, After(s))
    BY <1>2, <1>a, <2>1
  <2>3. After(s).i = NumSlots + 1 \/ TurnsLeft(table, After(s)) + k <= n
    <3>1. CASE s.i = NumSlots + 1
      BY <1>b, <2>1, <3>1
    <3>2. CASE s.i # NumSlots + 1
      <4>1. /\ TurnsLeft(table, s) \in Nat /\ TurnsLeft(table, After(s)) \in Nat
            /\ TurnsLeft(table, After(s)) < TurnsLeft(table, s)
            /\ TurnsLeft(table, s) + (k - 1) <= n
        BY <1>b, <2>1, <2>2, <3>2
      <4> QED BY <1>0, <4>1
    <3> QED BY <3>1, <3>2
  <2> QED BY <2>1, <2>2, <2>3
<1>9. n \in Q
  <2> HIDE DEF Q
  <2>1. \A k \in 0 .. n : k \in Q
    BY <1>0, <1>7, <1>8, AfterTurns
  <2> QED BY <1>0, <2>1
<1>10. Good(n, g[n])
  BY <1>9
<1>11. g[n].i = NumSlots + 1
  <2>1. CASE TurnsLeft(table, g[n]) + n <= n
    <3> DEFINE s == g[n]
    <3>1. s \in Scans /\ ErasesOnly(table, ofs, s)
      BY <1>10
    <3> HIDE DEF s
    <3>2. s.i \in 1 .. NumSlots + 1 /\ Cardinality(Ahead(table, s)) \in Nat
      BY <3>1, AheadFinite DEF Scans
    <3>3. Cardinality(Ahead(table, s)) * NumSlots \in Nat
      BY <3>2, Multiples, ConstantsTyped
    <3>4. TurnsLeft(table, s) + n <= n
      BY <2>1 DEF s
    <3>5. s.i = NumSlots + 1
      BY <1>0, <3>2, <3>3, <3>4, ConstantsTyped DEF TurnsLeft
    <3> QED BY <3>5 DEF s
  <2> QED BY <1>10, <2>1
<1> QED BY <1>1, <1>10, <1>11

-----------------------------------------------------------------------------
(* What RemoveFilesThatOverlap leaves.                                     *)

\* Put: it is still at the first slot; the first file is kept; no file is; or the
\* first file is, and the second slot is the place of the new one.
AtFirst(s) == s.i = 1 /\ s.fseq = -1 /\ s.fblk = 0
OneKept(s, seq) == s.i \in {1, 2} /\ 0 < s.fseq /\ s.fseq <= seq /\ s.fblk = 1
NoneKept(s) == s.fseq = 0 /\ s.fblk = 1 /\ \A j \in Slots : j < s.i => s.fat[j] = Free
SecondFree(s) == s.i > 2 /\ s.fseq = 0 /\ s.fblk = 2 /\ \A j \in Slots : 1 < j /\ j < s.i => s.fat[j] = Free

PutScan(s, seq) == AtFirst(s) \/ OneKept(s, seq) \/ NoneKept(s) \/ SecondFree(s)

TwoFilesAtMost(table) == \A i \in Slots : i > 2 => table[i] = Free

LEMMA PutTurn ==
  ASSUME NEW table \in Tables, TwoFilesAtMost(table), NEW locks \in Locks,
         NEW ofs \in Nat, NEW size \in Nat, NEW seq \in Nat,
         \A i \in Slots : table[i].live => table[i].seq <= seq,
         NEW s \in Scans, ErasesOnly(table, ofs, s), PutScan(s, seq)
  PROVE  PutScan(Turn(s, locks, size, seq), seq)
<1> DEFINE t == Turn(s, locks, size, seq)
<1> SUFFICES PutScan(t, seq)
  OBVIOUS
<1>0. /\ s.i \in 1 .. NumSlots + 1 /\ s.fat \in Tables /\ s.fseq \in Nat \union {-1} /\ s.fblk \in Nat
      /\ NumSlots \in Nat \ {0}
      /\ Ended(s, t) \/ (s.i \in Slots /\ Jumped(s, t, locks, size))
         \/ (s.i \in Slots /\ Kept(s, t, locks, seq)) \/ (s.i \in Slots /\ Erased(s, t))
  BY TurnCases, ConstantsTyped DEF Scans
<1>t. Free.live = FALSE
  BY DEF Free
<1> HIDE DEF t
<1>1. CASE Ended(s, t)
  BY <1>1 DEF Ended
<1>2. CASE s.i \in Slots /\ Jumped(s, t, locks, size)
  <2>1. t.i = 1 /\ t.fseq = s.fseq /\ t.fblk = s.fblk /\ s.fat[s.i].live /\ t.fat = s.fat
    BY <1>2 DEF Jumped
  <2>2. ~ SecondFree(s)
    BY <1>0, <1>2, <1>t, <2>1 DEF SecondFree, TwoFilesAtMost, ErasesOnly
  <2>3. CASE AtFirst(s) \/ OneKept(s, seq)
    BY <2>1, <2>3 DEF PutScan, AtFirst, OneKept
  <2>4. CASE NoneKept(s)
    <3>1. \A j \in Slots : ~ (j < 1)
      BY DEF Slots
    <3> QED BY <2>1, <2>4, <3>1 DEF PutScan, NoneKept
  <2> QED BY <2>2, <2>3, <2>4 DEF PutScan
<1>3. CASE s.i \in Slots /\ Kept(s, t, locks, seq)
  <2>1. /\ t.i = s.i + 1 /\ t.fseq = s.fat[s.i].seq /\ t.fblk = s.i /\ s.fat[s.i].live
        /\ s.fseq = -1 \/ seq < s.fseq
    BY <1>3 DEF Kept, Below
  <2>2. AtFirst(s)
    BY <1>0, <2>1 DEF PutScan, OneKept, NoneKept, SecondFree
  <2>3. s.fat[s.i] = table[s.i] /\ table[s.i] \in SlotEntries /\ table[s.i].live
    BY <1>0, <1>3, <1>t, <2>1 DEF ErasesOnly, Tables
  <2>4. table[s.i].seq \in Nat /\ 0 < table[s.i].seq /\ table[s.i].seq <= seq
    BY <1>3, <2>3, Entries
  <2> QED BY <2>1, <2>2, <2>3, <2>4 DEF PutScan, OneKept, AtFirst
<1>4. CASE s.i \in Slots /\ Erased(s, t)
  <2>1. /\ t.i = s.i + 1 /\ t.fat = [s.fat EXCEPT ![s.i] = Free] /\ t.fseq = 0
        /\ t.fblk = IF s.fseq # 0 THEN s.i ELSE IF s.fblk = 0 THEN s.i + 1 ELSE s.fblk
    BY <1>4 DEF Erased
  <2>2. t.fat[s.i] = Free /\ \A j \in Slots : j # s.i => t.fat[j] = s.fat[j]
    BY <1>0, <1>4, <2>1 DEF Tables
  <2>3. \A j \in Slots : j \in Nat /\ j >= 1 /\ (j < s.i + 1 => j < s.i \/ j = s.i)
    BY <1>0 DEF Slots
  <2>4. CASE AtFirst(s) \/ (OneKept(s, seq) /\ s.i = 1)
    <3>1. t.fblk = 1 /\ t.i = 2
      BY <2>1, <2>4 DEF AtFirst, OneKept
    <3>2. \A j \in Slots : j < 2 => j = 1
      BY <2>3
    <3> QED BY <2>1, <2>2, <2>4, <3>1, <3>2 DEF PutScan, NoneKept, AtFirst
  <2>5. CASE OneKept(s, seq) /\ s.i = 2
    <3>1. t.fblk = 2 /\ t.i = 3
      BY <2>1, <2>5 DEF OneKept
    <3>2. \A j \in Slots : 1 < j /\ j < 3 => j = 2
      BY <2>3
    <3> QED BY <2>1, <2>2, <2>5, <3>1, <3>2 DEF PutScan, SecondFree
  <2>6. CASE NoneKept(s)
    BY <2>1, <2>2, <2>3, <2>6 DEF PutScan, NoneKept
  <2>7. CASE SecondFree(s)
    <3>1. t.i > 2 /\ t.fseq = 0 /\ t.fblk = 2
      BY <1>0, <2>1, <2>7 DEF SecondFree
    <3> QED BY <2>1, <2>2, <2>3, <2>7, <3>1 DEF PutScan, SecondFree
  <2> QED BY <2>4, <2>5, <2>6, <2>7 DEF PutScan, OneKept
<1> QED BY <1>0, <1>1, <1>2, <1>3, <1>4

\* The table that Put writes, at its slot.
PutTable(r) == [r.fat EXCEPT ![r.fblk] = Free]

LEMMA PutLeaves ==
  ASSUME NEW table \in Tables, TwoFilesAtMost(table), NEW locks \in Locks,
         NEW ofs \in Nat, NEW size \in Nat, NEW seq \in Nat,
         \A i \in Slots : table[i].live => table[i].seq <= seq,
         NEW r, r = RemoveFilesThatOverlap(table, locks, ofs, size, seq), r.fblk \in Slots
  PROVE  /\ r.ofs \in Nat /\ ofs <= r.ofs /\ r.fblk <= 2
         /\ PutTable(r) \in Tables
         /\ \A i \in Slots : /\ PutTable(r)[i] = table[i] \/ PutTable(r)[i] = Free
                             /\ i >= r.fblk => PutTable(r)[i] = Free
<1> DEFINE P == {s \in Scans : PutScan(s, seq)}
<1>1. Start(table, ofs) \in P
  <2>1. PutScan(Start(table, ofs), seq)
    BY DEF Start, PutScan, AtFirst
  <2> QED BY <2>1, StartTyped
<1>2. ASSUME NEW s \in Scans, s \in P, ErasesOnly(table, ofs, s)
      PROVE  Turn(s, locks, size, seq) \in P
  <2>1. Turn(s, locks, size, seq) \in Scans
    BY TurnCases
  <2>2. PutScan(s, seq)
    BY <1>2
  <2>3. PutScan(Turn(s, locks, size, seq), seq)
    BY <1>2, <2>2, PutTurn
  <2> QED BY <2>1, <2>3
<1> HIDE DEF P
<1>3. PICK s \in Scans : /\ s = RemoveFilesThatOverlap(table, locks, ofs, size, seq)
                         /\ s \in P /\ ErasesOnly(table, ofs, s) /\ s.i = NumSlots + 1
  BY <1>1, <1>2, LoopEnds
<1>4. /\ r \in Scans /\ PutScan(r, seq) /\ ErasesOnly(table, ofs, r) /\ r.i = NumSlots + 1
      /\ r.fat \in Tables /\ r.ofs \in Nat /\ NumSlots \in Nat \ {0}
  <2>1. r = s
    BY <1>3
  <2> QED BY <1>3, <2>1, ConstantsTyped DEF P, Scans
<1>5. /\ PutTable(r) \in Tables /\ PutTable(r)[r.fblk] = Free
      /\ \A i \in Slots : i # r.fblk => PutTable(r)[i] = r.fat[i]
  BY <1>4 DEF PutTable, Tables, SlotEntries
<1>6. \A i \in Slots : PutTable(r)[i] = table[i] \/ PutTable(r)[i] = Free
  BY <1>4, <1>5 DEF ErasesOnly
<1>7. r.fblk <= 2 /\ \A i \in Slots : i >= r.fblk => PutTable(r)[i] = Free
  <2>1. ~ AtFirst(r)
    BY <1>4 DEF AtFirst
  <2>2. CASE OneKept(r, seq)
    <3>1. r.fblk = 1 /\ \A i \in Slots : i = 1
      BY <1>4, <2>2 DEF OneKept, Slots
    <3> QED BY <1>5, <3>1
  <2>3. CASE NoneKept(r)
    <3>1. \A i \in Slots : i < r.i
      BY <1>4 DEF Slots
    <3> QED BY <1>5, <2>3, <3>1 DEF NoneKept
  <2>4. CASE SecondFree(r)
    <3>1. \A i \in Slots : i < r.i /\ (i >= 2 => 1 < i)
      BY <1>4 DEF Slots
    <3> QED BY <1>5, <2>4, <3>1 DEF SecondFree
  <2> QED BY <1>4, <2>1, <2>2, <2>3, <2>4 DEF PutScan
<1> QED BY <1>4, <1>5, <1>6, <1>7 DEF ErasesOnly

\* OpenCache: it is still at the first slot, or that is kept, or none is.
OpenScan(s) ==
  \/ s.i = 1 /\ s.fseq = -1
  \/ s.i > 1 /\ s.fat[1].live
  \/ s.i > 1 /\ s.fseq = 0 /\ \A j \in Slots : j < s.i => s.fat[j] = Free

NoLocks == [i \in Slots |-> 0]

LEMMA OpenLeaves ==
  ASSUME NEW table \in Tables, NEW new, new = RemoveFilesThatOverlap(table, NoLocks, 0, 0, 0).fat
  PROVE  /\ new \in Tables
         /\ \A i \in Slots : new[i] = table[i] \/ new[i] = Free
         /\ new[1].live \/ \A i \in Slots : new[i] = Free
<1> DEFINE P == {s \in Scans : OpenScan(s)}
<1>0. /\ NoLocks \in Locks /\ 0 \in Nat /\ NumSlots \in Nat \ {0} /\ 1 \in Slots
      /\ \A i \in Slots : NoLocks[i] = 0
  BY ConstantsTyped DEF NoLocks, Locks, Slots
<1>1. Start(table, 0) \in P
  <2>1. OpenScan(Start(table, 0))
    BY DEF Start, OpenScan
  <2> QED BY <1>0, <2>1, StartTyped
<1>2. ASSUME NEW s \in Scans, s \in P, ErasesOnly(table, 0, s)
      PROVE  Turn(s, NoLocks, 0, 0) \in P
  <2> DEFINE t == Turn(s, NoLocks, 0, 0)
  <2>0. /\ t \in Scans /\ OpenScan(s)
        /\ Ended(s, t) \/ (s.i \in Slots /\ Jumped(s, t, NoLocks, 0))
           \/ (s.i \in Slots /\ Kept(s, t, NoLocks, 0)) \/ (s.i \in Slots /\ Erased(s, t))
    BY <1>0, <1>2, TurnCases
  <2>a. s.i \in 1 .. NumSlots + 1 /\ s.fat \in Tables
    BY DEF Scans
  <2> HIDE DEF t
  <2>1. CASE Ended(s, t)
    BY <1>2, <2>1 DEF Ended, t
  <2>2. CASE s.i \in Slots /\ Jumped(s, t, NoLocks, 0)
    BY <1>0, <2>2 DEF Jumped
  <2>3. CASE s.i \in Slots /\ Kept(s, t, NoLocks, 0)
    <3>1. t.i = s.i + 1 /\ t.fat = s.fat /\ s.fat[s.i].live /\ (s.fseq = -1 \/ 0 < s.fseq)
      BY <2>3 DEF Kept, Below
    <3>2. s.fat[1].live
      BY <2>0, <3>1 DEF OpenScan
    <3>3. OpenScan(t)
      BY <2>a, <3>1, <3>2 DEF OpenScan
    <3> QED BY <2>0, <3>3 DEF t
  <2>4. CASE s.i \in Slots /\ Erased(s, t)
    <3>1. t.i = s.i + 1 /\ t.fat = [s.fat EXCEPT ![s.i] = Free] /\ t.fseq = 0
      BY <2>4 DEF Erased
    <3>2. t.fat[s.i] = Free /\ \A j \in Slots : j # s.i => t.fat[j] = s.fat[j]
      BY <2>4, <2>a, <3>1 DEF Tables
    <3>3. \A j \in Slots : j \in Nat /\ j >= 1 /\ (j < s.i + 1 => j < s.i \/ j = s.i)
      BY <1>0, <2>a DEF Slots
    <3>4. CASE s.i = 1
      BY <3>1, <3>2, <3>3, <3>4, <2>0 DEF OpenScan, t
    <3>5. CASE s.i > 1 /\ s.fat[1].live
      BY <1>0, <2>0, <2>a, <3>1, <3>2, <3>5 DEF OpenScan, t
    <3>6. CASE s.i > 1 /\ s.fseq = 0 /\ \A j \in Slots : j < s.i => s.fat[j] = Free
      <4>1. OpenScan(t)
        BY <2>a, <3>1, <3>2, <3>3, <3>6 DEF OpenScan
      <4> QED BY <2>0, <4>1 DEF t
    <3> QED BY <2>0, <3>4, <3>5, <3>6 DEF OpenScan
  <2> QED BY <2>0, <2>1, <2>2, <2>3, <2>4
<1> HIDE DEF P
<1>3. PICK s \in Scans : /\ s = RemoveFilesThatOverlap(table, NoLocks, 0, 0, 0)
                         /\ s \in P /\ ErasesOnly(table, 0, s) /\ s.i = NumSlots + 1
  BY <1>0, <1>1, <1>2, LoopEnds
<1>4. new = s.fat /\ new \in Tables /\ OpenScan(s)
  BY <1>3 DEF P, Scans
<1>5. \A i \in Slots : i < s.i
  BY <1>0, <1>3 DEF Slots
<1>6. new[1].live \/ \A i \in Slots : new[i] = Free
  BY <1>0, <1>3, <1>4, <1>5 DEF OpenScan
<1> QED BY <1>3, <1>4, <1>6 DEF ErasesOnly

-----------------------------------------------------------------------------
(* What holds in every reachable state, in four parts: the table and what  *)
(* a crash may make of it; the bytes; the Put under way; the loads.        *)

Content == {Garbage} \union (Files \X Nat)
Contents == UNION {[1 .. n -> Content] : n \in Nat}

PutsUnderWay == [at : {"write", "entry", "sync"}, slot : Slots, offset : Nat, hash : Files]

Loads ==
  [at : {"read"}, slot : Slots, hash : Files, offset : Nat, size : Nat, safe : BOOLEAN]
    \union [at : {"close"}, slot : Slots, hash : Files, safe : BOOLEAN, bytes : Contents]
    \union [at : {"destroy"}, slot : Slots, hash : Files, safe : BOOLEAN, bytes : Contents, ok : BOOLEAN]

TableTyped ==
  /\ fat \in Tables /\ lock \in Locks /\ sequence \in Nat /\ head \in Nat
  /\ fats \in [Slots -> SUBSET SlotEntries]
  /\ \A i \in Slots : fat[i] \in fats[i]

DiskTyped ==
  /\ cell \in [Cells -> Content] /\ cells \in [Cells -> SUBSET Content]
  /\ \A c \in Cells : cell[c] \in cells[c]

PutTyped == put \in PutsUnderWay \union {NoPut}

LoadsTyped == reader \in [Readers -> Loads \union {NoReader}]

TypeOK == TableTyped /\ DiskTyped /\ PutTyped /\ LoadsTyped

\* The third slot and those after it are never used.
TwoSlots == \A i \in Slots : i > 2 => fats[i] = {Free}

Numbered == \A i \in Slots : fat[i].live => fat[i].seq <= sequence

\* A safe entry is one of the table's, and no crash changes that.
Settled ==
  /\ \A e \in safe : e.live /\ \E i \in Slots : fat[i] = e
  /\ \A i \in Slots : fat[i] \in safe => fats[i] = {fat[i]} /\ End(fat[i]) <= head

\* Whatever a crash makes of two slots, the entry of the later one was put later and
\* further on, if the other or itself is safe.
Ordered ==
  \A i, j \in Slots : i < j =>
    /\ fat[i] \in safe => \A x \in fats[j] : x.live => End(fat[i]) <= x.offset
    /\ fat[j] \in safe => \A x \in fats[i] : x.live => x.seq < fat[j].seq

TableInv == TableTyped /\ TwoSlots /\ Numbered /\ Settled /\ Ordered

\* The bytes of h are at o; they are there after a crash.
Stored(o, h) == \A k \in 1 .. SizeOf[h] : cell[o + k - 1] = <<h, k>>
Durable(o, h) == \A k \in 1 .. SizeOf[h] : cells[o + k - 1] = {<<h, k>>}

DiskInv == DiskTyped /\ \A e \in safe : Durable(e.offset, e.hash)

\* Where the Put under way writes there is nothing yet, and its entry has the place of
\* no other.
PutPlaced ==
  put # NoPut =>
    /\ put.slot <= 2 /\ CacheFATSize <= put.offset /\ put.offset + SizeOf[put.hash] <= MaxHead
    /\ \A i \in Slots : i > put.slot => fat[i] = Free
    /\ put.at # "sync" => fat[put.slot] = Free /\ head <= put.offset
    /\ put.at # "write" => Stored(put.offset, put.hash)
    /\ put.at = "sync" =>
         /\ fat[put.slot] = Entry(put.offset, SizeOf[put.hash], sequence, put.hash)
         /\ head = put.offset + SizeOf[put.hash]
         /\ \A i \in Slots : i # put.slot /\ fat[i].live => fat[i].seq < sequence

PutInv == PutTyped /\ PutPlaced

LoadPlaced(rd) ==
  /\ rd.at = "read" =>
       /\ CacheFATSize <= rd.offset /\ rd.offset + rd.size <= MaxHead
       /\ rd.safe => rd.size = SizeOf[rd.hash] /\ rd.offset + rd.size <= head /\ Stored(rd.offset, rd.hash)
  /\ rd.at = "close" /\ rd.safe => rd.bytes = Bytes(rd.hash)
  /\ rd.at = "destroy" => (rd.safe => rd.ok) /\ (rd.ok => rd.bytes = Bytes(rd.hash))

LoadsInv == LoadsTyped /\ \A r \in Readers : LoadPlaced(reader[r])

CacheInv == TableInv /\ DiskInv /\ PutInv /\ LoadsInv

-----------------------------------------------------------------------------
(* The table.                                                              *)

\* Entries of the table and what they may become are typed.
LEMMA SlotFacts ==
  ASSUME TableTyped, NEW i \in Slots
  PROVE  /\ fat[i] \in SlotEntries /\ fats[i] \in SUBSET SlotEntries /\ fat[i] \in fats[i]
         /\ i \in Nat /\ lock[i] \in Nat
BY DEF TableTyped, Tables, Locks, Slots

\* Slots that are erased.
LEMMA EraseKeepsTable ==
  ASSUME TableInv, NEW new \in Tables, \A i \in Slots : new[i] = fat[i] \/ new[i] = Free,
         Rewrite(new), sequence' = sequence, head' = head, lock' = lock
  PROVE  TableInv' /\ safe' \subseteq safe
<1>0. /\ fat' = new /\ safe' = {e \in safe : \E i \in Slots : new[i] = e}
      /\ fats' = [i \in Slots |-> fats[i] \union {new[i]}]
  BY DEF Rewrite
<1>1. TableTyped'
  <2>1. \A i \in Slots : fats[i] \union {new[i]} \in SUBSET SlotEntries
    BY SlotFacts DEF TableInv, Tables
  <2> QED BY <1>0, <2>1 DEF TableInv, TableTyped
<1>2. \A i \in Slots : /\ fat'[i] = fat[i] \/ fat'[i] = Free
                       /\ \A x \in fats'[i] : x \in fats[i] \/ x = fat'[i]
                       /\ fat[i] \in fats[i]
  BY <1>0, SlotFacts DEF TableInv
<1>3. \A e \in safe' : e \in safe /\ e.live /\ e # Free /\ \E i \in Slots : fat'[i] = e
  BY <1>0, Entries DEF TableInv, Settled, Free
<1>4. \A i \in Slots : fat'[i] \in safe' => fat'[i] = fat[i] /\ fat[i] \in safe
  BY <1>2, <1>3
<1>5. \A i \in Slots : \A x \in fats'[i] : x.live => x \in fats[i]
  BY <1>2 DEF Free
<1>6. TwoSlots'
  BY <1>0, <1>2 DEF TableInv, TwoSlots
<1>7. Numbered'
  BY <1>2 DEF TableInv, Numbered, Free
<1>8. Settled'
  <2>1. ASSUME NEW i \in Slots, fat'[i] \in safe' PROVE fats'[i] = {fat'[i]} /\ End(fat'[i]) <= head'
    <3>1. fat'[i] = fat[i] /\ fat[i] \in safe /\ fats[i] = {fat[i]} /\ End(fat[i]) <= head
      BY <1>4, <2>1 DEF TableInv, Settled
    <3> QED BY <1>0, <3>1
  <2> QED BY <1>3, <2>1 DEF Settled
<1>9. Ordered'
  BY <1>4, <1>5 DEF TableInv, Ordered
<1> QED BY <1>1, <1>3, <1>6, <1>7, <1>8, <1>9 DEF TableInv

\* The Put.
LEMMA PutFacts ==
  ASSUME PutInv, put # NoPut
  PROVE  /\ put \in PutsUnderWay /\ put.at \in {"write", "entry", "sync"} /\ put.slot \in Slots
         /\ put.offset \in Nat /\ put.hash \in Files
         /\ CacheFATSize <= put.offset /\ put.offset + SizeOf[put.hash] <= MaxHead
         /\ SizeOf[put.hash] \in Nat /\ SizeOf[put.hash] > 0
BY ConstantsTyped DEF PutInv, PutTyped, PutPlaced, PutsUnderWay

LEMMA WriteEntryKeepsTable ==
  ASSUME TableInv, PutInv, WriteEntry
  PROVE  TableInv' /\ safe' \subseteq safe
<1> DEFINE slot == put.slot
           e == Entry(put.offset, SizeOf[put.hash], sequence + 1, put.hash)
           new == [fat EXCEPT ![slot] = e]
<1>0. /\ put.at = "entry" /\ Rewrite(new) /\ sequence' = sequence + 1
      /\ head' = put.offset + SizeOf[put.hash] /\ lock' = lock
  BY DEF WriteEntry
<1>1. /\ put # NoPut /\ slot \in Slots /\ slot <= 2 /\ slot \in Nat
      /\ \A i \in Slots : i > slot => fat[i] = Free
      /\ fat[slot] = Free /\ head <= put.offset
      /\ sequence \in Nat /\ head \in Nat
  <2>1. put # NoPut
    BY <1>0 DEF NoPut
  <2> QED BY <1>0, <2>1, PutFacts, SlotFacts DEF PutInv, PutPlaced, TableInv, TableTyped
<1>2. /\ e \in FileEntries /\ e.live = TRUE /\ e.offset = put.offset /\ e.seq = sequence + 1
      /\ End(e) = head' /\ head' \in Nat /\ head <= head'
  <2>1. sequence + 1 \in Nat /\ sequence + 1 > 0
    BY <1>1
  <2>2. /\ put.hash \in Files /\ put.offset \in Nat /\ CacheFATSize <= put.offset
        /\ put.offset + SizeOf[put.hash] <= MaxHead /\ SizeOf[put.hash] \in Nat
    BY <1>1, PutFacts
  <2>3. /\ e \in FileEntries /\ e.live = TRUE /\ e.offset = put.offset /\ e.seq = sequence + 1
        /\ End(e) = put.offset + SizeOf[put.hash]
    <3> DEFINE q == sequence + 1
    <3>1. q \in Nat /\ q > 0
      BY <2>1
    <3>2. e = Entry(put.offset, SizeOf[put.hash], q, put.hash)
      OBVIOUS
    <3> HIDE DEF q, e
    <3>3. e \in FileEntries /\ e.live = TRUE /\ e.offset = put.offset /\ e.seq = q
          /\ End(e) = put.offset + SizeOf[put.hash]
      BY <2>2, <3>1, <3>2, ConstantsTyped DEF Entry, FileEntries, End
    <3> QED BY <3>3 DEF q
  <2> HIDE DEF e
  <2> QED BY <1>0, <1>1, <2>2, <2>3
<1> HIDE DEF e
<1>3. /\ new \in Tables /\ new[slot] = e /\ \A i \in Slots : i # slot => new[i] = fat[i]
  BY <1>1, <1>2 DEF TableInv, TableTyped, Tables, SlotEntries
<1>4. /\ fat' = new /\ safe' = {x \in safe : \E i \in Slots : new[i] = x}
      /\ fats' = [i \in Slots |-> fats[i] \union {new[i]}]
  BY <1>0 DEF Rewrite
<1> HIDE DEF new
<1>5. TableTyped'
  <2>1. \A i \in Slots : fats[i] \union {new[i]} \in SUBSET SlotEntries
    BY <1>3, SlotFacts DEF TableInv, Tables
  <2> QED BY <1>0, <1>1, <1>2, <1>3, <1>4, <2>1 DEF TableInv, TableTyped
<1>6. /\ fat'[slot] = e /\ \A x \in fats'[slot] : x \in fats[slot] \/ x = e
      /\ \A i \in Slots : i # slot => fat'[i] = fat[i] /\ fats'[i] = fats[i]
  <2>1. \A i \in Slots : fats[i] \union {fat[i]} = fats[i]
    BY SlotFacts DEF TableInv
  <2> QED BY <1>1, <1>3, <1>4, <2>1
<1>7. \A i \in Slots : fat[i].live => fat[i].seq \in Nat /\ fat[i].seq < sequence + 1
  <2> TAKE i \in Slots
  <2>1. fat[i] \in SlotEntries /\ (fat[i].live => fat[i].seq <= sequence)
    BY SlotFacts DEF TableInv, Numbered
  <2> QED BY <1>1, <2>1, Entries
\* The new entry is like none of the safe ones.
<1>8. e \notin safe
  <2> SUFFICES ASSUME e \in safe PROVE FALSE
    OBVIOUS
  <2>1. PICK i \in Slots : fat[i] = e
    BY DEF TableInv, Settled
  <2> QED BY <1>1, <1>2, <1>7, <2>1
<1>9. \A i \in Slots : fat'[i] \in safe' => i # slot /\ fat[i] \in safe
  BY <1>4, <1>6, <1>8
<1>10. TwoSlots'
  <2>1. \A i \in Slots : i > 2 => i # slot
    BY <1>1
  <2> QED BY <1>6, <2>1 DEF TableInv, TwoSlots
<1>11. Numbered'
  <2> SUFFICES ASSUME NEW i \in Slots, fat'[i].live PROVE fat'[i].seq <= sequence'
    BY DEF Numbered
  <2>1. CASE i = slot
    BY <1>0, <1>1, <1>2, <1>6, <2>1
  <2>2. CASE i # slot
    BY <1>0, <1>1, <1>6, <1>7, <2>2
  <2> QED BY <2>1, <2>2
<1>12. Settled'
  <2>1. \A x \in safe' : x.live /\ \E i \in Slots : fat'[i] = x
    BY <1>4 DEF TableInv, Settled
  <2>2. ASSUME NEW i \in Slots, fat'[i] \in safe' PROVE fats'[i] = {fat'[i]} /\ End(fat'[i]) <= head'
    <3>1. i # slot /\ fat[i] \in safe
      BY <1>9, <2>2
    <3>2. fats[i] = {fat[i]} /\ End(fat[i]) <= head /\ fat[i].live
      BY <3>1 DEF TableInv, Settled
    <3>3. End(fat[i]) \in Nat
      BY <3>2, SlotFacts, Entries DEF TableInv
    <3>4. End(fat[i]) <= head'
      BY <1>1, <1>2, <3>2, <3>3
    <3> QED BY <1>6, <3>1, <3>2, <3>4
  <2> QED BY <2>1, <2>2 DEF Settled
<1>13. Ordered'
  <2> SUFFICES ASSUME NEW i \in Slots, NEW j \in Slots, i < j
               PROVE  /\ fat'[i] \in safe' => \A x \in fats'[j] : x.live => End(fat'[i]) <= x.offset
                      /\ fat'[j] \in safe' => \A x \in fats'[i] : x.live => x.seq < fat'[j].seq
    BY DEF Ordered
  <2>1. ASSUME fat'[i] \in safe', NEW x \in fats'[j], x.live PROVE End(fat'[i]) <= x.offset
    <3>1. i # slot /\ fat[i] \in safe /\ fat'[i] = fat[i]
      BY <1>6, <1>9, <2>1
    <3>2. CASE x \in fats[j]
      BY <2>1, <3>1, <3>2 DEF TableInv, Ordered
    <3>3. CASE x = e
      <4>1. End(fat[i]) <= head /\ fat[i].live
        BY <3>1 DEF TableInv, Settled
      <4>2. End(fat[i]) \in Nat
        BY <4>1, SlotFacts, Entries DEF TableInv
      <4>3. put.offset \in Nat
        BY <1>1, PutFacts
      <4> QED BY <1>1, <1>2, <3>1, <3>3, <4>1, <4>2, <4>3
    <3> QED BY <1>6, <2>1, <3>2, <3>3
  <2>2. ASSUME fat'[j] \in safe', NEW x \in fats'[i], x.live PROVE x.seq < fat'[j].seq
    <3>1. j # slot /\ fat[j] \in safe /\ fat'[j] = fat[j] /\ fat[j].live
      BY <1>6, <1>9, <2>2 DEF TableInv, Settled
    <3>2. ~ (j > slot)
      <4>1. Free.live = FALSE
        BY DEF Free
      <4> QED BY <1>1, <3>1, <4>1
    <3>3. i # slot
      <4>1. i \in Nat /\ j \in Nat
        BY SlotFacts DEF TableInv
      <4> QED BY <1>1, <3>1, <3>2, <4>1
    <3> QED BY <1>6, <2>2, <3>1, <3>3 DEF TableInv, Ordered
  <2> QED BY <2>1, <2>2
<1>14. safe' \subseteq safe
  BY <1>4
<1> QED BY <1>5, <1>10, <1>11, <1>12, <1>13, <1>14 DEF TableInv

LEMMA SyncKeepsTable ==
  ASSUME TableInv, PutInv, Sync
  PROVE  TableInv'
<1> DEFINE slot == put.slot
           e == fat[put.slot]
<1>0. /\ put.at = "sync" /\ fats' = [i \in Slots |-> {fat[i]}] /\ safe' = safe \union {e}
      /\ fat' = fat /\ lock' = lock /\ sequence' = sequence /\ head' = head
  BY DEF Sync, tableVars
<1>1. /\ put # NoPut /\ slot \in Slots /\ slot <= 2 /\ slot \in Nat
      /\ \A i \in Slots : i > slot => fat[i] = Free
      /\ e = Entry(put.offset, SizeOf[put.hash], sequence, put.hash)
      /\ head = put.offset + SizeOf[put.hash]
      /\ \A i \in Slots : i # slot /\ fat[i].live => fat[i].seq < sequence
  <2>1. put # NoPut
    BY <1>0 DEF NoPut
  <2> QED BY <1>0, <2>1, PutFacts, SlotFacts DEF PutInv, PutPlaced, TableInv
<1>2. e.live /\ e.seq = sequence /\ e.offset = put.offset /\ End(e) = head /\ head \in Nat /\ sequence \in Nat
  <2>1. head \in Nat /\ sequence \in Nat
    BY DEF TableInv, TableTyped
  <2> QED BY <1>1, <2>1 DEF Entry, End
<1> HIDE DEF e
<1>3. \A i \in Slots : fat[i] = e => i = slot
  <2> SUFFICES ASSUME NEW i \in Slots, fat[i] = e, i # slot PROVE FALSE
    OBVIOUS
  <2>1. fat[i].seq < sequence
    BY <1>1, <1>2
  <2> QED BY <1>2, <2>1
<1>4. \A i \in Slots : fat'[i] \in safe' => i = slot \/ fat[i] \in safe
  BY <1>0, <1>3
<1>f. Free.live = FALSE
  BY DEF Free
<1>5. TableTyped'
  BY <1>0, SlotFacts DEF TableInv, TableTyped
<1>6. TwoSlots'
  BY <1>0, <1>1, SlotFacts DEF TableInv, TwoSlots
<1>7. Numbered'
  BY <1>0 DEF TableInv, Numbered
<1>8. Settled'
  <2>1. \A x \in safe' : x.live /\ \E i \in Slots : fat'[i] = x
    BY <1>0, <1>1, <1>2 DEF TableInv, Settled, e
  <2>2. ASSUME NEW i \in Slots, fat'[i] \in safe' PROVE fats'[i] = {fat'[i]} /\ End(fat'[i]) <= head'
    <3>1. CASE i = slot
      BY <1>0, <1>2, <3>1 DEF e
    <3>2. CASE fat[i] \in safe
      BY <1>0, <3>2 DEF TableInv, Settled
    <3> QED BY <1>4, <2>2, <3>1, <3>2
  <2> QED BY <2>1, <2>2 DEF Settled
<1>9. Ordered'
  <2> SUFFICES ASSUME NEW i \in Slots, NEW j \in Slots, i < j
               PROVE  /\ fat'[i] \in safe' => (fat'[j].live => End(fat'[i]) <= fat'[j].offset)
                      /\ fat'[j] \in safe' => (fat'[i].live => fat'[i].seq < fat'[j].seq)
    BY <1>0 DEF Ordered
  <2>0. i \in Nat /\ j \in Nat /\ fat[i] \in fats[i] /\ fat[j] \in fats[j]
    BY SlotFacts DEF TableInv
  <2>1. ASSUME fat'[i] \in safe', fat'[j].live PROVE End(fat'[i]) <= fat'[j].offset
    <3>1. CASE i = slot
      BY <1>0, <1>1, <1>f, <2>0, <2>1, <3>1
    <3>2. CASE fat[i] \in safe
      BY <1>0, <2>0, <2>1, <3>2 DEF TableInv, Ordered
    <3> QED BY <1>4, <2>1, <3>1, <3>2
  <2>2. ASSUME fat'[j] \in safe', fat'[i].live PROVE fat'[i].seq < fat'[j].seq
    <3>1. CASE j = slot
      BY <1>0, <1>1, <1>2, <2>0, <2>2, <3>1 DEF e
    <3>2. CASE fat[j] \in safe
      BY <1>0, <2>0, <2>2, <3>2 DEF TableInv, Ordered
    <3> QED BY <1>4, <2>2, <3>1, <3>2
  <2> QED BY <2>1, <2>2
<1> QED BY <1>5, <1>6, <1>7, <1>8, <1>9 DEF TableInv

\* What OpenCache finds the sequence and the end of the bytes by.
LastFile(table) == Max({k \in 0 .. NumSlots : \A m \in 0 .. k : InOrder(table, m)})

LEMMA LastFileProperties ==
  ASSUME NEW table \in Tables, TwoFilesAtMost(table),
         table[1].live \/ \A i \in Slots : table[i] = Free
  PROVE  LET last == LastFile(table)
         IN  \/ last = 0 /\ \A i \in Slots : table[i] = Free
             \/ /\ last \in Slots /\ last # 0 /\ table[last].live
                /\ \A i \in Slots : table[i].live => table[i].seq <= table[last].seq
<1> DEFINE S == {k \in 0 .. NumSlots : \A m \in 0 .. k : InOrder(table, m)}
           last == LastFile(table)
<1>0. NumSlots \in Nat \ {0} /\ Free.live = FALSE /\ 1 \in Slots
  BY ConstantsTyped DEF Free, Slots
<1>1. InOrder(table, 0)
  BY DEF InOrder
<1>2. 0 \in S
  BY <1>0, <1>1
<1>3. last \in S /\ \A k \in S : k <= last
  <2>1. S \in SUBSET (0 .. NumSlots) /\ S # {}
    BY <1>2
  <2>2. last = Max(S)
    BY DEF LastFile
  <2> HIDE DEF S, last
  <2> QED BY <1>0, <2>1, <2>2, GreatestNatural
<1>4. last \in 0 .. NumSlots /\ InOrder(table, last)
  <2>1. last \in 0 .. last
    BY <1>3
  <2> QED BY <1>3, <2>1
<1>5. CASE ~ table[1].live
  <2>1. \A i \in Slots : table[i] = Free
    BY <1>5
  <2>2. last = 0
    <3> SUFFICES ASSUME last # 0 PROVE FALSE
      OBVIOUS
    <3>1. 1 \in 1 .. last
      BY <1>4
    <3> QED BY <1>4, <1>5, <3>1 DEF InOrder
  <2> QED BY <2>1, <2>2
<1>6. CASE table[1].live
  <2>1. InOrder(table, 1)
    <3>1. 0 < table[1].seq /\ table[1].seq \in Nat
      BY <1>0, <1>6, Entries DEF Tables
    <3>2. \A i \in 1 .. 1 : i = 1
      OBVIOUS
    <3> QED BY <1>6, <3>1, <3>2 DEF InOrder
  <2>2. 1 \in S
    <3>1. \A m \in 0 .. 1 : m = 0 \/ m = 1
      OBVIOUS
    <3> QED BY <1>0, <1>1, <2>1, <3>1
  <2>3. last >= 1 /\ last \in 1 .. last
    BY <1>3, <1>4, <2>2
  <2>4. table[last].live /\ last \in Slots
    BY <1>4, <2>3 DEF InOrder, Slots
  <2>5. last \in {1, 2}
    <3>1. ~ (last > 2)
      BY <1>0, <2>4 DEF TwoFilesAtMost
    <3> QED BY <1>4, <2>3, <3>1
  <2>6. ASSUME NEW i \in Slots, table[i].live PROVE table[i].seq <= table[last].seq
    <3>0. /\ i \in {1, 2} /\ table[i].seq \in Nat /\ table[last].seq \in Nat /\ table[1].seq \in Nat
          /\ table[1].seq > 0
      <4>1. ~ (i > 2)
        BY <1>0, <2>6 DEF TwoFilesAtMost
      <4>2. i \in {1, 2}
        BY <1>0, <4>1 DEF Slots
      <4> QED BY <1>0, <1>6, <2>4, <2>6, <4>2, Entries DEF Tables
    <3>1. CASE i = last
      BY <3>0, <3>1
    <3>2. CASE i = 1 /\ last = 2
      <4>1. 2 \in 1 .. last /\ ~ (2 = 1) /\ 2 - 1 = 1
        BY <3>2
      <4>2. table[2].seq > table[2 - 1].seq
        BY <1>4, <4>1 DEF InOrder
      <4> QED BY <3>0, <3>2, <4>1, <4>2
    <3>3. CASE i = 2 /\ last = 1
      <4>1. InOrder(table, 2) => 2 \in S
        <5>1. 2 \in 0 .. NumSlots /\ \A m \in 0 .. 2 : m = 0 \/ m = 1 \/ m = 2
          BY <1>0, <3>3 DEF Slots
        <5> QED BY <1>1, <2>1, <5>1
      <4>2. ~ InOrder(table, 2)
        BY <1>3, <3>3, <4>1
      <4>3. \A k \in 1 .. 2 : k = 1 \/ (k = 2 /\ k # 1 /\ k - 1 = 1)
        OBVIOUS
      <4>4. ~ (table[2].seq > table[1].seq)
        BY <1>6, <2>6, <3>0, <3>3, <4>2, <4>3 DEF InOrder
      <4> QED BY <3>0, <3>3, <4>4
    <3> QED BY <2>5, <3>0, <3>1, <3>2, <3>3
  <2> QED BY <2>3, <2>4, <2>6
<1> QED BY <1>5, <1>6

\* What OpenCache makes of a table that a session or a crash has left.
LEMMA OpenKeepsTable ==
  ASSUME TableInv, NEW table \in Tables, \A i \in Slots : table[i] \in fats[i], OpenCache(table),
         fats' \in [Slots -> SUBSET SlotEntries],
         \A i \in Slots : /\ fat'[i] \in fats'[i]
                          /\ \A x \in fats'[i] : x \in fats[i] \/ x = fat'[i]
  PROVE  TableInv' /\ safe' \subseteq safe
<1> DEFINE new == RemoveFilesThatOverlap(table, NoLocks, 0, 0, 0).fat
           last == LastFile(new)
<1>0. /\ fat' = new /\ safe' = {e \in safe : \E i \in Slots : new[i] = e} /\ lock' = NoLocks
      /\ sequence' = IF last = 0 THEN 0 ELSE new[last].seq
      /\ head' = IF last = 0 THEN CacheFATSize ELSE End(new[last])
  BY DEF OpenCache, NoLocks, LastFile
<1>1. /\ new \in Tables /\ \A i \in Slots : new[i] = table[i] \/ new[i] = Free
      /\ new[1].live \/ \A i \in Slots : new[i] = Free
  BY OpenLeaves
<1> HIDE DEF new
<1>2. \A i \in Slots : fat'[i] = Free \/ fat'[i] \in fats[i]
  BY <1>0, <1>1
<1>f. Free.live = FALSE
  BY DEF Free
<1>3. TwoFilesAtMost(new)
  BY <1>0, <1>2 DEF TwoFilesAtMost, TableInv, TwoSlots
<1>4. \/ last = 0 /\ \A i \in Slots : new[i] = Free
      \/ /\ last \in Slots /\ last # 0 /\ new[last].live
         /\ \A i \in Slots : new[i].live => new[i].seq <= new[last].seq
  BY <1>1, <1>3, LastFileProperties
<1> HIDE DEF last
<1>5. TableTyped'
  <2>1. sequence' \in Nat /\ head' \in Nat
    <3>1. CASE last = 0
      BY <1>0, <3>1, ConstantsTyped
    <3>2. CASE last \in Slots /\ last # 0 /\ new[last].live
      <4>1. new[last].seq \in Nat /\ End(new[last]) \in Nat
        BY <1>1, <3>2, Entries DEF Tables
      <4> QED BY <1>0, <3>2, <4>1
    <3> QED BY <1>4, <3>1, <3>2
  <2>2. lock' \in Locks
    BY <1>0 DEF NoLocks, Locks
  <2> QED BY <1>0, <1>1, <2>1, <2>2 DEF TableTyped
<1>6. TwoSlots'
  <2> SUFFICES ASSUME NEW i \in Slots, i > 2 PROVE fats'[i] = {Free}
    BY DEF TwoSlots
  <2>1. fats[i] = {Free} /\ fat'[i] = Free
    BY <1>2 DEF TableInv, TwoSlots
  <2> QED BY <2>1
<1>7. Numbered'
  BY <1>0, <1>4, <1>f DEF Numbered
\* A safe entry that is found is found where it was.
<1>8. ASSUME NEW i \in Slots, fat'[i] \in safe'
      PROVE  /\ fat'[i] = fat[i] /\ fat[i] \in safe /\ fat'[i].live /\ fats[i] = {fat[i]}
  <2> DEFINE e == fat'[i]
  <2>1. e \in safe /\ e.live
    BY <1>0, <1>8 DEF TableInv, Settled
  <2>2. e \in fats[i] /\ e \in SlotEntries
    BY <1>2, <1>f, <2>1, SlotFacts DEF TableInv
  <2>3. PICK j \in Slots : fat[j] = e
    BY <2>1 DEF TableInv, Settled
  <2> HIDE DEF e
  <2>4. i \in Nat /\ j \in Nat /\ e.offset \in Nat /\ e.size \in Nat /\ e.size > 0 /\ e.seq \in Nat
        /\ End(e) = e.offset + e.size
    <3>1. i \in Nat /\ j \in Nat
      BY SlotFacts DEF TableInv
    <3> QED BY <2>1, <2>2, <3>1, Entries
  <2>5. ~ (j < i)
    <3> SUFFICES ASSUME j < i PROVE FALSE
      OBVIOUS
    <3>1. End(e) <= e.offset
      BY <2>1, <2>2, <2>3 DEF TableInv, Ordered
    <3> QED BY <2>4, <3>1
  <2>6. ~ (i < j)
    <3> SUFFICES ASSUME i < j PROVE FALSE
      OBVIOUS
    <3>1. e.seq < e.seq
      BY <2>1, <2>2, <2>3 DEF TableInv, Ordered
    <3> QED BY <2>4, <3>1
  <2>7. i = j
    BY <2>4, <2>5, <2>6
  <2>8. fats[i] = {fat[i]}
    BY <2>1, <2>3, <2>7 DEF TableInv, Settled
  <2> QED BY <2>1, <2>3, <2>7, <2>8 DEF e
<1>9. \A i \in Slots : \A x \in fats'[i] : x.live => x \in fats[i]
  BY <1>2, <1>f
<1>10. Ordered'
  BY <1>8, <1>9 DEF TableInv, Ordered
<1>11. Settled'
  <2>1. \A x \in safe' : x.live /\ \E i \in Slots : fat'[i] = x
    BY <1>0 DEF TableInv, Settled
  <2>2. ASSUME NEW i \in Slots, fat'[i] \in safe' PROVE fats'[i] = {fat'[i]} /\ End(fat'[i]) <= head'
    <3>1. fat'[i] = fat[i] /\ fat[i] \in safe /\ fat'[i].live /\ fats[i] = {fat[i]}
      BY <1>8, <2>2
    <3>2. fats'[i] = {fat'[i]}
      BY <3>1
    <3>3. /\ last \in Slots /\ last # 0 /\ new[last].live /\ new[i].seq <= new[last].seq
          /\ new[last] \in SlotEntries /\ new[i] \in SlotEntries /\ new[i] = fat'[i]
          /\ new[last] = fat'[last] /\ fat'[last] \in fats'[last] /\ head' = End(new[last])
          /\ i \in Nat /\ last \in Nat
      <4>1. last \in Slots /\ last # 0 /\ new[last].live /\ new[i].seq <= new[last].seq
        BY <1>0, <1>4, <1>f, <3>1
      <4> QED BY <1>0, <1>1, <4>1, SlotFacts DEF Tables, TableInv
    <3>4. /\ new[i].seq \in Nat /\ new[last].seq \in Nat /\ End(new[i]) \in Nat /\ End(new[last]) \in Nat
          /\ new[last].offset \in Nat /\ new[last].offset <= End(new[last])
      <4>1. /\ new[i].seq \in Nat /\ End(new[i]) \in Nat
        BY <3>1, <3>3, Entries
      <4>2. /\ new[last].seq \in Nat /\ End(new[last]) \in Nat /\ new[last].offset \in Nat
            /\ new[last].size \in Nat /\ End(new[last]) = new[last].offset + new[last].size
        BY <3>3, Entries
      <4> QED BY <4>1, <4>2
    <3>5. CASE i = last
      BY <3>2, <3>3, <3>4, <3>5
    <3>6. CASE i < last
      <4>1. End(new[i]) <= new[last].offset
        BY <1>10, <2>2, <3>3, <3>6 DEF Ordered
      <4> QED BY <3>2, <3>3, <3>4, <4>1
    <3>7. CASE last < i
      <4>1. new[last].seq < new[i].seq
        BY <1>10, <2>2, <3>3, <3>7 DEF Ordered
      <4> QED BY <3>3, <3>4, <4>1
    <3> QED BY <3>3, <3>5, <3>6, <3>7
  <2> QED BY <2>1, <2>2 DEF Settled
<1> QED BY <1>0, <1>5, <1>6, <1>7, <1>10, <1>11 DEF TableInv

-----------------------------------------------------------------------------
(* The bytes.                                                              *)

\* The cells of a file that is in the table, or of one that is being put.
LEMMA Places ==
  ASSUME NEW o \in Nat, NEW h \in Files, CacheFATSize <= o, o + SizeOf[h] <= MaxHead,
         NEW k \in 1 .. SizeOf[h]
  PROVE  o + k - 1 \in Cells /\ o <= o + k - 1 /\ o + k - 1 < o + SizeOf[h]
BY ConstantsTyped DEF Cells

LEMMA SafePlaces ==
  ASSUME TableInv, NEW e \in safe
  PROVE  /\ e.offset \in Nat /\ e.hash \in Files /\ CacheFATSize <= e.offset
         /\ e.offset + SizeOf[e.hash] <= MaxHead /\ e.offset + SizeOf[e.hash] <= head
<1>1. PICK i \in Slots : fat[i] = e
  BY DEF TableInv, Settled
<1>2. e.live /\ e \in SlotEntries /\ End(e) <= head
  BY <1>1, SlotFacts DEF TableInv, Settled
<1> QED BY <1>2, Entries

LEMMA BytesProperties ==
  ASSUME NEW h \in Files
  PROVE  /\ DOMAIN Bytes(h) = 1 .. SizeOf[h]
         /\ \A k \in 1 .. SizeOf[h] : Bytes(h)[k] = <<h, k>> /\ Bytes(h)[k] \in Content
         /\ Bytes(h) \in Contents
<1>1. \A k \in 1 .. SizeOf[h] : <<h, k>> \in Content
  BY ConstantsTyped DEF Content
<1>2. Bytes(h) \in [1 .. SizeOf[h] -> Content]
  BY <1>1 DEF Bytes
<1>3. SizeOf[h] \in Nat
  BY ConstantsTyped
<1> QED BY <1>1, <1>2, <1>3 DEF Bytes, Contents

\* What is written changes none of the cells before it.
LEMMA WriteBytesKeeps ==
  ASSUME TableInv, DiskInv, PutInv, LoadsInv, WriteBytes
  PROVE  DiskInv' /\ PutInv' /\ LoadsInv'
<1> DEFINE o == put.offset
           h == put.hash
           size == SizeOf[put.hash]
<1>0. /\ put.at = "write" /\ put # NoPut
      /\ fat' = fat /\ lock' = lock /\ sequence' = sequence /\ head' = head
      /\ fats' = fats /\ reader' = reader /\ safe' = safe
  BY DEF WriteBytes, tableVars, boundVars, NoPut
<1>1. /\ put \in PutsUnderWay /\ put.slot \in Slots /\ put.slot <= 2 /\ o \in Nat /\ h \in Files
      /\ CacheFATSize <= o /\ o + size <= MaxHead /\ size \in Nat /\ size > 0
      /\ \A i \in Slots : i > put.slot => fat[i] = Free
      /\ fat[put.slot] = Free /\ head <= o /\ head \in Nat
  BY <1>0, PutFacts DEF PutInv, PutPlaced, TableInv, TableTyped
<1>2. PICK n \in 0 .. size :
        LET new == [c \in Cells |-> IF c \in o .. o + n - 1 THEN Bytes(h)[c - o + 1] ELSE cell[c]]
        IN  /\ cell' = new /\ cells' = [c \in Cells |-> cells[c] \union {new[c]}]
            /\ put' = IF n = size THEN [put EXCEPT !.at = "entry"] ELSE NoPut
  BY DEF WriteBytes
<1> HIDE DEF o, h, size
<1>3. /\ \A c \in Cells : cell'[c] = IF c \in o .. o + n - 1 THEN Bytes(h)[c - o + 1] ELSE cell[c]
      /\ \A c \in Cells : cells'[c] = cells[c] \union {cell'[c]}
      /\ put' = IF n = size THEN [put EXCEPT !.at = "entry"] ELSE NoPut
      /\ cell' = [c \in Cells |-> cell'[c]] /\ cells' = [c \in Cells |-> cells'[c]]
  BY <1>2
<1>4. \A c \in Cells : cell[c] \in Content /\ cells[c] \in SUBSET Content /\ cell[c] \in cells[c]
  BY DEF DiskInv, DiskTyped
<1>5. ASSUME NEW c \in Cells, c \in o .. o + n - 1
      PROVE  c - o + 1 \in 1 .. size /\ cell'[c] = <<h, c - o + 1>> /\ cell'[c] \in Content
  <2>1. c - o + 1 \in 1 .. size
    BY <1>1, <1>5
  <2> QED BY <1>1, <1>3, <1>5, <2>1, BytesProperties DEF size, h
<1>6. \A c \in Cells : cell'[c] \in Content
  BY <1>3, <1>4, <1>5
<1>7. DiskTyped'
  <2>1. \A c \in Cells : cells'[c] \in SUBSET Content /\ cell'[c] \in cells'[c]
    BY <1>3, <1>4, <1>6
  <2> QED BY <1>3, <1>6, <2>1 DEF DiskTyped
<1>8. \A c \in Cells : c < o => cell'[c] = cell[c] /\ cells'[c] = cells[c]
  <2> SUFFICES ASSUME NEW c \in Cells, c < o PROVE cell'[c] = cell[c] /\ cells'[c] = cells[c]
    OBVIOUS
  <2>1. c \notin o .. o + n - 1
    BY <1>1
  <2>2. cell'[c] = cell[c] /\ cells'[c] = cells[c] \union {cell[c]}
    BY <1>3, <2>1
  <2> QED BY <1>4, <2>2
<1>9. ASSUME NEW e \in safe' PROVE Durable(e.offset, e.hash)'
  <2>1. e \in safe
    BY <1>0, <1>9
  <2>2. /\ e.offset \in Nat /\ e.hash \in Files /\ CacheFATSize <= e.offset
        /\ e.offset + SizeOf[e.hash] <= MaxHead /\ e.offset + SizeOf[e.hash] <= head
    BY <2>1, SafePlaces
  <2>3. Durable(e.offset, e.hash)
    BY <2>1 DEF DiskInv
  <2>4. ASSUME NEW k \in 1 .. SizeOf[e.hash] PROVE cells'[e.offset + k - 1] = {<<e.hash, k>>}
    <3>1. e.offset + k - 1 \in Cells /\ e.offset + k - 1 < e.offset + SizeOf[e.hash]
      BY <2>2, Places
    <3>2. e.offset + k - 1 < o
      BY <1>1, <2>2, <3>1, ConstantsTyped DEF Cells
    <3> QED BY <1>8, <2>3, <3>1, <3>2 DEF Durable
  <2> QED BY <2>4 DEF Durable
<1>10. PutInv'
  <2>1. CASE n # size
    BY <1>3, <2>1 DEF PutInv, PutTyped, PutPlaced
  <2>2. CASE n = size
    <3>1. put' = [put EXCEPT !.at = "entry"]
      BY <1>3, <2>2
    <3>2. /\ put' \in PutsUnderWay /\ put'.at = "entry" /\ put'.slot = put.slot
          /\ put'.offset = o /\ put'.hash = h
      BY <1>1, <3>1 DEF PutsUnderWay, o, h
    <3>3. ASSUME NEW k \in 1 .. SizeOf[h] PROVE cell'[o + k - 1] = <<h, k>>
      <4>1. o + k - 1 \in Cells /\ k \in 1 .. size
        BY <1>1, Places DEF size, h
      <4>2. o + k - 1 \in o .. o + n - 1 /\ (o + k - 1) - o + 1 = k
        BY <1>1, <2>2, <4>1
      <4> QED BY <1>5, <4>1, <4>2
    <3>4. \A k \in 1 .. SizeOf[put'.hash] : cell'[put'.offset + k - 1] = <<put'.hash, k>>
      BY <3>2, <3>3
    <3> QED BY <1>0, <1>1, <3>2, <3>4 DEF PutInv, PutTyped, PutPlaced, Stored, size, h
  <2> QED BY <2>1, <2>2
<1>11. LoadsInv'
  <2> SUFFICES ASSUME NEW r \in Readers, LoadPlaced(reader[r]) PROVE LoadPlaced(reader[r])'
    BY <1>0 DEF LoadsInv, LoadsTyped
  <2> DEFINE rd == reader[r]
  <2>1. reader'[r] = rd
    BY <1>0
  <2>2. ASSUME rd.at = "read", rd.safe, NEW k \in 1 .. SizeOf[rd.hash]
        PROVE  cell'[rd.offset + k - 1] = <<rd.hash, k>>
    <3>1. /\ CacheFATSize <= rd.offset /\ rd.offset + SizeOf[rd.hash] <= MaxHead
          /\ rd.offset + SizeOf[rd.hash] <= head /\ Stored(rd.offset, rd.hash)
      BY <2>2 DEF LoadPlaced
    <3>2. rd.offset \in Nat /\ rd.hash \in Files
      BY <2>2 DEF LoadsInv, LoadsTyped, Loads, NoReader
    <3>3. rd.offset + k - 1 \in Cells /\ rd.offset + k - 1 < rd.offset + SizeOf[rd.hash]
      BY <3>1, <3>2, Places
    <3>4. rd.offset + k - 1 < o
      BY <1>1, <3>1, <3>2, <3>3, ConstantsTyped
    <3> QED BY <1>8, <3>1, <3>3, <3>4 DEF Stored
  <2> QED BY <1>0, <2>1, <2>2 DEF LoadPlaced, Stored
<1> QED BY <1>7, <1>9, <1>10, <1>11 DEF DiskInv

\* The bytes stay as they are, and no more entries are safe.
LEMMA DiskUnchanged ==
  ASSUME DiskInv, safe' \subseteq safe, cell' = cell, cells' = cells
  PROVE  DiskInv'
<1>1. DiskTyped'
  BY DEF DiskInv, DiskTyped
<1>2. ASSUME NEW e \in safe' PROVE Durable(e.offset, e.hash)'
  <2>1. Durable(e.offset, e.hash)
    BY <1>2 DEF DiskInv
  <2> QED BY <2>1 DEF Durable
<1> QED BY <1>1, <1>2 DEF DiskInv

\* What is durable is stored.
LEMMA DurableStored ==
  ASSUME DiskTyped, NEW o \in Nat, NEW h \in Files, CacheFATSize <= o, o + SizeOf[h] <= MaxHead, Durable(o, h)
  PROVE  Stored(o, h)
<1> SUFFICES ASSUME NEW k \in 1 .. SizeOf[h] PROVE cell[o + k - 1] = <<h, k>>
  BY DEF Stored
<1>1. o + k - 1 \in Cells
  BY Places
<1>2. cell[o + k - 1] \in cells[o + k - 1] /\ cells[o + k - 1] = {<<h, k>>}
  BY <1>1 DEF Durable, DiskTyped
<1> QED BY <1>2

LEMMA SyncKeepsDisk ==
  ASSUME TableInv, DiskInv, PutInv, Sync
  PROVE  DiskInv' /\ PutInv'
<1>0. /\ put.at = "sync" /\ put # NoPut /\ put' = NoPut /\ safe' = safe \union {fat[put.slot]}
      /\ cell' = cell /\ cells' = [c \in Cells |-> {cell[c]}]
  BY DEF Sync, NoPut
<1>1. DiskTyped'
  BY <1>0 DEF DiskInv, DiskTyped
<1>2. ASSUME NEW o \in Nat, NEW h \in Files, CacheFATSize <= o, o + SizeOf[h] <= MaxHead, Stored(o, h)
      PROVE  Durable(o, h)'
  <2> SUFFICES ASSUME NEW k \in 1 .. SizeOf[h] PROVE cells'[o + k - 1] = {<<h, k>>}
    BY DEF Durable
  <2>1. o + k - 1 \in Cells
    BY <1>2, Places
  <2> QED BY <1>0, <1>2, <2>1 DEF Stored
<1>3. ASSUME NEW e \in safe' PROVE Durable(e.offset, e.hash)'
  <2>1. CASE e \in safe
    <3>1. /\ e.offset \in Nat /\ e.hash \in Files /\ CacheFATSize <= e.offset
          /\ e.offset + SizeOf[e.hash] <= MaxHead
      BY <2>1, SafePlaces
    <3>2. Stored(e.offset, e.hash)
      BY <2>1, <3>1, DurableStored DEF DiskInv
    <3>3. PICK o, h : o = e.offset /\ h = e.hash
      OBVIOUS
    <3>4. Durable(o, h)'
      BY <1>2, <3>1, <3>2, <3>3
    <3> QED BY <3>3, <3>4 DEF Durable
  <2>2. CASE e = fat[put.slot]
    <3>1. fat[put.slot] = Entry(put.offset, SizeOf[put.hash], sequence, put.hash) /\ Stored(put.offset, put.hash)
      BY <1>0 DEF PutInv, PutPlaced
    <3>2. PICK o, h : o = e.offset /\ h = e.hash
      OBVIOUS
    <3>3. o = put.offset /\ h = put.hash
      BY <2>2, <3>1, <3>2 DEF Entry
    <3>4. /\ o \in Nat /\ h \in Files /\ CacheFATSize <= o /\ o + SizeOf[h] <= MaxHead /\ Stored(o, h)
      BY <1>0, <3>1, <3>3, PutFacts
    <3>5. Durable(o, h)'
      BY <1>2, <3>4
    <3> QED BY <3>2, <3>5 DEF Durable
  <2> QED BY <1>0, <1>3, <2>1, <2>2
<1>4. PutInv'
  BY <1>0 DEF PutInv, PutTyped, PutPlaced
<1> QED BY <1>1, <1>3, <1>4 DEF DiskInv

\* The table after a restart or a crash, and the bytes.
LEMMA OpenKeepsDisk ==
  ASSUME TableInv, DiskInv, safe' \subseteq safe,
         cell' \in [Cells -> Content], cells' \in [Cells -> SUBSET Content],
         \A c \in Cells : cell'[c] \in cells'[c] /\ cells'[c] \subseteq cells[c]
  PROVE  DiskInv'
<1>1. DiskTyped'
  BY DEF DiskTyped
<1>2. ASSUME NEW e \in safe' PROVE Durable(e.offset, e.hash)'
  <2>1. e \in safe
    BY <1>2
  <2>2. /\ e.offset \in Nat /\ e.hash \in Files /\ CacheFATSize <= e.offset
        /\ e.offset + SizeOf[e.hash] <= MaxHead /\ Durable(e.offset, e.hash)
    BY <2>1, SafePlaces DEF DiskInv
  <2>3. ASSUME NEW k \in 1 .. SizeOf[e.hash] PROVE cells'[e.offset + k - 1] = {<<e.hash, k>>}
    <3>1. e.offset + k - 1 \in Cells
      BY <2>2, Places
    <3>2. /\ cells[e.offset + k - 1] = {<<e.hash, k>>}
          /\ cell'[e.offset + k - 1] \in cells'[e.offset + k - 1]
          /\ cells'[e.offset + k - 1] \subseteq cells[e.offset + k - 1]
      BY <2>2, <3>1 DEF Durable
    <3> QED BY <3>2
  <2> QED BY <2>3 DEF Durable
<1> QED BY <1>1, <1>2 DEF DiskInv

-----------------------------------------------------------------------------
(* The steps.                                                              *)

LEMMA MaxOfTwo ==
  ASSUME NEW a \in Nat, NEW b \in Nat
  PROVE  Max({a, b}) \in Nat /\ a <= Max({a, b}) /\ b <= Max({a, b})
<1>1. \E x \in {a, b} : \A y \in {a, b} : x >= y
  <2>1. a >= b \/ b >= a
    OBVIOUS
  <2>2. a >= a /\ b >= b
    OBVIOUS
  <2> QED BY <2>1, <2>2
<1>2. Max({a, b}) \in {a, b} /\ \A y \in {a, b} : Max({a, b}) >= y
  BY <1>1, Zenon DEF Max
<1> QED BY <1>2

LEMMA FoundFile ==
  ASSUME TableTyped, NEW h, FindFileByHash(h) # 0
  PROVE  FindFileByHash(h) \in Slots /\ fat[FindFileByHash(h)].live /\ fat[FindFileByHash(h)].hash = h
<1> DEFINE found == {i \in Slots : fat[i].live /\ fat[i].hash = h}
<1>1. found # {} /\ FindFileByHash(h) = Min(found)
  BY DEF FindFileByHash
<1>2. found \in SUBSET Nat
  BY SlotFacts
<1>3. Min(found) \in found
  <2> HIDE DEF found
  <2>1. \E x \in found : \A y \in found : x <= y
    BY <1>1, <1>2, LeastNatural
  <2> QED BY <2>1 DEF Min
<1> QED BY <1>1, <1>3

\* No load sees a step that leaves its bytes alone.
LEMMA LoadsUnchanged ==
  ASSUME LoadsInv, reader' = reader, cell' = cell, head \in Nat, head' \in Nat, head <= head'
  PROVE  LoadsInv'
<1> SUFFICES ASSUME NEW r \in Readers, LoadPlaced(reader[r]) PROVE LoadPlaced(reader[r])'
  BY DEF LoadsInv, LoadsTyped
<1>1. reader[r] \in Loads \union {NoReader} /\ reader'[r] = reader[r]
  BY DEF LoadsInv, LoadsTyped
<1>2. reader[r].at = "read" => reader[r].offset \in Nat /\ reader[r].size \in Nat
  BY <1>1 DEF Loads, NoReader
<1>3. reader[r].at = "read" /\ reader[r].safe => reader[r].offset + reader[r].size <= head'
  BY <1>2 DEF LoadPlaced
<1> QED BY <1>1, <1>3 DEF LoadPlaced, Stored

LEMMA TableUnchanged ==
  ASSUME TableInv, fat' = fat, fats' = fats, safe' = safe, sequence' = sequence, head' = head,
         lock' \in Locks
  PROVE  TableInv'
BY DEF TableInv, TableTyped, TwoSlots, Numbered, Settled, Ordered

LEMMA BeginPutKeeps ==
  ASSUME CacheInv, NEW h \in Files, NEW known, BeginPut(h, known)
  PROVE  CacheInv'
<1>1. PICK r : /\ r = RemoveFilesThatOverlap(fat, lock, Max({head, CacheFATSize}), SizeOf[h], sequence)
               /\ r.ofs + SizeOf[h] <= MaxHead /\ r.fblk \in Slots
               /\ Rewrite(PutTable(r))
               /\ put' = [at |-> "write", slot |-> r.fblk, offset |-> r.ofs, hash |-> h]
  BY DEF BeginPut, PutTable
<1>2. /\ lock' = lock /\ sequence' = sequence /\ head' = head /\ cell' = cell /\ cells' = cells
      /\ reader' = reader
  BY DEF BeginPut
<1>3. /\ fat \in Tables /\ lock \in Locks /\ sequence \in Nat /\ head \in Nat
      /\ \A i \in Slots : i > 2 => fat[i] = Free
  BY SlotFacts DEF CacheInv, TableInv, TableTyped, TwoSlots
<1>4. LET o == Max({head, CacheFATSize}) IN o \in Nat /\ head <= o /\ CacheFATSize <= o
  BY <1>3, MaxOfTwo, ConstantsTyped
<1>5. /\ r.ofs \in Nat /\ Max({head, CacheFATSize}) <= r.ofs /\ r.fblk <= 2
      /\ PutTable(r) \in Tables
      /\ \A i \in Slots : /\ PutTable(r)[i] = fat[i] \/ PutTable(r)[i] = Free
                          /\ i >= r.fblk => PutTable(r)[i] = Free
  <2>1. TwoFilesAtMost(fat) /\ \A i \in Slots : fat[i].live => fat[i].seq <= sequence
    BY <1>3 DEF TwoFilesAtMost, CacheInv, TableInv, Numbered
  <2>2. PICK o \in Nat, size \in Nat : o = Max({head, CacheFATSize}) /\ size = SizeOf[h]
    BY <1>4, ConstantsTyped
  <2>3. r = RemoveFilesThatOverlap(fat, lock, o, size, sequence) /\ r.fblk \in Slots
    BY <1>1, <2>2
  <2>4. r.ofs \in Nat /\ o <= r.ofs /\ r.fblk <= 2 /\ PutTable(r) \in Tables
    BY <1>3, <2>1, <2>3, PutLeaves
  <2>5. \A i \in Slots : /\ PutTable(r)[i] = fat[i] \/ PutTable(r)[i] = Free
                         /\ i >= r.fblk => PutTable(r)[i] = Free
    BY <1>3, <2>1, <2>3, PutLeaves
  <2> QED BY <2>2, <2>4, <2>5
<1>6. TableInv' /\ safe' \subseteq safe
  BY <1>1, <1>2, <1>5, EraseKeepsTable DEF CacheInv
<1>7. DiskInv' /\ LoadsInv'
  BY <1>2, <1>3, <1>6, DiskUnchanged, LoadsUnchanged DEF CacheInv
<1>8. PutInv'
  <2>1. /\ put' \in PutsUnderWay /\ put'.at = "write" /\ put'.slot = r.fblk /\ put'.offset = r.ofs
        /\ put'.hash = h
    BY <1>1, <1>5 DEF PutsUnderWay
  <2>2. head <= r.ofs /\ CacheFATSize <= r.ofs
    BY <1>3, <1>4, <1>5, ConstantsTyped
  <2>3. \A i \in Slots : i > r.fblk => i >= r.fblk
    BY <1>1 DEF Slots
  <2>4. \A i \in Slots : i >= r.fblk => fat'[i] = Free
    BY <1>1, <1>5 DEF Rewrite
  <2>5. r.fblk >= r.fblk
    BY <1>1 DEF Slots
  <2> QED BY <1>1, <1>2, <1>5, <2>1, <2>2, <2>3, <2>4, <2>5 DEF PutInv, PutTyped, PutPlaced
<1> QED BY <1>6, <1>7, <1>8 DEF CacheInv

LEMMA WriteEntryKeeps ==
  ASSUME CacheInv, WriteEntry
  PROVE  CacheInv'
<1> DEFINE e == Entry(put.offset, SizeOf[put.hash], sequence + 1, put.hash)
<1>0. /\ put.at = "entry" /\ put # NoPut /\ Rewrite([fat EXCEPT ![put.slot] = e])
      /\ sequence' = sequence + 1 /\ head' = put.offset + SizeOf[put.hash]
      /\ put' = [put EXCEPT !.at = "sync"] /\ cell' = cell /\ cells' = cells /\ reader' = reader
  BY DEF WriteEntry, NoPut
<1>1. TableInv' /\ safe' \subseteq safe
  BY WriteEntryKeepsTable DEF CacheInv
<1>2. /\ put \in PutsUnderWay /\ put.slot \in Slots /\ put.offset \in Nat /\ put.hash \in Files
      /\ SizeOf[put.hash] \in Nat /\ put.slot <= 2 /\ CacheFATSize <= put.offset
      /\ put.offset + SizeOf[put.hash] <= MaxHead
      /\ \A i \in Slots : i > put.slot => fat[i] = Free
      /\ head <= put.offset /\ Stored(put.offset, put.hash)
      /\ head \in Nat /\ sequence \in Nat /\ fat \in Tables
  BY <1>0, PutFacts DEF CacheInv, PutInv, PutPlaced, TableInv, TableTyped
<1>3. DiskInv' /\ LoadsInv'
  <2>1. head' \in Nat /\ head <= head'
    BY <1>0, <1>2
  <2> QED BY <1>0, <1>1, <1>2, <2>1, DiskUnchanged, LoadsUnchanged DEF CacheInv
<1>4. fat'[put.slot] = e /\ \A i \in Slots : i # put.slot => fat'[i] = fat[i]
  BY <1>0, <1>2 DEF Rewrite, Tables
<1>5. /\ put' \in PutsUnderWay /\ put'.at = "sync" /\ put'.slot = put.slot /\ put'.offset = put.offset
      /\ put'.hash = put.hash
  BY <1>0, <1>2 DEF PutsUnderWay
<1>6. \A i \in Slots : i # put.slot /\ fat'[i].live => fat'[i].seq < sequence'
  <2> SUFFICES ASSUME NEW i \in Slots, i # put.slot, fat'[i].live PROVE fat'[i].seq < sequence'
    OBVIOUS
  <2>1. fat'[i] = fat[i] /\ fat[i].seq <= sequence /\ fat[i] \in SlotEntries
    BY <1>4, SlotFacts DEF CacheInv, TableInv, Numbered
  <2>2. fat[i].seq \in Nat
    BY <2>1, Entries
  <2> QED BY <1>0, <1>2, <2>1, <2>2
<1>7. \A i \in Slots : i > put.slot => fat'[i] = Free
  <2>1. \A i \in Slots : i > put.slot => i # put.slot
    BY <1>2 DEF Slots
  <2> QED BY <1>2, <1>4, <2>1
<1>8. PutInv'
  <2>1. fat'[put'.slot] = Entry(put'.offset, SizeOf[put'.hash], sequence', put'.hash)
    BY <1>0, <1>4, <1>5
  <2>2. \A k \in 1 .. SizeOf[put'.hash] : cell'[put'.offset + k - 1] = <<put'.hash, k>>
    BY <1>0, <1>2, <1>5 DEF Stored
  <2> HIDE DEF e
  <2> QED BY <1>0, <1>2, <1>5, <1>6, <1>7, <2>1, <2>2 DEF PutInv, PutTyped, PutPlaced, Stored
<1> QED BY <1>1, <1>3, <1>8 DEF CacheInv

LEMMA UnlinkKeeps ==
  ASSUME CacheInv, NEW h \in Files, Unlink(h)
  PROVE  CacheInv'
<1> DEFINE i == FindFileByHash(h)
           new == [fat EXCEPT ![i] = Free]
<1>0. /\ put = NoPut /\ i # 0 /\ Rewrite(new)
      /\ lock' = lock /\ sequence' = sequence /\ head' = head /\ cell' = cell /\ cells' = cells
      /\ put' = put /\ reader' = reader
  BY DEF Unlink
<1>1. fat \in Tables /\ head \in Nat
  BY DEF CacheInv, TableInv, TableTyped
<1>2. new \in Tables /\ \A j \in Slots : new[j] = fat[j] \/ new[j] = Free
  BY <1>1 DEF Tables, SlotEntries
<1> HIDE DEF new, i
<1>3. TableInv' /\ safe' \subseteq safe
  BY <1>0, <1>2, EraseKeepsTable DEF CacheInv
<1>4. DiskInv' /\ LoadsInv'
  BY <1>0, <1>1, <1>3, DiskUnchanged, LoadsUnchanged DEF CacheInv
<1>5. PutInv'
  BY <1>0 DEF CacheInv, PutInv, PutTyped, PutPlaced
<1> QED BY <1>3, <1>4, <1>5 DEF CacheInv

\* A step of one reader.
LEMMA ReaderSteps ==
  ASSUME CacheInv, NEW r \in Readers, NEW rd \in Loads \union {NoReader},
         reader' = [reader EXCEPT ![r] = rd], LoadPlaced(rd),
         fat' = fat, fats' = fats, sequence' = sequence, head' = head, lock' \in Locks,
         cell' = cell, cells' = cells, put' = put, safe' = safe
  PROVE  CacheInv'
<1>1. TableInv'
  BY TableUnchanged DEF CacheInv
<1>2. DiskInv'
  BY DiskUnchanged DEF CacheInv
<1>3. PutInv'
  BY DEF CacheInv, PutInv, PutTyped, PutPlaced, Stored
<1>4. LoadsTyped'
  BY DEF CacheInv, LoadsInv, LoadsTyped
<1>5. ASSUME NEW s \in Readers PROVE LoadPlaced(reader[s])'
  <2>1. CASE s = r
    <3>1. reader'[s] = rd
      BY <2>1 DEF CacheInv, LoadsInv, LoadsTyped
    <3> QED BY <3>1 DEF LoadPlaced, Stored
  <2>2. CASE s # r
    <3>1. reader'[s] = reader[s] /\ LoadPlaced(reader[s])
      BY <2>2 DEF CacheInv, LoadsInv, LoadsTyped
    <3> QED BY <3>1 DEF LoadPlaced, Stored
  <2> QED BY <2>1, <2>2
<1> QED BY <1>1, <1>2, <1>3, <1>4, <1>5 DEF CacheInv, LoadsInv

LEMMA GetReaderKeeps ==
  ASSUME CacheInv, NEW r \in Readers, NEW h \in Files, GetReader(r, h)
  PROVE  CacheInv'
<1> DEFINE i == FindFileByHash(h)
           f == fat[i]
           rd == [at |-> "read", slot |-> i, hash |-> h, offset |-> f.offset, size |-> f.size,
                  safe |-> f \in safe]
<1>0. /\ i # 0 /\ lock' = [lock EXCEPT ![i] = @ + 1] /\ reader' = [reader EXCEPT ![r] = rd]
      /\ fat' = fat /\ fats' = fats /\ sequence' = sequence /\ head' = head
      /\ cell' = cell /\ cells' = cells /\ put' = put /\ safe' = safe
  BY DEF GetReader, diskVars
<1>1. TableTyped
  BY DEF CacheInv, TableInv
<1>2. i \in Slots /\ f.live /\ f.hash = h /\ f \in SlotEntries
  BY <1>0, <1>1, FoundFile, SlotFacts
<1>3. /\ f.offset \in Nat /\ f.size \in Nat /\ f.size = SizeOf[h] /\ CacheFATSize <= f.offset
      /\ f.offset + f.size <= MaxHead /\ End(f) = f.offset + f.size
  BY <1>2, Entries
<1>4. lock' \in Locks
  BY <1>0, <1>1, <1>2 DEF TableTyped, Locks
<1>5. f \in safe => f.offset + f.size <= head /\ Stored(f.offset, h)
  <2> SUFFICES ASSUME f \in safe PROVE f.offset + f.size <= head /\ Stored(f.offset, h)
    OBVIOUS
  <2>1. End(f) <= head
    BY <1>2 DEF CacheInv, TableInv, Settled
  <2>2. Durable(f.offset, h) /\ DiskTyped
    BY <1>2 DEF CacheInv, DiskInv
  <2>3. PICK o \in Nat : o = f.offset
    BY <1>3
  <2>4. Stored(o, h)
    BY <1>3, <2>2, <2>3, DurableStored
  <2> QED BY <1>3, <2>1, <2>3, <2>4
<1> HIDE DEF i, f
<1>6. /\ rd \in Loads /\ rd.at = "read" /\ rd.offset = f.offset /\ rd.size = f.size /\ rd.hash = h
      /\ (rd.safe <=> f \in safe)
  <2>1. \E b \in BOOLEAN : b = (f \in safe)
    <3>1. CASE f \in safe
      <4>1. TRUE = (f \in safe) /\ TRUE \in BOOLEAN
        BY <3>1
      <4> QED BY ONLY <4>1
    <3>2. CASE f \notin safe
      <4>1. FALSE = (f \in safe) /\ FALSE \in BOOLEAN
        BY <3>2
      <4> QED BY ONLY <4>1
    <3> QED BY <3>1, <3>2
  <2> PICK b \in BOOLEAN : b = (f \in safe)
    BY <2>1
  <2>2. rd = [at |-> "read", slot |-> i, hash |-> h, offset |-> f.offset, size |-> f.size, safe |-> b]
    OBVIOUS
  <2> HIDE DEF rd
  <2> QED BY <1>2, <1>3, <2>2 DEF Loads
<1> HIDE DEF rd
<1>7. LoadPlaced(rd)
  BY <1>3, <1>5, <1>6 DEF LoadPlaced
<1> QED BY <1>0, <1>4, <1>6, <1>7, ReaderSteps

LEMMA LoadFacts ==
  ASSUME CacheInv, NEW r \in Readers, reader[r] # NoReader
  PROVE  /\ reader[r] \in Loads /\ reader[r].slot \in Slots /\ reader[r].hash \in Files
         /\ reader[r].safe \in BOOLEAN
         /\ reader[r].at = "read" => reader[r].offset \in Nat /\ reader[r].size \in Nat
         /\ reader[r].at = "close" => reader[r].bytes \in Contents
         /\ LoadPlaced(reader[r])
<1>1. reader[r] \in Loads /\ LoadPlaced(reader[r])
  BY DEF CacheInv, LoadsInv, LoadsTyped
<1>2. /\ reader[r].slot \in Slots /\ reader[r].hash \in Files /\ reader[r].safe \in BOOLEAN
      /\ reader[r].at = "read" => reader[r].offset \in Nat /\ reader[r].size \in Nat
      /\ reader[r].at = "close" => reader[r].bytes \in Contents
  BY <1>1 DEF Loads
<1> QED BY <1>1, <1>2

LEMMA FileReadKeeps ==
  ASSUME CacheInv, NEW r \in Readers, FileRead(r)
  PROVE  CacheInv'
<1> DEFINE rd == reader[r]
           bytes == [k \in 1 .. rd.size |-> cell[rd.offset + k - 1]]
           new == [at |-> "close", slot |-> rd.slot, hash |-> rd.hash, safe |-> rd.safe, bytes |-> bytes]
<1>0. /\ rd.at = "read" /\ rd # NoReader /\ reader' = [reader EXCEPT ![r] = new]
      /\ fat' = fat /\ fats' = fats /\ sequence' = sequence /\ head' = head /\ lock' = lock
      /\ cell' = cell /\ cells' = cells /\ put' = put /\ safe' = safe
  BY DEF FileRead, tableVars, diskVars, NoReader
<1>1. /\ rd.slot \in Slots /\ rd.hash \in Files /\ rd.safe \in BOOLEAN
      /\ rd.offset \in Nat /\ rd.size \in Nat /\ CacheFATSize <= rd.offset /\ rd.offset + rd.size <= MaxHead
      /\ rd.safe => rd.size = SizeOf[rd.hash] /\ Stored(rd.offset, rd.hash)
  BY <1>0, LoadFacts DEF LoadPlaced
<1> HIDE DEF rd
<1>2. bytes \in Contents
  <2>1. ASSUME NEW k \in 1 .. rd.size PROVE cell[rd.offset + k - 1] \in Content
    <3>1. rd.offset + k - 1 \in Cells
      BY <1>1, ConstantsTyped DEF Cells
    <3> QED BY <3>1 DEF CacheInv, DiskInv, DiskTyped
  <2>2. bytes \in [1 .. rd.size -> Content]
    BY <2>1
  <2> QED BY <1>1, <2>2 DEF Contents
<1>3. rd.safe => bytes = Bytes(rd.hash)
  <2> SUFFICES ASSUME rd.safe PROVE bytes = Bytes(rd.hash)
    OBVIOUS
  <2>1. \A k \in 1 .. rd.size : cell[rd.offset + k - 1] = <<rd.hash, k>>
    BY <1>1 DEF Stored
  <2> QED BY <1>1, <2>1 DEF Bytes
<1> HIDE DEF bytes
<1>4. new \in Loads /\ new.at = "close" /\ new.safe = rd.safe /\ new.bytes = bytes /\ new.hash = rd.hash
  BY <1>1, <1>2 DEF Loads
<1> HIDE DEF new
<1>5. LoadPlaced(new)
  BY <1>3, <1>4 DEF LoadPlaced
<1>6. lock' \in Locks
  BY <1>0 DEF CacheInv, TableInv, TableTyped
<1> QED BY <1>0, <1>4, <1>5, <1>6, ReaderSteps

LEMMA UnlockTyped ==
  ASSUME CacheInv, NEW i \in Slots, Unlock(i)
  PROVE  lock' \in Locks
<1>1. lock \in [Slots -> Nat] /\ lock[i] \in Nat
  BY SlotFacts DEF CacheInv, TableInv, TableTyped, Locks
<1>2. (IF lock[i] = 0 THEN 0 ELSE lock[i] - 1) \in Nat
  BY <1>1
<1> QED BY <1>1, <1>2 DEF Unlock, Locks

LEMMA FileCloseKeeps ==
  ASSUME CacheInv, NEW r \in Readers, FileClose(r)
  PROVE  CacheInv'
<1> DEFINE rd == reader[r]
           new == [at |-> "destroy", slot |-> rd.slot, hash |-> rd.hash, safe |-> rd.safe,
                   bytes |-> rd.bytes, ok |-> rd.bytes = Bytes(rd.hash)]
<1>0. /\ rd.at = "close" /\ rd # NoReader /\ Unlock(rd.slot) /\ reader' = [reader EXCEPT ![r] = new]
      /\ fat' = fat /\ fats' = fats /\ sequence' = sequence /\ head' = head
      /\ cell' = cell /\ cells' = cells /\ put' = put /\ safe' = safe
  BY DEF FileClose, diskVars, NoReader
<1>1. /\ rd.slot \in Slots /\ rd.hash \in Files /\ rd.safe \in BOOLEAN /\ rd.bytes \in Contents
      /\ rd.safe => rd.bytes = Bytes(rd.hash)
  BY <1>0, LoadFacts DEF LoadPlaced
<1>2. lock' \in Locks
  BY <1>0, <1>1, UnlockTyped
<1> HIDE DEF rd
<1>3. /\ new \in Loads /\ new.at = "destroy" /\ new.safe = rd.safe /\ new.bytes = rd.bytes
      /\ new.hash = rd.hash /\ (new.ok <=> rd.bytes = Bytes(rd.hash))
  BY <1>1 DEF Loads
<1> HIDE DEF new
<1>4. LoadPlaced(new)
  BY <1>1, <1>3 DEF LoadPlaced
<1> QED BY <1>0, <1>2, <1>3, <1>4, ReaderSteps

LEMMA DestroyKeeps ==
  ASSUME CacheInv, NEW r \in Readers, Destroy(r)
  PROVE  CacheInv'
<1>0. /\ reader[r].at = "destroy" /\ reader[r] # NoReader /\ Unlock(reader[r].slot)
      /\ reader' = [reader EXCEPT ![r] = NoReader]
      /\ fat' = fat /\ fats' = fats /\ sequence' = sequence /\ head' = head
      /\ cell' = cell /\ cells' = cells /\ put' = put /\ safe' = safe
  BY DEF Destroy, diskVars, NoReader
<1>1. lock' \in Locks
  BY <1>0, LoadFacts, UnlockTyped
<1>2. NoReader \in Loads \union {NoReader} /\ LoadPlaced(NoReader)
  BY DEF LoadPlaced, NoReader
<1> QED BY <1>0, <1>1, <1>2, ReaderSteps

LEMMA NothingUnderWay ==
  ASSUME put' = NoPut, reader' = [r \in Readers |-> NoReader]
  PROVE  PutInv' /\ LoadsInv'
<1>1. PutInv'
  BY DEF PutInv, PutTyped, PutPlaced
<1>2. LoadsInv'
  BY DEF LoadsInv, LoadsTyped, LoadPlaced, NoReader
<1> QED BY <1>1, <1>2

LEMMA RestartKeeps ==
  ASSUME CacheInv, Restart
  PROVE  CacheInv'
<1>0. /\ OpenCache(fat) /\ fats' = [i \in Slots |-> fats[i] \union {fat'[i]}]
      /\ cell' = cell /\ cells' = cells
      /\ put' = NoPut /\ reader' = [r \in Readers |-> NoReader]
  BY DEF Restart, OpenCache
<1>1. fat \in Tables /\ \A i \in Slots : fat[i] \in fats[i]
  BY DEF CacheInv, TableInv, TableTyped
<1>2. fat' \in Tables
  BY <1>0, <1>1, OpenLeaves DEF OpenCache, NoLocks
<1>3. /\ fats' \in [Slots -> SUBSET SlotEntries]
      /\ \A i \in Slots : fat'[i] \in fats'[i] /\ \A x \in fats'[i] : x \in fats[i] \/ x = fat'[i]
  <2>1. \A i \in Slots : fats[i] \union {fat'[i]} \in SUBSET SlotEntries
    BY <1>2, SlotFacts DEF CacheInv, TableInv, Tables
  <2> QED BY <1>0, <2>1
<1>4. TableInv' /\ safe' \subseteq safe
  BY <1>0, <1>1, <1>3, OpenKeepsTable DEF CacheInv
<1>5. DiskInv'
  BY <1>0, <1>4, DiskUnchanged DEF CacheInv
<1> QED BY <1>0, <1>4, <1>5, NothingUnderWay DEF CacheInv

LEMMA CrashKeeps ==
  ASSUME CacheInv, Crash
  PROVE  CacheInv'
<1>0. PICK table \in Outcomes(Slots, fats), bytes \in Outcomes(Cells, cells) :
        /\ OpenCache(table)
        /\ fats' = [i \in Slots |-> {table[i], fat'[i]}]
        /\ cell' = bytes
        /\ cells' = [c \in Cells |-> {bytes[c]}]
  BY DEF Crash
<1>1. table \in Tables /\ \A i \in Slots : table[i] \in fats[i]
  <2>1. DOMAIN table = Slots /\ table = [i \in Slots |-> table[i]] /\ \A i \in Slots : table[i] \in fats[i]
    BY DEF Outcomes
  <2>2. \A i \in Slots : table[i] \in SlotEntries
    BY <2>1, SlotFacts DEF CacheInv, TableInv
  <2> QED BY <2>1, <2>2 DEF Tables
<1>2. bytes \in [Cells -> Content] /\ \A c \in Cells : bytes[c] \in cells[c]
  <2>1. bytes = [c \in Cells |-> bytes[c]] /\ \A c \in Cells : bytes[c] \in cells[c]
    BY DEF Outcomes
  <2>2. \A c \in Cells : bytes[c] \in Content
    BY <2>1 DEF CacheInv, DiskInv, DiskTyped
  <2> QED BY <2>1, <2>2
<1>3. fat' \in Tables
  BY <1>0, <1>1, OpenLeaves DEF OpenCache, NoLocks
<1>4. /\ fats' \in [Slots -> SUBSET SlotEntries]
      /\ \A i \in Slots : fat'[i] \in fats'[i] /\ \A x \in fats'[i] : x \in fats[i] \/ x = fat'[i]
  <2>1. \A i \in Slots : {table[i], fat'[i]} \in SUBSET SlotEntries
    BY <1>1, <1>3 DEF Tables
  <2> QED BY <1>0, <1>1, <2>1
<1>5. TableInv' /\ safe' \subseteq safe
  BY <1>0, <1>1, <1>4, OpenKeepsTable DEF CacheInv
<1>6. DiskInv'
  <2>1. /\ cell' \in [Cells -> Content] /\ cells' \in [Cells -> SUBSET Content]
        /\ \A c \in Cells : cell'[c] \in cells'[c] /\ cells'[c] \subseteq cells[c]
    BY <1>0, <1>2
  <2> QED BY <1>5, <2>1, OpenKeepsDisk DEF CacheInv
<1>7. put' = NoPut /\ reader' = [r \in Readers |-> NoReader]
  BY <1>0 DEF OpenCache
<1> QED BY <1>5, <1>6, <1>7, NothingUnderWay DEF CacheInv

LEMMA InitCache == Init => CacheInv
<1> SUFFICES ASSUME Init PROVE CacheInv
  OBVIOUS
<1>0. /\ fat = [i \in Slots |-> Free] /\ lock = [i \in Slots |-> 0] /\ sequence = 0 /\ head = CacheFATSize
      /\ cell = [c \in Cells |-> Garbage] /\ fats = [i \in Slots |-> {Free}]
      /\ cells = [c \in Cells |-> {Garbage}] /\ put = NoPut /\ reader = [r \in Readers |-> NoReader]
      /\ safe = {}
  BY DEF Init
<1>1. TableInv
  <2>1. TableTyped
    BY <1>0, ConstantsTyped DEF TableTyped, Tables, Locks, SlotEntries
  <2>2. TwoSlots /\ Numbered /\ Settled /\ Ordered
    BY <1>0 DEF TwoSlots, Numbered, Settled, Ordered, Free
  <2> QED BY <2>1, <2>2 DEF TableInv
<1>2. DiskInv
  BY <1>0 DEF DiskInv, DiskTyped, Content
<1>3. PutInv
  BY <1>0 DEF PutInv, PutTyped, PutPlaced
<1>4. LoadsInv
  BY <1>0 DEF LoadsInv, LoadsTyped, LoadPlaced, NoReader
<1> QED BY <1>1, <1>2, <1>3, <1>4 DEF CacheInv

LEMMA NextCache == CacheInv /\ [Next]_vars => CacheInv'
<1> SUFFICES ASSUME CacheInv, [Next]_vars PROVE CacheInv'
  OBVIOUS
<1>1. ASSUME NEW h \in Files, NEW known \in BOOLEAN, BeginPut(h, known) PROVE CacheInv'
  BY <1>1, BeginPutKeeps
<1>2. CASE WriteBytes
  <2>1. TableInv'
    <3>1. /\ fat' = fat /\ fats' = fats /\ safe' = safe /\ sequence' = sequence /\ head' = head /\ lock' = lock
      BY <1>2 DEF WriteBytes, tableVars
    <3>2. lock' \in Locks
      BY <3>1 DEF CacheInv, TableInv, TableTyped
    <3> QED BY <3>1, <3>2, TableUnchanged DEF CacheInv
  <2> QED BY <1>2, <2>1, WriteBytesKeeps DEF CacheInv
<1>3. CASE WriteEntry
  BY <1>3, WriteEntryKeeps
<1>4. CASE Sync
  <2>1. TableInv' /\ DiskInv' /\ PutInv'
    BY <1>4, SyncKeepsTable, SyncKeepsDisk DEF CacheInv
  <2>2. reader' = reader /\ cell' = cell /\ head' = head /\ head \in Nat
    BY <1>4 DEF Sync, tableVars, CacheInv, TableInv, TableTyped
  <2>3. LoadsInv'
    BY <2>2, LoadsUnchanged DEF CacheInv
  <2> QED BY <2>1, <2>3 DEF CacheInv
<1>5. ASSUME NEW r \in Readers, NEW h \in Files, GetReader(r, h) PROVE CacheInv'
  BY <1>5, GetReaderKeeps
<1>6. ASSUME NEW r \in Readers, FileRead(r) \/ FileClose(r) \/ Destroy(r) PROVE CacheInv'
  BY <1>6, FileReadKeeps, FileCloseKeeps, DestroyKeeps
<1>7. ASSUME NEW h \in Files, Unlink(h) PROVE CacheInv'
  BY <1>7, UnlinkKeeps
<1>8. CASE Restart
  BY <1>8, RestartKeeps
<1>9. CASE Crash
  BY <1>9, CrashKeeps
<1>10. CASE UNCHANGED vars
  <2>0. /\ fat' = fat /\ lock' = lock /\ sequence' = sequence /\ head' = head /\ cell' = cell
        /\ fats' = fats /\ cells' = cells /\ put' = put /\ reader' = reader /\ safe' = safe
    BY <1>10 DEF vars, tableVars, diskVars
  <2>a. lock \in Locks /\ head \in Nat
    BY DEF CacheInv, TableInv, TableTyped
  <2>1. TableInv'
    BY <2>0, <2>a, TableUnchanged DEF CacheInv
  <2>2. DiskInv'
    BY <2>0, DiskUnchanged DEF CacheInv
  <2>3. PutInv'
    BY <2>0 DEF CacheInv, PutInv, PutTyped, PutPlaced, Stored
  <2>4. LoadsInv'
    BY <2>0, <2>a, LoadsUnchanged DEF CacheInv
  <2> QED BY <2>1, <2>2, <2>3, <2>4 DEF CacheInv
<1> QED BY <1>1, <1>2, <1>3, <1>4, <1>5, <1>6, <1>7, <1>8, <1>9, <1>10 DEF Next

\* A reachable state has all four parts of the invariant.
THEOREM CacheInvariant == Spec => []CacheInv
<1>1. Init => CacheInv
  BY InitCache
<1>2. CacheInv /\ [Next]_vars => CacheInv'
  BY NextCache
<1> QED BY <1>1, <1>2, PTL DEF Spec

\* Entries, Puts and loads keep their types, and lie within the file.
THEOREM TypeCorrect == Spec => []TypeOK
<1>1. CacheInv => TypeOK
  BY DEF CacheInv, TableInv, DiskInv, PutInv, LoadsInv, TypeOK
<1> QED BY <1>1, CacheInvariant, PTL

-----------------------------------------------------------------------------
(* What the cache promises.                                                *)

\* A file whose Put has returned has its own bytes for as long as it is in the table,
\* whatever writes a crash loses.
THEOREM SyncedIntact == Spec => []SyncedEntriesIntact
<1>1. CacheInv => SyncedEntriesIntact
  <2> SUFFICES ASSUME CacheInv, NEW i \in Slots, fat[i].live, fat[i] \in safe, NEW k \in 1 .. fat[i].size
               PROVE  cell[fat[i].offset + k - 1] = <<fat[i].hash, k>>
    BY DEF SyncedEntriesIntact
  <2>1. /\ fat[i].offset \in Nat /\ fat[i].hash \in Files /\ CacheFATSize <= fat[i].offset
        /\ fat[i].offset + SizeOf[fat[i].hash] <= MaxHead /\ Durable(fat[i].offset, fat[i].hash)
    BY SafePlaces DEF CacheInv, DiskInv
  <2>2. fat[i].size = SizeOf[fat[i].hash]
    BY SlotFacts, Entries DEF CacheInv, TableInv
  <2>3. Stored(fat[i].offset, fat[i].hash)
    <3>1. PICK o, h : o = fat[i].offset /\ h = fat[i].hash
      OBVIOUS
    <3>2. Stored(o, h)
      BY <2>1, <3>1, DurableStored DEF CacheInv, DiskInv
    <3> QED BY <3>1, <3>2
  <2> QED BY <2>2, <2>3 DEF Stored
<1> QED BY <1>1, CacheInvariant, PTL

\* A load that succeeds has the bytes of its hash, and one of a file whose Put had
\* returned succeeds.
THEOREM SoundLoads == Spec => []LoadsAreSound
<1>1. CacheInv => LoadsAreSound
  BY DEF CacheInv, LoadsInv, LoadPlaced, LoadsAreSound
<1> QED BY <1>1, CacheInvariant, PTL

\* The table has two files at most, however many slots it has.
THEOREM TwoFiles == Spec => []AtMostTwoFiles
<1>1. CacheInv => AtMostTwoFiles
  <2> SUFFICES ASSUME CacheInv PROVE AtMostTwoFiles
    OBVIOUS
  <2> DEFINE files == {i \in Slots : fat[i].live}
  <2>1. files \subseteq 1 .. 2
    <3> SUFFICES ASSUME NEW i \in Slots, fat[i].live PROVE i \in 1 .. 2
      OBVIOUS
    <3>1. i \in Nat /\ i >= 1 /\ fat[i] \in fats[i]
      BY SlotFacts DEF CacheInv, TableInv, Slots
    <3>2. ~ (i > 2)
      BY <3>1 DEF CacheInv, TableInv, TwoSlots, Free
    <3> QED BY <3>1, <3>2
  <2>2. IsFiniteSet(1 .. 2) /\ Cardinality(1 .. 2) = 2
    <3>1. 1 \in Int /\ 2 \in Int /\ ~ (1 > 2) /\ 2 - 1 + 1 = 2
      OBVIOUS
    <3> QED BY <3>1, FS_Interval
  <2>3. Cardinality(files) <= 2
    <3> HIDE DEF files
    <3> QED BY <2>1, <2>2, FS_Subset
  <2> QED BY <2>3 DEF AtMostTwoFiles
<1> QED BY <1>1, CacheInvariant, PTL

=============================================================================
