----------------------------- MODULE LazyCache -----------------------------
(***************************************************************************)
(* The writable resource cache (code/CWLib/src/FartLazy.cpp): one file, a  *)
(* table of entries (FAT) and then the bytes of the resources, which Put   *)
(* adds at WriteHead and SResourceReaders read (Fart.cpp).  The table and  *)
(* the bytes are written through the system's cache: until FileSync, a     *)
(* crash may lose any of the writes and keep any other.                    *)
(*                                                                         *)
(* Put, GetReader, CloseReader and Unlink hold Mutex; FileRead does not.   *)
(* A Put is split at its writes, so that reads and crashes come in between.*)
(* The file is counted in cells; bytes, a cell's content, are <<the file   *)
(* whose they are, their place in it>>, and a hash stands for its file.    *)
(* A write of one entry or of one cell is not torn.                        *)
(***************************************************************************)
EXTENDS Integers, FiniteSets, FiniteSetsExt

CONSTANTS
  Files, SizeOf,   \* resources, by hash, and their sizes
  NumSlots,        \* maxfiles
  CacheFATSize, CacheSize,
  Readers,
  MaxHead,         \* bound: WriteHead stays far from 2^32
  MaxPuts, MaxStarts \* bounds: calls of Put, of OpenCache

ASSUME CacheAssumption ==
  /\ SizeOf \in [Files -> Nat \ {0}]
  /\ {NumSlots, CacheFATSize, CacheSize} \subseteq Nat \ {0} /\ CacheFATSize < CacheSize
  /\ {MaxHead, MaxPuts, MaxStarts} \subseteq Nat

VARIABLES
  fat, lock,       \* FAT, with Lock apart
  sequence, head,  \* Sequence, WriteHead
  cell,            \* the file's bytes, as they are read now
  fats, cells,     \* what each entry and each cell may be after a crash
  put,             \* the Put under way
  reader,          \* SResourceReaders
  safe,            \* history: entries that have been in FAT since their Put returned
  puts, starts

tableVars == <<fat, lock, sequence, head>>
diskVars == <<cell, fats, cells>>
boundVars == <<puts, starts>>
vars == <<tableVars, diskVars, put, reader, safe, boundVars>>

Slots == 1 .. NumSlots
Cells == CacheFATSize .. MaxHead - 1

Free == [live |-> FALSE]
Entry(o, s, q, h) == [live |-> TRUE, offset |-> o, size |-> s, seq |-> q, hash |-> h]
Garbage == <<"none", 0>>
Bytes(h) == [k \in 1 .. SizeOf[h] |-> <<h, k>>]

NoPut == [at |-> "none"]
NoReader == [at |-> "none"]

End(f) == f.offset + f.size
Overlaps(f, o, s) == o >= f.offset /\ o + s < End(f)

\* The slot of a file, 0 if there is none (the code's ~0).
FindFileByHash(h) ==
  LET found == {i \in Slots : fat[i].live /\ fat[i].hash = h}
  IN IF found = {} THEN 0 ELSE Min(found)

-----------------------------------------------------------------------------

\* Broken: any file is kept.
Below_Always(seq, fseq) == TRUE

\* Sequence < fseq: fseq is signed, and -1 compares as the largest u32.
Below(seq, fseq) == fseq = -1 \/ seq < fseq

\* A turn of the loop of RemoveFilesThatOverlap, or the goto out of it: s.i, s.ofs,
\* s.fseq and s.fblk are its variables, s.fat the table so far.  What is compared
\* with fseq is the cache's Sequence, as in the code.
Turn(s, locks, size, seq) ==
  LET i == s.i
      f == s.fat[i]
      over == f.live /\ Overlaps(f, s.ofs + CacheFATSize, size)
      kept == f.live /\ ~ over /\ locks[i] = 0 /\ Below(seq, s.fseq)
  IN IF i > NumSlots THEN s
     ELSE IF over /\ locks[i] # 0 THEN [s EXCEPT !.i = 1, !.ofs = End(f)]
     ELSE IF kept THEN [s EXCEPT !.i = i + 1, !.fseq = f.seq, !.fblk = i]
     ELSE [s EXCEPT !.i = i + 1, !.fat = [@ EXCEPT ![i] = Free], !.fseq = 0,
                    !.fblk = IF s.fseq # 0 THEN i ELSE IF @ = 0 THEN i + 1 ELSE @]

\* A goto takes ofs to the end of an entry it was within, so there is at most one per
\* slot, and the loop is over after this many turns.
Turns == NumSlots * (NumSlots + 1)

RemoveFilesThatOverlap(table, locks, ofs, size, seq) ==
  LET scan[k \in 0 .. Turns] ==
        IF k = 0 THEN [i |-> 1, fat |-> table, ofs |-> ofs, fseq |-> -1, fblk |-> 0]
        ELSE Turn(scan[k - 1], locks, size, seq)
  IN scan[Turns]

\* RewriteFAT of every slot that changes.
Rewrite(new) ==
  /\ fat' = new /\ safe' = {e \in safe : \E i \in Slots : new[i] = e}
  /\ fats' = [i \in Slots |-> fats[i] \union {new[i]}]

-----------------------------------------------------------------------------
(* Put.                                                                    *)

\* With its hash or without (hash_in_out zero, then it is not looked for).
BeginPut(h, known) ==
  /\ put = NoPut /\ puts < MaxPuts /\ puts' = puts + 1
  /\ CacheSize - CacheFATSize > SizeOf[h]
  /\ known => FindFileByHash(h) = 0
  /\ LET r == RemoveFilesThatOverlap(fat, lock, Max({head, CacheFATSize}), SizeOf[h], sequence)
     IN /\ r.ofs + SizeOf[h] <= MaxHead
        /\ r.fblk \in Slots
        /\ Rewrite([r.fat EXCEPT ![r.fblk] = Free])
        /\ put' = [at |-> "write", slot |-> r.fblk, offset |-> r.ofs, hash |-> h]
  /\ UNCHANGED <<lock, sequence, head, cell, cells, reader, starts>>

\* n cells are written; fewer than all is a failure.
WriteBytes ==
  /\ put.at = "write"
  /\ \E n \in 0 .. SizeOf[put.hash] :
       LET new == [c \in Cells |-> IF c \in put.offset .. put.offset + n - 1
                                   THEN Bytes(put.hash)[c - put.offset + 1] ELSE cell[c]]
       IN /\ cell' = new
          /\ cells' = [c \in Cells |-> cells[c] \union {new[c]}]
          /\ put' = IF n = SizeOf[put.hash] THEN [put EXCEPT !.at = "entry"] ELSE NoPut
  /\ UNCHANGED <<tableVars, fats, reader, safe, boundVars>>

\* Broken: WriteHead stays where it was.
WriteEntry_KeepHead ==
  /\ put.at = "entry"
  /\ Rewrite([fat EXCEPT ![put.slot] =
                Entry(put.offset, SizeOf[put.hash], sequence + 1, put.hash)])
  /\ sequence' = sequence + 1
  /\ put' = [put EXCEPT !.at = "sync"]
  /\ UNCHANGED <<head, lock, cell, cells, reader, boundVars>>

WriteEntry ==
  /\ put.at = "entry"
  /\ Rewrite([fat EXCEPT ![put.slot] =
                Entry(put.offset, SizeOf[put.hash], sequence + 1, put.hash)])
  /\ sequence' = sequence + 1
  /\ head' = put.offset + SizeOf[put.hash]
  /\ put' = [put EXCEPT !.at = "sync"]
  /\ UNCHANGED <<lock, cell, cells, reader, boundVars>>

Sync ==
  /\ put.at = "sync"
  /\ fats' = [i \in Slots |-> {fat[i]}]
  /\ cells' = [c \in Cells |-> {cell[c]}]
  /\ safe' = safe \union {fat[put.slot]}
  /\ put' = NoPut
  /\ UNCHANGED <<tableVars, cell, reader, boundVars>>

-----------------------------------------------------------------------------
(* Readers: FileLoad gets one, reads, closes it, and its destructor closes *)
(* it once more.                                                           *)

GetReader(r, h) ==
  /\ put = NoPut /\ reader[r].at = "none"
  /\ LET i == FindFileByHash(h)
     IN /\ i # 0
        /\ lock' = [lock EXCEPT ![i] = @ + 1]
        /\ reader' = [reader EXCEPT ![r] = [at |-> "read", slot |-> i, hash |-> h,
                        offset |-> fat[i].offset, size |-> fat[i].size, safe |-> fat[i] \in safe]]
  /\ UNCHANGED <<fat, sequence, head, diskVars, put, safe, boundVars>>

FileRead(r) ==
  /\ reader[r].at = "read"
  /\ LET rd == reader[r]
         bytes == [k \in 1 .. rd.size |-> cell[rd.offset + k - 1]]
     IN reader' = [reader EXCEPT ![r] =
          [at |-> "close", slot |-> rd.slot, hash |-> rd.hash, safe |-> rd.safe, bytes |-> bytes]]
  /\ UNCHANGED <<tableVars, diskVars, put, safe, boundVars>>

Unlock(i) == lock' = [lock EXCEPT ![i] = IF @ = 0 THEN 0 ELSE @ - 1]

\* Broken: what was read is not compared with the hash.
FileClose_Trusting(r) ==
  /\ put = NoPut /\ reader[r].at = "close"
  /\ Unlock(reader[r].slot)
  /\ LET rd == reader[r]
     IN reader' = [reader EXCEPT ![r] = [at |-> "destroy", slot |-> rd.slot, hash |-> rd.hash,
                     safe |-> rd.safe, bytes |-> rd.bytes, ok |-> TRUE]]
  /\ UNCHANGED <<fat, sequence, head, diskVars, put, safe, boundVars>>

\* The rolling hash tells what was read from what was meant; CloseReader is not told.
FileClose(r) ==
  /\ put = NoPut /\ reader[r].at = "close"
  /\ Unlock(reader[r].slot)
  /\ LET rd == reader[r]
     IN reader' = [reader EXCEPT ![r] = [at |-> "destroy", slot |-> rd.slot, hash |-> rd.hash,
                     safe |-> rd.safe, bytes |-> rd.bytes, ok |-> rd.bytes = Bytes(rd.hash)]]
  /\ UNCHANGED <<fat, sequence, head, diskVars, put, safe, boundVars>>

\* Owner is still set.
Destroy(r) ==
  /\ put = NoPut /\ reader[r].at = "destroy"
  /\ Unlock(reader[r].slot)
  /\ reader' = [reader EXCEPT ![r] = NoReader]
  /\ UNCHANGED <<fat, sequence, head, diskVars, put, safe, boundVars>>

Unlink(h) ==
  /\ put = NoPut
  /\ FindFileByHash(h) # 0
  /\ Rewrite([fat EXCEPT ![FindFileByHash(h)] = Free])
  /\ UNCHANGED <<lock, sequence, head, cell, cells, put, reader, boundVars>>

-----------------------------------------------------------------------------
(* OpenCache, with the table and the bytes a session has left.             *)

\* Slots 1 .. k hold files in the order they were put.
InOrder(table, k) ==
  \A i \in 1 .. k : table[i].live /\ (IF i = 1 THEN table[i].seq > 0 ELSE table[i].seq > table[i - 1].seq)

OpenCache(table) ==
  LET new == RemoveFilesThatOverlap(table, [i \in Slots |-> 0], 0, 0, 0).fat
      last == Max({k \in 0 .. NumSlots : \A m \in 0 .. k : InOrder(new, m)})
  IN /\ starts < MaxStarts /\ starts' = starts + 1
     /\ fat' = new /\ safe' = {e \in safe : \E i \in Slots : new[i] = e}
     /\ sequence' = IF last = 0 THEN 0 ELSE new[last].seq
     /\ head' = IF last = 0 THEN CacheFATSize ELSE End(new[last])
     /\ lock' = [i \in Slots |-> 0]
     /\ put' = NoPut /\ reader' = [r \in Readers |-> NoReader]
     /\ UNCHANGED puts

Restart ==
  /\ put = NoPut /\ \A r \in Readers : reader[r] = NoReader
  /\ OpenCache(fat)
  /\ fats' = [i \in Slots |-> fats[i] \union {fat'[i]}]
  /\ UNCHANGED <<cell, cells>>

\* One of each choice.
Outcomes(S, f) == {g \in [S -> UNION {f[x] : x \in S}] : \A x \in S : g[x] \in f[x]}

\* Some writes since the last FileSync are lost, others are not.
Crash ==
  \E table \in Outcomes(Slots, fats), bytes \in Outcomes(Cells, cells) :
    /\ OpenCache(table)
    /\ fats' = [i \in Slots |-> {table[i], fat'[i]}]
    /\ cell' = bytes
    /\ cells' = [c \in Cells |-> {bytes[c]}]

Init ==
  /\ fat = [i \in Slots |-> Free] /\ lock = [i \in Slots |-> 0]
  /\ sequence = 0 /\ head = CacheFATSize
  /\ cell = [c \in Cells |-> Garbage]
  /\ fats = [i \in Slots |-> {Free}] /\ cells = [c \in Cells |-> {Garbage}]
  /\ put = NoPut /\ reader = [r \in Readers |-> NoReader] /\ safe = {}
  /\ puts = 0 /\ starts = 0

Next ==
  \/ \E h \in Files, known \in BOOLEAN : BeginPut(h, known)
  \/ WriteBytes \/ WriteEntry \/ Sync
  \/ \E r \in Readers, h \in Files : GetReader(r, h)
  \/ \E r \in Readers : FileRead(r) \/ FileClose(r) \/ Destroy(r)
  \/ \E h \in Files : Unlink(h)
  \/ Restart \/ Crash

Spec == Init /\ [][Next]_vars

-----------------------------------------------------------------------------
(* Properties.                                                             *)

\* A file whose Put has returned has its own bytes for as long as it is in the table,
\* through the Puts of others that succeed or fail, and through crashes that lose any
\* of the writes since the last FileSync.
SyncedEntriesIntact ==
  \A i \in Slots :
    fat[i].live /\ fat[i] \in safe =>
      \A k \in 1 .. fat[i].size : cell[fat[i].offset + k - 1] = <<fat[i].hash, k>>

\* A FileLoad that succeeds gives the bytes of the hash it was asked for, after a crash
\* too; and one of a file whose Put had returned succeeds, although Put erases the
\* entries of open readers and every reader unlocks its slot twice.
LoadsAreSound ==
  \A r \in Readers :
    reader[r].at = "destroy" =>
      /\ reader[r].ok => reader[r].bytes = Bytes(reader[r].hash)
      /\ reader[r].safe => reader[r].ok

\* However many slots it has, the table never holds more than two files: a Put keeps
\* the first file that it may and erases every later one, whether they overlap what
\* is written or not.
AtMostTwoFiles == Cardinality({i \in Slots : fat[i].live}) <= 2

=============================================================================
