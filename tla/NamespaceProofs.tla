--------------------------- MODULE NamespaceProofs ---------------------------
(***************************************************************************)
(* Proofs about Namespace, for every number of inodes, of slots in a       *)
(* directory block and of renames that fail half way: directory blocks     *)
(* have no hole, the bitmap and the counter of free inodes agree with the  *)
(* inodes, and names are unique if strscpy keeps all of each.              *)
(***************************************************************************)
EXTENDS Namespace, FiniteSetTheorems, WellFoundedInduction, TLAPS

\* Most steps are first-order reasoning, which is left to Zenon; the steps
\* that need arithmetic or the types of functions ask for SMT.
USE Zenon

\* No name is longer than 27 characters.
ShortNames == \A n \in Names : Stored[n] = n

Entries == [inode : 0 .. NrInodes - 1, filename : Names \cup {NoName}]

\* A directory block: the slots with an entry, and no others, have a name, and
\* they come first.
IsBlock(b) ==
    /\ b \in [Slots -> Entries]
    /\ \A k \in Slots : b[k].inode = 0 <=> b[k].filename = NoName
    /\ \A k \in Slots : k > 0 /\ b[k].inode # 0 => b[k - 1].inode # 0

\* No two entries have the same name.
Distinct(b) ==
    \A j, k \in Slots : b[j].inode # 0 /\ b[j].filename = b[k].filename => j = k

\* The inductive invariant.
NamespaceInv ==
    /\ files \in [Inodes -> [Slots -> Entries]]
    /\ \A d \in Inodes : IsBlock(files[d])
    /\ kind \in [Inodes -> {"none", "file", "dir"}]
    /\ InodesAccounted

-----------------------------------------------------------------------------
(* The constants, and minima and maxima.                                  *)

\* The slots of a directory block are the numbers below MaxSubfiles.
LEMMA SlotFacts ==
    /\ MaxSubfiles \in Nat /\ MaxSubfiles > 0
    /\ \A k \in Slots : k \in Nat /\ k < MaxSubfiles
    /\ \A k \in Nat : k < MaxSubfiles => k \in Slots
BY NamespaceAssumption, SMT DEF Slots

\* The inodes are numbers from 1 on; the root is one of them.
LEMMA InodeFacts ==
    /\ NrInodes \in Nat
    /\ \A i \in Inodes : i \in Nat /\ i # 0 /\ i \in 0 .. NrInodes - 1
    /\ \A i \in 0 .. NrInodes - 1 : i # 0 => i \in Inodes
    /\ Root \in Inodes
BY NamespaceAssumption, SMT DEF Inodes, Root

\* What strscpy keeps of a name is a name, and not the one of an empty slot.
LEMMA NameFacts ==
    NoName \notin Names /\ \A n \in Names : Stored[n] \in Names
BY NamespaceAssumption

\* The least element of a set of numbers: what find_first_bit returns.
LEMMA MinFacts ==
    ASSUME NEW S \in SUBSET Nat, S # {}
    PROVE  Min(S) \in S /\ \A y \in S : Min(S) <= y
<1>1. PICK x \in S : \A y \in S : ~(<<y, x>> \in OpToRel(<, Nat))
  BY NatLessThanWellFounded, WFMin
<1>2. \A y \in S : ~(y < x)
  BY <1>1 DEF OpToRel
<1>3. \A y \in S : x <= y
  BY <1>2, SMT
<1> QED
  BY <1>3 DEF Min

\* The greatest of a set of slots: where a scan that goes on after a hit ends.
LEMMA MaxFacts ==
    ASSUME NEW S \in SUBSET Slots, S # {}
    PROVE  Max(S) \in S
<1>1. \A k \in S : k \in Nat /\ MaxSubfiles - k \in Nat
  BY SlotFacts, SMT
<1> DEFINE T == {MaxSubfiles - k : k \in S}
<1>2. T \in SUBSET Nat
  BY <1>1
<1>3. T # {}
  OBVIOUS
<1>4. Min(T) \in T /\ \A y \in T : Min(T) <= y
  BY <1>2, <1>3, MinFacts
<1>5. PICK x \in S : Min(T) = MaxSubfiles - x
  BY <1>4
<1>6. \A y \in S : MaxSubfiles - x <= MaxSubfiles - y
  BY <1>4, <1>5
<1>7. \A y \in S : x >= y
  BY <1>1, <1>6, SlotFacts, SMT
<1> QED
  BY <1>7 DEF Max

-----------------------------------------------------------------------------
(* One directory block.                                                   *)

\* Below a slot that holds an entry all slots do: what the scans rely on.
LEMMA NoHole ==
    ASSUME NEW b, IsBlock(b)
    PROVE  /\ NrSubs(b) \in 0 .. MaxSubfiles
           /\ \A k \in Slots : b[k].inode # 0 <=> k < NrSubs(b)
<1> DEFINE Empty == {k \in Slots : b[k].inode = 0}
           n == NrSubs(b)
<1>1. Empty \cup {MaxSubfiles} \in SUBSET Nat
  BY SlotFacts
<1>2. n \in Empty \cup {MaxSubfiles} /\ \A y \in Empty \cup {MaxSubfiles} : n <= y
  BY <1>1, MinFacts DEF NrSubs
<1> HIDE DEF n
<1>3. n \in Nat /\ n <= MaxSubfiles
  BY <1>1, <1>2
<1>4. ASSUME NEW k \in Slots, k < n
      PROVE  b[k].inode # 0
  BY <1>2, <1>4, SlotFacts, SMT
<1>5. ASSUME NEW k \in Slots, b[k].inode # 0, k >= n
      PROVE  FALSE
  <2> DEFINE U == {j \in Slots : b[j].inode # 0 /\ j >= n}
  <2>1. U \in SUBSET Nat
    BY SlotFacts
  <2>2. U # {}
    BY <1>5
  <2>3. Min(U) \in U /\ \A y \in U : Min(U) <= y
    BY <2>1, <2>2, MinFacts
  <2> DEFINE m == Min(U)
  <2> HIDE DEF m
  <2>4. m \in Slots /\ b[m].inode # 0 /\ m >= n /\ \A y \in U : m <= y
    BY <2>3 DEF m
  <2>5. n \in Slots /\ b[n].inode = 0
    BY <1>2, <2>4, <1>3, SlotFacts, SMT
  <2>6. m > 0 /\ m - 1 >= n /\ m - 1 \in Slots
    BY <2>4, <2>5, <1>3, SlotFacts, SMT
  <2>7. b[m - 1].inode # 0
    BY <2>4, <2>6, <1>3, SlotFacts DEF IsBlock
  <2>8. m - 1 \in U
    BY <2>6, <2>7
  <2> QED
    BY <2>4, <2>8, SlotFacts, SMT
<1>6. \A k \in Slots : b[k].inode # 0 <=> k < n
  BY <1>3, <1>4, <1>5, SlotFacts, SMT
<1> QED
  BY <1>3, <1>6, SMT DEF n

\* The scan of unlink and rename ends on an entry, or finds none.
LEMMA EntryOfFacts ==
    ASSUME NEW b, IsBlock(b), NEW ino
    PROVE  EntryOf(b, ino) \in Int /\ -1 <= EntryOf(b, ino) /\ EntryOf(b, ino) < MaxSubfiles
<1> DEFINE hits == {k \in 0 .. NrSubs(b) - 1 : b[k].inode = ino}
<1>1. hits \in SUBSET Slots
  BY NoHole, SlotFacts, SMT
<1>2. CASE hits = {}
  BY <1>2, SlotFacts, SMT DEF EntryOf
<1>3. CASE hits # {}
  <2>1. Max(hits) \in Slots
    BY <1>1, <1>3, MaxFacts
  <2>2. EntryOf(b, ino) = Max(hits)
    BY <1>3 DEF EntryOf
  <2> QED
    BY <2>1, <2>2, SlotFacts, SMT
<1> QED
  BY <1>2, <1>3

\* A name that ouichefs_lookup does not find has no entry.
LEMMA LookupMisses ==
    ASSUME NEW b, IsBlock(b), NEW name \in Names, Lookup(b, name) = 0
    PROVE  \A k \in Slots : b[k].filename # name
<1> DEFINE hits == {k \in 0 .. NrSubs(b) - 1 : b[k].filename = name}
<1>1. hits \in SUBSET Nat /\ \A k \in hits : k \in Slots /\ b[k].inode # 0
  BY NoHole, SlotFacts, SMT
<1>2. hits = {}
  <2> SUFFICES ASSUME hits # {} PROVE FALSE
    OBVIOUS
  <2>1. Min(hits) \in hits
    BY <1>1, MinFacts
  <2>2. b[Min(hits)].inode = 0
    BY DEF Lookup
  <2> QED
    BY <1>1, <2>1, <2>2
<1>3. ASSUME NEW k \in Slots, b[k].filename = name PROVE FALSE
  <2>1. b[k].inode # 0
    BY <1>3, NameFacts DEF IsBlock
  <2>2. k \in 0 .. NrSubs(b) - 1
    BY <2>1, NoHole, SlotFacts, SMT
  <2> QED
    BY <1>2, <1>3, <2>2
<1> QED
  BY <1>3

\* An entry added at the end leaves no hole, and no second entry of its name.
LEMMA AddEntryKeeps ==
    ASSUME NEW b, IsBlock(b), NrSubs(b) < MaxSubfiles,
           NEW ino \in Inodes, NEW name \in Names
    PROVE  /\ IsBlock(AddEntry(b, ino, name))
           /\ (ShortNames /\ Distinct(b) /\ \A k \in Slots : b[k].filename # name)
                => Distinct(AddEntry(b, ino, name))
<1> DEFINE n == NrSubs(b)
           e == [inode |-> ino, filename |-> Stored[name]]
           c == AddEntry(b, ino, name)
<1>1. n \in Slots /\ \A k \in Slots : b[k].inode # 0 <=> k < n
  BY NoHole, SlotFacts, SMT
<1>2. e \in Entries /\ e.inode # 0 /\ e.filename # NoName
  BY InodeFacts, NameFacts DEF Entries
<1>3. b \in [Slots -> Entries]
  BY DEF IsBlock
<1>4. c = [b EXCEPT ![n] = e]
  BY DEF AddEntry
<1> HIDE DEF n, c
<1>5. c \in [Slots -> Entries] /\ \A k \in Slots : c[k] = IF k = n THEN e ELSE b[k]
  BY <1>1, <1>2, <1>3, <1>4
<1> HIDE DEF e
<1>6. \A k \in Slots : c[k].inode = 0 <=> c[k].filename = NoName
  BY <1>2, <1>5 DEF IsBlock
<1>7. ASSUME NEW k \in Slots, k > 0, c[k].inode # 0
      PROVE  c[k - 1].inode # 0
  <2>1. k <= n
    BY <1>1, <1>5, <1>7, SlotFacts, SMT
  <2>2. k - 1 \in Slots /\ k - 1 < n
    BY <1>1, <1>7, <2>1, SlotFacts, SMT
  <2> QED
    BY <1>1, <1>5, <2>2, SlotFacts, SMT
<1>8. IsBlock(c)
  BY <1>5, <1>6, <1>7 DEF IsBlock
<1>9. ASSUME ShortNames, Distinct(b), \A k \in Slots : b[k].filename # name
      PROVE  Distinct(c)
  <2>1. e.filename = name
    BY <1>9 DEF ShortNames, e
  <2> SUFFICES ASSUME NEW j \in Slots, NEW k \in Slots,
                      c[j].inode # 0, c[j].filename = c[k].filename
               PROVE  j = k
    BY DEF Distinct
  <2>2. j = n <=> k = n
    BY <1>5, <1>9, <2>1
  <2> QED
    BY <1>5, <1>9, <2>2 DEF Distinct
<1> QED
  BY <1>8, <1>9 DEF c

\* The memmove and memset of unlink and rename leave no hole and double no
\* entry, wherever the scan ended.
LEMMA RemoveEntryKeeps ==
    ASSUME NEW b, IsBlock(b), NEW ino
    PROVE  /\ IsBlock(RemoveEntry(b, ino))
           /\ Distinct(b) => Distinct(RemoveEntry(b, ino))
<1> DEFINE n == NrSubs(b)
           f == EntryOf(b, ino)
           c == RemoveEntry(b, ino)
           From(k) == IF k >= f /\ k < n - 1 THEN k + 1 ELSE k
<1>1. n \in Nat /\ n <= MaxSubfiles /\ \A k \in Slots : b[k].inode # 0 <=> k < n
  BY NoHole, SlotFacts, SMT
<1>2. f \in Int
  BY EntryOfFacts
<1>3. c = [k \in Slots |-> IF k = n - 1 THEN NoEntry
                           ELSE IF k \in f .. n - 2 THEN b[k + 1] ELSE b[k]]
  <2>1. n - 1 - 1 = n - 2
    BY <1>1, SMT
  <2> QED
    BY <2>1 DEF RemoveEntry
<1> HIDE DEF n, f, c
<1>4. \A k \in Slots : From(k) \in Slots
  BY <1>1, <1>2, SlotFacts, SMT
<1>5. \A k \in Slots : k # n - 1 => c[k] = b[From(k)]
  BY <1>1, <1>2, <1>3, SlotFacts, SMT
<1>6. \A k \in Slots : k = n - 1 => c[k] = NoEntry
  BY <1>3
<1>7. NoEntry \in Entries /\ NoEntry.inode = 0 /\ NoEntry.filename = NoName
  BY InodeFacts, SMT DEF Entries, NoEntry
<1>8. \A k \in Slots : c[k].inode # 0 <=> k < n - 1
  BY <1>1, <1>2, <1>4, <1>5, <1>6, <1>7, SlotFacts, SMT
<1>9. c \in [Slots -> Entries]
  <2>1. \A k \in Slots : c[k] \in Entries
    BY <1>4, <1>5, <1>6, <1>7 DEF IsBlock
  <2> QED
    BY <1>3, <2>1
<1>10. \A k \in Slots : c[k].inode = 0 <=> c[k].filename = NoName
  BY <1>4, <1>5, <1>6, <1>7, SMT DEF IsBlock
<1>11. \A k \in Slots : k > 0 /\ c[k].inode # 0 => c[k - 1].inode # 0
  BY <1>1, <1>8, SlotFacts, SMT
<1>12. IsBlock(c)
  BY <1>9, <1>10, <1>11 DEF IsBlock
<1>13. ASSUME Distinct(b) PROVE Distinct(c)
  <2> SUFFICES ASSUME NEW j \in Slots, NEW k \in Slots,
                      c[j].inode # 0, c[j].filename = c[k].filename
               PROVE  j = k
    BY DEF Distinct
  <2>1. j < n - 1 /\ k < n - 1
    BY <1>8, <1>10
  <2>2. c[j] = b[From(j)] /\ c[k] = b[From(k)]
    BY <1>1, <1>5, <2>1, SlotFacts, SMT
  <2>3. From(j) = From(k)
    BY <1>4, <1>13, <2>2 DEF Distinct
  <2>4. j \in Nat /\ k \in Nat
    BY SlotFacts
  <2> QED
    BY <1>1, <1>2, <2>1, <2>3, <2>4, SMT
<1> QED
  BY <1>12, <1>13 DEF c

\* A new directory or a removed inode has an empty block.
LEMMA EmptyBlockIsBlock ==
    IsBlock(EmptyBlock) /\ Distinct(EmptyBlock)
<1>1. NoEntry \in Entries /\ NoEntry.inode = 0 /\ NoEntry.filename = NoName
  BY InodeFacts, SMT DEF Entries, NoEntry
<1>2. EmptyBlock \in [Slots -> Entries] /\ \A k \in Slots : EmptyBlock[k] = NoEntry
  BY <1>1 DEF EmptyBlock
<1> QED
  BY <1>1, <1>2 DEF IsBlock, Distinct

\* A new name in place of an old one.
LEMMA RenameKeeps ==
    ASSUME NEW b, IsBlock(b), NEW old \in Names, NEW new \in Names,
           NEW m \in Slots, b[m].filename = old
    PROVE  /\ IsBlock([b EXCEPT ![m].filename = Stored[new]])
           /\ (ShortNames /\ Distinct(b) /\ \A k \in Slots : b[k].filename # new)
                => Distinct([b EXCEPT ![m].filename = Stored[new]])
<1> DEFINE c == [b EXCEPT ![m].filename = Stored[new]]
<1>1. b \in [Slots -> Entries] /\ b[m].inode # 0
  BY NameFacts DEF IsBlock
<1>2. Stored[new] \in Names /\ Stored[new] # NoName
  BY NameFacts
<1>3. /\ c \in [Slots -> Entries]
      /\ \A k \in Slots : c[k].inode = b[k].inode
      /\ \A k \in Slots : c[k].filename = IF k = m THEN Stored[new] ELSE b[k].filename
  BY <1>1, <1>2 DEF Entries
<1> HIDE DEF c
<1>4. \A k \in Slots : c[k].inode = 0 <=> c[k].filename = NoName
  BY <1>1, <1>2, <1>3 DEF IsBlock
<1>5. ASSUME NEW k \in Slots, k > 0, c[k].inode # 0
      PROVE  c[k - 1].inode # 0
  <2>1. k - 1 \in Slots
    BY <1>5, SlotFacts, SMT
  <2> QED
    BY <1>3, <1>5, <2>1 DEF IsBlock
<1>6. IsBlock(c)
  BY <1>3, <1>4, <1>5 DEF IsBlock
<1>7. ASSUME ShortNames, Distinct(b), \A k \in Slots : b[k].filename # new
      PROVE  Distinct(c)
  <2> SUFFICES ASSUME NEW j \in Slots, NEW k \in Slots,
                      c[j].inode # 0, c[j].filename = c[k].filename
               PROVE  j = k
    BY DEF Distinct
  <2>1. Stored[new] = new
    BY <1>7 DEF ShortNames
  <2>2. j = m <=> k = m
    BY <1>3, <1>7, <2>1
  <2> QED
    BY <1>3, <1>7, <2>2, ZenonT(30) DEF Distinct
<1> QED
  BY <1>6, <1>7 DEF c

-----------------------------------------------------------------------------
(* The allocator of inodes.                                               *)

\* The free inodes are finite in number, so that the counter is one.
LEMMA FreeInodesAreFinite ==
    ASSUME InodesAccounted
    PROVE  /\ IsFiniteSet(ifree) /\ Cardinality(ifree) \in Nat
           /\ ifree \in SUBSET Inodes
<1>1. IsFiniteSet(Inodes)
  BY NamespaceAssumption, FS_Interval, SMT DEF Inodes
<1>2. ifree \in SUBSET Inodes
  BY DEF InodesAccounted
<1> QED
  BY <1>1, <1>2, FS_Subset, FS_CardinalityType

\* get_free_inode: the first free number, which has no type yet.
LEMMA TakeInode ==
    ASSUME NamespaceInv, ifree # {}, NEW k \in {"file", "dir"},
           ifree' = ifree \ {Min(ifree)},
           nrFreeInodes' = nrFreeInodes - 1,
           kind' = [kind EXCEPT ![Min(ifree)] = k]
    PROVE  /\ Min(ifree) \in Inodes /\ kind[Min(ifree)] = "none"
           /\ kind' \in [Inodes -> {"none", "file", "dir"}]
           /\ InodesAccounted'
<1> DEFINE ino == Min(ifree)
<1>1. IsFiniteSet(ifree) /\ Cardinality(ifree) \in Nat /\ ifree \in SUBSET Inodes
  BY FreeInodesAreFinite DEF NamespaceInv
<1>2. ifree \in SUBSET Nat
  BY <1>1, InodeFacts
<1>3. ino \in ifree
  BY <1>2, MinFacts
<1> HIDE DEF ino
<1>4. ino \in Inodes /\ kind[ino] = "none"
  BY <1>3 DEF NamespaceInv, InodesAccounted
<1>5. Cardinality(ifree \ {ino}) = Cardinality(ifree) - 1
  BY <1>1, <1>3, FS_RemoveElement
<1>6. kind' \in [Inodes -> {"none", "file", "dir"}]
  BY <1>4 DEF NamespaceInv, ino
<1>7. \A i \in Inodes : kind'[i] = IF i = ino THEN k ELSE kind[i]
  BY <1>4 DEF NamespaceInv, ino
<1>8. ifree' = {i \in Inodes : kind'[i] = "none"}
  BY <1>7, <1>4 DEF NamespaceInv, InodesAccounted, ino
<1>9. nrFreeInodes' = Cardinality(ifree') + 1
  BY <1>1, <1>5, SMT DEF NamespaceInv, InodesAccounted, ino
<1> QED
  BY <1>4, <1>6, <1>8, <1>9 DEF InodesAccounted, ino

\* put_inode, of an inode that has a type.
LEMMA PutInode ==
    ASSUME NamespaceInv, NEW ino \in Inodes, kind[ino] # "none",
           ifree' = ifree \cup {ino},
           nrFreeInodes' = nrFreeInodes + 1,
           kind' = [kind EXCEPT ![ino] = "none"]
    PROVE  /\ kind' \in [Inodes -> {"none", "file", "dir"}]
           /\ InodesAccounted'
<1>1. IsFiniteSet(ifree) /\ Cardinality(ifree) \in Nat
  BY FreeInodesAreFinite DEF NamespaceInv
<1>2. ino \notin ifree
  BY DEF NamespaceInv, InodesAccounted
<1>3. Cardinality(ifree \cup {ino}) = Cardinality(ifree) + 1
  BY <1>1, <1>2, FS_AddElement
<1>4. kind' \in [Inodes -> {"none", "file", "dir"}]
  BY DEF NamespaceInv
<1>5. \A i \in Inodes : kind'[i] = IF i = ino THEN "none" ELSE kind[i]
  BY DEF NamespaceInv
<1>6. ifree' = {i \in Inodes : kind'[i] = "none"}
  BY <1>5 DEF NamespaceInv, InodesAccounted
<1>7. nrFreeInodes' = Cardinality(ifree') + 1
  BY <1>1, <1>3 DEF NamespaceInv, InodesAccounted
<1> QED
  BY <1>4, <1>6, <1>7 DEF InodesAccounted

-----------------------------------------------------------------------------
(* The operations.                                                        *)

\* NamesUnique, block by block.
LEMMA UniqueIsDistinct ==
    NamesUnique <=> \A d \in Inodes : Distinct(files[d])
BY DEF NamesUnique, Distinct

\* Two blocks change, or one.
LEMMA BlocksChange ==
    ASSUME NamespaceInv, NEW d \in Inodes, NEW e \in Inodes, NEW b, NEW c,
           IsBlock(b), IsBlock(c), files' = [files EXCEPT ![d] = b, ![e] = c]
    PROVE  /\ files' \in [Inodes -> [Slots -> Entries]]
           /\ \A i \in Inodes : IsBlock(files'[i])
           /\ NamesUnique /\ Distinct(b) /\ Distinct(c) => NamesUnique'
<1>1. b \in [Slots -> Entries] /\ c \in [Slots -> Entries]
  BY DEF IsBlock
<1>2. files \in [Inodes -> [Slots -> Entries]]
  BY DEF NamespaceInv
<1>3. files' \in [Inodes -> [Slots -> Entries]]
  BY <1>1, <1>2
<1>4. \A i \in Inodes : files'[i] = IF i = e THEN c ELSE IF i = d THEN b ELSE files[i]
  BY <1>2
<1>5. \A i \in Inodes : IsBlock(files'[i])
  BY <1>4 DEF NamespaceInv
<1>6. ASSUME NamesUnique, Distinct(b), Distinct(c) PROVE NamesUnique'
  <2>1. \A i \in Inodes : Distinct(files[i])
    BY <1>6, UniqueIsDistinct
  <2>2. \A i \in Inodes : Distinct(files'[i])
    BY <1>4, <1>6, <2>1
  <2> QED
    BY <2>2 DEF NamesUnique, Distinct
<1> QED
  BY <1>3, <1>5, <1>6

\* What every operation keeps.
Keeps == NamespaceInv' /\ (ShortNames /\ NamesUnique => NamesUnique')

\* ouichefs_create and ouichefs_mkdir.
LEMMA CreateKeeps ==
    ASSUME NamespaceInv, NEW d \in Inodes, NEW name \in Names,
           NEW k \in {"file", "dir"}, Create(d, name, k)
    PROVE  Keeps
<1> DEFINE ino == Min(ifree)
           b == AddEntry(files[d], ino, name)
<1>1. /\ Lookup(files[d], name) = 0
      /\ files[d][MaxSubfiles - 1].inode = 0
      /\ ifree # {}
      /\ ifree' = ifree \ {ino}
      /\ nrFreeInodes' = nrFreeInodes - 1
      /\ files' = [files EXCEPT ![d] = b, ![ino] = EmptyBlock]
      /\ kind' = [kind EXCEPT ![ino] = k]
  BY DEF Create
<1>2. /\ ino \in Inodes
      /\ kind' \in [Inodes -> {"none", "file", "dir"}]
      /\ InodesAccounted'
  BY <1>1, TakeInode
<1>3. IsBlock(files[d])
  BY DEF NamespaceInv
<1>4. NrSubs(files[d]) < MaxSubfiles
  <2>1. MaxSubfiles - 1 \in Slots
    BY SlotFacts, SMT
  <2>2. ~(MaxSubfiles - 1 < NrSubs(files[d]))
    BY <1>1, <1>3, <2>1, NoHole
  <2>3. NrSubs(files[d]) \in 0 .. MaxSubfiles
    BY <1>3, NoHole
  <2> QED
    BY <2>2, <2>3, SlotFacts, SMT
<1>5. \A j \in Slots : files[d][j].filename # name
  BY <1>1, <1>3, LookupMisses
<1> HIDE DEF ino
<1>6. IsBlock(b) /\ (ShortNames /\ Distinct(files[d]) => Distinct(b))
  BY <1>2, <1>3, <1>4, <1>5, AddEntryKeeps
<1> HIDE DEF b
<1>7. /\ files' \in [Inodes -> [Slots -> Entries]]
      /\ \A i \in Inodes : IsBlock(files'[i])
      /\ NamesUnique /\ Distinct(b) => NamesUnique'
  BY <1>1, <1>2, <1>6, EmptyBlockIsBlock, BlocksChange
<1>8. NamesUnique => Distinct(files[d])
  BY UniqueIsDistinct
<1> QED
  BY <1>2, <1>6, <1>7, <1>8 DEF Keeps, NamespaceInv

\* ouichefs_unlink, for files and for ouichefs_rmdir.
LEMMA UnlinkKeeps ==
    ASSUME NamespaceInv, NEW d \in Inodes, NEW ino \in Inodes,
           kind[ino] # "none", UnlinkInode(d, ino)
    PROVE  Keeps
<1> DEFINE b == RemoveEntry(files[d], ino)
<1>1. /\ files' = [files EXCEPT ![d] = b, ![ino] = EmptyBlock]
      /\ kind' = [kind EXCEPT ![ino] = "none"]
      /\ ifree' = ifree \cup {ino}
      /\ nrFreeInodes' = nrFreeInodes + 1
  BY DEF UnlinkInode
<1>2. kind' \in [Inodes -> {"none", "file", "dir"}] /\ InodesAccounted'
  BY <1>1, PutInode
<1>3. IsBlock(b) /\ (Distinct(files[d]) => Distinct(b))
  BY RemoveEntryKeeps DEF NamespaceInv
<1> HIDE DEF b
<1>4. /\ files' \in [Inodes -> [Slots -> Entries]]
      /\ \A i \in Inodes : IsBlock(files'[i])
      /\ NamesUnique /\ Distinct(b) => NamesUnique'
  BY <1>1, <1>3, EmptyBlockIsBlock, BlocksChange
<1>5. NamesUnique => Distinct(files[d])
  BY UniqueIsDistinct
<1> QED
  BY <1>2, <1>3, <1>4, <1>5 DEF Keeps, NamespaceInv

\* Operations that change neither inodes nor the bitmap.
LEMMA SameInodes ==
    ASSUME NamespaceInv, UNCHANGED <<kind, ifree, nrFreeInodes>>
    PROVE  kind' \in [Inodes -> {"none", "file", "dir"}] /\ InodesAccounted'
BY DEF NamespaceInv, InodesAccounted

\* Operations that change no directory block.
LEMMA SameFiles ==
    ASSUME NamespaceInv, UNCHANGED <<files, kind, ifree, nrFreeInodes>>
    PROVE  Keeps
BY SameInodes DEF Keeps, NamespaceInv, NamesUnique

\* ouichefs_rename within one directory.
LEMMA RenameInPlaceKeeps ==
    ASSUME NamespaceInv, NEW d \in Inodes, NEW old \in Names, NEW new \in Names,
           RenameInPlace(d, old, new)
    PROVE  Keeps
<1> DEFINE hits == {k \in Slots : files[d][k].filename = old}
           m == Max(hits)
           b == [files[d] EXCEPT ![m].filename = Stored[new]]
<1>1. CASE hits = {}
  BY <1>1, SameFiles DEF RenameInPlace
<1>2. CASE hits # {}
  <2>1. m \in hits
    BY <1>2, MaxFacts
  <2>2. /\ \A k \in Slots : files[d][k].filename # new
        /\ files' = [files EXCEPT ![d][m].filename = Stored[new]]
        /\ UNCHANGED <<kind, ifree, nrFreeInodes>>
    BY <1>2 DEF RenameInPlace
  <2>3. m \in Slots /\ files[d][m].filename = old /\ IsBlock(files[d])
    BY <2>1 DEF NamespaceInv
  <2> HIDE DEF m
  <2>4. IsBlock(b) /\ (ShortNames /\ Distinct(files[d]) => Distinct(b))
    BY <2>2, <2>3, RenameKeeps
  <2>5. files' = [files EXCEPT ![d] = b, ![d] = b]
    BY <2>2 DEF NamespaceInv
  <2> HIDE DEF b
  <2>6. /\ files' \in [Inodes -> [Slots -> Entries]]
        /\ \A i \in Inodes : IsBlock(files'[i])
        /\ NamesUnique /\ Distinct(b) => NamesUnique'
    BY <2>4, <2>5, BlocksChange
  <2>7. NamesUnique => Distinct(files[d])
    BY UniqueIsDistinct
  <2> QED
    BY <2>2, <2>4, <2>6, <2>7, SameInodes DEF Keeps, NamespaceInv
<1> QED
  BY <1>1, <1>2

\* ouichefs_rename from one directory to another, whether it gets as far as the
\* old directory or fails before.
LEMMA MoveKeeps ==
    ASSUME NamespaceInv, NEW from \in Inodes, NEW ino \in Inodes,
           NEW to \in Inodes, NEW new \in Names,
           Rename(from, ino, to, new) \/ RenameTorn(from, ino, to, new)
    PROVE  Keeps
<1> DEFINE b == AddEntry(files[to], ino, new)
           c == RemoveEntry(files[from], ino)
<1>1. /\ \A k \in Slots : files[to][k].filename # new
      /\ NrSubs(files[to]) < MaxSubfiles
      /\ UNCHANGED <<kind, ifree, nrFreeInodes>>
      /\ \/ files' = [files EXCEPT ![to] = b, ![from] = c]
         \/ files' = [files EXCEPT ![to] = b]
  BY DEF Rename, RenameTorn, CanMove
<1>2. IsBlock(files[to]) /\ IsBlock(files[from])
  BY DEF NamespaceInv
<1>3. IsBlock(b) /\ (ShortNames /\ Distinct(files[to]) => Distinct(b))
  BY <1>1, <1>2, AddEntryKeeps
<1>4. IsBlock(c) /\ (Distinct(files[from]) => Distinct(c))
  BY <1>2, RemoveEntryKeeps
<1> HIDE DEF b, c
<1>5. /\ files' \in [Inodes -> [Slots -> Entries]]
      /\ \A i \in Inodes : IsBlock(files'[i])
      /\ NamesUnique /\ Distinct(b) /\ Distinct(c) => NamesUnique'
  <2>1. CASE files' = [files EXCEPT ![to] = b, ![from] = c]
    BY <1>3, <1>4, <2>1, BlocksChange
  <2>2. CASE files' = [files EXCEPT ![to] = b]
    <3>1. files' = [files EXCEPT ![to] = b, ![to] = b]
      BY <2>2 DEF NamespaceInv
    <3> QED
      BY <1>3, <3>1, BlocksChange
  <2> QED
    BY <1>1, <2>1, <2>2
<1>6. NamesUnique => Distinct(files[to]) /\ Distinct(files[from])
  BY UniqueIsDistinct
<1> QED
  BY <1>1, <1>3, <1>4, <1>5, <1>6, SameInodes DEF Keeps, NamespaceInv

-----------------------------------------------------------------------------
(* The invariant and its consequences.                                    *)

\* The image of mkfs.
LEMMA InitHolds == Init => NamespaceInv /\ NamesUnique
<1> SUFFICES ASSUME Init PROVE NamespaceInv /\ NamesUnique
  OBVIOUS
<1>1. /\ files = [d \in Inodes |-> EmptyBlock]
      /\ kind = [i \in Inodes |-> IF i = Root THEN "dir" ELSE "none"]
      /\ ifree = Inodes \ {Root}
      /\ nrFreeInodes = NrInodes - 1
  BY DEF Init
<1>2. EmptyBlock \in [Slots -> Entries]
  BY EmptyBlockIsBlock DEF IsBlock
<1>3. files \in [Inodes -> [Slots -> Entries]] /\ \A d \in Inodes : files[d] = EmptyBlock
  BY <1>1, <1>2
<1>4. kind \in [Inodes -> {"none", "file", "dir"}]
  BY <1>1
<1>5. ifree = {i \in Inodes : kind[i] = "none"}
  BY <1>1
<1>6. IsFiniteSet(Inodes) /\ Cardinality(Inodes) = NrInodes - 1
  <2>1. NrInodes \in Nat /\ NrInodes > 1 /\ 1 \in Int /\ NrInodes - 1 \in Int
    BY NamespaceAssumption, SMT
  <2>2. /\ IsFiniteSet(1 .. NrInodes - 1)
        /\ Cardinality(1 .. NrInodes - 1) =
             IF 1 > NrInodes - 1 THEN 0 ELSE NrInodes - 1 - 1 + 1
    BY <2>1, FS_Interval
  <2> QED
    BY <2>1, <2>2, SMT DEF Inodes
<1>7. Cardinality(Inodes \ {Root}) = Cardinality(Inodes) - 1
  BY <1>6, InodeFacts, FS_RemoveElement
<1>8. nrFreeInodes = Cardinality(ifree) + 1
  BY <1>1, <1>6, <1>7, NamespaceAssumption, SMT
<1>9. NamesUnique
  BY <1>3, EmptyBlockIsBlock, UniqueIsDistinct
<1> QED
  BY <1>3, <1>4, <1>5, <1>8, <1>9, EmptyBlockIsBlock DEF NamespaceInv, InodesAccounted

\* Every operation, and every step of a listing.
LEMMA NextKeeps == NamespaceInv /\ [Next]_vars => Keeps
<1> SUFFICES ASSUME NamespaceInv, [Next]_vars PROVE Keeps
  OBVIOUS
<1>1. ASSUME NEW d \in Inodes, NEW n \in Names, NEW k \in {"file", "dir"},
             Create(d, n, k)
      PROVE  Keeps
  BY <1>1, CreateKeeps
<1>2. ASSUME NEW d \in Inodes, NEW i \in Inodes, Unlink(d, i) \/ Rmdir(d, i)
      PROVE  Keeps
  BY <1>2, UnlinkKeeps DEF Unlink, Rmdir
<1>3. ASSUME NEW d \in Inodes, NEW old \in Names, NEW new \in Names,
             RenameInPlace(d, old, new)
      PROVE  Keeps
  BY <1>3, RenameInPlaceKeeps
<1>4. ASSUME NEW from \in Inodes, NEW i \in Inodes, NEW to \in Inodes,
             NEW n \in Names,
             \/ Rename(from, i, to, n)
             \/ RenameTorn(from, i, to, n)
             \/ RenameAstray(from, i, to, n)
      PROVE  Keeps
  <2>1. CASE Rename(from, i, to, n) \/ RenameTorn(from, i, to, n)
    BY <2>1, MoveKeeps
  <2>2. CASE RenameAstray(from, i, to, n)
    BY <2>2, SameFiles DEF RenameAstray
  <2> QED
    BY <1>4, <2>1, <2>2
<1>5. ASSUME NEW d \in Inodes, OpenDir(d) PROVE Keeps
  BY <1>5, SameFiles DEF OpenDir
<1>6. CASE Iterate \/ CloseDir
  BY <1>6, SameFiles DEF Iterate, CloseDir
<1>7. CASE UNCHANGED vars
  BY <1>7, SameFiles DEF vars
<1> QED
  BY <1>1, <1>2, <1>3, <1>4, <1>5, <1>6, <1>7 DEF Next

\* The inductive invariant holds of every state, renames that fail half way and
\* names of 28 characters included.
THEOREM NamespaceInvariant == Spec => []NamespaceInv
<1>1. Init => NamespaceInv
  BY InitHolds
<1>2. NamespaceInv /\ [Next]_vars => NamespaceInv'
  BY NextKeeps DEF Keeps
<1> QED
  BY <1>1, <1>2, PTL DEF Spec

\* Compaction by unlink, rmdir and rename, and insertion at the first free
\* slot, never leave a hole in a directory block, so that the scans of lookup,
\* unlink, rename and iterate see every entry: for every size of the block.
THEOREM DirectoriesStayDense == Spec => []DirectoriesDense
<1>1. NamespaceInv => DirectoriesDense
  BY DEF NamespaceInv, IsBlock, DirectoriesDense
<1> QED
  BY <1>1, NamespaceInvariant, PTL

\* The inode bitmap marks exactly the inodes without a type as free, and the
\* counter stays one more than the bitmap, as mkfs wrote it: get_free_inode and
\* put_inode are called once for each creation and each removal.
THEOREM InodesStayAccounted == Spec => []InodesAccounted
<1>1. NamespaceInv => InodesAccounted
  BY DEF NamespaceInv
<1> QED
  BY <1>1, NamespaceInvariant, PTL

\* If no name has 28 characters, no sequence of creations, removals and renames
\* gives a directory two entries of one name.
THEOREM NamesStayUnique ==
    ASSUME ShortNames
    PROVE  Spec => []NamesUnique
<1>1. Init => NamespaceInv /\ NamesUnique
  BY InitHolds
<1>2. (NamespaceInv /\ NamesUnique) /\ [Next]_vars => (NamespaceInv /\ NamesUnique)'
  BY NextKeeps DEF Keeps
<1> QED
  BY <1>1, <1>2, PTL DEF Spec
=============================================================================
