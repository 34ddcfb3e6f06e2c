------------------------- MODULE PersistenceProofs --------------------------
(***************************************************************************)
(* Proofs about Persistence, for every size of the partition, of its       *)
(* blocks and of the index blocks and for every number of files, calls,    *)
(* syncs, failing reads and evictions: a file that a sync covered survives *)
(* a crash, whatever is not on disk is marked dirty, and a partition that  *)
(* was unmounted is exact.  PersistenceOperations has the invariant,       *)
(* PersistenceKernel the steps of the kernel and of sync.                  *)
(***************************************************************************)
EXTENDS PersistenceKernel, FiniteSetTheorems, WellFoundedInduction

\* Most steps are first-order reasoning, which is left to Zenon; the steps
\* that need arithmetic or the types of functions ask for SMT.
USE Zenon

-----------------------------------------------------------------------------
(* Free inodes and blocks, and how many there are.                         *)

\* The least element of a set of numbers: what find_first_bit returns.
LEMMA MinFacts ==
    ASSUME NEW S \in SUBSET Nat, S # {}
    PROVE  Min(S) \in S
<1>1. PICK x \in S : \A y \in S : ~(<<y, x>> \in OpToRel(<, Nat))
  BY NatLessThanWellFounded, WFMin
<1>2. \A y \in S : ~(y < x)
  BY <1>1 DEF OpToRel
<1>3. \A y \in S : x <= y
  BY <1>2, SMT
<1> QED
  BY <1>3 DEF Min

\* Data blocks and inode numbers are finite in number.
LEMMA FreeIsFinite ==
    /\ \A S \in SUBSET DataBlocks : IsFiniteSet(S) /\ Cardinality(S) \in Nat
    /\ \A S \in SUBSET (2 .. nr_inodes - 1) : IsFiniteSet(S) /\ Cardinality(S) \in Nat
<1>1. IsFiniteSet(DataBlocks) /\ IsFiniteSet(2 .. nr_inodes - 1)
  BY Layout, FS_Interval, SMT DEF DataBlocks
<1> QED
  BY <1>1, FS_Subset, FS_CardinalityType

\* put_block for a set of blocks in use.
LEMMA BlocksPut ==
    ASSUME Types, NEW S, S \subseteq DataBlocks, S \cap sbi.bfree = {}
    PROVE  /\ PutBlocks(sbi, S) \in [bfree : SUBSET DataBlocks, nrFree : Nat,
                                     ifree : SUBSET (2 .. nr_inodes - 1), nrFreeInodes : Nat]
           /\ PutBlocks(sbi, S).bfree = sbi.bfree \cup S
           /\ PutBlocks(sbi, S).ifree = sbi.ifree
           /\ PutBlocks(sbi, S).nrFreeInodes = sbi.nrFreeInodes
           /\ sbi.nrFree = Cardinality(sbi.bfree)
                => PutBlocks(sbi, S).nrFree = Cardinality(sbi.bfree \cup S)
<1>1. sbi \in [bfree : SUBSET DataBlocks, nrFree : Nat,
               ifree : SUBSET (2 .. nr_inodes - 1), nrFreeInodes : Nat]
  BY DEF Types, SbiType
<1>2. IsFiniteSet(S) /\ IsFiniteSet(sbi.bfree)
      /\ Cardinality(S) \in Nat /\ Cardinality(sbi.bfree) \in Nat
  BY <1>1, FreeIsFinite
<1>3. Cardinality(sbi.bfree \cup S) = Cardinality(sbi.bfree) + Cardinality(S)
  <2>1. sbi.bfree \cap S = {}
    OBVIOUS
  <2>2. Cardinality(sbi.bfree \cup S)
          = Cardinality(sbi.bfree) + Cardinality(S) - Cardinality(sbi.bfree \cap S)
    BY <1>2, FS_Union
  <2> QED
    BY <1>2, <2>1, <2>2, FS_EmptySet, SMTT(30)
<1>4. PutBlocks(sbi, S) = [sbi EXCEPT !.bfree = sbi.bfree \cup S,
                                      !.nrFree = sbi.nrFree + Cardinality(S)]
  BY DEF PutBlocks
<1>5. sbi.nrFree + Cardinality(S) \in Nat
  BY <1>1, <1>2, SMT
<1> QED
  BY <1>1, <1>3, <1>4, <1>5

-----------------------------------------------------------------------------
(* The steps of operations that take or return inodes and blocks.          *)

\* The first step of ouichefs_create takes a free inode and a free block, ...
LEMMA CreateTakes ==
    ASSUME Types, CreateInode
    PROVE  \E n \in Files, f \in DataBlocks :
             /\ n \in sbi.ifree /\ f \in sbi.bfree /\ sbi.nrFree # 0 /\ sbi.nrFreeInodes # 0
             /\ sbi' = [bfree |-> sbi.bfree \ {f}, nrFree |-> sbi.nrFree - 1,
                        ifree |-> sbi.ifree \ {n}, nrFreeInodes |-> sbi.nrFreeInodes - 1]
             /\ core' = [core EXCEPT ![n] = [ib |-> f, blocks |-> 1]]
             /\ incore' = incore \cup {n}
             /\ op' = [call |-> "create", step |-> "register", ino |-> n, bno |-> 0]
             /\ Touch(n) /\ op = NoOp /\ mount = "up"
             /\ UNCHANGED <<disk, buf, dirty, idirty, mount, sync, crashed, lossy>>
<1> DEFINE n == Min(sbi.ifree)
           f == Min(sbi.bfree)
<1>1. sbi.ifree # {} /\ sbi.bfree # {} /\ n \in Files
  BY DEF CreateInode
<1>2. sbi.ifree \in SUBSET Nat /\ sbi.bfree \in SUBSET Nat /\ sbi.bfree \subseteq DataBlocks
  BY Layout, SMT DEF Types, SbiType, DataBlocks
<1>3. n \in sbi.ifree /\ f \in sbi.bfree /\ f \in DataBlocks
  BY <1>1, <1>2, MinFacts
<1> QED
  BY <1>1, <1>3 DEF CreateInode, CanStart, cache

\* ... keeps the types ...
LEMMA CreateInodeTypes ==
    ASSUME Types, CreateInode
    PROVE  Types'
<1>1. PICK n \in Files, f \in DataBlocks :
        /\ n \in sbi.ifree /\ f \in sbi.bfree /\ sbi.nrFree # 0 /\ sbi.nrFreeInodes # 0
        /\ sbi' = [bfree |-> sbi.bfree \ {f}, nrFree |-> sbi.nrFree - 1,
                   ifree |-> sbi.ifree \ {n}, nrFreeInodes |-> sbi.nrFreeInodes - 1]
        /\ core' = [core EXCEPT ![n] = [ib |-> f, blocks |-> 1]]
        /\ incore' = incore \cup {n}
        /\ op' = [call |-> "create", step |-> "register", ino |-> n, bno |-> 0]
        /\ Touch(n)
        /\ UNCHANGED <<disk, buf, dirty, idirty, mount, sync, crashed, lossy>>
  BY CreateTakes
<1>2. SbiType'
  BY <1>1, SMTT(30) DEF Types, SbiType
<1>3. core' \in [Files -> InodeRecords]
  <2>1. [ib |-> f, blocks |-> 1] \in InodeRecords
    BY PersistenceAssumption, SMT DEF InodeRecords
  <2> QED
    BY <1>1, <2>1 DEF Types
<1>4. OpType'
  BY <1>1 DEF OpType, Steps, AllCalls
<1> QED
  BY <1>1, <1>2, <1>3, <1>4 DEF Types, SyncType, Touch

\* ... and the invariant: the inode and the block were free, hence nobody's.
LEMMA CreateInodeKeeps ==
    ASSUME Types, Types', UpInv, CreateInode
    PROVE  UpInv'
<1>1. PICK n \in Files, f \in DataBlocks :
        /\ n \in sbi.ifree /\ f \in sbi.bfree
        /\ sbi' = [bfree |-> sbi.bfree \ {f}, nrFree |-> sbi.nrFree - 1,
                   ifree |-> sbi.ifree \ {n}, nrFreeInodes |-> sbi.nrFreeInodes - 1]
        /\ core' = [core EXCEPT ![n] = [ib |-> f, blocks |-> 1]]
        /\ incore' = incore \cup {n}
        /\ op' = [call |-> "create", step |-> "register", ino |-> n, bno |-> 0]
        /\ Touch(n) /\ op = NoOp /\ mount = "up"
        /\ UNCHANGED <<disk, buf, dirty, idirty, mount, sync, crashed, lossy>>
  BY CreateTakes
<1>2. n \notin safe' /\ (sync # NoSync => n \in touched')
  BY <1>1 DEF Touch
<1>3. OpFrame(n, {})
  BY <1>1, IdleFacts DEF OpFrame, Types, Touch
<1>4. ~Active(n) /\ Mine(n) = {} /\ (n \notin buf[RootBlock] \/ n \in lossy)
  <2>1. Active(n) => n \notin sbi.ifree
    BY ActiveFacts DEF UpInv
  <2> QED
    BY <1>1, <2>1, IdleFacts DEF Mine
<1>5. Active(n)' /\ Iget(n)' = [ib |-> f, blocks |-> 1]
  BY <1>1 DEF Active, Iget, Types
<1>6. Own(n)' = {f} /\ Mine(n)' = {f}
  BY <1>5, SMTT(30) DEF Own, BlocksBy, Mine
<1>7. FileInv(n)'
  <2>1. Laid(n)'
    BY <1>1, <1>5, PersistenceAssumption, SMTT(30) DEF Laid, Placed, InodeRecords, Using
  <2>2. Kept(n)'
    BY <1>1, <1>5, <1>6, SMTT(30) DEF Kept, Loose, Using
  <2>3. InUse(n)'
    BY <1>1 DEF InUse, Using
  <2> QED
    BY <2>1, <2>2, <2>3 DEF FileInv
<1>8. OpListed'
  BY <1>1, <1>4 DEF OpListed
<1>9. CountersExact'
  BY <1>1, FreeIsFinite, FS_RemoveElement, SMTT(30)
     DEF CountersExact, UpInv, Types, SbiType
<1>10. Balanced(n)
  BY <1>1, <1>4, <1>5, <1>6 DEF Balanced
<1> QED
  BY <1>1, <1>2, <1>3, <1>4, <1>6, <1>7, <1>8, <1>9, <1>10, OperationKeeps

\* The first step of a write reserves a block and enters it.
LEMMA WriteReserveKeeps ==
    ASSUME Types, UpInv, NEW i \in Files, WriteReserve(i)
    PROVE  Types' /\ UpInv'
<1>1. CanUse("write", i) /\ sbi.bfree # {} /\ sbi.nrFree > 0
  BY DEF WriteReserve
<1>2. PICK r \in InodeRecords : r = Iget(i)
  BY RecordTypes
<1>3. PICK n \in DataBlocks : n = Min(sbi.bfree) /\ n \in sbi.bfree
  <2>1. sbi.bfree \in SUBSET Nat /\ sbi.bfree \subseteq DataBlocks
    BY Layout, SMT DEF Types, SbiType, DataBlocks
  <2> QED
    BY <1>1, <2>1, MinFacts
<1>4. PICK m \in Slots : m = r.blocks - 1
  BY <1>2 DEF WriteReserve
<1>5. PICK q \in InodeRecords : q = [r EXCEPT !.blocks = @ + 1] /\ q.ib = r.ib
                                /\ q.blocks = r.blocks + 1
  <2>1. r.blocks + 1 \in 0 .. MaxEntries + 1
    BY <1>4, CountedFacts, SMTT(30)
  <2> QED
    BY <2>1, Recount, ZenonT(30)
<1>6. PICK c \in DataBlocks : c = r.ib
  BY <1>1, <1>2, UseFacts
<1>7. /\ mount = "up" /\ op = NoOp /\ op.ino = 0
      /\ Active(i) /\ Mine(i) = Own(i) /\ i \in buf[RootBlock] /\ i \notin lossy
      /\ Placed(r) /\ Shaped(buf, r) /\ Contents(buf, i, r, 0)
      /\ c \in Own(i) /\ Own(i) \subseteq DataBlocks
      /\ Own(i) \cap sbi.bfree = {} /\ i \notin sbi.ifree
      /\ \A b \in Own(i) : b \in dirty \/ buf[b] = disk[b]
  BY <1>1, <1>2, <1>6, UseFacts
<1>8. /\ sbi' = [sbi EXCEPT !.bfree = @ \ {n}, !.nrFree = @ - 1]
      /\ buf' = [buf EXCEPT ![c][m] = n]
      /\ core' = [core EXCEPT ![i] = q] /\ incore' = incore \cup {i}
      /\ op' = [call |-> "write", step |-> "data", ino |-> i, bno |-> n]
      /\ Touch(i)
      /\ UNCHANGED <<disk, dirty, idirty, mount, sync, crashed, lossy>>
  BY <1>2, <1>3, <1>4, <1>5, <1>6 DEF WriteReserve, GetFreeBlock
<1>9. /\ sbi'.bfree = sbi.bfree \ {n} /\ sbi'.nrFree = sbi.nrFree - 1 /\ sbi'.ifree = sbi.ifree
      /\ sbi'.nrFreeInodes = sbi.nrFreeInodes /\ SbiType'
  <2>1. sbi \in [bfree : SUBSET DataBlocks, nrFree : Nat,
                 ifree : SUBSET (2 .. nr_inodes - 1), nrFreeInodes : Nat]
    BY DEF Types, SbiType
  <2>2. sbi.nrFree - 1 \in Nat
    BY <1>1, <2>1, SMTT(30)
  <2> QED
    BY <1>8, <2>1, <2>2 DEF SbiType
<1>10. /\ DOMAIN buf = Blocks /\ c \in Blocks /\ c # RootBlock /\ BlockType(c, buf[c])
       /\ DOMAIN buf[c] = Slots
  BY Regions DEF Types, WellFormed, BlockType
<1>11. /\ DOMAIN buf' = Blocks /\ buf'[c] = [buf[c] EXCEPT ![m] = n]
       /\ \A b \in Blocks : b # c => buf'[b] = buf[b]
  BY <1>8, <1>10
<1>12. buf'[c][m] = n /\ \A k \in Slots : k # m => buf'[c][k] = buf[c][k]
  BY <1>10, <1>11
<1>13. /\ Placed(q) /\ Shaped(buf', q) /\ Contents(buf', i, q, n)
       /\ BlocksBy(buf', q) = BlocksBy(buf, r) \cup {n} /\ n # c
  <2>1. n \notin BlocksBy(buf, r)
    BY <1>2, <1>3, <1>7 DEF Own
  <2>2. \A b \in DataBlocks : b # c => buf'[b] = buf[b]
    BY <1>11, Regions
  <2>3. buf'[r.ib][m] = n /\ \A k \in Slots : k # m => buf'[r.ib][k] = buf[r.ib][k]
    BY <1>6, <1>12
  <2>4. q.ib = r.ib /\ q.blocks = r.blocks + 1
    BY <1>5
  <2>5. Enlarged(buf, buf', r, q, i, m, n)
    BY <1>4, <1>6, <1>7, <2>1, <2>2, <2>3, <2>4 DEF Enlarged
  <2> QED
    BY <1>6, <2>5, Grown, SMTT(30)
<1>14. Types'
  <2>1. BlockType(c, buf'[c])
    <3>1. BlockType(c, [buf[c] EXCEPT ![m] = n])
      BY <1>10, ValueTypes
    <3> QED
      BY <1>11, <3>1
  <2>2. WellFormed(buf')
    BY <1>11, <2>1, MixedType DEF Types
  <2>3. OpType'
    BY <1>8 DEF OpType, Steps, AllCalls
  <2> QED
    BY <1>8, <1>9, <2>2, <2>3 DEF Types, SyncType, Touch
<1>15. OpFrame(i, {c})
  BY <1>7, <1>8, <1>9, <1>10, <1>11, Regions, SMTT(30) DEF OpFrame, Touch, Types
<1>16. Active(i)' /\ Iget(i)' = q /\ i \in incore'
  BY <1>8 DEF Active, Iget, Types
<1>17. Own(i)' = Own(i) \cup {n} /\ Mine(i)' = Own(i) \cup {n}
  BY <1>2, <1>13, <1>16 DEF Own, Mine
<1>18. FileInv(i)'
  <2>1. Laid(i)'
    BY <1>8, <1>13, <1>16 DEF Laid, Using, Unwritten
  <2>2. \A b \in Own(i) : b # c => b \in dirty \/ buf'[b] = disk[b]
    BY <1>7, <1>11, Regions, ZenonT(30)
  <2>3. Loose(i)' = {c, n}
    BY <1>5, <1>6, <1>8, <1>16, ZenonT(30) DEF Loose, Using
  <2>4. Kept(i)'
    BY <1>3, <1>7, <1>8, <1>9, <1>17, <2>2, <2>3 DEF Kept
  <2>5. InUse(i)'
    BY <1>5, <1>6, <1>8, <1>13, <1>16, <1>17, Regions DEF InUse, Using
  <2> QED
    BY <2>1, <2>4, <2>5 DEF FileInv
<1>19. OpListed'
  BY <1>7, <1>8, <1>10, <1>11, Regions DEF OpListed
<1>20. CountersExact'
  BY <1>3, <1>8, <1>9, FreeIsFinite, FS_RemoveElement, SMTT(30) DEF CountersExact, UpInv, Types, SbiType
<1>21. Balanced(i)
  BY <1>3, <1>7, <1>9, <1>16, <1>17 DEF Balanced
<1>22. i \notin safe' /\ (sync # NoSync => i \in touched')
  BY <1>8 DEF Touch
<1> QED
  BY <1>3, <1>7, <1>14, <1>15, <1>17, <1>18, <1>19, <1>20, <1>21, <1>22, OperationKeeps

\* The first step of ouichefs_defrag frees the last block.
LEMMA DefragFreeKeeps ==
    ASSUME Types, UpInv, NEW i \in Files, DefragFree(i)
    PROVE  Types' /\ UpInv'
<1>1. CanUse("defrag", i)
  BY ZenonT(30) DEF DefragFree
<1>2. PICK r \in InodeRecords : r = Iget(i)
  BY RecordTypes
<1>3. PICK m \in Slots : m = r.blocks - 2
  BY <1>2 DEF DefragFree
<1>4. PICK q \in InodeRecords : q = [r EXCEPT !.blocks = @ - 1] /\ q.ib = r.ib
                                /\ q.blocks = r.blocks - 1
  <2>1. r.blocks - 1 \in 0 .. MaxEntries + 1
    BY <1>3, CountedFacts, SMT
  <2> QED
    BY <2>1, Recount, ZenonT(30)
<1>5. PICK c \in DataBlocks : c = r.ib
  BY <1>1, <1>2, UseFacts
<1>6. /\ mount = "up" /\ op = NoOp /\ op.ino = 0
      /\ Active(i) /\ Mine(i) = Own(i) /\ i \in buf[RootBlock] /\ i \notin lossy
      /\ Placed(r) /\ Shaped(buf, r) /\ Contents(buf, i, r, 0)
      /\ c \in Own(i) /\ Own(i) \subseteq DataBlocks
      /\ Own(i) \cap sbi.bfree = {} /\ i \notin sbi.ifree
      /\ \A b \in Own(i) : b \in dirty \/ buf[b] = disk[b]
  BY <1>1, <1>2, <1>5, UseFacts
<1>7. PICK f : f = buf[c][m]
  OBVIOUS
<1>8. /\ sbi' = PutBlocks(sbi, {f})
      /\ buf' = [buf EXCEPT ![c][m] = 0]
      /\ core' = [core EXCEPT ![i] = q]
      /\ incore' = incore \cup {i} /\ idirty' = idirty \cup {i}
      /\ op' = [call |-> "defrag", step |-> "index", ino |-> i, bno |-> 0]
      /\ Touch(i)
      /\ UNCHANGED <<disk, dirty, mount, sync, crashed, lossy>>
  BY <1>2, <1>3, <1>4, <1>5, <1>7 DEF DefragFree
<1>9. /\ DOMAIN buf = Blocks /\ c \in Blocks /\ c # RootBlock /\ BlockType(c, buf[c])
      /\ DOMAIN buf[c] = Slots
  BY Regions DEF Types, WellFormed, BlockType
<1>10. /\ DOMAIN buf' = Blocks /\ buf'[c] = [buf[c] EXCEPT ![m] = 0]
       /\ \A b \in Blocks : b # c => buf'[b] = buf[b]
  BY <1>8, <1>9
<1>11. buf'[c][m] = 0 /\ \A k \in Slots : k # m => buf'[c][k] = buf[c][k]
  BY <1>9, <1>10
<1>12. /\ Placed(q) /\ Shaped(buf', q) /\ Contents(buf', i, q, 0)
       /\ BlocksBy(buf', q) = BlocksBy(buf, r) \ {f}
       /\ f \in BlocksBy(buf, r) /\ f \in DataBlocks /\ f # c
  <2>1. \A b \in DataBlocks : b # c => buf'[b] = buf[b]
    BY <1>10, Regions
  <2>2. buf'[r.ib][m] = 0 /\ \A k \in Slots : k # m => buf'[r.ib][k] = buf[r.ib][k]
    BY <1>5, <1>11, ZenonT(30)
  <2>3. q.ib = r.ib /\ q.blocks = r.blocks - 1
    BY <1>4, ZenonT(30)
  <2>4. Reduced(buf, buf', r, q, i, m, f)
    BY <1>3, <1>5, <1>6, <1>7, <2>1, <2>2, <2>3 DEF Reduced
  <2> QED
    BY <1>5, <2>4, Shrunk, SMTT(30)
<1>13. f \in Own(i)
  BY <1>2, <1>12 DEF Own
<1>14. /\ sbi'.bfree = sbi.bfree \cup {f} /\ sbi'.ifree = sbi.ifree
       /\ sbi'.nrFreeInodes = sbi.nrFreeInodes /\ SbiType'
       /\ sbi.nrFree = Cardinality(sbi.bfree) => sbi'.nrFree = Cardinality(sbi'.bfree)
  <2>1. {f} \subseteq DataBlocks /\ {f} \cap sbi.bfree = {}
    BY <1>6, <1>12, <1>13
  <2>2. /\ PutBlocks(sbi, {f}) \in [bfree : SUBSET DataBlocks, nrFree : Nat,
                                     ifree : SUBSET (2 .. nr_inodes - 1), nrFreeInodes : Nat]
        /\ PutBlocks(sbi, {f}).bfree = sbi.bfree \cup {f}
        /\ PutBlocks(sbi, {f}).ifree = sbi.ifree
        /\ PutBlocks(sbi, {f}).nrFreeInodes = sbi.nrFreeInodes
        /\ sbi.nrFree = Cardinality(sbi.bfree)
             => PutBlocks(sbi, {f}).nrFree = Cardinality(sbi.bfree \cup {f})
    BY <2>1, BlocksPut
  <2>3. sbi' = PutBlocks(sbi, {f})
    BY <1>8
  <2> QED
    BY <2>2, <2>3 DEF SbiType
<1>15. Types'
  <2>1. BlockType(c, buf'[c])
    <3>1. BlockType(c, [buf[c] EXCEPT ![m] = 0])
      BY <1>9, ValueTypes
    <3> QED
      BY <1>10, <3>1
  <2>2. WellFormed(buf')
    BY <1>10, <2>1, MixedType DEF Types
  <2>3. OpType'
    BY <1>8 DEF OpType, Steps, AllCalls
  <2> QED
    BY <1>8, <1>14, <2>2, <2>3 DEF Types, SyncType, Touch
<1>16. OpFrame(i, {c, f})
  <2>1. {c, f} \subseteq DataBlocks /\ buf'[RootBlock] = buf[RootBlock]
    BY <1>9, <1>10, <1>12, Regions
  <2>2. \A b \in Blocks \ {c, f} : buf'[b] = buf[b]
    BY <1>10
  <2>3. sbi'.bfree \subseteq sbi.bfree \cup {c, f} /\ sbi'.ifree = sbi.ifree
    BY <1>14
  <2> QED
    BY <1>6, <1>8, <2>1, <2>2, <2>3 DEF OpFrame, Touch, Types
<1>17. Active(i)' /\ Iget(i)' = q /\ i \in incore' /\ i \in idirty'
  BY <1>8 DEF Active, Iget, Types
<1>18. Own(i)' = Own(i) \ {f} /\ Mine(i)' = Own(i) \ {f}
  BY <1>2, <1>12, <1>17 DEF Own, Mine
<1>19. FileInv(i)'
  <2>1. Laid(i)'
    BY <1>8, <1>12, <1>17 DEF Laid, Using, Unwritten
  <2>2. \A b \in Own(i) : b # c => b \in dirty \/ buf'[b] = disk[b]
    BY <1>6, <1>10, Regions
  <2>3. Loose(i)' = {c}
    BY <1>4, <1>5, <1>8, <1>17 DEF Loose, Using
  <2>4. Kept(i)'
    BY <1>6, <1>8, <1>14, <1>17, <1>18, <2>2, <2>3 DEF Kept
  <2>5. InUse(i)'
    BY <1>8, <1>17 DEF InUse, Using
  <2> QED
    BY <2>1, <2>4, <2>5 DEF FileInv
<1>20. OpListed'
  BY <1>6, <1>8, <1>9, <1>10, Regions DEF OpListed
<1>21. CountersExact'
  BY <1>8, <1>14 DEF CountersExact, UpInv
<1>22. Balanced(i)
  BY <1>6, <1>13, <1>14, <1>17, <1>18 DEF Balanced
<1>23. i \notin safe' /\ (sync # NoSync => i \in touched')
  BY <1>8 DEF Touch
<1> QED
  BY <1>6, <1>13, <1>15, <1>16, <1>18, <1>19, <1>20, <1>21, <1>22, <1>23, OperationKeeps

\* ouichefs_open with O_TRUNC frees all blocks but the index block.
LEMMA OpenTruncKeeps ==
    ASSUME Types, UpInv, NEW i \in Files, OpenTrunc(i)
    PROVE  Types' /\ UpInv'
<1>1. CanUse("trunc", i)
  BY DEF OpenTrunc
<1>2. PICK r \in InodeRecords : r = Iget(i)
  BY RecordTypes
<1>3. PICK q \in InodeRecords : q = [r EXCEPT !.blocks = 0] /\ q.ib = r.ib /\ q.blocks = 0
  <2>1. 0 \in 0 .. MaxEntries + 1
    BY CountedFacts, SMT
  <2> QED
    BY <2>1, Recount
<1>4. PICK c \in DataBlocks : c = r.ib
  BY <1>1, <1>2, UseFacts
<1>5. /\ mount = "up" /\ op = NoOp /\ op.ino = 0
      /\ Active(i) /\ Mine(i) = Own(i) /\ i \in buf[RootBlock] /\ i \notin lossy
      /\ Placed(r) /\ Shaped(buf, r)
      /\ c \in Own(i) /\ Own(i) \subseteq DataBlocks
      /\ Own(i) \cap sbi.bfree = {} /\ i \notin sbi.ifree
  BY <1>1, <1>2, <1>4, UseFacts
<1>6. PICK S : S = {buf[c][k] : k \in Slots} \ {0}
  OBVIOUS
<1>7. /\ sbi' = PutBlocks(sbi, S)
      /\ buf' = [buf EXCEPT ![c] = Zero]
      /\ core' = [core EXCEPT ![i] = q]
      /\ incore' = incore \cup {i} /\ idirty' = idirty \cup {i}
      /\ lossy' = IF c \in dirty THEN lossy ELSE lossy \cup {i}
      /\ Touch(i)
      /\ UNCHANGED <<disk, dirty, mount, op, sync, crashed>>
  BY <1>2, <1>3, <1>4, <1>6 DEF OpenTrunc
<1>8. DOMAIN buf = Blocks /\ c \in Blocks /\ c # RootBlock
  BY Regions DEF Types, WellFormed
<1>9. /\ DOMAIN buf' = Blocks /\ buf'[c] = Zero /\ buf'[RootBlock] = buf[RootBlock]
      /\ \A b \in Blocks : b # c => buf'[b] = buf[b]
  BY <1>7, <1>8, Regions
<1>10. /\ Placed(q) /\ Shaped(buf', q) /\ Contents(buf', i, q, 0)
       /\ BlocksBy(buf', q) = {c} /\ S = Own(i) \ {c}
  <2>1. q.ib = r.ib /\ q.blocks = 0
    BY <1>3
  <2>2. buf'[r.ib] = Zero
    BY <1>4, <1>9
  <2>3. /\ Placed(q) /\ Shaped(buf', q) /\ Contents(buf', i, q, 0)
        /\ BlocksBy(buf', q) = {r.ib}
        /\ {buf[r.ib][k] : k \in Slots} \ {0} = BlocksBy(buf, r) \ {r.ib}
    BY <1>5, <2>1, <2>2, Emptied, SMTT(30)
  <2> QED
    BY <1>2, <1>4, <1>6, <2>3, ZenonT(30) DEF Own
<1>11. /\ sbi'.bfree = sbi.bfree \cup S /\ sbi'.ifree = sbi.ifree
       /\ sbi'.nrFreeInodes = sbi.nrFreeInodes /\ SbiType'
       /\ sbi.nrFree = Cardinality(sbi.bfree) => sbi'.nrFree = Cardinality(sbi'.bfree)
  <2>1. S \subseteq DataBlocks /\ S \cap sbi.bfree = {}
    BY <1>5, <1>10
  <2>2. /\ PutBlocks(sbi, S) \in [bfree : SUBSET DataBlocks, nrFree : Nat,
                                   ifree : SUBSET (2 .. nr_inodes - 1), nrFreeInodes : Nat]
        /\ PutBlocks(sbi, S).bfree = sbi.bfree \cup S
        /\ PutBlocks(sbi, S).ifree = sbi.ifree
        /\ PutBlocks(sbi, S).nrFreeInodes = sbi.nrFreeInodes
        /\ sbi.nrFree = Cardinality(sbi.bfree)
             => PutBlocks(sbi, S).nrFree = Cardinality(sbi.bfree \cup S)
    BY <2>1, BlocksPut
  <2>3. sbi' = PutBlocks(sbi, S)
    BY <1>7
  <2> QED
    BY <2>2, <2>3 DEF SbiType
<1>12. Types'
  <2>1. BlockType(c, buf'[c])
    BY <1>9, ValueTypes
  <2>2. WellFormed(buf')
    BY <1>9, <2>1, MixedType DEF Types
  <2>3. OpType'
    BY <1>7 DEF OpType, Types
  <2> QED
    BY <1>7, <1>11, <2>2, <2>3 DEF Types, SyncType, Touch
<1>13. OpFrame(i, Own(i))
  <2>1. \A b \in Blocks \ Own(i) : buf'[b] = buf[b]
    BY <1>5, <1>9
  <2>2. sbi'.bfree \subseteq sbi.bfree \cup Own(i) /\ sbi'.ifree = sbi.ifree
    BY <1>10, <1>11
  <2> QED
    BY <1>5, <1>7, <1>9, <2>1, <2>2 DEF OpFrame, Touch, Types
<1>14. Iget(i)' = q /\ i \in incore' /\ i \in idirty' /\ op'.ino # i
       /\ (Active(i)' <=> i \notin lossy')
  BY <1>5, <1>7, <1>9, StoreHolds DEF Active, Iget, Types
<1>15. Own(i)' = {c}
  BY <1>10, <1>14 DEF Own
<1>16. FileInv(i)'
  <2> SUFFICES ASSUME i \notin lossy' PROVE Laid(i)' /\ Kept(i)' /\ InUse(i)'
    BY <1>14 DEF FileInv
  <2>1. c \in dirty'
    BY <1>7
  <2>2. Laid(i)'
    BY <1>10, <1>14 DEF Laid, Using, Unwritten
  <2>3. c \notin sbi'.bfree
    BY <1>5, <1>10, <1>11
  <2>4. Kept(i)'
    BY <1>5, <1>11, <1>14, <1>15, <2>1, <2>3 DEF Kept
  <2>5. InUse(i)'
    BY <1>14 DEF InUse, Using
  <2> QED
    BY <2>2, <2>4, <2>5
<1>17. OpListed'
  BY <1>7, IdleFacts, <1>5 DEF OpListed
<1>18. CountersExact'
  BY <1>7, <1>11 DEF CountersExact, UpInv
<1>19. Balanced(i)
  BY <1>5, <1>10, <1>11, <1>14, <1>15 DEF Balanced, Mine
<1>20. Mine(i)' \subseteq Mine(i) \cup sbi.bfree
  BY <1>5, <1>15 DEF Mine
<1>21. i \notin safe' /\ (sync # NoSync => i \in touched')
  BY <1>7 DEF Touch
<1> QED
  BY <1>5, <1>12, <1>13, <1>16, <1>17, <1>18, <1>19, <1>20, <1>21, OperationKeeps

\* The second step of ouichefs_unlink frees the inode and all its blocks.
LEMMA UnlinkBlocksKeeps ==
    ASSUME Types, UpInv, UnlinkBlocks
    PROVE  Types' /\ UpInv'
<1>1. PICK j \in Files : j = op.ino
  BY SMT DEF Types, OpType, UnlinkBlocks, At, NoOp
<1>2. op.step = "blocks" /\ op.call = "unlink" /\ mount = "up"
  BY DEF UnlinkBlocks, At
<1>3. /\ Active(j) /\ j \in incore /\ Iget(j) = core[j] /\ Mine(j) = Own(j)
      /\ j \notin safe /\ (sync # NoSync => j \in touched)
      /\ core[j] \in InodeRecords /\ core[j].ib \in Own(j) /\ Own(j) \subseteq DataBlocks
      /\ Own(j) \cap sbi.bfree = {} /\ j \notin sbi.ifree
  BY <1>1, <1>2, WorkFacts
<1>4. DataEntries(j) \cup {core[j].ib} = Own(j)
  BY <1>3 DEF DataEntries, Own, BlocksBy
<1>5. PICK S : S = Own(j)
  OBVIOUS
<1>6. /\ sbi' = [PutBlocks(sbi, S) EXCEPT !.ifree = @ \cup {j}, !.nrFreeInodes = @ + 1]
      /\ buf' = [b \in Blocks |-> IF b \in S THEN Zero ELSE buf[b]]
      /\ dirty' = dirty \cup S
      /\ core' = [core EXCEPT ![j] = NoInode] /\ idirty' = idirty \cup {j}
      /\ op' = [op EXCEPT !.step = "drop"]
      /\ UNCHANGED <<disk, incore, mount, sync, crashed, safe, touched, lossy>>
  BY <1>1, <1>4, <1>5 DEF UnlinkBlocks, history
<1>7. /\ DOMAIN buf' = Blocks /\ RootBlock \notin S /\ buf'[RootBlock] = buf[RootBlock]
      /\ \A b \in Blocks : IF b \in S THEN buf'[b] = Zero ELSE buf'[b] = buf[b]
  BY <1>3, <1>5, <1>6, Regions
<1>8. /\ sbi'.bfree = sbi.bfree \cup S /\ sbi'.ifree = sbi.ifree \cup {j}
      /\ sbi'.nrFreeInodes = sbi.nrFreeInodes + 1 /\ SbiType'
      /\ sbi.nrFree = Cardinality(sbi.bfree) => sbi'.nrFree = Cardinality(sbi'.bfree)
  <2>1. S \subseteq DataBlocks /\ S \cap sbi.bfree = {}
    BY <1>3, <1>5
  <2>2. /\ PutBlocks(sbi, S) \in [bfree : SUBSET DataBlocks, nrFree : Nat,
                                   ifree : SUBSET (2 .. nr_inodes - 1), nrFreeInodes : Nat]
        /\ PutBlocks(sbi, S).bfree = sbi.bfree \cup S
        /\ PutBlocks(sbi, S).ifree = sbi.ifree
        /\ PutBlocks(sbi, S).nrFreeInodes = sbi.nrFreeInodes
        /\ sbi.nrFree = Cardinality(sbi.bfree)
             => PutBlocks(sbi, S).nrFree = Cardinality(sbi.bfree \cup S)
    BY <2>1, BlocksPut
  <2> DEFINE I == 2 .. nr_inodes - 1
             s == PutBlocks(sbi, S)
  <2>3. j \in I
    BY StoreHolds
  <2>4. sbi' = [s EXCEPT !.ifree = @ \cup {j}, !.nrFreeInodes = @ + 1]
    BY <1>6
  <2>5. /\ s \in [bfree : SUBSET DataBlocks, nrFree : Nat, ifree : SUBSET I, nrFreeInodes : Nat]
        /\ s.bfree = sbi.bfree \cup S /\ s.ifree = sbi.ifree
        /\ s.nrFreeInodes = sbi.nrFreeInodes
        /\ sbi.nrFree = Cardinality(sbi.bfree) => s.nrFree = Cardinality(sbi.bfree \cup S)
    BY <2>2
  <2> HIDE DEF I, s
  <2>6. s.ifree \cup {j} \in SUBSET I /\ s.nrFreeInodes + 1 \in Nat
    BY <2>3, <2>5, SMTT(30)
  <2>7. sbi' \in [bfree : SUBSET DataBlocks, nrFree : Nat, ifree : SUBSET I, nrFreeInodes : Nat]
    BY <2>4, <2>5, <2>6
  <2>8. SbiType'
    BY <2>7 DEF SbiType, I
  <2> QED
    BY <2>4, <2>5, <2>8
<1>9. /\ op'.step = "drop" /\ op'.ino = j /\ op'.call = "unlink" /\ OpType'
  <2>1. op \in [call : AllCalls, step : {"register", "data", "index", "blocks", "drop"},
                ino : Files, bno : DataBlocks \cup {0}]
    BY <1>2, SMTT(30) DEF Types, OpType, NoOp
  <2>2. op' = [op EXCEPT !.step = "drop"]
    BY <1>6
  <2> QED
    BY <1>1, <1>2, <2>1, <2>2 DEF OpType, Steps
<1>10. Types'
  <2>1. \A b \in S : BlockType(b, Zero)
    BY <1>3, <1>5, ValueTypes
  <2>2. WellFormed(buf')
    BY <1>7, <2>1, MixedType DEF Types
  <2>3. NoInode \in InodeRecords
    BY CountedFacts, <1>3, SMTT(30) DEF NoInode, InodeRecords
  <2>4. S \subseteq Blocks
    BY <1>3, <1>5, Regions
  <2>5. dirty' \cap IstoreBlocks = {}
    BY <1>3, <1>5, <1>6, Regions DEF Types
  <2> QED
    BY <1>3, <1>6, <1>8, <1>9, <2>2, <2>3, <2>4, <2>5 DEF Types, SyncType
<1>11. OpFrame(j, S)
  <2>1. S \subseteq DataBlocks
    BY <1>3, <1>5
  <2> QED
    BY <1>1, <1>2, <1>6, <1>7, <1>8, <1>9, <2>1 DEF OpFrame, Types
<1>12. ~Active(j)' /\ Mine(j)' = {}
  BY <1>9 DEF Active, Mine
<1>13. FileInv(j)'
  BY <1>12 DEF FileInv
<1>14. OpListed'
  BY <1>1, <1>2, <1>7, <1>9 DEF OpListed, UpInv
<1>15. CountersExact'
  <2>1. Cardinality(sbi.ifree \cup {j}) = Cardinality(sbi.ifree) + 1
    BY <1>3, FreeIsFinite, FS_AddElement DEF Types, SbiType
  <2> QED
    BY <1>6, <1>8, <2>1 DEF CountersExact, UpInv
<1>16. Balanced(j)
  BY <1>3, <1>5, <1>8, <1>12 DEF Balanced
<1> QED
  BY <1>3, <1>5, <1>6, <1>10, <1>11, <1>12, <1>13, <1>14, <1>15, <1>16, OperationKeeps

\* Every step of an operation.
LEMMA OperationsKeep ==
    ASSUME Types, UpInv, Operation
    PROVE  Types' /\ UpInv'
BY CreateInodeTypes, CreateInodeKeeps, CreateRegisterKeeps, WriteDataKeeps, LastStepsKeep,
   UnlinkBlocksKeeps, UnlinkDropKeeps, WriteReserveKeeps, DefragFreeKeeps, UnlinkEntryKeeps,
   OpenTruncKeeps DEF Operation

\* Every step of sync.
LEMMA SyncStepsKeep ==
    ASSUME Types, UpInv, mount # "down", Sync
    PROVE  PersistenceInv'
<1>1. ASSUME SyncBegin \/ SyncWait PROVE mount' # "down"
  BY <1>1 DEF SyncBegin, SyncWait
<1>2. ASSUME SyncWait PROVE Min(StillToCopy) \in StillToCopy
  <2>1. StillToCopy \subseteq SyncBlocks
    BY <1>2, SMT DEF StillToCopy, Types, SyncType, SyncWait
  <2>2. StillToCopy \in SUBSET Nat
    BY <2>1, Regions, Layout, SMT DEF Blocks
  <2> QED
    BY <1>2, <2>2, MinFacts DEF SyncWait
<1> QED
  BY <1>1, <1>2, SyncBeginKeeps, SyncWaitKeeps, SyncDoneKeeps, SyncFailKeeps
     DEF Sync, PersistenceInv

\* The image that mkfs writes.
LEMMA FormattedFacts ==
    ASSUME Init
    PROVE  PersistenceInv
<1>1. /\ disk = Formatted /\ buf = Formatted /\ dirty = {} /\ sbi = NoSbi
      /\ core = [i \in Files |-> NoInode] /\ incore = {} /\ idirty = {}
      /\ mount = "down" /\ op = NoOp /\ sync = NoSync
      /\ crashed = FALSE /\ safe = Files /\ touched = {} /\ lossy = {}
  BY DEF Init
<1>2. /\ DOMAIN disk = Blocks
      /\ disk[SuperBlock] = [magic |-> TRUE, nrFree |-> NrBlocks - RootBlock - 1,
                             nrFreeInodes |-> nr_inodes - 1]
      /\ \A b \in IstoreBlocks : disk[b] = [i \in InodesIn(b) |-> NoInode]
      /\ \A b \in IfreeBlocks : disk[b] = (2 .. nr_inodes - 1) \cap Segment(b, FirstIfree)
      /\ \A b \in BfreeBlocks : disk[b] = DataBlocks \cap Segment(b, FirstBfree)
      /\ disk[RootBlock] = {}
      /\ \A b \in DataBlocks : disk[b] = Zero
  <2>1. \A b \in IstoreBlocks \cup {RootBlock} \cup DataBlocks : b # SuperBlock
    BY Regions
  <2>2. \A b \in {RootBlock} \cup DataBlocks : b \notin IfreeBlocks /\ b \notin BfreeBlocks
    BY Regions
  <2>3. \A b \in SyncBlocks : b \notin IstoreBlocks
    BY Regions
  <2>4. DOMAIN disk = Blocks
    BY <1>1 DEF Formatted
  <2>5. disk[SuperBlock] = [magic |-> TRUE, nrFree |-> NrBlocks - RootBlock - 1,
                            nrFreeInodes |-> nr_inodes - 1]
    BY <1>1, Regions DEF Formatted
  <2>6. \A b \in IstoreBlocks : disk[b] = [i \in InodesIn(b) |-> NoInode]
    BY <1>1, <2>1, Regions DEF Formatted
  <2>7. \A b \in IfreeBlocks : disk[b] = (2 .. nr_inodes - 1) \cap Segment(b, FirstIfree)
    BY <1>1, <2>3, Regions DEF Formatted
  <2>8. \A b \in BfreeBlocks : disk[b] = DataBlocks \cap Segment(b, FirstBfree)
    BY <1>1, <2>3, Regions DEF Formatted
  <2>9. disk[RootBlock] = {}
    BY <1>1, <2>1, <2>2, Regions DEF Formatted
  <2>10. \A b \in DataBlocks : disk[b] = Zero
    BY <1>1, <2>1, <2>2, Regions DEF Formatted
  <2> QED
    BY <2>4, <2>5, <2>6, <2>7, <2>8, <2>9, <2>10
<1>3. /\ NrBlocks - RootBlock - 1 \in Nat /\ nr_inodes - 1 \in Nat
      /\ nr_inodes - 2 \in Nat
  BY Layout, SMTT(30)
<1>4. WellFormed(disk)
  <2>1. BlockType(SuperBlock, disk[SuperBlock])
    BY <1>2, <1>3, Regions, SMTT(30) DEF BlockType
  <2>2. ASSUME NEW b \in IstoreBlocks PROVE BlockType(b, disk[b])
    <3>1. disk[b] \in [InodesIn(b) -> InodeRecords]
      BY <1>2, ForgetTypes
    <3>2. b # SuperBlock /\ b \notin IfreeBlocks /\ b \notin BfreeBlocks /\ b # RootBlock
          /\ b \notin DataBlocks
      BY Regions
    <3> QED
      BY <3>1, <3>2 DEF BlockType
  <2>3. ASSUME NEW b \in IfreeBlocks PROVE BlockType(b, disk[b])
    BY <1>2, Regions, SMTT(30) DEF BlockType
  <2>4. ASSUME NEW b \in BfreeBlocks PROVE BlockType(b, disk[b])
    BY <1>2, Regions, SMTT(30) DEF BlockType
  <2>5. BlockType(RootBlock, disk[RootBlock])
    BY <1>2, RootTypes
  <2>6. ASSUME NEW b \in DataBlocks PROVE BlockType(b, disk[b])
    BY <1>2, ValueTypes
  <2>7. \A b \in Blocks : \/ b = SuperBlock \/ b \in IstoreBlocks \/ b \in IfreeBlocks
                          \/ b \in BfreeBlocks \/ b = RootBlock \/ b \in DataBlocks
    BY Regions DEF SyncBlocks
  <2> QED
    BY <1>2, <2>1, <2>2, <2>3, <2>4, <2>5, <2>6, <2>7 DEF WellFormed
<1>5. Types
  <2>1. SbiType /\ core \in [Files -> InodeRecords]
    BY <1>1, ForgetTypes DEF SbiType
  <2>2. OpType /\ SyncType
    BY <1>1 DEF OpType, SyncType, NoSync
  <2>3. WellFormed(buf)
    BY <1>1, <1>4
  <2> QED
    BY <1>1, <1>4, <2>1, <2>2, <2>3 DEF Types
<1>6. FreeOnDisk = DataBlocks /\ FreeInodesOnDisk = 2 .. nr_inodes - 1
  BY <1>2, SegmentsCover, SMTT(30) DEF FreeOnDisk, FreeInodesOnDisk
<1>7. DiskCounters
  <2>1. Cardinality(DataBlocks) = NrBlocks - RootBlock - 1
    BY Layout, FS_Interval, SMTT(30) DEF DataBlocks
  <2>2. Cardinality(FreeInodesOnDisk) = nr_inodes - 2
    <3>1. ASSUME NEW n \in Nat, n >= 2 PROVE Cardinality(2 .. n - 1) = n - 2
      BY <3>1, FS_Interval, SMTT(30)
    <3>2. nr_inodes \in Nat /\ nr_inodes >= 2
      BY Layout, SMTT(30)
    <3> QED
      BY <1>6, <3>1, <3>2
  <2>3. /\ disk[SuperBlock].nrFree = NrBlocks - RootBlock - 1
        /\ disk[SuperBlock].nrFreeInodes = nr_inodes - 1
    BY <1>2, SMTT(30)
  <2>4. nr_inodes \in Nat
    BY Layout
  <2>5. disk[SuperBlock].nrFree = Cardinality(FreeOnDisk)
    BY <1>6, <2>1, <2>3
  <2>6. disk[SuperBlock].nrFreeInodes = Cardinality(FreeInodesOnDisk) + 1
    BY <2>2, <2>3, <2>4, SMTT(30)
  <2> QED
    BY <2>5, <2>6 DEF DiskCounters
<1>8. DiskBitmaps
  BY <1>2, <1>6 DEF DiskBitmaps
<1>9. DownInv
  BY <1>1, <1>2, <1>7, <1>8 DEF DownInv
<1> QED
  BY <1>1, <1>5, <1>9 DEF PersistenceInv

-----------------------------------------------------------------------------
(* The invariant and what follows from it.                                *)

\* While the partition is not mounted nothing but a mount happens.
LEMMA DownSteps ==
    ASSUME Types, DownInv, mount = "down", Next
    PROVE  Mount
<1>1. ~Operation
  BY DEF Operation, CreateInode, CreateRegister, WriteData, WriteIndex, WriteNothing, DefragIndex,
         UnlinkBlocks, UnlinkDrop, WriteReserve, DefragFree, UnlinkEntry, OpenTrunc, CanUse,
         CanStart, At
<1>2. sync.stage = "idle" /\ StillToCopy = {}
  BY DEF DownInv, NoSync, StillToCopy
<1>3. ~Sync
  BY <1>2 DEF Sync, SyncBegin, SyncWait, SyncDone, SyncFail
<1>4. Kernel
  BY <1>1, <1>3 DEF Next
<1> QED
  BY <1>4 DEF Kernel, Crash, WriteInode, WriteInodeFail, EvictInode, Writeback, EvictBuffer

\* The invariant is inductive.
LEMMA InvariantStep ==
    ASSUME PersistenceInv, [Next]_vars
    PROVE  PersistenceInv'
<1>1. Types /\ (mount = "down" => DownInv) /\ (mount # "down" => UpInv)
  BY DEF PersistenceInv
<1>2. CASE UNCHANGED vars
  <2>1. UNCHANGED <<disk, buf, dirty, sbi, core, incore, idirty, mount, op, sync, crashed,
                    safe, touched, lossy>>
    BY <1>2 DEF vars, cache, memory, history
  <2>2. Types'
    BY <1>1, <2>1 DEF Types, OpType, SyncType, SbiType
  <2>3. CASE mount = "down"
    <3>1. DownInv'
      BY <1>1, <2>1, <2>3, SMTT(30) DEF DownInv, DiskFile, DiskOwn, OnDisk, DiskCounters, DiskBitmaps,
                              FreeOnDisk, FreeInodesOnDisk
    <3> QED
      BY <2>1, <2>2, <2>3, <3>1 DEF PersistenceInv
  <2>4. CASE mount # "down"
    <3>1. ASSUME NEW k \in Files, Active(k)' PROVE SameFile(k)
      <4>1. Active(k)
        BY <2>1, <3>1 DEF Active
      <4>2. op.ino = k => k \in incore
        BY <1>1, <2>4, <4>1 DEF UpInv, FileInv, InUse
      <4> QED
        BY <2>1, <4>2 DEF SameFile, Iget, Own, OnDisk
    <3>2. KernelFrame
      BY <1>1, <2>1, <2>4, <3>1 DEF KernelFrame, UpInv, Cover
    <3>3. UpInv'
      BY <1>1, <2>2, <2>4, <3>2, KernelKeeps
    <3> QED
      BY <2>1, <2>2, <2>4, <3>3 DEF PersistenceInv
  <2> QED
    BY <2>3, <2>4
<1>3. CASE Next /\ mount = "down"
  BY <1>1, <1>3, DownSteps, MountKeeps
<1>4. CASE Next /\ mount # "down"
  <2>1. CASE Operation
    <3>1. mount' # "down"
      BY <1>4, <2>1 DEF Operation, CreateInode, CreateRegister, WriteData, WriteIndex,
             WriteNothing, DefragIndex, UnlinkBlocks, UnlinkDrop, WriteReserve, DefragFree,
             UnlinkEntry, OpenTrunc
    <3> QED
      BY <1>1, <1>4, <2>1, <3>1, OperationsKeep DEF PersistenceInv
  <2>2. CASE Sync
    BY <1>1, <1>4, <2>2, SyncStepsKeep
  <2>3. CASE Crash
    BY <1>1, <1>4, <2>3, CrashKeeps
  <2>4. ASSUME NEW i \in Files, WriteInode(i) \/ WriteInodeFail(i) \/ EvictInode(i)
        PROVE  PersistenceInv'
    <3>1. mount' # "down"
      BY <1>4, <2>4 DEF WriteInode, WriteInodeFail, EvictInode
    <3> QED
      BY <1>1, <1>4, <2>4, <3>1, WriteInodeKeeps, WriteInodeFailKeeps, EvictInodeKeeps
         DEF PersistenceInv
  <2>5. ASSUME NEW b \in Blocks, Writeback(b) \/ EvictBuffer(b)
        PROVE  PersistenceInv'
    <3>1. mount' # "down"
      BY <1>4, <2>5 DEF Writeback, EvictBuffer
    <3> QED
      BY <1>1, <1>4, <2>5, <3>1, WritebackKeeps, EvictBufferKeeps DEF PersistenceInv
  <2>6. ~Mount
    BY <1>4 DEF Mount
  <2> QED
    BY <1>4, <2>1, <2>2, <2>3, <2>4, <2>5, <2>6 DEF Next, Kernel
<1> QED
  BY <1>2, <1>3, <1>4

\* PersistenceInv holds in every reachable state: what the operations, the
\* kernel and sync rely on, whether the partition is mounted or not.
THEOREM PersistenceInvariant == Spec => []PersistenceInv
<1>1. Init => PersistenceInv
  BY FormattedFacts
<1>2. PersistenceInv /\ [Next]_vars => PersistenceInv'
  BY InvariantStep
<1> QED
  BY <1>1, <1>2, PTL DEF Spec

\* Disk, cache and memory keep their types.
THEOREM PersistenceTypes == Spec => []TypeOK
<1>1. ASSUME NEW d, WellFormed(d) PROVE IsImage(d)
  <2>1. \A b \in DataBlocks : d[b] \in [Slots -> -MaxFiles - 1 .. NrBlocks - 1]
    BY <1>1, Regions DEF WellFormed, BlockType
  <2>2. \A b \in IstoreBlocks : d[b] \in [InodesIn(b) -> InodeRecords]
    BY <1>1, Regions DEF WellFormed, BlockType
  <2>3. /\ \A b \in IfreeBlocks : d[b] \subseteq Segment(b, FirstIfree)
        /\ \A b \in BfreeBlocks : d[b] \subseteq Segment(b, FirstBfree)
    BY <1>1, Regions DEF WellFormed, BlockType
  <2>4. d[SuperBlock] \in [magic : BOOLEAN, nrFree : Nat, nrFreeInodes : Nat]
        /\ d[RootBlock] \subseteq Files
    BY <1>1, Regions DEF WellFormed, BlockType
  <2>5. \A b \in DataBlocks, k \in Slots : d[b][k] \in -MaxFiles - 1 .. NrBlocks - 1
    BY <2>1
  <2> QED
    BY <1>1, <2>2, <2>3, <2>4, <2>5 DEF IsImage, WellFormed
<1>2. OpType => op \in [call : AllCalls \cup {"none"}, ino : Files \cup {0},
                        step : {"idle", "register", "data", "index", "blocks", "drop"},
                        bno : DataBlocks \cup {0}]
  <2>1. CASE op = NoOp
    BY <2>1 DEF NoOp
  <2>2. CASE op \in [call : AllCalls, step : {"register", "data", "index", "blocks", "drop"},
                     ino : Files, bno : DataBlocks \cup {0}]
    BY <2>2
  <2> QED
    BY <2>1, <2>2 DEF OpType
<1>3. PersistenceInv => TypeOK
  <2> SUFFICES ASSUME Types PROVE TypeOK
    BY DEF PersistenceInv
  <2>1. IsImage(disk) /\ IsImage(buf)
    BY <1>1 DEF Types
  <2>2. sbi.bfree \subseteq DataBlocks /\ sbi.nrFree \in Nat
        /\ sbi.ifree \subseteq 2 .. nr_inodes - 1 /\ sbi.nrFreeInodes \in Nat
    BY DEF Types, SbiType
  <2>3. sync.stage \in {"idle", "inodes", "fs", "bdev"} /\ sync.todo \subseteq Blocks \cup Files
    BY DEF Types, SyncType
  <2> QED
    BY <1>2, <2>1, <2>2, <2>3 DEF TypeOK, Types
<1> QED
  BY <1>3, PersistenceInvariant, PTL

\* A file that is well laid out on disk is all there.
LEMMA FilesAreWhole ==
    ASSUME NEW i, i \in disk[RootBlock], DiskFile(i)
    PROVE  WholeOnDisk(i)
<1>1. PICK r : r = OnDisk(i)
  OBVIOUS
<1>2. Placed(r) /\ Shaped(disk, r) /\ Contents(disk, i, r, 0) /\ UsedIn(i, BlocksBy(disk, r), disk)
  BY <1>1 DEF DiskFile, DiskOwn
<1>3. BlocksBy(disk, r) \subseteq DataBlocks
  BY <1>2, BlocksAreData
<1>4. BlocksBy(disk, r) \cap FreeOnDisk = {} /\ i \notin FreeInodesOnDisk
  BY <1>2, ZenonT(30) DEF UsedIn, FreeOnDisk, FreeInodesOnDisk
<1>5. \A k \in 0 .. r.blocks - 2 : disk[disk[r.ib][k]] = DataOf(i)
  <2>1. Counted(r) = 0 .. r.blocks - 2
    BY <1>2, CountedFacts DEF Placed
  <2>2. \A k \in Counted(r) : disk[r.ib][k] # 0
    BY <1>2, Regions DEF Shaped
  <2>3. \A k \in Counted(r) : disk[disk[r.ib][k]] = DataOf(i)
    BY <1>2, <2>2 DEF Contents
  <2> QED
    BY <2>1, <2>3
<1> QED
  BY <1>1, <1>2, <1>3, <1>4, <1>5 DEF WholeOnDisk, Placed

\* A file that a completed sync covered and nobody used since is whole on disk
\* at every moment, so that it survives a crash, and memory agrees with it.
THEOREM SyncedFilesAreSafe == Spec => []SyncedFilesSurvive
<1>1. PersistenceInv => SyncedFilesSurvive
  <2> SUFFICES ASSUME PersistenceInv, NEW i \in safe \ lossy
               PROVE  /\ i \in disk[RootBlock] => WholeOnDisk(i)
                      /\ mount = "up" =>
                          /\ i \in disk[RootBlock] <=> i \in buf[RootBlock]
                          /\ i \in incore /\ i \in buf[RootBlock] => core[i] = OnDisk(i)
    BY DEF SyncedFilesSurvive
  <2>1. Types /\ i \in Files
    BY DEF PersistenceInv, Types
  <2>2. CASE mount = "down"
    BY <2>2, FilesAreWhole DEF PersistenceInv, DownInv
  <2>3. CASE mount # "down"
    <3>1. UpInv /\ SafeInv(i) /\ op.ino # i
      BY <2>3 DEF PersistenceInv, UpInv
    <3>2. i \in disk[RootBlock] => DiskFile(i)
      BY <2>1, <3>1, SafeOnDisk
    <3> QED
      BY <3>1, <3>2, FilesAreWhole DEF SafeInv
  <2> QED
    BY <2>2, <2>3
<1> QED
  BY <1>1, PersistenceInvariant, PTL

\* Whatever cache and memory have and the disk has not is marked dirty: the
\* kernel and sync will write it.
THEOREM ChangesAreDirty == Spec => []DirtyCoversChanges
<1>1. PersistenceInv => DirtyCoversChanges
  <2> SUFFICES ASSUME PersistenceInv, mount = "up" PROVE DirtyCoversChanges
    BY DEF DirtyCoversChanges
  <2>1. Types /\ UpInv
    BY DEF PersistenceInv
  <2> DEFINE files == buf[RootBlock] \ (lossy \cup {op.ino})
             blocks == 0 .. RootBlock \cup UNION {BlocksBy(buf, Iget(i)) : i \in files}
  <2>2. buf[RootBlock] \subseteq Files
    BY <2>1, Regions, RootTypes DEF Types, WellFormed
  <2>3. ASSUME NEW i \in files PROVE i \in Files /\ op.ino # i /\ i \notin lossy /\ Kept(i)
    BY <2>1, <2>2, <2>3 DEF UpInv, FileInv, Active
  <2>4. ASSUME NEW i \in files, NEW b \in BlocksBy(buf, Iget(i))
        PROVE  b \in dirty \/ buf[b] = disk[b]
    BY <2>3, <2>4 DEF Kept, Own, Loose, Using
  <2>5. \A b \in 0 .. RootBlock : b \in dirty \/ buf[b] = disk[b]
    BY <2>1 DEF UpInv, Cover
  <2>6. \A b \in blocks \ dirty : buf[b] = disk[b]
    BY <2>4, <2>5
  <2>7. \A i \in (files \cap incore) \ idirty : core[i] = buf[InodeBlock(i)][i]
    BY <2>3 DEF Kept
  <2> QED
    BY <2>6, <2>7 DEF DirtyCoversChanges
<1> QED
  BY <1>1, PersistenceInvariant, PTL

\* A partition that was unmounted, with a sync that did not fail, is exact.
THEOREM UnmountsAreExact == Spec => []UnmountIsExact
<1>1. PersistenceInv => UnmountIsExact
  <2> SUFFICES ASSUME PersistenceInv, mount = "down", ~crashed PROVE UnmountIsExact
    BY DEF UnmountIsExact
  <2>1. Types /\ DownInv
    BY DEF PersistenceInv
  <2> DEFINE files == disk[RootBlock] \ lossy
             Of(i) == BlocksBy(disk, OnDisk(i))
  <2>2. \A i \in files : WholeOnDisk(i)
    BY <2>1, FilesAreWhole DEF DownInv
  <2>3. \A i, j \in files : i # j => Of(i) \cap Of(j) = {}
    BY <2>1 DEF DownInv, DiskOwn
  <2>4. /\ disk[SuperBlock].nrFree = Cardinality(FreeOnDisk)
        /\ disk[SuperBlock].nrFreeInodes = Cardinality(FreeInodesOnDisk) + 1
    BY <2>1 DEF DownInv, DiskCounters
  <2>5. ASSUME lossy = {}
        PROVE  /\ FreeOnDisk = DataBlocks \ UNION {Of(i) : i \in files}
               /\ FreeInodesOnDisk = (2 .. nr_inodes - 1) \ files
    <3>1. /\ \A b \in DataBlocks :
               b \in FreeOnDisk <=> ~ \E i \in disk[RootBlock] : b \in DiskOwn(i)
          /\ \A i \in 2 .. nr_inodes - 1 : i \in FreeInodesOnDisk <=> i \notin disk[RootBlock]
      BY <2>1, <2>5 DEF DownInv, DiskBitmaps
    <3>2. \A b \in BfreeBlocks : disk[b] \subseteq DataBlocks
      BY <2>1, Regions DEF Types, WellFormed, BlockType
    <3>3. \A b \in IfreeBlocks : disk[b] \subseteq 2 .. nr_inodes - 1
      BY <2>1, Regions DEF Types, WellFormed, BlockType
    <3>4. FreeOnDisk \subseteq DataBlocks /\ FreeInodesOnDisk \subseteq 2 .. nr_inodes - 1
      BY <3>2, <3>3 DEF FreeOnDisk, FreeInodesOnDisk
    <3>5. \A b \in DataBlocks : b \in FreeOnDisk <=> b \notin UNION {Of(i) : i \in files}
      BY <2>5, <3>1 DEF DiskOwn
    <3>6. FreeOnDisk = DataBlocks \ UNION {Of(i) : i \in files}
      BY <3>4, <3>5
    <3>7. FreeInodesOnDisk = (2 .. nr_inodes - 1) \ files
      BY <2>5, <3>1, <3>4
    <3> QED
      BY <3>6, <3>7
  <2> QED
    BY <2>2, <2>3, <2>4, <2>5 DEF UnmountIsExact
<1> QED
  BY <1>1, PersistenceInvariant, PTL
=============================================================================
