----------------------- MODULE PersistenceOperations ------------------------
(***************************************************************************)
(* The inductive invariant of Persistence, what a step of an operation has *)
(* to leave alone to keep it, and the proof that the steps that take and   *)
(* return no block keep it, for every size of the partition, of its blocks *)
(* and of the index blocks and for every number of files and calls.  The   *)
(* steps that take and return blocks, and the theorems, are in             *)
(* PersistenceProofs.                                                      *)
(***************************************************************************)
EXTENDS Persistence, TLAPS

\* Most steps are first-order reasoning, which is left to Zenon; the steps
\* that need arithmetic or the types of functions ask for SMT.
USE Zenon

\* The slots of an index block that i_blocks counts.
Counted(r) == {k \in Slots : k < r.blocks - 1}

\* An inode record that names an index block.
Placed(r) == r \in InodeRecords /\ r.ib \in DataBlocks

\* The index block of r in image d names distinct data blocks in the slots
\* that i_blocks counts and nothing in the others.
Shaped(d, r) ==
    /\ \A k \in Counted(r) : d[r.ib][k] \in DataBlocks /\ d[r.ib][k] # r.ib
    /\ \A k \in Slots \ Counted(r) : d[r.ib][k] = 0
    /\ \A j, k \in Counted(r) : d[r.ib][j] = d[r.ib][k] => j = k

\* The blocks it names, apart from x, hold the bytes of file i.
Contents(d, i, r, x) ==
    \A k \in Counted(r) : d[r.ib][k] = x \/ d[d[r.ib][k]] = DataOf(i)

\* The bitmaps of image d mark inode i and the blocks S used.
UsedIn(i, S, d) ==
    /\ \A b \in BfreeBlocks : S \cap d[b] = {}
    /\ \A b \in IfreeBlocks : i \notin d[b]

\* What a block of each region holds.
BlockType(b, v) ==
    /\ b = SuperBlock => v \in [magic : BOOLEAN, nrFree : Nat, nrFreeInodes : Nat]
    /\ b \in IstoreBlocks => v \in [InodesIn(b) -> InodeRecords]
    /\ b \in IfreeBlocks => v \subseteq 2 .. nr_inodes - 1 /\ v \subseteq Segment(b, FirstIfree)
    /\ b \in BfreeBlocks => v \subseteq DataBlocks /\ v \subseteq Segment(b, FirstBfree)
    /\ b = RootBlock => v \subseteq Files
    /\ b \in DataBlocks => v \in [Slots -> -MaxFiles - 1 .. NrBlocks - 1]

\* An image of the partition: every block holds what its region holds.
WellFormed(d) == DOMAIN d = Blocks /\ \A b \in Blocks : BlockType(b, d[b])

\* The types that hold in every state.  An operation in progress is at one of
\* its steps; sync is in one of its stages.
Steps == {<<"create", "register">>, <<"write", "data">>, <<"write", "index">>,
          <<"defrag", "index">>, <<"unlink", "blocks">>, <<"unlink", "drop">>}

OpType ==
    \/ op = NoOp
    \/ /\ op \in [call : AllCalls, step : {"register", "data", "index", "blocks", "drop"},
                  ino : Files, bno : DataBlocks \cup {0}]
       /\ <<op.call, op.step>> \in Steps

SyncType ==
    /\ sync \in [stage : {"idle", "inodes", "fs", "bdev"}, todo : SUBSET (Blocks \cup Files)]
    /\ sync.stage = "idle" => sync = NoSync
    /\ sync.stage = "fs" => sync.todo \subseteq SyncBlocks

SbiType ==
    sbi \in [bfree : SUBSET DataBlocks, nrFree : Nat,
             ifree : SUBSET (2 .. nr_inodes - 1), nrFreeInodes : Nat]

Types ==
    /\ WellFormed(disk) /\ WellFormed(buf)
    /\ dirty \subseteq Blocks /\ dirty \cap IstoreBlocks = {}
    /\ SbiType
    /\ core \in [Files -> InodeRecords]
    /\ incore \subseteq Files /\ idirty \subseteq incore
    /\ mount \in {"down", "up", "unmounting"}
    /\ OpType /\ SyncType
    /\ crashed \in BOOLEAN
    /\ safe \subseteq Files /\ touched \subseteq Files /\ lossy \subseteq Files

-----------------------------------------------------------------------------
(* The invariant of the mounted file system.                              *)

\* The blocks of file i as the mounted file system sees it.
Own(i) == BlocksBy(buf, Iget(i))

\* The files whose blocks the file system answers for: those in the directory
\* that lost nothing, and the one that an operation works on.
Active(i) ==
    IF op.ino = i THEN op.step # "drop"
    ELSE i \in buf[RootBlock] /\ i \notin lossy

\* An operation on file i is at step.
Using(i, step) == op.ino = i /\ op.step = step

\* The block of i that a write has reserved and not yet written.
Unwritten(i) == IF Using(i, "data") THEN op.bno ELSE 0

\* The blocks of i that the operation on it will still write or mark dirty.
Loose(i) ==
    IF Using(i, "register") \/ Using(i, "index") THEN {Iget(i).ib}
    ELSE IF Using(i, "data") THEN {Iget(i).ib, op.bno}
    ELSE {}

\* The index block and the data blocks of an active file.
Laid(i) ==
    /\ Placed(Iget(i))
    /\ IF Using(i, "register") THEN Iget(i).blocks = 1
       ELSE Shaped(buf, Iget(i)) /\ Contents(buf, i, Iget(i), Unwritten(i))

\* It keeps what it has: nothing of it is free, what changed is marked dirty.
Kept(i) ==
    /\ Own(i) \cap sbi.bfree = {} /\ i \notin sbi.ifree
    /\ \A b \in Own(i) \ Loose(i) : b \in dirty \/ buf[b] = disk[b]
    /\ i \notin lossy /\ (op.ino = i => op.call = "defrag") /\ i \in incore \ idirty
        => core[i] = buf[InodeBlock(i)][i]

\* An operation holds the inode it works on and, once reserved, its new block.
InUse(i) ==
    /\ op.ino = i => i \in incore
    /\ Using(i, "data") => op.bno \in Own(i) /\ op.bno # Iget(i).ib /\ op.bno # 0

\* What holds of every active file.
FileInv(i) == Active(i) => Laid(i) /\ Kept(i) /\ InUse(i)

\* Where the file that an operation works on is listed.
OpListed ==
    /\ op.step \in {"data", "index"} => op.ino \in buf[RootBlock]
    /\ op.step \in {"blocks", "drop"} => op.ino \notin buf[RootBlock]
    /\ op.step = "register" => op.ino \notin buf[RootBlock] \/ op.ino \in lossy

\* No block belongs to two files.
Disjoint ==
    \A i, j \in Files : i # j /\ Active(i) /\ Active(j) => Own(i) \cap Own(j) = {}

\* What differs from the disk below the data blocks is marked dirty; the inode
\* store is written at once.
Cover ==
    /\ \A b \in 0 .. RootBlock : b \in dirty \/ buf[b] = disk[b]
    /\ \A b \in IstoreBlocks : buf[b] = disk[b]

\* A safe file is on disk as it is in memory, and every copy of the bitmaps
\* that may still be written marks its blocks used.
SafeInv(i) ==
    /\ i \in disk[RootBlock] <=> i \in buf[RootBlock]
    /\ i \in buf[RootBlock] =>
        /\ i \in incore => core[i] = OnDisk(i)
        /\ \A b \in Own(i) : buf[b] = disk[b]
        /\ UsedIn(i, Own(i), buf) /\ UsedIn(i, Own(i), disk)

\* Sync has written the copy of b that it waits for.
Passed(b) == sync.stage = "bdev" \/ (sync.stage = "fs" /\ b \notin sync.todo)

\* A file that nobody touched since sync began: what sync has passed is on
\* disk, the rest is on sync's list.
SyncInv(i) ==
    /\ sync.stage = "bdev" =>
        RootBlock \in sync.todo \/ (i \in disk[RootBlock] <=> i \in buf[RootBlock])
    /\ i \in buf[RootBlock] =>
        /\ i \in idirty => sync.stage = "inodes" /\ i \in sync.todo
        /\ UsedIn(i, Own(i), buf)
        /\ \A b \in BfreeBlocks : Passed(b) => Own(i) \cap disk[b] = {}
        /\ \A b \in IfreeBlocks : Passed(b) => i \notin disk[b]
        /\ sync.stage = "bdev" => \A b \in Own(i) : b \in sync.todo \/ buf[b] = disk[b]

\* An unmount waits for the operations; its sync copies the final counters.
UnmountInv ==
    mount = "unmounting" =>
        /\ op = NoOp /\ touched = {} /\ sync # NoSync
        /\ \A b \in SyncBlocks : buf[b] = Image(b)
        /\ \A b \in SyncBlocks : Passed(b) => disk[b] = buf[b]

\* Until a crash the counters are those of the bitmaps, and until something is
\* lost the bitmaps mark exactly the active files and their blocks.
CountersExact ==
    ~crashed => /\ sbi.nrFree = Cardinality(sbi.bfree)
                /\ sbi.nrFreeInodes = Cardinality(sbi.ifree) + 1

BitmapsExact ==
    ~crashed /\ lossy = {} =>
        /\ \A b \in DataBlocks : b \in sbi.bfree <=> ~ \E i \in Files : Active(i) /\ b \in Own(i)
        /\ \A i \in 2 .. nr_inodes - 1 : i \in sbi.ifree <=> ~(i \in Files /\ Active(i))

\* The files that the sync in progress will have made safe.
Synced == Files \ (touched \cup lossy)

\* An operation works on no file that is safe or that sync counts on.
UpInv ==
    /\ \A i \in Files : FileInv(i)
    /\ OpListed /\ Disjoint /\ Cover
    /\ \A i \in safe \ lossy : SafeInv(i)
    /\ sync # NoSync => \A i \in Synced : SyncInv(i)
    /\ op.ino \notin safe /\ (sync # NoSync => op.ino \notin Files \ touched)
    /\ UnmountInv /\ CountersExact /\ BitmapsExact

-----------------------------------------------------------------------------
(* The invariant of the partition that is not mounted.                    *)

\* The blocks of file i as the disk has it, and a file that is all there.
DiskOwn(i) == BlocksBy(disk, OnDisk(i))

DiskFile(i) ==
    /\ Placed(OnDisk(i)) /\ Shaped(disk, OnDisk(i)) /\ Contents(disk, i, OnDisk(i), 0)
    /\ UsedIn(i, DiskOwn(i), disk)

\* Counters and bitmaps on disk, as CountersExact and BitmapsExact in memory.
DiskCounters ==
    ~crashed => /\ disk[SuperBlock].nrFree = Cardinality(FreeOnDisk)
                /\ disk[SuperBlock].nrFreeInodes = Cardinality(FreeInodesOnDisk) + 1

DiskBitmaps ==
    ~crashed /\ lossy = {} =>
        /\ \A b \in DataBlocks :
             b \in FreeOnDisk <=> ~ \E i \in disk[RootBlock] : b \in DiskOwn(i)
        /\ \A i \in 2 .. nr_inodes - 1 : i \in FreeInodesOnDisk <=> i \notin disk[RootBlock]

\* Nothing runs, nothing is in memory, and what is neither safe nor lost is gone.
DownInv ==
    /\ op = NoOp /\ sync = NoSync /\ touched = {}
    /\ incore = {} /\ idirty = {}
    /\ Files \ safe \subseteq lossy
    /\ \A i \in disk[RootBlock] \ lossy : DiskFile(i)
    /\ \A i, j \in disk[RootBlock] \ lossy : i # j => DiskOwn(i) \cap DiskOwn(j) = {}
    /\ DiskCounters /\ DiskBitmaps

\* The inductive invariant.
PersistenceInv == Types /\ IF mount = "down" THEN DownInv ELSE UpInv

-----------------------------------------------------------------------------
(* The layout of the partition.                                           *)

\* Division by a positive number.
LEMMA Division ==
    ASSUME NEW a \in Nat, NEW b \in Nat \ {0}
    PROVE  /\ a \div b \in Nat /\ a % b \in 0 .. b - 1
           /\ a = (a \div b) * b + (a % b)
BY SMT

\* The number below a limit fits into as many units as idiv_ceil gives.
LEMMA CeilingCovers ==
    ASSUME NEW n \in Nat, NEW b \in Nat \ {0}
    PROVE  /\ idiv_ceil(n, b) \in Nat
           /\ \A a \in Nat : a < n => a \div b < idiv_ceil(n, b)
<1>1. idiv_ceil(n, b) \in Nat
  BY Division, SMT DEF idiv_ceil
<1>2. ASSUME NEW a \in Nat, a < n PROVE a \div b < idiv_ceil(n, b)
  <2> DEFINE p == a \div b
             q == n \div b
             s == n % b
             t == a % b
  <2>1. p \in Nat /\ q \in Nat /\ s \in 0 .. b - 1 /\ t \in 0 .. b - 1
        /\ a = p * b + t /\ n = q * b + s
    BY Division
  <2>2. idiv_ceil(n, b) = q + (IF s # 0 THEN 1 ELSE 0)
    BY DEF idiv_ceil
  <2> HIDE DEF p, q, s, t
  <2>3. p <= q
    <3> SUFFICES ASSUME p >= q + 1 PROVE FALSE
      BY <2>1, SMT
    <3>1. PICK e \in Nat : p = q + 1 + e
      BY <2>1, SMT
    <3>2. p * b = q * b + b + e * b /\ e * b \in Nat
      BY <2>1, <3>1, SMT
    <3> QED
      BY <1>2, <2>1, <3>2, SMT
  <2>4. CASE p = q
    BY <1>2, <2>1, <2>2, <2>4, SMT
  <2>5. CASE p < q
    BY <2>1, <2>2, <2>5, SMT
  <2> QED
    BY <2>1, <2>2, <2>3, <2>4, <2>5, SMT DEF p
<1> QED
  BY <1>1, <1>2

\* The order of the regions.
LEMMA Layout ==
    /\ NrBlocks \in Nat /\ nr_inodes \in Nat /\ MaxFiles \in Nat /\ MaxFiles + 1 < nr_inodes
    /\ FirstIfree \in Nat /\ FirstBfree \in Nat /\ RootBlock \in Nat
    /\ 1 <= FirstIfree /\ FirstIfree <= FirstBfree /\ FirstBfree <= RootBlock
    /\ RootBlock < NrBlocks
<1>1. NrBlocks \in Nat /\ InodesPerBlock \in Nat \ {0} /\ BitsPerBlock \in Nat \ {0}
      /\ RootBlock < NrBlocks /\ MaxFiles \in Nat /\ MaxFiles + 1 < nr_inodes
  BY PersistenceAssumption
<1>2. nr_inodes \in Nat
  BY <1>1, Division, SMT DEF nr_inodes
<1>3. nr_istore_blocks \in Nat /\ nr_ifree_blocks \in Nat /\ nr_bfree_blocks \in Nat
  BY <1>1, <1>2, CeilingCovers DEF nr_istore_blocks, nr_ifree_blocks, nr_bfree_blocks
<1> QED
  BY <1>1, <1>2, <1>3, SMT DEF FirstIfree, FirstBfree, RootBlock

\* The regions do not overlap.
LEMMA Regions ==
    /\ SuperBlock \in Blocks /\ RootBlock \in Blocks
    /\ IstoreBlocks \subseteq Blocks /\ SyncBlocks \subseteq Blocks /\ DataBlocks \subseteq Blocks
    /\ IfreeBlocks \subseteq SyncBlocks /\ BfreeBlocks \subseteq SyncBlocks
    /\ SuperBlock \in SyncBlocks
    /\ RootBlock \notin SyncBlocks /\ RootBlock \notin IstoreBlocks /\ RootBlock \notin DataBlocks
    /\ \A b \in DataBlocks : b \notin SyncBlocks /\ b \notin IstoreBlocks /\ b # 0
    /\ \A b \in IstoreBlocks : b \notin SyncBlocks
    /\ \A b \in BfreeBlocks : b \notin IfreeBlocks /\ b # SuperBlock
    /\ \A b \in IfreeBlocks : b # SuperBlock
    /\ \A b \in Blocks : b \in 0 .. RootBlock \/ b \in DataBlocks
    /\ \A b \in 0 .. RootBlock : b \in SyncBlocks \/ b \in IstoreBlocks \/ b = RootBlock
    /\ \A b \in SyncBlocks \cup IstoreBlocks \cup {RootBlock} : b \in 0 .. RootBlock
BY Layout, SMT DEF SuperBlock, Blocks, IstoreBlocks, SyncBlocks, DataBlocks, IfreeBlocks, BfreeBlocks

\* The record of a file is in the inode store.
LEMMA StoreHolds ==
    ASSUME NEW i \in Files
    PROVE  InodeBlock(i) \in IstoreBlocks /\ i \in InodesIn(InodeBlock(i)) /\ i # 0
           /\ i \in 2 .. nr_inodes - 1
<1>1. InodesPerBlock \in Nat \ {0} /\ i \in Nat /\ i < nr_inodes /\ i # 0 /\ i >= 2
  BY PersistenceAssumption, Layout, SMT DEF Files
<1>2. i \div InodesPerBlock \in Nat /\ i \div InodesPerBlock < nr_istore_blocks
  BY <1>1, Layout, Division, CeilingCovers DEF nr_istore_blocks
<1>3. nr_istore_blocks \in Nat
  BY <1>1, Layout, CeilingCovers DEF nr_istore_blocks
<1> QED
  BY <1>1, <1>2, <1>3, Layout, SMT DEF InodeBlock, IstoreBlocks, FirstIfree, InodesIn

\* The bits of a bitmap are spread over its blocks.
LEMMA SegmentsCover ==
    /\ \A x \in DataBlocks : \E b \in BfreeBlocks : x \in Segment(b, FirstBfree)
    /\ \A x \in 2 .. nr_inodes - 1 : \E b \in IfreeBlocks : x \in Segment(b, FirstIfree)
<1>1. ASSUME NEW n \in Nat, NEW x \in Nat, x < n, NEW f \in Nat
      PROVE  /\ f + (x \div BitsPerBlock) \in f .. f + idiv_ceil(n, BitsPerBlock) - 1
             /\ x \in Segment(f + (x \div BitsPerBlock), f)
  <2> DEFINE q == x \div BitsPerBlock
             s == x % BitsPerBlock
             c == idiv_ceil(n, BitsPerBlock)
  <2>1. BitsPerBlock \in Nat \ {0}
    BY PersistenceAssumption
  <2>2. q \in Nat /\ s \in 0 .. BitsPerBlock - 1 /\ x = q * BitsPerBlock + s
    BY <2>1, Division
  <2>3. q < c /\ c \in Nat
    BY <1>1, <2>1, CeilingCovers
  <2> HIDE DEF q, s, c
  <2>4. f + q \in f .. f + c - 1
    BY <2>2, <2>3, SMT
  <2>5. (q + 1) * BitsPerBlock = q * BitsPerBlock + BitsPerBlock /\ q * BitsPerBlock \in Nat
    BY <2>1, <2>2, SMT
  <2>6. x \in q * BitsPerBlock .. (q + 1) * BitsPerBlock - 1
    BY <2>1, <2>2, <2>5, SMT
  <2>7. (f + q) - f = q /\ (f + q) - f + 1 = q + 1
    BY <2>2, SMT
  <2>8. x \in Segment(f + q, f)
    BY <2>6, <2>7 DEF Segment
  <2> QED
    BY <2>4, <2>8 DEF q, c
<1>2. ASSUME NEW x \in DataBlocks PROVE \E b \in BfreeBlocks : x \in Segment(b, FirstBfree)
  <2>1. x \in Nat /\ x < NrBlocks
    BY Layout, SMT DEF DataBlocks
  <2>2. FirstBfree + (x \div BitsPerBlock)
          \in FirstBfree .. FirstBfree + idiv_ceil(NrBlocks, BitsPerBlock) - 1
    BY <1>1, <2>1, Layout
  <2>3. FirstBfree + (x \div BitsPerBlock) \in BfreeBlocks
    <3>1. RootBlock = FirstBfree + idiv_ceil(NrBlocks, BitsPerBlock)
      BY DEF RootBlock, nr_bfree_blocks
    <3> DEFINE c == idiv_ceil(NrBlocks, BitsPerBlock)
               q == x \div BitsPerBlock
    <3>2. c \in Nat /\ q \in Nat
      BY <2>1, PersistenceAssumption, Layout, CeilingCovers, Division
    <3>3. FirstBfree + q \in FirstBfree .. FirstBfree + c - 1 /\ RootBlock = FirstBfree + c
      BY <2>2, <3>1
    <3> HIDE DEF c, q
    <3>4. FirstBfree + q \in BfreeBlocks
      BY <3>2, <3>3, Layout, SMT DEF BfreeBlocks
    <3> QED
      BY <3>4 DEF q
  <2> QED
    BY <1>1, <2>1, <2>3, Layout
<1>3. ASSUME NEW x \in 2 .. nr_inodes - 1
      PROVE  \E b \in IfreeBlocks : x \in Segment(b, FirstIfree)
  <2>1. x \in Nat /\ x < nr_inodes
    BY Layout, SMT
  <2>2. FirstIfree + (x \div BitsPerBlock)
          \in FirstIfree .. FirstIfree + idiv_ceil(nr_inodes, BitsPerBlock) - 1
    BY <1>1, <2>1, Layout
  <2>3. FirstIfree + (x \div BitsPerBlock) \in IfreeBlocks
    <3>1. FirstBfree = FirstIfree + idiv_ceil(nr_inodes, BitsPerBlock)
      BY DEF FirstBfree, nr_ifree_blocks
    <3> DEFINE c == idiv_ceil(nr_inodes, BitsPerBlock)
               q == x \div BitsPerBlock
    <3>2. c \in Nat /\ q \in Nat
      BY <2>1, PersistenceAssumption, Layout, CeilingCovers, Division
    <3>3. FirstIfree + q \in FirstIfree .. FirstIfree + c - 1 /\ FirstBfree = FirstIfree + c
      BY <2>2, <3>1
    <3> HIDE DEF c, q
    <3>4. FirstIfree + q \in IfreeBlocks
      BY <3>2, <3>3, Layout, SMT DEF IfreeBlocks
    <3> QED
      BY <3>4 DEF q
  <2> QED
    BY <1>1, <2>1, <2>3, Layout
<1> QED
  BY <1>2, <1>3

-----------------------------------------------------------------------------
(* Inode records and the blocks of a file.                                *)

\* The slots that i_blocks counts, and the blocks of a file, slot by slot.
LEMMA CountedFacts ==
    ASSUME NEW r \in InodeRecords
    PROVE  /\ Counted(r) = 0 .. r.blocks - 2
           /\ r.blocks \in Nat /\ r.blocks <= MaxEntries + 1 /\ MaxEntries \in Nat
           /\ \A k \in Slots : k \in Nat /\ k < MaxEntries
BY PersistenceAssumption, SMT DEF Counted, InodeRecords, Slots

\* The blocks of a file: its index block and those its counted slots name.
LEMMA BlocksByFacts ==
    ASSUME NEW d, NEW r \in InodeRecords
    PROVE  \A x : x \in BlocksBy(d, r) <=> x = r.ib \/ \E k \in Counted(r) : x = d[r.ib][k]
BY CountedFacts DEF BlocksBy

\* They are data blocks.
LEMMA BlocksAreData ==
    ASSUME NEW d, NEW r, Placed(r), Shaped(d, r) \/ r.blocks <= 1
    PROVE  BlocksBy(d, r) \subseteq DataBlocks
<1>1. r \in InodeRecords /\ r.ib \in DataBlocks
  BY DEF Placed
<1>2. CASE Shaped(d, r)
  BY <1>1, <1>2, BlocksByFacts, SMT DEF Shaped
<1>3. CASE r.blocks <= 1
  BY <1>1, <1>3, BlocksByFacts, CountedFacts, SMT DEF Counted
<1> QED
  BY <1>2, <1>3

\* They depend on the index block only, ...
LEMMA SameIndex ==
    ASSUME NEW d, NEW e, NEW r, e[r.ib] = d[r.ib]
    PROVE  /\ BlocksBy(e, r) = BlocksBy(d, r)
           /\ Shaped(d, r) => Shaped(e, r)
BY DEF BlocksBy, Shaped

\* ... and their contents on themselves.
LEMMA SameContents ==
    ASSUME NEW d, NEW e, NEW r \in InodeRecords, NEW i, NEW x, Contents(d, i, r, x),
           \A b \in BlocksBy(d, r) : e[b] = d[b]
    PROVE  Contents(e, i, r, x)
<1>1. r.ib \in BlocksBy(d, r) /\ \A k \in Counted(r) : d[r.ib][k] \in BlocksBy(d, r)
  BY BlocksByFacts
<1> QED
  BY <1>1 DEF Contents

\* Records in memory, in the store and on disk are records.
LEMMA RecordTypes ==
    ASSUME Types, NEW i \in Files
    PROVE  /\ Iget(i) \in InodeRecords /\ OnDisk(i) \in InodeRecords
           /\ core[i] \in InodeRecords /\ buf[InodeBlock(i)][i] \in InodeRecords
<1>1. InodeBlock(i) \in IstoreBlocks /\ i \in InodesIn(InodeBlock(i))
  BY StoreHolds
<1>2. BlockType(InodeBlock(i), buf[InodeBlock(i)]) /\ BlockType(InodeBlock(i), disk[InodeBlock(i)])
  BY <1>1, Regions DEF Types, WellFormed
<1>3. buf[InodeBlock(i)][i] \in InodeRecords /\ disk[InodeBlock(i)][i] \in InodeRecords
  BY <1>1, <1>2 DEF BlockType
<1> QED
  BY <1>3 DEF Types, Iget, OnDisk

\* What an active file has.
LEMMA ActiveFacts ==
    ASSUME Types, NEW i \in Files, FileInv(i), Active(i)
    PROVE  /\ Iget(i) \in InodeRecords /\ Iget(i).ib \in DataBlocks /\ Iget(i).ib \in Own(i)
           /\ Own(i) \subseteq DataBlocks
           /\ Own(i) \cap sbi.bfree = {} /\ i \notin sbi.ifree
           /\ Laid(i) /\ Kept(i) /\ InUse(i)
<1>1. Laid(i) /\ Kept(i) /\ InUse(i)
  BY DEF FileInv
<1>2. Placed(Iget(i)) /\ (Shaped(buf, Iget(i)) \/ Iget(i).blocks <= 1)
  <2>1. Iget(i).blocks = 1 => Iget(i).blocks <= 1
    BY SMT
  <2> QED
    BY <1>1, <2>1 DEF Laid
<1>3. Own(i) \subseteq DataBlocks
  BY <1>2, BlocksAreData DEF Own
<1>4. Iget(i) \in InodeRecords /\ Iget(i).ib \in DataBlocks
  BY <1>2 DEF Placed
<1>5. Iget(i).ib \in Own(i)
  BY <1>4, BlocksByFacts DEF Own
<1> QED
  BY <1>1, <1>3, <1>4, <1>5 DEF Kept

\* A file that nobody works on is as good as its inode, its index block and its
\* blocks: none of them changes, and it stays what it was.
LEMMA SameOwn ==
    ASSUME NEW i, Iget(i)' = Iget(i), buf'[Iget(i).ib] = buf[Iget(i).ib]
    PROVE  Own(i)' = Own(i)
BY SameIndex, SMT DEF Own

-----------------------------------------------------------------------------
(* The steps of operations.  A step of an operation on file j changes that *)
(* file and some blocks X that are its own or free; the other files keep   *)
(* their invariants.                                                       *)

\* The blocks that file j has before the step.
Mine(j) == IF Active(j) THEN Own(j) ELSE {}

OpFrame(j, X) ==
    /\ X \subseteq DataBlocks
    /\ \A b \in Blocks \ X : /\ b # RootBlock => buf'[b] = buf[b]
                             /\ disk'[b] = disk[b]
                             /\ b \in dirty => b \in dirty'
    /\ buf'[RootBlock] = buf[RootBlock] \/ RootBlock \in dirty'
    /\ \A i \in Files \ {j} :
        /\ i \in buf'[RootBlock] <=> i \in buf[RootBlock]
        /\ core'[i] = core[i]
        /\ i \in incore' <=> i \in incore
        /\ i \in idirty' <=> i \in idirty
        /\ i \in lossy' <=> i \in lossy
        /\ i \in safe' => i \in safe
        /\ sync # NoSync /\ i \in touched => i \in touched'
        /\ i \in sbi'.ifree => i \in sbi.ifree
    /\ sbi'.bfree \subseteq sbi.bfree \cup X
    /\ op.ino \in {0, j} /\ op'.ino \in {0, j}
    /\ sync'.stage = sync.stage
    /\ sync.stage = "inodes" => \A i \in Files \ {j} : i \in sync.todo => i \in sync'.todo
    /\ sync.stage = "fs" => sync' = sync
    /\ sync.stage = "bdev" => \A b \in Blocks \ X : b \in sync.todo => b \in sync'.todo
    /\ mount = "up" /\ mount' = mount /\ crashed' = crashed /\ lossy \subseteq lossy'

\* The step takes and returns what the file gains and loses.
Balanced(j) ==
    ~crashed /\ lossy' = {} =>
        /\ \A b \in DataBlocks :
            b \in sbi'.bfree <=> (b \in sbi.bfree \/ b \in Mine(j)) /\ b \notin Mine(j)'
        /\ \A i \in 2 .. nr_inodes - 1 : i # j => (i \in sbi'.ifree <=> i \in sbi.ifree)
        /\ j \in sbi'.ifree <=> ~Active(j)'

\* Another file has the inode and the blocks it had.
LEMMA FrameOwn ==
    ASSUME Types, NEW j \in Files, NEW X, OpFrame(j, X), NEW i \in Files, i # j,
           FileInv(i), Active(i) => X \cap Own(i) = {}
    PROVE  /\ Active(i)' <=> Active(i)
           /\ Active(i) => /\ Iget(i)' = Iget(i) /\ Own(i)' = Own(i)
                           /\ \A b \in Own(i) : buf'[b] = buf[b] /\ disk'[b] = disk[b]
           /\ OnDisk(i)' = OnDisk(i) /\ buf'[InodeBlock(i)] = buf[InodeBlock(i)]
<1>1. op.ino # i /\ op'.ino # i
  BY StoreHolds DEF OpFrame
<1>2. Active(i)' <=> Active(i)
  BY <1>1 DEF Active, OpFrame
<1>3. InodeBlock(i) \in Blocks /\ InodeBlock(i) # RootBlock /\ InodeBlock(i) \notin X
  BY StoreHolds, Regions DEF OpFrame
<1>4. /\ buf'[InodeBlock(i)] = buf[InodeBlock(i)]
      /\ disk'[InodeBlock(i)] = disk[InodeBlock(i)]
  BY <1>3 DEF OpFrame
<1>5. OnDisk(i)' = OnDisk(i) /\ Iget(i)' = Iget(i)
  BY <1>4 DEF OnDisk, Iget, OpFrame
<1>6. ASSUME Active(i), NEW b \in Own(i) PROVE buf'[b] = buf[b] /\ disk'[b] = disk[b]
  <2>1. b \in DataBlocks /\ b \notin X
    BY <1>6, ActiveFacts
  <2> QED
    BY <2>1, Regions DEF OpFrame
<1>7. ASSUME Active(i) PROVE Own(i)' = Own(i)
  BY <1>5, <1>6, <1>7, ActiveFacts, SameOwn
<1> QED
  BY <1>2, <1>4, <1>5, <1>6, <1>7

\* It is still well laid out, not free and covered.
LEMMA FrameFile ==
    ASSUME Types, NEW j \in Files, NEW X, OpFrame(j, X), NEW i \in Files, i # j,
           FileInv(i), Active(i) => X \cap Own(i) = {}
    PROVE  FileInv(i)'
<1> SUFFICES ASSUME Active(i)' PROVE Laid(i)' /\ Kept(i)' /\ InUse(i)'
  BY DEF FileInv
<1>1. /\ Active(i) /\ Iget(i)' = Iget(i) /\ Own(i)' = Own(i) /\ X \cap Own(i) = {}
      /\ \A b \in Own(i) : buf'[b] = buf[b] /\ disk'[b] = disk[b]
      /\ buf'[InodeBlock(i)] = buf[InodeBlock(i)]
  BY FrameOwn
<1>2. op.ino # i /\ op'.ino # i
  BY StoreHolds DEF OpFrame
<1>3. Iget(i) \in InodeRecords /\ Iget(i).ib \in Own(i) /\ Own(i) \subseteq DataBlocks
      /\ Laid(i) /\ Kept(i)
  BY <1>1, ActiveFacts
<1>4. Laid(i)'
  <2>1. Placed(Iget(i)) /\ Shaped(buf, Iget(i)) /\ Contents(buf, i, Iget(i), 0)
    BY <1>2, <1>3 DEF Laid, Using, Unwritten
  <2>2. Shaped(buf', Iget(i))
    BY <1>1, <1>3, <2>1, SameIndex
  <2>3. Contents(buf', i, Iget(i), 0)
    BY <1>1, <1>3, <2>1, SameContents DEF Own
  <2> QED
    BY <1>1, <1>2, <2>1, <2>2, <2>3 DEF Laid, Using, Unwritten
<1>5. Kept(i)'
  <2>1. Own(i) \cap sbi'.bfree = {}
    BY <1>1, <1>3 DEF Kept, OpFrame
  <2>2. i \notin sbi'.ifree
    BY <1>3 DEF Kept, OpFrame
  <2>3. \A b \in Own(i) : b \in dirty' \/ buf'[b] = disk'[b]
    <3>1. \A b \in Own(i) : b \in dirty \/ buf[b] = disk[b]
      BY <1>2, <1>3 DEF Kept, Loose, Using
    <3>2. \A b \in Own(i) : b \in Blocks /\ b \notin X
      BY <1>1, <1>3, Regions
    <3> QED
      BY <1>1, <3>1, <3>2 DEF OpFrame
  <2>4. i \notin lossy' /\ i \in incore' \ idirty' => core'[i] = buf'[InodeBlock(i)][i]
    BY <1>1, <1>2, <1>3 DEF Kept, OpFrame
  <2> QED
    BY <1>1, <1>2, <2>1, <2>2, <2>3, <2>4 DEF Kept
<1>6. InUse(i)'
  BY <1>2 DEF InUse, Using
<1> QED
  BY <1>4, <1>5, <1>6

\* A safe file stays safe.
LEMMA FrameSafe ==
    ASSUME Types, NEW j \in Files, NEW X, OpFrame(j, X), NEW i \in Files, i # j,
           FileInv(i), Active(i) => X \cap Own(i) = {}, i \notin lossy, SafeInv(i)
    PROVE  SafeInv(i)'
<1>1. op.ino # i /\ op'.ino # i
  BY StoreHolds DEF OpFrame
<1>2. RootBlock \in Blocks \ X /\ \A b \in SyncBlocks : b \in Blocks \ X /\ b # RootBlock
  BY Regions DEF OpFrame
<1>3. disk'[RootBlock] = disk[RootBlock] /\ (i \in buf'[RootBlock] <=> i \in buf[RootBlock])
  BY <1>2 DEF OpFrame
<1>4. i \in disk'[RootBlock] <=> i \in buf'[RootBlock]
  BY <1>3 DEF SafeInv
<1>5. ASSUME i \in buf[RootBlock]
      PROVE  /\ i \in incore' => core'[i] = OnDisk(i)'
             /\ \A b \in Own(i)' : buf'[b] = disk'[b]
             /\ UsedIn(i, Own(i)', buf') /\ UsedIn(i, Own(i)', disk')
  <2>1. Active(i)
    BY <1>1, <1>5 DEF Active
  <2>2. /\ Own(i)' = Own(i) /\ OnDisk(i)' = OnDisk(i)
        /\ \A b \in Own(i) : buf'[b] = buf[b] /\ disk'[b] = disk[b]
    BY <2>1, FrameOwn
  <2>3. /\ i \in incore => core[i] = OnDisk(i)
        /\ \A b \in Own(i) : buf[b] = disk[b]
        /\ UsedIn(i, Own(i), buf) /\ UsedIn(i, Own(i), disk)
    BY <1>5 DEF SafeInv
  <2>4. UsedIn(i, Own(i), buf') /\ UsedIn(i, Own(i), disk')
    <3>1. \A b \in BfreeBlocks \cup IfreeBlocks : buf'[b] = buf[b] /\ disk'[b] = disk[b]
      BY <1>2, Regions DEF OpFrame
    <3> QED
      BY <2>3, <3>1 DEF UsedIn
  <2> QED
    BY <2>2, <2>3, <2>4 DEF OpFrame
<1> QED
  BY <1>3, <1>4, <1>5 DEF SafeInv

\* Sync loses nothing of a file that nobody touched.
LEMMA FrameSync ==
    ASSUME Types, NEW j \in Files, NEW X, OpFrame(j, X), NEW i \in Files, i # j,
           FileInv(i), Active(i) => X \cap Own(i) = {}, i \notin lossy, SyncInv(i)
    PROVE  SyncInv(i)'
<1>1. op.ino # i /\ op'.ino # i
  BY StoreHolds DEF OpFrame
<1>2. RootBlock \in Blocks \ X /\ \A b \in SyncBlocks : b \in Blocks \ X /\ b # RootBlock
  BY Regions DEF OpFrame
<1>3. disk'[RootBlock] = disk[RootBlock] /\ (i \in buf'[RootBlock] <=> i \in buf[RootBlock])
  BY <1>2 DEF OpFrame
<1>4. sync'.stage = "bdev" =>
        RootBlock \in sync'.todo \/ (i \in disk'[RootBlock] <=> i \in buf'[RootBlock])
  BY <1>2, <1>3 DEF SyncInv, OpFrame
<1>5. ASSUME i \in buf[RootBlock]
      PROVE  /\ i \in idirty' => sync'.stage = "inodes" /\ i \in sync'.todo
             /\ UsedIn(i, Own(i)', buf')
             /\ \A b \in BfreeBlocks : Passed(b)' => Own(i)' \cap disk'[b] = {}
             /\ \A b \in IfreeBlocks : Passed(b)' => i \notin disk'[b]
             /\ sync'.stage = "bdev" =>
                  \A b \in Own(i)' : b \in sync'.todo \/ buf'[b] = disk'[b]
  <2>1. Active(i)
    BY <1>1, <1>5 DEF Active
  <2>2. /\ Own(i)' = Own(i) /\ X \cap Own(i) = {}
        /\ \A b \in Own(i) : buf'[b] = buf[b] /\ disk'[b] = disk[b]
    BY <2>1, FrameOwn
  <2>3. /\ i \in idirty => sync.stage = "inodes" /\ i \in sync.todo
        /\ UsedIn(i, Own(i), buf)
        /\ \A b \in BfreeBlocks : Passed(b) => Own(i) \cap disk[b] = {}
        /\ \A b \in IfreeBlocks : Passed(b) => i \notin disk[b]
        /\ sync.stage = "bdev" => \A b \in Own(i) : b \in sync.todo \/ buf[b] = disk[b]
    BY <1>5 DEF SyncInv
  <2>4. \A b \in BfreeBlocks \cup IfreeBlocks : buf'[b] = buf[b] /\ disk'[b] = disk[b]
    BY <1>2, Regions DEF OpFrame
  <2>5. UsedIn(i, Own(i), buf')
    BY <2>3, <2>4 DEF UsedIn
  <2>6. i \in idirty' => sync'.stage = "inodes" /\ i \in sync'.todo
    BY <2>3 DEF OpFrame
  <2>7. \A b : Passed(b)' => Passed(b)
    BY DEF Passed, OpFrame
  <2>8. sync'.stage = "bdev" => \A b \in Own(i) : b \in sync'.todo \/ buf'[b] = disk'[b]
    <3>1. \A b \in Own(i) : b \in Blocks \ X
      BY <2>1, <2>2, ActiveFacts, Regions
    <3> QED
      BY <2>2, <2>3, <3>1, SMT DEF OpFrame
  <2> QED
    BY <2>2, <2>3, <2>4, <2>5, <2>6, <2>7, <2>8
<1> QED
  BY <1>3, <1>4, <1>5 DEF SyncInv

\* Active files do not share blocks, neither with each other nor with the list
\* of free ones, so that the blocks of one operation are none of another file.
LEMMA MineIsNotYours ==
    ASSUME Types, UpInv, NEW j \in Files, NEW X, X \subseteq Mine(j) \cup sbi.bfree,
           NEW i \in Files, i # j, Active(i)
    PROVE  X \cap Own(i) = {}
<1>1. FileInv(i) /\ Disjoint
  BY DEF UpInv
<1>2. Own(i) \cap sbi.bfree = {}
  BY <1>1, ActiveFacts
<1>3. Mine(j) \cap Own(i) = {}
  BY <1>1 DEF Disjoint, Mine
<1> QED
  BY <1>2, <1>3

\* An operation's step keeps the invariant if it keeps that of its own file.
LEMMA OperationKeeps ==
    ASSUME Types, Types', UpInv, NEW j \in Files, NEW X, OpFrame(j, X),
           X \subseteq Mine(j) \cup sbi.bfree,
           Mine(j)' \subseteq Mine(j) \cup sbi.bfree,
           FileInv(j)', OpListed', j \notin safe', sync # NoSync => j \in touched',
           CountersExact', Balanced(j)
    PROVE  UpInv'
<1>1. \A i \in Files : FileInv(i)
  BY DEF UpInv
<1>2. ASSUME NEW i \in Files, i # j PROVE Active(i) => X \cap Own(i) = {}
  BY <1>2, MineIsNotYours
<1>3. \A i \in Files : FileInv(i)'
  BY <1>1, <1>2, FrameFile
<1>4. \A i \in Files : i # j =>
        (Active(i)' <=> Active(i)) /\ (Active(i) => Own(i)' = Own(i))
  BY <1>1, <1>2, FrameOwn
<1>5. Disjoint'
  <2>1. ASSUME NEW i \in Files, i # j, Active(i) PROVE Mine(j)' \cap Own(i) = {}
    BY <2>1, MineIsNotYours
  <2>2. ASSUME NEW i \in Files, NEW k \in Files, i # k, Active(i)', Active(k)'
        PROVE  Own(i)' \cap Own(k)' = {}
    <3>1. CASE i = j
      BY <1>4, <2>1, <2>2, <3>1 DEF Mine
    <3>2. CASE k = j
      BY <1>4, <2>1, <2>2, <3>2 DEF Mine
    <3>3. CASE i # j /\ k # j
      BY <1>4, <2>2, <3>3 DEF UpInv, Disjoint
    <3> QED
      BY <3>1, <3>2, <3>3
  <2> QED
    BY <2>2 DEF Disjoint
<1>6. Cover'
  <2>1. Cover
    BY DEF UpInv
  <2>2. ASSUME NEW b \in 0 .. RootBlock PROVE b \in dirty' \/ buf'[b] = disk'[b]
    <3>1. b \in Blocks \ X
      BY Regions DEF OpFrame
    <3> QED
      BY <2>1, <3>1 DEF Cover, OpFrame
  <2>3. ASSUME NEW b \in IstoreBlocks PROVE buf'[b] = disk'[b]
    <3>1. b \in Blocks \ X /\ b # RootBlock
      BY Regions DEF OpFrame
    <3> QED
      BY <2>1, <3>1 DEF Cover, OpFrame
  <2> QED
    BY <2>2, <2>3 DEF Cover
<1>7. \A i \in safe' \ lossy' : SafeInv(i)'
  <2> SUFFICES ASSUME NEW i \in safe' \ lossy' PROVE SafeInv(i)'
    OBVIOUS
  <2>1. i \in Files /\ i # j /\ i \in safe \ lossy
    BY DEF Types, OpFrame
  <2>2. SafeInv(i)
    BY <2>1 DEF UpInv
  <2> QED
    BY <1>1, <1>2, <2>1, <2>2, FrameSafe
<1>8. sync' # NoSync => sync # NoSync
  BY SMT DEF OpFrame, Types, SyncType, NoSync
<1>9. ASSUME sync' # NoSync PROVE \A i \in Synced' : SyncInv(i)'
  <2> SUFFICES ASSUME NEW i \in Synced' PROVE SyncInv(i)'
    OBVIOUS
  <2>1. i \in Files /\ i # j /\ i \in Synced
    BY <1>8, <1>9 DEF Synced, OpFrame
  <2>2. SyncInv(i) /\ i \notin lossy
    BY <1>8, <1>9, <2>1 DEF UpInv, Synced
  <2> QED
    BY <1>1, <1>2, <2>1, <2>2, FrameSync
<1>10. op'.ino \notin safe' /\ (sync' # NoSync => op'.ino \notin Files \ touched')
  <2>1. 0 \notin Files
    BY StoreHolds
  <2> QED
    BY <1>8, <2>1 DEF OpFrame, Synced, Types
<1>11. BitmapsExact'
  <2> SUFFICES ASSUME ~crashed, lossy' = {}
               PROVE  /\ \A b \in DataBlocks : b \in sbi'.bfree <=>
                           ~ \E i \in Files : Active(i)' /\ b \in Own(i)'
                      /\ \A i \in 2 .. nr_inodes - 1 :
                           i \in sbi'.ifree <=> ~(i \in Files /\ Active(i)')
    BY DEF BitmapsExact, OpFrame
  <2>1. lossy = {} /\ BitmapsExact
    BY DEF OpFrame, UpInv
  <2>2. ASSUME NEW b \in DataBlocks
        PROVE  b \in sbi'.bfree <=> ~ \E i \in Files : Active(i)' /\ b \in Own(i)'
    <3>1. b \in sbi.bfree <=> ~ \E i \in Files : Active(i) /\ b \in Own(i)
      BY <2>1 DEF BitmapsExact
    <3>2. b \in sbi'.bfree <=> (b \in sbi.bfree \/ b \in Mine(j)) /\ b \notin Mine(j)'
      BY DEF Balanced
    <3>3. CASE b \in Mine(j)'
      BY <3>2, <3>3 DEF Mine
    <3>4. CASE b \notin Mine(j)' /\ b \in Mine(j)
      <4>1. \A i \in Files : i # j /\ Active(i) => b \notin Own(i)
        BY <3>4, MineIsNotYours
      <4> QED
        BY <1>4, <3>2, <3>4, <4>1 DEF Mine
    <3>5. CASE b \notin Mine(j)' /\ b \notin Mine(j)
      BY <1>4, <3>1, <3>2, <3>5 DEF Mine
    <3> QED
      BY <3>3, <3>4, <3>5
  <2>3. ASSUME NEW i \in 2 .. nr_inodes - 1
        PROVE  i \in sbi'.ifree <=> ~(i \in Files /\ Active(i)')
    BY <1>4, <2>1 DEF Balanced, BitmapsExact
  <2> QED
    BY <2>2, <2>3
<1>12. UnmountInv'
  BY DEF UnmountInv, OpFrame
<1> QED
  BY <1>3, <1>5, <1>6, <1>7, <1>9, <1>10, <1>11, <1>12 DEF UpInv

\* Images after a change of one block, or of several.
LEMMA ExceptType ==
    ASSUME NEW d, WellFormed(d), NEW b \in Blocks, NEW v, BlockType(b, v)
    PROVE  WellFormed([d EXCEPT ![b] = v])
BY DEF WellFormed

\* An image stays well formed when every block keeps its contents or gets
\* contents of its type.
LEMMA MixedType ==
    ASSUME NEW d, WellFormed(d), NEW e, DOMAIN e = Blocks,
           \A b \in Blocks : e[b] = d[b] \/ BlockType(b, e[b])
    PROVE  WellFormed(e)
BY DEF WellFormed

\* What operations put into data blocks and into the directory.
LEMMA ValueTypes ==
    ASSUME NEW b \in DataBlocks
    PROVE  /\ BlockType(b, Zero)
           /\ \A i \in Files : BlockType(b, DataOf(i))
           /\ \A v, k : \A n \in DataBlocks \cup {0} :
                BlockType(b, v) => BlockType(b, [v EXCEPT ![k] = n])
<1> DEFINE V == -MaxFiles - 1 .. NrBlocks - 1
<1>1. b # SuperBlock /\ b \notin IstoreBlocks /\ b \notin IfreeBlocks /\ b \notin BfreeBlocks
      /\ b # RootBlock
  BY Regions
<1>2. \A v : BlockType(b, v) <=> v \in [Slots -> V]
  BY <1>1 DEF BlockType
<1>3. 0 \in V /\ (\A i \in Files : -i \in V) /\ \A n \in DataBlocks : n \in V
  BY Layout, SMT DEF Files, DataBlocks
<1> HIDE DEF V
<1>4. Zero \in [Slots -> V] /\ \A i \in Files : DataOf(i) \in [Slots -> V]
  BY <1>3 DEF Zero, DataOf
<1> QED
  BY <1>2, <1>3, <1>4

\* The root directory lists files.
LEMMA RootTypes ==
    ASSUME NEW S
    PROVE  BlockType(RootBlock, S) <=> S \subseteq Files
BY Regions DEF BlockType

\* No operation is in progress, and nobody works on a file.
LEMMA IdleFacts ==
    ASSUME op = NoOp
    PROVE  /\ op.ino = 0 /\ op.step = "idle" /\ op.call = "none"
           /\ \A i \in Files : op.ino # i /\ (Active(i) <=> i \in buf[RootBlock] /\ i \notin lossy)
BY StoreHolds DEF NoOp, Active

\* The file that an operation works on.
LEMMA WorkFacts ==
    ASSUME Types, UpInv, NEW j \in Files, op.ino = j, op.step # "drop"
    PROVE  /\ Active(j) /\ FileInv(j) /\ j \in incore /\ Iget(j) = core[j] /\ Mine(j) = Own(j)
           /\ j \notin safe /\ (sync # NoSync => j \in touched)
           /\ core[j] \in InodeRecords /\ core[j].ib \in DataBlocks /\ core[j].ib \in Own(j)
           /\ Own(j) \subseteq DataBlocks /\ Own(j) \cap sbi.bfree = {} /\ j \notin sbi.ifree
           /\ Laid(j) /\ Kept(j) /\ InUse(j)
<1>1. Active(j) /\ FileInv(j)
  BY DEF Active, UpInv
<1>2. j \in incore
  BY <1>1 DEF FileInv, InUse
<1>3. Iget(j) = core[j]
  BY <1>2 DEF Iget
<1>4. j \notin safe /\ (sync # NoSync => j \in touched)
  BY DEF UpInv, Synced
<1> QED
  BY <1>1, <1>2, <1>3, <1>4, ActiveFacts DEF Mine

\* Somebody wrote x, which may be on sync's list.
LEMMA DoneFacts ==
    ASSUME Types, NEW s, NEW x, Done(s, x), s # "fs"
    PROVE  /\ SyncType' /\ sync'.stage = sync.stage
           /\ \A y : y # x /\ y \in sync.todo => y \in sync'.todo
           /\ sync.stage # s => sync' = sync
           /\ sync.stage = s => x \notin sync'.todo
           /\ sync'.todo \subseteq sync.todo
           /\ sync = NoSync <=> sync' = NoSync
<1>1. SyncType
  BY DEF Types
<1>2. CASE sync.stage # s
  BY <1>1, <1>2 DEF Done, SyncType
<1>3. CASE sync.stage = s
  <2>1. sync' = [stage |-> sync.stage, todo |-> sync.todo \ {x}]
    BY <1>1, <1>3 DEF Done, SyncType
  <2>2. sync \in [stage : {"idle", "inodes", "fs", "bdev"}, todo : SUBSET (Blocks \cup Files)]
    BY <1>1 DEF SyncType
  <2>3. sync' \in [stage : {"idle", "inodes", "fs", "bdev"}, todo : SUBSET (Blocks \cup Files)]
    BY <2>1, <2>2
  <2>4. sync.stage = "idle" => sync = NoSync
    BY <1>1 DEF SyncType
  <2>5. sync.stage = "idle" => sync' = NoSync
    BY <2>1, <2>4, SMT DEF NoSync
  <2>6. sync = NoSync <=> sync' = NoSync
    BY <2>1, <2>4, <2>5, SMT DEF NoSync
  <2> QED
    BY <1>3, <2>1, <2>3, <2>5, <2>6 DEF SyncType
<1> QED
  BY <1>2, <1>3

\* The second step of ouichefs_create scrubs the index block and adds the
\* entry.
LEMMA CreateRegisterKeeps ==
    ASSUME Types, UpInv, CreateRegister
    PROVE  Types' /\ UpInv'
<1>1. PICK j \in Files : j = op.ino
  BY SMT DEF Types, OpType, CreateRegister, At, NoOp
<1>2. op.step = "register" /\ op.call = "create" /\ mount = "up"
  BY DEF CreateRegister, At
<1>3. PICK c \in DataBlocks : c = core[j].ib
  BY <1>1, <1>2, WorkFacts
<1>4. /\ buf' = [buf EXCEPT ![c] = Zero, ![RootBlock] = @ \cup {j}]
      /\ dirty' = dirty \cup {c, RootBlock}
      /\ idirty' = idirty \cup {j}
      /\ op' = NoOp
      /\ UNCHANGED <<disk, sbi, core, incore, mount, sync, crashed, safe, touched, lossy>>
  BY <1>1, <1>3 DEF CreateRegister, history
<1>5. c \in Blocks /\ RootBlock \in Blocks /\ c # RootBlock /\ DOMAIN buf = Blocks
      /\ c \notin IstoreBlocks /\ RootBlock \notin IstoreBlocks
  BY Regions DEF Types, WellFormed
<1>6. /\ buf'[c] = Zero /\ buf'[RootBlock] = buf[RootBlock] \cup {j}
      /\ \A b \in Blocks : b # c /\ b # RootBlock => buf'[b] = buf[b]
      /\ DOMAIN buf' = Blocks
  BY <1>4, <1>5
<1>7. /\ Active(j) /\ FileInv(j) /\ j \in incore /\ Iget(j) = core[j] /\ Mine(j) = Own(j)
      /\ j \notin safe /\ (sync # NoSync => j \in touched)
      /\ core[j] \in InodeRecords /\ Own(j) \cap sbi.bfree = {} /\ j \notin sbi.ifree
      /\ Laid(j)
  BY <1>1, <1>2, WorkFacts
<1>8. Types'
  <2>1. BlockType(RootBlock, buf[RootBlock] \cup {j})
    BY <1>5, RootTypes DEF Types, WellFormed
  <2>2. WellFormed(buf')
    BY <1>6, <2>1, ValueTypes, MixedType DEF Types
  <2> QED
    BY <1>4, <1>5, <1>7, <2>2, SMTT(30) DEF Types, OpType, SyncType, SbiType
<1>9. OpFrame(j, {c})
  BY <1>1, <1>2, <1>4, <1>6 DEF OpFrame, NoOp
<1>10. op'.ino # j /\ (Active(j)' <=> j \notin lossy)
  BY <1>4, <1>6, StoreHolds DEF Active, NoOp
<1>11. Iget(j)' = core[j] /\ core[j].blocks = 1
  <2>1. core[j].blocks = 1
    BY <1>1, <1>2, <1>7 DEF Laid, Using
  <2> QED
    BY <1>4, <1>7, <2>1 DEF Iget
<1>12. Own(j) = {c} /\ Own(j)' = {c}
  BY <1>3, <1>7, <1>11, SMT DEF Own, BlocksBy
<1>13. FileInv(j)'
  <2>1. Placed(core[j])
    BY <1>3, <1>7 DEF Placed
  <2>2. Counted(core[j]) = {}
    BY <1>7, <1>11, CountedFacts, SMTT(30) DEF Counted
  <2>3. Shaped(buf', core[j]) /\ Contents(buf', j, core[j], 0)
    BY <1>3, <1>6, <2>2 DEF Shaped, Contents, Zero
  <2>4. Laid(j)'
    BY <1>10, <1>11, <2>1, <2>3 DEF Laid, Using, Unwritten
  <2>5. Kept(j)'
    BY <1>4, <1>7, <1>10, <1>12 DEF Kept
  <2>6. InUse(j)'
    BY <1>10 DEF InUse, Using
  <2> QED
    BY <2>4, <2>5, <2>6 DEF FileInv
<1>14. OpListed'
  BY <1>4 DEF OpListed, NoOp
<1>15. CountersExact'
  BY <1>4 DEF CountersExact, UpInv
<1>16. Balanced(j)
  BY <1>4, <1>7, <1>10, <1>12 DEF Balanced, Mine
<1> QED
  BY <1>4, <1>7, <1>8, <1>9, <1>12, <1>13, <1>14, <1>15, <1>16, OperationKeeps DEF Mine

\* The last step of a write or a defragmentation writes the index block.  It
\* marks the inode dirty, or has done so before, or the change is lost.
LEMMA IndexWritten ==
    ASSUME Types, UpInv, NEW j \in Files, op.ino = j, op.step \in {"data", "index"},
           mount = "up", NEW c, c = core[j].ib,
           disk' = [disk EXCEPT ![c] = buf[c]], dirty' = dirty \ {c}, Done("bdev", c),
           op' = NoOp,
           UNCHANGED <<buf, sbi, core, incore, mount, crashed, safe, touched>>,
           idirty' \in {idirty, idirty \cup {j}}, lossy' \in {lossy, lossy \cup {j}},
           \/ j \in lossy'
           \/ op.step = "index" /\ (j \in idirty' \/ op.call = "defrag")
    PROVE  Types' /\ UpInv'
<1>1. /\ Active(j) /\ FileInv(j) /\ j \in incore /\ Iget(j) = core[j] /\ Mine(j) = Own(j)
      /\ j \notin safe /\ (sync # NoSync => j \in touched)
      /\ core[j] \in InodeRecords /\ c \in DataBlocks /\ c \in Own(j)
      /\ Own(j) \cap sbi.bfree = {} /\ j \notin sbi.ifree
      /\ Laid(j) /\ Kept(j)
  BY WorkFacts
<1>2. c \in Blocks /\ c # RootBlock /\ DOMAIN buf = Blocks /\ DOMAIN disk = Blocks
  BY <1>1, Regions DEF Types, WellFormed
<1>3. disk'[c] = buf[c] /\ (\A b \in Blocks : b # c => disk'[b] = disk[b]) /\ DOMAIN disk' = Blocks
  BY <1>2
<1>4. /\ SyncType' /\ sync'.stage = sync.stage
      /\ \A y : y # c /\ y \in sync.todo => y \in sync'.todo
      /\ sync.stage # "bdev" => sync' = sync
  BY DoneFacts
<1>5. Types'
  <2>1. WellFormed(disk')
    BY <1>2, <1>3, MixedType DEF Types, WellFormed
  <2> QED
    BY <1>1, <1>4, <2>1 DEF Types, OpType, SbiType
<1>6. OpFrame(j, {c})
  BY <1>1, <1>3, <1>4 DEF OpFrame, NoOp
<1>7. j \in buf[RootBlock]
  BY DEF UpInv, OpListed
<1>8. op'.ino # j /\ (Active(j)' <=> j \notin lossy')
  BY <1>7, StoreHolds DEF Active, NoOp
<1>9. Iget(j)' = core[j] /\ Own(j)' = Own(j)
  BY <1>1 DEF Iget, Own
<1>10. FileInv(j)'
  <2> SUFFICES ASSUME j \notin lossy' PROVE Laid(j)' /\ Kept(j)' /\ InUse(j)'
    BY <1>8 DEF FileInv
  <2>1. op.step = "index" /\ (j \in idirty' \/ op.call = "defrag") /\ j \notin lossy
    OBVIOUS
  <2>2. Laid(j)'
    BY <1>1, <1>8, <1>9, <2>1 DEF Laid, Using, Unwritten
  <2>3. \A b \in Own(j) : b \in dirty' \/ buf[b] = disk'[b]
    <3>1. \A b \in Own(j) : b = c \/ b \in dirty \/ buf[b] = disk[b]
      BY <1>1, <2>1 DEF Kept, Loose, Using
    <3>2. \A b \in Own(j) : b \in Blocks
      BY WorkFacts, Regions
    <3> QED
      BY <1>3, <3>1, <3>2
  <2>4. Kept(j)'
    BY <1>1, <1>8, <1>9, <2>1, <2>3, SMTT(30) DEF Kept
  <2>5. InUse(j)'
    BY <1>8 DEF InUse, Using
  <2> QED
    BY <2>2, <2>4, <2>5
<1>11. OpListed'
  BY DEF OpListed, NoOp
<1>12. CountersExact'
  BY DEF CountersExact, UpInv
<1>13. Balanced(j)
  BY <1>1, <1>8, <1>9 DEF Balanced, Mine
<1>14. {c} \subseteq Mine(j) \cup sbi.bfree /\ Mine(j)' \subseteq Mine(j) \cup sbi.bfree
  BY <1>1, <1>9 DEF Mine
<1> QED
  BY <1>1, <1>5, <1>6, <1>10, <1>11, <1>12, <1>13, <1>14, OperationKeeps

\* The last steps of ouichefs_write and ouichefs_defrag, and a write that wrote
\* nothing.
LEMMA LastStepsKeep ==
    ASSUME Types, UpInv, WriteIndex \/ WriteNothing \/ DefragIndex
    PROVE  Types' /\ UpInv'
<1>1. PICK j \in Files : j = op.ino
  BY SMT DEF Types, OpType, WriteIndex, WriteNothing, DefragIndex, At, NoOp
<1>2. CASE WriteIndex
  BY <1>1, <1>2, IndexWritten DEF WriteIndex, At, history
<1>3. CASE WriteNothing
  BY <1>1, <1>3, IndexWritten DEF WriteNothing, At, memory
<1>4. CASE DefragIndex
  BY <1>1, <1>4, IndexWritten DEF DefragIndex, At, memory, history
<1> QED
  BY <1>2, <1>3, <1>4

\* The second step of a write: the data block is written.
LEMMA WriteDataKeeps ==
    ASSUME Types, UpInv, WriteData
    PROVE  Types' /\ UpInv'
<1>1. PICK j \in Files : j = op.ino
  BY SMT DEF Types, OpType, WriteData, At, NoOp
<1>2. op.step = "data" /\ op.call = "write" /\ mount = "up"
  BY DEF WriteData, At
<1>3. /\ Active(j) /\ FileInv(j) /\ j \in incore /\ Iget(j) = core[j] /\ Mine(j) = Own(j)
      /\ j \notin safe /\ (sync # NoSync => j \in touched)
      /\ core[j] \in InodeRecords /\ Own(j) \subseteq DataBlocks
      /\ Own(j) \cap sbi.bfree = {} /\ j \notin sbi.ifree
      /\ Laid(j) /\ Kept(j) /\ InUse(j)
  BY <1>1, <1>2, WorkFacts
<1>4. PICK n \in DataBlocks : n = op.bno /\ n \in Own(j) /\ n # core[j].ib
  BY <1>1, <1>2, <1>3 DEF InUse, Using
<1>5. /\ buf' = [buf EXCEPT ![n] = DataOf(j)] /\ dirty' = dirty \ {n}
      /\ disk' = [disk EXCEPT ![n] = buf'[n]] /\ Done("bdev", n)
      /\ op' = [op EXCEPT !.step = "index"]
      /\ UNCHANGED <<sbi, core, incore, idirty, mount, crashed, safe, touched, lossy>>
  BY <1>1, <1>4 DEF WriteData, memory, history
<1>6. n \in Blocks /\ n # RootBlock /\ DOMAIN buf = Blocks /\ DOMAIN disk = Blocks
  BY Regions DEF Types, WellFormed
<1>7. /\ buf'[n] = DataOf(j) /\ disk'[n] = DataOf(j)
      /\ DOMAIN buf' = Blocks /\ DOMAIN disk' = Blocks
      /\ \A b \in Blocks : b # n => buf'[b] = buf[b] /\ disk'[b] = disk[b]
  BY <1>5, <1>6
<1>8. /\ SyncType' /\ sync'.stage = sync.stage
      /\ \A y : y # n /\ y \in sync.todo => y \in sync'.todo
      /\ sync.stage # "bdev" => sync' = sync
  BY <1>5, DoneFacts
<1>9. op'.ino = j /\ op'.step = "index" /\ op'.call = "write" /\ op'.bno = n
      /\ OpType'
  BY <1>1, <1>2, <1>4, <1>5, SMT DEF Types, OpType, NoOp, Steps
<1>10. Types'
  <2>1. WellFormed(buf') /\ WellFormed(disk')
    BY <1>7, ValueTypes, MixedType DEF Types
  <2> QED
    BY <1>5, <1>8, <1>9, <2>1 DEF Types, SbiType
<1>11. OpFrame(j, {n})
  BY <1>1, <1>2, <1>5, <1>6, <1>7, <1>8, <1>9, SMT DEF OpFrame
<1>12. Active(j)' /\ Iget(j)' = core[j]
  BY <1>3, <1>5, <1>9 DEF Active, Iget
<1>13. core[j].ib \in Blocks /\ buf'[core[j].ib] = buf[core[j].ib]
  BY <1>1, <1>2, <1>4, <1>7, WorkFacts, Regions
<1>14. Own(j)' = Own(j)
  BY <1>3, <1>12, <1>13, SameOwn
<1>15. FileInv(j)'
  <2>1. Placed(core[j]) /\ Shaped(buf, core[j]) /\ Contents(buf, j, core[j], n)
    BY <1>1, <1>2, <1>3, <1>4 DEF Laid, Using, Unwritten
  <2>2. Shaped(buf', core[j])
    BY <1>13, <2>1, SameIndex
  <2>3. Contents(buf', j, core[j], 0)
    <3>1. \A k \in Counted(core[j]) : buf[core[j].ib][k] \in Blocks
      BY <2>1, Regions DEF Shaped
    <3> QED
      BY <1>7, <1>13, <2>1, <3>1, SMT DEF Contents
  <2>4. Laid(j)'
    BY <1>9, <1>12, <2>1, <2>2, <2>3 DEF Laid, Using, Unwritten
  <2>5. \A b \in Own(j) : b # core[j].ib => b \in dirty' \/ buf'[b] = disk'[b]
    <3>1. \A b \in Own(j) : b = core[j].ib \/ b = n \/ b \in dirty \/ buf[b] = disk[b]
      BY <1>1, <1>2, <1>3, <1>4 DEF Kept, Loose, Using
    <3>2. \A b \in Own(j) : b \in Blocks
      BY <1>3, Regions
    <3> QED
      BY <1>5, <1>7, <3>1, <3>2
  <2>6. Kept(j)'
    BY <1>3, <1>5, <1>9, <1>12, <1>14, <2>5, SMT DEF Kept, Loose, Using
  <2>7. InUse(j)'
    BY <1>3, <1>5, <1>9 DEF InUse, Using
  <2> QED
    BY <2>4, <2>6, <2>7 DEF FileInv
<1>16. OpListed'
  <2>1. j \in buf'[RootBlock]
    BY <1>1, <1>2, <1>6, <1>7, Regions DEF UpInv, OpListed
  <2> QED
    BY <1>9, <2>1 DEF OpListed
<1>17. CountersExact'
  BY <1>5 DEF CountersExact, UpInv
<1>18. Balanced(j)
  BY <1>3, <1>5, <1>12, <1>14 DEF Balanced, Mine
<1>19. {n} \subseteq Mine(j) \cup sbi.bfree /\ Mine(j)' \subseteq Mine(j) \cup sbi.bfree
  BY <1>3, <1>4, <1>14 DEF Mine
<1> QED
  BY <1>3, <1>5, <1>10, <1>11, <1>15, <1>16, <1>17, <1>18, <1>19, OperationKeeps

-----------------------------------------------------------------------------
(* How a file grows, shrinks and is emptied.                              *)

\* The inode with another number of blocks.
LEMMA Recount ==
    ASSUME NEW r \in InodeRecords, NEW n \in 0 .. MaxEntries + 1
    PROVE  /\ [r EXCEPT !.blocks = n] \in InodeRecords
           /\ [r EXCEPT !.blocks = n].ib = r.ib /\ [r EXCEPT !.blocks = n].blocks = n
BY DEF InodeRecords

\* One more block, behind the others.
Enlarged(d, e, r, q, i, m, n) ==
    /\ m \in Slots /\ n \in DataBlocks
    /\ Placed(r) /\ Shaped(d, r) /\ Contents(d, i, r, 0) /\ m = r.blocks - 1
    /\ n \notin BlocksBy(d, r)
    /\ q \in InodeRecords /\ q.ib = r.ib /\ q.blocks = r.blocks + 1
    /\ e[r.ib][m] = n /\ \A k \in Slots : k # m => e[r.ib][k] = d[r.ib][k]
    /\ \A b \in DataBlocks : b # r.ib => e[b] = d[b]

\* The file is laid out with the new block, whose bytes are still to be written.
LEMMA Grown ==
    ASSUME NEW d, NEW e, NEW r, NEW q, NEW i, NEW m, NEW n, Enlarged(d, e, r, q, i, m, n)
    PROVE  /\ Placed(q) /\ Shaped(e, q) /\ Contents(e, i, q, n)
           /\ BlocksBy(e, q) = BlocksBy(d, r) \cup {n} /\ q.ib = r.ib /\ n # r.ib
<1> USE DEF Enlarged
<1>1. r \in InodeRecords /\ r.ib \in DataBlocks
  BY DEF Placed
<1>2. q.ib = r.ib /\ q.blocks = r.blocks + 1 /\ q \in InodeRecords
  OBVIOUS
<1>3. Counted(q) = Counted(r) \cup {m} /\ m \notin Counted(r) /\ Counted(r) \subseteq Slots
  BY <1>1, <1>2, CountedFacts, SMT DEF Counted
<1>4. /\ e[r.ib][m] = n
      /\ \A k \in Slots : k # m => e[r.ib][k] = d[r.ib][k]
  OBVIOUS
<1>5. n # r.ib /\ \A k \in Counted(r) : d[r.ib][k] # n
  BY <1>1, BlocksByFacts
<1>6. \A k \in Counted(r) : e[r.ib][k] = d[r.ib][k]
  BY <1>3, <1>4
<1>7. Shaped(e, q)
  <2>1. /\ \A k \in Counted(r) : d[r.ib][k] \in DataBlocks /\ d[r.ib][k] # r.ib
        /\ \A k \in Slots \ Counted(r) : d[r.ib][k] = 0
        /\ \A j, k \in Counted(r) : d[r.ib][j] = d[r.ib][k] => j = k
    BY DEF Shaped
  <2>2. \A k \in Counted(q) : e[q.ib][k] \in DataBlocks /\ e[q.ib][k] # q.ib
    BY <1>2, <1>3, <1>4, <1>5, <1>6, <2>1, SMT
  <2>3. \A k \in Slots \ Counted(q) : e[q.ib][k] = 0
    BY <1>2, <1>3, <1>4, <2>1
  <2>4. ASSUME NEW j \in Counted(q), NEW k \in Counted(q), e[q.ib][j] = e[q.ib][k] PROVE j = k
    BY <1>2, <1>3, <1>4, <1>5, <1>6, <2>1, <2>4, SMTT(30)
  <2> QED
    BY <2>2, <2>3, <2>4 DEF Shaped
<1>8. Contents(e, i, q, n)
  <2>1. ASSUME NEW k \in Counted(q) PROVE e[q.ib][k] = n \/ e[e[q.ib][k]] = DataOf(i)
    <3>1. CASE k = m
      BY <1>2, <1>4, <3>1
    <3>2. CASE k \in Counted(r)
      <4>1. e[q.ib][k] = d[r.ib][k] /\ d[r.ib][k] \in DataBlocks /\ d[r.ib][k] # r.ib
        BY <1>2, <1>6, <3>2 DEF Shaped
      <4>2. d[r.ib][k] # 0
        BY <4>1, Regions
      <4>3. d[d[r.ib][k]] = DataOf(i)
        BY <3>2, <4>2 DEF Contents
      <4> QED
        BY <4>1, <4>3
    <3> QED
      BY <1>3, <3>1, <3>2
  <2> QED
    BY <2>1 DEF Contents
<1>9. BlocksBy(e, q) = BlocksBy(d, r) \cup {n}
  <2>1. \A x : x \in BlocksBy(d, r) <=> x = r.ib \/ \E k \in Counted(r) : x = d[r.ib][k]
    BY <1>1, BlocksByFacts
  <2>2. \A x : x \in BlocksBy(e, q) <=> x = r.ib \/ \E k \in Counted(q) : x = e[r.ib][k]
    BY <1>2, BlocksByFacts, SMTT(30)
  <2>3. ASSUME NEW x \in BlocksBy(e, q) PROVE x \in BlocksBy(d, r) \cup {n}
    BY <1>3, <1>4, <1>6, <2>1, <2>2, SMTT(30)
  <2>4. ASSUME NEW x \in BlocksBy(d, r) \cup {n} PROVE x \in BlocksBy(e, q)
    BY <1>3, <1>4, <1>6, <2>1, <2>2, SMTT(30)
  <2> QED
    BY <2>3, <2>4
<1>10. Placed(q)
  BY <1>1, <1>2 DEF Placed
<1> QED
  BY <1>2, <1>5, <1>7, <1>8, <1>9, <1>10

\* The last block less.
Reduced(d, e, r, q, i, m, f) ==
    /\ m \in Slots /\ f = d[r.ib][m]
    /\ Placed(r) /\ Shaped(d, r) /\ Contents(d, i, r, 0) /\ m = r.blocks - 2
    /\ q \in InodeRecords /\ q.ib = r.ib /\ q.blocks = r.blocks - 1
    /\ e[r.ib][m] = 0 /\ \A k \in Slots : k # m => e[r.ib][k] = d[r.ib][k]
    /\ \A b \in DataBlocks : b # r.ib => e[b] = d[b]

\* The file is laid out without the block.
LEMMA Shrunk ==
    ASSUME NEW d, NEW e, NEW r, NEW q, NEW i, NEW m, NEW f, Reduced(d, e, r, q, i, m, f)
    PROVE  /\ Placed(q) /\ Shaped(e, q) /\ Contents(e, i, q, 0)
           /\ BlocksBy(e, q) = BlocksBy(d, r) \ {f} /\ q.ib = r.ib
           /\ f \in BlocksBy(d, r) /\ f \in DataBlocks /\ f # r.ib
<1> USE DEF Reduced
<1>1. r \in InodeRecords /\ r.ib \in DataBlocks
  BY DEF Placed
<1>2. q.ib = r.ib /\ q.blocks = r.blocks - 1 /\ q \in InodeRecords
  OBVIOUS
<1>3. Counted(q) = Counted(r) \ {m} /\ m \in Counted(r) /\ Counted(r) \subseteq Slots
  BY <1>1, <1>2, CountedFacts, SMT DEF Counted
<1>4. /\ e[r.ib][m] = 0
      /\ \A k \in Slots : k # m => e[r.ib][k] = d[r.ib][k]
  OBVIOUS
<1>5. /\ \A k \in Counted(r) : d[r.ib][k] \in DataBlocks /\ d[r.ib][k] # r.ib
      /\ \A k \in Slots \ Counted(r) : d[r.ib][k] = 0
      /\ \A j, k \in Counted(r) : d[r.ib][j] = d[r.ib][k] => j = k
  BY DEF Shaped
<1>6. \A k \in Counted(q) : e[r.ib][k] = d[r.ib][k]
  BY <1>3, <1>4
<1>7. Shaped(e, q)
  <2>1. \A k \in Counted(q) : e[q.ib][k] \in DataBlocks /\ e[q.ib][k] # q.ib
    BY <1>2, <1>3, <1>5, <1>6, SMT
  <2>2. \A k \in Slots \ Counted(q) : e[q.ib][k] = 0
    BY <1>2, <1>3, <1>4, <1>5
  <2>3. ASSUME NEW j \in Counted(q), NEW k \in Counted(q), e[q.ib][j] = e[q.ib][k] PROVE j = k
    <3>1. d[r.ib][j] = d[r.ib][k] /\ j \in Counted(r) /\ k \in Counted(r)
      BY <1>2, <1>3, <1>6, <2>3
    <3> QED
      BY <1>5, <3>1
  <2> QED
    BY <2>1, <2>2, <2>3 DEF Shaped
<1>8. Contents(e, i, q, 0)
  <2>1. ASSUME NEW k \in Counted(q) PROVE e[e[q.ib][k]] = DataOf(i)
    <3>1. e[q.ib][k] = d[r.ib][k] /\ d[r.ib][k] \in DataBlocks /\ d[r.ib][k] # r.ib
      BY <1>2, <1>3, <1>5, <1>6
    <3>2. d[r.ib][k] # 0
      BY <3>1, Regions
    <3>3. d[d[r.ib][k]] = DataOf(i)
      BY <1>3, <3>2 DEF Contents
    <3> QED
      BY <3>1, <3>3
  <2> QED
    BY <2>1 DEF Contents
<1>9. f \in BlocksBy(d, r) /\ f \in DataBlocks /\ f # r.ib
  BY <1>1, <1>3, <1>5, BlocksByFacts
<1>10. BlocksBy(e, q) = BlocksBy(d, r) \ {f}
  <2>1. \A k \in Counted(r) : k # m => d[r.ib][k] # f
    BY <1>3, <1>5
  <2>2. \A x : x \in BlocksBy(d, r) <=> x = r.ib \/ \E k \in Counted(r) : x = d[r.ib][k]
    BY <1>1, BlocksByFacts, SMTT(30)
  <2>3. \A x : x \in BlocksBy(e, q) <=> x = r.ib \/ \E k \in Counted(q) : x = e[r.ib][k]
    BY <1>2, BlocksByFacts, SMTT(30)
  <2>4. ASSUME NEW x \in BlocksBy(e, q) PROVE x \in BlocksBy(d, r) \ {f}
    BY <1>3, <1>6, <1>9, <2>1, <2>2, <2>3, SMTT(30)
  <2>5. ASSUME NEW x \in BlocksBy(d, r) \ {f} PROVE x \in BlocksBy(e, q)
    BY <1>3, <1>6, <2>2, <2>3, SMTT(30)
  <2> QED
    BY <2>4, <2>5
<1>11. Placed(q)
  BY <1>1, <1>2 DEF Placed
<1> QED
  BY <1>2, <1>7, <1>8, <1>9, <1>10, <1>11

\* No block but the index block.
LEMMA Emptied ==
    ASSUME NEW d, NEW e, NEW r, NEW q, NEW i, Placed(r), Shaped(d, r),
           q \in InodeRecords, q.ib = r.ib, q.blocks = 0, e[r.ib] = Zero
    PROVE  /\ Placed(q) /\ Shaped(e, q) /\ Contents(e, i, q, 0) /\ q.ib = r.ib
           /\ BlocksBy(e, q) = {r.ib}
           /\ {d[r.ib][k] : k \in Slots} \ {0} = BlocksBy(d, r) \ {r.ib}
<1>1. r \in InodeRecords /\ r.ib \in DataBlocks
  BY DEF Placed
<1>2. q.ib = r.ib /\ q.blocks = 0 /\ q \in InodeRecords
  OBVIOUS
<1>3. Counted(q) = {} /\ Counted(r) \subseteq Slots
  BY <1>2, CountedFacts, SMT DEF Counted
<1>4. Shaped(e, q) /\ Contents(e, i, q, 0)
  BY <1>2, <1>3, ZenonT(30) DEF Shaped, Contents, Zero
<1>5. BlocksBy(e, q) = {r.ib}
  BY <1>2, <1>3, BlocksByFacts
<1>6. {d[r.ib][k] : k \in Slots} \ {0} = BlocksBy(d, r) \ {r.ib}
  <2>1. /\ \A k \in Counted(r) : d[r.ib][k] \in DataBlocks /\ d[r.ib][k] # r.ib
        /\ \A k \in Slots \ Counted(r) : d[r.ib][k] = 0
    BY DEF Shaped
  <2>2. \A k \in Counted(r) : d[r.ib][k] # 0
    BY <2>1, Regions
  <2> QED
    BY <1>1, <1>3, <2>1, <2>2, BlocksByFacts, SMTT(30)
<1> QED
  BY <1>1, <1>2, <1>4, <1>5, <1>6 DEF Placed

-----------------------------------------------------------------------------
(* The first steps of write, defrag and unlink, and open with O_TRUNC.    *)

\* The file that a call begins to use.
LEMMA UseFacts ==
    ASSUME Types, UpInv, NEW i \in Files, NEW call, CanUse(call, i)
    PROVE  /\ mount = "up" /\ op = NoOp /\ op.ino = 0 /\ op.ino # i
           /\ Active(i) /\ Mine(i) = Own(i) /\ i \in buf[RootBlock] /\ i \notin lossy
           /\ Iget(i) \in InodeRecords /\ Placed(Iget(i)) /\ Iget(i).ib \in DataBlocks
           /\ Shaped(buf, Iget(i)) /\ Contents(buf, i, Iget(i), 0)
           /\ Iget(i).ib \in Own(i) /\ Own(i) \subseteq DataBlocks
           /\ Own(i) \cap sbi.bfree = {} /\ i \notin sbi.ifree
           /\ \A b \in Own(i) : b \in dirty \/ buf[b] = disk[b]
           /\ i \in incore \ idirty => core[i] = buf[InodeBlock(i)][i]
<1>1. mount = "up" /\ op = NoOp /\ i \in buf[RootBlock] /\ i \notin lossy
  BY DEF CanUse, CanStart
<1>2. op.ino = 0 /\ op.ino # i /\ op.step = "idle" /\ Active(i)
  BY <1>1, IdleFacts
<1>3. FileInv(i)
  BY DEF UpInv
<1>4. Laid(i) /\ Kept(i)
  BY <1>2, <1>3 DEF FileInv
<1>5. Placed(Iget(i)) /\ Shaped(buf, Iget(i)) /\ Contents(buf, i, Iget(i), 0)
  BY <1>2, <1>4 DEF Laid, Using, Unwritten
<1>6. \A b \in Own(i) : b \in dirty \/ buf[b] = disk[b]
  BY <1>2, <1>4 DEF Kept, Loose, Using
<1>7. i \in incore \ idirty => core[i] = buf[InodeBlock(i)][i]
  BY <1>1, <1>2, <1>4 DEF Kept
<1> QED
  BY <1>1, <1>2, <1>3, <1>5, <1>6, <1>7, ActiveFacts DEF Mine

\* ouichefs_unlink removes the entry.
LEMMA UnlinkEntryKeeps ==
    ASSUME Types, UpInv, NEW i \in Files, UnlinkEntry(i)
    PROVE  Types' /\ UpInv'
<1>1. CanUse("unlink", i)
  BY DEF UnlinkEntry
<1>2. PICK r \in InodeRecords : r = Iget(i)
  BY RecordTypes
<1>3. /\ mount = "up" /\ op = NoOp /\ op.ino = 0
      /\ Active(i) /\ Mine(i) = Own(i) /\ i \notin lossy
      /\ Placed(r) /\ r.ib \in DataBlocks /\ Shaped(buf, r) /\ Contents(buf, i, r, 0)
      /\ Own(i) \subseteq DataBlocks /\ Own(i) \cap sbi.bfree = {} /\ i \notin sbi.ifree
      /\ \A b \in Own(i) : b \in dirty \/ buf[b] = disk[b]
  BY <1>1, <1>2, UseFacts
<1>4. /\ buf' = [buf EXCEPT ![RootBlock] = @ \ {i}] /\ dirty' = dirty \cup {RootBlock}
      /\ core' = [core EXCEPT ![i] = r] /\ incore' = incore \cup {i}
      /\ op' = [call |-> "unlink", step |-> "blocks", ino |-> i, bno |-> 0]
      /\ Touch(i)
      /\ UNCHANGED <<disk, sbi, idirty, mount, sync, crashed, lossy>>
  BY <1>2 DEF UnlinkEntry
<1>5. RootBlock \in Blocks /\ DOMAIN buf = Blocks /\ RootBlock \notin IstoreBlocks
      /\ RootBlock \notin DataBlocks
  BY Regions DEF Types, WellFormed
<1>6. /\ buf'[RootBlock] = buf[RootBlock] \ {i} /\ DOMAIN buf' = Blocks
      /\ \A b \in Blocks : b # RootBlock => buf'[b] = buf[b]
  BY <1>4, <1>5
<1>7. Types'
  <2>1. BlockType(RootBlock, buf[RootBlock] \ {i})
    BY <1>5, RootTypes DEF Types, WellFormed
  <2>2. WellFormed(buf')
    BY <1>6, <2>1, MixedType DEF Types
  <2>3. OpType'
    BY <1>4 DEF OpType, Steps, AllCalls
  <2> QED
    BY <1>4, <1>5, <2>2, <2>3, SMTT(30) DEF Types, SyncType, SbiType, Touch
<1>8. OpFrame(i, {})
  BY <1>3, <1>4, <1>6 DEF OpFrame, Touch, Types
<1>9. Active(i)' /\ Iget(i)' = r /\ i \in incore'
  BY <1>4 DEF Active, Iget, Types
<1>10. buf'[r.ib] = buf[r.ib]
  BY <1>3, <1>5, <1>6, Regions
<1>11. Own(i)' = Own(i) /\ Mine(i)' = Own(i)
  BY <1>2, <1>9, <1>10, SameOwn DEF Mine
<1>12. FileInv(i)'
  <2>1. \A b \in Own(i) : buf'[b] = buf[b]
    BY <1>3, <1>5, <1>6, Regions, SMTT(30)
  <2>2. Shaped(buf', r) /\ Contents(buf', i, r, 0)
    BY <1>2, <1>3, <1>10, <2>1, SameIndex, SameContents, SMT DEF Own
  <2>3. Laid(i)'
    BY <1>3, <1>4, <1>9, <2>2 DEF Laid, Using, Unwritten
  <2>4. Kept(i)'
    BY <1>3, <1>4, <1>11, <2>1 DEF Kept
  <2>5. InUse(i)'
    BY <1>4, <1>9 DEF InUse, Using
  <2> QED
    BY <2>3, <2>4, <2>5 DEF FileInv
<1>13. OpListed'
  BY <1>4, <1>6 DEF OpListed
<1>14. CountersExact'
  BY <1>4 DEF CountersExact, UpInv
<1>15. Balanced(i)
  BY <1>3, <1>4, <1>9, <1>11 DEF Balanced
<1>16. i \notin safe' /\ (sync # NoSync => i \in touched')
  BY <1>4 DEF Touch
<1> QED
  BY <1>3, <1>7, <1>8, <1>11, <1>12, <1>13, <1>14, <1>15, <1>16, OperationKeeps

\* The last step of ouichefs_unlink: the kernel drops the inode.
LEMMA UnlinkDropKeeps ==
    ASSUME Types, UpInv, UnlinkDrop
    PROVE  Types' /\ UpInv'
<1>1. PICK j \in Files : j = op.ino
  BY SMT DEF Types, OpType, UnlinkDrop, At, NoOp
<1>2. /\ op.step = "drop" /\ mount = "up"
      /\ incore' = incore \ {j} /\ idirty' = idirty \ {j} /\ Done("inodes", j) /\ op' = NoOp
      /\ UNCHANGED <<disk, buf, dirty, sbi, core, mount, crashed, safe, touched, lossy>>
  BY <1>1 DEF UnlinkDrop, At, cache, history
<1>3. ~Active(j) /\ Mine(j) = {}
  BY <1>1, <1>2 DEF Active, Mine
<1>4. j \notin buf[RootBlock] /\ j \notin safe /\ (sync # NoSync => j \in touched)
  BY <1>1, <1>2 DEF UpInv, OpListed
<1>5. op'.ino = 0 /\ op'.ino # j /\ op'.step = "idle"
  BY <1>2, StoreHolds DEF NoOp
<1>6. ~Active(j)' /\ Mine(j)' = {}
  BY <1>2, <1>4, <1>5 DEF Active, Mine
<1>7. /\ SyncType' /\ sync'.stage = sync.stage
      /\ \A y : y # j /\ y \in sync.todo => y \in sync'.todo
      /\ sync.stage # "inodes" => sync' = sync
  BY <1>2, DoneFacts
<1>8. Types'
  BY <1>2, <1>7 DEF Types, OpType, SbiType
<1>9. OpFrame(j, {})
  BY <1>1, <1>2, <1>5, <1>7 DEF OpFrame
<1>10. FileInv(j)'
  BY <1>6 DEF FileInv
<1>11. OpListed'
  BY <1>5 DEF OpListed
<1>12. CountersExact'
  BY <1>2 DEF CountersExact, UpInv
<1>13. Balanced(j)
  <2>1. ~crashed /\ lossy = {} => j \in sbi.ifree
    BY <1>3, StoreHolds DEF UpInv, BitmapsExact
  <2> QED
    BY <1>2, <1>3, <1>6, <2>1 DEF Balanced, UpInv, BitmapsExact
<1>14. j \notin safe' /\ (sync # NoSync => j \in touched')
  BY <1>2, <1>4 DEF Synced
<1> QED
  BY <1>3, <1>6, <1>8, <1>9, <1>10, <1>11, <1>12, <1>13, <1>14, OperationKeeps
=============================================================================
