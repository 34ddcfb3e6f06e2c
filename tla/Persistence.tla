----------------------------- MODULE Persistence -----------------------------
(***************************************************************************)
(* What reaches the disk and when: the image mkfs writes                   *)
(* (mkfs/mkfs-ouichefs.c), mounting, the writing back of inodes, of the    *)
(* counters and of the bitmaps (src/super.c), and for every operation on   *)
(* regular files of the root directory which buffers it marks dirty, which *)
(* it writes at once and which it forgets (src/inode.c, src/write.c,       *)
(* src/defrag.c, src/file.c).                                              *)
(*                                                                         *)
(* A block exists up to three times: on disk, in the buffer cache, and,    *)
(* for the counters, bitmaps and inodes, in the structures of the mounted  *)
(* file system.  The kernel around the file system writes dirty buffers    *)
(* and inodes back whenever it likes, drops clean ones, runs sync next to  *)
(* the operations, and may crash.  One task operates on the files; sync,   *)
(* writeback and eviction interleave with its steps.                       *)
(***************************************************************************)
EXTENDS Integers, FiniteSets, FiniteSetsExt

CONSTANTS
    NrBlocks,       \* blocks of the partition
    InodesPerBlock, \* OUICHEFS_INODES_PER_BLOCK
    BitsPerBlock,   \* OUICHEFS_BLOCK_SIZE * 8
    MaxEntries,     \* entries of an index block
    MaxFiles,       \* bound on the files that exist at a time
    Calls,          \* the operations of the run
    MaxCalls,       \* bound on the operations,
    MaxSyncs,       \* on syncs and unmounts,
    MaxEvents       \* on what the kernel writes back or drops by itself, and
                    \* on blocks that sync or the flusher cannot read

\* write_superblock: the sizes of the regions.  The remainder is added to the
\* number of inodes, which need not fill the last block of the store.
idiv_ceil(a, b) == a \div b + (IF a % b # 0 THEN 1 ELSE 0)

nr_inodes == NrBlocks + (NrBlocks % InodesPerBlock)
nr_istore_blocks == idiv_ceil(nr_inodes, InodesPerBlock)
nr_ifree_blocks == idiv_ceil(nr_inodes, BitsPerBlock)
nr_bfree_blocks == idiv_ceil(NrBlocks, BitsPerBlock)

Blocks == 0 .. NrBlocks - 1
SuperBlock == 0
FirstIfree == nr_istore_blocks + 1
FirstBfree == FirstIfree + nr_ifree_blocks
RootBlock == FirstBfree + nr_bfree_blocks    \* first_data_block
IstoreBlocks == 1 .. FirstIfree - 1
IfreeBlocks == FirstIfree .. FirstBfree - 1
BfreeBlocks == FirstBfree .. RootBlock - 1
DataBlocks == RootBlock + 1 .. NrBlocks - 1

\* Inodes 0 and 1 are used; get_free_inode returns the lowest free one.
Files == 2 .. MaxFiles + 1
Slots == 0 .. MaxEntries - 1
AllCalls == {"create", "write", "defrag", "unlink", "trunc"}

ASSUME PersistenceAssumption ==
    /\ NrBlocks \in Nat /\ InodesPerBlock \in Nat \ {0} /\ BitsPerBlock \in Nat \ {0}
    /\ RootBlock < NrBlocks
    \* "we suppose it won't go further than the first block" (write_bfree_blocks)
    /\ RootBlock < BitsPerBlock
    /\ MaxEntries \in Nat \ {0} /\ MaxFiles \in Nat /\ MaxFiles + 1 < nr_inodes
    /\ Calls \subseteq AllCalls /\ {MaxCalls, MaxSyncs, MaxEvents} \subseteq Nat

VARIABLES
    disk,     \* the content of every block of the device
    buf,      \* its content in the buffer cache
    dirty,    \* the blocks whose buffer is marked dirty
    sbi,      \* the counters and bitmaps of the mounted file system
    core,     \* the inodes in memory
    incore,   \* which of them are there
    idirty,   \* those marked dirty
    mount,    \* "down", "up" or "unmounting"
    op,       \* the operation in progress
    sync,     \* where sync_filesystem is
    crashed,  \* there was a crash, or an unmount whose sync failed
    left,     \* what the bounds still allow
    safe,     \* history: files that a sync covered and nobody touched since
    touched,  \* history: files touched since the sync began
    lossy     \* history: files with a change that may never be written back

memory == <<sbi, core, incore, idirty>>
cache == <<buf, dirty>>
history == <<safe, touched, lossy>>
vars == <<disk, cache, memory, mount, op, sync, crashed, left, history>>

Spend(what) ==
    /\ \A k \in what : left[k] > 0
    /\ left' = [k \in DOMAIN left |-> IF k \in what THEN left[k] - 1 ELSE left[k]]

\* The bits of a bitmap that its block b holds.
Segment(b, first) == (b - first) * BitsPerBlock .. (b - first + 1) * BitsPerBlock - 1

InodeBlock(ino) == ino \div InodesPerBlock + 1
InodesIn(b) == {i \in Files : InodeBlock(i) = b}

\* A cleared block, the bytes of file i, and an inode without blocks.
Zero == [k \in Slots |-> 0]
DataOf(i) == [k \in Slots |-> -i]
NoInode == [ib |-> 0, blocks |-> 0]

NoOp == [call |-> "none", step |-> "idle", ino |-> 0, bno |-> 0]
NoSync == [stage |-> "idle", todo |-> {}]
NoSbi == [bfree |-> {}, nrFree |-> 0, ifree |-> {}, nrFreeInodes |-> 0]

\* The image mkfs leaves: counters, an empty inode store (apart from the
\* root), bitmaps with everything up to the root's block used, an empty root.
\* Bits behind the last block or inode are set, too, but no search sees them.
Formatted ==
    [b \in Blocks |->
        IF b = SuperBlock
        THEN [magic |-> TRUE, nrFree |-> NrBlocks - RootBlock - 1,
              nrFreeInodes |-> nr_inodes - 1]
        ELSE IF b \in IstoreBlocks THEN [i \in InodesIn(b) |-> NoInode]
        ELSE IF b \in IfreeBlocks THEN (2 .. nr_inodes - 1) \cap Segment(b, FirstIfree)
        ELSE IF b \in BfreeBlocks THEN DataBlocks \cap Segment(b, FirstBfree)
        ELSE IF b = RootBlock THEN {}
        ELSE Zero]

Init ==
    /\ disk = Formatted /\ buf = Formatted /\ dirty = {}
    /\ sbi = NoSbi
    /\ core = [i \in Files |-> NoInode] /\ incore = {} /\ idirty = {}
    /\ mount = "down" /\ op = NoOp /\ sync = NoSync
    /\ crashed = FALSE
    /\ left = [calls |-> MaxCalls, syncs |-> MaxSyncs, events |-> MaxEvents]
    /\ safe = Files /\ touched = {} /\ lossy = {}

-----------------------------------------------------------------------------
\* Mounting and the kernel's writeback.

\* ouichefs_fill_super.  The magic number is never copied to the sbi.
Mount ==
    /\ mount = "down" /\ disk[SuperBlock].magic
    /\ mount' = "up"
    /\ buf' = disk /\ dirty' = {}
    /\ sbi' = [bfree |-> UNION {disk[b] : b \in BfreeBlocks},
               nrFree |-> disk[SuperBlock].nrFree,
               ifree |-> UNION {disk[b] : b \in IfreeBlocks},
               nrFreeInodes |-> disk[SuperBlock].nrFreeInodes]
    /\ UNCHANGED <<disk, core, incore, idirty, op, sync, crashed, history, left>>

\* Sync writes what it found dirty in ascending order and passes over what
\* somebody else wrote meanwhile; the kernel writes by itself whatever is dirty.
InTurn(stage, x) == sync.stage = stage /\ sync.todo # {} /\ x = Min(sync.todo)
Flush(stage, x) == IF InTurn(stage, x) THEN UNCHANGED left ELSE Spend({"events"})
Done(stage, x) ==
    sync' = IF sync.stage = stage THEN [sync EXCEPT !.todo = @ \ {x}] ELSE sync

\* Mutant of WriteInode: i_blocks is not copied.
MutWriteInode(i) ==
    LET b == InodeBlock(i) IN
    /\ mount # "down" /\ i \in idirty
    /\ buf' = [buf EXCEPT ![b][i].ib = core[i].ib]
    /\ disk' = [disk EXCEPT ![b] = buf'[b]]
    /\ dirty' = dirty \ {b}
    /\ idirty' = idirty \ {i}
    /\ Flush("inodes", i) /\ Done("inodes", i)
    /\ UNCHANGED <<sbi, core, incore, mount, op, crashed, history>>

\* ouichefs_write_inode, called by the flusher or by sync: the record is
\* copied to its block of the store, which is written at once.
WriteInode(i) ==
    LET b == InodeBlock(i) IN
    /\ mount # "down" /\ i \in idirty
    /\ buf' = [buf EXCEPT ![b][i] = core[i]]
    /\ disk' = [disk EXCEPT ![b] = buf'[b]]
    /\ dirty' = dirty \ {b}
    /\ idirty' = idirty \ {i}
    /\ Flush("inodes", i) /\ Done("inodes", i)
    /\ UNCHANGED <<sbi, core, incore, mount, op, crashed, history>>

\* The block of the store cannot be read: -EIO, and the kernel has already
\* taken the inode off its list of dirty ones.
WriteInodeFail(i) ==
    /\ mount # "down" /\ i \in idirty
    /\ idirty' = idirty \ {i}
    /\ Done("inodes", i)
    /\ lossy' = lossy \cup {i}
    /\ Spend({"events"})
    /\ UNCHANGED <<disk, cache, sbi, core, incore, mount, op, crashed, safe, touched>>

\* The kernel writes a dirty buffer back, at any time.
Writeback(b) ==
    /\ mount # "down" /\ b \in dirty
    /\ disk' = [disk EXCEPT ![b] = buf[b]]
    /\ dirty' = dirty \ {b}
    /\ Flush("bdev", b) /\ Done("bdev", b)
    /\ UNCHANGED <<buf, memory, mount, op, crashed, history>>

\* The kernel drops a buffer nobody holds, or an inode nobody uses, when it is
\* not dirty: a change that was not marked dirty is gone.  Writes and defrag
\* hold the index block that they change and mark at the end.
Held == IF op.call \in {"write", "defrag"} THEN {core[op.ino].ib, op.bno} ELSE {}

EvictBuffer(b) ==
    /\ mount = "up" /\ b \notin dirty /\ buf[b] # disk[b]
    /\ b \notin Held
    /\ buf' = [buf EXCEPT ![b] = disk[b]]
    /\ Spend({"events"})
    /\ UNCHANGED <<disk, dirty, memory, mount, op, sync, crashed, history>>

EvictInode(i) ==
    /\ mount = "up" /\ i \in incore \ idirty /\ op.ino # i
    /\ incore' = incore \ {i}
    /\ core' = [core EXCEPT ![i] = NoInode]
    /\ Spend({"events"})
    /\ UNCHANGED <<disk, cache, sbi, idirty, mount, op, sync, crashed, history>>

\* Power loss: what was not on disk is gone.  There is no repair: a file that
\* was not safe is not used again, and nothing is claimed of it.
Crash ==
    /\ mount # "down" /\ ~crashed
    /\ mount' = "down" /\ crashed' = TRUE
    /\ buf' = disk /\ dirty' = {}
    /\ sbi' = NoSbi /\ core' = [i \in Files |-> NoInode]
    /\ incore' = {} /\ idirty' = {}
    /\ op' = NoOp /\ sync' = NoSync /\ touched' = {}
    /\ lossy' = lossy \cup (Files \ safe)
    /\ UNCHANGED <<disk, safe, left>>

-----------------------------------------------------------------------------
\* sync_filesystem, for sync(2) and for an unmount: ouichefs_sync_fs without
\* waiting, the dirty inodes, ouichefs_sync_fs with waiting, and the buffers
\* that are dirty then.

\* The blocks that sync_sb_info, sync_ifree and sync_bfree copy to.
SyncBlocks == {SuperBlock} \cup IfreeBlocks \cup BfreeBlocks

\* Mutant of Image: the bitmap of inodes is copied to both regions.
MutImage(b) ==
    IF b = SuperBlock
    THEN [buf[b] EXCEPT !.nrFree = sbi.nrFree, !.nrFreeInodes = sbi.nrFreeInodes]
    ELSE IF b \in IfreeBlocks THEN sbi.ifree \cap Segment(b, FirstIfree)
    ELSE sbi.ifree \cap Segment(b, FirstBfree)

\* What they copy to the buffer of b.
Image(b) ==
    IF b = SuperBlock
    THEN [buf[b] EXCEPT !.nrFree = sbi.nrFree, !.nrFreeInodes = sbi.nrFreeInodes]
    ELSE IF b \in IfreeBlocks THEN sbi.ifree \cap Segment(b, FirstIfree)
    ELSE sbi.bfree \cap Segment(b, FirstBfree)

Copied(S) == [b \in Blocks |-> IF b \in S THEN Image(b) ELSE buf[b]]

\* The pass without waiting leaves all copies dirty.
SyncBegin ==
    /\ mount = "up" /\ sync = NoSync
    /\ mount' \in {"up", "unmounting"}
    /\ mount' = "unmounting" => op = NoOp
    /\ touched' = {op.ino} \cap Files
    /\ buf' = Copied(SyncBlocks) /\ dirty' = dirty \cup SyncBlocks
    /\ sync' = [stage |-> "inodes", todo |-> idirty]
    /\ Spend({"syncs"})
    /\ UNCHANGED <<disk, memory, op, crashed, safe, lossy>>

\* The pass with waiting, which begins when the inodes are written, writes
\* each copy at once.
StillToCopy ==
    IF sync.stage = "fs" THEN sync.todo
    ELSE IF sync.stage = "inodes" /\ sync.todo = {} THEN SyncBlocks ELSE {}

SyncWait ==
    LET b == Min(StillToCopy)
        rest == StillToCopy \ {b}
    IN
    /\ StillToCopy # {}
    /\ buf' = Copied({b}) /\ dirty' = dirty \ {b} /\ disk' = [disk EXCEPT ![b] = buf'[b]]
    /\ sync' = IF rest # {} THEN [stage |-> "fs", todo |-> rest]
               ELSE [stage |-> "bdev", todo |-> dirty']
    /\ UNCHANGED <<memory, mount, op, crashed, history, left>>

\* Nothing of the mounted file system is left.
Forget ==
    /\ mount' = "down"
    /\ sbi' = NoSbi /\ core' = [i \in Files |-> NoInode]
    /\ incore' = {} /\ idirty' = {}

\* sync returns.  The unmount goes on with ouichefs_put_super.
SyncDone ==
    /\ sync.stage = "bdev" /\ sync.todo = {}
    /\ sync' = NoSync
    /\ safe' = safe \cup (Files \ touched) /\ touched' = {}
    /\ IF mount = "unmounting" THEN Forget ELSE UNCHANGED <<memory, mount>>
    /\ UNCHANGED <<disk, cache, op, crashed, lossy, left>>

\* A block cannot be read: ouichefs_sync_fs returns -EIO, having copied the
\* blocks before it, and sync_filesystem gives up.  An unmount goes on all the
\* same: it drops the inodes and writes the buffers that are dirty.
GiveUp(copied) ==
    LET b == Copied(copied) IN
    /\ sync' = NoSync /\ touched' = {}
    /\ buf' = b
    /\ \/ /\ mount = "up"
          /\ dirty' = dirty \cup copied
          /\ UNCHANGED <<disk, memory, mount, crashed, lossy>>
       \/ /\ sync # NoSync => mount = "unmounting"
          /\ op = NoOp
          /\ Forget
          /\ crashed' = TRUE /\ lossy' = lossy \cup (Files \ safe)
          /\ disk' = [x \in Blocks |-> IF x \in dirty \cup copied THEN b[x] ELSE disk[x]]
          /\ dirty' = {}
    /\ Spend(IF sync = NoSync THEN {"syncs", "events"} ELSE {"events"})
    /\ UNCHANGED <<op, safe>>

SyncFail ==
    \/ /\ mount = "up" /\ sync = NoSync
       /\ \E x \in SyncBlocks : GiveUp({b \in SyncBlocks : b < x})
    \/ StillToCopy # {} /\ GiveUp({})

-----------------------------------------------------------------------------
\* Operations on files.  Between the steps of one of them sync and writeback
\* may run.  Files torn by a crash or with a lost change are not used again:
\* there is no repair, and nothing is claimed of what they become.

CanStart(call) == call \in Calls /\ mount = "up" /\ op = NoOp
At(call, step) == mount = "up" /\ op.call = call /\ op.step = step

Touch(i) ==
    /\ safe' = safe \ {i}
    /\ touched' = IF sync = NoSync THEN {} ELSE touched \cup {i}

\* ouichefs_iget: the inode in memory, or the record of the store.
Iget(i) == IF i \in incore THEN core[i] ELSE buf[InodeBlock(i)][i]

CanUse(call, i) == CanStart(call) /\ i \in buf[RootBlock] /\ i \notin lossy
DataEntries(i) == {buf[core[i].ib][k] : k \in 0 .. core[i].blocks - 2}

GetFreeBlock(bno) ==
    sbi' = [sbi EXCEPT !.bfree = @ \ {bno}, !.nrFree = @ - 1]
PutBlocks(s, S) ==
    [s EXCEPT !.bfree = @ \cup S, !.nrFree = @ + Cardinality(S)]

\* ouichefs_create: the inode and its index block, ...
CreateInode ==
    LET ino == Min(sbi.ifree)
        bno == Min(sbi.bfree)
    IN
    /\ CanStart("create")
    /\ sbi.nrFreeInodes # 0 /\ sbi.nrFree # 0 /\ sbi.ifree # {} /\ sbi.bfree # {}
    /\ ino \in Files
    /\ sbi' = [bfree |-> sbi.bfree \ {bno}, nrFree |-> sbi.nrFree - 1,
               ifree |-> sbi.ifree \ {ino}, nrFreeInodes |-> sbi.nrFreeInodes - 1]
    /\ core' = [core EXCEPT ![ino] = [ib |-> bno, blocks |-> 1]]
    /\ incore' = incore \cup {ino}
    /\ op' = [call |-> "create", step |-> "register", ino |-> ino, bno |-> 0]
    /\ Touch(ino)
    /\ Spend({"calls"})
    /\ UNCHANGED <<disk, cache, idirty, mount, sync, crashed, lossy>>

\* Mutant of CreateRegister: the index block is not marked dirty.
MutCreateRegister ==
    LET ib == core[op.ino].ib IN
    /\ At("create", "register")
    /\ buf' = [buf EXCEPT ![ib] = Zero, ![RootBlock] = @ \cup {op.ino}]
    /\ dirty' = dirty \cup {RootBlock}
    /\ idirty' = idirty \cup {op.ino}
    /\ op' = NoOp
    /\ UNCHANGED <<disk, sbi, core, incore, mount, sync, crashed, history, left>>

\* ... then the scrubbed index block, the entry and the inode, all marked dirty
\* and none written.
CreateRegister ==
    LET ib == core[op.ino].ib IN
    /\ At("create", "register")
    /\ buf' = [buf EXCEPT ![ib] = Zero, ![RootBlock] = @ \cup {op.ino}]
    /\ dirty' = dirty \cup {ib, RootBlock}
    /\ idirty' = idirty \cup {op.ino}
    /\ op' = NoOp
    /\ UNCHANGED <<disk, sbi, core, incore, mount, sync, crashed, history, left>>

\* ouichefs_light_write and ouichefs_write, for a write that needs one more
\* block: the index buffer changes but is held, ...
WriteReserve(i) ==
    LET bno == Min(sbi.bfree)
        ino == Iget(i)
    IN
    /\ CanUse("write", i) /\ sbi.nrFree > 0 /\ sbi.bfree # {}
    /\ ino.blocks - 1 \in Slots
    /\ GetFreeBlock(bno)
    /\ buf' = [buf EXCEPT ![ino.ib][ino.blocks - 1] = bno]
    /\ core' = [core EXCEPT ![i] = [ino EXCEPT !.blocks = @ + 1]]
    /\ incore' = incore \cup {i}
    /\ op' = [call |-> "write", step |-> "data", ino |-> i, bno |-> bno]
    /\ Touch(i)
    /\ Spend({"calls"})
    /\ UNCHANGED <<disk, dirty, idirty, mount, sync, crashed, lossy>>

\* ... the data block is written at once, ...
WriteData ==
    /\ At("write", "data")
    /\ buf' = [buf EXCEPT ![op.bno] = DataOf(op.ino)]
    /\ dirty' = dirty \ {op.bno}
    /\ disk' = [disk EXCEPT ![op.bno] = buf'[op.bno]]
    /\ Done("bdev", op.bno)
    /\ op' = [op EXCEPT !.step = "index"]
    /\ UNCHANGED <<memory, mount, crashed, history, left>>

\* ... then the index block, and the inode is marked dirty.
WriteIndex ==
    LET ib == core[op.ino].ib IN
    /\ At("write", "index")
    /\ disk' = [disk EXCEPT ![ib] = buf[ib]] /\ dirty' = dirty \ {ib}
    /\ Done("bdev", ib)
    /\ idirty' = idirty \cup {op.ino}
    /\ op' = NoOp
    /\ UNCHANGED <<buf, sbi, core, incore, mount, crashed, history, left>>

\* Nothing was written, because the cursor is at the end of a full block or
\* the data block cannot be read: the index block is written, the inode with
\* its new number of blocks is not marked dirty (it may be from before).
WriteNothing ==
    LET ib == core[op.ino].ib IN
    /\ At("write", "data")
    /\ disk' = [disk EXCEPT ![ib] = buf[ib]] /\ dirty' = dirty \ {ib}
    /\ Done("bdev", ib)
    /\ op' = NoOp
    /\ lossy' = lossy \cup {op.ino}
    /\ UNCHANGED <<buf, memory, mount, crashed, safe, touched, left>>

\* ouichefs_defrag, for a file whose last block it empties: the block is freed,
\* then the index block written.
DefragFree(i) ==
    LET ino == Iget(i)
        last == ino.blocks - 2
    IN
    /\ CanUse("defrag", i) /\ last \in Slots
    /\ sbi' = PutBlocks(sbi, {buf[ino.ib][last]})
    /\ buf' = [buf EXCEPT ![ino.ib][last] = 0]
    /\ core' = [core EXCEPT ![i] = [ino EXCEPT !.blocks = @ - 1]]
    /\ incore' = incore \cup {i} /\ idirty' = idirty \cup {i}
    /\ op' = [call |-> "defrag", step |-> "index", ino |-> i, bno |-> 0]
    /\ Touch(i)
    /\ Spend({"calls"})
    /\ UNCHANGED <<disk, dirty, mount, sync, crashed, lossy>>

DefragIndex ==
    LET ib == core[op.ino].ib IN
    /\ At("defrag", "index")
    /\ disk' = [disk EXCEPT ![ib] = buf[ib]] /\ dirty' = dirty \ {ib}
    /\ Done("bdev", ib)
    /\ op' = NoOp
    /\ UNCHANGED <<buf, memory, mount, crashed, history, left>>

\* ouichefs_unlink: the entry goes first, ...
UnlinkEntry(i) ==
    /\ CanUse("unlink", i) /\ Iget(i).blocks > 0
    /\ buf' = [buf EXCEPT ![RootBlock] = @ \ {i}]
    /\ dirty' = dirty \cup {RootBlock}
    /\ core' = [core EXCEPT ![i] = Iget(i)] /\ incore' = incore \cup {i}
    /\ op' = [call |-> "unlink", step |-> "blocks", ino |-> i, bno |-> 0]
    /\ Touch(i)
    /\ Spend({"calls"})
    /\ UNCHANGED <<disk, sbi, idirty, mount, sync, crashed, lossy>>

\* Mutant of UnlinkBlocks: the counter of free inodes is not raised.
MutUnlinkBlocks ==
    LET i == op.ino
        ib == core[i].ib
        freed == DataEntries(i)
    IN
    /\ At("unlink", "blocks")
    /\ sbi' = [PutBlocks(sbi, freed \cup {ib}) EXCEPT !.ifree = @ \cup {i}]
    /\ buf' = [b \in Blocks |-> IF b \in freed \cup {ib} THEN Zero ELSE buf[b]]
    /\ dirty' = dirty \cup freed \cup {ib}
    /\ core' = [core EXCEPT ![i] = NoInode] /\ idirty' = idirty \cup {i}
    /\ op' = [op EXCEPT !.step = "drop"]
    /\ UNCHANGED <<disk, incore, mount, sync, crashed, history, left>>

\* ... then the data blocks are freed and scrubbed, the index block scrubbed,
\* the inode cleared and marked dirty, and its number and block freed.
UnlinkBlocks ==
    LET i == op.ino
        ib == core[i].ib
        freed == DataEntries(i)
    IN
    /\ At("unlink", "blocks")
    /\ sbi' = [PutBlocks(sbi, freed \cup {ib}) EXCEPT !.ifree = @ \cup {i},
                                                      !.nrFreeInodes = @ + 1]
    /\ buf' = [b \in Blocks |-> IF b \in freed \cup {ib} THEN Zero ELSE buf[b]]
    /\ dirty' = dirty \cup freed \cup {ib}
    /\ core' = [core EXCEPT ![i] = NoInode] /\ idirty' = idirty \cup {i}
    /\ op' = [op EXCEPT !.step = "drop"]
    /\ UNCHANGED <<disk, incore, mount, sync, crashed, history, left>>

\* The kernel drops an inode without links, dirty or not: unless the flusher
\* was faster, the record in the store stays what it was.
UnlinkDrop ==
    /\ At("unlink", "drop")
    /\ incore' = incore \ {op.ino} /\ idirty' = idirty \ {op.ino}
    /\ Done("inodes", op.ino)
    /\ op' = NoOp
    /\ UNCHANGED <<disk, cache, sbi, core, mount, crashed, history, left>>

\* ouichefs_open with O_TRUNC: the blocks are freed and the index buffer is
\* cleared but not marked dirty.  The kernel marks the inode dirty afterwards.
OpenTrunc(i) ==
    LET ino == Iget(i)
        freed == {buf[ino.ib][k] : k \in Slots} \ {0}
    IN
    /\ CanUse("trunc", i) /\ ino.blocks > 1
    /\ sbi' = PutBlocks(sbi, freed)
    /\ buf' = [buf EXCEPT ![ino.ib] = Zero]
    /\ core' = [core EXCEPT ![i] = [ino EXCEPT !.blocks = 0]]
    /\ incore' = incore \cup {i} /\ idirty' = idirty \cup {i}
    /\ lossy' = IF ino.ib \in dirty THEN lossy ELSE lossy \cup {i}
    /\ Touch(i)
    /\ Spend({"calls"})
    /\ UNCHANGED <<disk, dirty, mount, op, sync, crashed>>

Operation ==
    \/ CreateInode \/ CreateRegister
    \/ WriteData \/ WriteIndex \/ WriteNothing
    \/ DefragIndex \/ UnlinkBlocks \/ UnlinkDrop
    \/ \E i \in Files : WriteReserve(i) \/ DefragFree(i) \/ UnlinkEntry(i) \/ OpenTrunc(i)

Sync == SyncBegin \/ SyncWait \/ SyncDone \/ SyncFail

Kernel ==
    \/ Mount \/ Crash
    \/ \E i \in Files : WriteInode(i) \/ WriteInodeFail(i) \/ EvictInode(i)
    \/ \E b \in Blocks : Writeback(b) \/ EvictBuffer(b)

Next == Operation \/ Sync \/ Kernel

Spec == Init /\ [][Next]_vars

-----------------------------------------------------------------------------
InodeRecords == [ib : DataBlocks \cup {0}, blocks : 0 .. MaxEntries + 1]

IsImage(d) ==
    /\ DOMAIN d = Blocks
    /\ d[SuperBlock] \in [magic : BOOLEAN, nrFree : Nat, nrFreeInodes : Nat]
    /\ \A b \in IstoreBlocks : d[b] \in [InodesIn(b) -> InodeRecords]
    /\ \A b \in IfreeBlocks : d[b] \subseteq Segment(b, FirstIfree)
    /\ \A b \in BfreeBlocks : d[b] \subseteq Segment(b, FirstBfree)
    /\ d[RootBlock] \subseteq Files
    /\ \A b \in DataBlocks, k \in Slots : d[b][k] \in -MaxFiles - 1 .. NrBlocks - 1

\* Types of the three copies and of the operation and sync in progress.
TypeOK ==
    /\ IsImage(disk) /\ IsImage(buf) /\ dirty \subseteq Blocks
    /\ sbi.bfree \subseteq DataBlocks /\ sbi.nrFree \in Nat
    /\ sbi.ifree \subseteq 2 .. nr_inodes - 1 /\ sbi.nrFreeInodes \in Nat
    /\ core \in [Files -> InodeRecords]
    /\ incore \subseteq Files /\ idirty \subseteq incore
    /\ mount \in {"down", "up", "unmounting"}
    /\ op \in [call : AllCalls \cup {"none"}, ino : Files \cup {0},
               step : {"idle", "register", "data", "index", "blocks", "drop"},
               bno : DataBlocks \cup {0}]
    /\ sync.stage \in {"idle", "inodes", "fs", "bdev"}
    /\ sync.todo \subseteq Blocks \cup Files
    /\ crashed \in BOOLEAN
    /\ safe \subseteq Files /\ touched \subseteq Files /\ lossy \subseteq Files

\* The blocks a file uses by its inode record r in image d: the index block
\* and the entries i_blocks counts.
BlocksBy(d, r) == {r.ib} \cup {d[r.ib][k] : k \in 0 .. r.blocks - 2}
OnDisk(i) == disk[InodeBlock(i)][i]
FreeOnDisk == UNION {disk[b] : b \in BfreeBlocks}
FreeInodesOnDisk == UNION {disk[b] : b \in IfreeBlocks}

\* On disk file i is all there: it is listed, its inode and its blocks are
\* marked used, its index block names blocks, and they hold its bytes.
WholeOnDisk(i) ==
    LET r == OnDisk(i) IN
    /\ i \in disk[RootBlock] /\ i \notin FreeInodesOnDisk
    /\ r.ib \in DataBlocks /\ BlocksBy(disk, r) \subseteq DataBlocks \ FreeOnDisk
    /\ \A k \in 0 .. r.blocks - 2 : disk[disk[r.ib][k]] = DataOf(i)

\* A file that a completed sync covered, and that nobody used since, survives
\* a crash at any later moment, whatever other files, writeback, eviction and
\* an interrupted sync did meanwhile: if it was removed it stays removed, and
\* otherwise all of it is on disk as it was in memory.  Files with a change
\* that was not marked dirty are excepted.
SyncedFilesSurvive ==
    \A i \in safe \ lossy :
        /\ i \in disk[RootBlock] => WholeOnDisk(i)
        /\ mount = "up" =>
            /\ i \in disk[RootBlock] <=> i \in buf[RootBlock]
            /\ i \in incore /\ i \in buf[RootBlock] => core[i] = OnDisk(i)

\* What the cache and the inodes in memory have and the disk has not is marked
\* dirty, so that it will be written: for the file in use when the operation
\* returns, and for the others, except lossy ones, always.
DirtyCoversChanges ==
    mount = "up" =>
        LET files == buf[RootBlock] \ (lossy \cup {op.ino})
            blocks == 0 .. RootBlock \cup UNION {BlocksBy(buf, Iget(i)) : i \in files}
        IN
        /\ \A b \in blocks \ dirty : buf[b] = disk[b]
        /\ \A i \in (files \cap incore) \ idirty : core[i] = buf[InodeBlock(i)][i]

\* After an unmount whose sync did not fail, the partition is exact: counters
\* agree with the bitmaps, a file's inode and blocks are marked used, no block
\* is in two files, and nothing else is marked used.
UnmountIsExact ==
    mount = "down" /\ ~crashed =>
        LET files == disk[RootBlock] \ lossy
            Of(i) == BlocksBy(disk, OnDisk(i))
        IN
        /\ disk[SuperBlock].nrFree = Cardinality(FreeOnDisk)
        /\ disk[SuperBlock].nrFreeInodes = Cardinality(FreeInodesOnDisk) + 1
        /\ \A i \in files : WholeOnDisk(i)
        /\ \A i, j \in files : i # j => Of(i) \cap Of(j) = {}
        /\ lossy = {} =>
            /\ FreeOnDisk = DataBlocks \ UNION {Of(i) : i \in files}
            /\ FreeInodesOnDisk = (2 .. nr_inodes - 1) \ files
=============================================================================
