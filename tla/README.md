# Verification of ouiche_fs with insertion

ouiche_fs is a small Linux file system (kernel module in `src/src/`, formatter in
`src/mkfs/`). This branch of it adds *insertion*: a write in the middle of a file
shifts what is behind it, which makes blocks partly filled, and a defragmentation
call that packs them again. This directory holds TLA+ models of its parts, TLC
configurations that check them on small instances, and TLAPS proofs of the main
results for every size. `PROJECT.json` lists runs, theorems, hazards, and for each
definition the source lines it stands for.

## The system

| Part | State | Operations | What makes it hard |
|---|---|---|---|
| Block and inode allocator (`bitmap.h`) | two bitmaps, two counters | find and clear a bit, set a bit | no lock; find and clear are two steps; counter and bitmap can drift apart |
| Index entry (`bitmap.h`, `ouichefs.h`) | one word: number, size, flag | set, grow, shrink, clear | 4096 does not fit 12 bits; numbers of more than 19 bits |
| Insertion (`write.c`, `file.c`) | index block, block sizes, `i_size`, `i_blocks` | `ouichefs_light_write`: fill a gap, split a block, reserve, copy | cursor at block ends, full index, last free block, a failure in the middle |
| Reading (`read.c`) | position | `ouichefs_light_read` | partly filled and empty blocks |
| Defragmentation (`defrag.c`) | the same index and blocks | move bytes up, bubble empty blocks away, free the rest | termination; overlapping `memcpy` |
| Simple and cached read/write (`write.c`, `read.c`, `file.c`) | the same, plus the page cache | `ouichefs_write`, `ouichefs_read`, `ouichefs_read_cached`, address space operations | no sizes in the entries; a block in buffers and in pages |
| Open with `O_TRUNC` (`file.c`) | index, `i_blocks` | put all blocks | `i_blocks` becomes 0 instead of 1 |
| Creation and deletion (`inode.c`) | inode, index block, parent directory | create, mkdir, unlink, rmdir | undoing after an error; freeing before scrubbing |
| Directories (`inode.c`, `dir.c`) | 128 slots, dense from the front | lookup, rename, iterate | compaction under a listing; full directories; 28-character names |
| Mounting and synchronisation (`super.c`) | superblock, bitmaps, inodes, on disk, in buffers and in memory | fill_super, write_inode, sync_fs | sync between the steps of an operation; crash between two writes |
| Interface (`ioctl.c`, `debug.h`, `fs.c`) | the chosen read and write functions | ioctl, sysfs | switching while files are in use |
| mkfs (`mkfs-ouichefs.c`) | the initial disk image | format | initial counters |

Every file operation meets the others in the allocator and in the index of its
file. The VFS serialises operations on one directory; it does not serialise
operations on different files, and `ouichefs_light_write` does not take the inode
lock.

## Modules

| Module | Models | Proofs |
|---|---|---|
| `InsertFile` | what a file promises: a sequence of bytes with insertion at a position | |
| `LightFile` | one file down to bytes: insertion, filling, reading, defragmentation; implements `InsertFile` | |
| `BlockOwnership` | all files and tasks down to blocks: who owns which block at each loop iteration | `BlockOwnershipProofs` |
| `BlockEntry` | the word of an index entry | `BlockEntryProofs` |
| `Namespace` | directories, inodes, link counts, renames and a listing | `NamespaceProofs`, `NamespaceTreeProofs` |
| `OverwriteFile` | what a file promises otherwise: a sequence of bytes that writes overwrite | |
| `FileModes` | one file under every read and write function, with pages and the index buffer; extends `LightFile`, implements `OverwriteFile` | |
| `Persistence` | mkfs, mount, sync, writeback, eviction and crash, with what each file operation marks dirty or writes | `PersistenceOperations`, `PersistenceKernel`, `PersistenceProofs` |

The `MC` modules give constants their values for TLC.

**LightFile.** `index` is the array of the index block (number and size per slot),
`data` the blocks, `iSize` and `iBlocks` the inode fields. `LightWrite` is a whole
call of `ouichefs_light_write`; it is built from operators named after the functions
it calls (`FillToReachPos`, `ShiftBlocks`, `MoveOldContentTo`, `ReserveEmptyBlocks`,
`CopyLoop`). The inputs `IoFaults` and `CopyFaults` make a block read fail or a user
copy stop half way. Defragmentation is one step per iteration of its loop
(`DefragBubble`, `DefragMove`, `DefragFinish`, `DefragError`). The refinement mapping
concatenates the used bytes of the blocks. `memcpy` on overlapping regions is
undefined; `CopyDirs` is the set of directions it may take.

**BlockOwnership.** A task has a program counter and the locals of the call it is in.
Each iteration of a loop over slots is a step, and finding a free bit and clearing it
are two. Sizes and bytes are abstracted: where a write inserts, how many blocks it
needs and which blocks defragmentation empties are free choices, limited by the
code's guards. `O_TRUNC` can leave the cursor of a later write uninitialised
(`CursorLost`); the model then allows any value, and a value outside the index leads
to `overrun`, a state without successors that stands for arbitrary memory. Locals
are reset when a call returns. `i_blocks++` is one step. A create that finds the
bitmap empty although the counter is not 0 changes nothing. The first pass of
defragmentation permutes the index in one step; its iterations are in `LightFile`.
An error there is the case in which nothing is freed.

**BlockEntry.** The word is an integer, its fields are products and remainders of the
spans of the number and the size, which are constants (2^19 and 2^12 in the code).
The variables `num` and `size` record what the operations were asked to store.
`set_block_number` is used on fresh entries only, as in the code.

**Namespace.** `files` holds the slots of each directory, `kind` and `nlink` the
inode fields, `ifree` and `nrFreeInodes` the allocator. Operations on directories are
one step each, since the VFS holds the directory locks; a listing is one step per
entry, since it keeps only a position between calls. `Stored` is what `strscpy` keeps
of a name: 27 characters. `torn` is history: the inodes on which a rename returned
`-EIO` after inserting the new entry. `astray` marks the steps that leave the
directory block; nothing follows them in the model. `stable` and `gone` of a listing
are history for the two listing properties. The checks of the VFS (a name is looked
up before it is created, a directory is not moved below itself) are guards marked
external. Inode numbers are taken in one step; the race for them is the one
`BlockOwnership` shows for blocks.

**FileModes.** Adds to `LightFile` the pages of the file, and the disk copy and the
dirty flag of the index block. `SimpleWrite` is a call of `ouichefs_write`;
`PageWrite` is one page of a write through the page cache, `ouichefs_write_begin` to
`ouichefs_write_end`. `SimpleRead` and `CachedRead` are what the two other reading
functions return. Which function is used is chosen anew for every call, since
sysfs changes it for open files. The kernel writes pages and the index block back
and drops clean pages at any time; `Flush` is `flush_cache` of the user programs. A
block can be cached in a buffer and in a page at the same time and nothing in the
code keeps the two together, so the model assumes what the tests and benchmarks do:
a file is flushed between uses through buffers and through pages, and it is written
either by overwriting or by insertion. `IndexStays` says whether the buffer of the
index block survives a flush.

**Persistence.** A block exists on disk (`disk`), in the buffer cache (`buf`,
`dirty`), and what mounting copies exists in memory (`sbi`, and `core`, `incore`,
`idirty` for inodes). Operations on files are split where something is written or
released: creation in two steps, a write in three, unlink in three. Between them
sync, the flusher, eviction and a crash may come. Sync is modelled as
`sync_filesystem` calls it: `ouichefs_sync_fs` without waiting, the dirty inodes,
`ouichefs_sync_fs` with waiting block by block, the buffers dirty by then; a block
that cannot be read ends it. Sync passes over an inode or buffer that somebody else
wrote meanwhile. A clean buffer that differs from the disk can be
dropped, unless an operation holds it, which is how a missing `mark_buffer_dirty`
shows. `safe`, `touched` and `lossy` are history: files that a sync covered and
nobody used since, files used while a sync runs, files with a change that may never
be written. Bytes are abstracted to the file they belong to.

## Runs

| Run | Result | Shows |
|---|---|---|
| `insert` | holds | the block structure implements a sequence of bytes; sizes, blocks and padding are consistent; reads return the bytes that are there; defragmentation ends, with as few blocks as the size needs |
| `insert_faults` | holds | with failing reads and copies a failed write has inserted a prefix and left a consistent file |
| `ownership` | holds | one task: no block is lost or taken from the system area; counter exact; the space check suffices; calls return |
| `ownership_trunc` | holds | with `O_TRUNC` and failing reads, still no block is shared or free while in use |
| `shared` | violated | two tasks get the same block |
| `packing` | holds | an entry stands for its number and size after any operations |
| `namespace` | holds | the tree is whole, names unique, link counts and inode bitmap right; a listing commits nothing twice and misses only what removals moved behind it |
| `namespace_faults` | holds | a 28-character name and a rename that fails half way do no harm beyond that file: directories stay dense, other inodes keep their one entry, the inode bitmap stays right |
| `rename_full` | violated | a rename out of a full directory scans past the block |
| `persist` | holds | a file that a sync covered survives every later crash; what changed in memory is marked dirty; a clean unmount leaves exact bitmaps and counters |
| `modes` | holds | overwriting through buffers and pages implements a sequence of bytes; the two other reads are right within their limits; a write for which there is space is complete; no block is lost, whatever functions are used |
| `lost_index` | violated | a block allocated by a write through the page cache is missing from the index after a flush |

A read at the end of a block that is not the last returns nothing, and a write past
the end that fails for lack of space has already added the gap; `ReadsAreRight` and
`InsertFile` allow both, since the code does both. `WritesComplete` excepts an
insertion at the end of a full block, where `ouichefs_light_write` reserves a block,
writes nothing and returns `-ENODATA`. `ModeReadsAreRight` claims `ouichefs_read` up
to the end of the file, and `ouichefs_read_cached` within one block and after a
flush: it copies every block to the start of the user's buffer, and pages behind the
size of a fragmented file are zeros.

`SyncedFilesSurvive` and `DirtyCoversChanges` except files with a change that the
code does not mark dirty: an `O_TRUNC` (the index buffer stays clean), a write that
reserved a block and wrote nothing, and an inode whose block of the store could not
be read when it was written back. `UnmountIsExact` claims nothing after a sync that
failed. mkfs makes the counter of free inodes one too large; the properties state
that distance.

The content of a file survives defragmentation if `memcpy`, which `defrag.c:41` uses
on overlapping regions, copies forwards; the runs `insert` and `insert_faults`
assume that. `modes` allows both directions and claims the structure only.

The violated runs check what a comment, test or README of the repository says; the
findings in `PROJECT.json` quote it.

### Bounds

- `insert`: blocks of 3 bytes, 4 index slots, 3 blocks, buffers of 0, 1 and 3 bytes.
  A block can be empty, partly filled and full, a write can split a block, need a new
  one, meet the last free block and start past the end. There are fewer blocks than
  slots, so the index never fills here; `insert_faults` has as many blocks as slots
  (blocks of 2 bytes, 3 slots) and fills it.
- `ownership`: two files, five data blocks, 4 slots: both files can exist and compete
  for the last block. `Word` (2^32 in the code) is larger than any true count, so a
  counter that drifts is seen. `ownership_trunc` has four data blocks, 3 slots and
  `Word` 8, because there counters really drift through all values; files are
  symmetric.
- `packing`: 16 numbers and sizes up to 8, all operations with all arguments.
- `namespace`: the root and three more inodes, 3 slots, three symmetric names: a
  directory can be full, be moved with its content, and lose an entry in the middle.
  `namespace_faults`: two more inodes, 2 slots, one failure; `LinkSpan` (2^32 in the
  code) is 8, as link counts wrap after such a failure.
- `modes`: blocks of 2 bytes, 3 slots, 3 blocks, buffers of 1, 2 and 3 bytes: writes
  within a block, across blocks and past the end, a full index and a full partition,
  and blocks that a failed write leaves behind.
- `persist`: 10 blocks, of which 3 are data blocks, bitmaps of two blocks each, two
  files with at most one data block. At most four operations (`MaxCalls`), one sync
  or unmount (`MaxSyncs`), one writeback, eviction or failing read outside sync
  (`MaxEvents`), and one crash: enough for a file to be created, written and synced,
  and another one to be given what an unlink freed, before the crash. More of
  each multiplies the states beyond what TLC explores in minutes.

Deadlock is not checked where the model has states without a continuation
(`overrun`, `astray`) or uses up its bounds (`persist`).

### Fairness

`DefragTerminates` and `CallsReturn` assume weak fairness of the steps of a running
call: of the defragmentation loop, and of each task. A kernel task that is not
waiting for anything continues to run, and no step of these loops waits. No fairness
is assumed of starting a call. Termination of defragmentation is shown for files
written by insertion only; see the hazards for files written by `ouichefs_write`.

## Proofs

`BlockOwnershipProofs` proves, for any files, blocks and slots, with `O_TRUNC` and
failing reads, and for one task (`Sequential`): `TypeOK`, `NoSharedBlock`,
`OwnedIsUsed`. The inductive invariant `OwnershipInv` adds that the block a task
holds between finding and registering it is not owned (`InHand`), and that counts of
slots stay in the index (`BlocksBounded`); without the first, a task could register a
block that became another's. The assumption of one task is needed: the run `shared`
is the counterexample with two.

It goes on to prove, for one task that does not use `O_TRUNC`: `FreeCountExact`,
`SystemAreaSafe`, `PrecheckSuffices`, `IndexIsDense`. The invariant `Counted` says at each program counter how the filled slots, `i_blocks`, the counter and the
reservation still to be made relate. `O_TRUNC` has to be excluded, because it leaves
`i_blocks` one too small.

Last it proves `NoLeak` under the same assumptions, if every block can be read (when the index block cannot, `ouichefs_unlink` loses the blocks of the file: the
action `UnlinkLose`). The invariant `Kept` adds to the two above that the index of a
file that is not there is empty, so that creating one wipes out no entry, and that
`ouichefs_unlink` has freed all entries its loop has passed. That the index is dense
makes the loop pass all of them, and makes `shift_blocks` drop none
(`ShiftDropsNothing`).

`BlockEntryProofs` proves `PackingExact` for all spans, if block numbers fit their
field (`NumbersFit`). On a partition of more than 2^19 blocks they do not, and
nothing in mkfs or at mounting ensures it.

`NamespaceProofs` proves `DirectoriesDense` and `InodesAccounted` for any number of
inodes and slots, with renames that fail half way, and `NamesUnique` if no name has
28 characters (`ShortNames`; for longer ones it is false). The inductive invariant
`NamespaceInv` describes one block (`IsBlock`: a slot has a name if and only if it
has an inode, and no hole precedes an entry) and adds the types of the slots and
inodes. Lemmas on `AddEntry`, `RemoveEntry` and a rename in place show that each keeps
`IsBlock` and distinct names for one block; `RemoveEntryKeeps` does not assume that
the scan found the entry, because a torn rename can make it miss.

`NamespaceTreeProofs` proves the rest of what the run checks as invariants:
`TypeOK`, `TreeIsWhole`, `LinkCounts`, `NoDuplicateListing`, `SkipsAreBounded`. The
inductive invariant `TreeInv` adds to `NamespaceInv` that only directories have
entries, that nothing lists the root, that an inode no rename has torn has one entry
(`OneEntry`), and `NoIsland`: as long as no rename is torn, every set of inodes in use that does not contain the
root has a member listed outside the set. `TreeIsWhole` is about `Subtree`, the
entries reached from the root level by level; it is not inductive itself, since
moving a directory changes the levels of everything below it. `NoIsland` is kept by
comparing one set before and after the step, and `SubtreeIsLeastClosed` leads from it
to `Subtree`. Operations on a directory are reduced to three shapes (a slot is
filled; the last entry moves to the slot removed; nothing changes), and a listing is
followed through these: at any time the entries before its position that it has not
reported are no more than the removals since it began, and none it reported that
stayed is ahead of it.

`PersistenceOperations` (the invariant, and the steps of operations that take and
return no block), `PersistenceKernel` (writeback, eviction, sync, crash, mount) and
`PersistenceProofs` (the other steps, and the theorems) prove `TypeOK`,
`SyncedFilesSurvive`, `DirtyCoversChanges` and `UnmountIsExact` for every size of the
partition, its regions and its index blocks, any number of files, calls, syncs,
writebacks, evictions and failing reads, and for a sync or a crash between any two
steps. `PersistenceAssumption` is all that is assumed, with the comment in mkfs that
the blocks before the data fit the first block of the bitmap. The inductive
invariant `PersistenceInv` has a part for each state of the partition.

- Mounted (`UpInv`): each file that lost nothing has distinct blocks with its bytes
  (`Laid`), apart from the block a write has reserved and not yet written; nothing of
  it is free and what changed is dirty, apart from the blocks an operation is about
  to mark (`Kept`, `Loose`); files are disjoint; counters and bitmaps match. A safe
  file is on disk as in memory, and all copies of the bitmaps, in memory, in the cache
  and on disk, mark its blocks used (`SafeInv`). The last is needed because an old
  bitmap on disk would hand the blocks out after a crash.
- During a sync (`SyncInv`): of a file nobody touched since it began, each part is on
  disk or on the list of the stage at which sync is.
- Not mounted (`DownInv`): what a mount will read is what a mounted file system needs.
  Files that are neither safe nor lossy do not exist here.

Steps of operations are reduced to one frame (`OpFrame`: one file, and blocks that are
its own or free), steps of the kernel and of sync to another each (`KernelFrame`,
`SyncFrame`); that other files keep their invariant is proved once per frame. TLC has
checked `PersistenceInv` on the instance of the run `persist`.

Each proof has one lemma per action or group of like actions. Only model-checked:
everything about `LightFile` and `FileModes`, the refinements (the mappings
concatenate sequences, which takes induction over data), the liveness properties,
and all that concerns two tasks in `BlockOwnership`. Liveness is outside what the
prover handles. Where a proof needs the least of a set of numbers (the first free bit,
the first level of a tree at which something fails) it takes it from the
well-foundedness of `<` (`MinFacts`).

## Not modelled

- Contents under concurrent writes to one file; more than the first fault with two
  tasks (run `shared`), after which nothing holds.
- Using one file both by overwriting and by insertion, or through buffers and pages
  without a flush. The code does not prevent it and the results are arbitrary: the
  word of an entry with a size is no block number, and defragmentation of a file
  written by `ouichefs_write` frees its only block, or does not end.
- Holes, which the page cache can leave when a write starts past the end; the simple
  functions then use block 0. A `block_write_begin` that fails, a user copy that
  faults in `ouichefs_write`.
- Two tasks creating in different directories that find the same inode number: the
  race is the one `BlockOwnership` shows for blocks.
- Inodes in the VFS cache after removal (open unlinked files, removed directories),
  which needs the dentry and inode caches of the kernel.
- Partitions on which the blocks before the data do not fit in the first block of
  the bitmap: `write_bfree_blocks` supposes that they do, and so does `Persistence`.
- Directories other than the root, failing mounts and the time stamps in
  `Persistence`; the link count of the root on disk.
- Reports by ioctl and statfs, which change nothing; module registration; the user
  programs but for `flush_cache`.
