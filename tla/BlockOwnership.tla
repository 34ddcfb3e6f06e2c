--------------------------- MODULE BlockOwnership ---------------------------
(***************************************************************************)
(* Which file owns which block of an ouichefs partition.                   *)
(*                                                                         *)
(* The free-block bitmap and its counter (src/bitmap.h) are shared by all  *)
(* files.  Blocks are taken by ouichefs_create (the index block) and by    *)
(* reserve_empty_blocks, which both write functions use, and given back by *)
(* opening with O_TRUNC, by the second pass of ouichefs_defrag and by      *)
(* ouichefs_unlink.  None of this takes a lock: a step of this module is   *)
(* one iteration of one of those loops, and looking for a free bit and     *)
(* clearing it are two steps, so that tasks interleave as they may in the  *)
(* kernel.  With a single task the same module is the sequential system.   *)
(*                                                                         *)
(* What the bytes and the block sizes decide elsewhere (where a write      *)
(* inserts, how many blocks it needs, which blocks defragmentation         *)
(* empties; see LightFile) is a free choice here.                          *)
(***************************************************************************)
EXTENDS Integers, FiniteSets, Functions

CONSTANTS Tasks,        \* tasks inside the file system
          Files,        \* inodes of regular files
          NrBlocks,     \* sbi->nr_blocks
          FirstData,    \* the first block that is neither metadata nor the root
          MaxEntries,   \* entries of an index block: OUICHEFS_BLOCK_SIZE >> 2
          Word,         \* 2^32: sbi->nr_free_blocks is a uint32_t
          Calls,        \* the calls the tasks make
          IoFaults      \* whether reading a metadata block may fail

ASSUME ConstantsOK ==
  /\ NrBlocks \in Nat /\ FirstData \in 1..NrBlocks
  /\ MaxEntries \in Nat \ {0}
  /\ Word \in Nat /\ NrBlocks < Word
  /\ Calls \subseteq {"create", "write", "trunc", "defrag", "unlink"}
  /\ IoFaults \in BOOLEAN

Blocks == 0..NrBlocks-1
DataBlocks == FirstData..NrBlocks-1
Slots == 0..MaxEntries-1

VARIABLES bfree,        \* the set bits of sbi->bfree_bitmap
          nrFree,       \* sbi->nr_free_blocks
          indexBlock,   \* ci->index_block of a file, 0 if there is no file
          index,        \* the block numbers in its index block, 0 if none
          iBlocks,      \* inode->i_blocks
          pc,           \* where a task is, see PCs
          fil,          \* the file of the call
          bli,          \* the slot the loop of the call is at
          stop,         \* where the loop started or ends, see the actions
          bno           \* the block the task found, or scrubs

vars == <<bfree, nrFree, indexBlock, index, iBlocks, pc, fil, bli, stop, bno>>

PCs == {"idle", "create", "created", "reserve", "take", "trunc", "free",
        "unlink", "scrub", "overrun"}

TypeOK ==
  /\ bfree \subseteq Blocks
  /\ nrFree \in 0..Word-1
  /\ indexBlock \in [Files -> Blocks]
  /\ index \in [Files -> [Slots -> Blocks]]
  /\ iBlocks \in [Files -> Nat]
  /\ pc \in [Tasks -> PCs]
  /\ fil \in [Tasks -> Files]
  /\ bli \in [Tasks -> Nat]
  /\ stop \in [Tasks -> Nat]
  /\ bno \in [Tasks -> Blocks]

NoSlots == [k \in Slots |-> 0]

\* A formatted partition with no file but the root directory.
Init ==
  /\ bfree = DataBlocks
  /\ nrFree = Cardinality(DataBlocks)
  /\ indexBlock = [f \in Files |-> 0]
  /\ index = [f \in Files |-> NoSlots]
  /\ iBlocks = [f \in Files |-> 0]
  /\ pc = [p \in Tasks |-> "idle"]
  /\ fil \in [Tasks -> Files]
  /\ bli = [p \in Tasks |-> 0]
  /\ stop = [p \in Tasks |-> 0]
  /\ bno = [p \in Tasks |-> 0]

-----------------------------------------------------------------------------
(* src/bitmap.h                                                           *)

FirstFree == CHOOSE b \in bfree : \A c \in bfree : b <= c

\* Mutant of GetFreeBlock: the bit is not cleared.
MutKeepBit(b) ==
  /\ bfree' = bfree
  /\ nrFree' = IF b = 0 THEN nrFree
               ELSE IF nrFree = 0 THEN Word - 1 ELSE nrFree - 1

\* get_free_block, after find_first_bit has found b.  Block 0 is cleared and
\* then taken for the answer "none".
GetFreeBlock(b) ==
  /\ bfree' = bfree \ {b}
  /\ nrFree' = IF b = 0 THEN nrFree
               ELSE IF nrFree = 0 THEN Word - 1 ELSE nrFree - 1

\* Mutant of PutBlock: the counter is not increased.
MutForgetCounter(b) ==
  /\ bfree' = bfree \cup {b}
  /\ nrFree' = nrFree

PutBlock(b) ==
  /\ bfree' = bfree \cup {b}
  /\ nrFree' = IF nrFree = Word - 1 THEN 0 ELSE nrFree + 1

-----------------------------------------------------------------------------
Begin(p, call, f, at) ==
  /\ pc[p] = "idle"
  /\ pc' = [pc EXCEPT ![p] = call]
  /\ fil' = [fil EXCEPT ![p] = f]
  /\ bli' = [bli EXCEPT ![p] = at]

GoTo(p, place) == pc' = [pc EXCEPT ![p] = place]

\* The call returns and its locals are gone.
Return(p) ==
  /\ GoTo(p, "idle")
  /\ bli' = [bli EXCEPT ![p] = 0]
  /\ stop' = [stop EXCEPT ![p] = 0]
  /\ bno' = [bno EXCEPT ![p] = 0]

NextSlot(p) == bli' = [bli EXCEPT ![p] = @ + 1]

\* The VFS holds the lock of the directory around create and unlink.
DirectoryLocked ==
  \E q \in Tasks : pc[q] \in {"create", "created", "unlink", "scrub"}

(* ouichefs_new_inode and ouichefs_create: the index block of a new file. *)

CreateFind(p, f) ==
  /\ "create" \in Calls
  /\ ~DirectoryLocked
  /\ indexBlock[f] = 0
  /\ nrFree # 0 /\ bfree # {}
  /\ Begin(p, "create", f, 0)
  /\ bno' = [bno EXCEPT ![p] = FirstFree]
  /\ UNCHANGED <<bfree, nrFree, indexBlock, index, iBlocks, stop>>

CreateTake(p) ==
  /\ pc[p] = "create"
  /\ GetFreeBlock(bno[p])
  /\ IF bno[p] = 0 THEN Return(p)
     ELSE GoTo(p, "created") /\ UNCHANGED <<bli, stop, bno>>
  /\ UNCHANGED <<indexBlock, index, iBlocks, fil>>

\* The index block is scrubbed and the file entered in the directory.
CreateRegister(p) ==
  /\ pc[p] = "created"
  /\ indexBlock' = [indexBlock EXCEPT ![fil[p]] = bno[p]]
  /\ index' = [index EXCEPT ![fil[p]] = NoSlots]
  /\ iBlocks' = [iBlocks EXCEPT ![fil[p]] = 1]
  /\ Return(p)
  /\ UNCHANGED <<bfree, nrFree, fil>>

\* The index block cannot be read: it is given back.
CreateAbort(p) ==
  /\ IoFaults
  /\ pc[p] = "created"
  /\ PutBlock(bno[p])
  /\ Return(p)
  /\ UNCHANGED <<indexBlock, index, iBlocks, fil>>

(* space_available, shift_blocks and reserve_empty_blocks.                *)

\* Mutant of SpaceAvailable: the free blocks are not looked at.
MutNoFreeCheck(f, n) == n + iBlocks[f] - 1 \in 0..MaxEntries

\* i_blocks is unsigned: a total of -1 wraps and is too large.
SpaceAvailable(f, n) ==
  /\ n + iBlocks[f] - 1 \in 0..MaxEntries
  /\ n <= nrFree

\* Mutant of ShiftBlocks: the loop stops one slot early.
MutShiftShort(idx, start, n, last) ==
  [k \in Slots |-> IF k \in start+n+1..last+n THEN idx[k - n]
                   ELSE IF k \in start+1..last THEN 0
                   ELSE idx[k]]

ShiftBlocks(idx, start, n, last) ==
  [k \in Slots |-> IF k \in start+n..last+n THEN idx[k - n]
                   ELSE IF k \in start..last THEN 0
                   ELSE idx[k]]

\* A block lies behind those that i_blocks counts.  A cursor in it is not
\* found by find_block_pos, which leaves its result uninitialized then.
CursorLost(f) == \E k \in Slots : k >= iBlocks[f] - 1 /\ index[f][k] # 0

\* A write that needs n blocks with its cursor in slot at: simple writes and
\* filling have it behind the last block, insertion anywhere, and a lost
\* cursor is in any slot.  stop is the slot after the last one to reserve.
WriteBegin(p, f, at, n) ==
  LET start == IF index[f][at] = 0 THEN at ELSE at + 1
  IN  /\ "write" \in Calls
      /\ indexBlock[f] # 0
      /\ at = 0 \/ at < iBlocks[f] \/ CursorLost(f)
      /\ SpaceAvailable(f, n)
      /\ Begin(p, "reserve", f, start)
      /\ stop' = [stop EXCEPT ![p] = start + n]
      /\ index' = [index EXCEPT ![f] =
                     IF at < iBlocks[f] - 2
                     THEN ShiftBlocks(@, start, n, iBlocks[f] - 2) ELSE @]
      /\ UNCHANGED <<bfree, nrFree, indexBlock, iBlocks, bno>>

\* A lost cursor outside of the index block: what is there is anything.
WriteAstray(p, f) ==
  /\ "write" \in Calls
  /\ indexBlock[f] # 0
  /\ CursorLost(f)
  /\ Begin(p, "overrun", f, 0)
  /\ UNCHANGED <<bfree, nrFree, indexBlock, index, iBlocks, stop, bno>>

Reserving(p) == pc[p] = "reserve" /\ bli[p] < stop[p]

\* The slot holds a block already.
ReserveSkip(p) ==
  /\ Reserving(p) /\ bli[p] \in Slots
  /\ index[fil[p]][bli[p]] # 0
  /\ NextSlot(p)
  /\ UNCHANGED <<bfree, nrFree, indexBlock, index, iBlocks, pc, fil, stop, bno>>

ReserveFind(p) ==
  /\ Reserving(p) /\ bli[p] \in Slots
  /\ index[fil[p]][bli[p]] = 0
  /\ bfree # {}
  /\ bno' = [bno EXCEPT ![p] = FirstFree]
  /\ GoTo(p, "take")
  /\ UNCHANGED <<bfree, nrFree, indexBlock, index, iBlocks, fil, bli, stop>>

ReserveTake(p) ==
  /\ pc[p] = "take"
  /\ GetFreeBlock(bno[p])
  /\ IF bno[p] = 0
     THEN Return(p) /\ UNCHANGED <<index, iBlocks>>
     ELSE /\ index' = [index EXCEPT ![fil[p]][bli[p]] = bno[p]]
          /\ iBlocks' = [iBlocks EXCEPT ![fil[p]] = @ + 1]
          /\ NextSlot(p)
          /\ GoTo(p, "reserve")
          /\ UNCHANGED <<stop, bno>>
  /\ UNCHANGED <<indexBlock, fil>>

\* No free block, though space_available said there were enough.
ReserveFail(p) ==
  /\ Reserving(p) /\ bli[p] \in Slots
  /\ index[fil[p]][bli[p]] = 0
  /\ bfree = {}
  /\ Return(p)
  /\ UNCHANGED <<bfree, nrFree, indexBlock, index, iBlocks, fil>>

ReserveEnd(p) ==
  /\ pc[p] = "reserve" /\ bli[p] >= stop[p]
  /\ Return(p)
  /\ UNCHANGED <<bfree, nrFree, indexBlock, index, iBlocks, fil>>

(* ouichefs_open with O_TRUNC.                                            *)

\* A file whose size is not 0 has a data block.
TruncBegin(p, f) ==
  /\ "trunc" \in Calls
  /\ indexBlock[f] # 0 /\ iBlocks[f] > 1
  /\ Begin(p, "trunc", f, 0)
  /\ UNCHANGED <<bfree, nrFree, indexBlock, index, iBlocks, stop, bno>>

\* Mutant of PutSlot: the entry stays in the index.
MutKeepEntry(p) ==
  /\ PutBlock(index[fil[p]][bli[p]])
  /\ index' = index
  /\ NextSlot(p)

\* One iteration of a loop that frees the block of a slot.
PutSlot(p) ==
  /\ PutBlock(index[fil[p]][bli[p]])
  /\ index' = [index EXCEPT ![fil[p]][bli[p]] = 0]
  /\ NextSlot(p)

TruncPut(p) ==
  /\ pc[p] = "trunc" /\ bli[p] \in Slots
  /\ index[fil[p]][bli[p]] # 0
  /\ PutSlot(p)
  /\ UNCHANGED <<indexBlock, iBlocks, pc, fil, stop, bno>>

\* The loop runs to the first slot without a block, or to a zero word behind
\* the index block.
TruncEnd(p) ==
  /\ pc[p] = "trunc"
  /\ bli[p] \in Slots => index[fil[p]][bli[p]] = 0
  /\ iBlocks' = [iBlocks EXCEPT ![fil[p]] = 0]
  /\ Return(p)
  /\ UNCHANGED <<bfree, nrFree, indexBlock, index, fil>>

(* ouichefs_defrag.                                                       *)

\* Mutant of InFile: off by one.
MutInFile(f, i) == iBlocks[f] = 0 \/ i < iBlocks[f] - 2

\* Mutant of InFile: the index block is counted as a data block.
MutCountIndexBlock(f, i) == iBlocks[f] = 0 \/ i < iBlocks[f]

\* i < i_blocks - 1, where i_blocks is unsigned.
InFile(f, i) == iBlocks[f] = 0 \/ i < iBlocks[f] - 1

\* The index with the entries of the slots in use in another order.
Permuted(idx, used, order) ==
  [k \in Slots |-> IF k \in used THEN idx[order[k]] ELSE idx[k]]

\* The first pass permutes the slots in use; the blocks from slot first on are
\* the empty ones.  stop is where the second pass starts.
DefragBegin(p, f, order, first) ==
  LET used == 0..iBlocks[f]-2
  IN  /\ "defrag" \in Calls
      /\ indexBlock[f] # 0
      /\ order \in Bijection(used, used)
      /\ first = 0 \/ first < iBlocks[f]
      /\ Begin(p, "free", f, first)
      /\ stop' = [stop EXCEPT ![p] = first]
      /\ index' = [index EXCEPT ![f] = Permuted(@, used, order)]
      /\ UNCHANGED <<bfree, nrFree, indexBlock, iBlocks, bno>>

DefragPut(p) ==
  /\ pc[p] = "free" /\ bli[p] \in Slots
  /\ InFile(fil[p], bli[p])
  /\ PutSlot(p)
  /\ UNCHANGED <<indexBlock, iBlocks, pc, fil, stop, bno>>

\* Mutant of DefragEnd: i_blocks is decreased in the loop and after it.
MutDecreaseTwice(p) ==
  /\ pc[p] = "free"
  /\ ~InFile(fil[p], bli[p])
  /\ iBlocks' = [iBlocks EXCEPT ![fil[p]] = @ - 2 * (bli[p] - stop[p])]
  /\ Return(p)
  /\ UNCHANGED <<bfree, nrFree, indexBlock, index, fil>>

DefragEnd(p) ==
  /\ pc[p] = "free"
  /\ ~InFile(fil[p], bli[p])
  /\ iBlocks' = [iBlocks EXCEPT ![fil[p]] = @ - (bli[p] - stop[p])]
  /\ Return(p)
  /\ UNCHANGED <<bfree, nrFree, indexBlock, index, fil>>

(* ouichefs_unlink.                                                       *)

UnlinkBegin(p, f) ==
  /\ "unlink" \in Calls
  /\ ~DirectoryLocked
  /\ indexBlock[f] # 0
  /\ Begin(p, "unlink", f, 0)
  /\ UNCHANGED <<bfree, nrFree, indexBlock, index, iBlocks, stop, bno>>

UnlinkSkip(p) ==
  /\ pc[p] = "unlink" /\ bli[p] \in Slots
  /\ InFile(fil[p], bli[p])
  /\ index[fil[p]][bli[p]] = 0
  /\ NextSlot(p)
  /\ UNCHANGED <<bfree, nrFree, indexBlock, index, iBlocks, pc, fil, stop, bno>>

\* The block is put in the bitmap first and scrubbed after that.
UnlinkPut(p) ==
  /\ pc[p] = "unlink" /\ bli[p] \in Slots
  /\ InFile(fil[p], bli[p])
  /\ index[fil[p]][bli[p]] # 0
  /\ PutBlock(index[fil[p]][bli[p]])
  /\ bno' = [bno EXCEPT ![p] = index[fil[p]][bli[p]]]
  /\ GoTo(p, "scrub")
  /\ UNCHANGED <<indexBlock, index, iBlocks, fil, bli, stop>>

\* Mutant of UnlinkScrub: the loop does not advance.
MutStay(p) ==
  /\ pc[p] = "scrub"
  /\ bli' = bli
  /\ GoTo(p, "unlink")
  /\ UNCHANGED <<bfree, nrFree, indexBlock, index, iBlocks, fil, stop, bno>>

UnlinkScrub(p) ==
  /\ pc[p] = "scrub"
  /\ NextSlot(p)
  /\ GoTo(p, "unlink")
  /\ UNCHANGED <<bfree, nrFree, indexBlock, index, iBlocks, fil, stop, bno>>

\* The index is scrubbed, the inode cleaned and the index block freed.
DropFile(p) ==
  /\ index' = [index EXCEPT ![fil[p]] = NoSlots]
  /\ iBlocks' = [iBlocks EXCEPT ![fil[p]] = 0]
  /\ indexBlock' = [indexBlock EXCEPT ![fil[p]] = 0]
  /\ PutBlock(indexBlock[fil[p]])
  /\ Return(p)
  /\ UNCHANGED fil

UnlinkEnd(p) ==
  /\ pc[p] = "unlink"
  /\ ~InFile(fil[p], bli[p])
  /\ DropFile(p)

\* The index block cannot be read: the blocks of the file are lost.
UnlinkLose(p) ==
  /\ IoFaults
  /\ pc[p] = "unlink" /\ bli[p] = 0
  /\ DropFile(p)

\* A loop leaves the index block: what it reads there is anything.
Overrun(p) ==
  /\ bli[p] >= MaxEntries
  /\ \/ Reserving(p)
     \/ pc[p] = "trunc"
     \/ pc[p] \in {"free", "unlink"} /\ InFile(fil[p], bli[p])
  /\ GoTo(p, "overrun")
  /\ UNCHANGED <<bfree, nrFree, indexBlock, index, iBlocks, fil, bli, stop, bno>>

-----------------------------------------------------------------------------
Call(p) ==
  \E f \in Files :
    \/ CreateFind(p, f)
    \/ \E at \in Slots, n \in 1..MaxEntries+1 : WriteBegin(p, f, at, n)
    \/ WriteAstray(p, f)
    \/ TruncBegin(p, f)
    \/ \E order \in Bijection(0..iBlocks[f]-2, 0..iBlocks[f]-2),
          first \in 0..MaxEntries : DefragBegin(p, f, order, first)
    \/ UnlinkBegin(p, f)

Step(p) ==
  \/ CreateTake(p) \/ CreateRegister(p) \/ CreateAbort(p)
  \/ ReserveSkip(p) \/ ReserveFind(p) \/ ReserveTake(p) \/ ReserveFail(p)
  \/ ReserveEnd(p)
  \/ TruncPut(p) \/ TruncEnd(p)
  \/ DefragPut(p) \/ DefragEnd(p)
  \/ UnlinkSkip(p) \/ UnlinkPut(p) \/ UnlinkScrub(p) \/ UnlinkEnd(p)
  \/ UnlinkLose(p)
  \/ Overrun(p)

Next == \E p \in Tasks : Call(p) \/ Step(p)

\* A task inside a call keeps running: none of the loops waits for anything.
Spec == Init /\ [][Next]_vars /\ \A p \in Tasks : WF_vars(Step(p))

-----------------------------------------------------------------------------
(* Properties                                                             *)

\* No block has two owners: a block is in at most one slot of one file's
\* index, is not the index block of any file at the same time, and is the
\* index block of at most one file.  This is what get_free_block is for
\* ("Return an unused block number and mark it used.").
NoSharedBlock ==
  \A f, g \in Files :
    /\ \A j, k \in Slots :
         index[f][j] # 0 /\ index[f][j] = index[g][k] => f = g /\ j = k
    /\ \A k \in Slots : index[f][k] # 0 => index[f][k] # indexBlock[g]
    /\ indexBlock[f] # 0 /\ indexBlock[f] = indexBlock[g] => f = g

\* The entry of slot k of f is one that ouichefs_unlink has freed already.
FreedByUnlink(f, k) ==
  \E p \in Tasks : /\ fil[p] = f
                   /\ \/ pc[p] \in {"unlink", "overrun"} /\ k < bli[p]
                      \/ pc[p] = "scrub" /\ k <= bli[p]

\* A block that some file refers to is marked used in the bitmap, except for
\* those an unlink under way has put back.  Every loop that frees blocks has
\* to forget the entries it frees for this to hold.
OwnedIsUsed ==
  \A f \in Files :
    /\ indexBlock[f] \in bfree => indexBlock[f] = 0
    /\ \A k \in Slots :
         index[f][k] \in bfree => index[f][k] = 0 \/ FreedByUnlink(f, k)

\* sbi->nr_free_blocks, which space_available trusts, is the number of free
\* bits of the bitmap between any two steps of any call.
FreeCountExact == nrFree = Cardinality(bfree)

\* Every data block is free, or some file refers to it, or the task that
\* creates a file has it in hand: no sequence of calls loses a block.
NoLeak ==
  \A b \in DataBlocks :
    \/ b \in bfree
    \/ \E f \in Files : b = indexBlock[f] \/ b \in Range(index[f])
    \/ \E p \in Tasks : pc[p] = "created" /\ bno[p] = b

\* Once space_available has said yes, reserve_empty_blocks cannot fail: the
\* slots it has still to fill lie in the index block and the bitmap has a
\* block for each.  ouichefs_light_write ignores the failure.
PrecheckSuffices ==
  \A p \in Tasks :
    /\ Reserving(p) => /\ stop[p] <= MaxEntries
                       /\ stop[p] - bli[p] <= Cardinality(bfree)
    /\ pc[p] # "overrun"

Busy(f) == \E p \in Tasks : pc[p] # "idle" /\ fil[p] = f

\* Between two calls on a file its blocks occupy the first slots without a
\* gap and i_blocks counts them and the index block ("Number of data blocks
\* in the file (without the index block)" is i_blocks - 1).
IndexIsDense ==
  \A f \in Files : indexBlock[f] # 0 /\ ~Busy(f) =>
    /\ iBlocks[f] > 0
    /\ \A k \in Slots : index[f][k] # 0 <=> k < iBlocks[f] - 1

\* The superblock, the inode store, the bitmaps and the root directory are
\* never marked free and never become part of a file.
SystemAreaSafe ==
  /\ bfree \subseteq DataBlocks
  /\ \A f \in Files : /\ indexBlock[f] \in DataBlocks \cup {0}
                      /\ Range(index[f]) \subseteq DataBlocks \cup {0}

\* Every call returns: the loops over the slots of a file end.  (The first
\* pass of ouichefs_defrag is one step here, see DefragTerminates of LightFile.)
CallsReturn == \A p \in Tasks : pc[p] # "idle" ~> pc[p] = "idle"
=============================================================================
