------------------------------ MODULE LightFile ------------------------------
(***************************************************************************)
(* One regular file under the "light" functions of ouichefs: insertion     *)
(* (ouichefs_light_write, src/write.c), reading (ouichefs_light_read,      *)
(* src/read.c) and defragmentation (ouichefs_defrag, src/defrag.c), with   *)
(* the index block, the data blocks and the free-block bitmap they use.    *)
(*                                                                         *)
(* A write is one action: the whole of ouichefs_light_write, with the      *)
(* point at which a block read or a user copy fails as a parameter.        *)
(* Defragmentation is one action per iteration of its loop, so that its    *)
(* termination is a real question.  One task uses the file at a time.      *)
(*                                                                         *)
(* An index entry is the pair of its block number and its size; the        *)
(* 32-bit packing of the two is the subject of module BlockEntry.          *)
(***************************************************************************)
EXTENDS Integers, SequencesExt

CONSTANTS BlockSize,    \* OUICHEFS_BLOCK_SIZE
          MaxEntries,   \* entries of an index block: OUICHEFS_BLOCK_SIZE >> 2
          Pool,         \* the data blocks the file can draw from
          Byte,         \* the values of a byte; 0 is one of them
          Bufs,         \* the user buffers that are written
          IoFaults,     \* whether reading a data block may fail
          CopyFaults,   \* whether copy_from_user may fault half way
          CopyDirs      \* the directions memcpy may copy in: subset of
                        \* {"forward", "backward"}

ASSUME ConstantsOK ==
  /\ BlockSize \in Nat \ {0}
  /\ MaxEntries \in Nat \ {0}
  /\ Pool \subseteq Nat \ {0} /\ IsFiniteSet(Pool)
  /\ 0 \in Byte
  /\ Bufs \subseteq Seq(Byte)
  /\ IoFaults \in BOOLEAN /\ CopyFaults \in BOOLEAN
  /\ CopyDirs \subseteq {"forward", "backward"} /\ CopyDirs # {}

MaxFileSize == BlockSize * MaxEntries
Slots == 0..MaxEntries-1

VARIABLES index,        \* index->blocks[]: block number and size of each slot
          data,         \* the content of the data blocks
          iBlocks,      \* inode->i_blocks: the index block counts as one
          iSize,        \* inode->i_size
          bfree,        \* the set bits of sbi->bfree_bitmap
          nrFree,       \* sbi->nr_free_blocks
          pc,           \* "idle", or "defrag" inside ouichefs_defrag's loop
          bli,          \* locals of ouichefs_defrag
          dataMoved,
          logicalPos

file == <<index, data, iBlocks, iSize, bfree, nrFree>>
vars == <<index, data, iBlocks, iSize, bfree, nrFree, pc, bli, dataMoved,
          logicalPos>>

Unallocated == [num |-> 0, size |-> 0]

IsEmptyBlock(e) == e.size = 0

TypeOK ==
  /\ index \in [Slots -> [num : Pool \cup {0}, size : 0..BlockSize]]
  /\ data \in [Pool -> [1..BlockSize -> Byte]]
  /\ iBlocks \in 0..MaxEntries+1
  /\ iSize \in 0..MaxFileSize
  /\ bfree \subseteq Pool
  /\ nrFree \in Nat
  /\ pc \in {"idle", "defrag"}
  /\ bli \in 0..MaxEntries
  /\ dataMoved \in 0..MaxFileSize
  /\ logicalPos \in 0..BlockSize

\* A file that ouichefs_create just made, on a freshly formatted partition.
Init ==
  /\ index = [k \in Slots |-> Unallocated]
  /\ data = [b \in Pool |-> [o \in 1..BlockSize |-> 0]]
  /\ iBlocks = 1
  /\ iSize = 0
  /\ bfree = Pool
  /\ nrFree = Cardinality(Pool)
  /\ pc = "idle"
  /\ bli = 0 /\ dataMoved = 0 /\ logicalPos = 0

-----------------------------------------------------------------------------
(* The steps of a write, as functions of the file they find.              *)

Here == [index |-> index, data |-> data, iBlocks |-> iBlocks,
         iSize |-> iSize, bfree |-> bfree, nrFree |-> nrFree]

Becomes(s) ==
  /\ index' = s.index /\ data' = s.data
  /\ iBlocks' = s.iBlocks /\ iSize' = s.iSize
  /\ bfree' = s.bfree /\ nrFree' = s.nrFree

AtLeast0(n) == IF n > 0 THEN n ELSE 0

CeilDiv(a, b) == (a + b - 1) \div b

\* The sum of the sizes of the first n blocks of an index.
SizeUpTo(idx, n) ==
  LET sum[k \in 0..MaxEntries] == IF k = 0 THEN 0 ELSE sum[k-1] + idx[k-1].size
  IN  sum[AtLeast0(n)]

\* i_blocks is unsigned: a total of -1 wraps and is too large.
SpaceAvailable(s, n) ==
  /\ n + s.iBlocks - 1 \in 0..MaxEntries
  /\ n <= s.nrFree

\* Mutant of ReserveSlot: the counter of free blocks is forgotten.
MutForgetCounter(s, k) ==
  IF s.index[k] # Unallocated \/ s.bfree = {} THEN s
  ELSE LET bno == Min(s.bfree)
       IN  [s EXCEPT !.index[k] = [num |-> bno, size |-> 0],
                     !.bfree = @ \ {bno},
                     !.iBlocks = @ + 1]

\* Slots that already hold a block are skipped.
ReserveSlot(s, k) ==
  IF s.index[k] # Unallocated \/ s.bfree = {} THEN s
  ELSE LET bno == Min(s.bfree)
       IN  [s EXCEPT !.index[k] = [num |-> bno, size |-> 0],
                     !.bfree = @ \ {bno},
                     !.nrFree = @ - 1,
                     !.iBlocks = @ + 1]

ReserveEmptyBlocks(s, start, n) ==
  FoldLeft(ReserveSlot, s, [i \in 1..n |-> start + i - 1])

ShiftBlocks(s, start, n, last) ==
  [s EXCEPT !.index =
     [k \in Slots |-> IF k \in start+n..last+n THEN s.index[k - n]
                      ELSE IF k \in start..last THEN Unallocated
                      ELSE s.index[k]]]

\* The block and offset of a position: the first block whose end is not
\* before it.  SizeIsSumOfBlocks makes sure that there is one for every
\* position up to the size of the file: ouichefs_light_write does not look at
\* the result of find_block_pos.
Reaches(idx, nb, pos) == {k \in 0..nb-1 : pos <= SizeUpTo(idx, k + 1)}

FindBlockPos(idx, nb, pos) ==
  IF pos = 0 THEN [bli |-> 0, lpos |-> 0]
  ELSE LET k == Min(Reaches(idx, nb, pos))
       IN  [bli |-> k, lpos |-> pos - SizeUpTo(idx, k)]

\* Overwrite the bytes of block content d from offset lpos on.
PutBytes(d, lpos, bytes) ==
  [o \in 1..BlockSize |-> IF o \in lpos+1..lpos+Len(bytes)
                          THEN bytes[o - lpos] ELSE d[o]]

Zeros(n) == [i \in 1..n |-> 0]

LastSlot(s) == AtLeast0(s.iBlocks - 2)

\* fill_to_reach_pos: blocks are added and sized, not written, until the file
\* reaches pos.
LastRoom(s) == LET last == s.index[LastSlot(s)]
               IN  IF last = Unallocated THEN 0 ELSE BlockSize - last.size

BlocksToFill(s, pos) ==
  CeilDiv(AtLeast0(pos - s.iSize - LastRoom(s)), BlockSize)

FillToReachPos(s, pos) ==
  LET toFill == pos - s.iSize
      start  == AtLeast0(s.iBlocks - 1)
      r      == ReserveEmptyBlocks(s, start, BlocksToFill(s, pos))
      first  == IF LastRoom(s) > 0 THEN AtLeast0(start - 1) ELSE start
      Before(k) == IF k = first THEN 0
                   ELSE (k - first) * BlockSize - r.index[first].size
      touched == {k \in Slots : k >= first /\ toFill > Before(k)}
      filled == [k \in Slots |->
                   IF k \in touched
                   THEN [r.index[k] EXCEPT !.size =
                           Min({@ + toFill - Before(k), BlockSize})]
                   ELSE r.index[k]]
      end    == Max(touched)
      full   == filled[end].size = BlockSize
  IN  [s    |-> [r EXCEPT !.index = filled, !.iSize = @ + toFill],
       bli  |-> IF full THEN end + 1 ELSE end,
       lpos |-> IF full THEN 0 ELSE filled[end].size,
       moveOld |-> FALSE, shiftOld |-> FALSE]

\* The other branch: the cursor is inside the file.
CursorInFile(s, pos) ==
  LET at == FindBlockPos(s.index, s.iBlocks - 1, pos)
  IN  [s    |-> s,
       bli  |-> at.bli,
       lpos |-> at.lpos,
       moveOld  |-> s.index[at.bli].size > at.lpos,
       shiftOld |-> at.bli # LastSlot(s)]

\* The entry under the cursor.  A cursor one past the last slot (the file was
\* just filled to its maximal size) reads the word behind the index block;
\* whatever it holds, no block is allocated and nothing is written.
EntryAt(s, k) == IF k \in Slots THEN s.index[k] ELSE Unallocated

BlocksToInsert(c, size) ==
    CeilDiv(AtLeast0(size - (BlockSize - c.lpos)), BlockSize)
  + (IF c.moveOld THEN 1 ELSE 0)
  + (IF EntryAt(c.s, c.bli) = Unallocated THEN 1 ELSE 0)

\* Pre-allocation after the block of the cursor.
Preallocate(c, n) ==
  LET start   == IF EntryAt(c.s, c.bli) = Unallocated THEN c.bli ELSE c.bli + 1
      shifted == IF c.shiftOld /\ n > 0
                 THEN ShiftBlocks(c.s, start, n, LastSlot(c.s)) ELSE c.s
  IN  ReserveEmptyBlocks(shifted, start, n)

\* Mutant of MoveOldContentTo: what was moved is not cleared.
MutMoveNoClear(s, from, to, lpos) ==
  LET src  == s.index[from]
      tail == SubSeq(s.data[src.num], lpos + 1, src.size)
  IN  [s EXCEPT !.data[s.index[to].num] = PutBytes(@, 0, tail),
                !.index[from].size = lpos,
                !.index[to].size = src.size - lpos]

\* The bytes of block `from` from lpos on go to the empty block `to`.
MoveOldContentTo(s, from, to, lpos) ==
  LET src  == s.index[from]
      n    == src.size - lpos
      tail == SubSeq(s.data[src.num], lpos + 1, src.size)
  IN  [s EXCEPT !.data[s.index[to].num] = PutBytes(@, 0, tail),
                !.data[src.num] = PutBytes(@, lpos, Zeros(n)),
                !.index[from].size = lpos,
                !.index[to].size = n]

\* Mutant of CopyIn: the offset is not reset after the first block.
MutKeepOffset(w, k) ==
  LET num  == w.s.index[k].num
      room == BlockSize - w.lpos
      n    == Min({room, Len(w.rest)})
  IN  IF n = 0 \/ w.ops = 0 THEN w
      ELSE [w EXCEPT !.s.data[num] = PutBytes(@, w.lpos, SubSeq(w.rest, 1, n)),
                     !.s.index[k].size = w.lpos + n,
                     !.rest = SubSeq(w.rest, n + 1, Len(w.rest)),
                     !.ops = @ - 1]

\* One iteration of the loop that copies the user's bytes into block k.
\* w.rest is what remains to be written and w.ops the number of iterations
\* before a failure; a copy that faults leaves w.residue bytes behind, which
\* the size of the block does not cover, and zeros after them.  A cursor at
\* the end of a full block has no room and ends the loop (-ENODATA).
CopyIn(w, k) ==
  LET num  == w.s.index[k].num
      room == BlockSize - w.lpos
      n    == Min({room, Len(w.rest)})
      m    == Min({w.residue, n})
  IN  CASE n = 0 -> w
        [] n > 0 /\ w.ops = 0 /\ w.residue = 0 -> w
        [] n > 0 /\ w.ops = 0 /\ w.residue > 0 ->
             [w EXCEPT !.s.data[num] =
                         PutBytes(@, w.lpos, SubSeq(w.rest, 1, m) \o Zeros(n - m)),
                       !.residue = 0]
        [] OTHER ->
             [w EXCEPT !.s.data[num] =
                         PutBytes(@, w.lpos, SubSeq(w.rest, 1, n)),
                       !.s.index[k].size = w.lpos + n,
                       !.rest = SubSeq(w.rest, n + 1, Len(w.rest)),
                       !.lpos = 0,
                       !.ops = @ - 1]

CopyLoop(s, c, buf, ops, residue) ==
  FoldLeft(CopyIn,
           [s |-> s, rest |-> buf, lpos |-> c.lpos, ops |-> ops,
            residue |-> residue],
           [i \in 1..AtLeast0(s.iBlocks - 1 - c.bli) |-> c.bli + i - 1])

\* Mutant of InsertBuffer: the size is counted as if the write overwrote.
MutOverwriteSize(c, buf, ops, residue) ==
  LET n == BlocksToInsert(c, Len(buf))
      r == Preallocate(c, n)
      m == IF c.moveOld THEN MoveOldContentTo(r, c.bli, c.bli + n, c.lpos) ELSE r
      w == CopyLoop(m, c, buf, IF c.moveOld THEN ops - 1 ELSE ops, residue)
      written == Len(buf) - Len(w.rest)
      pos == SizeUpTo(c.s.index, c.bli) + c.lpos
  IN  IF ~SpaceAvailable(c.s, n)
      THEN [s |-> c.s, written |-> 0, err |-> "ENOSPC"]
      ELSE IF c.moveOld /\ ops = 0
      THEN [s |-> r, written |-> 0, err |-> "EIO"]
      ELSE [s |-> [w.s EXCEPT !.iSize = Max({@, pos + written})],
            written |-> written, err |-> "none"]

\* Everything after the cursor is known: the file the call leaves, the number
\* of bytes written and the error.
InsertBuffer(c, buf, ops, residue) ==
  LET n == BlocksToInsert(c, Len(buf))
      r == Preallocate(c, n)
      m == IF c.moveOld THEN MoveOldContentTo(r, c.bli, c.bli + n, c.lpos) ELSE r
      w == CopyLoop(m, c, buf, IF c.moveOld THEN ops - 1 ELSE ops, residue)
      written == Len(buf) - Len(w.rest)
  IN  IF ~SpaceAvailable(c.s, n)
      THEN [s |-> c.s, written |-> 0, err |-> "ENOSPC"]
      ELSE IF c.moveOld /\ ops = 0
      THEN [s |-> r, written |-> 0, err |-> "EIO"]
      ELSE [s |-> [w.s EXCEPT !.iSize = @ + written],
            written |-> written,
            err |-> IF written = Len(buf) THEN "none"
                    ELSE IF c.lpos = BlockSize THEN "ENODATA" ELSE "EIO"]

\* ouichefs_light_write.  ops is the number of block operations that succeed
\* before one fails.
LightWriteResult(pos, buf, ops, residue) ==
  IF pos <= iSize
  THEN InsertBuffer(CursorInFile(Here, pos), buf, ops, residue)
  ELSE IF SpaceAvailable(Here, BlocksToFill(Here, pos))
  THEN InsertBuffer(FillToReachPos(Here, pos), buf, ops, residue)
  ELSE [s |-> Here, written |-> 0, err |-> "ENOSPC"]

\* More operations than a write ever makes.
NeverFails == MaxEntries + 1

-----------------------------------------------------------------------------
(* Actions                                                                *)

LightWrite(pos, buf, ops, residue) ==
  /\ pc = "idle"
  /\ pos + Len(buf) <= MaxFileSize
  /\ Becomes(LightWriteResult(pos, buf, ops, residue).s)
  /\ UNCHANGED <<pc, bli, dataMoved, logicalPos>>

DefragBegin ==
  /\ pc = "idle"
  /\ pc' = "defrag"
  /\ bli' = 0
  /\ dataMoved' = index[0].size
  /\ logicalPos' = index[0].size
  /\ UNCHANGED file

\* Mutant of MoreToMove: the loop stops a block too early.
MutStopEarly ==
  /\ dataMoved < iSize
  /\ (iBlocks < 2 \/ bli < iBlocks - 3)

\* The condition of the loop; i_blocks - 2 is unsigned.
MoreToMove ==
  /\ dataMoved < iSize
  /\ (iBlocks < 2 \/ bli < iBlocks - 2)

\* Mutant of BubbleUp: the loop swaps one block too few.
MutBubbleShort(idx, k, nb) ==
  [j \in Slots |-> IF j \in k..nb-3 THEN idx[j + 1]
                   ELSE IF j = nb - 2 /\ k <= nb - 2 THEN idx[k]
                   ELSE idx[j]]

\* Bubble up an empty block to the end of the index.
BubbleUp(idx, k, nb) ==
  [j \in Slots |-> IF j \in k..nb-2 THEN idx[j + 1]
                   ELSE IF j = nb - 1 /\ k <= nb - 1 THEN idx[k]
                   ELSE idx[j]]

DefragBubble ==
  /\ pc = "defrag" /\ MoreToMove
  /\ IsEmptyBlock(index[bli + 1])
  /\ index' = BubbleUp(index, bli + 1, iBlocks - 1)
  /\ UNCHANGED <<data, iBlocks, iSize, bfree, nrFree, pc, bli, dataMoved,
                 logicalPos>>

\* memcpy of the last len - n of len bytes to the front.  The regions may
\* overlap, which memcpy does not allow: a copy that starts at the far end
\* reads bytes it has already overwritten.
ShiftUp(d, len, n, dir) ==
  LET keep == len - n
      From(o) == IF dir = "forward" THEN o + n
                 ELSE o + n * CeilDiv(keep - o + 1, n)
  IN  [o \in 1..BlockSize |-> IF o <= keep THEN d[From(o)]
                              ELSE IF o <= len THEN 0 ELSE d[o]]

\* move_shift_block_content_to and the rest of the iteration.
DefragMove ==
  /\ pc = "defrag" /\ MoreToMove
  /\ ~IsEmptyBlock(index[bli + 1])
  /\ LET to   == index[bli]
         from == index[bli + 1]
         n    == Min({from.size, BlockSize - logicalPos})
         lpos == logicalPos + n
         idx  == [index EXCEPT ![bli + 1].size = @ - n, ![bli].size = @ + n]
     IN  /\ IF n = 0 THEN UNCHANGED <<data, index>>
            ELSE /\ index' = idx
                 /\ \E dir \in CopyDirs :
                      data' = [data EXCEPT
                        ![to.num] = PutBytes(@, logicalPos,
                                             SubSeq(data[from.num], 1, n)),
                        ![from.num] = ShiftUp(@, from.size, n, dir)]
         /\ IF lpos = BlockSize
            THEN /\ bli' = bli + 1
                 /\ logicalPos' = idx[bli + 1].size
                 /\ dataMoved' = dataMoved + n + idx[bli + 1].size
            ELSE /\ bli' = bli
                 /\ logicalPos' = lpos
                 /\ dataMoved' = dataMoved + n
  /\ UNCHANGED <<iBlocks, iSize, bfree, nrFree, pc>>

\* A block cannot be read: defragmentation stops where it is.
DefragError ==
  /\ IoFaults
  /\ pc = "defrag" /\ MoreToMove
  /\ ~IsEmptyBlock(index[bli + 1]) /\ logicalPos < BlockSize
  /\ pc' = "idle"
  /\ bli' = 0 /\ dataMoved' = 0 /\ logicalPos' = 0
  /\ UNCHANGED file

\* The second pass: the blocks after the last one in use are freed.
DefragFinish ==
  /\ pc = "defrag" /\ ~MoreToMove
  /\ LET first == IF IsEmptyBlock(index[bli]) THEN bli ELSE bli + 1
         freed == first..iBlocks-2
     IN  /\ bfree' = bfree \cup {index[k].num : k \in freed}
         /\ nrFree' = nrFree + Cardinality(freed)
         /\ index' = [k \in Slots |-> IF k \in freed THEN Unallocated
                                      ELSE index[k]]
         /\ iBlocks' = iBlocks - Cardinality(freed)
  /\ pc' = "idle"
  /\ bli' = 0 /\ dataMoved' = 0 /\ logicalPos' = 0
  /\ UNCHANGED <<data, iSize>>

DefragStep == DefragBubble \/ DefragMove \/ DefragFinish

\* Where nothing faults, every operation succeeds and nothing is left behind.
OpsBeforeFault == IF IoFaults \/ CopyFaults THEN 0..NeverFails ELSE {NeverFails}
Residues == IF CopyFaults THEN 0..BlockSize-1 ELSE {0}

Next ==
  \/ \E pos \in 0..MaxFileSize, buf \in Bufs, ops \in OpsBeforeFault,
        residue \in Residues : LightWrite(pos, buf, ops, residue)
  \/ DefragBegin \/ DefragStep \/ DefragError

\* A task inside ouichefs_defrag keeps running: nothing in the loop waits.
Spec == Init /\ [][Next]_vars /\ WF_vars(DefragStep)

-----------------------------------------------------------------------------
(* Reading: no step of its own, it changes nothing but the file position. *)

\* Mutant of ReadStep: the offset is kept for the next block.
MutReadKeepOffset(r, k) ==
  LET e == index[k]
      n == Min({AtLeast0(e.size - r.lpos), r.left})
  IN  [out  |-> r.out \o SubSeq(data[e.num], r.lpos + 1, r.lpos + n),
       left |-> IF n = 0 THEN 0 ELSE r.left - n,
       lpos |-> r.lpos]

\* One iteration of ouichefs_light_read: a block without bytes after the
\* cursor ends the loop.
ReadStep(r, k) ==
  LET e == index[k]
      n == Min({AtLeast0(e.size - r.lpos), r.left})
  IN  [out  |-> r.out \o SubSeq(data[e.num], r.lpos + 1, r.lpos + n),
       left |-> IF n = 0 THEN 0 ELSE r.left - n,
       lpos |-> 0]

\* The bytes ouichefs_light_read(size) returns at position pos.
LightRead(pos, size) ==
  LET nb == iBlocks - 1
      at == FindBlockPos(index, nb, pos)
  IN  IF pos > 0 /\ Reaches(index, nb, pos) = {} THEN <<>>
      ELSE FoldLeft(LAMBDA r, k : IF r.left = 0 THEN r ELSE ReadStep(r, k),
                    [out |-> <<>>, left |-> size, lpos |-> at.lpos],
                    [i \in 1..AtLeast0(nb - at.bli) |-> at.bli + i - 1]).out

-----------------------------------------------------------------------------
(* Properties                                                             *)

\* The bytes of the file, in order.
Content ==
  FlattenSeq([k \in 1..iBlocks-1 |->
                SubSeq(data[index[k - 1].num], 1, index[k - 1].size)])

\* The size of the inode is the sum of the sizes in the index: insertion,
\* filling and defragmentation each keep both (find_block_pos and the loop of
\* ouichefs_defrag rely on it).
SizeIsSumOfBlocks == iSize = SizeUpTo(index, iBlocks - 1)

\* Slots 0..i_blocks-2 hold distinct blocks, the others none, and every block
\* of the pool is either free or in exactly one slot: shifting, bubbling and
\* freeing lose no block and duplicate none, also when a write fails.
BlocksAccounted ==
  LET used == 0..iBlocks-2
  IN  /\ \A k \in Slots : k \in used <=> index[k].num # 0
      /\ \A j, k \in used : index[j].num = index[k].num => j = k
      /\ bfree = Pool \ {index[k].num : k \in used}
      /\ nrFree = Cardinality(bfree)

\* Bytes of a block past its size are zero, which is why a gap that
\* fill_to_reach_pos makes by raising sizes alone reads as zeros.
PaddingIsZero ==
  /\ \A k \in 0..iBlocks-2 : \A o \in index[k].size+1..BlockSize :
       data[index[k].num][o] = 0
  /\ \A b \in bfree : \A o \in 1..BlockSize : data[b][o] = 0

\* Whatever ouichefs_light_read returns, it is the bytes at the position that
\* was asked for, in order: it may be short, never wrong.
ReadsAreRight ==
  \A pos \in 0..iSize, size \in {1, BlockSize + 1, MaxFileSize} :
    IsPrefix(LightRead(pos, size), SubSeq(Content, pos + 1, iSize))

\* The file implements a sequence of bytes with insertion, see InsertFile.
Abstract == INSTANCE InsertFile WITH
              content <- Content,
              Gap <- IF CopyFaults THEN Byte ELSE {0}
ImplementsInsertion == Abstract!Spec

\* When defragmentation completes, the file uses as few blocks as its size
\* allows: the two passes of ouichefs_defrag miss no padding and no block.
IsCompact == iBlocks - 1 = CeilDiv(iSize, BlockSize)
DefragCompacts == [][DefragFinish => IsCompact']_vars

\* The loop of ouichefs_defrag terminates: every block it bubbles up is
\* empty, and one that is not comes closer until all data has moved.
DefragTerminates == pc = "defrag" ~> pc = "idle"
=============================================================================
