------------------------------ MODULE FileModes ------------------------------
(***************************************************************************)
(* One regular file under all its read and write functions, which sysfs    *)
(* exchanges at any time (src/debug.h): ouichefs_write and ouichefs_read,  *)
(* which overwrite through block buffers; the page cache with the          *)
(* address space operations of src/file.c, which the kernel uses when the  *)
(* function is NULL; and ouichefs_light_write, ouichefs_defrag and         *)
(* ouichefs_read_cached, where LightFile has the first two.                *)
(*                                                                         *)
(* The bytes of a block can be in the buffer of the block device and in a  *)
(* page of the file at the same time, and nothing keeps the two together.  *)
(* The users modelled here know that:                                      *)
(*  - a file is written either by overwriting or by insertion, since the   *)
(*    word of an index entry with a size is no block number;               *)
(*  - a file that is overwritten is flushed (flush_cache of user/utils.h)  *)
(*    before it is used through pages after buffers, or the reverse;       *)
(*  - the page cache is not used to leave a hole.                          *)
(* Then buffers never differ from the disk when pages are used: data is    *)
(* both.                                                                   *)
(***************************************************************************)
EXTENDS LightFile

CONSTANT IndexStays     \* whether the buffer of the index block stays cached

ASSUME IndexStaysAssumption == IndexStays \in BOOLEAN

VARIABLES pages,        \* the page of every slot
          diskIndex,    \* the index block on disk; index is its buffer
          indexDirty,   \* whether that buffer is marked dirty
          family,       \* how the file was written: "none", "overwrite" or
                        \* "insert"
          paths         \* how it was used since the last flush: a subset of
                        \* {"buffer", "page"}

caches == <<pages, diskIndex, indexDirty>>
defragging == <<pc, bli, dataMoved, logicalPos>>
allVars == <<vars, caches, family, paths>>

NoPage == [bytes |-> <<>>, dirty |-> FALSE]

\* ouichefs_create left the cleared index block dirty.
ModesInit ==
  /\ Init
  /\ pages = [k \in Slots |-> NoPage]
  /\ diskIndex = index /\ indexDirty = TRUE
  /\ family = "none" /\ paths = {}

\* Overwriting through one path, with a flush before the other is used.
Overwrites(path) ==
  /\ pc = "idle"
  /\ family # "insert" /\ paths \subseteq {path}
  /\ paths' = {path}

-----------------------------------------------------------------------------
(* Through buffers.                                                       *)

\* Mutant of SimpleCopy: the offset is kept for the next block.
MutSimpleCopy(w, k) ==
  LET num == w.s.index[k].num
      n   == Min({BlockSize - w.lpos, Len(w.rest)})
  IN  IF n = 0 \/ w.ops = 0 THEN [w EXCEPT !.ops = 0]
      ELSE [w EXCEPT !.s.data[num] = PutBytes(@, w.lpos, SubSeq(w.rest, 1, n)),
                     !.rest = SubSeq(w.rest, n + 1, Len(w.rest)),
                     !.ops = @ - 1]

\* An iteration of the loop of ouichefs_write.  It never sets the size in the
\* index entry, so that the word it reads is the block number.
SimpleCopy(w, k) ==
  LET num == w.s.index[k].num
      n   == Min({BlockSize - w.lpos, Len(w.rest)})
  IN  IF n = 0 \/ w.ops = 0 THEN [w EXCEPT !.ops = 0]
      ELSE [w EXCEPT !.s.data[num] = PutBytes(@, w.lpos, SubSeq(w.rest, 1, n)),
                     !.rest = SubSeq(w.rest, n + 1, Len(w.rest)),
                     !.lpos = 0,
                     !.ops = @ - 1]

\* Mutant of BlocksForWrite: the division rounds down.
MutBlocksForWrite(pos, size) ==
  AtLeast0(Max({pos + size, iSize}) \div BlockSize - (iBlocks - 1))

BlocksForWrite(pos, size) ==
  AtLeast0(CeilDiv(Max({pos + size, iSize}), BlockSize) - (iBlocks - 1))

\* ouichefs_write, when there is space; the ops-th data block cannot be read.
\* The size is raised to the cursor even if nothing was written.
SimpleWriteResult(pos, buf, ops) ==
  LET r == ReserveEmptyBlocks(Here, AtLeast0(iBlocks - 1),
                              BlocksForWrite(pos, Len(buf)))
      w == FoldLeft(SimpleCopy,
                    [s |-> r, rest |-> buf, lpos |-> pos % BlockSize, ops |-> ops],
                    [i \in 1..AtLeast0(r.iBlocks - 1 - pos \div BlockSize) |->
                       pos \div BlockSize + i - 1])
      written == Len(buf) - Len(w.rest)
  IN  [s |-> [w.s EXCEPT !.iSize = Max({@, pos + written})], written |-> written]

\* The index block is written to disk before a call returns; pages are not told.
WriteThrough ==
  /\ diskIndex' = index' /\ indexDirty' = FALSE
  /\ UNCHANGED pages

SimpleWrite(pos, buf, ops) ==
  /\ Overwrites("buffer")
  /\ pos + Len(buf) <= MaxFileSize
  /\ SpaceAvailable(Here, BlocksForWrite(pos, Len(buf)))
  /\ Becomes(SimpleWriteResult(pos, buf, ops).s)
  /\ WriteThrough
  /\ family' = "overwrite"
  /\ UNCHANGED defragging

\* The index block cannot be read: only the size changes.
SimpleWriteNoIndex(pos, buf) ==
  /\ IoFaults /\ Overwrites("buffer")
  /\ pos + Len(buf) <= MaxFileSize /\ pos > iSize
  /\ SpaceAvailable(Here, BlocksForWrite(pos, Len(buf)))
  /\ iSize' = pos
  /\ family' = "overwrite"
  /\ UNCHANGED <<index, data, iBlocks, bfree, nrFree, defragging, caches>>

\* What lies behind a block in memory.
Unknown == -1
BytesAt(num, lpos, n) ==
  [i \in 1..n |-> IF lpos + i <= BlockSize THEN data[num][lpos + i] ELSE Unknown]

\* Mutant of LastBlockSize: a last block that is full has size 0.
MutLastBlockSize == iSize % BlockSize

LastBlockSize ==
  IF iSize % BlockSize = 0 /\ iSize # 0 THEN BlockSize ELSE iSize % BlockSize

\* The bytes ouichefs_read(size) returns at pos.  In the last block the room
\* behind the cursor is unsigned: past the end of the file nothing limits it.
SimpleRead(pos, size) ==
  LET nb == iBlocks - 1
      Step(r, k) ==
        LET room == (IF k = nb - 1 THEN LastBlockSize ELSE BlockSize) - r.lpos
            n    == IF room < 0 THEN r.left ELSE Min({room, r.left})
        IN  [out  |-> r.out \o BytesAt(index[k].num, r.lpos, n),
             left |-> IF n = 0 THEN 0 ELSE r.left - n,
             lpos |-> 0]
  IN  FoldLeft(LAMBDA r, k : IF r.left = 0 THEN r ELSE Step(r, k),
               [out |-> <<>>, left |-> size, lpos |-> pos % BlockSize],
               [i \in 1..AtLeast0(nb - pos \div BlockSize) |->
                  pos \div BlockSize + i - 1]).out

-----------------------------------------------------------------------------
(* Through pages.                                                         *)

PageOf(k) == pages[k].bytes
HasPage(k) == pages[k] # NoPage

\* mpage_read_folio with ouichefs_file_get_block: the block of the slot on
\* disk, zeros if there is none or if the slot is behind the size of the file.
FillPage(k) ==
  IF k < CeilDiv(iSize, BlockSize) /\ index[k].num # 0
  THEN data[index[k].num] ELSE Zeros(BlockSize)

\* A read of slot k by the kernel or by ouichefs_read_cached, whose loop stops
\* at i_blocks.
ReadPage(k) ==
  /\ pc = "idle" /\ ~HasPage(k)
  /\ family # "insert" => paths \subseteq {"page"}
  /\ IF family = "insert" THEN k < iBlocks - 1 ELSE k < CeilDiv(iSize, BlockSize)
  /\ pages' = [pages EXCEPT ![k] = [bytes |-> FillPage(k), dirty |-> FALSE]]
  /\ paths' = paths \cup {"page"}
  /\ UNCHANGED <<vars, diskIndex, indexDirty, family>>

\* ouichefs_file_get_block with create: the entry changes in the buffer of the
\* index block, which is not marked dirty, and i_blocks stays.
GetBlock(s, k) ==
  LET bno == Min(s.bfree) IN
  IF s.index[k].num # 0 THEN s
  ELSE [s EXCEPT !.index[k].num = bno, !.bfree = @ \ {bno}, !.nrFree = @ - 1]

\* The check of ouichefs_write_begin.
WriteBeginAllows(pos, len) ==
  LET whole == Max({pos + len, iSize}) \div BlockSize IN
  /\ pos + len <= MaxFileSize
  /\ AtLeast0(whole - (iBlocks - 1)) <= nrFree

\* Mutant of WriteEnd: the blocks that are no longer needed keep their slots.
MutWriteEnd(s) ==
  LET nr == CeilDiv(s.iSize, BlockSize)
      freed == nr .. s.iBlocks - 2
  IN  [s EXCEPT !.iBlocks = nr + 1,
                !.bfree = @ \cup {s.index[k].num : k \in freed},
                !.nrFree = @ + Cardinality(freed)]

\* Mutant of WriteEnd: i_blocks is rounded up when the size is a multiple of the
\* block size, too.
MutRoundUpAlways(s) == [s EXCEPT !.iBlocks = s.iSize \div BlockSize + 2]

\* ouichefs_write_end: i_blocks follows the size, and blocks that the file
\* does not need, which a failed ouichefs_write left, are freed.
WriteEnd(s) ==
  LET nr == CeilDiv(s.iSize, BlockSize)
      freed == nr .. s.iBlocks - 2
  IN  [s EXCEPT !.iBlocks = nr + 1,
                !.bfree = @ \cup {s.index[k].num : k \in freed},
                !.nrFree = @ + Cardinality(freed),
                !.index = [k \in Slots |-> IF k \in freed THEN Unallocated
                                           ELSE s.index[k]]]

\* Bytes of slot k with those behind the end of a file of that size cleared.
Clipped(bytes, k, size) ==
  [o \in 1..BlockSize |-> IF k * BlockSize + o <= size THEN bytes[o] ELSE 0]

\* One page of generic_perform_write: ouichefs_write_begin, the copy of the
\* first `copied` bytes, ouichefs_write_end, which does nothing about a short
\* copy.  A page that is not cached is read from its block, new or not, and a
\* short copy into it is repeated by the kernel as a shorter write.
PageWrite(pos, buf, copied) ==
  LET k       == pos \div BlockSize
      got     == GetBlock(Here, k)
      sized   == [got EXCEPT !.iSize = Max({@, pos + copied})]
      done    == IF copied < Len(buf) THEN sized ELSE WriteEnd(sized)
      shrinks == done.iBlocks < iBlocks
      old     == IF HasPage(k) THEN PageOf(k) ELSE data[got.index[k].num]
      new     == PutBytes(old, pos % BlockSize, SubSeq(buf, 1, copied))
      cached  == [pages EXCEPT ![k] = [bytes |-> new, dirty |-> TRUE]]
  IN
  /\ Overwrites("page")
  /\ (pos % BlockSize) + Len(buf) <= BlockSize
  /\ WriteBeginAllows(pos, Len(buf))
  /\ copied < Len(buf) => CopyFaults /\ HasPage(k)
  /\ index[k].num = 0 => bfree # {}
  /\ pos <= iSize
  /\ \A j \in 0 .. CeilDiv(sized.iSize, BlockSize) - 1 : got.index[j].num # 0
  /\ Becomes(done)
  /\ pages' = [j \in Slots |->
                 CASE ~shrinks \/ cached[j] = NoPage -> cached[j]
                   [] shrinks /\ j * BlockSize >= done.iSize -> NoPage
                   [] OTHER -> [cached[j] EXCEPT !.bytes = Clipped(@, j, done.iSize)]]
  /\ indexDirty' = (indexDirty \/ shrinks)
  /\ family' = "overwrite"
  /\ UNCHANGED <<diskIndex, defragging>>

\* The data blocks once the dirty pages of S are written by ouichefs_writepage:
\* block_write_full_page clears what is behind the end of the file.
DataWith(S) ==
  [b \in Pool |->
     LET ks == {k \in S : pages[k].dirty /\ index[k].num = b}
     IN  IF ks = {} THEN data[b]
         ELSE LET k == CHOOSE k \in ks : TRUE IN Clipped(PageOf(k), k, iSize)]

\* The kernel writes a page back whenever it likes, ...
WritePage(k) ==
  /\ pc = "idle" /\ pages[k].dirty
  /\ data' = DataWith({k})
  /\ pages' = [pages EXCEPT ![k] = [bytes |-> Clipped(@.bytes, k, iSize),
                                    dirty |-> FALSE]]
  /\ UNCHANGED <<index, iBlocks, iSize, bfree, nrFree, defragging, diskIndex,
                 indexDirty, family, paths>>

\* ... drops one that is clean, ...
DropPage(k) ==
  /\ pc = "idle" /\ HasPage(k) /\ ~pages[k].dirty
  /\ pages' = [pages EXCEPT ![k] = NoPage]
  /\ UNCHANGED <<vars, diskIndex, indexDirty, family, paths>>

\* ... and writes the index block back, if its buffer is marked dirty.
WriteIndexBack ==
  /\ pc = "idle" /\ indexDirty
  /\ diskIndex' = index /\ indexDirty' = FALSE
  /\ UNCHANGED <<vars, pages, family, paths>>

\* flush_cache: sync, and everything clean is dropped, the buffer of the index
\* block too unless somebody still holds it.
Flush ==
  /\ pc = "idle" /\ paths # {}
  /\ data' = DataWith(Slots)
  /\ pages' = [k \in Slots |-> NoPage]
  /\ diskIndex' = (IF indexDirty THEN index ELSE diskIndex)
  /\ indexDirty' = FALSE
  /\ index' = (IF IndexStays THEN index ELSE diskIndex')
  /\ paths' = {}
  /\ UNCHANGED <<iBlocks, iSize, bfree, nrFree, defragging, family>>

-----------------------------------------------------------------------------
(* Insertion, from LightFile.                                             *)

Inserts ==
  /\ family # "overwrite"
  /\ \/ \E pos \in 0..MaxFileSize, buf \in Bufs : LightWrite(pos, buf, NeverFails, 0)
     \/ DefragBegin \/ DefragStep \/ DefragError
  /\ WriteThrough
  /\ family' = "insert" /\ paths' = paths \cup {"buffer"}

\* ouichefs_read_cached: a fold over the blocks.  Every block is copied to the
\* start of the user's buffer, which held `old`.
CachedRead(pos, size, old) ==
  LET nb == iBlocks - 1
      at == FindBlockPos(index, nb, pos)
      Bytes(k) == IF HasPage(k) THEN PageOf(k) ELSE FillPage(k)
      Step(r, k) ==
        LET n == Min({AtLeast0(index[k].size - r.lpos), r.left})
        IN  [out  |-> [i \in 1..size |-> IF i <= n THEN Bytes(k)[r.lpos + i] ELSE r.out[i]],
             left |-> r.left - n, lpos |-> 0, stop |-> n = 0]
      end == FoldLeft(LAMBDA r, k : IF r.left = 0 \/ r.stop THEN r ELSE Step(r, k),
                      [out |-> old, left |-> size, lpos |-> at.lpos, stop |-> FALSE],
                      [i \in 1..AtLeast0(nb - at.bli) |-> at.bli + i - 1])
  IN  IF pos > 0 /\ Reaches(index, nb, pos) = {} THEN [bytes |-> old, read |-> 0]
      ELSE [bytes |-> end.out, read |-> size - end.left]

ModesNext ==
  \/ \E pos \in 0..MaxFileSize, buf \in Bufs :
       \/ \E ops \in OpsBeforeFault : SimpleWrite(pos, buf, ops)
       \/ \E copied \in 1..Len(buf) : PageWrite(pos, buf, copied)
       \/ SimpleWriteNoIndex(pos, buf)
  \/ \E k \in Slots : ReadPage(k) \/ WritePage(k) \/ DropPage(k)
  \/ Flush \/ WriteIndexBack
  \/ Inserts

ModesSpec == ModesInit /\ [][ModesNext]_allVars

-----------------------------------------------------------------------------
(* Properties                                                             *)

\* Types of the caches and of the file under them.
ModesTypeOK ==
  /\ TypeOK
  /\ pages \in [Slots -> {NoPage} \cup
                          [bytes : [1..BlockSize -> Byte], dirty : BOOLEAN]]
  /\ diskIndex \in [Slots -> [num : Pool \cup {0}, size : 0..BlockSize]]
  /\ indexDirty \in BOOLEAN
  /\ family \in {"none", "overwrite", "insert"}
  /\ paths \subseteq {"buffer", "page"}

\* The bytes of a file that is overwritten: pages before blocks.
View ==
  [i \in 1..iSize |->
     LET k == (i - 1) \div BlockSize
         o == ((i - 1) % BlockSize) + 1
     IN  IF HasPage(k) THEN PageOf(k)[o]
         ELSE IF index[k].num # 0 THEN data[index[k].num][o] ELSE 0]

\* Overwriting through buffers or pages, writeback, dropping of pages and the
\* flush implement a sequence of bytes that only writes change, see
\* OverwriteFile.
Overwriting == INSTANCE OverwriteFile WITH
                 content <- IF family = "overwrite" THEN View ELSE <<>>
ImplementsOverwrite == Overwriting!Spec

\* What a user reads is what is there.  ouichefs_read, used without pages since
\* the last flush, is right up to the end of the file, if i_blocks covers it.
\* ouichefs_read_cached is right when nothing was inserted since the last
\* flush, for a read within one block of the first ones, as many as the size
\* fills: the kernel reads no block behind them.
ModeReadsAreRight ==
  /\ (family = "overwrite" /\ paths \subseteq {"buffer"}
        /\ iBlocks - 1 >= CeilDiv(iSize, BlockSize)) =>
       \A pos \in 0..iSize, size \in {1, BlockSize + 1, MaxFileSize} :
         LET out == SimpleRead(pos, size) IN
         /\ Len(out) >= Min({size, iSize - pos})
         /\ \A i \in 1..Min({Len(out), iSize - pos}) : out[i] = View[pos + i]
  /\ (family = "insert" /\ pc = "idle" /\ paths \subseteq {"page"}) =>
       \A pos \in 0..iSize :
         LET at == FindBlockPos(index, iBlocks - 1, pos)
             n  == index[at.bli].size - at.lpos
         IN  (at.bli < CeilDiv(iSize, BlockSize) /\ n > 0) =>
               CachedRead(pos, n, Zeros(n)) =
                 [bytes |-> SubSeq(Content, pos + 1, pos + n), read |-> n]

\* The slots that have a block, and whether i_blocks counts them: a short copy
\* in ouichefs_write_end leaves it behind.
Allocated == {k \in Slots : index[k].num # 0}
BlocksCounted == Allocated = 0 .. iBlocks - 2

\* A write for which there is space writes all of the buffer when nothing
\* fails: ouichefs_write if i_blocks counts the blocks, ouichefs_light_write
\* unless the cursor is at the end of a full block (-ENODATA).
WritesComplete ==
  \A pos \in 0..MaxFileSize, buf \in Bufs :
    pos + Len(buf) <= MaxFileSize /\ pc = "idle" =>
      /\ (/\ family # "insert" /\ BlocksCounted
          /\ SpaceAvailable(Here, BlocksForWrite(pos, Len(buf)))) =>
            SimpleWriteResult(pos, buf, NeverFails).written = Len(buf)
      /\ family # "overwrite" =>
            LET r == LightWriteResult(pos, buf, NeverFails, 0) IN
            \/ r.err = "ENOSPC" \/ r.written = Len(buf)
            \/ pos <= iSize /\ FindBlockPos(index, iBlocks - 1, pos).lpos = BlockSize

\* Whatever functions are used, no block is in two slots, none is lost, and
\* the counter of free blocks is exact.
BlocksKept ==
  /\ \A j, k \in Allocated : index[j].num = index[k].num => j = k
  /\ bfree = Pool \ {index[k].num : k \in Allocated}
  /\ nrFree = Cardinality(bfree)

-----------------------------------------------------------------------------
(* What the README says, and the code does not do.                        *)

\* Writing everything back and dropping the caches changes no byte.
FlushKeepsContent == [][Flush => View' = View]_allVars
=============================================================================
