----------------------------- MODULE BlockEntry -----------------------------
(***************************************************************************)
(* A word of an index block: src/bitmap.h packs the number of a block, its *)
(* size and a flag into 32 bits,                                           *)
(*                                                                         *)
(*     flag (1 bit) | size - 1 (12 bits) | block number (19 bits)          *)
(*                                                                         *)
(* where the flag says that the block is not empty.  The other modules     *)
(* take an entry for the pair of a number and a size, and the word 0 for a *)
(* slot without a block.  This one follows one word through everything     *)
(* its users do to it, next to the pair it stands for.                     *)
(***************************************************************************)
EXTENDS Integers

CONSTANTS NumSpan,      \* 2^19: MASK_BLOCK_NUM is NumSpan - 1
          SizeSpan,     \* 2^12: sizes go from 0 to SizeSpan
          NrBlocks      \* sbi->nr_blocks

ASSUME SpansOK ==
  /\ NumSpan \in Nat \ {0}
  /\ SizeSpan \in Nat \ {0}
  /\ NrBlocks \in Nat

VARIABLES entry,        \* index->blocks[k]
          num,          \* the block that was allocated for the slot, 0 if none
          size          \* the number of bytes its users keep in it

vars == <<entry, num, size>>

Flag == NumSpan * SizeSpan
Words == 0..2 * Flag - 1

TypeOK ==
  /\ entry \in Words
  /\ num \in 0..NrBlocks-1
  /\ size \in 0..SizeSpan

-----------------------------------------------------------------------------
(* src/bitmap.h                                                           *)

GetBlockNumber(e) == e % NumSpan

BlockEmpty(e) == e < Flag

GetBlockSize(e) == IF BlockEmpty(e) THEN 0 ELSE (e - Flag) \div NumSpan + 1

\* The flag and the size are replaced, the number stays.
SetBlockSize(e, n) ==
  IF n > 0 THEN Flag + ((IF n > SizeSpan THEN SizeSpan ELSE n) - 1) * NumSpan
                + GetBlockNumber(e)
  ELSE GetBlockNumber(e)

\* set_block_number on the entry 0, which is the only one it is used on.  The
\* number is not masked.
SetBlockNumber(bno) == bno

\* Mutant of SubBlockSize: the whole size goes.
MutSubAll(e, n) == SetBlockSize(e, 0)

SubBlockSize(e, n) == SetBlockSize(e, GetBlockSize(e) - n)

AddBlockSize(e, n) == SetBlockSize(e, GetBlockSize(e) + n)

-----------------------------------------------------------------------------
(* What the users of the index do.                                        *)

Init == entry = 0 /\ num = 0 /\ size = 0

\* reserve_empty_blocks on a slot it finds empty.
Reserve(bno) ==
  /\ entry = 0
  /\ entry' = SetBlockSize(SetBlockNumber(bno), 0)
  /\ num' = bno
  /\ size' = 0

\* ouichefs_file_get_block: no size is set.
MapBlock(bno) ==
  /\ entry = 0
  /\ entry' = SetBlockNumber(bno)
  /\ num' = bno
  /\ size' = 0

\* Bytes are written up to an offset of the block, or moved into an empty one.
SetSize(n) ==
  /\ num # 0
  /\ entry' = SetBlockSize(entry, n)
  /\ size' = n
  /\ UNCHANGED num

\* Filling, and the block defragmentation moves bytes to.
Grow(n) ==
  /\ num # 0 /\ size + n <= SizeSpan
  /\ entry' = AddBlockSize(entry, n)
  /\ size' = size + n
  /\ UNCHANGED num

\* The block that bytes are moved out of.
Shrink(n) ==
  /\ num # 0 /\ n <= size
  /\ entry' = SubBlockSize(entry, n)
  /\ size' = size - n
  /\ UNCHANGED num

\* The slot is shifted away, or its block freed.
Clear ==
  /\ entry' = 0
  /\ num' = 0
  /\ size' = 0

Next ==
  \/ \E bno \in 1..NrBlocks-1 : Reserve(bno) \/ MapBlock(bno)
  \/ \E n \in 1..SizeSpan : SetSize(n) \/ Grow(n) \/ Shrink(n)
  \/ Clear

Spec == Init /\ [][Next]_vars

-----------------------------------------------------------------------------
(* Properties                                                             *)

\* Whatever sequence of calls an entry has been through, get_block_number,
\* get_block_size and block_empty answer with the block that was allocated
\* and the bytes that are in it, and the test for the word 0 tells a slot
\* without a block from one with an empty block.
PackingExact ==
  /\ GetBlockNumber(entry) = num
  /\ GetBlockSize(entry) = size
  /\ BlockEmpty(entry) <=> size = 0
  /\ entry = 0 <=> num = 0
=============================================================================
