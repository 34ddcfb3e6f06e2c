------------------------ MODULE BlockOwnershipProofs ------------------------
(***************************************************************************)
(* Proofs about BlockOwnership with a single task, for every number of     *)
(* files, blocks and index entries and whatever calls are made:            *)
(*                                                                         *)
(*   - no block ever has two owners and no owned block is free, whichever  *)
(*     block reads fail;                                                   *)
(*   - when no file is opened with O_TRUNC, the counter of free blocks is  *)
(*     exact, the system area is never handed out, what space_available    *)
(*     grants can be reserved, and the blocks of a file fill the first     *)
(*     slots of its index without a gap;                                   *)
(*   - when every block can be read as well, no data block is ever lost.   *)
(***************************************************************************)
EXTENDS BlockOwnership, FiniteSetTheorems, WellFoundedInduction, TLAPS

\* Most steps are first-order reasoning, which is left to Zenon; the steps
\* that need arithmetic or the types of functions ask for SMT.
USE Zenon

\* At most one task is inside the file system.
Sequential == \A p, q \in Tasks : p = q

\* What a task has in hand between two steps of a call: a block it found is
\* still free, an index block it took belongs to nobody yet, the blocks still
\* to reserve fit in the index block, and the second pass of defragmentation
\* is inside the file.
InHand(p) ==
  /\ pc[p] \in {"create", "take"} => bno[p] \in bfree
  /\ pc[p] \in {"create", "created"} => indexBlock[fil[p]] = 0
  /\ pc[p] = "created" =>
       /\ bno[p] # 0
       /\ bno[p] \notin bfree
       /\ \A f \in Files : /\ indexBlock[f] # bno[p]
                           /\ \A k \in Slots : index[f][k] # bno[p]
  /\ pc[p] = "take" => bli[p] \in Slots /\ bli[p] < stop[p]
  /\ pc[p] \in {"reserve", "take"} =>
       iBlocks[fil[p]] + stop[p] - bli[p] <= MaxEntries + 1
  /\ pc[p] = "free" => /\ stop[p] <= bli[p]
                       /\ iBlocks[fil[p]] > 0 => bli[p] < iBlocks[fil[p]]

\* i_blocks never exceeds a full index and the index block.
BlocksBounded == \A f \in Files : iBlocks[f] <= MaxEntries + 1

\* The inductive invariant.
OwnershipInv ==
  /\ TypeOK
  /\ BlocksBounded
  /\ NoSharedBlock
  /\ OwnedIsUsed
  /\ \A p \in Tasks : InHand(p)

\* OwnedIsUsed while no unlink is under way.
OwnedStrictly ==
  \A f \in Files :
    /\ indexBlock[f] \in bfree => indexBlock[f] = 0
    /\ \A k \in Slots : index[f][k] \in bfree => index[f][k] = 0

-----------------------------------------------------------------------------
\* What the proofs use of the constants: the sets of blocks and slots are sets
\* of naturals.
LEMMA ConstantFacts ==
  /\ 0 \in Blocks /\ Blocks \subseteq Nat
  /\ Slots \subseteq Nat /\ \A k \in Nat : k \in Slots <=> k < MaxEntries
  /\ Word \in Nat /\ Word > 1
  /\ MaxEntries \in Nat
BY ConstantsOK, SMT DEF Blocks, Slots

\* Sharing is a matter of the entries and index blocks alone.
LEMMA SharingUnchanged ==
  ASSUME NoSharedBlock, index' = index, indexBlock' = indexBlock
  PROVE  NoSharedBlock'
BY SMT DEF NoSharedBlock

\* What sharing forbids of one entry.
LEMMA Unshared ==
  ASSUME NoSharedBlock, NEW f \in Files, NEW k \in Slots, index[f][k] # 0,
         NEW g \in Files
  PROVE  /\ indexBlock[g] # index[f][k]
         /\ \A j \in Slots : index[g][j] = index[f][k] => g = f /\ j = k
<1>1. index[f][k] # indexBlock[g]
  BY DEF NoSharedBlock
<1>2. \A j \in Slots : index[f][k] = index[g][j] => f = g /\ k = j
  BY SMT DEF NoSharedBlock
<1> QED
  BY <1>1, <1>2

\* Forgetting entries and index blocks shares nothing new.
LEMMA SharingForgotten ==
  ASSUME NoSharedBlock,
         \A f \in Files : /\ indexBlock'[f] = 0 \/ indexBlock'[f] = indexBlock[f]
                         /\ \A k \in Slots : \/ index'[f][k] = 0
                                             \/ index'[f][k] = index[f][k]
  PROVE  NoSharedBlock'
<1>1. ASSUME NEW f \in Files, NEW g \in Files, NEW j \in Slots, NEW k \in Slots,
             index'[f][j] # 0, index'[f][j] = index'[g][k]
      PROVE  f = g /\ j = k
  BY <1>1, SMT DEF NoSharedBlock
<1>2. ASSUME NEW f \in Files, NEW g \in Files, NEW k \in Slots, index'[f][k] # 0
      PROVE  index'[f][k] # indexBlock'[g]
  BY <1>2, SMT DEF NoSharedBlock
<1>3. ASSUME NEW f \in Files, NEW g \in Files,
             indexBlock'[f] # 0, indexBlock'[f] = indexBlock'[g]
      PROVE  f = g
  BY <1>3, SMT DEF NoSharedBlock
<1> QED
  BY <1>1, <1>2, <1>3, SMT DEF NoSharedBlock

\* find_first_bit returns a set bit if there is one.
LEMMA FirstFreeIsFree ==
  ASSUME TypeOK, bfree # {}
  PROVE  FirstFree \in bfree
<1>1. bfree \subseteq Nat
  BY ConstantsOK, SMT DEF TypeOK, Blocks
<1>2. PICK b \in bfree : \A c \in bfree : ~(<<c, b>> \in OpToRel(<, Nat))
  BY <1>1, NatLessThanWellFounded, WFMin
<1>3. \A c \in bfree : ~(c < b)
  BY <1>1, <1>2 DEF OpToRel
<1>4. \A c \in bfree : b <= c
  BY <1>1, <1>3, SMT
<1> QED
  BY <1>4 DEF FirstFree

\* The entries of an index are different blocks.
Distinct(idx) == \A j, k \in Slots : idx[j] # 0 /\ idx[j] = idx[k] => j = k

\* s holds entries of idx only, and none of them twice.
Rearranged(s, idx) ==
  /\ s \in [Slots -> Blocks]
  /\ \A k \in Slots : s[k] # 0 => \E i \in Slots : s[k] = idx[i]
  /\ Distinct(s)

\* shift_blocks neither duplicates an entry nor makes one up.
LEMMA ShiftKeepsEntries ==
  ASSUME NEW idx \in [Slots -> Blocks], NEW start \in Nat, NEW n \in Nat,
         NEW last \in Int, Distinct(idx)
  PROVE  Rearranged(ShiftBlocks(idx, start, n, last), idx)
<1> DEFINE s == ShiftBlocks(idx, start, n, last)
<1>1. \A k \in Slots : k \in start+n..last+n => k - n \in Slots /\ k - n \in start..last
  BY ConstantFacts, SMT DEF Slots
<1>2. \A k \in Slots : s[k] = IF k \in start+n..last+n THEN idx[k - n]
                              ELSE IF k \in start..last THEN 0 ELSE idx[k]
  BY DEF ShiftBlocks
<1>3. s \in [Slots -> Blocks]
  BY <1>1, ConstantFacts DEF ShiftBlocks
<1>4. \A k \in Slots : s[k] # 0 => \E i \in Slots : s[k] = idx[i]
  BY <1>1, <1>2
<1>5. ASSUME NEW j \in Slots, NEW k \in Slots, s[j] # 0, s[j] = s[k]
      PROVE  j = k
  BY <1>1, <1>2, <1>5, ConstantFacts, SMT DEF Slots, Distinct
<1> QED
  BY <1>3, <1>4, <1>5 DEF Rearranged, Distinct

\* The first pass of ouichefs_defrag does not either.
LEMMA PermutationKeepsEntries ==
  ASSUME NEW idx \in [Slots -> Blocks], NEW used \in SUBSET Slots,
         NEW order \in Bijection(used, used), Distinct(idx)
  PROVE  Rearranged(Permuted(idx, used, order), idx)
<1> DEFINE s == Permuted(idx, used, order)
<1>1. \A k \in used : order[k] \in used
  BY DEF Bijection, Injection
<1>2. \A j, k \in used : order[j] = order[k] => j = k
  BY DEF Bijection, Injection, IsInjective
<1>3. s \in [Slots -> Blocks]
  BY <1>1 DEF Permuted
<1>4. \A k \in Slots : s[k] # 0 => \E i \in Slots : s[k] = idx[i]
  BY <1>1 DEF Permuted
<1>5. Distinct(s)
  BY <1>1, <1>2, SMT DEF Distinct, Permuted
<1> QED
  BY <1>3, <1>4, <1>5 DEF Rearranged

-----------------------------------------------------------------------------
(* What the parts of the invariant need of a step.                        *)

\* Outside of an unlink no entry of an index is free.
LEMMA StrictlyOwned ==
  ASSUME Sequential, NEW p \in Tasks, OwnershipInv,
         pc[p] \notin {"unlink", "scrub", "overrun"}
  PROVE  OwnedStrictly
BY SMT DEF Sequential, OwnershipInv, OwnedIsUsed, FreedByUnlink, OwnedStrictly

\* The allocator keeps its types.
LEMMA GetFreeBlockType ==
  ASSUME TypeOK, NEW b \in Blocks, GetFreeBlock(b)
  PROVE  bfree' \subseteq Blocks /\ nrFree' \in 0..Word-1
BY ConstantFacts, SMT DEF TypeOK, GetFreeBlock

\* put_block keeps the bitmap and its counter in their types.
LEMMA PutBlockType ==
  ASSUME TypeOK, NEW b \in Blocks, PutBlock(b)
  PROVE  bfree' \subseteq Blocks /\ nrFree' \in 0..Word-1
BY ConstantFacts, SMT DEF TypeOK, PutBlock

\* A step that frees nothing and only removes references, or puts them
\* elsewhere in the index of the same file, keeps ownership.
LEMMA OwnedWhenRearranged ==
  ASSUME TypeOK, NoSharedBlock, OwnedStrictly, NEW f \in Files,
         NEW s, Rearranged(s, index[f]),
         index' = [index EXCEPT ![f] = s],
         bfree' = bfree, indexBlock' = indexBlock
  PROVE  NoSharedBlock' /\ OwnedIsUsed'
<1>1. \A g \in Files, k \in Slots :
        index'[g][k] # 0 => \E i \in Slots : index'[g][k] = index[g][i]
  BY DEF TypeOK, Rearranged
<1>2. ASSUME NEW g \in Files, NEW h \in Files, NEW j \in Slots, NEW k \in Slots,
             index'[g][j] # 0, index'[g][j] = index'[h][k]
      PROVE  g = h /\ j = k
  <2>1. g = h
    BY <1>1, <1>2, SMT DEF NoSharedBlock
  <2>2. CASE g = f
    BY <1>2, <2>1, <2>2 DEF TypeOK, Rearranged, Distinct
  <2>3. CASE g # f
    BY <1>2, <2>1, <2>3, SMT DEF TypeOK, NoSharedBlock
  <2> QED
    BY <2>1, <2>2, <2>3
<1>3. NoSharedBlock'
  BY <1>1, <1>2, SMT DEF NoSharedBlock
<1>4. OwnedStrictly'
  BY <1>1, SMT DEF OwnedStrictly
<1> QED
  BY <1>3, <1>4 DEF OwnedStrictly, OwnedIsUsed

-----------------------------------------------------------------------------
(* One lemma per action.                                                  *)

\* Looking for a free index block preserves the invariant.
LEMMA CreateFindOwns ==
  ASSUME Sequential, OwnershipInv, NEW p \in Tasks, NEW f \in Files,
         CreateFind(p, f)
  PROVE  OwnershipInv'
<1> USE DEF CreateFind, Begin
<1>1. FirstFree \in bfree
  BY FirstFreeIsFree DEF OwnershipInv
<1>2. TypeOK'
  BY <1>1, ConstantFacts DEF OwnershipInv, TypeOK, PCs
<1>3. BlocksBounded' /\ NoSharedBlock'
  BY SharingUnchanged DEF OwnershipInv, BlocksBounded
<1>4. OwnedIsUsed'
  BY StrictlyOwned DEF OwnedStrictly, OwnedIsUsed
<1>5. InHand(p)'
  BY <1>1 DEF OwnershipInv, TypeOK, InHand
<1> QED
  BY <1>2, <1>3, <1>4, <1>5 DEF OwnershipInv, Sequential

\* Clearing the bit of the new index block preserves the invariant: the block
\* is in the hand of the task then.
LEMMA CreateTakeOwns ==
  ASSUME Sequential, OwnershipInv, NEW p \in Tasks, CreateTake(p)
  PROVE  OwnershipInv'
<1> USE DEF CreateTake, Return, GoTo
<1>0. OwnedStrictly /\ InHand(p) /\ bno[p] \in bfree /\ bno[p] \in Blocks
  BY StrictlyOwned DEF OwnershipInv, InHand, TypeOK
<1>1. bfree' \subseteq Blocks /\ nrFree' \in 0..Word-1
  BY <1>0, GetFreeBlockType DEF OwnershipInv
<1>2. TypeOK'
  BY <1>1, ConstantFacts DEF OwnershipInv, TypeOK, PCs
<1>3. BlocksBounded' /\ NoSharedBlock'
  BY SharingUnchanged DEF OwnershipInv, BlocksBounded
<1>4. OwnedIsUsed'
  BY <1>0 DEF OwnedStrictly, OwnedIsUsed, GetFreeBlock
<1>5. InHand(p)'
  BY <1>0, SMT DEF OwnershipInv, TypeOK, InHand, GetFreeBlock, OwnedStrictly
<1> QED
  BY <1>2, <1>3, <1>4, <1>5 DEF OwnershipInv, Sequential

\* Giving a new file its index block preserves the invariant.
LEMMA CreateRegisterOwns ==
  ASSUME Sequential, OwnershipInv, NEW p \in Tasks, CreateRegister(p)
  PROVE  OwnershipInv'
<1> USE DEF CreateRegister, Return, GoTo
<1>0. OwnedStrictly /\ InHand(p)
  BY StrictlyOwned DEF OwnershipInv
<1>1. fil[p] \in Files
  BY DEF OwnershipInv, TypeOK
<1>2. TypeOK'
  BY ConstantFacts DEF OwnershipInv, TypeOK, PCs, NoSlots
<1>3. BlocksBounded'
  BY ConstantFacts, SMT DEF OwnershipInv, TypeOK, BlocksBounded
<1>4. \A f \in Files : /\ indexBlock'[f] = IF f = fil[p] THEN bno[p] ELSE indexBlock[f]
                       /\ \A k \in Slots : index'[f][k] =
                            IF f = fil[p] THEN 0 ELSE index[f][k]
  BY DEF OwnershipInv, TypeOK, NoSlots
<1>5. NoSharedBlock'
  <2>1. /\ NoSharedBlock /\ bno[p] # 0
        /\ \A f \in Files : /\ indexBlock[f] # bno[p]
                           /\ \A k \in Slots : index[f][k] # bno[p]
    BY <1>0 DEF OwnershipInv, InHand
  <2>2. ASSUME NEW f \in Files, NEW g \in Files, NEW j \in Slots, NEW k \in Slots,
               index'[f][j] # 0, index'[f][j] = index'[g][k]
        PROVE  f = g /\ j = k
    BY <1>4, <2>1, <2>2, SMT DEF NoSharedBlock
  <2>3. ASSUME NEW f \in Files, NEW g \in Files, NEW k \in Slots, index'[f][k] # 0
        PROVE  index'[f][k] # indexBlock'[g]
    BY <1>4, <2>1, <2>3, SMT DEF NoSharedBlock
  <2>4. ASSUME NEW f \in Files, NEW g \in Files,
               indexBlock'[f] # 0, indexBlock'[f] = indexBlock'[g]
        PROVE  f = g
    BY <1>4, <2>1, <2>4, SMT DEF NoSharedBlock
  <2> QED
    BY <2>2, <2>3, <2>4, SMT DEF NoSharedBlock
<1>6. OwnedIsUsed'
  BY <1>0, <1>4, SMT DEF OwnedStrictly, OwnedIsUsed, InHand
<1>7. InHand(p)'
  BY DEF OwnershipInv, TypeOK, InHand
<1> QED
  BY <1>2, <1>3, <1>5, <1>6, <1>7 DEF OwnershipInv, Sequential

\* Giving back the index block of a file that could not be created preserves
\* the invariant.
LEMMA CreateAbortOwns ==
  ASSUME Sequential, OwnershipInv, NEW p \in Tasks, CreateAbort(p)
  PROVE  OwnershipInv'
<1> USE DEF CreateAbort, Return, GoTo
<1>0. OwnedStrictly /\ InHand(p) /\ bno[p] \in Blocks
  BY StrictlyOwned DEF OwnershipInv, TypeOK
<1>1. bfree' \subseteq Blocks /\ nrFree' \in 0..Word-1
  BY <1>0, PutBlockType DEF OwnershipInv
<1>2. TypeOK'
  BY <1>1, ConstantFacts DEF OwnershipInv, TypeOK, PCs
<1>3. BlocksBounded' /\ NoSharedBlock'
  BY SharingUnchanged DEF OwnershipInv, BlocksBounded
<1>4. OwnedIsUsed'
  BY <1>0 DEF OwnedStrictly, OwnedIsUsed, PutBlock, InHand
<1>5. InHand(p)'
  BY DEF OwnershipInv, TypeOK, InHand
<1> QED
  BY <1>2, <1>3, <1>4, <1>5 DEF OwnershipInv, Sequential

\* Shifting the blocks behind the cursor preserves the invariant.
LEMMA WriteBeginOwns ==
  ASSUME Sequential, OwnershipInv, NEW p \in Tasks, NEW f \in Files,
         NEW at \in Slots, NEW n \in 1..MaxEntries+1, WriteBegin(p, f, at, n)
  PROVE  OwnershipInv'
<1> DEFINE start == IF index[f][at] = 0 THEN at ELSE at + 1
           s == IF at < iBlocks[f] - 2
                THEN ShiftBlocks(index[f], start, n, iBlocks[f] - 2)
                ELSE index[f]
<1>0. OwnedStrictly
  BY StrictlyOwned DEF OwnershipInv, WriteBegin, Begin
<1>1. /\ start \in Nat /\ n \in Nat
      /\ iBlocks[f] \in Nat /\ index[f] \in [Slots -> Blocks]
  BY ConstantFacts, SMT DEF OwnershipInv, TypeOK
<1>2. Distinct(index[f])
  BY SMT DEF OwnershipInv, NoSharedBlock, Distinct
<1>3. Rearranged(s, index[f])
  <2>1. iBlocks[f] - 2 \in Int
    BY <1>1, SMT
  <2>2. Rearranged(ShiftBlocks(index[f], start, n, iBlocks[f] - 2), index[f])
    <3> HIDE DEF start
    <3> QED  BY <1>1, <1>2, <2>1, ShiftKeepsEntries
  <2>3. Rearranged(index[f], index[f])
    BY <1>1, <1>2 DEF Rearranged
  <2> QED
    BY <2>2, <2>3
<1>4. index' = [index EXCEPT ![f] = s]
  BY DEF WriteBegin
<1> HIDE DEF s
<1>5. NoSharedBlock' /\ OwnedIsUsed'
  <2>1. bfree' = bfree /\ indexBlock' = indexBlock
    BY DEF WriteBegin
  <2> QED
    BY <1>0, <1>3, <1>4, <2>1, OwnedWhenRearranged DEF OwnershipInv
<1>6. TypeOK'
  BY <1>1, <1>3, <1>4, ConstantFacts, SMT
     DEF OwnershipInv, TypeOK, PCs, WriteBegin, Begin, Rearranged
<1>7. BlocksBounded'
  BY DEF OwnershipInv, BlocksBounded, WriteBegin
<1>8. InHand(p)'
  <2>1. iBlocks[f] + n <= MaxEntries + 1
    <3>1. n + iBlocks[f] - 1 \in 0..MaxEntries
      BY DEF WriteBegin, SpaceAvailable
    <3>2. MaxEntries \in Nat
      BY ConstantFacts
    <3> QED
      BY <1>1, <3>1, <3>2, SMT
  <2>2. /\ pc'[p] = "reserve" /\ fil'[p] = f /\ bli'[p] = start
        /\ stop'[p] = start + n /\ iBlocks' = iBlocks
    BY DEF OwnershipInv, TypeOK, WriteBegin, Begin
  <2> QED
    <3>1. iBlocks[f] + (start + n) - start <= MaxEntries + 1
      BY <1>1, <2>1, ConstantFacts, SMT
    <3> QED
      BY <2>2, <3>1 DEF InHand
<1> QED
  BY <1>5, <1>6, <1>7, <1>8 DEF OwnershipInv, Sequential

\* Finding a free block for a slot preserves the invariant.
LEMMA ReserveFindOwns ==
  ASSUME Sequential, OwnershipInv, NEW p \in Tasks, ReserveFind(p)
  PROVE  OwnershipInv'
<1> USE DEF ReserveFind, Reserving, GoTo
<1>0. OwnedStrictly /\ InHand(p) /\ FirstFree \in bfree
  BY StrictlyOwned, FirstFreeIsFree DEF OwnershipInv
<1>1. TypeOK'
  BY <1>0 DEF OwnershipInv, TypeOK, PCs
<1>2. BlocksBounded' /\ NoSharedBlock'
  BY SharingUnchanged DEF OwnershipInv, BlocksBounded
<1>3. OwnedIsUsed'
  BY <1>0 DEF OwnedStrictly, OwnedIsUsed
<1>4. InHand(p)'
  BY <1>0 DEF OwnershipInv, TypeOK, InHand
<1> QED
  BY <1>1, <1>2, <1>3, <1>4 DEF OwnershipInv, Sequential

\* Taking the block that was found into a slot preserves the invariant: nobody
\* else has taken it since.
LEMMA ReserveTakeOwns ==
  ASSUME Sequential, OwnershipInv, NEW p \in Tasks, ReserveTake(p)
  PROVE  OwnershipInv'
<1> DEFINE f == fil[p]
           k == bli[p]
           b == bno[p]
<1>0. /\ OwnedStrictly /\ InHand(p) /\ TypeOK
      /\ f \in Files /\ k \in Slots /\ k \in Nat /\ b \in bfree /\ b \in Blocks
      /\ iBlocks[f] \in Nat /\ stop[p] \in Nat /\ pc[p] = "take"
  BY StrictlyOwned DEF OwnershipInv, TypeOK, InHand, ReserveTake
<1>1. bfree' \subseteq Blocks /\ nrFree' \in 0..Word-1
  BY <1>0, GetFreeBlockType DEF ReserveTake
<1>2. CASE b = 0
  <2> USE DEF ReserveTake, Return, GoTo
  <2>1. TypeOK'
    <3>1. /\ pc' = [pc EXCEPT ![p] = "idle"] /\ bli' = [bli EXCEPT ![p] = 0]
          /\ stop' = [stop EXCEPT ![p] = 0] /\ bno' = [bno EXCEPT ![p] = 0]
          /\ UNCHANGED <<indexBlock, index, iBlocks, fil>>
      BY <1>2
    <3> QED
      BY <1>0, <1>1, <3>1, ConstantFacts DEF TypeOK, PCs
  <2>2. BlocksBounded' /\ NoSharedBlock'
    BY <1>2, SharingUnchanged DEF OwnershipInv, BlocksBounded
  <2>3. OwnedIsUsed'
    BY <1>0, <1>2, SMT DEF OwnedStrictly, OwnedIsUsed, GetFreeBlock
  <2>4. InHand(p)'
    BY <1>0, <1>2 DEF TypeOK, InHand
  <2> QED
    BY <2>1, <2>2, <2>3, <2>4 DEF OwnershipInv, Sequential
<1>3. CASE b # 0
  <2>1. /\ index' = [index EXCEPT ![f][k] = b]
        /\ iBlocks' = [iBlocks EXCEPT ![f] = @ + 1]
        /\ bli' = [bli EXCEPT ![p] = @ + 1]
        /\ pc' = [pc EXCEPT ![p] = "reserve"]
        /\ bfree' = bfree \ {b}
        /\ UNCHANGED <<indexBlock, fil, stop, bno>>
    BY <1>3 DEF ReserveTake, GetFreeBlock, GoTo, NextSlot
  <2>2. TypeOK'
    BY <1>0, <1>1, <2>1, SMT DEF TypeOK, PCs
  <2>3. \A g \in Files, j \in Slots :
          index'[g][j] = IF g = f /\ j = k THEN b ELSE index[g][j]
    BY <1>0, <2>1 DEF TypeOK
  <2> HIDE DEF f, k, b
  <2>4. NoSharedBlock'
    BY <1>0, <1>3, <2>1, <2>3, SMT DEF OwnershipInv, NoSharedBlock, OwnedStrictly
  <2>5. OwnedIsUsed'
    BY <1>0, <2>1, <2>3, SMT DEF OwnedStrictly, OwnedIsUsed
  <2>6. iBlocks[f] + stop[p] - k <= MaxEntries + 1 /\ k < stop[p]
    BY <1>0 DEF InHand, f, k
  <2>7. BlocksBounded'
    BY <1>0, <2>1, <2>6, ConstantFacts, SMT DEF OwnershipInv, TypeOK, BlocksBounded
  <2>8. InHand(p)'
    <3>1. /\ pc'[p] = "reserve" /\ fil'[p] = f /\ bli'[p] = k + 1
          /\ stop'[p] = stop[p] /\ iBlocks'[f] = iBlocks[f] + 1
      BY <1>0, <2>1 DEF TypeOK, f, k
    <3> QED
      BY <1>0, <2>6, <3>1, ConstantFacts, SMT DEF InHand
  <2> QED
    BY <2>2, <2>4, <2>5, <2>7, <2>8 DEF OwnershipInv, Sequential
<1> QED
  BY <1>2, <1>3

\* The steps of a write, a truncation and a defragmentation that change
\* nothing but the locals of the call.
LEMMA LocalStepOwns ==
  ASSUME Sequential, OwnershipInv, NEW p \in Tasks,
         \/ ReserveSkip(p) \/ ReserveFail(p) \/ ReserveEnd(p)
         \/ \E f \in Files : TruncBegin(p, f)
         \/ \E f \in Files : UnlinkBegin(p, f)
         \/ \E f \in Files : WriteAstray(p, f)
  PROVE  OwnershipInv'
<1>0. /\ UNCHANGED <<bfree, nrFree, indexBlock, index, iBlocks>>
      /\ pc[p] \in {"idle", "reserve"}
  BY DEF ReserveSkip, ReserveFail, ReserveEnd, TruncBegin, UnlinkBegin, WriteAstray,
         Reserving, Begin
<1>1. TypeOK' /\ InHand(p)'
  <2>1. CASE ReserveSkip(p)
    BY <2>1, ConstantFacts, SMT
       DEF OwnershipInv, TypeOK, InHand, ReserveSkip, Reserving, NextSlot
  <2>2. CASE ReserveFail(p) \/ ReserveEnd(p)
    <3>1. /\ pc' = [pc EXCEPT ![p] = "idle"] /\ bli' = [bli EXCEPT ![p] = 0]
          /\ stop' = [stop EXCEPT ![p] = 0] /\ bno' = [bno EXCEPT ![p] = 0]
          /\ fil' = fil
      BY <2>2 DEF ReserveFail, ReserveEnd, Return, GoTo
    <3> QED
      BY <1>0, <3>1, ConstantFacts DEF OwnershipInv, TypeOK, PCs, InHand
  <2>3. ASSUME NEW f \in Files,
               TruncBegin(p, f) \/ UnlinkBegin(p, f) \/ WriteAstray(p, f)
        PROVE  TypeOK' /\ InHand(p)'
    <3>1. /\ \E call \in {"trunc", "unlink", "overrun"} : pc' = [pc EXCEPT ![p] = call]
          /\ fil' = [fil EXCEPT ![p] = f] /\ bli' = [bli EXCEPT ![p] = 0]
          /\ UNCHANGED <<stop, bno>>
      BY <2>3 DEF TruncBegin, UnlinkBegin, WriteAstray, Begin
    <3> QED
      BY <1>0, <3>1 DEF OwnershipInv, TypeOK, PCs, InHand
  <2> QED
    BY <2>1, <2>2, <2>3
<1>2. BlocksBounded' /\ NoSharedBlock'
  BY <1>0, SharingUnchanged DEF OwnershipInv, BlocksBounded
<1>3. OwnedIsUsed'
  BY <1>0, StrictlyOwned DEF OwnedStrictly, OwnedIsUsed
<1> QED
  BY <1>1, <1>2, <1>3 DEF OwnershipInv, Sequential

\* TruncPut and DefragPut: the slot forgets the block that is freed.
LEMMA PutSlotOwns ==
  ASSUME Sequential, OwnershipInv, NEW p \in Tasks,
         TruncPut(p) \/ DefragPut(p)
  PROVE  OwnershipInv'
<1> DEFINE f == fil[p]
           k == bli[p]
           b == index[f][k]
<1>0. /\ OwnedStrictly /\ InHand(p) /\ TypeOK
      /\ f \in Files /\ k \in Slots /\ k \in Nat /\ b \in Blocks
      /\ iBlocks[f] \in Nat /\ stop[p] \in Nat
  BY StrictlyOwned DEF OwnershipInv, TypeOK, TruncPut, DefragPut
<1>1. /\ PutBlock(b)
      /\ index' = [index EXCEPT ![f][k] = 0]
      /\ bli' = [bli EXCEPT ![p] = @ + 1]
      /\ UNCHANGED <<indexBlock, iBlocks, pc, fil, stop, bno>>
  BY DEF TruncPut, DefragPut, PutSlot, NextSlot
<1>2. bfree' \subseteq Blocks /\ nrFree' \in 0..Word-1 /\ bfree' = bfree \cup {b}
  BY <1>0, <1>1, PutBlockType DEF PutBlock
<1>3. TypeOK'
  BY <1>0, <1>1, <1>2, ConstantFacts, SMT DEF TypeOK
<1>4. \A g \in Files, j \in Slots :
        index'[g][j] = IF g = f /\ j = k THEN 0 ELSE index[g][j]
  BY <1>0, <1>1 DEF TypeOK
<1>5. BlocksBounded'
  BY <1>1 DEF OwnershipInv, BlocksBounded
<1>6. InHand(p)'
  <2>1. CASE TruncPut(p)
    BY <1>1, <2>1 DEF InHand, TruncPut
  <2>2. CASE DefragPut(p)
    <3>1. /\ pc'[p] = "free" /\ fil'[p] = f /\ bli'[p] = k + 1
          /\ stop'[p] = stop[p] /\ iBlocks' = iBlocks
      BY <1>0, <1>1, <2>2 DEF TypeOK, DefragPut
    <3>2. stop[p] <= k /\ (iBlocks[f] > 0 => k < iBlocks[f] - 1)
      BY <1>0, <2>2, SMT DEF InHand, DefragPut, InFile
    <3> HIDE DEF f, k
    <3>3. stop[p] <= k + 1 /\ (iBlocks[f] > 0 => k + 1 < iBlocks[f])
      BY <1>0, <3>2, SMT
    <3> QED
      BY <3>1, <3>3 DEF InHand
  <2> QED
    BY <2>1, <2>2
<1> HIDE DEF f, k
<1>7. NoSharedBlock'
  BY <1>1, <1>4, SharingForgotten, SMT DEF OwnershipInv
<1>8. OwnedStrictly'
  BY <1>0, <1>1, <1>2, <1>4, SMT DEF OwnershipInv, NoSharedBlock, OwnedStrictly
<1>9. OwnedIsUsed'
  BY <1>8 DEF OwnedStrictly, OwnedIsUsed
<1> QED
  BY <1>3, <1>5, <1>6, <1>7, <1>9 DEF OwnershipInv, Sequential

\* The end of the loop of ouichefs_open preserves the invariant.
LEMMA TruncEndOwns ==
  ASSUME Sequential, OwnershipInv, NEW p \in Tasks, TruncEnd(p)
  PROVE  OwnershipInv'
<1> USE DEF TruncEnd, Return, GoTo
<1>0. OwnedStrictly
  BY StrictlyOwned
<1>1. TypeOK'
  BY ConstantFacts DEF OwnershipInv, TypeOK, PCs
<1>2. BlocksBounded'
  BY ConstantFacts, SMT DEF OwnershipInv, TypeOK, BlocksBounded
<1>3. NoSharedBlock'
  BY SharingUnchanged DEF OwnershipInv
<1>4. OwnedIsUsed'
  BY <1>0 DEF OwnedStrictly, OwnedIsUsed
<1>5. InHand(p)'
  BY DEF OwnershipInv, TypeOK, InHand
<1> QED
  BY <1>1, <1>2, <1>3, <1>4, <1>5 DEF OwnershipInv, Sequential

\* The first pass of ouichefs_defrag, a permutation of the slots in use,
\* preserves the invariant.
LEMMA DefragBeginOwns ==
  ASSUME Sequential, OwnershipInv, NEW p \in Tasks, NEW f \in Files,
         NEW order, NEW first \in 0..MaxEntries, DefragBegin(p, f, order, first)
  PROVE  OwnershipInv'
<1> DEFINE used == 0..iBlocks[f]-2
           s == Permuted(index[f], used, order)
<1>0. OwnedStrictly
  BY StrictlyOwned DEF DefragBegin, Begin
<1>1. /\ iBlocks[f] \in Nat /\ index[f] \in [Slots -> Blocks]
      /\ order \in Bijection(used, used) /\ first \in Nat
  BY ConstantFacts, SMT DEF OwnershipInv, TypeOK, DefragBegin
<1>2. used \in SUBSET Slots
  BY <1>1, ConstantFacts, SMT DEF OwnershipInv, BlocksBounded
<1>3. Distinct(index[f])
  BY SMT DEF OwnershipInv, NoSharedBlock, Distinct
<1>4. Rearranged(s, index[f])
  <2> HIDE DEF used
  <2> QED  BY <1>1, <1>2, <1>3, PermutationKeepsEntries
<1>5. index' = [index EXCEPT ![f] = s] /\ bfree' = bfree /\ indexBlock' = indexBlock
  BY DEF DefragBegin
<1> HIDE DEF s
<1>6. NoSharedBlock' /\ OwnedIsUsed'
  BY <1>0, <1>4, <1>5, OwnedWhenRearranged DEF OwnershipInv
<1>7. TypeOK'
  BY <1>1, <1>4, <1>5, SMT DEF OwnershipInv, TypeOK, PCs, DefragBegin, Begin, Rearranged
<1>8. BlocksBounded'
  BY DEF OwnershipInv, BlocksBounded, DefragBegin
<1>9. InHand(p)'
  <2>1. /\ pc'[p] = "free" /\ fil'[p] = f /\ bli'[p] = first /\ stop'[p] = first
        /\ iBlocks' = iBlocks /\ (first = 0 \/ first < iBlocks[f])
    BY DEF OwnershipInv, TypeOK, DefragBegin, Begin
  <2>2. first <= first /\ (iBlocks[f] > 0 => first < iBlocks[f])
    BY <1>1, <2>1, SMT
  <2>3. stop'[p] <= bli'[p] /\ (iBlocks'[fil'[p]] > 0 => bli'[p] < iBlocks'[fil'[p]])
    BY <2>1, <2>2
  <2> QED
    BY <2>1, <2>3 DEF InHand
<1> QED
  BY <1>6, <1>7, <1>8, <1>9 DEF OwnershipInv, Sequential

\* The end of the second pass of ouichefs_defrag preserves the invariant.
LEMMA DefragEndOwns ==
  ASSUME Sequential, OwnershipInv, NEW p \in Tasks, DefragEnd(p)
  PROVE  OwnershipInv'
<1> USE DEF DefragEnd, Return, GoTo
<1>0. OwnedStrictly /\ InHand(p)
  BY StrictlyOwned DEF OwnershipInv
<1>1. /\ fil[p] \in Files /\ iBlocks[fil[p]] \in Nat
      /\ bli[p] \in Nat /\ stop[p] \in Nat
  BY DEF OwnershipInv, TypeOK
<1>2. /\ iBlocks[fil[p]] - (bli[p] - stop[p]) \in Nat
      /\ iBlocks[fil[p]] - (bli[p] - stop[p]) <= iBlocks[fil[p]]
  BY <1>0, <1>1, SMT DEF InHand, InFile
<1>3. TypeOK'
  BY <1>1, <1>2, ConstantFacts DEF OwnershipInv, TypeOK, PCs
<1>4. BlocksBounded'
  BY <1>1, <1>2, ConstantFacts, SMT DEF OwnershipInv, TypeOK, BlocksBounded
<1>5. NoSharedBlock'
  BY SharingUnchanged DEF OwnershipInv
<1>6. OwnedIsUsed'
  BY <1>0 DEF OwnedStrictly, OwnedIsUsed
<1>7. InHand(p)'
  BY DEF OwnershipInv, TypeOK, InHand
<1> QED
  BY <1>3, <1>4, <1>5, <1>6, <1>7 DEF OwnershipInv, Sequential

\* The steps of an unlink that change only its locals: what it has freed so
\* far stays freed.
LEMMA UnlinkLocalStepOwns ==
  ASSUME Sequential, OwnershipInv, NEW p \in Tasks,
         UnlinkSkip(p) \/ UnlinkScrub(p)
  PROVE  OwnershipInv'
<1>0. /\ bli' = [bli EXCEPT ![p] = @ + 1] /\ pc' = [pc EXCEPT ![p] = "unlink"]
      /\ pc[p] \in {"unlink", "scrub"}
      /\ UNCHANGED <<bfree, nrFree, indexBlock, index, iBlocks, fil, stop, bno>>
  BY DEF OwnershipInv, TypeOK, UnlinkSkip, UnlinkScrub, NextSlot, GoTo
<1>1. TypeOK'
  BY <1>0, SMT DEF OwnershipInv, TypeOK, PCs
<1>2. BlocksBounded' /\ NoSharedBlock'
  BY <1>0, SharingUnchanged DEF OwnershipInv, BlocksBounded
<1>3. \A f \in Files, k \in Slots : FreedByUnlink(f, k) => FreedByUnlink(f, k)'
  BY <1>0, ConstantFacts, SMT DEF OwnershipInv, TypeOK, FreedByUnlink, Sequential
<1>4. OwnedIsUsed'
  BY <1>0, <1>3 DEF OwnershipInv, OwnedIsUsed
<1>5. InHand(p)'
  BY <1>0 DEF OwnershipInv, TypeOK, InHand
<1> QED
  BY <1>1, <1>2, <1>4, <1>5 DEF OwnershipInv, Sequential

\* ouichefs_unlink freeing the block of a slot preserves the invariant.
LEMMA UnlinkPutOwns ==
  ASSUME Sequential, OwnershipInv, NEW p \in Tasks, UnlinkPut(p)
  PROVE  OwnershipInv'
<1> DEFINE f == fil[p]
           k == bli[p]
           b == index[f][k]
<1>0. /\ f \in Files /\ k \in Slots /\ k \in Nat /\ b \in Blocks
      /\ b # 0 /\ TypeOK /\ pc[p] = "unlink" /\ PutBlock(b)
      /\ bno' = [bno EXCEPT ![p] = b] /\ pc' = [pc EXCEPT ![p] = "scrub"]
      /\ UNCHANGED <<indexBlock, index, iBlocks, fil, bli, stop>>
  BY DEF OwnershipInv, TypeOK, UnlinkPut, GoTo
<1>1. bfree' \subseteq Blocks /\ nrFree' \in 0..Word-1 /\ bfree' = bfree \cup {b}
  BY <1>0, PutBlockType DEF PutBlock
<1>2. TypeOK'
  BY <1>0, <1>1 DEF TypeOK, PCs
<1>3. BlocksBounded' /\ NoSharedBlock'
  BY <1>0, SharingUnchanged DEF OwnershipInv, BlocksBounded
<1>4. \A g \in Files, j \in Slots : g = f /\ j = k => FreedByUnlink(g, j)'
  BY <1>0, SMT DEF TypeOK, FreedByUnlink
<1>5. \A g \in Files, j \in Slots : FreedByUnlink(g, j) => FreedByUnlink(g, j)'
  BY <1>0, ConstantFacts, SMT DEF TypeOK, FreedByUnlink, Sequential
<1>6. \A g \in Files : /\ indexBlock[g] # b
                       /\ \A j \in Slots : index[g][j] = b => g = f /\ j = k
  <2>1. NoSharedBlock /\ f \in Files /\ k \in Slots /\ index[f][k] # 0
    BY <1>0 DEF OwnershipInv
  <2> QED
    BY <2>1, Unshared
<1> HIDE DEF f, k, b
<1>7. OwnedIsUsed'
  <2>1. ASSUME NEW g \in Files PROVE indexBlock'[g] \in bfree' => indexBlock'[g] = 0
    BY <1>0, <1>1, <1>6 DEF OwnershipInv, OwnedIsUsed
  <2>2. ASSUME NEW g \in Files, NEW j \in Slots, index'[g][j] \in bfree'
        PROVE  index'[g][j] = 0 \/ FreedByUnlink(g, j)'
    <3>1. CASE index[g][j] = b
      BY <1>0, <1>4, <1>6, <3>1
    <3>2. CASE index[g][j] # b
      BY <1>0, <1>1, <1>5, <2>2, <3>2 DEF OwnershipInv, OwnedIsUsed
    <3> QED
      BY <3>1, <3>2
  <2> QED
    BY <2>1, <2>2 DEF OwnedIsUsed
<1>8. InHand(p)'
  BY <1>0 DEF TypeOK, InHand
<1> QED
  BY <1>2, <1>3, <1>7, <1>8 DEF OwnershipInv, Sequential

\* UnlinkEnd and UnlinkLose: the file and all its entries are forgotten.
LEMMA DropFileOwns ==
  ASSUME Sequential, OwnershipInv, NEW p \in Tasks, pc[p] = "unlink", DropFile(p)
  PROVE  OwnershipInv'
<1> DEFINE f == fil[p]
           b == indexBlock[f]
<1>0. f \in Files /\ b \in Blocks /\ TypeOK
  BY DEF OwnershipInv, TypeOK
<1>1. bfree' \subseteq Blocks /\ nrFree' \in 0..Word-1 /\ bfree' = bfree \cup {b}
  BY <1>0, PutBlockType DEF DropFile, PutBlock
<1>2. TypeOK'
  BY <1>0, <1>1, ConstantFacts DEF TypeOK, PCs, DropFile, Return, GoTo, NoSlots
<1>3. BlocksBounded'
  BY <1>0, ConstantFacts, SMT DEF OwnershipInv, TypeOK, BlocksBounded, DropFile
<1>4. \A g \in Files : /\ indexBlock'[g] = IF g = f THEN 0 ELSE indexBlock[g]
                       /\ \A j \in Slots : index'[g][j] =
                            IF g = f THEN 0 ELSE index[g][j]
  BY <1>0 DEF TypeOK, DropFile, NoSlots
<1>5. NoSharedBlock'
  BY <1>4, SharingForgotten DEF OwnershipInv
<1>6. \A g \in Files, j \in Slots : g # f => ~FreedByUnlink(g, j)
  BY DEF FreedByUnlink, Sequential
<1>7. OwnedStrictly'
  <2> HIDE DEF f
  <2>1. ASSUME NEW g \in Files, indexBlock'[g] \in bfree' PROVE indexBlock'[g] = 0
    <3>1. CASE g = f
      BY <1>4, <3>1
    <3>2. CASE g # f
      <4>1. indexBlock[g] # 0 => indexBlock[g] # indexBlock[f]
        BY <1>0, <3>2 DEF OwnershipInv, NoSharedBlock
      <4>2. indexBlock[g] \in bfree => indexBlock[g] = 0
        BY DEF OwnershipInv, OwnedIsUsed
      <4> QED
        BY <1>1, <1>4, <2>1, <3>2, <4>1, <4>2
    <3> QED
      BY <3>1, <3>2
  <2>2. ASSUME NEW g \in Files, NEW j \in Slots, index'[g][j] \in bfree'
        PROVE  index'[g][j] = 0
    <3>1. CASE g = f
      BY <1>4, <3>1
    <3>2. CASE g # f
      <4>1. index[g][j] # 0 => index[g][j] # indexBlock[f]
        BY <1>0, Unshared, SMT DEF OwnershipInv
      <4>2. index[g][j] \in bfree => index[g][j] = 0
        BY <1>6, <3>2 DEF OwnershipInv, OwnedIsUsed
      <4> QED
        BY <1>1, <1>4, <2>2, <3>2, <4>1, <4>2
    <3> QED
      BY <3>1, <3>2
  <2> QED
    BY <2>1, <2>2 DEF OwnedStrictly
<1>8. OwnedIsUsed'
  BY <1>7 DEF OwnedStrictly, OwnedIsUsed
<1>9. InHand(p)'
  BY <1>0 DEF TypeOK, InHand, DropFile, Return, GoTo
<1> QED
  BY <1>2, <1>3, <1>5, <1>8, <1>9 DEF OwnershipInv, Sequential

\* A loop leaving the index block touches none of the modelled state.
LEMMA OverrunOwns ==
  ASSUME Sequential, OwnershipInv, NEW p \in Tasks, Overrun(p)
  PROVE  OwnershipInv'
<1>0. /\ pc' = [pc EXCEPT ![p] = "overrun"]
      /\ pc[p] \in {"reserve", "trunc", "free", "unlink"}
      /\ UNCHANGED <<bfree, nrFree, indexBlock, index, iBlocks, fil, bli, stop, bno>>
  BY DEF Overrun, Reserving, GoTo
<1>1. TypeOK'
  BY <1>0 DEF OwnershipInv, TypeOK, PCs
<1>2. BlocksBounded' /\ NoSharedBlock'
  BY <1>0, SharingUnchanged DEF OwnershipInv, BlocksBounded
<1>3. \A f \in Files, k \in Slots : FreedByUnlink(f, k) => FreedByUnlink(f, k)'
  BY <1>0 DEF OwnershipInv, TypeOK, FreedByUnlink, Sequential
<1>4. OwnedIsUsed'
  BY <1>0, <1>3 DEF OwnershipInv, OwnedIsUsed
<1>5. InHand(p)'
  BY <1>0 DEF OwnershipInv, TypeOK, InHand
<1> QED
  BY <1>1, <1>2, <1>4, <1>5 DEF OwnershipInv, Sequential

-----------------------------------------------------------------------------
\* A freshly formatted partition satisfies the invariant.
LEMMA InitOwns == Init => OwnershipInv
<1> SUFFICES ASSUME Init PROVE OwnershipInv
  OBVIOUS
<1> USE DEF Init
<1>1. TypeOK
  <2>1. DataBlocks \subseteq Blocks
    BY ConstantsOK, SMT DEF DataBlocks, Blocks
  <2>2. Cardinality(DataBlocks) \in 0..Word-1
    <3>1. /\ FirstData \in Int /\ NrBlocks - 1 \in Int /\ FirstData >= 1
          /\ NrBlocks \in Nat /\ Word \in Nat /\ NrBlocks < Word
      BY ConstantsOK, SMT
    <3>2. Cardinality(DataBlocks) = IF FirstData > NrBlocks - 1 THEN 0
                                    ELSE NrBlocks - 1 - FirstData + 1
      BY <3>1, FS_Interval DEF DataBlocks
    <3> QED
      BY <3>1, <3>2, SMT
  <2> QED
    BY <2>1, <2>2, ConstantFacts DEF TypeOK, PCs, NoSlots
<1>2. BlocksBounded /\ NoSharedBlock /\ OwnedIsUsed
  BY ConstantFacts, SMT DEF BlocksBounded, NoSharedBlock, OwnedIsUsed, NoSlots
<1>3. \A p \in Tasks : InHand(p)
  BY DEF InHand
<1> QED
  BY <1>1, <1>2, <1>3 DEF OwnershipInv

\* Every step preserves the invariant.
LEMMA NextOwns ==
  ASSUME Sequential, OwnershipInv, [Next]_vars
  PROVE  OwnershipInv'
<1>1. CASE UNCHANGED vars
  <2>1. TypeOK' /\ BlocksBounded' /\ NoSharedBlock'
    BY <1>1, SharingUnchanged DEF OwnershipInv, vars, TypeOK, BlocksBounded
  <2>2. OwnedIsUsed'
    BY <1>1 DEF OwnershipInv, vars, OwnedIsUsed, FreedByUnlink
  <2>3. \A p \in Tasks : InHand(p)'
    BY <1>1 DEF OwnershipInv, vars, InHand
  <2> QED
    BY <2>1, <2>2, <2>3 DEF OwnershipInv
<1>2. ASSUME NEW p \in Tasks, Call(p) PROVE OwnershipInv'
  BY <1>2, CreateFindOwns, WriteBeginOwns, DefragBeginOwns, LocalStepOwns DEF Call
<1>3. ASSUME NEW p \in Tasks, Step(p) PROVE OwnershipInv'
  <2>1. CASE UnlinkEnd(p) \/ UnlinkLose(p)
    BY <2>1, DropFileOwns DEF UnlinkEnd, UnlinkLose
  <2>2. CASE CreateTake(p) \/ CreateRegister(p) \/ CreateAbort(p)
    BY <2>2, CreateTakeOwns, CreateRegisterOwns, CreateAbortOwns
  <2>3. CASE ReserveSkip(p) \/ ReserveFind(p) \/ ReserveTake(p) \/ ReserveFail(p)
             \/ ReserveEnd(p)
    BY <2>3, LocalStepOwns, ReserveFindOwns, ReserveTakeOwns
  <2>4. CASE TruncPut(p) \/ TruncEnd(p) \/ DefragPut(p) \/ DefragEnd(p)
    BY <2>4, PutSlotOwns, TruncEndOwns, DefragEndOwns
  <2>5. CASE UnlinkSkip(p) \/ UnlinkPut(p) \/ UnlinkScrub(p)
    BY <2>5, UnlinkLocalStepOwns, UnlinkPutOwns
  <2> QED
    BY <1>3, <2>1, <2>2, <2>3, <2>4, <2>5, OverrunOwns DEF Step
<1> QED
  BY <1>1, <1>2, <1>3 DEF Next

\* With one task at a time the invariant always holds.
THEOREM OwnershipInvariant ==
  ASSUME Sequential
  PROVE  Spec => []OwnershipInv
<1>1. OwnershipInv /\ [Next]_vars => OwnershipInv'
  BY NextOwns
<1> QED
  BY InitOwns, <1>1, PTL DEF Spec

\* The allocator, the index blocks and the locals of the calls keep their
\* types, sbi->nr_free_blocks its 32 bits.
THEOREM OwnershipTypes ==
  ASSUME Sequential
  PROVE  Spec => []TypeOK
<1>1. OwnershipInv => TypeOK
  BY DEF OwnershipInv
<1> QED
  BY <1>1, OwnershipInvariant, PTL

\* With one task at a time no block ever has two owners, whatever sequence of
\* create, write, O_TRUNC, defragmentation and unlink is made and whichever
\* block reads fail.
THEOREM BlocksAreNotShared ==
  ASSUME Sequential
  PROVE  Spec => []NoSharedBlock
<1>1. OwnershipInv => NoSharedBlock
  BY DEF OwnershipInv
<1> QED
  BY <1>1, OwnershipInvariant, PTL

\* With one task at a time a block that a file refers to is never free.
THEOREM OwnedBlocksAreUsed ==
  ASSUME Sequential
  PROVE  Spec => []OwnedIsUsed
<1>1. OwnershipInv => OwnedIsUsed
  BY DEF OwnershipInv
<1> QED
  BY <1>1, OwnershipInvariant, PTL

-----------------------------------------------------------------------------
(* The counter of free blocks and the shape of the index.                  *)

\* The blocks of f are in slots 0..i_blocks-2.
Dense(f) ==
  /\ iBlocks[f] > 0
  /\ \A k \in Slots : index[f][k] # 0 <=> k < iBlocks[f] - 1

\* A call that opens or closes gaps in the index of f is under way.
Reshaping(f) ==
  \E p \in Tasks : fil[p] = f /\ pc[p] \in {"reserve", "take", "free"}

\* While blocks are reserved, the slots bli..stop-1 are the only gap, and the
\* bitmap has a block for each of them.
ReserveShape(p, f) ==
  /\ iBlocks[f] > 0
  /\ bli[p] <= stop[p] /\ bli[p] <= iBlocks[f] - 1
  /\ stop[p] - bli[p] <= nrFree
  /\ \A k \in Slots : index[f][k] # 0 <=>
       k < iBlocks[f] - 1 + stop[p] - bli[p] /\ (k < bli[p] \/ k >= stop[p])

\* While the second pass of defragmentation frees blocks, the slots
\* stop..bli-1 are the gap.
FreeShape(p, f) ==
  /\ iBlocks[f] > 0
  /\ \A k \in Slots : index[f][k] # 0 <=>
       k < iBlocks[f] - 1 /\ (k < stop[p] \/ k >= bli[p])

Shape(p) ==
  /\ pc[p] \notin {"trunc", "overrun"}
  /\ pc[p] = "created" => bno[p] \in DataBlocks
  /\ pc[p] \in {"reserve", "take", "free", "unlink", "scrub"} =>
       indexBlock[fil[p]] # 0
  /\ pc[p] \in {"reserve", "take"} => ReserveShape(p, fil[p])
  /\ pc[p] = "free" => FreeShape(p, fil[p])

DenseAtRest ==
  \A f \in Files : indexBlock[f] # 0 /\ ~Reshaping(f) => Dense(f)

\* SystemAreaSafe, slot by slot.
InDataArea ==
  /\ bfree \subseteq DataBlocks
  /\ \A f \in Files : /\ indexBlock[f] \in DataBlocks \cup {0}
                      /\ \A k \in Slots : index[f][k] \in DataBlocks \cup {0}

\* The inductive invariant is OwnershipInv and this.
Counted ==
  /\ FreeCountExact
  /\ InDataArea
  /\ DenseAtRest
  /\ \A p \in Tasks : Shape(p)

-----------------------------------------------------------------------------
\* A step outside of which nothing reshapes an index.
LEMMA AtRest ==
  ASSUME Sequential, NEW p \in Tasks, Counted,
         pc[p] \notin {"reserve", "take", "free"},
         NEW f \in Files, indexBlock[f] # 0
  PROVE  Dense(f)
BY DEF Sequential, Counted, DenseAtRest, Reshaping

\* find_block_pos finds every cursor: no block lies behind those that i_blocks
\* counts.
LEMMA CursorIsFound ==
  ASSUME Sequential, OwnershipInv, Counted, NEW p \in Tasks, pc[p] = "idle",
         NEW f \in Files, indexBlock[f] # 0
  PROVE  ~CursorLost(f)
<1>1. Dense(f) /\ iBlocks[f] \in Nat /\ Slots \subseteq Nat
  BY AtRest, ConstantFacts DEF OwnershipInv, TypeOK
<1> QED
  BY <1>1, SMT DEF Dense, CursorLost

\* No data block is block 0.
LEMMA DataBlockFacts ==
  0 \notin DataBlocks /\ DataBlocks \subseteq Blocks /\ DataBlocks \subseteq Nat
BY ConstantsOK, SMT DEF DataBlocks, Blocks

\* The bitmap is finite, and smaller than the range of the counter.
LEMMA BitmapIsFinite ==
  ASSUME TypeOK
  PROVE  /\ IsFiniteSet(bfree)
         /\ Cardinality(bfree) \in Nat /\ Cardinality(bfree) < Word
         /\ Cardinality(bfree) = 0 <=> bfree = {}
<1>1. NrBlocks \in Nat /\ Word \in Nat /\ NrBlocks < Word /\ 0 \in Int /\ NrBlocks - 1 \in Int
  BY ConstantsOK, SMT
<1>2. IsFiniteSet(Blocks) /\ Cardinality(Blocks) = IF 0 > NrBlocks - 1 THEN 0 ELSE NrBlocks - 1 - 0 + 1
  BY <1>1, FS_Interval DEF Blocks
<1>3. bfree \in SUBSET Blocks
  BY DEF TypeOK
<1>4. IsFiniteSet(bfree) /\ Cardinality(bfree) <= Cardinality(Blocks)
  BY <1>2, <1>3, FS_Subset
<1>5. Cardinality(bfree) \in Nat
  BY <1>4, FS_CardinalityType
<1>6. Cardinality(bfree) = 0 <=> bfree = {}
  BY <1>4, FS_EmptySet
<1> QED
  BY <1>1, <1>2, <1>4, <1>5, <1>6, SMT

\* get_free_block keeps the counter exact, and it does not wrap.
LEMMA GetFreeBlockCounts ==
  ASSUME TypeOK, FreeCountExact, NEW b \in bfree, b # 0, GetFreeBlock(b)
  PROVE  FreeCountExact' /\ nrFree' = nrFree - 1 /\ nrFree > 0
<1>1. Cardinality(bfree \ {b}) = Cardinality(bfree) - 1
  BY BitmapIsFinite, FS_RemoveElement
<1>2. Cardinality(bfree) \in Nat /\ Cardinality(bfree) # 0
  BY BitmapIsFinite
<1> QED
  BY <1>1, <1>2, SMT DEF FreeCountExact, GetFreeBlock

\* So does put_block, of a block that is not free.
LEMMA PutBlockCounts ==
  ASSUME TypeOK, FreeCountExact, NEW b \in Blocks, b \notin bfree, PutBlock(b)
  PROVE  FreeCountExact' /\ nrFree' = nrFree + 1
<1>1. /\ Cardinality(bfree \cup {b}) = Cardinality(bfree) + 1
      /\ bfree' = bfree \cup {b}
  BY BitmapIsFinite, FS_AddElement DEF PutBlock
<1>2. bfree \cup {b} \subseteq Blocks
  BY DEF TypeOK
<1>3. NrBlocks \in Nat /\ Word \in Nat /\ NrBlocks < Word /\ 0 \in Int /\ NrBlocks - 1 \in Int
  BY ConstantsOK, SMT
<1>4. IsFiniteSet(Blocks) /\ Cardinality(Blocks) = IF 0 > NrBlocks - 1 THEN 0 ELSE NrBlocks - 1 - 0 + 1
  BY <1>3, FS_Interval DEF Blocks
<1>5. Cardinality(bfree \cup {b}) <= Cardinality(Blocks)
  BY <1>2, <1>4, FS_Subset
<1>6. Cardinality(bfree) \in Nat
  BY BitmapIsFinite
<1> QED
  BY <1>1, <1>3, <1>4, <1>5, <1>6, SMT DEF FreeCountExact, PutBlock

-----------------------------------------------------------------------------
(* One lemma per action.                                                  *)

\* Looking for a free index block preserves the counts and shapes.
LEMMA CreateFindCounts ==
  ASSUME Sequential, OwnershipInv, Counted, NEW p \in Tasks, NEW f \in Files,
         CreateFind(p, f)
  PROVE  Counted'
<1> USE DEF CreateFind, Begin
<1>1. FreeCountExact' /\ InDataArea'
  BY DEF Counted, FreeCountExact, InDataArea
<1>2. DenseAtRest'
  BY AtRest DEF DenseAtRest, Dense
<1>3. Shape(p)'
  BY DEF OwnershipInv, TypeOK, Shape
<1> QED
  BY <1>1, <1>2, <1>3 DEF Counted, Sequential

\* The start of ouichefs_unlink preserves them.
LEMMA UnlinkBeginCounts ==
  ASSUME Sequential, OwnershipInv, Counted, NEW p \in Tasks, NEW f \in Files,
         UnlinkBegin(p, f)
  PROVE  Counted'
<1> USE DEF UnlinkBegin, Begin
<1>1. FreeCountExact' /\ InDataArea'
  BY DEF Counted, FreeCountExact, InDataArea
<1>2. DenseAtRest'
  BY AtRest DEF DenseAtRest, Dense
<1>3. Shape(p)'
  BY DEF OwnershipInv, TypeOK, Shape
<1> QED
  BY <1>1, <1>2, <1>3 DEF Counted, Sequential

\* Clearing the bit of a new index block decreases the counter with it.
LEMMA CreateTakeCounts ==
  ASSUME Sequential, OwnershipInv, Counted, NEW p \in Tasks, CreateTake(p)
  PROVE  Counted'
<1>0. /\ TypeOK /\ pc[p] = "create" /\ GetFreeBlock(bno[p])
      /\ bno[p] \in bfree /\ bno[p] \in DataBlocks /\ bno[p] # 0
  BY DataBlockFacts DEF OwnershipInv, InHand, Counted, InDataArea, CreateTake
<1>1. /\ pc' = [pc EXCEPT ![p] = "created"]
      /\ UNCHANGED <<indexBlock, index, iBlocks, fil, bno>>
  BY <1>0 DEF CreateTake, GoTo
<1>2. FreeCountExact'
  BY <1>0, GetFreeBlockCounts DEF Counted
<1>3. InDataArea'
  BY <1>0, <1>1 DEF Counted, InDataArea, GetFreeBlock
<1>4. DenseAtRest'
  BY <1>0, <1>1, AtRest DEF DenseAtRest, Dense
<1>5. Shape(p)'
  BY <1>0, <1>1 DEF TypeOK, Shape
<1> QED
  BY <1>2, <1>3, <1>4, <1>5 DEF Counted, Sequential

\* A new file has an empty, dense index.
LEMMA CreateRegisterCounts ==
  ASSUME Sequential, OwnershipInv, Counted, NEW p \in Tasks, CreateRegister(p)
  PROVE  Counted'
<1> DEFINE f == fil[p]
<1>0. /\ TypeOK /\ f \in Files /\ pc[p] = "created"
      /\ bno[p] \in DataBlocks
  BY DEF OwnershipInv, TypeOK, Counted, Shape, CreateRegister
<1>1. \A g \in Files :
        /\ indexBlock'[g] = IF g = f THEN bno[p] ELSE indexBlock[g]
        /\ iBlocks'[g] = IF g = f THEN 1 ELSE iBlocks[g]
        /\ \A k \in Slots : index'[g][k] = IF g = f THEN 0 ELSE index[g][k]
  BY <1>0 DEF TypeOK, CreateRegister, NoSlots
<1>2. FreeCountExact'
  BY DEF Counted, FreeCountExact, CreateRegister
<1>3. InDataArea'
  BY <1>0, <1>1, SMT DEF Counted, InDataArea, CreateRegister
<1>4. \A g \in Files : indexBlock[g] # 0 => Dense(g)
  BY <1>0, AtRest
<1>5. DenseAtRest'
  <2>1. ASSUME NEW g \in Files, indexBlock'[g] # 0 PROVE Dense(g)'
    <3>1. CASE g = f
      BY <1>1, <3>1, ConstantFacts, SMT DEF Dense
    <3>2. CASE g # f
      BY <1>1, <1>4, <2>1, <3>2, SMT DEF Dense
    <3> QED
      BY <3>1, <3>2
  <2> QED
    BY <2>1 DEF DenseAtRest
<1>6. Shape(p)'
  BY <1>0 DEF TypeOK, Shape, CreateRegister, Return, GoTo
<1> QED
  BY <1>2, <1>3, <1>5, <1>6 DEF Counted, Sequential

\* Giving the index block back increases the counter with the bitmap.
LEMMA CreateAbortCounts ==
  ASSUME Sequential, OwnershipInv, Counted, NEW p \in Tasks, CreateAbort(p)
  PROVE  Counted'
<1>0. /\ TypeOK /\ pc[p] = "created" /\ PutBlock(bno[p])
      /\ bno[p] \in DataBlocks /\ bno[p] \notin bfree /\ bno[p] \in Blocks
      /\ UNCHANGED <<indexBlock, index, iBlocks>>
  BY DEF OwnershipInv, TypeOK, InHand, Counted, Shape, CreateAbort
<1>1. FreeCountExact'
  BY <1>0, PutBlockCounts DEF Counted
<1>2. InDataArea'
  BY <1>0 DEF Counted, InDataArea, PutBlock
<1>3. DenseAtRest'
  BY <1>0, AtRest DEF DenseAtRest, Dense
<1>4. Shape(p)'
  BY <1>0 DEF TypeOK, Shape, CreateAbort, Return, GoTo
<1> QED
  BY <1>1, <1>2, <1>3, <1>4 DEF Counted, Sequential

\* What shift_blocks makes of a dense index of m blocks: a gap of n slots.
LEMMA ShiftOpensGap ==
  ASSUME NEW idx \in [Slots -> Blocks], NEW m \in Nat, NEW n \in Nat,
         NEW start \in Nat, start < m,
         \A k \in Slots : idx[k] # 0 <=> k < m
  PROVE  \A k \in Slots : ShiftBlocks(idx, start, n, m - 1)[k] # 0 <=>
           k < m + n /\ (k < start \/ k >= start + n)
<1>1. \A k \in Slots : k \in start+n..m-1+n => k - n \in Slots /\ k - n < m
  BY ConstantFacts, SMT DEF Slots
<1>2. \A k \in Slots : ShiftBlocks(idx, start, n, m - 1)[k] =
        IF k \in start+n..m-1+n THEN idx[k - n]
        ELSE IF k \in start..m-1 THEN 0 ELSE idx[k]
  BY DEF ShiftBlocks
<1> QED
  BY <1>1, <1>2, ConstantFacts, SMT

\* Shifting opens exactly the gap that is to be filled, and space_available
\* has seen a free block for every slot of it.
LEMMA WriteBeginCounts ==
  ASSUME Sequential, OwnershipInv, Counted, NEW p \in Tasks, NEW f \in Files,
         NEW at \in Slots, NEW n \in 1..MaxEntries+1, WriteBegin(p, f, at, n)
  PROVE  Counted'
<1> DEFINE start == IF index[f][at] = 0 THEN at ELSE at + 1
           m == iBlocks[f] - 1
           s == IF at < iBlocks[f] - 2
                THEN ShiftBlocks(index[f], start, n, iBlocks[f] - 2)
                ELSE index[f]
<1>0. /\ TypeOK /\ pc[p] = "idle" /\ indexBlock[f] # 0 /\ n <= nrFree
      /\ at = 0 \/ at < iBlocks[f]
      /\ UNCHANGED <<bfree, nrFree, indexBlock, iBlocks>>
      /\ index' = [index EXCEPT ![f] = s]
  BY CursorIsFound DEF OwnershipInv, WriteBegin, Begin, SpaceAvailable
<1>1. /\ pc'[p] = "reserve" /\ fil'[p] = f
      /\ bli'[p] = start /\ stop'[p] = start + n
  BY <1>0 DEF TypeOK, WriteBegin, Begin
<1>2. Dense(f)
  BY <1>0, AtRest
<1>3. /\ m \in Nat /\ start \in Nat /\ n \in Nat /\ n > 0 /\ start <= m
      /\ iBlocks[f] \in Nat
      /\ at < iBlocks[f] - 2 => start < m
      /\ ~(at < iBlocks[f] - 2) => start = m
  BY <1>0, <1>2, ConstantFacts, SMT DEF Dense, TypeOK
<1>4. index[f] \in [Slots -> Blocks] /\ \A k \in Slots : index[f][k] # 0 <=> k < m
  BY <1>0, <1>2 DEF Dense, TypeOK
<1>5. \A k \in Slots : s[k] # 0 <=> k < m + n /\ (k < start \/ k >= start + n)
  <2>1. CASE at < iBlocks[f] - 2
    <3>1. iBlocks[f] - 2 = m - 1
      BY <1>3, SMT
    <3> HIDE DEF start, m
    <3> QED
      BY <1>3, <1>4, <2>1, <3>1, ShiftOpensGap, SMT
  <2>2. CASE ~(at < iBlocks[f] - 2)
    <3>1. s = index[f] /\ start = m
      BY <1>3, <2>2
    <3> HIDE DEF start, m, s
    <3> QED
      BY <1>3, <1>4, <3>1, ConstantFacts, SMT
  <2> QED
    BY <2>1, <2>2
<1>6. \A k \in Slots : s[k] # 0 => \E i \in Slots : s[k] = index[f][i]
  <2>1. Distinct(index[f])
    BY SMT DEF OwnershipInv, NoSharedBlock, Distinct
  <2>2. Rearranged(ShiftBlocks(index[f], start, n, iBlocks[f] - 2), index[f])
    <3> iBlocks[f] - 2 \in Int
      BY <1>3, SMT
    <3> HIDE DEF start
    <3> QED  BY <1>3, <1>4, <2>1, ShiftKeepsEntries
  <2> QED
    BY <2>2 DEF Rearranged
<1>7. FreeCountExact'
  BY <1>0 DEF Counted, FreeCountExact
<1> HIDE DEF s, start
<1>8. InDataArea'
  BY <1>0, <1>6 DEF Counted, InDataArea, TypeOK
<1>9. DenseAtRest'
  <2>1. ASSUME NEW g \in Files, g # f, indexBlock[g] # 0 PROVE Dense(g)'
    <3>1. Dense(g)
      BY <1>0, <2>1, AtRest
    <3> QED
      BY <1>0, <2>1, <3>1 DEF Dense, TypeOK
  <2>2. Reshaping(f)'
    BY <1>1 DEF Reshaping
  <2> QED
    BY <1>0, <2>1, <2>2 DEF DenseAtRest
<1>10. Shape(p)'
  <2>1. ReserveShape(p, f)'
    BY <1>0, <1>1, <1>2, <1>3, <1>5, ConstantFacts, SMT DEF ReserveShape, Dense, TypeOK
  <2>2. ReserveShape(p, fil[p])'
    BY <1>1, <2>1 DEF ReserveShape
  <2> QED
    BY <1>0, <1>1, <2>2 DEF Shape
<1> QED
  BY <1>7, <1>8, <1>9, <1>10 DEF Counted, Sequential

\* Finding a free block for a slot changes no count.
LEMMA ReserveFindCounts ==
  ASSUME Sequential, OwnershipInv, Counted, NEW p \in Tasks, ReserveFind(p)
  PROVE  Counted'
<1>0. /\ TypeOK /\ Shape(p) /\ pc[p] = "reserve"
      /\ pc' = [pc EXCEPT ![p] = "take"]
      /\ UNCHANGED <<bfree, nrFree, indexBlock, index, iBlocks, fil, bli, stop>>
  BY DEF OwnershipInv, Counted, ReserveFind, Reserving, GoTo
<1>1. FreeCountExact' /\ InDataArea'
  BY <1>0 DEF Counted, FreeCountExact, InDataArea
<1>2. DenseAtRest'
  BY <1>0 DEF Counted, DenseAtRest, Dense, Reshaping, TypeOK, Sequential
<1>3. Shape(p)'
  BY <1>0 DEF Shape, ReserveShape, TypeOK
<1> QED
  BY <1>1, <1>2, <1>3 DEF Counted, Sequential

\* Taking a block closes the gap by one slot and uses one free block.
LEMMA ReserveTakeCounts ==
  ASSUME Sequential, OwnershipInv, Counted, NEW p \in Tasks, ReserveTake(p)
  PROVE  Counted'
<1> DEFINE f == fil[p]
           i == bli[p]
           b == bno[p]
<1>0. /\ TypeOK /\ pc[p] = "take" /\ f \in Files
      /\ i \in Slots /\ i \in Nat /\ i < stop[p] /\ stop[p] \in Nat
      /\ b \in bfree /\ b \in DataBlocks /\ b # 0 /\ GetFreeBlock(b)
      /\ iBlocks[f] \in Nat /\ nrFree \in Nat
      /\ indexBlock[f] # 0 /\ ReserveShape(p, f)
  <2>1. TypeOK /\ pc[p] = "take" /\ InHand(p) /\ Shape(p) /\ GetFreeBlock(b)
    BY DEF OwnershipInv, Counted, ReserveTake
  <2>2. i \in Slots /\ i < stop[p] /\ b \in bfree
    BY <2>1 DEF InHand
  <2>3. b \in DataBlocks /\ b # 0
    BY <2>2, DataBlockFacts DEF Counted, InDataArea
  <2>4. indexBlock[f] # 0 /\ ReserveShape(p, f)
    BY <2>1 DEF Shape
  <2>5. /\ f \in Files /\ i \in Nat /\ stop[p] \in Nat
        /\ iBlocks[f] \in Nat /\ nrFree \in Nat
    BY <2>1, ConstantFacts, SMT DEF TypeOK
  <2> QED
    BY <2>1, <2>2, <2>3, <2>4, <2>5
<1>1. /\ index' = [index EXCEPT ![f][i] = b]
      /\ iBlocks' = [iBlocks EXCEPT ![f] = @ + 1]
      /\ bli' = [bli EXCEPT ![p] = @ + 1]
      /\ pc' = [pc EXCEPT ![p] = "reserve"]
      /\ bfree' = bfree \ {b}
      /\ UNCHANGED <<indexBlock, fil, stop, bno>>
  BY <1>0 DEF ReserveTake, GetFreeBlock, GoTo, NextSlot
<1>2. FreeCountExact' /\ nrFree' = nrFree - 1
  BY <1>0, GetFreeBlockCounts DEF Counted
<1>3. \A g \in Files :
        /\ iBlocks'[g] = IF g = f THEN iBlocks[f] + 1 ELSE iBlocks[g]
        /\ \A k \in Slots :
             index'[g][k] = IF g = f /\ k = i THEN b ELSE index[g][k]
  BY <1>0, <1>1 DEF TypeOK
<1>4. /\ pc'[p] = "reserve" /\ fil'[p] = f /\ bli'[p] = i + 1
      /\ stop'[p] = stop[p]
  BY <1>0, <1>1 DEF TypeOK
<1>5. \A k \in Slots : index[f][k] # 0 <=>
        k < iBlocks[f] - 1 + stop[p] - i /\ (k < i \/ k >= stop[p])
  BY <1>0 DEF ReserveShape
<1>6. /\ iBlocks[f] > 0 /\ i <= stop[p] /\ i <= iBlocks[f] - 1
      /\ stop[p] - i <= nrFree
  BY <1>0 DEF ReserveShape
<1> HIDE DEF f, i, b
<1>7. InDataArea'
  BY <1>0, <1>1, <1>3, SMT DEF Counted, InDataArea
<1>8. DenseAtRest'
  <2>1. ASSUME NEW g \in Files, g # f, indexBlock[g] # 0 PROVE Dense(g)'
    <3>1. Dense(g)
      BY <2>1 DEF Counted, DenseAtRest, Reshaping, Sequential, f
    <3> QED
      BY <1>1, <1>3, <2>1, <3>1, SMT DEF Dense
  <2>2. \A g \in Files : g = f => Reshaping(g)'
    BY <1>4 DEF Reshaping
  <2> QED
    BY <1>1, <2>1, <2>2 DEF DenseAtRest
<1>9. Shape(p)'
  <2>1. \A k \in Slots : index'[f][k] # 0 <=>
          k < iBlocks[f] + 1 - 1 + stop[p] - (i + 1) /\ (k < i + 1 \/ k >= stop[p])
    <3>1. ASSUME NEW k \in Slots, k = i PROVE index'[f][k] # 0 /\ k < iBlocks[f] - 1 + stop[p] - i
      <4>1. index'[f][k] # 0
        BY <1>0, <1>3, <3>1
      <4>2. k < iBlocks[f] - 1 + stop[p] - i
        BY <1>0, <1>6, <3>1, SMT
      <4> QED
        BY <4>1, <4>2
    <3>2. ASSUME NEW k \in Slots, k # i
          PROVE  /\ index'[f][k] = index[f][k]
                 /\ k < i + 1 <=> k < i
      BY <1>0, <1>3, <3>2, ConstantFacts, SMT
    <3>3. iBlocks[f] + 1 - 1 + stop[p] - (i + 1) = iBlocks[f] - 1 + stop[p] - i
      BY <1>0, SMT
    <3>4. i < i + 1
      BY <1>0, SMT
    <3> QED
      BY <1>5, <3>1, <3>2, <3>3, <3>4
  <2>2. iBlocks'[f] = iBlocks[f] + 1
    BY <1>0, <1>3
  <2>3. ReserveShape(p, fil[p])'
    BY <1>0, <1>2, <1>4, <1>6, <2>1, <2>2, SMT DEF ReserveShape
  <2> QED
    BY <1>0, <1>1, <1>4, <2>3 DEF Shape
<1> QED
  BY <1>2, <1>7, <1>8, <1>9 DEF Counted, Sequential

\* When the gap is closed the index is dense again.
LEMMA ReserveEndCounts ==
  ASSUME Sequential, OwnershipInv, Counted, NEW p \in Tasks, ReserveEnd(p)
  PROVE  Counted'
<1>0. /\ TypeOK /\ pc[p] = "reserve" /\ bli[p] >= stop[p]
      /\ fil[p] \in Files /\ bli[p] \in Nat /\ stop[p] \in Nat
      /\ iBlocks[fil[p]] \in Nat
      /\ pc' = [pc EXCEPT ![p] = "idle"]
      /\ UNCHANGED <<bfree, nrFree, indexBlock, index, iBlocks, fil>>
  BY DEF OwnershipInv, TypeOK, ReserveEnd, Return, GoTo
<1>1. FreeCountExact' /\ InDataArea'
  BY <1>0 DEF Counted, FreeCountExact, InDataArea
<1>2. Dense(fil[p])
  <2>1. ReserveShape(p, fil[p])
    BY <1>0 DEF Counted, Shape
  <2>2. bli[p] = stop[p]
    BY <1>0, <2>1, SMT DEF ReserveShape
  <2>3. ASSUME NEW k \in Slots PROVE index[fil[p]][k] # 0 <=> k < iBlocks[fil[p]] - 1
    <3>1. k \in Nat
      BY ConstantFacts
    <3> QED
      BY <1>0, <2>1, <2>2, <3>1, SMT DEF ReserveShape
  <2> QED
    BY <2>1, <2>3 DEF Dense, ReserveShape
<1>3. \A g \in Files : g # fil[p] /\ indexBlock[g] # 0 => Dense(g)
  BY DEF Counted, DenseAtRest, Reshaping, Sequential
<1>4. DenseAtRest'
  BY <1>0, <1>2, <1>3 DEF DenseAtRest, Dense
<1>5. Shape(p)'
  BY <1>0 DEF Shape, TypeOK
<1> QED
  BY <1>1, <1>4, <1>5 DEF Counted, Sequential

\* A cursor before the end of the index block overruns nothing.
LEMMA CursorInside ==
  ASSUME NEW p \in Tasks, TypeOK, bli[p] < MaxEntries
  PROVE  ~Overrun(p)
<1>1. bli[p] \in Nat /\ MaxEntries \in Nat
  BY ConstantFacts DEF TypeOK
<1>2. ~(bli[p] >= MaxEntries)
  BY <1>1, SMT
<1> QED
  BY <1>2 DEF Overrun

\* Neither the failure of reserve_empty_blocks nor an access behind the index
\* block can happen, and no slot has to be skipped.
LEMMA NothingGoesWrong ==
  ASSUME Sequential, OwnershipInv, Counted, "trunc" \notin Calls, NEW p \in Tasks
  PROVE  /\ ~ReserveSkip(p) /\ ~ReserveFail(p) /\ ~Overrun(p)
         /\ ~TruncPut(p) /\ ~TruncEnd(p)
         /\ \A f \in Files : ~TruncBegin(p, f) /\ ~WriteAstray(p, f)
<1>0. /\ TypeOK /\ Shape(p) /\ fil[p] \in Files /\ bli[p] \in Nat /\ stop[p] \in Nat
      /\ iBlocks[fil[p]] \in Nat /\ iBlocks[fil[p]] <= MaxEntries + 1
  BY DEF OwnershipInv, TypeOK, BlocksBounded, Counted
<1>1. ASSUME Reserving(p)
      PROVE  /\ bli[p] < MaxEntries /\ bli[p] \in Slots
             /\ index[fil[p]][bli[p]] = 0 /\ bfree # {}
  <2>1. ReserveShape(p, fil[p])
    BY <1>0, <1>1 DEF Shape, Reserving
  <2>2. iBlocks[fil[p]] + stop[p] - bli[p] <= MaxEntries + 1 /\ bli[p] < stop[p]
    BY <1>1 DEF OwnershipInv, InHand, Reserving
  <2>3. bli[p] < MaxEntries /\ bli[p] \in Slots
    BY <1>0, <2>1, <2>2, ConstantFacts, SMT DEF ReserveShape
  <2>4. index[fil[p]][bli[p]] = 0
    BY <1>0, <2>1, <2>2, <2>3, SMT DEF ReserveShape
  <2>5. nrFree > 0 /\ nrFree = Cardinality(bfree)
    BY <1>0, <2>1, <2>2, ConstantFacts, SMT DEF ReserveShape, Counted, FreeCountExact, TypeOK
  <2> QED
    BY <1>0, <2>3, <2>4, <2>5, BitmapIsFinite, SMT
<1>2. ~ReserveSkip(p) /\ ~ReserveFail(p)
  BY <1>1 DEF ReserveSkip, ReserveFail
<1>3. ~TruncPut(p) /\ ~TruncEnd(p) /\ \A f \in Files : ~TruncBegin(p, f)
  BY <1>0 DEF Shape, TruncPut, TruncEnd, TruncBegin
<1>4. ~Overrun(p)
  <2>1. CASE pc[p] = "free"
    <3>1. iBlocks[fil[p]] > 0
      BY <1>0, <2>1 DEF Shape, FreeShape
    <3>2. InFile(fil[p], bli[p]) => bli[p] < MaxEntries
      BY <1>0, <3>1, ConstantFacts, SMT DEF InFile
    <3>3. ~Reserving(p)
      BY <2>1 DEF Reserving
    <3>4. Overrun(p) => InFile(fil[p], bli[p])
      BY <2>1, <3>3 DEF Overrun
    <3> QED
      BY <1>0, <3>2, <3>4, CursorInside
  <2>2. CASE pc[p] = "unlink"
    <3>1. iBlocks[fil[p]] > 0
      BY <1>0, <2>2, AtRest DEF Shape, Dense
    <3>2. InFile(fil[p], bli[p]) => bli[p] < MaxEntries
      BY <1>0, <3>1, ConstantFacts, SMT DEF InFile
    <3>3. ~Reserving(p)
      BY <2>2 DEF Reserving
    <3>4. Overrun(p) => InFile(fil[p], bli[p])
      BY <2>2, <3>3 DEF Overrun
    <3> QED
      BY <1>0, <3>2, <3>4, CursorInside
  <2>3. CASE Reserving(p)
    <3>1. bli[p] < MaxEntries
      BY <1>1, <2>3
    <3> QED
      BY <1>0, <3>1, CursorInside
  <2> QED
    BY <1>0, <2>1, <2>2, <2>3 DEF Overrun, Shape
<1>5. \A f \in Files : ~WriteAstray(p, f)
  BY CursorIsFound DEF WriteAstray, Begin
<1> QED
  BY <1>2, <1>3, <1>4, <1>5

\* A permutation of the slots in use keeps the index dense.
LEMMA DefragBeginCounts ==
  ASSUME Sequential, OwnershipInv, Counted, NEW p \in Tasks, NEW f \in Files,
         NEW order, NEW first \in 0..MaxEntries, DefragBegin(p, f, order, first)
  PROVE  Counted'
<1> DEFINE used == 0..iBlocks[f]-2
           s == Permuted(index[f], used, order)
<1>0. /\ TypeOK /\ pc[p] = "idle" /\ indexBlock[f] # 0
      /\ order \in Bijection(used, used) /\ first \in Nat
      /\ UNCHANGED <<bfree, nrFree, indexBlock, iBlocks>>
      /\ index' = [index EXCEPT ![f] = s]
      /\ pc'[p] = "free" /\ fil'[p] = f /\ bli'[p] = first /\ stop'[p] = first
  BY ConstantFacts, SMT DEF OwnershipInv, TypeOK, DefragBegin, Begin
<1>1. Dense(f) /\ iBlocks[f] \in Nat /\ iBlocks[f] <= MaxEntries + 1
  BY <1>0, AtRest DEF OwnershipInv, BlocksBounded, TypeOK
<1>2. used \subseteq Slots /\ \A k \in Slots : k \in used <=> k < iBlocks[f] - 1
  BY <1>1, ConstantFacts, SMT
<1>3. \A k \in used : order[k] \in used
  BY <1>0 DEF Bijection, Injection
<1>4. \A k \in Slots : s[k] = index[f][IF k \in used THEN order[k] ELSE k]
  BY DEF Permuted
<1> HIDE DEF used, s
<1>5. \A k \in Slots : s[k] # 0 <=> k < iBlocks[f] - 1
  BY <1>1, <1>2, <1>3, <1>4 DEF Dense
<1>6. \A k \in Slots : \E i \in Slots : s[k] = index[f][i]
  BY <1>2, <1>3, <1>4
<1>7. FreeCountExact'
  BY <1>0 DEF Counted, FreeCountExact
<1>8. InDataArea'
  <2>1. \A g \in Files : index'[g] = IF g = f THEN s ELSE index[g]
    BY <1>0 DEF TypeOK
  <2>2. ASSUME NEW g \in Files, NEW k \in Slots
        PROVE  index'[g][k] \in DataBlocks \cup {0}
    <3>1. \A i \in Slots : index[g][i] \in DataBlocks \cup {0}
      BY DEF Counted, InDataArea
    <3>2. \E i \in Slots : index'[g][k] = index[g][i]
      BY <1>6, <2>1
    <3> QED
      BY <3>1, <3>2
  <2> QED
    BY <1>0, <2>2 DEF Counted, InDataArea
<1>9. DenseAtRest'
  <2>1. ASSUME NEW g \in Files, g # f, indexBlock[g] # 0 PROVE Dense(g)'
    <3>1. Dense(g)
      BY <1>0, <2>1, AtRest
    <3> QED
      BY <1>0, <2>1, <3>1 DEF Dense, TypeOK
  <2>2. Reshaping(f)'
    BY <1>0 DEF Reshaping
  <2> QED
    BY <1>0, <2>1, <2>2 DEF DenseAtRest
<1>10. Shape(p)'
  <2>1. FreeShape(p, fil[p])'
    <3>1. index'[f] = s /\ iBlocks'[f] = iBlocks[f] /\ iBlocks[f] > 0
      BY <1>0, <1>1 DEF Dense, TypeOK
    <3>2. \A k \in Slots : k < first \/ k >= first
      <4>1. first \in Nat /\ \A k \in Slots : k \in Nat
        BY <1>0, ConstantFacts
      <4> QED
        BY <4>1, SMT
    <3> QED
      BY <1>0, <1>5, <3>1, <3>2 DEF FreeShape
  <2> QED
    BY <1>0, <2>1 DEF Shape
<1> QED
  BY <1>7, <1>8, <1>9, <1>10 DEF Counted, Sequential

\* Freeing the block of a slot widens the gap by that slot, and the counter
\* grows with the bitmap.
LEMMA DefragPutCounts ==
  ASSUME Sequential, OwnershipInv, Counted, NEW p \in Tasks, DefragPut(p)
  PROVE  Counted'
<1> DEFINE f == fil[p]
           i == bli[p]
           b == index[f][i]
<1>0. /\ TypeOK /\ pc[p] = "free" /\ f \in Files /\ i \in Slots /\ i \in Nat
      /\ stop[p] \in Nat /\ iBlocks[f] \in Nat /\ stop[p] <= i
      /\ indexBlock[f] # 0 /\ FreeShape(p, f) /\ InFile(f, i)
  BY DEF OwnershipInv, InHand, Counted, Shape, DefragPut, TypeOK
<1>1. /\ PutBlock(b)
      /\ index' = [index EXCEPT ![f][i] = 0]
      /\ bli' = [bli EXCEPT ![p] = @ + 1]
      /\ UNCHANGED <<indexBlock, iBlocks, pc, fil, stop, bno>>
  BY DEF DefragPut, PutSlot, NextSlot
<1>2. b # 0 /\ b \in Blocks /\ b \in DataBlocks /\ i < iBlocks[f] - 1
  BY <1>0, SMT DEF FreeShape, InFile, TypeOK, Counted, InDataArea
<1>3. b \notin bfree
  <2>1. OwnedStrictly
    BY <1>0, StrictlyOwned
  <2> QED
    BY <1>0, <1>2, <2>1 DEF OwnedStrictly
<1>4. FreeCountExact'
  BY <1>0, <1>1, <1>2, <1>3, PutBlockCounts DEF Counted
<1>5. \A g \in Files, k \in Slots :
        index'[g][k] = IF g = f /\ k = i THEN 0 ELSE index[g][k]
  BY <1>0, <1>1 DEF TypeOK
<1>6. /\ pc'[p] = "free" /\ fil'[p] = f /\ bli'[p] = i + 1
      /\ stop'[p] = stop[p] /\ bfree' = bfree \cup {b}
  BY <1>0, <1>1 DEF TypeOK, PutBlock
<1>7. InDataArea'
  <2>1. bfree' \subseteq DataBlocks
    BY <1>2, <1>6 DEF Counted, InDataArea
  <2>2. ASSUME NEW g \in Files PROVE indexBlock'[g] \in DataBlocks \cup {0}
    BY <1>1 DEF Counted, InDataArea
  <2>3. ASSUME NEW g \in Files, NEW k \in Slots
        PROVE  index'[g][k] \in DataBlocks \cup {0}
    <3>1. index[g][k] \in DataBlocks \cup {0}
      BY DEF Counted, InDataArea
    <3>2. index'[g][k] = 0 \/ index'[g][k] = index[g][k]
      BY <1>5
    <3> QED
      BY <3>1, <3>2
  <2> QED
    BY <2>1, <2>2, <2>3 DEF InDataArea
<1>8. \A k \in Slots : index[f][k] # 0 <=>
        k < iBlocks[f] - 1 /\ (k < stop[p] \/ k >= i)
  BY <1>0 DEF FreeShape
<1>9. iBlocks[f] > 0
  BY <1>0 DEF FreeShape
<1> HIDE DEF f, i, b
<1>10. DenseAtRest'
  <2>1. ASSUME NEW g \in Files, g # f, indexBlock[g] # 0 PROVE Dense(g)'
    <3>1. Dense(g)
      BY <2>1 DEF Counted, DenseAtRest, Reshaping, Sequential, f
    <3> QED
      BY <1>1, <1>5, <2>1, <3>1, SMT DEF Dense
  <2>2. \A g \in Files : g = f => Reshaping(g)'
    BY <1>6 DEF Reshaping
  <2> QED
    BY <1>1, <2>1, <2>2 DEF DenseAtRest
<1>11. Shape(p)'
  <2>1. \A k \in Slots : index'[f][k] # 0 <=>
          k < iBlocks[f] - 1 /\ (k < stop[p] \/ k >= i + 1)
    BY <1>0, <1>5, <1>8, ConstantFacts, SMT
  <2>2. FreeShape(p, fil[p])'
    BY <1>1, <1>6, <1>9, <2>1 DEF FreeShape
  <2> QED
    BY <1>0, <1>1, <1>6, <2>2 DEF Shape
<1> QED
  BY <1>4, <1>7, <1>10, <1>11 DEF Counted, Sequential

\* i_blocks is reduced by what was freed, and the index is dense again.
LEMMA DefragEndCounts ==
  ASSUME Sequential, OwnershipInv, Counted, NEW p \in Tasks, DefragEnd(p)
  PROVE  Counted'
<1> DEFINE f == fil[p]
<1>0. /\ TypeOK /\ pc[p] = "free" /\ f \in Files /\ bli[p] \in Nat
      /\ stop[p] \in Nat /\ iBlocks[f] \in Nat /\ stop[p] <= bli[p]
      /\ FreeShape(p, f) /\ ~InFile(f, bli[p]) /\ InHand(p)
      /\ iBlocks' = [iBlocks EXCEPT ![f] = @ - (bli[p] - stop[p])]
      /\ pc' = [pc EXCEPT ![p] = "idle"]
      /\ UNCHANGED <<bfree, nrFree, indexBlock, index, fil>>
  BY DEF OwnershipInv, InHand, Counted, Shape, DefragEnd, TypeOK, Return, GoTo
<1>nat. /\ bli[p] \in Nat /\ stop[p] \in Nat /\ iBlocks[f] \in Nat
      /\ stop[p] <= bli[p]
  BY <1>0
<1>1. FreeCountExact' /\ InDataArea'
  BY <1>0 DEF Counted, FreeCountExact, InDataArea
<1>2. iBlocks'[f] = stop[p] + 1 /\ bli[p] = iBlocks[f] - 1
  <2>1. iBlocks[f] > 0 /\ bli[p] < iBlocks[f]
    BY <1>0 DEF InHand, FreeShape
  <2>2. bli[p] = iBlocks[f] - 1
    BY <1>0, <2>1, SMT DEF InFile
  <2>3. iBlocks'[f] = iBlocks[f] - (bli[p] - stop[p])
    BY <1>0 DEF TypeOK
  <2> QED
    BY <1>nat, <2>2, <2>3, SMT
<1>3. \A k \in Slots : index[f][k] # 0 <=> k < stop[p]
  <2>1. ASSUME NEW k \in Slots PROVE index[f][k] # 0 <=> k < stop[p]
    <3>1. index[f][k] # 0 <=> k < bli[p] /\ (k < stop[p] \/ k >= bli[p])
      BY <1>0, <1>2 DEF FreeShape
    <3>2. k \in Nat
      BY ConstantFacts
    <3>3. k < bli[p] /\ (k < stop[p] \/ k >= bli[p]) <=> k < stop[p]
      BY <1>nat, <3>2, SMT
    <3> QED
      BY <3>1, <3>3
  <2> QED
    BY <2>1
<1>4. \A g \in Files : g # f => iBlocks'[g] = iBlocks[g]
  BY <1>0 DEF TypeOK
<1> HIDE DEF f
<1>5. DenseAtRest'
  <2>1. ASSUME NEW g \in Files, indexBlock[g] # 0 PROVE Dense(g)'
    <3>1. CASE g = f
      <4>1. iBlocks'[f] > 0 /\ iBlocks'[f] - 1 = stop[p]
        <5>1. stop[p] \in Nat /\ iBlocks'[f] = stop[p] + 1
          BY <1>nat, <1>2
        <5> QED
          BY <5>1, SMT
      <4> QED
        BY <1>0, <1>3, <3>1, <4>1 DEF Dense
    <3>2. CASE g # f
      <4>1. Dense(g)
        BY <2>1, <3>2 DEF Counted, DenseAtRest, Reshaping, Sequential, f
      <4> QED
        BY <1>0, <1>4, <3>2, <4>1 DEF Dense
    <3> QED
      BY <3>1, <3>2
  <2> QED
    BY <1>0, <2>1 DEF DenseAtRest
<1>6. Shape(p)'
  BY <1>0 DEF Shape, TypeOK
<1> QED
  BY <1>1, <1>5, <1>6 DEF Counted, Sequential

\* Skipping and scrubbing change neither the bitmap nor an index.
LEMMA UnlinkLocalStepCounts ==
  ASSUME Sequential, OwnershipInv, Counted, NEW p \in Tasks,
         UnlinkSkip(p) \/ UnlinkScrub(p)
  PROVE  Counted'
<1>0. /\ TypeOK /\ pc[p] \in {"unlink", "scrub"}
      /\ pc' = [pc EXCEPT ![p] = "unlink"]
      /\ UNCHANGED <<bfree, nrFree, indexBlock, index, iBlocks, fil, stop, bno>>
  BY DEF OwnershipInv, TypeOK, UnlinkSkip, UnlinkScrub, GoTo
<1>1. FreeCountExact' /\ InDataArea'
  BY <1>0 DEF Counted, FreeCountExact, InDataArea
<1>2. DenseAtRest'
  BY <1>0, AtRest DEF DenseAtRest, Dense
<1>3. Shape(p)'
  BY <1>0 DEF Counted, Shape, TypeOK
<1> QED
  BY <1>1, <1>2, <1>3 DEF Counted, Sequential

\* The block that ouichefs_unlink frees was not free before.
LEMMA UnlinkPutCounts ==
  ASSUME Sequential, OwnershipInv, Counted, NEW p \in Tasks, UnlinkPut(p)
  PROVE  Counted'
<1> DEFINE b == index[fil[p]][bli[p]]
<1>0. /\ TypeOK /\ pc[p] = "unlink" /\ fil[p] \in Files /\ bli[p] \in Slots
      /\ bli[p] \in Nat /\ b # 0 /\ b \in Blocks /\ PutBlock(b)
      /\ pc' = [pc EXCEPT ![p] = "scrub"]
      /\ UNCHANGED <<indexBlock, index, iBlocks, fil>>
  BY DEF OwnershipInv, TypeOK, UnlinkPut, GoTo
<1>1. ~FreedByUnlink(fil[p], bli[p])
  <2>1. ASSUME FreedByUnlink(fil[p], bli[p]) PROVE bli[p] < bli[p]
    BY <1>0, <2>1 DEF FreedByUnlink, Sequential
  <2>2. bli[p] \in Nat
    BY <1>0
  <2> QED
    BY <2>1, <2>2, SMT
<1>2. b \notin bfree /\ b \in DataBlocks
  BY <1>0, <1>1 DEF OwnershipInv, OwnedIsUsed, Counted, InDataArea
<1>3. FreeCountExact'
  BY <1>0, <1>2, PutBlockCounts DEF Counted
<1>4. InDataArea'
  BY <1>0, <1>2 DEF Counted, InDataArea, PutBlock
<1>5. DenseAtRest'
  BY <1>0, AtRest DEF DenseAtRest, Dense
<1>6. Shape(p)'
  BY <1>0 DEF Counted, Shape, TypeOK
<1> QED
  BY <1>3, <1>4, <1>5, <1>6 DEF Counted, Sequential

\* The index block of the file was not free before it is put back.
LEMMA DropFileCounts ==
  ASSUME Sequential, OwnershipInv, Counted, NEW p \in Tasks, pc[p] = "unlink",
         DropFile(p)
  PROVE  Counted'
<1> DEFINE f == fil[p]
           b == indexBlock[f]
<1>0. /\ TypeOK /\ f \in Files /\ b # 0 /\ b \in Blocks /\ PutBlock(b)
      /\ b \notin bfree /\ b \in DataBlocks
  BY DEF OwnershipInv, TypeOK, OwnedIsUsed, Counted, Shape, InDataArea, DropFile
<1>1. FreeCountExact'
  BY <1>0, PutBlockCounts DEF Counted
<1>2. \A g \in Files :
        /\ indexBlock'[g] = IF g = f THEN 0 ELSE indexBlock[g]
        /\ g # f => index'[g] = index[g] /\ iBlocks'[g] = iBlocks[g]
        /\ \A k \in Slots : g = f => index'[g][k] = 0
  BY <1>0 DEF TypeOK, DropFile, NoSlots
<1>3. InDataArea'
  <2>1. bfree' \subseteq DataBlocks
    BY <1>0 DEF Counted, InDataArea, PutBlock
  <2>2. ASSUME NEW g \in Files PROVE indexBlock'[g] \in DataBlocks \cup {0}
    BY <1>2 DEF Counted, InDataArea
  <2>3. ASSUME NEW g \in Files, NEW k \in Slots
        PROVE  index'[g][k] \in DataBlocks \cup {0}
    <3>1. index[g][k] \in DataBlocks \cup {0}
      BY DEF Counted, InDataArea
    <3>2. index'[g][k] = 0 \/ index'[g][k] = index[g][k]
      BY <1>2
    <3> QED
      BY <3>1, <3>2
  <2> QED
    BY <2>1, <2>2, <2>3 DEF InDataArea
<1>4. \A g \in Files : indexBlock[g] # 0 => Dense(g)
  BY AtRest
<1>5. DenseAtRest'
  BY <1>2, <1>4, SMT DEF DenseAtRest, Dense
<1>6. Shape(p)'
  BY <1>0 DEF Shape, TypeOK, DropFile, Return, GoTo
<1> QED
  BY <1>1, <1>3, <1>5, <1>6 DEF Counted, Sequential

-----------------------------------------------------------------------------
\* A freshly formatted partition satisfies the second invariant.
LEMMA InitCounts == Init => Counted
<1> SUFFICES ASSUME Init PROVE Counted
  OBVIOUS
<1>1. FreeCountExact /\ InDataArea /\ DenseAtRest
  BY DEF Init, FreeCountExact, InDataArea, DenseAtRest, NoSlots
<1>2. \A p \in Tasks : Shape(p)
  BY DEF Init, Shape
<1> QED
  BY <1>1, <1>2 DEF Counted

\* Every step preserves the second invariant.
LEMMA NextCounts ==
  ASSUME Sequential, "trunc" \notin Calls, OwnershipInv, Counted, [Next]_vars
  PROVE  Counted'
<1>1. CASE UNCHANGED vars
  BY <1>1 DEF vars, Counted, FreeCountExact, InDataArea, DenseAtRest, Dense,
              Reshaping, Shape, ReserveShape, FreeShape
<1>2. ASSUME NEW p \in Tasks, Call(p) PROVE Counted'
  <2>1. \A f \in Files : ~TruncBegin(p, f) /\ ~WriteAstray(p, f)
    BY NothingGoesWrong
  <2> QED
    BY <1>2, <2>1, CreateFindCounts, WriteBeginCounts, DefragBeginCounts,
       UnlinkBeginCounts DEF Call
<1>3. ASSUME NEW p \in Tasks, Step(p) PROVE Counted'
  <2>1. CASE UnlinkEnd(p) \/ UnlinkLose(p)
    BY <2>1, DropFileCounts DEF UnlinkEnd, UnlinkLose
  <2>2. CASE CreateTake(p) \/ CreateRegister(p) \/ CreateAbort(p)
    BY <2>2, CreateTakeCounts, CreateRegisterCounts, CreateAbortCounts
  <2>3. CASE ReserveFind(p) \/ ReserveTake(p) \/ ReserveEnd(p)
    BY <2>3, ReserveFindCounts, ReserveTakeCounts, ReserveEndCounts
  <2>4. CASE DefragPut(p) \/ DefragEnd(p)
    BY <2>4, DefragPutCounts, DefragEndCounts
  <2>5. CASE UnlinkSkip(p) \/ UnlinkPut(p) \/ UnlinkScrub(p)
    BY <2>5, UnlinkLocalStepCounts, UnlinkPutCounts
  <2> QED
    BY <1>3, <2>1, <2>2, <2>3, <2>4, <2>5, NothingGoesWrong DEF Step
<1> QED
  BY <1>1, <1>2, <1>3 DEF Next

\* The inductive invariant holds.
THEOREM CountInvariant ==
  ASSUME Sequential, "trunc" \notin Calls
  PROVE  Spec => [](OwnershipInv /\ Counted)
<1>1. OwnershipInv /\ Counted /\ [Next]_vars => OwnershipInv' /\ Counted'
  BY NextOwns, NextCounts
<1> QED
  BY InitOwns, InitCounts, <1>1, PTL DEF Spec

\* sbi->nr_free_blocks is the number of free blocks of the bitmap after every
\* step of every call, block reads that fail included.
THEOREM FreeCountIsExact ==
  ASSUME Sequential, "trunc" \notin Calls
  PROVE  Spec => []FreeCountExact
<1>1. Counted => FreeCountExact
  BY DEF Counted
<1> QED
  BY <1>1, CountInvariant, PTL

\* No block of the system area is ever marked free or becomes part of a file.
THEOREM SystemAreaIsSafe ==
  ASSUME Sequential, "trunc" \notin Calls
  PROVE  Spec => []SystemAreaSafe
<1>1. OwnershipInv /\ Counted => SystemAreaSafe
  BY DEF OwnershipInv, TypeOK, Counted, InDataArea, SystemAreaSafe, Range
<1> QED
  BY <1>1, CountInvariant, PTL

\* What space_available grants can be reserved: reserve_empty_blocks, whose
\* failure ouichefs_light_write ignores, does not fail, and no loop leaves
\* the index block.
THEOREM SpaceCheckSuffices ==
  ASSUME Sequential, "trunc" \notin Calls
  PROVE  Spec => []PrecheckSuffices
<1>1. OwnershipInv /\ Counted => PrecheckSuffices
  <2> SUFFICES ASSUME OwnershipInv, Counted, NEW p \in Tasks
               PROVE  /\ Reserving(p) => /\ stop[p] <= MaxEntries
                                         /\ stop[p] - bli[p] <= Cardinality(bfree)
                      /\ pc[p] # "overrun"
    BY DEF PrecheckSuffices
  <2>1. pc[p] # "overrun"
    BY DEF Counted, Shape
  <2>2. ASSUME Reserving(p)
        PROVE  stop[p] <= MaxEntries /\ stop[p] - bli[p] <= Cardinality(bfree)
    <3>1. ReserveShape(p, fil[p])
      BY <2>2 DEF Counted, Shape, Reserving
    <3>2. iBlocks[fil[p]] + stop[p] - bli[p] <= MaxEntries + 1
      BY <2>2 DEF OwnershipInv, InHand, Reserving
    <3>3. bli[p] \in Nat /\ stop[p] \in Nat /\ iBlocks[fil[p]] \in Nat
      BY DEF OwnershipInv, TypeOK
    <3> QED
      BY <3>1, <3>2, <3>3, ConstantFacts, SMT DEF ReserveShape, Counted, FreeCountExact
  <2> QED
    BY <2>1, <2>2
<1> QED
  BY <1>1, CountInvariant, PTL

\* Between calls the blocks of a file are in the first i_blocks - 1 slots of
\* its index.
THEOREM IndexStaysDense ==
  ASSUME Sequential, "trunc" \notin Calls
  PROVE  Spec => []IndexIsDense
<1>1. Counted => IndexIsDense
  BY DEF Counted, DenseAtRest, Dense, IndexIsDense, Busy, Reshaping
<1> QED
  BY <1>1, CountInvariant, PTL

-----------------------------------------------------------------------------
(* No block is lost.                                                       *)

\* Block b is free, a file refers to it, or the task that creates a file has it.
Accounted(b) ==
  \/ b \in bfree
  \/ \E f \in Files : b = indexBlock[f]
  \/ \E f \in Files, k \in Slots : b = index[f][k]
  \/ \E p \in Tasks : pc[p] = "created" /\ bno[p] = b

\* NoLeak, slot by slot.
NothingLost == \A b \in DataBlocks : Accounted(b)

\* A file that is not there has no entries that a creation could wipe out.
GoneIsEmpty ==
  \A f \in Files : indexBlock[f] = 0 => \A k \in Slots : index[f][k] = 0

\* ouichefs_unlink has freed all entries that its loop has passed.
PassedIsFree(p) ==
  pc[p] \in {"unlink", "scrub"} =>
    \A k \in Slots :
      k < bli[p] \/ (pc[p] = "scrub" /\ k = bli[p]) => index[fil[p]][k] \in bfree \cup {0}

\* The inductive invariant is OwnershipInv, Counted and this.
Kept ==
  /\ NothingLost
  /\ GoneIsEmpty
  /\ \A p \in Tasks : PassedIsFree(p)

-----------------------------------------------------------------------------
\* shift_blocks drops no entry of a dense index of m blocks that has room for
\* n more.
LEMMA ShiftDropsNothing ==
  ASSUME NEW idx \in [Slots -> Blocks], NEW m \in Nat, NEW n \in Nat,
         NEW start \in Nat, m + n <= MaxEntries,
         \A k \in Slots : idx[k] # 0 <=> k < m
  PROVE  \A i \in Slots : idx[i] # 0 =>
           \E k \in Slots : ShiftBlocks(idx, start, n, m - 1)[k] = idx[i]
<1> SUFFICES ASSUME NEW i \in Slots, idx[i] # 0
             PROVE  \E k \in Slots : ShiftBlocks(idx, start, n, m - 1)[k] = idx[i]
  OBVIOUS
<1>1. \A k \in Slots : ShiftBlocks(idx, start, n, m - 1)[k] =
        IF k \in start+n..m-1+n THEN idx[k - n]
        ELSE IF k \in start..m-1 THEN 0 ELSE idx[k]
  BY DEF ShiftBlocks
<1>2. i \in Nat /\ i < m
  BY ConstantFacts
<1>3. CASE i < start
  <2>1. i \notin start+n..m-1+n /\ i \notin start..m-1
    BY <1>2, <1>3, SMT
  <2> QED
    BY <1>1, <2>1
<1>4. CASE i >= start
  <2>1. i + n \in Slots /\ i + n \in start+n..m-1+n /\ (i + n) - n = i
    BY <1>2, <1>4, ConstantFacts, SMT
  <2> QED
    BY <1>1, <2>1
<1> QED
  BY <1>2, <1>3, <1>4, SMT

\* The first pass of ouichefs_defrag drops no entry.
LEMMA PermutationDropsNothing ==
  ASSUME NEW idx \in [Slots -> Blocks], NEW used \in SUBSET Slots,
         NEW order \in Bijection(used, used)
  PROVE  \A i \in Slots : \E k \in Slots : Permuted(idx, used, order)[k] = idx[i]
<1> SUFFICES ASSUME NEW i \in Slots
             PROVE  \E k \in Slots : Permuted(idx, used, order)[k] = idx[i]
  OBVIOUS
<1>1. CASE i \in used
  <2>1. PICK k \in used : order[k] = i
    BY <1>1 DEF Bijection, Surjection
  <2> QED
    BY <2>1 DEF Permuted
<1>2. CASE i \notin used
  BY <1>2 DEF Permuted
<1> QED
  BY <1>1, <1>2

-----------------------------------------------------------------------------
(* One lemma per action, or per group of them.                            *)

\* A step that moves no block and is not part of ouichefs_unlink.
LEMMA QuietStepKeeps ==
  ASSUME Sequential, Kept, NEW p \in Tasks, pc[p] # "created",
         pc'[p] \notin {"unlink", "scrub"},
         UNCHANGED <<bfree, indexBlock, index>>
  PROVE  Kept'
<1>1. NothingLost'
  BY SMT DEF Kept, NothingLost, Accounted, Sequential
<1>2. GoneIsEmpty'
  BY DEF Kept, GoneIsEmpty
<1>3. PassedIsFree(p)'
  BY DEF PassedIsFree
<1> QED
  BY <1>1, <1>2, <1>3 DEF Kept, Sequential

\* The loop of ouichefs_unlink starts at slot 0 and passes a slot that is empty
\* or whose block it has freed.
LEMMA UnlinkLocalStepKeeps ==
  ASSUME Sequential, OwnershipInv, Kept, NEW p \in Tasks,
         (\E f \in Files : UnlinkBegin(p, f)) \/ UnlinkSkip(p) \/ UnlinkScrub(p)
  PROVE  Kept'
<1>0. TypeOK /\ bli[p] \in Nat /\ Slots \subseteq Nat /\ PassedIsFree(p)
  BY ConstantFacts DEF OwnershipInv, TypeOK, Kept
<1>1. pc[p] # "created" /\ UNCHANGED <<bfree, indexBlock, index>>
  BY DEF UnlinkBegin, UnlinkSkip, UnlinkScrub, Begin
<1>2. NothingLost' /\ GoneIsEmpty'
  BY <1>1, SMT DEF Kept, NothingLost, Accounted, GoneIsEmpty, Sequential
<1>3. pc'[p] = "unlink"
  BY <1>0 DEF UnlinkBegin, UnlinkSkip, UnlinkScrub, Begin, GoTo, TypeOK
<1>4. \A k \in Slots : k < bli'[p] => index'[fil'[p]][k] \in bfree' \cup {0}
  <2>1. CASE \E f \in Files : UnlinkBegin(p, f)
    <3>1. bli'[p] = 0
      BY <1>0, <2>1 DEF UnlinkBegin, Begin, TypeOK
    <3> QED
      BY <1>0, <3>1, SMT
  <2>2. CASE UnlinkSkip(p)
    <3>1. bli'[p] = bli[p] + 1 /\ pc[p] = "unlink" /\ fil' = fil
          /\ index[fil[p]][bli[p]] = 0
      BY <1>0, <2>2 DEF UnlinkSkip, NextSlot, TypeOK
    <3>2. \A k \in Slots : k < bli[p] + 1 => k < bli[p] \/ k = bli[p]
      BY <1>0, SMT
    <3> QED
      BY <1>0, <1>1, <3>1, <3>2 DEF PassedIsFree
  <2>3. CASE UnlinkScrub(p)
    <3>1. bli'[p] = bli[p] + 1 /\ pc[p] = "scrub" /\ fil' = fil
      BY <1>0, <2>3 DEF UnlinkScrub, NextSlot, TypeOK
    <3>2. \A k \in Slots : k < bli[p] + 1 => k < bli[p] \/ k = bli[p]
      BY <1>0, SMT
    <3> QED
      BY <1>0, <1>1, <3>1, <3>2 DEF PassedIsFree
  <2> QED
    BY <2>1, <2>2, <2>3
<1>5. PassedIsFree(p)'
  BY <1>3, <1>4 DEF PassedIsFree
<1> QED
  BY <1>2, <1>5 DEF Kept, Sequential

\* put_block of the entry of a slot, in ouichefs_unlink.
LEMMA UnlinkPutKeeps ==
  ASSUME Sequential, OwnershipInv, Kept, NEW p \in Tasks, UnlinkPut(p)
  PROVE  Kept'
<1>0. /\ TypeOK /\ pc[p] = "unlink" /\ pc'[p] = "scrub" /\ PassedIsFree(p)
      /\ bfree' = bfree \cup {index[fil[p]][bli[p]]}
      /\ UNCHANGED <<indexBlock, index, fil, bli>>
  BY DEF OwnershipInv, TypeOK, Kept, UnlinkPut, PutBlock, GoTo
<1>1. NothingLost' /\ GoneIsEmpty'
  BY <1>0, SMT DEF Kept, NothingLost, Accounted, GoneIsEmpty, Sequential
<1>2. PassedIsFree(p)'
  BY <1>0 DEF PassedIsFree
<1> QED
  BY <1>1, <1>2 DEF Kept, Sequential

\* The bit of the new index block is cleared, and the task has the block.
LEMMA CreateTakeKeeps ==
  ASSUME Sequential, OwnershipInv, Counted, Kept, NEW p \in Tasks, CreateTake(p)
  PROVE  Kept'
<1>0. TypeOK /\ pc[p] = "create" /\ bno[p] # 0
  BY DataBlockFacts DEF OwnershipInv, InHand, Counted, InDataArea, CreateTake
<1>1. /\ pc'[p] = "created" /\ bfree' = bfree \ {bno[p]}
      /\ UNCHANGED <<indexBlock, index, bno>>
  BY <1>0 DEF CreateTake, GetFreeBlock, GoTo, TypeOK
<1>2. NothingLost' /\ GoneIsEmpty'
  BY <1>0, <1>1, SMT DEF Kept, NothingLost, Accounted, GoneIsEmpty, Sequential
<1>3. PassedIsFree(p)'
  BY <1>1 DEF PassedIsFree
<1> QED
  BY <1>2, <1>3 DEF Kept, Sequential

\* The block becomes the index block of the file, which had no entries.
LEMMA CreateRegisterKeeps ==
  ASSUME Sequential, OwnershipInv, Counted, Kept, NEW p \in Tasks,
         CreateRegister(p)
  PROVE  Kept'
<1> DEFINE f == fil[p]
<1>0. /\ TypeOK /\ f \in Files /\ pc[p] = "created" /\ indexBlock[f] = 0
      /\ bno[p] # 0 /\ \A k \in Slots : index[f][k] = 0
  BY DEF OwnershipInv, TypeOK, InHand, Kept, GoneIsEmpty, CreateRegister
<1>1. /\ bfree' = bfree /\ pc'[p] = "idle"
      /\ \A g \in Files :
           /\ indexBlock'[g] = IF g = f THEN bno[p] ELSE indexBlock[g]
           /\ \A k \in Slots : index'[g][k] = index[g][k]
  BY <1>0 DEF TypeOK, CreateRegister, NoSlots, Return, GoTo
<1> HIDE DEF f
<1>2. NothingLost'
  <2> SUFFICES ASSUME NEW b \in DataBlocks PROVE Accounted(b)'
    BY DEF NothingLost, DataBlocks
  <2>1. b # 0 /\ Accounted(b)
    BY DataBlockFacts DEF Kept, NothingLost
  <2> QED
    BY <1>0, <1>1, <2>1, SMT DEF Accounted, Sequential
<1>3. GoneIsEmpty'
  BY <1>0, <1>1, SMT DEF Kept, GoneIsEmpty
<1>4. PassedIsFree(p)'
  BY <1>1 DEF PassedIsFree
<1> QED
  BY <1>2, <1>3, <1>4 DEF Kept, Sequential

\* A step that only puts the entries of f in another order.
LEMMA ReorderKeeps ==
  ASSUME Sequential, Kept, NEW p \in Tasks, pc[p] = "idle",
         pc'[p] \in {"reserve", "free"}, NEW f \in Files, indexBlock[f] # 0,
         \A g \in Files \ {f} : index'[g] = index[g],
         \A i \in Slots : index[f][i] # 0 => \E k \in Slots : index'[f][k] = index[f][i],
         bfree' = bfree, indexBlock' = indexBlock
  PROVE  Kept'
<1>1. NothingLost'
  <2> SUFFICES ASSUME NEW b \in DataBlocks PROVE Accounted(b)'
    BY DEF NothingLost, DataBlocks
  <2>1. b # 0 /\ Accounted(b)
    BY DataBlockFacts DEF Kept, NothingLost
  <2>2. \A g \in Files, i \in Slots :
          index[g][i] # 0 => \E k \in Slots : index'[g][k] = index[g][i]
    OBVIOUS
  <2>3. ASSUME NEW g \in Files, NEW i \in Slots, b = index[g][i] PROVE Accounted(b)'
    BY <2>1, <2>2, <2>3 DEF Accounted
  <2>4. ~\E q \in Tasks : pc[q] = "created"
    BY DEF Sequential
  <2> QED
    BY <2>1, <2>3, <2>4 DEF Accounted
<1>2. GoneIsEmpty'
  <2>1. \A g \in Files : indexBlock'[g] = 0 => g # f /\ index'[g] = index[g]
    OBVIOUS
  <2> QED
    BY <2>1, SMT DEF Kept, GoneIsEmpty
<1>3. PassedIsFree(p)'
  BY DEF PassedIsFree
<1> QED
  BY <1>1, <1>2, <1>3 DEF Kept, Sequential

\* shift_blocks: space_available has seen room for the blocks it moves.
LEMMA WriteBeginKeeps ==
  ASSUME Sequential, OwnershipInv, Counted, Kept, NEW p \in Tasks, NEW f \in Files,
         NEW at \in Slots, NEW n \in 1..MaxEntries+1, WriteBegin(p, f, at, n)
  PROVE  Kept'
<1> DEFINE start == IF index[f][at] = 0 THEN at ELSE at + 1
           m == iBlocks[f] - 1
           s == IF at < iBlocks[f] - 2
                THEN ShiftBlocks(index[f], start, n, iBlocks[f] - 2)
                ELSE index[f]
<1>0. /\ TypeOK /\ pc[p] = "idle" /\ pc'[p] = "reserve" /\ indexBlock[f] # 0
      /\ n + iBlocks[f] - 1 \in 0..MaxEntries
      /\ UNCHANGED <<bfree, indexBlock>>
      /\ index' = [index EXCEPT ![f] = s]
  BY DEF OwnershipInv, TypeOK, WriteBegin, Begin, SpaceAvailable
<1>1. Dense(f)
  BY <1>0, AtRest
<1>2. /\ m \in Nat /\ n \in Nat /\ start \in Nat /\ m + n <= MaxEntries
      /\ iBlocks[f] - 2 = m - 1
  BY <1>0, <1>1, ConstantFacts, SMT DEF Dense, TypeOK
<1>3. index[f] \in [Slots -> Blocks] /\ \A k \in Slots : index[f][k] # 0 <=> k < m
  BY <1>0, <1>1 DEF Dense, TypeOK
<1>4. \A i \in Slots : index[f][i] # 0 => \E k \in Slots : s[k] = index[f][i]
  <2>1. \A i \in Slots : index[f][i] # 0 =>
          \E k \in Slots : ShiftBlocks(index[f], start, n, m - 1)[k] = index[f][i]
    <3> HIDE DEF start, m
    <3>1. PICK idx \in [Slots -> Blocks] : idx = index[f]
      BY <1>3
    <3>2. m + n <= MaxEntries /\ \A k \in Slots : idx[k] # 0 <=> k < m
      BY <1>2, <1>3, <3>1
    <3>3. PICK a \in Nat, b \in Nat : a = start /\ b = m
      BY <1>2
    <3>4. b + n <= MaxEntries /\ \A k \in Slots : idx[k] # 0 <=> k < b
      BY <3>2, <3>3
    <3>5. \A i \in Slots : idx[i] # 0 =>
            \E k \in Slots : ShiftBlocks(idx, a, n, b - 1)[k] = idx[i]
      <4>1. n \in Nat
        BY <1>2
      <4> QED
        BY ONLY ShiftDropsNothing, <3>4, <4>1, idx \in [Slots -> Blocks], a \in Nat,
                b \in Nat
    <3> QED
      BY <3>1, <3>3, <3>5
  <2> QED
    BY <1>2, <2>1
<1> HIDE DEF s
<1>5. index'[f] = s /\ \A g \in Files \ {f} : index'[g] = index[g]
  BY <1>0 DEF TypeOK
<1> QED
  BY <1>0, <1>4, <1>5, ReorderKeeps, SMT

\* The first pass of ouichefs_defrag permutes entries.
LEMMA DefragBeginKeeps ==
  ASSUME Sequential, OwnershipInv, Kept, NEW p \in Tasks, NEW f \in Files,
         NEW order, NEW first \in 0..MaxEntries, DefragBegin(p, f, order, first)
  PROVE  Kept'
<1> DEFINE used == 0..iBlocks[f]-2
           s == Permuted(index[f], used, order)
<1>0. /\ TypeOK /\ pc[p] = "idle" /\ pc'[p] = "free" /\ indexBlock[f] # 0
      /\ order \in Bijection(used, used)
      /\ UNCHANGED <<bfree, indexBlock>>
      /\ index' = [index EXCEPT ![f] = s]
  BY DEF OwnershipInv, TypeOK, DefragBegin, Begin
<1>1. iBlocks[f] \in Nat /\ iBlocks[f] <= MaxEntries + 1 /\ index[f] \in [Slots -> Blocks]
  BY DEF OwnershipInv, TypeOK, BlocksBounded
<1>2. used \in SUBSET Slots
  BY <1>1, ConstantFacts, SMT
<1> HIDE DEF used
<1>3. \A i \in Slots : \E k \in Slots : s[k] = index[f][i]
  BY <1>0, <1>1, <1>2, PermutationDropsNothing
<1> HIDE DEF s
<1>4. index'[f] = s /\ \A g \in Files \ {f} : index'[g] = index[g]
  BY <1>0 DEF TypeOK
<1> QED
  BY <1>0, <1>3, <1>4, ReorderKeeps, SMT

\* reserve_empty_blocks enters the block it took in an empty slot.
LEMMA ReserveTakeKeeps ==
  ASSUME Sequential, OwnershipInv, Counted, Kept, NEW p \in Tasks, ReserveTake(p)
  PROVE  Kept'
<1> DEFINE f == fil[p]
           i == bli[p]
<1>0. /\ TypeOK /\ f \in Files /\ i \in Slots /\ pc[p] = "take"
      /\ i < stop[p] /\ bno[p] # 0 /\ indexBlock[f] # 0 /\ ReserveShape(p, f)
  BY DataBlockFacts DEF OwnershipInv, TypeOK, InHand, Counted, InDataArea, Shape,
                        ReserveTake
<1>1. index[f][i] = 0
  <2>1. i \in Nat /\ stop[p] \in Nat /\ ~(i < i) /\ ~(i >= stop[p])
    BY <1>0, SMT DEF TypeOK
  <2> QED
    BY <1>0, <2>1 DEF ReserveShape
<1>2. /\ bfree' = bfree \ {bno[p]} /\ pc'[p] = "reserve" /\ indexBlock' = indexBlock
      /\ index' = [index EXCEPT ![f][i] = bno[p]]
  BY <1>0 DEF ReserveTake, GetFreeBlock, GoTo, TypeOK
<1>3. \A g \in Files, k \in Slots :
        index'[g][k] = IF g = f /\ k = i THEN bno[p] ELSE index[g][k]
  BY <1>0, <1>2 DEF TypeOK
<1> HIDE DEF f, i
<1>4. NothingLost'
  <2> SUFFICES ASSUME NEW b \in DataBlocks PROVE Accounted(b)'
    BY DEF NothingLost, DataBlocks
  <2>1. b # 0 /\ Accounted(b)
    BY DataBlockFacts DEF Kept, NothingLost
  <2>2. ~\E q \in Tasks : pc[q] = "created"
    BY <1>0 DEF Sequential
  <2>3. CASE b \in bfree
    BY <1>0, <1>2, <1>3, <2>3, SMT DEF Accounted
  <2>4. CASE \E g \in Files : b = indexBlock[g]
    BY <1>2, <2>4 DEF Accounted
  <2>5. ASSUME NEW g \in Files, NEW k \in Slots, b = index[g][k] PROVE Accounted(b)'
    BY <1>1, <1>3, <2>1, <2>5 DEF Accounted
  <2> QED
    BY <2>1, <2>2, <2>3, <2>4, <2>5 DEF Accounted
<1>5. GoneIsEmpty'
  BY <1>0, <1>2, <1>3, SMT DEF Kept, GoneIsEmpty
<1>6. PassedIsFree(p)'
  BY <1>2 DEF PassedIsFree
<1> QED
  BY <1>4, <1>5, <1>6 DEF Kept, Sequential

\* ouichefs_defrag frees the block of a slot and clears the slot.
LEMMA DefragPutKeeps ==
  ASSUME Sequential, OwnershipInv, Counted, Kept, NEW p \in Tasks, DefragPut(p)
  PROVE  Kept'
<1> DEFINE f == fil[p]
           i == bli[p]
<1>0. /\ TypeOK /\ f \in Files /\ i \in Slots /\ pc[p] = "free" /\ pc' = pc
      /\ indexBlock' = indexBlock
      /\ bfree' = bfree \cup {index[f][i]}
      /\ index' = [index EXCEPT ![f][i] = 0]
  BY DEF OwnershipInv, TypeOK, DefragPut, PutSlot, PutBlock
<1>1. \A g \in Files, k \in Slots :
        index'[g][k] = IF g = f /\ k = i THEN 0 ELSE index[g][k]
  BY <1>0 DEF TypeOK
<1> HIDE DEF f, i
<1>2. NothingLost'
  <2> SUFFICES ASSUME NEW b \in DataBlocks PROVE Accounted(b)'
    BY DEF NothingLost, DataBlocks
  <2>1. Accounted(b)
    BY DEF Kept, NothingLost
  <2>2. ~\E q \in Tasks : pc[q] = "created"
    BY <1>0 DEF Sequential
  <2>3. CASE b \in bfree \/ \E g \in Files : b = indexBlock[g]
    BY <1>0, <2>3 DEF Accounted
  <2>4. ASSUME NEW g \in Files, NEW k \in Slots, b = index[g][k] PROVE Accounted(b)'
    BY <1>0, <1>1, <2>4, SMT DEF Accounted
  <2> QED
    BY <2>1, <2>2, <2>3, <2>4 DEF Accounted
<1>3. GoneIsEmpty'
  BY <1>0, <1>1, SMT DEF Kept, GoneIsEmpty
<1>4. PassedIsFree(p)'
  BY <1>0 DEF PassedIsFree
<1> QED
  BY <1>2, <1>3, <1>4 DEF Kept, Sequential

\* When the loop of ouichefs_unlink ends it has passed every entry of the file,
\* so that wiping out the index loses none.
LEMMA UnlinkEndKeeps ==
  ASSUME Sequential, OwnershipInv, Counted, Kept, NEW p \in Tasks, UnlinkEnd(p)
  PROVE  Kept'
<1> DEFINE f == fil[p]
<1>0. /\ TypeOK /\ f \in Files /\ pc[p] = "unlink" /\ pc'[p] = "idle"
      /\ ~InFile(f, bli[p]) /\ indexBlock[f] # 0 /\ PassedIsFree(p)
      /\ bli[p] \in Nat /\ iBlocks[f] \in Nat
      /\ bfree' = bfree \cup {indexBlock[f]}
  BY DEF OwnershipInv, TypeOK, Counted, Shape, Kept, UnlinkEnd, DropFile, PutBlock,
         Return, GoTo
<1>1. \A k \in Slots : index[f][k] \in bfree \cup {0}
  <2>1. Dense(f)
    BY <1>0, AtRest
  <2>2. \A k \in Slots : index[f][k] # 0 => k < bli[p]
    BY <1>0, <2>1, ConstantFacts, SMT DEF Dense, InFile
  <2> QED
    BY <1>0, <2>2 DEF PassedIsFree
<1>2. \A g \in Files :
        /\ indexBlock'[g] = IF g = f THEN 0 ELSE indexBlock[g]
        /\ \A k \in Slots : index'[g][k] = IF g = f THEN 0 ELSE index[g][k]
  BY <1>0 DEF UnlinkEnd, DropFile, NoSlots, TypeOK
<1> HIDE DEF f
<1>3. NothingLost'
  <2> SUFFICES ASSUME NEW b \in DataBlocks PROVE Accounted(b)'
    BY DEF NothingLost, DataBlocks
  <2>1. b # 0 /\ Accounted(b)
    BY DataBlockFacts DEF Kept, NothingLost
  <2>2. ~\E q \in Tasks : pc[q] = "created"
    BY <1>0 DEF Sequential
  <2>3. CASE b \in bfree
    BY <1>0, <2>3 DEF Accounted
  <2>4. ASSUME NEW g \in Files, b = indexBlock[g] PROVE Accounted(b)'
    BY <1>0, <1>2, <2>4 DEF Accounted
  <2>5. ASSUME NEW g \in Files, NEW k \in Slots, b = index[g][k] PROVE Accounted(b)'
    BY <1>0, <1>1, <1>2, <2>1, <2>5 DEF Accounted
  <2> QED
    BY <2>1, <2>2, <2>3, <2>4, <2>5 DEF Accounted
<1>4. GoneIsEmpty'
  BY <1>2 DEF Kept, GoneIsEmpty
<1>5. PassedIsFree(p)'
  BY <1>0 DEF PassedIsFree
<1> QED
  BY <1>3, <1>4, <1>5 DEF Kept, Sequential

-----------------------------------------------------------------------------
\* On a formatted partition every data block is free.
LEMMA InitKeeps == Init => Kept
BY SMT DEF Init, Kept, NothingLost, Accounted, GoneIsEmpty, PassedIsFree, NoSlots

\* Every step preserves the third invariant.
LEMMA NextKeeps ==
  ASSUME Sequential, "trunc" \notin Calls, IoFaults = FALSE,
         OwnershipInv, Counted, Kept, [Next]_vars
  PROVE  Kept'
<1>1. CASE UNCHANGED vars
  BY <1>1 DEF vars, Kept, NothingLost, Accounted, GoneIsEmpty, PassedIsFree
<1>2. ASSUME NEW p \in Tasks, Call(p) PROVE Kept'
  <2>1. \A f \in Files : ~TruncBegin(p, f) /\ ~WriteAstray(p, f)
    BY NothingGoesWrong
  <2>2. ASSUME NEW f \in Files, CreateFind(p, f) PROVE Kept'
    <3>1. /\ pc[p] # "created" /\ pc'[p] \notin {"unlink", "scrub"}
          /\ UNCHANGED <<bfree, indexBlock, index>>
      BY <2>2 DEF CreateFind, Begin, OwnershipInv, TypeOK
    <3> QED
      BY <3>1, QuietStepKeeps
  <2> QED
    BY <1>2, <2>1, <2>2, WriteBeginKeeps, DefragBeginKeeps,
       UnlinkLocalStepKeeps DEF Call
<1>3. ASSUME NEW p \in Tasks, Step(p) PROVE Kept'
  <2>1. /\ ~ReserveSkip(p) /\ ~ReserveFail(p) /\ ~Overrun(p)
        /\ ~TruncPut(p) /\ ~TruncEnd(p)
    BY NothingGoesWrong
  <2>2. ~CreateAbort(p) /\ ~UnlinkLose(p)
    BY DEF CreateAbort, UnlinkLose
  <2>3. CASE ReserveFind(p) \/ ReserveEnd(p) \/ DefragEnd(p)
    <3>1. /\ pc[p] # "created" /\ pc'[p] \notin {"unlink", "scrub"}
          /\ UNCHANGED <<bfree, indexBlock, index>>
      BY <2>3 DEF ReserveFind, ReserveEnd, DefragEnd, Reserving, Return, GoTo,
                  OwnershipInv, TypeOK
    <3> QED
      BY <3>1, QuietStepKeeps
  <2> QED
    BY <1>3, <2>1, <2>2, <2>3, CreateTakeKeeps, CreateRegisterKeeps,
       ReserveTakeKeeps, DefragPutKeeps, UnlinkLocalStepKeeps, UnlinkPutKeeps,
       UnlinkEndKeeps DEF Step
<1> QED
  BY <1>1, <1>2, <1>3 DEF Next

\* No sequence of create, write, defragmentation and unlink calls loses a data
\* block, whatever the sizes of the partition and of the index: each is free,
\* part of a file, or in the hand of ouichefs_create.
THEOREM NoBlockIsLost ==
  ASSUME Sequential, "trunc" \notin Calls, IoFaults = FALSE
  PROVE  Spec => []NoLeak
<1>1. OwnershipInv /\ Counted /\ Kept /\ [Next]_vars
        => OwnershipInv' /\ Counted' /\ Kept'
  BY NextOwns, NextCounts, NextKeeps
<1>2. Spec => [](OwnershipInv /\ Counted /\ Kept)
  BY <1>1, InitOwns, InitCounts, InitKeeps, PTL DEF Spec
<1>3. OwnershipInv /\ Kept => NoLeak
  <2> SUFFICES ASSUME OwnershipInv, NothingLost PROVE NoLeak
    BY DEF Kept
  <2>1. \A f \in Files, k \in Slots : index[f][k] \in Range(index[f])
    BY DEF OwnershipInv, TypeOK, Range
  <2> QED
    BY <2>1 DEF NothingLost, Accounted, NoLeak
<1> QED
  BY <1>2, <1>3, PTL
=============================================================================
