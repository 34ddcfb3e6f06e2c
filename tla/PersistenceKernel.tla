------------------------- MODULE PersistenceKernel --------------------------
(***************************************************************************)
(* Proofs that the kernel (writeback and eviction), sync, unmounting, a    *)
(* crash and mounting keep the inductive invariant of Persistence.         *)
(***************************************************************************)
EXTENDS PersistenceOperations

\* Most steps are first-order reasoning, which is left to Zenon; the steps
\* that need arithmetic or the types of functions ask for SMT.
USE Zenon

-----------------------------------------------------------------------------
(* The kernel writes back and evicts.  Whatever it writes is what the cache *)
(* has, and it drops nothing that an active file needs.                     *)

\* Memory and cache show file i as before; the disk may have got its inode.
SameFile(i) ==
    /\ Iget(i)' = Iget(i) /\ Own(i)' = Own(i)
    /\ Using(i, "register") \/ \A b \in Own(i) : buf'[b] = buf[b]
    /\ op.ino = i => i \in incore'
    /\ i \in incore' => i \in incore /\ core'[i] = core[i]
    /\ OnDisk(i)' \in {OnDisk(i), core[i]}
    /\ buf'[InodeBlock(i)][i] \in {buf[InodeBlock(i)][i], core[i]}
    /\ i \in idirty => i \in idirty' \cup lossy' \/ buf'[InodeBlock(i)][i] = core[i]

\* What every step of the kernel leaves alone.
KernelFrame ==
    /\ UNCHANGED <<sbi, mount, op, crashed, safe, touched>> /\ lossy \subseteq lossy'
    /\ \A b \in SyncBlocks \cup {RootBlock} : buf'[b] = buf[b]
    /\ \A b \in IstoreBlocks : buf'[b] = disk'[b]
    /\ \A b \in Blocks : disk'[b] \in {disk[b], buf'[b]}
    /\ \A b \in dirty : b \in dirty' \/ disk'[b] = buf'[b]
    /\ \A i \in Files : Active(i)' => SameFile(i)
    /\ idirty' \subseteq idirty
    /\ sync'.stage = sync.stage
    /\ sync.stage = "inodes" => \A i \in idirty' : i \in sync.todo => i \in sync'.todo
    /\ sync.stage = "fs" => sync' = sync
    /\ sync.stage = "bdev" =>
        \A b \in Blocks : b \in sync.todo => b \in sync'.todo \/ disk'[b] = buf'[b]

\* The active files keep what they have.
LEMMA KernelFile ==
    ASSUME Types, Types', KernelFrame, NEW i \in Files, FileInv(i), Active(i), Active(i)'
    PROVE  FileInv(i)'
<1>1. SameFile(i)
  BY DEF KernelFrame
<1>2. PICK r \in InodeRecords : r = Iget(i)
  BY RecordTypes
<1>3. /\ r.ib \in Own(i) /\ Own(i) \subseteq DataBlocks /\ Laid(i) /\ Kept(i) /\ InUse(i)
  BY <1>2, ActiveFacts
<1>4. Iget(i)' = r /\ Own(i)' = Own(i) /\ op' = op /\ sbi' = sbi
  BY <1>1, <1>2 DEF SameFile, KernelFrame
<1>5. /\ Using(i, "register")' <=> Using(i, "register")
      /\ Using(i, "data")' <=> Using(i, "data")
      /\ Using(i, "index")' <=> Using(i, "index")
  BY <1>4 DEF Using
<1>6. Unwritten(i)' = Unwritten(i) /\ Loose(i)' = Loose(i)
  BY <1>2, <1>4, <1>5 DEF Unwritten, Loose
<1>7. Laid(i)'
  <2>1. CASE Using(i, "register")
    BY <1>2, <1>3, <1>4, <1>5, <2>1 DEF Laid
  <2>2. CASE ~Using(i, "register")
    <3>1. Placed(r) /\ Shaped(buf, r) /\ Contents(buf, i, r, Unwritten(i))
      BY <1>2, <1>3, <2>2 DEF Laid
    <3>2. \A b \in Own(i) : buf'[b] = buf[b]
      BY <1>1, <2>2 DEF SameFile
    <3>3. Shaped(buf', r)
      BY <1>3, <3>1, <3>2, SameIndex
    <3>4. Contents(buf', i, r, Unwritten(i))
      BY <1>2, <3>1, <3>2, SameContents DEF Own
    <3> QED
      BY <1>4, <1>5, <1>6, <2>2, <3>1, <3>3, <3>4 DEF Laid
  <2> QED
    BY <2>1, <2>2
<1>8. \A b \in Own(i) \ Loose(i) : b \in dirty' \/ buf'[b] = disk'[b]
  <2> SUFFICES ASSUME NEW b \in Own(i) \ Loose(i) PROVE b \in dirty' \/ buf'[b] = disk'[b]
    OBVIOUS
  <2>1. ~Using(i, "register")
    <3> SUFFICES ASSUME Using(i, "register") PROVE FALSE
      OBVIOUS
    <3>1. r.blocks = 1 /\ Loose(i) = {r.ib}
      BY <1>2, <1>3 DEF Laid, Loose
    <3>2. Own(i) = {r.ib}
      BY <1>2, <3>1, SMT DEF Own, BlocksBy
    <3> QED
      BY <3>1, <3>2
  <2>2. buf'[b] = buf[b] /\ b \in Blocks
    BY <1>1, <1>3, <2>1, Regions DEF SameFile
  <2>3. b \in dirty \/ buf[b] = disk[b]
    BY <1>3 DEF Kept
  <2> QED
    BY <2>2, <2>3 DEF KernelFrame
<1>9. ASSUME i \notin lossy', op.ino = i => op.call = "defrag", i \in incore' \ idirty'
      PROVE  core'[i] = buf'[InodeBlock(i)][i]
  <2>1. i \in incore /\ core'[i] = core[i] /\ i \notin lossy
    BY <1>1, <1>9 DEF SameFile, KernelFrame
  <2>2. CASE i \in idirty
    BY <1>1, <1>9, <2>1, <2>2 DEF SameFile
  <2>3. CASE i \notin idirty
    BY <1>1, <1>3, <1>9, <2>1, <2>3 DEF SameFile, Kept
  <2> QED
    BY <2>2, <2>3
<1>10. Kept(i)'
  BY <1>3, <1>4, <1>6, <1>8, <1>9 DEF Kept
<1>11. InUse(i)'
  BY <1>1, <1>2, <1>3, <1>4, <1>5 DEF InUse, SameFile
<1> QED
  BY <1>7, <1>10, <1>11 DEF FileInv

\* A safe file stays safe, and a file that sync covers stays covered.
LEMMA KernelSafe ==
    ASSUME Types, Types', UpInv, KernelFrame, NEW i \in Files, i \notin lossy', op.ino # i
    PROVE  /\ SafeInv(i) => SafeInv(i)'
           /\ SyncInv(i) => SyncInv(i)'
<1>1. /\ buf'[RootBlock] = buf[RootBlock] /\ disk'[RootBlock] \in {disk[RootBlock], buf[RootBlock]}
      /\ op'.ino # i /\ i \notin lossy
  BY Regions DEF KernelFrame
<1>2. ASSUME NEW b \in SyncBlocks
      PROVE  buf'[b] = buf[b] /\ disk'[b] \in {disk[b], buf[b]} /\ (Passed(b)' <=> Passed(b))
  BY <1>2, Regions DEF KernelFrame, Passed
<1>3. ASSUME i \in buf[RootBlock]
      PROVE  /\ SameFile(i) /\ Own(i)' = Own(i) /\ Own(i) \subseteq Blocks
             /\ \A b \in Own(i) : buf'[b] = buf[b]
  <2>1. Active(i) /\ Active(i)'
    BY <1>1, <1>3 DEF Active
  <2>2. SameFile(i)
    BY <2>1 DEF KernelFrame
  <2>3. Own(i) \subseteq DataBlocks
    BY <2>1, ActiveFacts DEF UpInv
  <2> QED
    BY <2>2, <2>3, Regions DEF SameFile, Using
<1>4. ASSUME SafeInv(i) PROVE SafeInv(i)'
  <2>1. i \in disk'[RootBlock] <=> i \in buf'[RootBlock]
    BY <1>1, <1>4 DEF SafeInv
  <2>2. ASSUME i \in buf'[RootBlock]
        PROVE  /\ i \in incore' => core'[i] = OnDisk(i)'
               /\ \A b \in Own(i)' : buf'[b] = disk'[b]
               /\ UsedIn(i, Own(i)', buf') /\ UsedIn(i, Own(i)', disk')
    <3>1. i \in buf[RootBlock]
      BY <1>1, <2>2
    <3>2. i \in incore' => core'[i] = OnDisk(i)'
      BY <1>3, <1>4, <3>1 DEF SameFile, SafeInv
    <3>3. \A b \in Own(i)' : buf'[b] = disk'[b]
      BY <1>3, <1>4, <3>1 DEF SafeInv, KernelFrame
    <3>4. UsedIn(i, Own(i), buf) /\ UsedIn(i, Own(i), disk)
      BY <1>4, <3>1 DEF SafeInv
    <3>5. UsedIn(i, Own(i), buf') /\ UsedIn(i, Own(i), disk')
      BY <1>2, <3>4, Regions DEF UsedIn
    <3> QED
      BY <1>3, <3>1, <3>2, <3>3, <3>5
  <2> QED
    BY <2>1, <2>2 DEF SafeInv
<1>5. ASSUME SyncInv(i) PROVE SyncInv(i)'
  <2>1. sync'.stage = "bdev" =>
          RootBlock \in sync'.todo \/ (i \in disk'[RootBlock] <=> i \in buf'[RootBlock])
    BY <1>1, <1>5, Regions DEF SyncInv, KernelFrame
  <2>2. ASSUME i \in buf'[RootBlock]
        PROVE  /\ i \in idirty' => sync'.stage = "inodes" /\ i \in sync'.todo
               /\ UsedIn(i, Own(i)', buf')
               /\ \A b \in BfreeBlocks : Passed(b)' => Own(i)' \cap disk'[b] = {}
               /\ \A b \in IfreeBlocks : Passed(b)' => i \notin disk'[b]
               /\ sync'.stage = "bdev" => \A b \in Own(i)' : b \in sync'.todo \/ buf'[b] = disk'[b]
    <3>1. i \in buf[RootBlock]
      BY <1>1, <2>2
    <3>2. i \in idirty' => sync'.stage = "inodes" /\ i \in sync'.todo
      BY <1>5, <3>1 DEF SyncInv, KernelFrame
    <3>3. UsedIn(i, Own(i), buf)
      BY <1>5, <3>1 DEF SyncInv
    <3>4. UsedIn(i, Own(i), buf')
      BY <1>2, <3>3, Regions DEF UsedIn
    <3>5. ASSUME NEW b \in BfreeBlocks, Passed(b)' PROVE Own(i) \cap disk'[b] = {}
      <4>1. Own(i) \cap disk[b] = {} /\ Own(i) \cap buf[b] = {}
        BY <1>2, <1>5, <3>1, <3>3, <3>5, Regions DEF SyncInv, UsedIn
      <4> QED
        BY <1>2, <4>1, Regions
    <3>6. ASSUME NEW b \in IfreeBlocks, Passed(b)' PROVE i \notin disk'[b]
      <4>1. i \notin disk[b] /\ i \notin buf[b]
        BY <1>2, <1>5, <3>1, <3>3, <3>6, Regions DEF SyncInv, UsedIn
      <4> QED
        BY <1>2, <4>1, Regions
    <3>7. ASSUME sync'.stage = "bdev", NEW b \in Own(i)
          PROVE  b \in sync'.todo \/ buf'[b] = disk'[b]
      <4>1. b \in sync.todo \/ buf[b] = disk[b]
        BY <1>5, <3>1, <3>7 DEF SyncInv, KernelFrame
      <4> QED
        BY <1>3, <3>1, <3>7, <4>1 DEF KernelFrame
    <3> QED
      BY <1>3, <3>1, <3>2, <3>4, <3>5, <3>6, <3>7
  <2> QED
    BY <2>1, <2>2 DEF SyncInv
<1> QED
  BY <1>4, <1>5

\* The invariant is kept.
LEMMA KernelKeeps ==
    ASSUME Types, Types', UpInv, KernelFrame
    PROVE  UpInv'
<1>1. op' = op /\ buf'[RootBlock] = buf[RootBlock] /\ sbi' = sbi /\ mount' = mount
      /\ crashed' = crashed /\ safe' = safe /\ touched' = touched /\ lossy \subseteq lossy'
  BY DEF KernelFrame
<1>2. \A i \in Files : Active(i)' => Active(i)
  BY <1>1 DEF Active
<1>3. \A i \in Files : Active(i)' => Own(i)' = Own(i)
  BY DEF KernelFrame, SameFile
<1>4. \A i \in Files : FileInv(i)'
  <2> SUFFICES ASSUME NEW i \in Files, Active(i)' PROVE FileInv(i)'
    BY DEF FileInv
  <2> QED
    BY <1>2, KernelFile DEF UpInv
<1>5. OpListed'
  BY <1>1 DEF OpListed, UpInv
<1>6. Disjoint'
  BY <1>2, <1>3 DEF Disjoint, UpInv
<1>7. Cover'
  <2>1. ASSUME NEW b \in 0 .. RootBlock PROVE b \in dirty' \/ buf'[b] = disk'[b]
    <3>1. CASE b \in IstoreBlocks
      BY <3>1 DEF KernelFrame
    <3>2. CASE b \in SyncBlocks \cup {RootBlock}
      <4>1. b \in Blocks /\ buf'[b] = buf[b] /\ (b \in dirty \/ buf[b] = disk[b])
        BY <3>2, Regions DEF KernelFrame, UpInv, Cover
      <4> QED
        BY <4>1 DEF KernelFrame
    <3> QED
      BY <3>1, <3>2, Regions
  <2> QED
    BY <2>1 DEF Cover, KernelFrame
<1>8. \A i \in safe' \ lossy' : SafeInv(i)'
  BY <1>1, KernelSafe DEF UpInv, Types
<1>9. sync' # NoSync => sync # NoSync
  BY SMT DEF KernelFrame, Types, SyncType, NoSync
<1>10. sync' # NoSync => \A i \in Synced' : SyncInv(i)'
  <2> SUFFICES ASSUME sync' # NoSync, NEW i \in Synced' PROVE SyncInv(i)'
    OBVIOUS
  <2>1. i \in Synced /\ i \in Files /\ i \notin lossy'
    BY <1>1 DEF Synced
  <2>2. SyncInv(i) /\ op.ino # i
    BY <1>9, <2>1 DEF UpInv, Synced
  <2> QED
    BY <2>1, <2>2, KernelSafe
<1>11. op'.ino \notin safe' /\ (sync' # NoSync => op'.ino \notin Files \ touched')
  BY <1>1, <1>9 DEF UpInv, Synced
<1>12. UnmountInv'
  <2> SUFFICES ASSUME mount = "unmounting"
               PROVE  /\ op' = NoOp /\ touched' = {} /\ sync' # NoSync
                      /\ \A b \in SyncBlocks : buf'[b] = Image(b)'
                      /\ \A b \in SyncBlocks : Passed(b)' => disk'[b] = buf'[b]
    BY <1>1 DEF UnmountInv
  <2>1. UnmountInv
    BY DEF UpInv
  <2>2. sync' # NoSync
    BY <2>1, SMT DEF UnmountInv, KernelFrame, Types, SyncType, NoSync
  <2>3. \A b \in SyncBlocks : buf'[b] = buf[b] /\ Image(b)' = Image(b)
    BY <1>1 DEF KernelFrame, Image
  <2>4. ASSUME NEW b \in SyncBlocks, Passed(b)' PROVE disk'[b] = buf'[b]
    <3>1. Passed(b)
      BY <2>4 DEF Passed, KernelFrame
    <3> QED
      BY <2>1, <2>3, <3>1, Regions DEF UnmountInv, KernelFrame
  <2> QED
    BY <1>1, <2>1, <2>2, <2>3, <2>4 DEF UnmountInv
<1>13. CountersExact'
  BY <1>1 DEF CountersExact, UpInv
<1>14. BitmapsExact'
  <2> SUFFICES ASSUME ~crashed, lossy' = {} PROVE BitmapsExact'
    BY <1>1 DEF BitmapsExact
  <2>1. \A i \in Files : Active(i)' <=> Active(i)
    BY <1>1 DEF Active
  <2>2. lossy = {} /\ BitmapsExact
    BY <1>1 DEF UpInv
  <2> QED
    BY <1>1, <1>3, <2>1, <2>2 DEF BitmapsExact
<1> QED
  BY <1>4, <1>5, <1>6, <1>7, <1>8, <1>10, <1>11, <1>12, <1>13, <1>14 DEF UpInv

\* Blocks that are not in the inode store hold the blocks of files.
LEMMA IndexIsOutside ==
    ASSUME Types, NEW i \in Files
    PROVE  Iget(i).ib \in Blocks \ IstoreBlocks
<1>1. Iget(i).ib \in DataBlocks \cup {0}
  BY RecordTypes DEF InodeRecords
<1>2. 0 \in Blocks /\ 0 \notin IstoreBlocks
  BY Regions DEF SuperBlock
<1> QED
  BY <1>1, <1>2, Regions

\* ouichefs_write_inode copies the inode to the store and writes its block.
LEMMA WriteInodeKeeps ==
    ASSUME Types, UpInv, NEW i \in Files, WriteInode(i)
    PROVE  Types' /\ UpInv'
<1>1. PICK c \in IstoreBlocks : c = InodeBlock(i)
  BY StoreHolds
<1>2. /\ i \in idirty /\ i \in incore
      /\ buf' = [buf EXCEPT ![c][i] = core[i]]
      /\ disk' = [disk EXCEPT ![c] = buf'[c]]
      /\ dirty' = dirty \ {c} /\ idirty' = idirty \ {i}
      /\ Done("inodes", i)
      /\ UNCHANGED <<sbi, core, incore, mount, op, crashed, safe, touched, lossy>>
  BY <1>1 DEF WriteInode, Types, history
<1>3. c \in Blocks /\ DOMAIN buf = Blocks /\ DOMAIN disk = Blocks /\ BlockType(c, buf[c])
      /\ c \notin DataBlocks /\ c # RootBlock /\ c \notin SyncBlocks
  BY Regions DEF Types, WellFormed
<1>4. buf[c] \in [InodesIn(c) -> InodeRecords] /\ i \in InodesIn(c)
  BY <1>1, <1>3, StoreHolds DEF BlockType
<1>5. /\ DOMAIN buf' = Blocks /\ buf'[c] = [buf[c] EXCEPT ![i] = core[i]]
      /\ \A b \in Blocks : b # c => buf'[b] = buf[b]
  BY <1>2, <1>3
<1>6. /\ DOMAIN disk' = Blocks /\ disk'[c] = buf'[c]
      /\ \A b \in Blocks : b # c => disk'[b] = disk[b]
  BY <1>2, <1>3
<1>7. buf'[c][i] = core[i] /\ \A k \in InodesIn(c) : k # i => buf'[c][k] = buf[c][k]
  BY <1>4, <1>5
<1>8. /\ SyncType' /\ sync'.stage = sync.stage
      /\ \A y : y # i /\ y \in sync.todo => y \in sync'.todo
      /\ sync.stage # "inodes" => sync' = sync
  BY <1>2, DoneFacts
<1>9. Types'
  <2>1. core[i] \in InodeRecords
    BY RecordTypes
  <2>2. buf'[c] \in [InodesIn(c) -> InodeRecords]
    BY <1>4, <1>5, <2>1
  <2>3. BlockType(c, buf'[c])
    BY <1>3, <2>2, Regions DEF BlockType
  <2>4. WellFormed(buf') /\ WellFormed(disk')
    BY <1>5, <1>6, <2>3, MixedType, ZenonT(30) DEF Types
  <2> QED
    BY <1>2, <1>8, <2>4 DEF Types, OpType, SbiType
<1>10. ASSUME NEW k \in Files, Active(k)' PROVE SameFile(k)
  <2>0. Active(k)
    BY <1>2, <1>3, <1>5, <1>10, Regions DEF Active
  <2>1. Iget(k)' = Iget(k)
    <3>1. CASE k \in incore
      BY <1>2, <3>1 DEF Iget
    <3>2. CASE k \notin incore
      <4>1. k # i /\ InodeBlock(k) \in Blocks /\ k \in InodesIn(InodeBlock(k))
        BY <1>2, <3>2, StoreHolds, Regions
      <4>2. buf'[InodeBlock(k)][k] = buf[InodeBlock(k)][k]
        BY <1>5, <1>7, <4>1
      <4> QED
        BY <1>2, <3>2, <4>2 DEF Iget
    <3> QED
      BY <3>1, <3>2
  <2>2. buf'[Iget(k).ib] = buf[Iget(k).ib]
    BY <1>5, IndexIsOutside
  <2>3. Own(k)' = Own(k)
    BY <2>1, <2>2, SameOwn
  <2>4. \A b \in Own(k) : buf'[b] = buf[b]
    BY <1>3, <1>5, <2>0, ActiveFacts, Regions, SMT DEF UpInv
  <2>5. buf'[InodeBlock(k)][k] \in {buf[InodeBlock(k)][k], core[k]}
        /\ OnDisk(k)' \in {OnDisk(k), core[k]}
    <3>1. InodeBlock(k) \in IstoreBlocks /\ InodeBlock(k) \in Blocks
          /\ k \in InodesIn(InodeBlock(k))
      BY StoreHolds, Regions
    <3>2. CASE InodeBlock(k) # c
      BY <1>5, <1>6, <3>1, <3>2 DEF OnDisk
    <3>3. CASE InodeBlock(k) = c
      <4>1. buf[c] = disk[c]
        BY DEF UpInv, Cover
      <4> QED
        BY <1>6, <1>7, <3>1, <3>3, <4>1 DEF OnDisk
    <3> QED
      BY <3>2, <3>3
  <2>6. k \in idirty => k \in idirty' \/ buf'[InodeBlock(k)][k] = core[k]
    BY <1>1, <1>2, <1>7
  <2>7. op.ino = k => k \in incore'
    BY <1>2, <2>0 DEF UpInv, FileInv, InUse
  <2> QED
    BY <1>2, <2>1, <2>3, <2>4, <2>5, <2>6, <2>7 DEF SameFile
<1>11. KernelFrame
  <2>1. \A b \in IstoreBlocks : buf'[b] = disk'[b]
    BY <1>5, <1>6, Regions DEF UpInv, Cover
  <2>2. \A b \in Blocks : disk'[b] \in {disk[b], buf'[b]}
    BY <1>5, <1>6
  <2>3. \A b \in SyncBlocks \cup {RootBlock} : buf'[b] = buf[b]
    BY <1>3, <1>5, Regions
  <2>4. \A b \in dirty : b \in dirty'
    BY <1>2 DEF Types
  <2> QED
    BY <1>2, <1>8, <1>10, <2>1, <2>2, <2>3, <2>4 DEF KernelFrame
<1> QED
  BY <1>9, <1>11, KernelKeeps

\* ouichefs_write_inode cannot read the block of the store.
LEMMA WriteInodeFailKeeps ==
    ASSUME Types, UpInv, NEW i \in Files, WriteInodeFail(i)
    PROVE  Types' /\ UpInv'
<1>1. /\ idirty' = idirty \ {i} /\ Done("inodes", i) /\ lossy' = lossy \cup {i}
      /\ UNCHANGED <<disk, buf, dirty, sbi, core, incore, mount, op, crashed, safe, touched>>
  BY DEF WriteInodeFail, cache
<1>2. /\ SyncType' /\ sync'.stage = sync.stage
      /\ \A y : y # i /\ y \in sync.todo => y \in sync'.todo
      /\ sync.stage # "inodes" => sync' = sync
  BY <1>1, DoneFacts
<1>3. Types'
  BY <1>1, <1>2 DEF Types, OpType, SbiType
<1>4. ASSUME NEW k \in Files, Active(k)' PROVE SameFile(k)
  <2>1. Active(k)
    BY <1>1, <1>4 DEF Active
  <2>2. op.ino = k => k \in incore
    BY <2>1 DEF UpInv, FileInv, InUse
  <2> QED
    BY <1>1, <2>2 DEF SameFile, Iget, Own, OnDisk
<1>5. KernelFrame
  BY <1>1, <1>2, <1>4 DEF KernelFrame, UpInv, Cover
<1> QED
  BY <1>3, <1>5, KernelKeeps

\* The kernel writes a dirty buffer.
LEMMA WritebackKeeps ==
    ASSUME Types, UpInv, NEW c \in Blocks, Writeback(c)
    PROVE  Types' /\ UpInv'
<1>1. /\ c \in dirty /\ disk' = [disk EXCEPT ![c] = buf[c]] /\ dirty' = dirty \ {c}
      /\ Done("bdev", c)
      /\ UNCHANGED <<buf, sbi, core, incore, idirty, mount, op, crashed, safe, touched, lossy>>
  BY DEF Writeback, memory, history
<1>2. DOMAIN disk = Blocks /\ c \notin IstoreBlocks
  BY <1>1 DEF Types, WellFormed
<1>3. /\ DOMAIN disk' = Blocks /\ disk'[c] = buf[c]
      /\ \A b \in Blocks : b # c => disk'[b] = disk[b]
  BY <1>1, <1>2
<1>4. /\ SyncType' /\ sync'.stage = sync.stage
      /\ \A y : y # c /\ y \in sync.todo => y \in sync'.todo
      /\ sync.stage # "bdev" => sync' = sync
  BY <1>1, DoneFacts
<1>5. Types'
  <2>1. WellFormed(disk')
    BY <1>3, MixedType DEF Types, WellFormed
  <2> QED
    BY <1>1, <1>4, <2>1 DEF Types, OpType, SbiType
<1>6. ASSUME NEW k \in Files, Active(k)' PROVE SameFile(k)
  <2>1. Active(k)
    BY <1>1, <1>6 DEF Active
  <2>2. op.ino = k => k \in incore
    BY <2>1 DEF UpInv, FileInv, InUse
  <2>3. OnDisk(k)' = OnDisk(k)
    BY <1>2, <1>3, StoreHolds, Regions DEF OnDisk
  <2> QED
    BY <1>1, <2>2, <2>3 DEF SameFile, Iget, Own
<1>7. KernelFrame
  <2>1. \A b \in IstoreBlocks : buf'[b] = disk'[b]
    BY <1>1, <1>2, <1>3, Regions DEF UpInv, Cover
  <2>2. \A b \in Blocks : disk'[b] \in {disk[b], buf'[b]}
    BY <1>1, <1>3
  <2> QED
    BY <1>1, <1>3, <1>4, <1>6, <2>1, <2>2 DEF KernelFrame
<1> QED
  BY <1>5, <1>7, KernelKeeps

\* The kernel drops a clean buffer: none that the mounted file system needs.
LEMMA EvictBufferKeeps ==
    ASSUME Types, UpInv, NEW c \in Blocks, EvictBuffer(c)
    PROVE  Types' /\ UpInv'
<1>1. /\ c \notin dirty /\ buf[c] # disk[c] /\ c \notin Held
      /\ buf' = [buf EXCEPT ![c] = disk[c]]
      /\ UNCHANGED <<disk, dirty, sbi, core, incore, idirty, mount, op, sync, crashed,
                     safe, touched, lossy>>
  BY DEF EvictBuffer, memory, history
<1>2. DOMAIN buf = Blocks
  BY DEF Types, WellFormed
<1>3. c \in DataBlocks /\ c # RootBlock /\ c \notin SyncBlocks /\ c \notin IstoreBlocks
  BY <1>1, Regions DEF UpInv, Cover
<1>4. /\ DOMAIN buf' = Blocks /\ buf'[c] = disk[c]
      /\ \A b \in Blocks : b # c => buf'[b] = buf[b]
  BY <1>1, <1>2
<1>5. Types'
  <2>1. WellFormed(buf')
    BY <1>4, MixedType DEF Types, WellFormed
  <2> QED
    BY <1>1, <2>1, SMT DEF Types, OpType, SbiType, SyncType
<1>6. ASSUME NEW k \in Files, Active(k)' PROVE SameFile(k)
  <2>1. Active(k)
    BY <1>1, <1>3, <1>4, <1>6, Regions DEF Active
  <2>2. PICK r \in InodeRecords : r = Iget(k)
    BY RecordTypes
  <2>3. r.ib \in Own(k) /\ Own(k) \subseteq DataBlocks /\ Laid(k) /\ Kept(k) /\ InUse(k)
    BY <2>1, <2>2, ActiveFacts DEF UpInv
  <2>4. buf'[InodeBlock(k)] = buf[InodeBlock(k)]
    BY <1>3, <1>4, StoreHolds, Regions
  <2>5. Iget(k)' = r
    BY <1>1, <2>2, <2>4, SMTT(30) DEF Iget
  <2>6. CASE Using(k, "register")
    <3>1. r.blocks = 1
      BY <2>2, <2>3, <2>6 DEF Laid
    <3>2. Own(k) = {r.ib} /\ Own(k)' = {r.ib}
      BY <2>2, <2>5, <3>1, SMT DEF Own, BlocksBy
    <3> QED
      BY <1>1, <2>2, <2>3, <2>4, <2>5, <2>6, <3>2 DEF SameFile, InUse, OnDisk
  <2>7. CASE ~Using(k, "register")
    <3>1. c \notin Own(k)
      <4>1. c \notin Own(k) \ Loose(k)
        BY <1>1, <2>3 DEF Kept
      <4>2. Loose(k) \subseteq Held
        <5>1. CASE Using(k, "data") \/ Using(k, "index")
          <6>1. op.ino = k /\ k \in incore /\ op.step \in {"data", "index"}
            BY <2>3, <5>1 DEF Using, InUse
          <6>2. op.call \in {"write", "defrag"}
            BY <6>1, SMT DEF Types, OpType, Steps, NoOp
          <6>3. core[k] = r
            BY <2>2, <6>1 DEF Iget
          <6> QED
            BY <2>2, <2>7, <6>1, <6>2, <6>3 DEF Loose, Held
        <5>2. CASE ~(Using(k, "data") \/ Using(k, "index"))
          BY <2>7, <5>2 DEF Loose
        <5> QED
          BY <5>1, <5>2
      <4> QED
        BY <1>1, <4>1, <4>2
    <3>2. \A b \in Own(k) : buf'[b] = buf[b]
      BY <1>4, <2>3, <3>1, Regions
    <3>3. Own(k)' = Own(k)
      BY <2>2, <2>3, <2>5, <3>2, SameOwn
    <3> QED
      BY <1>1, <2>2, <2>3, <2>4, <2>5, <3>2, <3>3 DEF SameFile, InUse, OnDisk
  <2> QED
    BY <2>6, <2>7
<1>7. KernelFrame
  <2>1. \A b \in IstoreBlocks : buf'[b] = disk'[b]
    BY <1>1, <1>3, <1>4, Regions DEF UpInv, Cover
  <2>2. \A b \in SyncBlocks \cup {RootBlock} : buf'[b] = buf[b]
    BY <1>3, <1>4, Regions
  <2> QED
    BY <1>1, <1>4, <1>6, <2>1, <2>2 DEF KernelFrame
<1> QED
  BY <1>5, <1>7, KernelKeeps

\* The kernel drops a clean inode: the store has what it had.
LEMMA EvictInodeKeeps ==
    ASSUME Types, UpInv, NEW i \in Files, EvictInode(i)
    PROVE  Types' /\ UpInv'
<1>1. /\ i \in incore \ idirty /\ op.ino # i /\ incore' = incore \ {i}
      /\ core' = [core EXCEPT ![i] = NoInode]
      /\ UNCHANGED <<disk, buf, dirty, sbi, idirty, mount, op, sync, crashed,
                     safe, touched, lossy>>
  BY DEF EvictInode, cache, history
<1>2. NoInode \in InodeRecords
  BY RecordTypes, CountedFacts, SMTT(30) DEF NoInode, InodeRecords
<1>3. Types'
  BY <1>1, <1>2, SMT DEF Types, OpType, SbiType, SyncType
<1>4. ASSUME NEW k \in Files, Active(k)' PROVE SameFile(k)
  <2>1. Active(k)
    BY <1>1, <1>4 DEF Active
  <2>2. Kept(k) /\ InUse(k)
    BY <2>1 DEF UpInv, FileInv
  <2>3. Iget(k)' = Iget(k)
    <3>1. CASE k # i
      BY <1>1, <3>1 DEF Iget, Types
    <3>2. CASE k = i
      <4>1. k \notin lossy
        BY <1>1, <2>1, <3>2 DEF Active
      <4>2. core[k] = buf[InodeBlock(k)][k]
        BY <1>1, <2>2, <3>2, <4>1 DEF Kept
      <4> QED
        BY <1>1, <3>2, <4>2 DEF Iget
    <3> QED
      BY <3>1, <3>2
  <2>4. Own(k)' = Own(k)
    BY <1>1, <2>3, SameOwn
  <2>5. k \in incore' => k \in incore /\ core'[k] = core[k]
    BY <1>1 DEF Types
  <2>6. op.ino = k => k \in incore'
    BY <1>1, <2>2 DEF InUse
  <2> QED
    BY <1>1, <2>3, <2>4, <2>5, <2>6 DEF SameFile, OnDisk
<1>5. KernelFrame
  BY <1>1, <1>4 DEF KernelFrame, UpInv, Cover
<1> QED
  BY <1>3, <1>5, KernelKeeps

-----------------------------------------------------------------------------
(* Sync copies counters and bitmaps of the mounted file system.           *)

\* A copy is of the type of its block.
LEMMA ImageTypes ==
    ASSUME Types, NEW b \in SyncBlocks
    PROVE  BlockType(b, Image(b))
<1>1. b \notin IstoreBlocks /\ b # RootBlock /\ b \notin DataBlocks
  BY Regions
<1>2. CASE b = SuperBlock
  <2>1. b \in Blocks /\ b \notin IfreeBlocks /\ b \notin BfreeBlocks
    BY <1>2, Regions
  <2>2. buf[b] \in [magic : BOOLEAN, nrFree : Nat, nrFreeInodes : Nat]
    BY <1>2, <2>1 DEF Types, WellFormed, BlockType
  <2>3. sbi.nrFree \in Nat /\ sbi.nrFreeInodes \in Nat
    BY DEF Types, SbiType
  <2>4. Image(b) \in [magic : BOOLEAN, nrFree : Nat, nrFreeInodes : Nat]
    BY <1>2, <2>2, <2>3 DEF Image
  <2> QED
    BY <1>1, <2>1, <2>4 DEF BlockType
<1>3. CASE b \in IfreeBlocks
  <2>1. b # SuperBlock /\ b \notin BfreeBlocks
    BY <1>3, Regions
  <2>2. Image(b) = sbi.ifree \cap Segment(b, FirstIfree)
    BY <1>3, <2>1 DEF Image
  <2>3. sbi.ifree \subseteq 2 .. nr_inodes - 1
    BY DEF Types, SbiType
  <2> QED
    BY <1>1, <2>1, <2>2, <2>3, ZenonT(30) DEF BlockType
<1>4. CASE b \in BfreeBlocks
  <2>1. b # SuperBlock /\ b \notin IfreeBlocks
    BY <1>4, Regions
  <2>2. Image(b) = sbi.bfree \cap Segment(b, FirstBfree)
    BY <2>1 DEF Image
  <2>3. sbi.bfree \subseteq DataBlocks
    BY DEF Types, SbiType
  <2> QED
    BY <1>1, <2>1, <2>2, <2>3, ZenonT(30) DEF BlockType
<1> QED
  BY <1>2, <1>3, <1>4 DEF SyncBlocks

\* The copies mark the blocks and the inode of an active file used.
LEMMA ImageUses ==
    ASSUME Types, NEW i \in Files, FileInv(i), Active(i)
    PROVE  /\ \A b \in BfreeBlocks : Own(i) \cap Image(b) = {}
           /\ \A b \in IfreeBlocks : i \notin Image(b)
<1>1. Own(i) \cap sbi.bfree = {} /\ i \notin sbi.ifree
  BY ActiveFacts
<1>2. \A b \in BfreeBlocks : Image(b) = sbi.bfree \cap Segment(b, FirstBfree)
  BY Regions DEF Image
<1>3. \A b \in IfreeBlocks : Image(b) = sbi.ifree \cap Segment(b, FirstIfree)
  BY Regions DEF Image
<1> QED
  BY <1>1, <1>2, <1>3

\* Copying again changes nothing.
LEMMA ImageStays ==
    ASSUME Types, UNCHANGED sbi, NEW b \in SyncBlocks, buf'[SuperBlock] \in {buf[SuperBlock], Image(SuperBlock)}
    PROVE  Image(b)' = Image(b)
<1>1. CASE b = SuperBlock
  <2>1. buf[b] \in [magic : BOOLEAN, nrFree : Nat, nrFreeInodes : Nat]
    BY <1>1, Regions DEF Types, WellFormed, BlockType
  <2>2. Image(b) = [buf[b] EXCEPT !.nrFree = sbi.nrFree, !.nrFreeInodes = sbi.nrFreeInodes]
        /\ Image(b)' = [buf'[b] EXCEPT !.nrFree = sbi.nrFree, !.nrFreeInodes = sbi.nrFreeInodes]
    BY <1>1 DEF Image
  <2>3. CASE buf'[b] = buf[b]
    BY <2>2, <2>3
  <2>4. CASE buf'[b] = Image(b)
    BY <2>1, <2>2, <2>4
  <2> QED
    BY <1>1, <2>3, <2>4
<1>2. CASE b # SuperBlock
  BY <1>2 DEF Image
<1> QED
  BY <1>1, <1>2

\* A step of sync copies the blocks S; what it does not leave dirty it writes.
SyncFrame(S) ==
    /\ S \subseteq SyncBlocks
    /\ \A b \in Blocks : buf'[b] = IF b \in S THEN Image(b) ELSE buf[b]
    /\ \A b \in Blocks : disk'[b] \in {disk[b], buf'[b]}
    /\ \A b \in Blocks \ SyncBlocks : disk'[b] = disk[b]
    /\ \A b \in dirty \cup S : b \in dirty' \/ disk'[b] = buf'[b]
    /\ UNCHANGED <<sbi, core, incore, idirty, op, crashed, safe, lossy>>

\* Such a step changes no file.
LEMMA SyncSame ==
    ASSUME Types, UpInv, NEW S, SyncFrame(S), NEW i \in Files
    PROVE  /\ Iget(i)' = Iget(i) /\ OnDisk(i)' = OnDisk(i) /\ (Active(i)' <=> Active(i))
           /\ buf'[RootBlock] = buf[RootBlock] /\ disk'[RootBlock] = disk[RootBlock]
           /\ buf'[InodeBlock(i)] = buf[InodeBlock(i)]
           /\ Active(i) => /\ Own(i)' = Own(i)
                           /\ \A b \in Own(i) : buf'[b] = buf[b] /\ disk'[b] = disk[b]
<1>1. \A b \in Blocks \ SyncBlocks : buf'[b] = buf[b] /\ disk'[b] = disk[b]
  BY DEF SyncFrame
<1>2. InodeBlock(i) \in Blocks \ SyncBlocks /\ RootBlock \in Blocks \ SyncBlocks
  BY StoreHolds, Regions
<1>3. Iget(i)' = Iget(i) /\ OnDisk(i)' = OnDisk(i)
  BY <1>1, <1>2 DEF SyncFrame, Iget, OnDisk
<1>4. Active(i)' <=> Active(i)
  BY <1>1, <1>2 DEF SyncFrame, Active
<1>5. ASSUME Active(i)
      PROVE  Own(i)' = Own(i) /\ \A b \in Own(i) : buf'[b] = buf[b] /\ disk'[b] = disk[b]
  <2>1. Iget(i).ib \in Own(i) /\ Own(i) \subseteq DataBlocks
    BY <1>5, ActiveFacts DEF UpInv
  <2>2. \A b \in Own(i) : buf'[b] = buf[b] /\ disk'[b] = disk[b]
    BY <1>1, <2>1, Regions
  <2> QED
    BY <1>3, <2>1, <2>2, SameOwn
<1> QED
  BY <1>1, <1>2, <1>3, <1>4, <1>5

\* It disturbs no file.
LEMMA SyncFile ==
    ASSUME Types, UpInv, NEW S, SyncFrame(S), NEW i \in Files
    PROVE  FileInv(i)'
<1> SUFFICES ASSUME Active(i)' PROVE Laid(i)' /\ Kept(i)' /\ InUse(i)'
  BY DEF FileInv
<1>1. PICK r \in InodeRecords : r = Iget(i)
  BY RecordTypes
<1>2. /\ Iget(i)' = r /\ Active(i) /\ Own(i)' = Own(i)
      /\ buf'[InodeBlock(i)] = buf[InodeBlock(i)]
      /\ \A b \in Own(i) : buf'[b] = buf[b] /\ disk'[b] = disk[b]
  BY <1>1, SyncSame
<1>3. r.ib \in Own(i) /\ Own(i) \subseteq DataBlocks /\ Laid(i) /\ Kept(i) /\ InUse(i)
  BY <1>1, <1>2, ActiveFacts DEF UpInv
<1>4. op' = op /\ sbi' = sbi /\ core' = core /\ incore' = incore /\ idirty' = idirty /\ lossy' = lossy
  BY DEF SyncFrame
<1>5. /\ Using(i, "register")' <=> Using(i, "register")
      /\ Unwritten(i)' = Unwritten(i) /\ Loose(i)' = Loose(i)
  BY <1>1, <1>2, <1>4 DEF Using, Unwritten, Loose
<1>6. Laid(i)'
  <2>1. CASE Using(i, "register")
    BY <1>1, <1>2, <1>3, <1>5, <2>1 DEF Laid
  <2>2. CASE ~Using(i, "register")
    <3>1. Placed(r) /\ Shaped(buf, r) /\ Contents(buf, i, r, Unwritten(i))
      BY <1>1, <1>3, <2>2 DEF Laid
    <3>2. Shaped(buf', r)
      BY <1>2, <1>3, <3>1, SameIndex
    <3>3. Contents(buf', i, r, Unwritten(i))
      BY <1>1, <1>2, <3>1, SameContents DEF Own
    <3> QED
      BY <1>2, <1>5, <2>2, <3>1, <3>2, <3>3 DEF Laid
  <2> QED
    BY <2>1, <2>2
<1>7. Kept(i)'
  <2>1. \A b \in Own(i) \ Loose(i) : b \in dirty' \/ buf'[b] = disk'[b]
    BY <1>2, <1>3 DEF Kept, SyncFrame
  <2>2. core'[i] = core[i] /\ buf'[InodeBlock(i)][i] = buf[InodeBlock(i)][i]
    BY <1>2, <1>4
  <2> QED
    BY <1>2, <1>3, <1>4, <1>5, <2>1, <2>2 DEF Kept
<1>8. InUse(i)'
  BY <1>1, <1>2, <1>3, <1>4 DEF InUse, Using
<1> QED
  BY <1>6, <1>7, <1>8

\* Safe files stay safe, and the rest of the invariant that is not about sync
\* itself is kept.
LEMMA SyncKeeps ==
    ASSUME Types, UpInv, NEW S, SyncFrame(S)
    PROVE  /\ \A i \in Files : FileInv(i)'
           /\ OpListed' /\ Disjoint' /\ Cover' /\ CountersExact' /\ BitmapsExact'
           /\ \A i \in safe' \ lossy' : SafeInv(i)'
           /\ op'.ino \notin safe'
<1>1. op' = op /\ sbi' = sbi /\ crashed' = crashed /\ safe' = safe /\ lossy' = lossy
      /\ core' = core /\ incore' = incore
  BY DEF SyncFrame
<1>2. \A i \in Files : (Active(i)' <=> Active(i)) /\ (Active(i) => Own(i)' = Own(i))
  BY SyncSame
<1>3. buf'[RootBlock] = buf[RootBlock] /\ disk'[RootBlock] = disk[RootBlock]
  BY Regions DEF SyncFrame
<1>4. OpListed'
  BY <1>1, <1>3 DEF OpListed, UpInv
<1>5. Disjoint'
  BY <1>2 DEF Disjoint, UpInv
<1>6. Cover'
  <2>1. \A b \in IstoreBlocks : buf'[b] = disk'[b]
    BY Regions DEF SyncFrame, UpInv, Cover
  <2>2. ASSUME NEW b \in 0 .. RootBlock PROVE b \in dirty' \/ buf'[b] = disk'[b]
    <3>1. b \in Blocks /\ (b \in dirty \/ buf[b] = disk[b])
      BY Regions DEF UpInv, Cover
    <3> QED
      BY <3>1 DEF SyncFrame
  <2> QED
    BY <2>1, <2>2 DEF Cover
<1>7. CountersExact'
  BY <1>1 DEF CountersExact, UpInv
<1>8. BitmapsExact'
  BY <1>1, <1>2 DEF BitmapsExact, UpInv
<1>9. ASSUME NEW i \in safe' \ lossy' PROVE SafeInv(i)'
  <2>1. i \in Files /\ i \in safe \ lossy /\ SafeInv(i) /\ op.ino # i
    BY <1>1 DEF Types, UpInv
  <2>2. i \in disk'[RootBlock] <=> i \in buf'[RootBlock]
    BY <1>3, <2>1 DEF SafeInv
  <2>3. ASSUME i \in buf'[RootBlock]
        PROVE  /\ i \in incore' => core'[i] = OnDisk(i)'
               /\ \A b \in Own(i)' : buf'[b] = disk'[b]
               /\ UsedIn(i, Own(i)', buf') /\ UsedIn(i, Own(i)', disk')
    <3>1. i \in buf[RootBlock] /\ Active(i)
      BY <1>3, <2>1, <2>3 DEF Active
    <3>2. /\ Own(i)' = Own(i) /\ OnDisk(i)' = OnDisk(i)
          /\ \A b \in Own(i) : buf'[b] = buf[b] /\ disk'[b] = disk[b]
      BY <2>1, <3>1, SyncSame
    <3>3. /\ i \in incore => core[i] = OnDisk(i)
          /\ \A b \in Own(i) : buf[b] = disk[b]
          /\ UsedIn(i, Own(i), buf) /\ UsedIn(i, Own(i), disk)
      BY <2>1, <3>1 DEF SafeInv
    <3>4. /\ \A b \in BfreeBlocks : Own(i) \cap Image(b) = {}
          /\ \A b \in IfreeBlocks : i \notin Image(b)
      BY <2>1, <3>1, ImageUses DEF UpInv
    <3>5. \A b \in SyncBlocks :
            buf'[b] \in {buf[b], Image(b)} /\ disk'[b] \in {disk[b], buf'[b]}
      BY Regions DEF SyncFrame
    <3>6. UsedIn(i, Own(i), buf')
      BY <3>3, <3>4, <3>5, Regions, ZenonT(30) DEF UsedIn
    <3>7. UsedIn(i, Own(i), disk')
      BY <3>3, <3>5, <3>6, Regions DEF UsedIn
    <3> QED
      BY <1>1, <3>2, <3>3, <3>6, <3>7
  <2> QED
    BY <2>2, <2>3 DEF SafeInv
<1>10. op'.ino \notin safe'
  BY <1>1 DEF UpInv
<1> QED
  BY <1>4, <1>5, <1>6, <1>7, <1>8, <1>9, <1>10, SyncFile

\* An image with some blocks copied.
LEMMA CopiedFacts ==
    ASSUME Types, NEW S, S \subseteq SyncBlocks, buf' = Copied(S)
    PROVE  /\ \A b \in Blocks : buf'[b] = IF b \in S THEN Image(b) ELSE buf[b]
           /\ WellFormed(buf') /\ DOMAIN buf' = Blocks
           /\ UNCHANGED sbi => \A b \in SyncBlocks : Image(b)' = Image(b)
<1>1. DOMAIN buf' = Blocks /\ \A b \in Blocks : buf'[b] = IF b \in S THEN Image(b) ELSE buf[b]
  BY DEF Copied
<1>2. WellFormed(buf')
  BY <1>1, ImageTypes, MixedType, SMT DEF Types
<1>3. buf'[SuperBlock] \in {buf[SuperBlock], Image(SuperBlock)}
  BY <1>1, Regions
<1> QED
  BY <1>1, <1>2, <1>3, ImageStays

\* sync_filesystem begins.
LEMMA SyncBeginKeeps ==
    ASSUME Types, UpInv, SyncBegin
    PROVE  Types' /\ UpInv'
<1>1. /\ mount = "up" /\ sync = NoSync /\ mount' \in {"up", "unmounting"}
      /\ mount' = "unmounting" => op = NoOp
      /\ touched' = {op.ino} \cap Files
      /\ buf' = Copied(SyncBlocks) /\ dirty' = dirty \cup SyncBlocks
      /\ sync' = [stage |-> "inodes", todo |-> idirty]
      /\ UNCHANGED <<disk, sbi, core, incore, idirty, op, crashed, safe, lossy>>
  BY DEF SyncBegin, memory
<1>2. /\ \A b \in Blocks : buf'[b] = IF b \in SyncBlocks THEN Image(b) ELSE buf[b]
      /\ WellFormed(buf') /\ \A b \in SyncBlocks : Image(b)' = Image(b)
  BY <1>1, CopiedFacts
<1>3. Types'
  <2>1. SyncType'
    BY <1>1 DEF SyncType, Types
  <2>2. dirty' \subseteq Blocks /\ dirty' \cap IstoreBlocks = {}
    BY <1>1, Regions DEF Types
  <2> QED
    BY <1>1, <1>2, <2>1, <2>2 DEF Types, OpType, SbiType
<1>4. SyncFrame(SyncBlocks)
  BY <1>1, <1>2 DEF SyncFrame
<1>5. /\ \A i \in Files : FileInv(i)'
      /\ OpListed' /\ Disjoint' /\ Cover' /\ CountersExact' /\ BitmapsExact'
      /\ \A i \in safe' \ lossy' : SafeInv(i)'
      /\ op'.ino \notin safe'
  BY <1>4, SyncKeeps
<1>6. sync'.stage = "inodes" /\ sync'.todo = idirty /\ sync' # NoSync
  BY <1>1 DEF NoSync
<1>7. \A b : ~Passed(b)'
  BY <1>6 DEF Passed
<1>8. ASSUME NEW i \in Synced' PROVE SyncInv(i)'
  <2>1. i \in Files /\ i \notin lossy /\ op.ino # i
    BY <1>1, <1>8 DEF Synced
  <2>2. ASSUME i \in buf'[RootBlock] PROVE UsedIn(i, Own(i)', buf')
    <3>1. i \in buf[RootBlock]
      BY <1>2, <2>2, Regions
    <3>2. Active(i)
      BY <2>1, <3>1 DEF Active
    <3>3. Own(i)' = Own(i)
      BY <1>4, <2>1, <3>2, SyncSame
    <3>4. /\ \A b \in BfreeBlocks : Own(i) \cap Image(b) = {}
          /\ \A b \in IfreeBlocks : i \notin Image(b)
      BY <2>1, <3>2, ImageUses DEF UpInv
    <3> QED
      BY <1>2, <3>3, <3>4, Regions DEF UsedIn
  <2> QED
    BY <1>1, <1>6, <1>7, <2>2 DEF SyncInv
<1>9. op'.ino \notin Files \ touched'
  BY <1>1
<1>10. UnmountInv'
  <2> SUFFICES ASSUME mount' = "unmounting"
               PROVE  /\ op' = NoOp /\ touched' = {} /\ sync' # NoSync
                      /\ \A b \in SyncBlocks : buf'[b] = Image(b)'
                      /\ \A b \in SyncBlocks : Passed(b)' => disk'[b] = buf'[b]
    BY DEF UnmountInv
  <2>1. touched' = {}
    BY <1>1, IdleFacts
  <2> QED
    BY <1>1, <1>2, <1>6, <1>7, <2>1, Regions
<1> QED
  BY <1>3, <1>5, <1>8, <1>9, <1>10 DEF UpInv

\* sync_fs with waiting writes the next block, the first one left.
LEMMA SyncWaitKeeps ==
    ASSUME Types, UpInv, SyncWait, Min(StillToCopy) \in StillToCopy
    PROVE  Types' /\ UpInv'
<1>1. PICK T : T = StillToCopy
  OBVIOUS
<1>2. T \subseteq SyncBlocks /\ T # {}
  BY <1>1 DEF StillToCopy, Types, SyncType, SyncWait
<1>3. PICK c \in SyncBlocks : c = Min(T) /\ c \in T
  BY <1>1, <1>2
<1>4. /\ buf' = Copied({c}) /\ dirty' = dirty \ {c} /\ disk' = [disk EXCEPT ![c] = buf'[c]]
      /\ sync' = IF T \ {c} # {} THEN [stage |-> "fs", todo |-> T \ {c}]
                 ELSE [stage |-> "bdev", todo |-> dirty']
      /\ UNCHANGED <<sbi, core, incore, idirty, mount, op, crashed, safe, touched, lossy>>
  BY <1>1, <1>3 DEF SyncWait, memory, history
<1>5. /\ \A b \in Blocks : buf'[b] = IF b = c THEN Image(b) ELSE buf[b]
      /\ WellFormed(buf') /\ \A b \in SyncBlocks : Image(b)' = Image(b)
  <2>1. {c} \subseteq SyncBlocks
    OBVIOUS
  <2>2. /\ \A b \in Blocks : buf'[b] = IF b \in {c} THEN Image(b) ELSE buf[b]
        /\ WellFormed(buf') /\ \A b \in SyncBlocks : Image(b)' = Image(b)
    BY <1>4, <2>1, CopiedFacts, SMTT(30)
  <2> QED
    BY <2>2
<1>6. c \in Blocks /\ DOMAIN disk = Blocks /\ c \notin DataBlocks /\ c # RootBlock
      /\ c \notin IstoreBlocks
  BY Regions DEF Types, WellFormed
<1>7. /\ DOMAIN disk' = Blocks /\ disk'[c] = Image(c) /\ buf'[c] = Image(c)
      /\ \A b \in Blocks : b # c => disk'[b] = disk[b] /\ buf'[b] = buf[b]
  BY <1>4, <1>5, <1>6
<1>8. Types'
  <2>1. WellFormed(disk')
    BY <1>5, <1>7, MixedType DEF Types, WellFormed
  <2>2. SyncType'
    <3>1. T \ {c} \subseteq Blocks /\ dirty' \subseteq Blocks
      BY <1>2, <1>4, Regions DEF Types
    <3> QED
      BY <1>2, <1>4, <3>1 DEF SyncType
  <2> QED
    BY <1>4, <1>5, <2>1, <2>2 DEF Types, OpType, SbiType
<1>9. SyncFrame({c})
  <2>1. \A b \in Blocks : buf'[b] = IF b \in {c} THEN Image(b) ELSE buf[b]
    BY <1>5
  <2>2. \A b \in dirty \cup {c} : b \in dirty' \/ disk'[b] = buf'[b]
    BY <1>4, <1>7
  <2>3. \A b \in Blocks : disk'[b] \in {disk[b], buf'[b]}
    BY <1>7
  <2>4. \A b \in Blocks \ SyncBlocks : disk'[b] = disk[b]
    BY <1>7
  <2> QED
    BY <1>4, <2>1, <2>2, <2>3, <2>4 DEF SyncFrame
<1>10. /\ \A i \in Files : FileInv(i)'
       /\ OpListed' /\ Disjoint' /\ Cover' /\ CountersExact' /\ BitmapsExact'
       /\ \A i \in safe' \ lossy' : SafeInv(i)'
       /\ op'.ino \notin safe'
  BY <1>9, SyncKeeps
<1>11. sync # NoSync /\ sync' # NoSync /\ sync'.stage \in {"fs", "bdev"}
       /\ (sync'.stage = "bdev" => sync'.todo = dirty')
  <2>1. sync # NoSync
    BY <1>1, <1>2, SMT DEF StillToCopy, NoSync
  <2> QED
    BY <1>4, <2>1 DEF NoSync
<1>12. ASSUME NEW b \in SyncBlocks, Passed(b)' PROVE b = c \/ Passed(b)
  <2>1. b \notin T \ {c}
    BY <1>4, <1>12 DEF Passed
  <2>2. CASE sync.stage = "fs"
    BY <1>1, <2>1, <2>2 DEF StillToCopy, Passed
  <2>3. CASE sync.stage # "fs"
    BY <1>1, <1>2, <2>1, <2>3 DEF StillToCopy
  <2> QED
    BY <2>2, <2>3
<1>13. ASSUME NEW i \in Synced' PROVE SyncInv(i)'
  <2>1. i \in Files /\ i \notin lossy /\ op.ino # i /\ SyncInv(i)
    BY <1>4, <1>11, <1>13 DEF Synced, UpInv
  <2>2. buf'[RootBlock] = buf[RootBlock] /\ disk'[RootBlock] = disk[RootBlock]
    BY <1>6, <1>7, Regions
  <2>3. sync'.stage = "bdev" =>
          RootBlock \in sync'.todo \/ (i \in disk'[RootBlock] <=> i \in buf'[RootBlock])
    <3>1. RootBlock \in dirty \/ buf[RootBlock] = disk[RootBlock]
      BY Regions DEF UpInv, Cover
    <3> QED
      BY <1>4, <1>6, <1>11, <2>2, <3>1
  <2>4. ASSUME i \in buf'[RootBlock]
        PROVE  /\ i \in idirty' => sync'.stage = "inodes" /\ i \in sync'.todo
               /\ UsedIn(i, Own(i)', buf')
               /\ \A b \in BfreeBlocks : Passed(b)' => Own(i)' \cap disk'[b] = {}
               /\ \A b \in IfreeBlocks : Passed(b)' => i \notin disk'[b]
               /\ sync'.stage = "bdev" => \A b \in Own(i)' : b \in sync'.todo \/ buf'[b] = disk'[b]
    <3>1. i \in buf[RootBlock] /\ Active(i)
      BY <2>1, <2>2, <2>4 DEF Active
    <3>2. /\ Own(i)' = Own(i)
          /\ \A b \in Own(i) : buf'[b] = buf[b] /\ disk'[b] = disk[b]
      BY <1>9, <2>1, <3>1, SyncSame
    <3>3. /\ \A b \in BfreeBlocks : Own(i) \cap Image(b) = {}
          /\ \A b \in IfreeBlocks : i \notin Image(b)
      BY <2>1, <3>1, ImageUses DEF UpInv
    <3>4. i \notin idirty
      <4>1. i \in idirty => sync.stage = "inodes" /\ sync.todo # {}
        BY <2>1, <3>1 DEF SyncInv
      <4> QED
        BY <1>1, <1>2, <4>1 DEF StillToCopy
    <3>5. UsedIn(i, Own(i), buf)
      BY <2>1, <3>1 DEF SyncInv
    <3>6. UsedIn(i, Own(i), buf')
      BY <1>7, <3>3, <3>5, Regions, SMTT(30) DEF UsedIn
    <3>7. ASSUME NEW b \in BfreeBlocks, Passed(b)' PROVE Own(i) \cap disk'[b] = {}
      <4>1. b = c \/ Own(i) \cap disk[b] = {}
        BY <1>12, <2>1, <3>1, <3>7, Regions DEF SyncInv
      <4> QED
        BY <1>7, <3>3, <4>1, Regions
    <3>8. ASSUME NEW b \in IfreeBlocks, Passed(b)' PROVE i \notin disk'[b]
      <4>1. b = c \/ i \notin disk[b]
        BY <1>12, <2>1, <3>1, <3>8, Regions DEF SyncInv
      <4> QED
        BY <1>7, <3>3, <4>1, Regions
    <3>9. ASSUME sync'.stage = "bdev", NEW b \in Own(i)
          PROVE  b \in sync'.todo \/ buf'[b] = disk'[b]
      <4>1. b \in DataBlocks /\ Kept(i)
        BY <2>1, <3>1, ActiveFacts DEF UpInv
      <4>2. b \in dirty \/ buf[b] = disk[b]
        BY <2>1, <4>1 DEF Kept, Loose, Using
      <4> QED
        BY <1>4, <1>6, <1>11, <3>2, <3>9, <4>1, <4>2
    <3> QED
      BY <1>4, <3>2, <3>4, <3>6, <3>7, <3>8, <3>9
  <2> QED
    BY <2>3, <2>4 DEF SyncInv
<1>14. op'.ino \notin Files \ touched'
  BY <1>4, <1>11 DEF UpInv
<1>15. UnmountInv'
  <2> SUFFICES ASSUME mount' = "unmounting"
               PROVE  /\ op' = NoOp /\ touched' = {} /\ sync' # NoSync
                      /\ \A b \in SyncBlocks : buf'[b] = Image(b)'
                      /\ \A b \in SyncBlocks : Passed(b)' => disk'[b] = buf'[b]
    BY DEF UnmountInv
  <2>1. /\ op = NoOp /\ touched = {}
        /\ \A b \in SyncBlocks : buf[b] = Image(b)
        /\ \A b \in SyncBlocks : Passed(b) => disk[b] = buf[b]
    BY <1>4 DEF UpInv, UnmountInv
  <2>2. \A b \in SyncBlocks : buf'[b] = Image(b)'
    BY <1>5, <2>1, Regions
  <2>3. \A b \in SyncBlocks : Passed(b)' => disk'[b] = buf'[b]
    BY <1>7, <1>12, <2>1, Regions
  <2> QED
    BY <1>4, <1>11, <2>1, <2>2, <2>3
<1> QED
  BY <1>8, <1>10, <1>13, <1>14, <1>15 DEF UpInv

\* Memory of a file system that is not mounted.
LEMMA ForgetTypes ==
    /\ NoSbi \in [bfree : SUBSET DataBlocks, nrFree : Nat,
                  ifree : SUBSET (2 .. nr_inodes - 1), nrFreeInodes : Nat]
    /\ [i \in Files |-> NoInode] \in [Files -> InodeRecords] /\ NoInode \in InodeRecords
    /\ sbi' = NoSbi => SbiType'
<1>1. MaxEntries \in Nat
  BY PersistenceAssumption
<1>2. NoInode \in InodeRecords
  BY <1>1, SMT DEF NoInode, InodeRecords
<1>3. NoSbi \in [bfree : SUBSET DataBlocks, nrFree : Nat,
                 ifree : SUBSET (2 .. nr_inodes - 1), nrFreeInodes : Nat]
  BY DEF NoSbi
<1> QED
  BY <1>2, <1>3 DEF SbiType

\* A file that sync covers is safe when sync returns.
LEMMA SyncedIsSafe ==
    ASSUME Types, UpInv, sync.stage = "bdev", sync.todo = {}, NEW i \in Files, i \notin touched \cup lossy
    PROVE  SafeInv(i)
<1>1. sync # NoSync
  BY SMT DEF NoSync
<1>2. SyncInv(i) /\ op.ino # i
  BY <1>1 DEF UpInv, Synced
<1>3. i \in disk[RootBlock] <=> i \in buf[RootBlock]
  BY <1>2 DEF SyncInv
<1>4. ASSUME i \in buf[RootBlock]
      PROVE  /\ i \in incore => core[i] = OnDisk(i)
             /\ \A b \in Own(i) : buf[b] = disk[b]
             /\ UsedIn(i, Own(i), buf) /\ UsedIn(i, Own(i), disk)
  <2>1. /\ i \notin idirty /\ UsedIn(i, Own(i), buf)
        /\ \A b \in BfreeBlocks : Passed(b) => Own(i) \cap disk[b] = {}
        /\ \A b \in IfreeBlocks : Passed(b) => i \notin disk[b]
        /\ \A b \in Own(i) : buf[b] = disk[b]
    BY <1>2, <1>4 DEF SyncInv
  <2>2. UsedIn(i, Own(i), disk)
    BY <2>1 DEF UsedIn, Passed
  <2>3. Kept(i)
    BY <1>2, <1>4 DEF UpInv, FileInv, Active
  <2>4. buf[InodeBlock(i)] = disk[InodeBlock(i)]
    BY StoreHolds DEF UpInv, Cover
  <2>5. i \in incore => core[i] = OnDisk(i)
    BY <1>2, <2>1, <2>3, <2>4 DEF Kept, OnDisk
  <2> QED
    BY <2>1, <2>2, <2>5
<1> QED
  BY <1>3, <1>4 DEF SafeInv

\* A safe file is whole on disk.
LEMMA SafeOnDisk ==
    ASSUME Types, UpInv, NEW i \in Files, i \notin lossy, op.ino # i, SafeInv(i),
           i \in disk[RootBlock] \/ i \in buf[RootBlock]
    PROVE  /\ Active(i) /\ OnDisk(i) = Iget(i) /\ DiskOwn(i) = Own(i) /\ DiskFile(i)
           /\ Own(i) \subseteq DataBlocks /\ Iget(i).ib \in Own(i) /\ Iget(i) \in InodeRecords
           /\ \A b \in Own(i) : buf[b] = disk[b]
           /\ UsedIn(i, Own(i), buf) /\ UsedIn(i, Own(i), disk)
           /\ Shaped(disk, Iget(i)) /\ Contents(disk, i, Iget(i), 0) /\ Placed(Iget(i))
<1>1. i \in buf[RootBlock] /\ Active(i)
  BY DEF SafeInv, Active
<1>2. PICK r \in InodeRecords : r = Iget(i)
  BY RecordTypes
<1>3. /\ i \in incore => core[i] = OnDisk(i)
      /\ \A b \in Own(i) : buf[b] = disk[b]
      /\ UsedIn(i, Own(i), buf) /\ UsedIn(i, Own(i), disk)
  BY <1>1 DEF SafeInv
<1>4. r.ib \in Own(i) /\ Own(i) \subseteq DataBlocks /\ Laid(i)
  BY <1>1, <1>2, ActiveFacts DEF UpInv
<1>5. OnDisk(i) = r
  <2>1. buf[InodeBlock(i)] = disk[InodeBlock(i)]
    BY StoreHolds DEF UpInv, Cover
  <2> QED
    BY <1>2, <1>3, <2>1 DEF Iget, OnDisk
<1>6. Placed(r) /\ Shaped(buf, r) /\ Contents(buf, i, r, 0)
  BY <1>2, <1>4 DEF Laid, Using, Unwritten
<1>7. DiskOwn(i) = Own(i) /\ Shaped(disk, r)
  <2>1. disk[r.ib] = buf[r.ib]
    BY <1>3, <1>4
  <2> QED
    BY <1>2, <1>5, <1>6, <2>1, SameIndex, SMTT(30) DEF DiskOwn, Own
<1>8. Contents(disk, i, r, 0)
  <2>1. \A b \in BlocksBy(buf, r) : disk[b] = buf[b]
    BY <1>2, <1>3 DEF Own
  <2> QED
    BY <1>6, <2>1, SameContents
<1>9. DiskFile(i)
  BY <1>3, <1>5, <1>6, <1>7, <1>8 DEF DiskFile
<1> QED
  BY <1>1, <1>2, <1>3, <1>4, <1>5, <1>6, <1>7, <1>8, <1>9

\* ouichefs_put_super after a sync that wrote everything.
LEMMA UnmountedIsExact ==
    ASSUME Types, UpInv, mount = "unmounting", sync.stage = "bdev", sync.todo = {}
    PROVE  /\ \A i \in disk[RootBlock] \ lossy : DiskFile(i)
           /\ \A i, j \in disk[RootBlock] \ lossy : i # j => DiskOwn(i) \cap DiskOwn(j) = {}
           /\ DiskCounters /\ DiskBitmaps
<1>1. /\ op = NoOp /\ touched = {}
      /\ \A b \in SyncBlocks : buf[b] = Image(b) /\ disk[b] = buf[b]
  BY DEF UpInv, UnmountInv, Passed
<1>2. \A i \in Files : op.ino # i /\ (Active(i) <=> i \in buf[RootBlock] /\ i \notin lossy)
  BY <1>1, IdleFacts
<1>3. \A i \in Files \ lossy : SafeInv(i)
  BY <1>1, SyncedIsSafe
<1>4. disk[RootBlock] \subseteq Files /\ buf[RootBlock] \subseteq Files
  BY Regions, RootTypes DEF Types, WellFormed
<1>5. \A i \in Files \ lossy : /\ i \in disk[RootBlock] <=> i \in buf[RootBlock]
                               /\ i \in disk[RootBlock] => DiskFile(i) /\ DiskOwn(i) = Own(i)
  BY <1>2, <1>3, SafeOnDisk DEF SafeInv
<1>6. \A i, j \in disk[RootBlock] \ lossy : i # j => DiskOwn(i) \cap DiskOwn(j) = {}
  BY <1>2, <1>4, <1>5 DEF UpInv, Disjoint
<1>7. FreeOnDisk = sbi.bfree
  <2>1. \A b \in BfreeBlocks : disk[b] = sbi.bfree \cap Segment(b, FirstBfree)
    BY <1>1, Regions DEF Image
  <2>2. sbi.bfree \subseteq DataBlocks
    BY DEF Types, SbiType
  <2>3. \A x : x \in FreeOnDisk <=> \E b \in BfreeBlocks : x \in disk[b]
    BY DEF FreeOnDisk
  <2> QED
    BY <2>1, <2>2, <2>3, SegmentsCover, ZenonT(30)
<1>8. FreeInodesOnDisk = sbi.ifree
  <2>1. \A b \in IfreeBlocks : disk[b] = sbi.ifree \cap Segment(b, FirstIfree)
    BY <1>1, Regions DEF Image
  <2>2. sbi.ifree \subseteq 2 .. nr_inodes - 1
    BY DEF Types, SbiType
  <2>3. \A x : x \in FreeInodesOnDisk <=> \E b \in IfreeBlocks : x \in disk[b]
    BY DEF FreeInodesOnDisk
  <2> QED
    BY <2>1, <2>2, <2>3, SegmentsCover, ZenonT(30)
<1>9. disk[SuperBlock].nrFree = sbi.nrFree /\ disk[SuperBlock].nrFreeInodes = sbi.nrFreeInodes
  <2>1. buf[SuperBlock] \in [magic : BOOLEAN, nrFree : Nat, nrFreeInodes : Nat]
    BY Regions DEF Types, WellFormed, BlockType
  <2>2. disk[SuperBlock]
          = [buf[SuperBlock] EXCEPT !.nrFree = sbi.nrFree, !.nrFreeInodes = sbi.nrFreeInodes]
    BY <1>1, Regions DEF Image
  <2> QED
    BY <2>1, <2>2
<1>10. DiskCounters
  BY <1>7, <1>8, <1>9 DEF DiskCounters, UpInv, CountersExact
<1>11. DiskBitmaps
  <2> SUFFICES ASSUME ~crashed, lossy = {}
               PROVE  /\ \A b \in DataBlocks :
                           b \in sbi.bfree <=> ~ \E i \in disk[RootBlock] : b \in DiskOwn(i)
                      /\ \A i \in 2 .. nr_inodes - 1 : i \in sbi.ifree <=> i \notin disk[RootBlock]
    BY <1>7, <1>8 DEF DiskBitmaps
  <2>1. /\ \A b \in DataBlocks : b \in sbi.bfree <=> ~ \E i \in Files : Active(i) /\ b \in Own(i)
        /\ \A i \in 2 .. nr_inodes - 1 : i \in sbi.ifree <=> ~(i \in Files /\ Active(i))
    BY DEF UpInv, BitmapsExact
  <2>2. \A i \in Files : (Active(i) <=> i \in disk[RootBlock])
                         /\ (i \in disk[RootBlock] => DiskOwn(i) = Own(i))
    BY <1>2, <1>5
  <2> QED
    BY <1>4, <2>1, <2>2
<1> QED
  BY <1>4, <1>5, <1>6, <1>10, <1>11

\* sync_filesystem returns.
LEMMA SyncDoneKeeps ==
    ASSUME Types, UpInv, mount # "down", SyncDone
    PROVE  PersistenceInv'
<1>1. /\ sync.stage = "bdev" /\ sync.todo = {} /\ sync' = NoSync
      /\ safe' = safe \cup (Files \ touched) /\ touched' = {}
      /\ IF mount = "unmounting" THEN Forget ELSE UNCHANGED <<sbi, core, incore, idirty, mount>>
      /\ UNCHANGED <<disk, buf, dirty, op, crashed, lossy>>
  BY DEF SyncDone, memory, cache
<1>2. SyncType'
  BY <1>1 DEF SyncType, NoSync
<1>3. CASE mount = "unmounting"
  <2>1. /\ mount' = "down" /\ sbi' = NoSbi /\ core' = [i \in Files |-> NoInode]
        /\ incore' = {} /\ idirty' = {}
    BY <1>1, <1>3 DEF Forget
  <2>2. Types'
    <3>1. SbiType' /\ core' \in [Files -> InodeRecords]
      BY <2>1, ForgetTypes
    <3> QED
      BY <1>1, <1>2, <2>1, <3>1 DEF Types, OpType
  <2>3. op = NoOp /\ touched = {}
    BY <1>3 DEF UpInv, UnmountInv
  <2>4. Files \ safe' = {}
    BY <1>1, <2>3
  <2>5. /\ \A i \in disk[RootBlock] \ lossy : DiskFile(i)
        /\ \A i, j \in disk[RootBlock] \ lossy : i # j => DiskOwn(i) \cap DiskOwn(j) = {}
        /\ DiskCounters /\ DiskBitmaps
    BY <1>1, <1>3, UnmountedIsExact
  <2>6. (\A i : DiskFile(i)' <=> DiskFile(i)) /\ (\A i : DiskOwn(i)' = DiskOwn(i))
    BY <1>1 DEF DiskFile, DiskOwn, OnDisk
  <2>7. DiskCounters' /\ DiskBitmaps'
    BY <1>1, <2>5, <2>6, SMTT(30) DEF DiskCounters, DiskBitmaps, FreeOnDisk, FreeInodesOnDisk
  <2>8. DownInv'
    BY <1>1, <2>1, <2>3, <2>4, <2>5, <2>6, <2>7 DEF DownInv
  <2> QED
    BY <2>1, <2>2, <2>8 DEF PersistenceInv
<1>4. CASE mount # "unmounting"
  <2>1. mount = "up" /\ UNCHANGED <<sbi, core, incore, idirty, mount>>
    BY <1>1, <1>4 DEF Types
  <2>2. Types'
    BY <1>1, <1>2, <2>1 DEF Types, OpType, SbiType
  <2>3. \A i \in Files : /\ FileInv(i)' <=> FileInv(i)
                         /\ Active(i)' <=> Active(i)
                         /\ Own(i)' = Own(i)
                         /\ SafeInv(i)' <=> SafeInv(i)
    <3>1. ASSUME NEW i \in Files
          PROVE  /\ Iget(i)' = Iget(i) /\ Own(i)' = Own(i) /\ OnDisk(i)' = OnDisk(i)
                 /\ Unwritten(i)' = Unwritten(i) /\ Loose(i)' = Loose(i)
                 /\ Active(i)' <=> Active(i)
      BY <1>1, <2>1 DEF Active, Own, Iget, Using, Unwritten, Loose, OnDisk
    <3>2. ASSUME NEW i \in Files
          PROVE  (Laid(i)' <=> Laid(i)) /\ (Kept(i)' <=> Kept(i)) /\ (InUse(i)' <=> InUse(i))
      BY <1>1, <2>1, <3>1 DEF Laid, Kept, InUse, Using
    <3> QED
      BY <1>1, <2>1, <3>1, <3>2 DEF FileInv, SafeInv
  <2>4. \A i \in safe' \ lossy' : SafeInv(i)'
    <3>1. \A i \in Files : i \notin touched \cup lossy => SafeInv(i)
      BY <1>1, SyncedIsSafe
    <3> QED
      BY <1>1, <2>3, <3>1 DEF UpInv, Types
  <2>5. sync # NoSync
    BY <1>1, SMT DEF NoSync
  <2>6. op'.ino \notin safe'
    BY <1>1, <2>5 DEF UpInv
  <2>7. OpListed' /\ Disjoint' /\ Cover' /\ CountersExact' /\ BitmapsExact'
    BY <1>1, <2>1, <2>3, SMTT(30) DEF UpInv, OpListed, Disjoint, Cover, CountersExact, BitmapsExact
  <2>8. UnmountInv'
    BY <2>1 DEF UnmountInv
  <2>9. UpInv'
    BY <1>1, <2>3, <2>4, <2>6, <2>7, <2>8 DEF UpInv
  <2> QED
    BY <2>1, <2>2, <2>9 DEF PersistenceInv
<1> QED
  BY <1>3, <1>4

-----------------------------------------------------------------------------
(* The file system goes down and comes up.                                *)

\* A crash, or an unmount that could not sync: whatever part of the cache was
\* written, the safe files are whole.
LEMMA LostKeeps ==
    ASSUME Types, UpInv,
           \A b \in Blocks : disk'[b] \in {disk[b], buf[b]} \/ (b \in SyncBlocks /\ disk'[b] = Image(b)),
           \A b \in IstoreBlocks : disk'[b] = disk[b],
           op' = NoOp, sync' = NoSync, touched' = {}, incore' = {}, idirty' = {},
           crashed' = TRUE, safe' = safe, lossy' = lossy \cup (Files \ safe)
    PROVE  DownInv'
<1>1. disk'[RootBlock] \in {disk[RootBlock], buf[RootBlock]} /\ disk'[RootBlock] \subseteq Files
  <2>1. disk'[RootBlock] \in {disk[RootBlock], buf[RootBlock]}
    BY Regions
  <2>2. disk[RootBlock] \subseteq Files /\ buf[RootBlock] \subseteq Files
    BY Regions, RootTypes DEF Types, WellFormed
  <2> QED
    BY <2>1, <2>2
<1>2. ASSUME NEW i \in disk'[RootBlock] \ lossy'
      PROVE  DiskFile(i)' /\ DiskOwn(i)' = Own(i) /\ Active(i) /\ i \in Files
  <2>1. i \in Files /\ i \in safe \ lossy /\ op.ino # i /\ SafeInv(i)
    BY <1>1, <1>2 DEF UpInv
  <2>2. i \in disk[RootBlock] \/ i \in buf[RootBlock]
    BY <1>1, <1>2
  <2>3. PICK r \in InodeRecords : r = Iget(i)
    BY <2>1, RecordTypes
  <2>4. /\ Active(i) /\ OnDisk(i) = r /\ DiskOwn(i) = Own(i)
        /\ Own(i) \subseteq DataBlocks /\ r.ib \in Own(i)
        /\ \A b \in Own(i) : buf[b] = disk[b]
        /\ UsedIn(i, Own(i), buf) /\ UsedIn(i, Own(i), disk)
        /\ Shaped(disk, r) /\ Contents(disk, i, r, 0) /\ Placed(r)
    BY <2>1, <2>2, <2>3, SafeOnDisk
  <2>5. OnDisk(i)' = r
    BY <2>1, <2>4, StoreHolds DEF OnDisk
  <2>6. \A b \in Own(i) : disk'[b] = disk[b]
    BY <2>4, Regions
  <2>7. BlocksBy(disk, r) = Own(i)
    BY <2>4 DEF DiskOwn
  <2>8. BlocksBy(disk', r) = Own(i) /\ Shaped(disk', r)
    BY <2>4, <2>6, <2>7, SameIndex
  <2>9. Contents(disk', i, r, 0)
    BY <2>4, <2>6, <2>7, SameContents, SMTT(30)
  <2>10. UsedIn(i, Own(i), disk')
    <3>1. /\ \A b \in BfreeBlocks : Own(i) \cap Image(b) = {}
          /\ \A b \in IfreeBlocks : i \notin Image(b)
      BY <2>1, <2>4, ImageUses DEF UpInv
    <3>2. \A b \in SyncBlocks : disk'[b] \in {disk[b], buf[b], Image(b)}
      BY Regions
    <3> QED
      BY <2>4, <3>1, <3>2, Regions, SMTT(30) DEF UsedIn
  <2>11. DiskOwn(i)' = Own(i)
    BY <2>5, <2>8 DEF DiskOwn
  <2> QED
    BY <2>1, <2>4, <2>5, <2>8, <2>9, <2>10, <2>11 DEF DiskFile
<1>3. \A i, j \in disk'[RootBlock] \ lossy' : i # j => DiskOwn(i)' \cap DiskOwn(j)' = {}
  BY <1>2 DEF UpInv, Disjoint
<1>4. DiskCounters' /\ DiskBitmaps'
  BY DEF DiskCounters, DiskBitmaps
<1> QED
  BY <1>2, <1>3, <1>4 DEF DownInv

\* Power loss.
LEMMA CrashKeeps ==
    ASSUME Types, UpInv, Crash
    PROVE  PersistenceInv'
<1>1. /\ mount' = "down" /\ crashed' = TRUE /\ buf' = disk /\ dirty' = {}
      /\ sbi' = NoSbi /\ core' = [i \in Files |-> NoInode]
      /\ incore' = {} /\ idirty' = {} /\ op' = NoOp /\ sync' = NoSync /\ touched' = {}
      /\ lossy' = lossy \cup (Files \ safe) /\ disk' = disk /\ safe' = safe
  BY DEF Crash
<1>2. Types'
  <2>1. SbiType' /\ core' \in [Files -> InodeRecords]
    BY <1>1, ForgetTypes
  <2>2. OpType' /\ SyncType'
    BY <1>1 DEF OpType, SyncType, NoSync
  <2> QED
    BY <1>1, <2>1, <2>2 DEF Types
<1>3. DownInv'
  BY <1>1, LostKeeps
<1> QED
  BY <1>1, <1>2, <1>3 DEF PersistenceInv

\* A sync that cannot read a block, and an unmount after it.
LEMMA GiveUpKeeps ==
    ASSUME Types, UpInv, mount # "down", NEW S, S \subseteq SyncBlocks, GiveUp(S)
    PROVE  PersistenceInv'
<1>1. /\ sync' = NoSync /\ touched' = {} /\ buf' = Copied(S) /\ op' = op /\ safe' = safe
  BY DEF GiveUp
<1>2. /\ \A b \in Blocks : buf'[b] = IF b \in S THEN Image(b) ELSE buf[b]
      /\ WellFormed(buf')
  BY <1>1, CopiedFacts
<1>3. SyncType'
  BY <1>1 DEF SyncType, NoSync
<1>4. CASE mount = "up" /\ dirty' = dirty \cup S
           /\ UNCHANGED <<disk, memory, mount, crashed, lossy>>
  <2>1. UNCHANGED <<disk, sbi, core, incore, idirty, mount, crashed, lossy>>
    BY <1>4 DEF memory
  <2>2. Types'
    <3>1. dirty' \subseteq Blocks /\ dirty' \cap IstoreBlocks = {}
      BY <1>4, Regions DEF Types
    <3> QED
      BY <1>1, <1>2, <1>3, <2>1, <3>1 DEF Types, OpType, SbiType
  <2>3. SyncFrame(S)
    BY <1>1, <1>2, <1>4, <2>1 DEF SyncFrame
  <2>4. /\ \A i \in Files : FileInv(i)'
        /\ OpListed' /\ Disjoint' /\ Cover' /\ CountersExact' /\ BitmapsExact'
        /\ \A i \in safe' \ lossy' : SafeInv(i)'
        /\ op'.ino \notin safe'
    BY <2>3, SyncKeeps
  <2>5. UnmountInv'
    BY <1>4, <2>1 DEF UnmountInv
  <2>6. UpInv'
    BY <1>1, <2>4, <2>5 DEF UpInv
  <2> QED
    BY <1>4, <2>1, <2>2, <2>6 DEF PersistenceInv
<1>5. CASE /\ op = NoOp /\ Forget
           /\ crashed' = TRUE /\ lossy' = lossy \cup (Files \ safe)
           /\ disk' = [x \in Blocks |-> IF x \in dirty \cup S THEN Copied(S)[x] ELSE disk[x]]
           /\ dirty' = {}
  <2>1. /\ mount' = "down" /\ sbi' = NoSbi /\ core' = [i \in Files |-> NoInode]
        /\ incore' = {} /\ idirty' = {}
    BY <1>5 DEF Forget
  <2>2. /\ DOMAIN disk' = Blocks
        /\ \A b \in Blocks : disk'[b] = IF b \in dirty \cup S THEN buf'[b] ELSE disk[b]
    BY <1>1, <1>5
  <2>3. Types'
    <3>1. SbiType' /\ core' \in [Files -> InodeRecords]
      BY <2>1, ForgetTypes
    <3>2. WellFormed(disk')
      BY <1>2, <2>2, MixedType DEF Types, WellFormed
    <3> QED
      BY <1>1, <1>2, <1>3, <1>5, <2>1, <3>1, <3>2 DEF Types, OpType
  <2>4. \A b \in Blocks :
          disk'[b] \in {disk[b], buf[b]} \/ (b \in SyncBlocks /\ disk'[b] = Image(b))
    BY <1>2, <2>2
  <2>5. \A b \in IstoreBlocks : disk'[b] = disk[b]
    BY <2>2, Regions DEF Types
  <2>6. DownInv'
    BY <1>1, <1>5, <2>1, <2>4, <2>5, LostKeeps
  <2> QED
    BY <2>1, <2>3, <2>6 DEF PersistenceInv
<1> QED
  BY <1>4, <1>5 DEF GiveUp

\* A read that fails in ouichefs_sync_fs, at any of its blocks, keeps the
\* invariant.
LEMMA SyncFailKeeps ==
    ASSUME Types, UpInv, mount # "down", SyncFail
    PROVE  PersistenceInv'
<1>1. PICK S : S \subseteq SyncBlocks /\ GiveUp(S)
  <2>1. CASE \E x \in SyncBlocks : GiveUp({b \in SyncBlocks : b < x})
    BY <2>1
  <2>2. CASE GiveUp({})
    BY <2>2
  <2> QED
    BY <2>1, <2>2 DEF SyncFail
<1> QED
  BY <1>1, GiveUpKeeps

\* ouichefs_fill_super reads the counters and bitmaps.
LEMMA MountKeeps ==
    ASSUME Types, DownInv, Mount
    PROVE  PersistenceInv'
<1>1. /\ mount' = "up" /\ buf' = disk /\ dirty' = {}
      /\ sbi' = [bfree |-> FreeOnDisk, nrFree |-> disk[SuperBlock].nrFree,
                 ifree |-> FreeInodesOnDisk, nrFreeInodes |-> disk[SuperBlock].nrFreeInodes]
      /\ UNCHANGED <<disk, core, incore, idirty, op, sync, crashed, safe, touched, lossy>>
  BY DEF Mount, FreeOnDisk, FreeInodesOnDisk, history
<1>2. op = NoOp /\ sync = NoSync /\ touched = {} /\ incore = {} /\ idirty = {}
      /\ Files \ safe \subseteq lossy
  BY DEF DownInv
<1>3. /\ FreeOnDisk \subseteq DataBlocks /\ FreeInodesOnDisk \subseteq 2 .. nr_inodes - 1
      /\ disk[SuperBlock].nrFree \in Nat /\ disk[SuperBlock].nrFreeInodes \in Nat
  <2>1. \A b \in BfreeBlocks : disk[b] \subseteq DataBlocks
    BY Regions DEF Types, WellFormed, BlockType
  <2>2. \A b \in IfreeBlocks : disk[b] \subseteq 2 .. nr_inodes - 1
    BY Regions DEF Types, WellFormed, BlockType
  <2>3. disk[SuperBlock] \in [magic : BOOLEAN, nrFree : Nat, nrFreeInodes : Nat]
    BY Regions DEF Types, WellFormed, BlockType
  <2> QED
    BY <2>1, <2>2, <2>3 DEF FreeOnDisk, FreeInodesOnDisk
<1>4. Types'
  <2>1. SbiType'
    BY <1>1, <1>3 DEF SbiType
  <2>2. OpType' /\ SyncType'
    BY <1>1, <1>2 DEF OpType, SyncType, NoSync
  <2> QED
    BY <1>1, <2>1, <2>2 DEF Types
<1>5. op'.ino = 0 /\ op'.step = "idle" /\ op'.call = "none" /\ 0 \notin Files
  BY <1>1, <1>2, StoreHolds DEF NoOp
<1>6. disk[RootBlock] \subseteq Files
  BY Regions, RootTypes DEF Types, WellFormed
<1>7. \A i \in Files : /\ Active(i)' <=> i \in disk[RootBlock] \ lossy
                       /\ Iget(i)' = OnDisk(i) /\ OnDisk(i)' = OnDisk(i)
                       /\ Own(i)' = DiskOwn(i)
  BY <1>1, <1>2, <1>5 DEF Active, Iget, OnDisk, Own, DiskOwn
<1>8. ASSUME NEW i \in Files, i \in disk[RootBlock] \ lossy
      PROVE  /\ Placed(OnDisk(i)) /\ Shaped(disk, OnDisk(i)) /\ Contents(disk, i, OnDisk(i), 0)
             /\ UsedIn(i, DiskOwn(i), disk)
             /\ DiskOwn(i) \cap FreeOnDisk = {} /\ i \notin FreeInodesOnDisk
  <2>1. DiskFile(i)
    BY <1>8 DEF DownInv
  <2>2. UsedIn(i, DiskOwn(i), disk)
    BY <2>1 DEF DiskFile
  <2>3. DiskOwn(i) \cap FreeOnDisk = {} /\ i \notin FreeInodesOnDisk
    BY <2>2 DEF UsedIn, FreeOnDisk, FreeInodesOnDisk
  <2> QED
    BY <2>1, <2>2, <2>3 DEF DiskFile
<1>9. ASSUME NEW i \in Files PROVE FileInv(i)'
  <2> SUFFICES ASSUME i \in disk[RootBlock] \ lossy PROVE Laid(i)' /\ Kept(i)' /\ InUse(i)'
    BY <1>7 DEF FileInv
  <2>1. op'.ino # i
    BY <1>5
  <2>2. Laid(i)'
    BY <1>1, <1>7, <1>8, <2>1 DEF Laid, Using, Unwritten
  <2>3. Kept(i)'
    BY <1>1, <1>2, <1>7, <1>8 DEF Kept
  <2>4. InUse(i)'
    BY <2>1 DEF InUse, Using
  <2> QED
    BY <2>2, <2>3, <2>4
<1>10. OpListed' /\ Cover'
  BY <1>1, <1>5 DEF OpListed, Cover
<1>11. Disjoint'
  BY <1>7 DEF Disjoint, DownInv
<1>12. ASSUME NEW i \in safe' \ lossy' PROVE SafeInv(i)'
  <2>1. i \in Files /\ i \notin lossy
    BY <1>1, <1>12 DEF Types
  <2> QED
    BY <1>1, <1>2, <1>7, <1>8, <2>1 DEF SafeInv
<1>13. CountersExact'
  BY <1>1 DEF CountersExact, DownInv, DiskCounters
<1>14. BitmapsExact'
  <2> SUFFICES ASSUME ~crashed, lossy = {}
               PROVE  /\ \A b \in DataBlocks :
                           b \in FreeOnDisk <=> ~ \E i \in Files : Active(i)' /\ b \in Own(i)'
                      /\ \A i \in 2 .. nr_inodes - 1 :
                           i \in FreeInodesOnDisk <=> ~(i \in Files /\ Active(i)')
    BY <1>1 DEF BitmapsExact
  <2>1. /\ \A b \in DataBlocks :
             b \in FreeOnDisk <=> ~ \E i \in disk[RootBlock] : b \in DiskOwn(i)
        /\ \A i \in 2 .. nr_inodes - 1 : i \in FreeInodesOnDisk <=> i \notin disk[RootBlock]
    BY DEF DownInv, DiskBitmaps
  <2>2. \A i \in Files : (Active(i)' <=> i \in disk[RootBlock]) /\ Own(i)' = DiskOwn(i)
    BY <1>7
  <2> QED
    BY <1>6, <2>1, <2>2
<1>15. UnmountInv'
  BY <1>1 DEF UnmountInv
<1>16. UpInv'
  BY <1>1, <1>2, <1>5, <1>9, <1>10, <1>11, <1>12, <1>13, <1>14, <1>15 DEF UpInv, Types
<1> QED
  BY <1>1, <1>4, <1>16 DEF PersistenceInv
=============================================================================
