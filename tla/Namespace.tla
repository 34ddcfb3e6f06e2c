------------------------------ MODULE Namespace ------------------------------
(***************************************************************************)
(* Directories and inodes of ouiche_fs: lookup, create, mkdir, unlink,     *)
(* rmdir and rename of src/inode.c, the listing of src/dir.c, and the      *)
(* inode half of the allocator in src/bitmap.h.                            *)
(*                                                                         *)
(* A directory is one block of MaxSubfiles slots.  Every loop over it      *)
(* stops at the first slot whose inode is 0, so removal compacts it.  The  *)
(* VFS holds the lock of each directory an operation touches, hence an     *)
(* operation is one step; a listing drops the lock between two calls and   *)
(* keeps only a position, hence one step per entry.  File contents and the *)
(* block bitmap are in LightFile and BlockOwnership: a create that finds   *)
(* no block undoes its inode and changes nothing here.                     *)
(***************************************************************************)
EXTENDS Integers, FiniteSets, FiniteSetsExt

CONSTANTS
    NrInodes,     \* inode numbers are 0 .. NrInodes - 1, 0 means "none"
    MaxSubfiles,  \* OUICHEFS_MAX_SUBFILES
    Names,        \* the names of at most OUICHEFS_FILENAME_LEN characters
    Stored,       \* what strscpy keeps of a name: at most 27 characters
    LinkSpan,     \* i_nlink is an unsigned number below LinkSpan (2^32)
    MaxFaults     \* bound on the reads of a directory block that fail

Slots == 0 .. MaxSubfiles - 1
Inodes == 1 .. NrInodes - 1
Root == 1
NoName == ""
NoEntry == [inode |-> 0, filename |-> NoName]

ASSUME NamespaceAssumption ==
    /\ NrInodes \in Nat /\ NrInodes > 1
    /\ MaxSubfiles \in Nat \ {0}
    /\ MaxFaults \in Nat
    /\ LinkSpan \in Nat /\ LinkSpan > MaxSubfiles + 2
    /\ NoName \notin Names
    /\ Stored \in [Names -> Names]
    /\ \A n \in Names : Stored[Stored[n]] = Stored[n]

VARIABLES
    files,        \* dir_block->files of every directory
    kind,         \* i_mode: "none", "file" or "dir"
    nlink,        \* i_nlink
    ifree,        \* ifree_bitmap: the free inode numbers
    nrFreeInodes, \* sbi->nr_free_inodes
    torn,         \* inodes left in two directories by a rename that failed
    reader,       \* one listing in progress: its directory and ctx->pos
    astray        \* a directory operation has left its block

vars == <<files, kind, nlink, ifree, nrFreeInodes, torn, reader, astray>>

EmptyBlock == [k \in Slots |-> NoEntry]
NoReader == [dir |-> 0, pos |-> 0, seen |-> {}, stable |-> {}, gone |-> 0]

-----------------------------------------------------------------------------
\* The directory block.

\* The slot the scans stop at: the first with inode 0, or MaxSubfiles.
NrSubs(block) == Min({k \in Slots : block[k].inode = 0} \cup {MaxSubfiles})

\* f_id: the last slot of the scan that holds the inode, -1 if none does.
EntryOf(block, ino) ==
    LET hits == {k \in 0 .. NrSubs(block) - 1 : block[k].inode = ino}
    IN  IF hits = {} THEN -1 ELSE Max(hits)

\* ouichefs_lookup: the inode of the first entry with this name, 0 if none.
Lookup(block, name) ==
    LET hits == {k \in 0 .. NrSubs(block) - 1 : block[k].filename = name}
    IN  IF hits = {} THEN 0 ELSE block[Min(hits)].inode

\* A new inode goes to the first free slot under the stored form of its name.
AddEntry(block, ino, name) ==
    [block EXCEPT ![NrSubs(block)] = [inode |-> ino, filename |-> Stored[name]]]

\* memmove of the entries after f_id, then memset of the last one.
MutRemoveEntry(block, ino) == [block EXCEPT ![EntryOf(block, ino)] = NoEntry]

RemoveEntry(block, ino) ==
    LET f_id == EntryOf(block, ino)
        last == NrSubs(block) - 1
    IN  [k \in Slots |-> IF k = last THEN NoEntry
                         ELSE IF k \in f_id .. last - 1 THEN block[k + 1]
                         ELSE block[k]]

\* The inodes that have an entry in a directory.
Listed(d) == {files[d][k].inode : k \in Slots} \ {0}

\* inode_inc_link_count and inode_dec_link_count.
IncLink(n) == (n + 1) % LinkSpan
DecLink(n) == (n - 1) % LinkSpan

\* Every inode at or below d, by the entries.
Subtree(d) ==
    LET Down(S) == S \cup UNION {Listed(e) : e \in {e \in S : kind[e] = "dir"}}
        upto[n \in 0 .. NrInodes] == IF n = 0 THEN {d} ELSE Down(upto[n - 1])
    IN  upto[NrInodes]

-----------------------------------------------------------------------------
\* A freshly formatted partition: inodes 0 and 1 are used, and the root
\* directory is empty.  write_superblock only counts inode 0 out.
Init ==
    /\ files = [d \in Inodes |-> EmptyBlock]
    /\ kind = [i \in Inodes |-> IF i = Root THEN "dir" ELSE "none"]
    /\ nlink = [i \in Inodes |-> IF i = Root THEN 2 ELSE 0]
    /\ ifree = Inodes \ {Root}
    /\ nrFreeInodes = NrInodes - 1
    /\ torn = {}
    /\ reader = NoReader
    /\ astray = FALSE

\* A listing does not know that the block it walks was compacted.  stable and
\* gone are history: the entries there since the listing began, and how many
\* removals happened behind its position.
AfterRemoval(r, d, ino) ==
    IF r.dir # d THEN r
    ELSE [r EXCEPT !.stable = @ \ {ino},
                   !.gone = IF EntryOf(files[d], ino) < r.pos
                            THEN Min({@ + 1, MaxSubfiles}) ELSE @]

\* ouichefs_create and ouichefs_mkdir.  The VFS calls them after a lookup
\* that found nothing.  A full directory, no free inode, no free block or an
\* unreadable index block leave everything as it was.
MutCreate(d, name, k) ==
    /\ ~astray /\ kind[d] = "dir"
    /\ Lookup(files[d], name) = 0
    /\ files[d][MaxSubfiles - 1].inode = 0
    /\ nrFreeInodes # 0 /\ ifree # {}
    /\ LET ino == Min(ifree) IN
        /\ ifree' = ifree \ {ino}
        /\ nrFreeInodes' = nrFreeInodes - 1
        /\ files' = [files EXCEPT ![d] = AddEntry(@, ino, name), ![ino] = EmptyBlock]
        /\ kind' = [kind EXCEPT ![ino] = k]
        /\ nlink' = [nlink EXCEPT ![ino] = IF k = "dir" THEN 2 ELSE 1]
    /\ UNCHANGED <<torn, reader, astray>>

Create(d, name, k) ==
    /\ ~astray /\ kind[d] = "dir"
    /\ Lookup(files[d], name) = 0
    /\ files[d][MaxSubfiles - 1].inode = 0
    /\ nrFreeInodes # 0 /\ ifree # {}
    /\ LET ino == Min(ifree) IN
        /\ ifree' = ifree \ {ino}
        /\ nrFreeInodes' = nrFreeInodes - 1
        /\ files' = [files EXCEPT ![d] = AddEntry(@, ino, name), ![ino] = EmptyBlock]
        /\ kind' = [kind EXCEPT ![ino] = k]
        /\ nlink' = [nlink EXCEPT ![ino] = IF k = "dir" THEN 2 ELSE 1,
                                  ![d] = IF k = "dir" THEN IncLink(@) ELSE @]
    /\ UNCHANGED <<torn, reader, astray>>

\* ouichefs_unlink: take the entry out of the directory, clean the inode and
\* give it back.  The link count of the inode is decremented once, for a
\* directory too.  An inode that is not in the block sends the memmove to the
\* memory before it.
MutUnlinkInode(d, ino) ==
    /\ files' = [files EXCEPT ![d] = RemoveEntry(@, ino), ![ino] = EmptyBlock]
    /\ kind' = [kind EXCEPT ![ino] = "none"]
    /\ nlink' = [nlink EXCEPT ![ino] = DecLink(@),
                              ![d] = IF kind[ino] = "dir" THEN DecLink(@) ELSE @]
    /\ ifree' = ifree \cup {ino}
    /\ UNCHANGED nrFreeInodes
    /\ astray' = (EntryOf(files[d], ino) = -1)
    /\ reader' = IF reader.dir = ino THEN NoReader ELSE AfterRemoval(reader, d, ino)
    /\ UNCHANGED torn

MutUnlinkTwice(d, ino) ==
    /\ files' = [files EXCEPT ![d] = RemoveEntry(@, ino), ![ino] = EmptyBlock]
    /\ kind' = [kind EXCEPT ![ino] = "none"]
    /\ nlink' = [nlink EXCEPT ![ino] = @ - 2,
                              ![d] = IF kind[ino] = "dir" THEN DecLink(@) ELSE @]
    /\ ifree' = ifree \cup {ino}
    /\ nrFreeInodes' = nrFreeInodes + 1
    /\ astray' = (EntryOf(files[d], ino) = -1)
    /\ reader' = IF reader.dir = ino THEN NoReader ELSE AfterRemoval(reader, d, ino)
    /\ UNCHANGED torn

UnlinkInode(d, ino) ==
    /\ files' = [files EXCEPT ![d] = RemoveEntry(@, ino), ![ino] = EmptyBlock]
    /\ kind' = [kind EXCEPT ![ino] = "none"]
    /\ nlink' = [nlink EXCEPT ![ino] = DecLink(@),
                              ![d] = IF kind[ino] = "dir" THEN DecLink(@) ELSE @]
    /\ ifree' = ifree \cup {ino}
    /\ nrFreeInodes' = nrFreeInodes + 1
    /\ astray' = (EntryOf(files[d], ino) = -1)
    /\ reader' = IF reader.dir = ino THEN NoReader ELSE AfterRemoval(reader, d, ino)
    /\ UNCHANGED torn

Unlink(d, ino) ==
    /\ ~astray /\ kind[d] = "dir"
    /\ ino \in Listed(d) /\ kind[ino] = "file"
    /\ UnlinkInode(d, ino)

\* ouichefs_rmdir: refused while the link count or the first slot shows an
\* entry.
MutRmdir(d, ino) ==
    /\ ~astray /\ kind[d] = "dir"
    /\ ino \in Listed(d) /\ kind[ino] = "dir"
    /\ nlink[ino] <= 2
    /\ UnlinkInode(d, ino)

Rmdir(d, ino) ==
    /\ ~astray /\ kind[d] = "dir"
    /\ ino \in Listed(d) /\ kind[ino] = "dir"
    /\ nlink[ino] <= 2
    /\ files[ino][0].inode = 0
    /\ UnlinkInode(d, ino)

\* ouichefs_rename within one directory: the entry found by its old name gets
\* the new one.  A name of 28 characters is not found (it was stored with 27),
\* and the new name is then written before the block.
MutRenameInPlace(d, old, new) ==
    /\ ~astray /\ kind[d] = "dir" /\ old # new
    /\ \E k \in Slots : files[d][k].filename = Stored[old]
    /\ LET hits == {k \in Slots : files[d][k].filename = old} IN
        /\ astray' = (hits = {})
        /\ files' = IF hits = {} THEN files
                    ELSE [files EXCEPT ![d][Max(hits)].filename = Stored[new]]
    /\ UNCHANGED <<kind, nlink, ifree, nrFreeInodes, torn, reader>>

RenameInPlace(d, old, new) ==
    /\ ~astray /\ kind[d] = "dir" /\ old # new
    /\ \E k \in Slots : files[d][k].filename = Stored[old]
    /\ \A k \in Slots : files[d][k].filename # new
    /\ LET hits == {k \in Slots : files[d][k].filename = old} IN
        /\ astray' = (hits = {})
        /\ files' = IF hits = {} THEN files
                    ELSE [files EXCEPT ![d][Max(hits)].filename = Stored[new]]
    /\ UNCHANGED <<kind, nlink, ifree, nrFreeInodes, torn, reader>>

\* What ouichefs_rename checks before it moves an entry to another directory,
\* after the VFS has refused to move a directory below itself.
CanMove(from, ino, to, new) ==
    /\ ~astray /\ kind[from] = "dir" /\ kind[to] = "dir" /\ from # to
    /\ kind[ino] # "none" /\ ino \in Listed(from)
    /\ kind[ino] = "dir" => to \notin Subtree(ino)
    /\ \A k \in Slots : files[to][k].filename # new
    /\ NrSubs(files[to]) < MaxSubfiles

\* The move: insert in the new directory, then remove from the old one.
Rename(from, ino, to, new) ==
    /\ CanMove(from, ino, to, new)
    /\ files' = [files EXCEPT ![to] = AddEntry(@, ino, new),
                              ![from] = RemoveEntry(@, ino)]
    /\ nlink' = [nlink EXCEPT ![to] = IF kind[ino] = "dir" THEN IncLink(@) ELSE @,
                              ![from] = IF kind[ino] = "dir" THEN DecLink(@) ELSE @]
    /\ reader' = AfterRemoval(reader, from, ino)
    /\ UNCHANGED <<kind, ifree, nrFreeInodes, torn, astray>>

\* The old directory cannot be read: -EIO, with the entry already inserted.
RenameTorn(from, ino, to, new) ==
    /\ Cardinality(torn) < MaxFaults
    /\ CanMove(from, ino, to, new)
    /\ files' = [files EXCEPT ![to] = AddEntry(@, ino, new)]
    /\ nlink' = [nlink EXCEPT ![to] = IF kind[ino] = "dir" THEN IncLink(@) ELSE @]
    /\ torn' = torn \cup {ino}
    /\ UNCHANGED <<kind, ifree, nrFreeInodes, reader, astray>>

\* The scan of the old directory has no bound.  When the directory is full it
\* reads the memory after the block: if the next word is 0 the move is right,
\* otherwise memmove and memset work on that memory.
RenameAstray(from, ino, to, new) ==
    /\ NrSubs(files[from]) = MaxSubfiles
    /\ CanMove(from, ino, to, new)
    /\ astray' = TRUE
    /\ UNCHANGED <<files, kind, nlink, ifree, nrFreeInodes, torn, reader>>

\* ouichefs_iterate over a directory, one committed entry per step.
OpenDir(d) ==
    /\ ~astray /\ kind[d] = "dir" /\ reader = NoReader
    /\ reader' = [NoReader EXCEPT !.dir = d, !.stable = Listed(d)]
    /\ UNCHANGED <<files, kind, nlink, ifree, nrFreeInodes, torn, astray>>

MutIterateSkip ==
    /\ ~astray /\ reader.dir # 0
    /\ reader.pos < MaxSubfiles
    /\ files[reader.dir][reader.pos].inode # 0
    /\ reader' = [reader EXCEPT !.seen = @ \cup {files[reader.dir][reader.pos].inode},
                                !.pos = Min({@ + 2, MaxSubfiles})]
    /\ UNCHANGED <<files, kind, nlink, ifree, nrFreeInodes, torn, astray>>

MutIterateStay ==
    /\ ~astray /\ reader.dir # 0
    /\ reader.pos < MaxSubfiles
    /\ files[reader.dir][reader.pos].inode # 0
    /\ reader' = [reader EXCEPT !.seen = @ \cup {files[reader.dir][reader.pos].inode}]
    /\ UNCHANGED <<files, kind, nlink, ifree, nrFreeInodes, torn, astray>>

Iterate ==
    /\ ~astray /\ reader.dir # 0
    /\ reader.pos < MaxSubfiles
    /\ files[reader.dir][reader.pos].inode # 0
    /\ reader' = [reader EXCEPT !.seen = @ \cup {files[reader.dir][reader.pos].inode},
                                !.pos = @ + 1]
    /\ UNCHANGED <<files, kind, nlink, ifree, nrFreeInodes, torn, astray>>

CloseDir ==
    /\ ~astray /\ reader.dir # 0
    /\ reader' = NoReader
    /\ UNCHANGED <<files, kind, nlink, ifree, nrFreeInodes, torn, astray>>

Next ==
    \/ \E d \in Inodes, n \in Names, k \in {"file", "dir"} : Create(d, n, k)
    \/ \E d, i \in Inodes : Unlink(d, i) \/ Rmdir(d, i)
    \/ \E d \in Inodes, old, new \in Names : RenameInPlace(d, old, new)
    \/ \E from, i, to \in Inodes, n \in Names :
            \/ Rename(from, i, to, n)
            \/ RenameTorn(from, i, to, n)
            \/ RenameAstray(from, i, to, n)
    \/ \E d \in Inodes : OpenDir(d)
    \/ Iterate
    \/ CloseDir

Spec == Init /\ [][Next]_vars

-----------------------------------------------------------------------------
\* Types of the directory blocks, inodes, allocator and listing.
TypeOK ==
    /\ files \in [Inodes -> [Slots -> [inode : 0 .. NrInodes - 1,
                                       filename : Names \cup {NoName}]]]
    /\ kind \in [Inodes -> {"none", "file", "dir"}]
    /\ nlink \in [Inodes -> 0 .. LinkSpan - 1]
    /\ ifree \subseteq Inodes /\ nrFreeInodes \in Nat
    /\ torn \subseteq Inodes
    /\ reader \in [dir : 0 .. NrInodes - 1, pos : 0 .. MaxSubfiles,
                   seen : SUBSET Inodes, stable : SUBSET Inodes,
                   gone : 0 .. MaxSubfiles]
    /\ astray \in BOOLEAN

\* The entries of a directory fill a prefix of its block, so that the scans of
\* lookup, unlink, rename and iterate, which stop at the first empty slot, see
\* every entry.
DirectoriesDense ==
    \A d \in Inodes, k \in Slots :
        k > 0 /\ files[d][k].inode # 0 => files[d][k - 1].inode # 0

\* No directory holds two entries of the same name, so that lookup has one
\* answer.
NamesUnique ==
    \A d \in Inodes, j, k \in Slots :
        files[d][j].inode # 0 /\ files[d][j].filename = files[d][k].filename
            => j = k

\* Unless a rename failed half way on it, an inode in use other than the root
\* has exactly one entry, a free one has none, and everything in use is
\* reachable from the root: no create, unlink, rmdir or rename orphans a
\* file or leaves an entry behind.
TreeIsWhole ==
    /\ \A i \in Inodes \ torn :
        Cardinality({e \in Inodes \X Slots : files[e[1]][e[2]].inode = i})
            = IF kind[i] = "none" \/ i = Root THEN 0 ELSE 1
    /\ torn = {} => Subtree(Root) = {i \in Inodes : kind[i] # "none"}

\* The link count of a directory is 2 plus its subdirectories, that of a file
\* is 1: rmdir's first check and the counts stat reports rest on it.
LinkCounts ==
    torn = {} =>
        \A i \in Inodes :
            /\ kind[i] = "file" => nlink[i] = 1
            /\ kind[i] = "dir" =>
                nlink[i] = 2 + Cardinality({e \in Listed(i) : kind[e] = "dir"})

\* The bitmap marks exactly the inodes without a type as free, and the counter
\* is one more than the bitmap, as mkfs wrote it: create never refuses an
\* inode that is there, whatever was created and removed before.
InodesAccounted ==
    /\ ifree = {i \in Inodes : kind[i] = "none"}
    /\ nrFreeInodes = Cardinality(ifree) + 1

\* A listing in progress never commits a file twice, unless a failed rename
\* left it there twice: removals move entries towards the start only.
NoDuplicateListing ==
    reader.dir # 0 =>
        \A k \in Slots : k >= reader.pos =>
            files[reader.dir][k].inode \notin (reader.seen \cap reader.stable) \ torn

\* A listing misses an entry that was there all along only when removals
\* behind its position moved it there, and no more entries than removals.
SkipsAreBounded ==
    reader.dir # 0 =>
        Cardinality({k \in Slots : k < reader.pos
                        /\ files[reader.dir][k].inode \in reader.stable \ reader.seen})
            <= reader.gone

\* No directory operation leaves the block: "A directory can contain at most
\* 128 files".  The scan of the old directory in rename has no bound.
StaysInBlock == ~astray
=============================================================================
