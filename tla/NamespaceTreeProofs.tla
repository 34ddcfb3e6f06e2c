------------------------- MODULE NamespaceTreeProofs -------------------------
(***************************************************************************)
(* More proofs about Namespace, for every number of inodes and slots: the  *)
(* directories form one tree, link counts are right, and a listing that    *)
(* other operations interleave with commits no entry twice and misses no   *)
(* more entries than were removed behind it.                               *)
(***************************************************************************)
EXTENDS NamespaceProofs

\* Most steps are first-order reasoning, which is left to Zenon; the steps
\* that need arithmetic or the types of functions ask for SMT.
USE Zenon

\* Slot k of directory d.
At(d, k) == files[d][k].inode

\* Only directories have entries.
OnlyDirectories ==
    \A d \in Inodes : kind[d] # "dir" => \A k \in Slots : At(d, k) = 0

\* The root is a directory that no directory lists.
RootApart ==
    kind[Root] = "dir" /\ \A d \in Inodes, k \in Slots : At(d, k) # Root

\* The first conjunct of TreeIsWhole, without counting.
OneEntry ==
    \A i \in Inodes \ torn :
        /\ kind[i] = "none" => \A d \in Inodes, k \in Slots : At(d, k) # i
        /\ kind[i] # "none" /\ i # Root => \E d \in Inodes, k \in Slots : At(d, k) = i
        /\ \A d, e \in Inodes, j, k \in Slots :
             At(d, j) = i /\ At(e, k) = i => d = e /\ j = k

InUse == {i \in Inodes : kind[i] # "none"}

\* Reachability as a property of sets: a set of inodes in use without the root
\* has a member that is listed outside of the set.
NoIsland ==
    torn = {} =>
        \A U \in SUBSET InUse :
            U # {} /\ Root \notin U =>
                \E i \in U, d \in Inodes \ U : i \in Listed(d)

\* The types that NamespaceInv leaves out.
RestTypeOK ==
    /\ nlink \in [Inodes -> 0 .. LinkSpan - 1]
    /\ torn \subseteq Inodes
    /\ reader \in [dir : 0 .. NrInodes - 1, pos : 0 .. MaxSubfiles,
                   seen : SUBSET Inodes, stable : SUBSET Inodes,
                   gone : 0 .. MaxSubfiles]
    /\ astray \in BOOLEAN

-----------------------------------------------------------------------------
(* What the operations on a directory block do to its inode numbers.      *)

\* A directory lists the inodes of its slots.
LEMMA ListedFacts ==
    ASSUME NamespaceInv, NEW d \in Inodes
    PROVE  /\ \A i : i \in Listed(d) <=> i # 0 /\ \E k \in Slots : At(d, k) = i
           /\ Listed(d) \subseteq Inodes
           /\ \A k \in Slots : At(d, k) \in 0 .. NrInodes - 1
<1>1. \A k \in Slots : At(d, k) \in 0 .. NrInodes - 1
  BY DEF NamespaceInv, Entries, At
<1>2. \A i : i \in Listed(d) <=> i # 0 /\ \E k \in Slots : At(d, k) = i
  BY DEF Listed, At
<1> QED
  BY <1>1, <1>2, InodeFacts

\* AddEntry fills the first empty slot.
LEMMA AddEntryInodes ==
    ASSUME NEW b, IsBlock(b), NrSubs(b) < MaxSubfiles,
           NEW ino \in Inodes, NEW name \in Names
    PROVE  /\ NrSubs(b) \in Slots /\ b[NrSubs(b)].inode = 0
           /\ \A k \in Slots : AddEntry(b, ino, name)[k].inode =
                IF k = NrSubs(b) THEN ino ELSE b[k].inode
<1> DEFINE n == NrSubs(b)
<1>1. n \in Slots /\ \A k \in Slots : b[k].inode # 0 <=> k < n
  BY NoHole, SlotFacts, SMT
<1>2. b \in [Slots -> Entries]
  BY DEF IsBlock
<1>3. b[n].inode = 0
  BY <1>1, SlotFacts, SMT
<1> HIDE DEF n
<1>4. \A k \in Slots : AddEntry(b, ino, name)[k].inode = IF k = n THEN ino ELSE b[k].inode
  BY <1>1, <1>2 DEF AddEntry, n
<1> QED
  BY <1>1, <1>3, <1>4 DEF n

\* c is b without slot f: what follows moves down by one.
Without(b, c, f) ==
    \A k \in Slots : c[k].inode = IF k < f THEN b[k].inode
                                  ELSE IF k + 1 \in Slots THEN b[k + 1].inode ELSE 0

\* RemoveEntry takes out one slot of the inode.
LEMMA RemoveEntryInodes ==
    ASSUME NEW b, IsBlock(b), NEW ino, ino # 0, NEW j \in Slots, b[j].inode = ino
    PROVE  /\ EntryOf(b, ino) \in Slots /\ b[EntryOf(b, ino)].inode = ino
           /\ Without(b, RemoveEntry(b, ino), EntryOf(b, ino))
<1> DEFINE hits == {k \in 0 .. NrSubs(b) - 1 : b[k].inode = ino}
           n == NrSubs(b)
           f == EntryOf(b, ino)
           c == RemoveEntry(b, ino)
<1>1. n \in Nat /\ n <= MaxSubfiles /\ \A k \in Slots : b[k].inode # 0 <=> k < n
  BY NoHole, SlotFacts, SMT
<1>2. hits \in SUBSET Slots /\ j \in hits
  BY <1>1, SlotFacts, SMT
<1>3. f = Max(hits)
  BY <1>2 DEF EntryOf
<1>4. f \in hits
  BY <1>2, <1>3, MaxFacts
<1>5. f \in Slots /\ f \in Nat /\ f < n /\ b[f].inode = ino
  BY <1>1, <1>2, <1>4, SlotFacts
<1>6. c = [k \in Slots |-> IF k = n - 1 THEN NoEntry
                           ELSE IF k \in f .. n - 2 THEN b[k + 1] ELSE b[k]]
  <2>1. n - 1 - 1 = n - 2
    BY <1>1, SMT
  <2> QED
    BY <2>1 DEF RemoveEntry
<1> HIDE DEF n, f, c, hits
<1>7. ASSUME NEW k \in Slots
      PROVE  c[k].inode = IF k < f THEN b[k].inode
                          ELSE IF k + 1 \in Slots THEN b[k + 1].inode ELSE 0
  <2>1. k \in Nat /\ k < MaxSubfiles
    BY SlotFacts
  <2>2. CASE k = n - 1
    <3>1. c[k].inode = 0
      BY <1>6, <2>2 DEF NoEntry
    <3>2. ~(k < f)
      BY <1>1, <1>5, <2>1, <2>2, SMT
    <3>3. k + 1 \in Slots => b[k + 1].inode = 0
      BY <1>1, <2>1, <2>2, SMT
    <3> QED
      BY <3>1, <3>2, <3>3
  <2>3. CASE k \in f .. n - 2
    <3>1. ~(k < f) /\ k # n - 1 /\ k + 1 \in Slots
      BY <1>1, <1>5, <2>1, <2>3, SlotFacts, SMT
    <3> QED
      BY <1>6, <2>3, <3>1
  <2>4. CASE k # n - 1 /\ k \notin f .. n - 2
    <3>1. c[k] = b[k] /\ (k < f \/ k >= n)
      BY <1>1, <1>5, <1>6, <2>1, <2>4, SMT
    <3>2. CASE k < f
      BY <3>1, <3>2
    <3>3. CASE k >= n
      <4>1. ~(k < f) /\ b[k].inode = 0
        BY <1>1, <1>5, <2>1, <3>3, SMT
      <4>2. k + 1 \in Slots => b[k + 1].inode = 0
        BY <1>1, <2>1, <3>3, SMT
      <4> QED
        BY <3>1, <4>1, <4>2
    <3> QED
      BY <3>1, <3>2, <3>3
  <2> QED
    BY <2>2, <2>3, <2>4
<1> QED
  BY <1>5, <1>7 DEF Without, f, c

\* Taking out a slot keeps every other entry once.
LEMMA WithoutKeepsOthers ==
    ASSUME NEW b, NEW c, NEW f \in Slots, Without(b, c, f)
    PROVE  /\ \A k \in Slots : c[k].inode # 0 =>
                \E j \in Slots \ {f} : (j = k \/ j = k + 1) /\ b[j].inode = c[k].inode
           /\ \A j \in Slots \ {f} : b[j].inode # 0 =>
                \E k \in Slots : c[k].inode = b[j].inode
<1>1. \A k \in Slots : k \in Nat
  BY SlotFacts
<1>2. ASSUME NEW k \in Slots, c[k].inode # 0
      PROVE  \E j \in Slots \ {f} : /\ j = IF k < f THEN k ELSE k + 1
                                    /\ b[j].inode = c[k].inode
  BY <1>1, <1>2, SMT DEF Without
<1>3. ASSUME NEW j \in Slots \ {f}, b[j].inode # 0
      PROVE  \E k \in Slots : c[k].inode = b[j].inode
  <2>1. CASE j < f
    BY <2>1 DEF Without
  <2>2. CASE ~(j < f)
    <3>1. j - 1 \in Slots /\ ~(j - 1 < f) /\ (j - 1) + 1 = j
      BY <1>1, <2>2, SlotFacts, SMT
    <3> QED
      BY <3>1 DEF Without
  <2> QED
    BY <2>1, <2>2
<1> QED
  BY <1>2, <1>3

\* At most one slot holds i.
Once(b, i) == \A j, k \in Slots : b[j].inode = i /\ b[k].inode = i => j = k

\* An inode that is in the block once is there at most once afterwards, and not
\* at all if it was in the slot taken out.
LEMMA WithoutKeepsSingle ==
    ASSUME NEW b, NEW c, NEW f \in Slots, Without(b, c, f), NEW i, i # 0, Once(b, i)
    PROVE  /\ Once(c, i)
           /\ b[f].inode = i => \A k \in Slots : c[k].inode # i
<1>1. \A k \in Slots : k \in Nat
  BY SlotFacts
<1>2. ASSUME NEW k \in Slots, c[k].inode # 0
      PROVE  \E j \in Slots \ {f} : /\ j = IF k < f THEN k ELSE k + 1
                                    /\ b[j].inode = c[k].inode
  BY <1>1, <1>2, SMT DEF Without
<1>3. ASSUME NEW j \in Slots, NEW k \in Slots, c[j].inode = i, c[k].inode = i
      PROVE  j = k
  <2>1. (IF j < f THEN j ELSE j + 1) = (IF k < f THEN k ELSE k + 1)
    BY <1>2, <1>3 DEF Once
  <2> QED
    BY <1>1, <2>1, SMT
<1>4. ASSUME b[f].inode = i, NEW k \in Slots, c[k].inode = i PROVE FALSE
  BY <1>2, <1>4 DEF Once
<1> QED
  BY <1>3, <1>4 DEF Once

-----------------------------------------------------------------------------
(* Subtree, which the VFS walks before it moves a directory.              *)

\* Induction up to N, on a set.
LEMMA UpTo ==
    ASSUME NEW N \in Nat, NEW S, 0 \in S, \A n \in 0 .. N - 1 : n \in S => n + 1 \in S
    PROVE  \A n \in 0 .. N : n \in S
<1> SUFFICES ASSUME NEW x \in 0 .. N, x \notin S PROVE FALSE
  OBVIOUS
<1> DEFINE T == {n \in 0 .. N : n \notin S}
           m == Min(T)
<1>1. m \in T /\ \A y \in T : m <= y
  <2>1. T \in SUBSET Nat /\ T # {}
    BY SMT
  <2> HIDE DEF T
  <2> QED
    BY <2>1, MinFacts
<1> HIDE DEF m
<1>2. m \in 0 .. N /\ m \notin S /\ m # 0
  BY <1>1
<1>3. m - 1 \in 0 .. N - 1 /\ m - 1 \notin T
  BY <1>1, <1>2, SMT
<1> QED
  BY <1>2, <1>3, SMT

\* The entries of the directories of a set, and the set.
Down(S) == S \cup UNION {Listed(e) : e \in {e \in S : kind[e] = "dir"}}

Closed(S) == \A e \in S : kind[e] = "dir" => Listed(e) \subseteq S

\* Subtree(d) is the last of NrInodes + 1 levels.
LEMMA SubtreeLevels ==
    ASSUME NEW d
    PROVE  \E upto : /\ upto[0] = {d}
                     /\ \A n \in 0 .. NrInodes - 1 : upto[n + 1] = Down(upto[n])
                     /\ Subtree(d) = upto[NrInodes]
<1> DEFINE N == NrInodes
           P(m, g) == g[0] = {d} /\ \A n \in 1 .. m : g[n] = Down(g[n - 1])
           S == {m \in 0 .. N : \E g : P(m, g)}
<1>1. N \in Nat
  BY InodeFacts
<1> HIDE DEF N
<1>2. 0 \in S
  <2>1. [n \in {0} |-> {d}][0] = {d}
    OBVIOUS
  <2>2. \E g : g[0] = {d}
    BY <2>1
  <2>3. \A n \in 1 .. 0 : FALSE
    BY SMT
  <2> QED
    BY <1>1, <2>2, <2>3, SMT
<1>3. ASSUME NEW m \in 0 .. N - 1, m \in S PROVE m + 1 \in S
  <2>1. PICK g : P(m, g)
    BY <1>3
  <2> DEFINE h == [n \in 0 .. m + 1 |-> IF n = m + 1 THEN Down(g[m]) ELSE g[n]]
  <2>2. h[0] = {d}
    BY <2>1, SMT
  <2>3. ASSUME NEW n \in 1 .. m + 1 PROVE h[n] = Down(h[n - 1])
    <3>1. n - 1 \in 0 .. m + 1 /\ n - 1 # m + 1
      BY SMT
    <3>2. h[n - 1] = g[n - 1]
      BY <3>1
    <3>3. CASE n = m + 1
      <4>1. n - 1 = m
        BY <3>3, SMT
      <4> QED
        BY <3>2, <3>3, <4>1, SMT
    <3>4. CASE n # m + 1
      <4>1. n \in 1 .. m
        BY <3>4, SMT
      <4>2. h[n] = g[n]
        BY <3>4, SMT
      <4> QED
        BY <2>1, <3>2, <4>1, <4>2
    <3> QED
      BY <3>3, <3>4
  <2> HIDE DEF h
  <2>4. P(m + 1, h)
    BY <2>2, <2>3
  <2> QED
    BY <1>1, <2>4, SMT
<1>4. N \in S
  <2> HIDE DEF S
  <2>1. \A n \in 0 .. N : n \in S
    BY <1>1, <1>2, <1>3, UpTo
  <2> QED
    BY <1>1, <2>1, SMT
<1>5. PICK g : P(N, g)
  BY <1>4
<1> DEFINE Level(f) == [n \in 0 .. N |-> IF n = 0 THEN {d} ELSE Down(f[n - 1])]
           f == [n \in 0 .. N |-> g[n]]
<1>6. f = Level(f)
  <2>1. ASSUME NEW n \in 0 .. N PROVE f[n] = IF n = 0 THEN {d} ELSE Down(f[n - 1])
    <3>1. CASE n = 0
      BY <1>5, <3>1
    <3>2. CASE n # 0
      <4>1. n \in 1 .. N /\ n - 1 \in 0 .. N
        BY <1>1, <3>2, SMT
      <4>2. f[n] = g[n] /\ f[n - 1] = g[n - 1]
        BY <4>1
      <4> QED
        BY <1>5, <3>2, <4>1, <4>2
    <3> QED
      BY <3>1, <3>2
  <2> QED
    BY <2>1
<1> DEFINE u == CHOOSE v : v = Level(v)
<1>7. u = Level(u)
  BY <1>6
<1>8. Subtree(d) = u[N]
  BY DEF Subtree, Down, N
<1> HIDE DEF u
<1>9. u[0] = {d}
  BY <1>1, <1>7, SMT
<1>10. ASSUME NEW n \in 0 .. N - 1 PROVE u[n + 1] = Down(u[n])
  <2>1. n + 1 \in 0 .. N /\ n + 1 # 0 /\ (n + 1) - 1 = n
    BY <1>1, SMT
  <2> HIDE DEF Level
  <2>2. Level(u)[n + 1] = Down(u[(n + 1) - 1])
    BY <2>1 DEF Level
  <2> QED
    BY <1>7, <2>1, <2>2
<1> QED
  BY <1>8, <1>9, <1>10 DEF N

\* There are NrInodes - 1 inodes.
LEMMA InodesAreFinite == IsFiniteSet(Inodes) /\ Cardinality(Inodes) = NrInodes - 1
<1>1. NrInodes \in Nat /\ NrInodes > 1 /\ 1 \in Int /\ NrInodes - 1 \in Int
  BY NamespaceAssumption, SMT
<1>2. /\ IsFiniteSet(1 .. NrInodes - 1)
      /\ Cardinality(1 .. NrInodes - 1) =
           IF 1 > NrInodes - 1 THEN 0 ELSE NrInodes - 1 - 1 + 1
  BY <1>1, FS_Interval
<1> QED
  BY <1>1, <1>2, SMT DEF Inodes

\* A set that is its own Down is closed, and a set that is closed is its own
\* Down.
LEMMA DownFacts ==
    ASSUME NamespaceInv, NEW S \in SUBSET Inodes
    PROVE  /\ S \subseteq Down(S) /\ Down(S) \in SUBSET Inodes
           /\ Down(S) = S => Closed(S)
           /\ \A C : S \subseteq C /\ Closed(C) => Down(S) \subseteq C
BY ListedFacts DEF Down, Closed

\* What Subtree(d) is: the least set with d that holds all entries of its
\* directories.  Of NrInodes + 1 growing levels of inodes two are equal.
LEMMA SubtreeIsLeastClosed ==
    ASSUME NamespaceInv, NEW d \in Inodes
    PROVE  /\ d \in Subtree(d) /\ Subtree(d) \in SUBSET Inodes
           /\ Closed(Subtree(d))
           /\ \A C : d \in C /\ Closed(C) => Subtree(d) \subseteq C
<1> DEFINE N == NrInodes
<1>1. N \in Nat
  BY InodeFacts
<1>2. PICK u : /\ u[0] = {d}
               /\ \A n \in 0 .. N - 1 : u[n + 1] = Down(u[n])
               /\ Subtree(d) = u[N]
  BY SubtreeLevels
<1> HIDE DEF N
<1>3. \A n \in 0 .. N : u[n] \in SUBSET Inodes /\ d \in u[n]
  <2> DEFINE S == {n \in 0 .. N : u[n] \in SUBSET Inodes /\ d \in u[n]}
  <2>1. 0 \in S
    BY <1>1, <1>2, SMT
  <2>2. \A n \in 0 .. N - 1 : n \in S => n + 1 \in S
    BY <1>1, <1>2, DownFacts, SMT
  <2> HIDE DEF S
  <2>3. \A n \in 0 .. N : n \in S
    BY <1>1, <2>1, <2>2, UpTo
  <2> QED
    BY <2>3 DEF S
<1>4. ASSUME NEW C, d \in C, Closed(C) PROVE u[N] \subseteq C
  <2> DEFINE S == {n \in 0 .. N : u[n] \subseteq C}
  <2>1. 0 \in S
    BY <1>1, <1>2, <1>4, SMT
  <2>2. \A n \in 0 .. N - 1 : n \in S => n + 1 \in S
    BY <1>1, <1>2, <1>3, <1>4, DownFacts, SMT
  <2> HIDE DEF S
  <2>3. \A n \in 0 .. N : n \in S
    BY <1>1, <2>1, <2>2, UpTo
  <2> QED
    BY <1>1, <2>3, SMT DEF S
<1>5. Down(u[N]) = u[N]
  <2> SUFFICES ASSUME Down(u[N]) # u[N] PROVE FALSE
    OBVIOUS
  <2>1. ASSUME NEW m \in 0 .. N PROVE Down(u[m]) # u[m]
    <3> SUFFICES ASSUME Down(u[m]) = u[m] PROVE FALSE
      OBVIOUS
    <3> DEFINE S == {n \in 0 .. N - m : u[m + n] = u[m]}
    <3>1. N - m \in Nat /\ m \in Nat
      BY <1>1, SMT
    <3>2. 0 \in S
      BY <3>1, SMT
    <3>3. ASSUME NEW n \in 0 .. (N - m) - 1, n \in S PROVE n + 1 \in S
      <4>1. m + n \in 0 .. N - 1 /\ m + (n + 1) = (m + n) + 1 /\ n + 1 \in 0 .. N - m
        BY <1>1, <3>1, SMT
      <4>2. u[(m + n) + 1] = Down(u[m + n])
        BY <1>2, <4>1
      <4> QED
        BY <3>3, <4>1, <4>2
    <3> HIDE DEF S
    <3>4. \A n \in 0 .. N - m : n \in S
      BY <3>1, <3>2, <3>3, UpTo
    <3>5. N - m \in S /\ m + (N - m) = N
      BY <1>1, <3>1, <3>4, SMT
    <3>6. u[N] = u[m]
      BY <3>5 DEF S
    <3> QED
      BY <3>6
  <2> DEFINE S == {n \in 0 .. N : Cardinality(u[n]) >= n + 1}
  <2>2. \A n \in 0 .. N : IsFiniteSet(u[n]) /\ Cardinality(u[n]) \in Nat
                          /\ Cardinality(u[n]) <= N - 1
    BY <1>3, InodesAreFinite, FS_Subset, FS_CardinalityType DEF N
  <2>3. 0 \in S
    BY <1>1, <1>2, FS_Singleton, SMT
  <2>4. ASSUME NEW n \in 0 .. N - 1, n \in S PROVE n + 1 \in S
    <3>1. n \in 0 .. N /\ n + 1 \in 0 .. N
      BY <1>1, SMT
    <3>2. u[n + 1] = Down(u[n]) /\ u[n] \in SUBSET u[n + 1] /\ u[n] # u[n + 1]
      BY <1>2, <1>3, <2>1, <3>1, DownFacts, SMT
    <3>3. Cardinality(u[n]) <= Cardinality(u[n + 1]) /\ Cardinality(u[n]) # Cardinality(u[n + 1])
      BY <2>2, <3>1, <3>2, FS_Subset
    <3> QED
      BY <2>2, <2>4, <3>1, <3>3, SMT
  <2> HIDE DEF S
  <2>5. \A n \in 0 .. N : n \in S
    BY <1>1, <2>3, <2>4, UpTo
  <2>6. Cardinality(u[N]) >= N + 1
    BY <1>1, <2>5, SMT DEF S
  <2> QED
    BY <1>1, <2>2, <2>6, SMT
<1> QED
  <2>1. u[N] \in SUBSET Inodes /\ d \in u[N]
    BY <1>1, <1>3, SMT
  <2> QED
    BY <1>2, <1>4, <1>5, <2>1, DownFacts

-----------------------------------------------------------------------------
(* What each operation does, slot by slot.                                *)

Adds(d, i, n) ==
    At(d, n) = 0 /\ \A k \in Slots : At(d, k)' = IF k = n THEN i ELSE At(d, k)

Drops(d, i, f) == At(d, f) = i /\ Without(files[d], files'[d], f)

Same(S) == \A e \in Inodes \ S, k \in Slots : At(e, k)' = At(e, k)

\* A new inode i in slot n of d.
CreateShape(d, i, n, t) ==
    /\ kind[d] = "dir" /\ kind[i] = "none"
    /\ kind' = [kind EXCEPT ![i] = t]
    /\ nlink' = [nlink EXCEPT ![i] = IF t = "dir" THEN 2 ELSE 1,
                              ![d] = IF t = "dir" THEN IncLink(@) ELSE @]
    /\ Adds(d, i, n) /\ Same({d})
    /\ torn' = torn /\ reader' = reader /\ astray' = astray

\* The inode i, in slot f of d, goes.
UnlinkShape(d, i, f) ==
    /\ kind[d] = "dir" /\ kind[i] # "none" /\ d # i
    /\ \A k \in Slots : At(i, k) = 0
    /\ kind' = [kind EXCEPT ![i] = "none"]
    /\ nlink' = [nlink EXCEPT ![i] = DecLink(@),
                              ![d] = IF kind[i] = "dir" THEN DecLink(@) ELSE @]
    /\ Drops(d, i, f) /\ Same({d})
    /\ f = EntryOf(files[d], i)
    /\ reader' = IF reader.dir = i THEN NoReader ELSE AfterRemoval(reader, d, i)
    /\ torn' = torn /\ astray' = FALSE

\* The inode i, in slot f of from, goes to slot n of to.
MoveShape(from, i, to, f, n) ==
    /\ kind[from] = "dir" /\ kind[to] = "dir" /\ from # to
    /\ kind[i] = "dir" => to \notin Subtree(i)
    /\ kind' = kind
    /\ nlink' = [nlink EXCEPT ![to] = IF kind[i] = "dir" THEN IncLink(@) ELSE @,
                              ![from] = IF kind[i] = "dir" THEN DecLink(@) ELSE @]
    /\ Adds(to, i, n) /\ Drops(from, i, f) /\ Same({from, to})
    /\ f = EntryOf(files[from], i)
    /\ reader' = AfterRemoval(reader, from, i)
    /\ torn' = torn /\ astray' = astray

\* The inode i, in slot f of from, is in slot n of to as well.
TornShape(from, i, to, f, n) ==
    /\ kind[from] = "dir" /\ kind[to] = "dir" /\ from # to
    /\ kind' = kind
    /\ nlink' = [nlink EXCEPT ![to] = IF kind[i] = "dir" THEN IncLink(@) ELSE @]
    /\ Adds(to, i, n) /\ At(from, f) = i /\ Same({to})
    /\ torn' = torn \cup {i}
    /\ reader' = reader /\ astray' = astray

\* ouichefs_create and ouichefs_mkdir.
LEMMA CreateHasShape ==
    ASSUME NamespaceInv, OnlyDirectories, NEW d \in Inodes, NEW name \in Names,
           NEW t \in {"file", "dir"}, Create(d, name, t)
    PROVE  \E i \in Inodes, n \in Slots : CreateShape(d, i, n, t)
<1> DEFINE i == Min(ifree)
           n == NrSubs(files[d])
           b == AddEntry(files[d], i, name)
<1>1. i \in Inodes /\ kind[i] = "none"
  BY TakeInode DEF Create
<1>2. /\ kind[d] = "dir"
      /\ files[d][MaxSubfiles - 1].inode = 0
      /\ files' = [files EXCEPT ![d] = b, ![i] = EmptyBlock]
      /\ kind' = [kind EXCEPT ![i] = t]
      /\ nlink' = [nlink EXCEPT ![i] = IF t = "dir" THEN 2 ELSE 1,
                                ![d] = IF t = "dir" THEN IncLink(@) ELSE @]
      /\ torn' = torn /\ reader' = reader /\ astray' = astray
  BY DEF Create
<1> HIDE DEF i
<1>3. IsBlock(files[d])
  BY DEF NamespaceInv
<1>4. NrSubs(files[d]) < MaxSubfiles
  <2>1. MaxSubfiles - 1 \in Slots
    BY SlotFacts, SMT
  <2>2. ~(MaxSubfiles - 1 < NrSubs(files[d]))
    BY <1>2, <1>3, <2>1, NoHole
  <2>3. NrSubs(files[d]) \in 0 .. MaxSubfiles
    BY <1>3, NoHole
  <2> QED
    BY <2>2, <2>3, SlotFacts, SMT
<1>5. /\ n \in Slots /\ files[d][n].inode = 0
      /\ \A k \in Slots : b[k].inode = IF k = n THEN i ELSE files[d][k].inode
  BY <1>1, <1>3, <1>4, AddEntryInodes, SMT
<1> HIDE DEF b, n
<1>6. files'[d] = b /\ files'[i] = EmptyBlock
      /\ \A e \in Inodes \ {d, i} : files'[e] = files[e]
  BY <1>1, <1>2 DEF NamespaceInv
<1>7. Adds(d, i, n)
  BY <1>5, <1>6 DEF Adds, At
<1>8. \A k \in Slots : EmptyBlock[k].inode = 0 /\ At(i, k) = 0
  BY <1>1 DEF OnlyDirectories, EmptyBlock, NoEntry
<1>9. Same({d})
  BY <1>6, <1>8 DEF Same, At
<1>10. CreateShape(d, i, n, t)
  BY <1>1, <1>2, <1>7, <1>9 DEF CreateShape
<1> QED
  BY <1>1, <1>5, <1>10

\* ouichefs_unlink and ouichefs_rmdir: an entry that the VFS found is found
\* again, and a directory whose first slot is empty is empty.
LEMMA UnlinkHasShape ==
    ASSUME NamespaceInv, OnlyDirectories, NEW d \in Inodes, NEW i \in Inodes,
           Unlink(d, i) \/ Rmdir(d, i)
    PROVE  \E f \in Slots : UnlinkShape(d, i, f)
<1> DEFINE f == EntryOf(files[d], i)
           c == RemoveEntry(files[d], i)
<1>1. /\ kind[d] = "dir" /\ i \in Listed(d) /\ kind[i] # "none"
      /\ kind[i] = "file" \/ files[i][0].inode = 0
      /\ UnlinkInode(d, i)
  BY DEF Unlink, Rmdir
<1>2. \A k \in Slots : At(i, k) = 0
  <2>1. CASE kind[i] = "file"
    BY <2>1 DEF OnlyDirectories
  <2>2. CASE files[i][0].inode = 0
    <3>1. 0 \in Slots /\ IsBlock(files[i])
      BY SlotFacts DEF NamespaceInv
    <3>2. ~(0 < NrSubs(files[i])) /\ NrSubs(files[i]) \in 0 .. MaxSubfiles
      BY <2>2, <3>1, NoHole
    <3>3. \A k \in Slots : ~(k < NrSubs(files[i]))
      BY <3>2, SlotFacts, SMT
    <3> QED
      BY <3>1, <3>3, NoHole DEF At
  <2> QED
    BY <1>1, <2>1, <2>2
<1>3. PICK j \in Slots : At(d, j) = i
  BY <1>1, ListedFacts
<1>4. d # i
  BY <1>2, <1>3, InodeFacts
<1>5. f \in Slots /\ files[d][f].inode = i /\ Without(files[d], c, f)
  <2>1. IsBlock(files[d]) /\ i # 0 /\ files[d][j].inode = i
    BY <1>3, InodeFacts DEF NamespaceInv, At
  <2> QED
    BY <2>1, RemoveEntryInodes
<1> HIDE DEF f, c
<1>6. /\ files' = [files EXCEPT ![d] = c, ![i] = EmptyBlock]
      /\ kind' = [kind EXCEPT ![i] = "none"]
      /\ nlink' = [nlink EXCEPT ![i] = DecLink(@),
                                ![d] = IF kind[i] = "dir" THEN DecLink(@) ELSE @]
      /\ astray' = (f = -1)
      /\ reader' = IF reader.dir = i THEN NoReader ELSE AfterRemoval(reader, d, i)
      /\ torn' = torn
  BY <1>1 DEF UnlinkInode, f, c
<1>7. files'[d] = c /\ files'[i] = EmptyBlock
      /\ \A e \in Inodes \ {d, i} : files'[e] = files[e]
  BY <1>4, <1>6 DEF NamespaceInv
<1>8. Drops(d, i, f)
  BY <1>5, <1>7 DEF Drops, At
<1>9. Same({d})
  BY <1>2, <1>7, SMT DEF Same, At, EmptyBlock, NoEntry
<1>10. astray' = FALSE
  <2>1. f # -1
    BY <1>5, SlotFacts, SMT
  <2>2. astray' = (f = -1)
    BY <1>6
  <2>3. (f = -1) = FALSE
    BY <2>1
  <2> QED
    BY <2>2, <2>3
<1>11. f = EntryOf(files[d], i)
  BY DEF f
<1>12. UnlinkShape(d, i, f)
  BY <1>1, <1>2, <1>4, <1>6, <1>8, <1>9, <1>10, <1>11 DEF UnlinkShape
<1> QED
  BY <1>5, <1>12

\* ouichefs_rename to another directory, complete or not.
LEMMA MoveHasShape ==
    ASSUME NamespaceInv, NEW from \in Inodes, NEW i \in Inodes, NEW to \in Inodes,
           NEW new \in Names
    PROVE  /\ Rename(from, i, to, new) =>
                \E f, n \in Slots : MoveShape(from, i, to, f, n)
           /\ RenameTorn(from, i, to, new) =>
                \E f, n \in Slots : TornShape(from, i, to, f, n)
<1> SUFFICES ASSUME CanMove(from, i, to, new)
             PROVE  /\ Rename(from, i, to, new) =>
                         \E f, n \in Slots : MoveShape(from, i, to, f, n)
                    /\ RenameTorn(from, i, to, new) =>
                         \E f, n \in Slots : TornShape(from, i, to, f, n)
  BY DEF Rename, RenameTorn
<1> DEFINE f == EntryOf(files[from], i)
           c == RemoveEntry(files[from], i)
           n == NrSubs(files[to])
           b == AddEntry(files[to], i, new)
<1>1. /\ kind[from] = "dir" /\ kind[to] = "dir" /\ from # to
      /\ i \in Listed(from)
      /\ kind[i] = "dir" => to \notin Subtree(i)
      /\ NrSubs(files[to]) < MaxSubfiles
  BY DEF CanMove
<1>2. IsBlock(files[from]) /\ IsBlock(files[to])
  BY DEF NamespaceInv
<1>3. IsBlock(files[from]) /\ i # 0
  BY InodeFacts DEF NamespaceInv
<1>4. PICK j \in Slots : files[from][j].inode = i
  BY <1>1, ListedFacts DEF At
<1>5. f \in Slots /\ files[from][f].inode = i /\ Without(files[from], c, f)
  BY <1>3, <1>4, RemoveEntryInodes
<1>6. /\ n \in Slots /\ files[to][n].inode = 0
      /\ \A k \in Slots : b[k].inode = IF k = n THEN i ELSE files[to][k].inode
  BY <1>1, <1>2, AddEntryInodes, SMT
<1>7. f = EntryOf(files[from], i)
  OBVIOUS
<1>8. ASSUME Rename(from, i, to, new) PROVE MoveShape(from, i, to, f, n)
  <2>1. files' = [files EXCEPT ![to] = b, ![from] = c]
    BY <1>8 DEF Rename
  <2> HIDE DEF b, c, f, n
  <2>2. files'[to] = b /\ files'[from] = c
        /\ \A e \in Inodes \ {from, to} : files'[e] = files[e]
    BY <1>1, <2>1 DEF NamespaceInv
  <2>3. Adds(to, i, n) /\ Drops(from, i, f) /\ Same({from, to})
    BY <1>5, <1>6, <2>2 DEF Adds, Drops, Same, At
  <2> QED
    BY <1>1, <1>7, <1>8, <2>3 DEF MoveShape, Rename
<1>9. ASSUME RenameTorn(from, i, to, new) PROVE TornShape(from, i, to, f, n)
  <2>1. files' = [files EXCEPT ![to] = b]
    BY <1>9 DEF RenameTorn
  <2> HIDE DEF b, c, f, n
  <2>2. files'[to] = b /\ \A e \in Inodes \ {to} : files'[e] = files[e]
    BY <2>1 DEF NamespaceInv
  <2>3. Adds(to, i, n) /\ At(from, f) = i /\ Same({to})
    BY <1>5, <1>6, <2>2 DEF Adds, Same, At
  <2> QED
    BY <1>1, <1>9, <2>3 DEF TornShape, RenameTorn
<1> QED
  BY <1>5, <1>6, <1>8, <1>9

-----------------------------------------------------------------------------
(* The tree.                                                              *)

\* A slot that is dropped, and the entries that stay.
LEMMA DropFacts ==
    ASSUME NamespaceInv, NEW d \in Inodes, NEW i \in Inodes, NEW f \in Slots,
           Drops(d, i, f)
    PROVE  /\ At(d, f) = i
           /\ \A k \in Slots : At(d, k)' # 0 =>
                \E j \in Slots \ {f} : (j = k \/ j = k + 1) /\ At(d, j) = At(d, k)'
           /\ \A j \in Slots \ {f} : At(d, j) # 0 => \E k \in Slots : At(d, k)' = At(d, j)
<1>1. At(d, f) = i /\ Without(files[d], files'[d], f)
  BY DEF Drops
<1> DEFINE b == files[d]
           c == files'[d]
<1>2. \A k \in Slots : At(d, k) = b[k].inode /\ At(d, k)' = c[k].inode
  BY DEF At
<1>3. Without(b, c, f)
  BY <1>1
<1> HIDE DEF b, c
<1>4. /\ \A k \in Slots : c[k].inode # 0 =>
           \E j \in Slots \ {f} : (j = k \/ j = k + 1) /\ b[j].inode = c[k].inode
      /\ \A j \in Slots \ {f} : b[j].inode # 0 =>
           \E k \in Slots : c[k].inode = b[j].inode
  BY <1>3, WithoutKeepsOthers, SMT
<1>5. \A k \in Slots : At(d, k)' # 0 =>
        \E j \in Slots \ {f} : (j = k \/ j = k + 1) /\ At(d, j) = At(d, k)'
  BY <1>2, <1>4, SMT
<1>6. \A j \in Slots \ {f} : At(d, j) # 0 => \E k \in Slots : At(d, k)' = At(d, j)
  BY <1>2, <1>4, SMT
<1> QED
  BY <1>1, <1>5, <1>6

\* An inode that has one slot in the directory keeps it, or loses it.
LEMMA DropKeepsSingle ==
    ASSUME NEW d \in Inodes, NEW i \in Inodes, NEW f \in Slots,
           Drops(d, i, f), NEW x \in Inodes,
           \A j, k \in Slots : At(d, j) = x /\ At(d, k) = x => j = k
    PROVE  /\ \A j, k \in Slots : At(d, j)' = x /\ At(d, k)' = x => j = k
           /\ x = i => \A k \in Slots : At(d, k)' # x
<1> DEFINE b == files[d]
           c == files'[d]
<1>1. \A k \in Slots : At(d, k) = b[k].inode /\ At(d, k)' = c[k].inode
  BY DEF At
<1>2. b[f].inode = i
  BY DEF Drops, At
<1>3. Without(b, c, f)
  BY DEF Drops
<1>4. x # 0
  BY InodeFacts
<1> HIDE DEF b, c
<1>5. Once(b, x)
  BY <1>1 DEF Once
<1>6. Once(c, x) /\ (b[f].inode = x => \A k \in Slots : c[k].inode # x)
  BY <1>3, <1>4, <1>5, WithoutKeepsSingle
<1> QED
  BY <1>1, <1>2, <1>6 DEF Once

\* What the tree needs of every step.
Tree == NamespaceInv /\ OnlyDirectories /\ RootApart /\ OneEntry

\* A new inode is in one slot, and the others stay where they are.
LEMMA CreateKeepsTree ==
    ASSUME Tree, NEW d \in Inodes, NEW i \in Inodes, NEW n \in Slots,
           NEW t \in {"file", "dir"}, CreateShape(d, i, n, t)
    PROVE  OnlyDirectories' /\ RootApart' /\ OneEntry'
<1>1. /\ kind[d] = "dir" /\ kind[i] = "none" /\ d # i /\ i # Root
      /\ \A e \in Inodes : kind'[e] = IF e = i THEN t ELSE kind[e]
      /\ torn' = torn
  BY DEF Tree, RootApart, NamespaceInv, CreateShape
<1>2. \A e \in Inodes, k \in Slots :
        At(e, k)' = IF e = d /\ k = n THEN i ELSE At(e, k)
  BY DEF CreateShape, Adds, Same
<1>3. At(d, n) = 0
  BY DEF CreateShape, Adds
<1>4. OnlyDirectories'
  <2>1. \A e \in Inodes : kind'[e] # "dir" => \A k \in Slots : At(e, k)' = 0
    BY <1>1, <1>2 DEF Tree, OnlyDirectories
  <2> QED
    BY <2>1 DEF OnlyDirectories
<1>5. RootApart'
  <2>1. kind'[Root] = "dir" /\ \A e \in Inodes, k \in Slots : At(e, k)' # Root
    BY <1>1, <1>2, InodeFacts, SMT DEF Tree, RootApart
  <2> QED
    BY <2>1 DEF RootApart
<1>6. OneEntry'
  <2>1. ASSUME NEW x \in Inodes \ torn, x # i
        PROVE  \A e \in Inodes, k \in Slots : At(e, k)' = x <=> At(e, k) = x
    BY <1>2, <1>3, <2>1, InodeFacts
  <2>2. ASSUME i \notin torn
        PROVE  \A e \in Inodes, k \in Slots : At(e, k)' = i <=> e = d /\ k = n
    BY <1>1, <1>2, <2>2, SMT DEF Tree, OneEntry
  <2>3. \A x \in Inodes \ torn :
          /\ kind'[x] = "none" => \A e \in Inodes, k \in Slots : At(e, k)' # x
          /\ kind'[x] # "none" /\ x # Root => \E e \in Inodes, k \in Slots : At(e, k)' = x
          /\ \A c, e \in Inodes, j, k \in Slots :
               At(c, j)' = x /\ At(e, k)' = x => c = e /\ j = k
    <3> SUFFICES ASSUME NEW x \in Inodes \ torn
                 PROVE  /\ kind'[x] = "none" => \A e \in Inodes, k \in Slots : At(e, k)' # x
                        /\ kind'[x] # "none" /\ x # Root =>
                             \E e \in Inodes, k \in Slots : At(e, k)' = x
                        /\ \A c, e \in Inodes, j, k \in Slots :
                             At(c, j)' = x /\ At(e, k)' = x => c = e /\ j = k
      OBVIOUS
    <3>1. CASE x = i
      BY <1>1, <2>2, <3>1
    <3>2. CASE x # i
      BY <1>1, <2>1, <3>2, SMT DEF Tree, OneEntry
    <3> QED
      BY <3>1, <3>2
  <2> QED
    BY <1>1, <2>3 DEF OneEntry
<1> QED
  BY <1>4, <1>5, <1>6

\* OneEntry for one inode, after a step.
OneEntryAfter(x) ==
    /\ kind'[x] = "none" => \A e \in Inodes, k \in Slots : At(e, k)' # x
    /\ kind'[x] # "none" /\ x # Root => \E e \in Inodes, k \in Slots : At(e, k)' = x
    /\ \A c, e \in Inodes, j, k \in Slots :
         At(c, j)' = x /\ At(e, k)' = x => c = e /\ j = k

\* The entry of a removed inode goes, and the others stay, each in one slot.
LEMMA UnlinkKeepsTree ==
    ASSUME Tree, NEW d \in Inodes, NEW i \in Inodes, NEW f \in Slots,
           UnlinkShape(d, i, f)
    PROVE  OnlyDirectories' /\ RootApart' /\ OneEntry'
<1>1. /\ kind[d] = "dir" /\ kind[i] # "none" /\ d # i
      /\ \A k \in Slots : At(i, k) = 0
      /\ \A e \in Inodes : kind'[e] = IF e = i THEN "none" ELSE kind[e]
      /\ torn' = torn
  BY DEF Tree, NamespaceInv, UnlinkShape
<1>2. \A e \in Inodes \ {d}, k \in Slots : At(e, k)' = At(e, k)
  BY DEF UnlinkShape, Same
<1>3. /\ At(d, f) = i
      /\ \A k \in Slots : At(d, k)' # 0 => \E j \in Slots \ {f} : At(d, j) = At(d, k)'
      /\ \A j \in Slots \ {f} : At(d, j) # 0 => \E k \in Slots : At(d, k)' = At(d, j)
  BY DropFacts, SMT DEF UnlinkShape, Tree
<1>4. ASSUME NEW x \in Inodes,
             \A j, k \in Slots : At(d, j) = x /\ At(d, k) = x => j = k
      PROVE  /\ \A j, k \in Slots : At(d, j)' = x /\ At(d, k)' = x => j = k
             /\ x = i => \A k \in Slots : At(d, k)' # x
  BY <1>4, DropKeepsSingle DEF UnlinkShape
<1>5. OnlyDirectories'
  <2>1. \A e \in Inodes : kind'[e] # "dir" => \A k \in Slots : At(e, k)' = 0
    BY <1>1, <1>2 DEF Tree, OnlyDirectories
  <2> QED
    BY <2>1 DEF OnlyDirectories
<1>6. RootApart'
  <2>1. kind'[Root] = "dir" /\ \A e \in Inodes, k \in Slots : At(e, k)' # Root
    BY <1>1, <1>2, <1>3, InodeFacts, SMT DEF Tree, RootApart
  <2> QED
    BY <2>1 DEF RootApart
<1>7. ASSUME NEW x \in Inodes \ torn PROVE OneEntryAfter(x)
  <2>1. \A c, e \in Inodes, j, k \in Slots : At(c, j) = x /\ At(e, k) = x => c = e /\ j = k
    BY DEF Tree, OneEntry
  <2>2. x # 0
    BY InodeFacts
  <2>3. ASSUME NEW e \in Inodes, NEW k \in Slots, At(e, k)' = x
        PROVE  \E j \in Slots : At(e, j) = x
    BY <1>2, <1>3, <2>2, <2>3
  <2>4. ASSUME NEW c \in Inodes, NEW e \in Inodes, NEW j \in Slots, NEW k \in Slots,
               At(c, j)' = x, At(e, k)' = x
        PROVE  c = e /\ j = k
    <3>1. c = e
      BY <2>1, <2>3, <2>4, SMT
    <3>2. CASE c = d
      BY <1>4, <2>1, <2>4, <3>1, <3>2, SMT
    <3>3. CASE c # d
      BY <1>2, <2>1, <2>4, <3>1, <3>3, SMT
    <3> QED
      BY <3>1, <3>2, <3>3
  <2>5. CASE x = i
    <3>1. ASSUME NEW e \in Inodes, NEW k \in Slots, At(e, k)' = x PROVE FALSE
      <4>1. e = d
        BY <1>3, <2>1, <2>3, <2>5, <3>1, SMT
      <4> QED
        BY <1>4, <2>1, <2>5, <3>1, <4>1, SMT
    <3> QED
      BY <1>1, <2>4, <2>5, <3>1 DEF OneEntryAfter
  <2>6. CASE x # i
    <3>1. kind'[x] = "none" => \A e \in Inodes, k \in Slots : At(e, k)' # x
      BY <1>1, <2>3, <2>6, SMT DEF Tree, OneEntry
    <3>2. ASSUME kind'[x] # "none", x # Root
          PROVE  \E e \in Inodes, k \in Slots : At(e, k)' = x
      <4>1. PICK e \in Inodes, k \in Slots : At(e, k) = x
        BY <1>1, <2>6, <3>2 DEF Tree, OneEntry
      <4> QED
        BY <1>2, <1>3, <2>2, <2>6, <4>1
    <3> QED
      BY <2>4, <3>1, <3>2 DEF OneEntryAfter
  <2> QED
    BY <2>5, <2>6
<1>8. OneEntry'
  BY <1>1, <1>7 DEF OneEntry, OneEntryAfter
<1> QED
  BY <1>5, <1>6, <1>8

\* An inode that moves leaves its slot for the one of its new directory.
LEMMA MoveKeepsTree ==
    ASSUME Tree, NEW from \in Inodes, NEW i \in Inodes, NEW to \in Inodes,
           NEW f \in Slots, NEW n \in Slots, MoveShape(from, i, to, f, n)
    PROVE  OnlyDirectories' /\ RootApart' /\ OneEntry'
<1>1. /\ kind[from] = "dir" /\ kind[to] = "dir" /\ from # to
      /\ kind' = kind /\ torn' = torn
  BY DEF MoveShape
<1>2. \A e \in Inodes \ {from, to}, k \in Slots : At(e, k)' = At(e, k)
  BY DEF MoveShape, Same
<1>3. At(to, n) = 0 /\ \A k \in Slots : At(to, k)' = IF k = n THEN i ELSE At(to, k)
  BY DEF MoveShape, Adds
<1>4. /\ At(from, f) = i
      /\ \A k \in Slots : At(from, k)' # 0 => \E j \in Slots \ {f} : At(from, j) = At(from, k)'
      /\ \A j \in Slots \ {f} : At(from, j) # 0 => \E k \in Slots : At(from, k)' = At(from, j)
  BY DropFacts, SMT DEF MoveShape, Tree
<1>5. ASSUME NEW x \in Inodes,
             \A j, k \in Slots : At(from, j) = x /\ At(from, k) = x => j = k
      PROVE  /\ \A j, k \in Slots : At(from, j)' = x /\ At(from, k)' = x => j = k
             /\ x = i => \A k \in Slots : At(from, k)' # x
  BY <1>5, DropKeepsSingle DEF MoveShape
<1>6. OnlyDirectories'
  <2>1. \A e \in Inodes : kind'[e] # "dir" => \A k \in Slots : At(e, k)' = 0
    BY <1>1, <1>2, SMT DEF Tree, OnlyDirectories
  <2> QED
    BY <2>1 DEF OnlyDirectories
<1>7. RootApart'
  <2>1. i # Root
    BY <1>4 DEF Tree, RootApart
  <2>2. kind'[Root] = "dir" /\ \A e \in Inodes, k \in Slots : At(e, k)' # Root
    BY <1>1, <1>2, <1>3, <1>4, <2>1, InodeFacts, SMT DEF Tree, RootApart
  <2> QED
    BY <2>2 DEF RootApart
<1>8. ASSUME NEW x \in Inodes \ torn PROVE OneEntryAfter(x)
  <2>1. \A c, e \in Inodes, j, k \in Slots : At(c, j) = x /\ At(e, k) = x => c = e /\ j = k
    BY DEF Tree, OneEntry
  <2>2. x # 0
    BY InodeFacts
  <2>3. CASE x = i
    <3>1. kind[x] # "none"
      BY <1>4, <2>3 DEF Tree, OneEntry
    <3>2. ASSUME NEW e \in Inodes, NEW k \in Slots, At(e, k)' = x
          PROVE  e = to /\ k = n
      <4>1. CASE e = from
        BY <1>5, <2>1, <2>3, <3>2, <4>1, SMT
      <4>2. CASE e = to
        BY <1>1, <1>3, <1>4, <2>1, <2>3, <3>2, <4>2, SMT
      <4>3. CASE e \notin {from, to}
        BY <1>2, <1>4, <2>1, <2>3, <3>2, <4>3, SMT
      <4> QED
        BY <4>1, <4>2, <4>3
    <3>3. At(to, n)' = x
      BY <1>3, <2>3
    <3> QED
      BY <1>1, <3>1, <3>2, <3>3 DEF OneEntryAfter
  <2>4. CASE x # i
    <3>1. ASSUME NEW e \in Inodes, NEW k \in Slots, At(e, k)' = x
          PROVE  \E j \in Slots : At(e, j) = x
      BY <1>2, <1>3, <1>4, <2>2, <2>4, <3>1
    <3>2. ASSUME NEW c \in Inodes, NEW e \in Inodes, NEW j \in Slots, NEW k \in Slots,
                 At(c, j)' = x, At(e, k)' = x
          PROVE  c = e /\ j = k
      <4>1. c = e
        BY <2>1, <3>1, <3>2, SMT
      <4>2. CASE c = from
        BY <1>5, <2>1, <3>2, <4>1, <4>2, SMT
      <4>3. CASE c = to
        BY <1>3, <2>1, <2>4, <3>2, <4>1, <4>3, SMT
      <4>4. CASE c \notin {from, to}
        BY <1>2, <2>1, <3>2, <4>1, <4>4, SMT
      <4> QED
        BY <4>1, <4>2, <4>3, <4>4
    <3>3. kind'[x] = "none" => \A e \in Inodes, k \in Slots : At(e, k)' # x
      BY <1>1, <3>1, SMT DEF Tree, OneEntry
    <3>4. ASSUME kind'[x] # "none", x # Root
          PROVE  \E e \in Inodes, k \in Slots : At(e, k)' = x
      <4>1. PICK e \in Inodes, k \in Slots : At(e, k) = x
        BY <1>1, <3>4 DEF Tree, OneEntry
      <4> QED
        BY <1>2, <1>3, <1>4, <2>2, <2>4, <4>1, SMT
    <3> QED
      BY <3>2, <3>3, <3>4 DEF OneEntryAfter
  <2> QED
    BY <2>3, <2>4
<1>9. OneEntry'
  BY <1>1, <1>8 DEF OneEntry, OneEntryAfter
<1> QED
  BY <1>6, <1>7, <1>9

\* A rename that failed half way concerns only the inode it leaves torn.
LEMMA TornKeepsTree ==
    ASSUME Tree, NEW from \in Inodes, NEW i \in Inodes, NEW to \in Inodes,
           NEW f \in Slots, NEW n \in Slots, TornShape(from, i, to, f, n)
    PROVE  OnlyDirectories' /\ RootApart' /\ OneEntry'
<1>1. kind[to] = "dir" /\ kind' = kind /\ torn' = torn \cup {i} /\ At(from, f) = i
  BY DEF TornShape
<1>2. \A e \in Inodes, k \in Slots :
        At(e, k)' = IF e = to /\ k = n THEN i ELSE At(e, k)
  BY DEF TornShape, Adds, Same
<1>3. At(to, n) = 0
  BY DEF TornShape, Adds
<1>4. OnlyDirectories'
  <2>1. \A e \in Inodes : kind'[e] # "dir" => \A k \in Slots : At(e, k)' = 0
    BY <1>1, <1>2, SMT DEF Tree, OnlyDirectories
  <2> QED
    BY <2>1 DEF OnlyDirectories
<1>5. RootApart'
  <2>1. i # Root
    BY <1>1 DEF Tree, RootApart
  <2>2. kind'[Root] = "dir" /\ \A e \in Inodes, k \in Slots : At(e, k)' # Root
    BY <1>1, <1>2, <2>1 DEF Tree, RootApart
  <2> QED
    BY <2>2 DEF RootApart
<1>6. ASSUME NEW x \in Inodes \ torn' PROVE OneEntryAfter(x)
  <2>1. \A e \in Inodes, k \in Slots : At(e, k)' = x <=> At(e, k) = x
    BY <1>1, <1>2, <1>3, InodeFacts
  <2> QED
    BY <1>1, <2>1, SMT DEF Tree, OneEntry, OneEntryAfter
<1>7. OneEntry'
  BY <1>6 DEF OneEntry, OneEntryAfter
<1> QED
  BY <1>4, <1>5, <1>7

-----------------------------------------------------------------------------
(* What each operation does to the sets of entries.                       *)

\* An entry more.
LEMMA AddsLists ==
    ASSUME NamespaceInv, NEW d \in Inodes, NEW i \in Inodes, NEW n \in Slots,
           Adds(d, i, n)
    PROVE  Listed(d)' = Listed(d) \cup {i}
<1>1. \A x : x \in Listed(d)' <=> x # 0 /\ \E k \in Slots : At(d, k)' = x
  BY DEF Listed, At
<1>2. \A x : x \in Listed(d) <=> x # 0 /\ \E k \in Slots : At(d, k) = x
  BY DEF Listed, At
<1>3. At(d, n) = 0 /\ \A k \in Slots : At(d, k)' = IF k = n THEN i ELSE At(d, k)
  BY DEF Adds
<1>4. i # 0
  BY InodeFacts
<1>5. \A x : x \in Listed(d)' <=> x \in Listed(d) \/ x = i
  BY <1>1, <1>2, <1>3, <1>4
<1> QED
  BY <1>5

\* An entry less, unless the inode is in the directory twice.
LEMMA DropsLists ==
    ASSUME NamespaceInv, NEW d \in Inodes, NEW i \in Inodes, NEW f \in Slots,
           Drops(d, i, f)
    PROVE  /\ Listed(d) \ {i} \subseteq Listed(d)' /\ Listed(d)' \subseteq Listed(d)
           /\ i \in Listed(d)
           /\ Once(files[d], i) => Listed(d)' = Listed(d) \ {i}
<1>1. \A x : x \in Listed(d)' <=> x # 0 /\ \E k \in Slots : At(d, k)' = x
  BY DEF Listed, At
<1>2. \A x : x \in Listed(d) <=> x # 0 /\ \E k \in Slots : At(d, k) = x
  BY DEF Listed, At
<1>3. /\ At(d, f) = i
      /\ \A k \in Slots : At(d, k)' # 0 => \E j \in Slots \ {f} : At(d, j) = At(d, k)'
      /\ \A j \in Slots \ {f} : At(d, j) # 0 => \E k \in Slots : At(d, k)' = At(d, j)
  BY DropFacts, SMT
<1>4. Listed(d) \ {i} \subseteq Listed(d)' /\ Listed(d)' \subseteq Listed(d)
  BY <1>1, <1>2, <1>3
<1>5. i \in Listed(d)
  BY <1>2, <1>3, InodeFacts
<1>6. ASSUME Once(files[d], i) PROVE i \notin Listed(d)'
  <2>1. \A j, k \in Slots : At(d, j) = i /\ At(d, k) = i => j = k
    BY <1>6 DEF Once, At
  <2>2. \A k \in Slots : At(d, k)' # i
    BY <2>1, DropKeepsSingle
  <2> QED
    BY <1>1, <2>2
<1> QED
  BY <1>4, <1>5, <1>6

\* The other directories.
LEMMA SameLists ==
    ASSUME NEW S, Same(S)
    PROVE  \A e \in Inodes \ S : Listed(e)' = Listed(e)
<1> SUFFICES ASSUME NEW e \in Inodes \ S PROVE Listed(e)' = Listed(e)
  OBVIOUS
<1>1. \A k \in Slots : files'[e][k].inode = files[e][k].inode
  BY DEF Same, At
<1> QED
  BY <1>1 DEF Listed

\* An inode that no failed rename concerns has one entry at most: what Create,
\* Unlink and Rename do to the sets of entries.
LEMMA TreeLists ==
    ASSUME Tree, NEW i \in Inodes \ torn
    PROVE  /\ kind[i] = "none" => \A d \in Inodes : i \notin Listed(d)
           /\ \A d, e \in Inodes : i \in Listed(d) /\ i \in Listed(e) => d = e
           /\ \A d \in Inodes : Once(files[d], i)
<1>1. \A d \in Inodes : i \in Listed(d) => \E k \in Slots : At(d, k) = i
  BY ListedFacts DEF Tree
<1> QED
  BY <1>1, SMT DEF Tree, OneEntry, Once, At

\* Only directories list anything, and not themselves if the tree is whole.
LEMMA ListsAreDirectories ==
    ASSUME Tree, NEW d \in Inodes, NEW i \in Listed(d)
    PROVE  kind[d] = "dir" /\ i \in Inodes
<1>1. i \in Inodes /\ i # 0 /\ \E k \in Slots : At(d, k) = i
  BY ListedFacts, InodeFacts DEF Tree
<1> QED
  BY <1>1 DEF Tree, OnlyDirectories

-----------------------------------------------------------------------------
(* No island.                                                             *)

\* A new inode hangs on a directory in use.
LEMMA CreateKeepsNoIsland ==
    ASSUME Tree, NoIsland, NEW d \in Inodes, NEW i \in Inodes, NEW n \in Slots,
           NEW t \in {"file", "dir"}, CreateShape(d, i, n, t)
    PROVE  NoIsland'
<1> SUFFICES ASSUME torn' = {}, NEW U \in SUBSET InUse', U # {}, Root \notin U
             PROVE  \E x \in U, e \in Inodes \ U : x \in Listed(e)'
  BY DEF NoIsland
<1>1. torn = {} /\ kind[i] = "none" /\ d # i
  BY DEF CreateShape
<1>2. InUse' = InUse \cup {i}
  <2>1. \A e \in Inodes : kind'[e] = IF e = i THEN t ELSE kind[e]
    BY DEF CreateShape, Tree, NamespaceInv
  <2> QED
    BY <2>1 DEF InUse
<1>3. Listed(d)' = Listed(d) \cup {i} /\ \A e \in Inodes \ {d} : Listed(e)' = Listed(e)
  BY AddsLists, SameLists DEF CreateShape, Tree
<1>4. CASE U = {i}
  BY <1>1, <1>3, <1>4
<1>5. CASE U # {i}
  <2> DEFINE W == U \ {i}
  <2>1. W \in SUBSET InUse /\ W # {} /\ Root \notin W
    BY <1>2, <1>5
  <2> HIDE DEF W
  <2>2. PICK x \in W, e \in Inodes \ W : x \in Listed(e)
    BY <1>1, <2>1 DEF NoIsland
  <2>3. e # i
    BY <1>1, <2>2, ListsAreDirectories
  <2> QED
    BY <1>3, <2>2, <2>3, SMT DEF W
<1> QED
  BY <1>4, <1>5

\* A removed inode listed nothing.
LEMMA UnlinkKeepsNoIsland ==
    ASSUME Tree, NoIsland, NEW d \in Inodes, NEW i \in Inodes, NEW f \in Slots,
           UnlinkShape(d, i, f)
    PROVE  NoIsland'
<1> SUFFICES ASSUME torn' = {}, NEW U \in SUBSET InUse', U # {}, Root \notin U
             PROVE  \E x \in U, e \in Inodes \ U : x \in Listed(e)'
  BY DEF NoIsland
<1>1. torn = {}
  BY DEF UnlinkShape
<1>2. InUse' = InUse \ {i}
  <2>1. \A e \in Inodes : kind'[e] = IF e = i THEN "none" ELSE kind[e]
    BY DEF UnlinkShape, Tree, NamespaceInv
  <2> QED
    BY <2>1 DEF InUse
<1>3. /\ Listed(d) \ {i} \subseteq Listed(d)'
      /\ \A e \in Inodes \ {d} : Listed(e)' = Listed(e)
  BY DropsLists, SameLists DEF UnlinkShape, Tree
<1>4. PICK x \in U, e \in Inodes \ U : x \in Listed(e)
  BY <1>1, <1>2 DEF NoIsland
<1> QED
  BY <1>2, <1>3, <1>4

\* A directory does not move below itself: what moved is still reached, through
\* a directory that did not move.
LEMMA MoveKeepsNoIsland ==
    ASSUME Tree, NoIsland, NEW from \in Inodes, NEW i \in Inodes, NEW to \in Inodes,
           NEW f \in Slots, NEW n \in Slots, MoveShape(from, i, to, f, n)
    PROVE  NoIsland'
<1> SUFFICES ASSUME torn' = {}, NEW U \in SUBSET InUse', U # {}, Root \notin U
             PROVE  \E x \in U, e \in Inodes \ U : x \in Listed(e)'
  BY DEF NoIsland
<1>1. torn = {} /\ kind' = kind /\ kind[to] = "dir" /\ from # to
  BY DEF MoveShape
<1>2. U \in SUBSET InUse
  BY <1>1 DEF InUse
<1>3. /\ Listed(from) \ {i} \subseteq Listed(from)'
      /\ Listed(to)' = Listed(to) \cup {i}
      /\ \A e \in Inodes \ {from, to} : Listed(e)' = Listed(e)
  BY AddsLists, DropsLists, SameLists DEF MoveShape, Tree
<1>4. ASSUME NEW x \in U, NEW e \in Inodes \ U, x \in Listed(e), x # i
      PROVE  x \in Listed(e)'
  BY <1>3, <1>4
<1>5. CASE i \notin U
  <2>1. PICK x \in U, e \in Inodes \ U : x \in Listed(e)
    BY <1>1, <1>2 DEF NoIsland
  <2> QED
    BY <1>4, <1>5, <2>1
<1>6. CASE i \in U /\ to \notin U
  BY <1>3, <1>6
<1>7. CASE i \in U /\ to \in U
  <2> DEFINE T == IF kind[i] = "dir" THEN Subtree(i) ELSE {i}
             W == U \ T
  <2>1. i \in T /\ Closed(T)
    BY SubtreeIsLeastClosed DEF Closed, Tree
  <2>2. to \notin T
    BY <1>1 DEF MoveShape
  <2> HIDE DEF T
  <2>3. W \in SUBSET InUse /\ W # {} /\ Root \notin W
    BY <1>2, <1>7, <2>2
  <2> HIDE DEF W
  <2>4. PICK x \in W, e \in Inodes \ W : x \in Listed(e)
    BY <1>1, <2>3 DEF NoIsland
  <2>5. kind[e] = "dir"
    BY <2>4, ListsAreDirectories
  <2>6. e \notin T
    BY <2>1, <2>4, <2>5 DEF Closed, W
  <2> QED
    BY <1>4, <2>1, <2>4, <2>6 DEF W
<1> QED
  BY <1>5, <1>6, <1>7

\* A whole tree: everything in use is reached from the root.
LEMMA NoIslandIsReachable ==
    ASSUME Tree, NoIsland, torn = {}
    PROVE  Subtree(Root) = InUse
<1> DEFINE T == Subtree(Root)
<1>1. /\ Root \in T /\ T \in SUBSET Inodes /\ Closed(T)
      /\ \A C : Root \in C /\ Closed(C) => T \subseteq C
  BY SubtreeIsLeastClosed, InodeFacts DEF Tree
<1> HIDE DEF T
<1>2. Closed(InUse) /\ Root \in InUse
  <2>1. ASSUME NEW e \in InUse, NEW x \in Listed(e) PROVE x \in InUse
    <3>1. e \in Inodes
      BY DEF InUse
    <3>2. x \in Inodes \ torn
      BY <3>1, ListsAreDirectories
    <3> QED
      BY <3>1, <3>2, TreeLists DEF InUse
  <2> QED
    BY <2>1, InodeFacts DEF Closed, Tree, RootApart, InUse
<1>3. ASSUME NEW y \in InUse \ T PROVE FALSE
  <2> DEFINE U == InUse \ T
  <2>1. U \in SUBSET InUse /\ U # {} /\ Root \notin U
    BY <1>1, <1>3
  <2>2. PICK x \in U, e \in Inodes \ U : x \in Listed(e)
    BY <2>1 DEF NoIsland
  <2>3. kind[e] = "dir" /\ e \in InUse
    BY <2>2, ListsAreDirectories DEF InUse
  <2> QED
    BY <1>1, <2>2, <2>3 DEF Closed
<1> QED
  BY <1>1, <1>2, <1>3 DEF T

-----------------------------------------------------------------------------
(* Link counts.                                                           *)

Subdirs(d) == {e \in Listed(d) : kind[e] = "dir"}

\* A set of slots is finite and no larger than the block.
LEMMA SlotSets ==
    ASSUME NEW S \in SUBSET Slots
    PROVE  IsFiniteSet(S) /\ Cardinality(S) \in Nat /\ Cardinality(S) <= MaxSubfiles
<1>1. MaxSubfiles \in Nat /\ MaxSubfiles > 0 /\ 0 \in Int /\ MaxSubfiles - 1 \in Int
  BY SlotFacts, SMT
<1>2. /\ IsFiniteSet(0 .. MaxSubfiles - 1)
      /\ Cardinality(0 .. MaxSubfiles - 1) =
           IF 0 > MaxSubfiles - 1 THEN 0 ELSE MaxSubfiles - 1 - 0 + 1
  BY <1>1, FS_Interval
<1>3. IsFiniteSet(Slots) /\ Cardinality(Slots) = MaxSubfiles
  BY <1>1, <1>2, SMT DEF Slots
<1> QED
  BY <1>3, FS_Subset, FS_CardinalityType

\* i_nlink does not wrap: a directory has no more entries than slots.
LEMMA EntriesAreBounded ==
    ASSUME NEW b \in [Slots -> Entries],
           NEW T, \A x \in T : \E k \in Slots : b[k].inode = x
    PROVE  IsFiniteSet(T) /\ Cardinality(T) \in Nat /\ Cardinality(T) <= MaxSubfiles
<1> DEFINE S == {k \in Slots : b[k].inode \in T}
           g == [k \in S |-> b[k].inode]
<1>1. IsFiniteSet(S) /\ Cardinality(S) <= MaxSubfiles
  BY SlotSets
<1>2. g \in Surjection(S, T)
  BY DEF Surjection
<1> HIDE DEF S, g
<1>3. IsFiniteSet(T) /\ Cardinality(T) <= Cardinality(S)
  BY <1>1, <1>2, FS_Surjection
<1>4. Cardinality(T) \in Nat /\ Cardinality(S) \in Nat
  BY <1>1, <1>3, FS_CardinalityType
<1> QED
  BY <1>1, <1>3, <1>4, SlotFacts, SMT

\* Below the span, inc and dec of the link count are + 1 and - 1.
LEMMA LinkFacts ==
    /\ LinkSpan \in Nat /\ LinkSpan > MaxSubfiles + 2
    /\ \A n \in 0 .. LinkSpan - 1 :
        /\ IncLink(n) \in 0 .. LinkSpan - 1 /\ DecLink(n) \in 0 .. LinkSpan - 1
        /\ n + 1 < LinkSpan => IncLink(n) = n + 1
        /\ n > 0 => DecLink(n) = n - 1
<1>1. LinkSpan \in Nat /\ LinkSpan > MaxSubfiles + 2 /\ LinkSpan > 0
  BY NamespaceAssumption, SMT
<1>2. \A n \in Int : n % LinkSpan \in 0 .. LinkSpan - 1
  BY <1>1, SMT
<1>3. \A n \in 0 .. LinkSpan - 1 : n % LinkSpan = n
  BY <1>1, SMT
<1>4. ASSUME NEW n \in 0 .. LinkSpan - 1
      PROVE  /\ n + 1 \in Int /\ n - 1 \in Int
             /\ n + 1 < LinkSpan => n + 1 \in 0 .. LinkSpan - 1
             /\ n > 0 => n - 1 \in 0 .. LinkSpan - 1
  BY <1>1, SMT
<1> QED
  BY <1>1, <1>2, <1>3, <1>4 DEF IncLink, DecLink

\* LinkCounts, of one inode and its subdirectories.
Counted(t, n, T) ==
    /\ t = "file" => n = 1
    /\ t = "dir" => n = 2 + Cardinality(T)

\* The number of subdirectories fits.
LEMMA SubdirsAreBounded ==
    ASSUME NamespaceInv, NEW d \in Inodes
    PROVE  /\ IsFiniteSet(Subdirs(d)) /\ Cardinality(Subdirs(d)) \in Nat
           /\ Cardinality(Subdirs(d)) <= MaxSubfiles
<1>1. files[d] \in [Slots -> Entries]
  BY DEF NamespaceInv
<1>2. \A x \in Subdirs(d) : \E k \in Slots : files[d][k].inode = x
  BY DEF Subdirs, Listed
<1> QED
  BY <1>1, <1>2, EntriesAreBounded

\* LinkCounts and the same after a step, in terms of Subdirs.
LEMMA LinkCountsIs ==
    /\ LinkCounts <=> (torn = {} => \A i \in Inodes : Counted(kind[i], nlink[i], Subdirs(i)))
    /\ LinkCounts' <=> (torn' = {} => \A i \in Inodes :
                                        Counted(kind'[i], nlink'[i], Subdirs(i)'))
BY DEF LinkCounts, Counted, Subdirs

\* ouichefs_mkdir counts the new directory in its parent, ouichefs_create
\* nothing.
LEMMA CreateKeepsLinkCounts ==
    ASSUME Tree, nlink \in [Inodes -> 0 .. LinkSpan - 1], LinkCounts, NamespaceInv',
           NEW d \in Inodes, NEW i \in Inodes, NEW n \in Slots,
           NEW t \in {"file", "dir"}, CreateShape(d, i, n, t)
    PROVE  LinkCounts'
<1> SUFFICES ASSUME torn' = {}, NEW e \in Inodes
             PROVE  Counted(kind'[e], nlink'[e], Subdirs(e)')
  BY LinkCountsIs
<1>1. torn = {} /\ kind[i] = "none" /\ kind[d] = "dir" /\ d # i
  BY DEF CreateShape
<1>2. \A x \in Inodes : kind'[x] = IF x = i THEN t ELSE kind[x]
  BY DEF CreateShape, Tree, NamespaceInv
<1>3. /\ nlink'[i] = IF t = "dir" THEN 2 ELSE 1
      /\ nlink'[d] = IF t = "dir" THEN IncLink(nlink[d]) ELSE nlink[d]
      /\ \A x \in Inodes \ {d, i} : nlink'[x] = nlink[x]
  BY <1>1 DEF CreateShape
<1>4. Listed(d)' = Listed(d) \cup {i} /\ \A x \in Inodes \ {d} : Listed(x)' = Listed(x)
  BY AddsLists, SameLists DEF CreateShape, Tree
<1>5. \A x \in Inodes : i \notin Listed(x) /\ Listed(x) \subseteq Inodes
  BY <1>1, TreeLists, ListedFacts DEF Tree
<1>6. Counted(kind[e], nlink[e], Subdirs(e))
  BY <1>1, LinkCountsIs
<1>7. CASE e = i
  <2>1. Subdirs(e)' = {}
    <3>1. Listed(i) = {}
      BY <1>1, ListsAreDirectories
    <3> QED
      BY <1>1, <1>4, <1>7, <3>1 DEF Subdirs
  <2>2. Cardinality({}) = 0
    BY FS_EmptySet
  <2> QED
    BY <1>2, <1>3, <1>7, <2>1, <2>2, SMT DEF Counted
<1>8. CASE e = d
  <2>1. CASE t = "dir"
    <3>1. Subdirs(e)' = Subdirs(e) \cup {i}
      BY <1>2, <1>4, <1>5, <1>8, <2>1 DEF Subdirs
    <3>2. i \notin Subdirs(e)
      BY <1>5, <1>8 DEF Subdirs
    <3>3. IsFiniteSet(Subdirs(e)) /\ Cardinality(Subdirs(e)) \in Nat
      BY SubdirsAreBounded DEF Tree
    <3>4. Cardinality(Subdirs(e)') = Cardinality(Subdirs(e)) + 1
      BY <3>1, <3>2, <3>3, FS_AddElement
    <3>5. Cardinality(Subdirs(e)') <= MaxSubfiles
      <4>1. files'[e] \in [Slots -> Entries]
        BY DEF NamespaceInv
      <4>2. \A x \in Subdirs(e)' : \E k \in Slots : files'[e][k].inode = x
        BY DEF Subdirs, Listed
      <4> QED
        BY <4>1, <4>2, EntriesAreBounded
    <3>6. nlink[e] = 2 + Cardinality(Subdirs(e)) /\ nlink[e] \in 0 .. LinkSpan - 1
      BY <1>1, <1>6, <1>8 DEF Counted
    <3>7. IncLink(nlink[e]) = nlink[e] + 1
      BY <3>3, <3>4, <3>5, <3>6, LinkFacts, SlotFacts, SMT
    <3>8. nlink'[e] = 2 + Cardinality(Subdirs(e)') /\ kind'[e] = "dir"
      BY <1>1, <1>2, <1>3, <1>8, <2>1, <3>3, <3>4, <3>6, <3>7, SMTT(30)
    <3> QED
      BY <3>8 DEF Counted
  <2>2. CASE t = "file"
    <3>1. Subdirs(e)' = Subdirs(e)
      BY <1>1, <1>2, <1>4, <1>5, <1>8, <2>2 DEF Subdirs
    <3> QED
      BY <1>1, <1>2, <1>3, <1>6, <1>8, <2>2, <3>1
  <2> QED
    BY <2>1, <2>2
<1>9. CASE e \notin {d, i}
  <2>1. Subdirs(e)' = Subdirs(e)
    BY <1>2, <1>4, <1>5, <1>9 DEF Subdirs
  <2> QED
    BY <1>2, <1>3, <1>6, <1>9, <2>1
<1> QED
  BY <1>7, <1>8, <1>9

\* ouichefs_rmdir counts the directory out of its parent.
LEMMA UnlinkKeepsLinkCounts ==
    ASSUME Tree, nlink \in [Inodes -> 0 .. LinkSpan - 1], LinkCounts,
           NEW d \in Inodes, NEW i \in Inodes, NEW f \in Slots,
           UnlinkShape(d, i, f)
    PROVE  LinkCounts'
<1> SUFFICES ASSUME torn' = {}, NEW e \in Inodes
             PROVE  Counted(kind'[e], nlink'[e], Subdirs(e)')
  BY LinkCountsIs
<1>1. torn = {} /\ kind[d] = "dir" /\ d # i
  BY DEF UnlinkShape
<1>2. \A x \in Inodes : kind'[x] = IF x = i THEN "none" ELSE kind[x]
  BY DEF UnlinkShape, Tree, NamespaceInv
<1>3. /\ nlink'[d] = IF kind[i] = "dir" THEN DecLink(nlink[d]) ELSE nlink[d]
      /\ \A x \in Inodes \ {d, i} : nlink'[x] = nlink[x]
  BY <1>1 DEF UnlinkShape
<1>4. /\ Listed(d)' = Listed(d) \ {i} /\ i \in Listed(d)
      /\ \A x \in Inodes \ {d} : Listed(x)' = Listed(x)
  BY <1>1, TreeLists, DropsLists, SameLists DEF UnlinkShape, Tree
<1>5. \A x \in Inodes : Listed(x) \subseteq Inodes /\ (i \in Listed(x) => x = d)
  BY <1>1, <1>4, TreeLists, ListedFacts DEF Tree
<1>6. Counted(kind[e], nlink[e], Subdirs(e))
  BY <1>1, LinkCountsIs
<1>7. CASE e = i
  BY <1>2, <1>7 DEF Counted
<1>8. CASE e = d
  <2>1. CASE kind[i] = "dir"
    <3>1. Subdirs(e)' = Subdirs(e) \ {i} /\ i \in Subdirs(e)
      BY <1>2, <1>4, <1>5, <1>8, <2>1 DEF Subdirs
    <3>2. IsFiniteSet(Subdirs(e)) /\ Cardinality(Subdirs(e)) \in Nat
      BY SubdirsAreBounded DEF Tree
    <3>3. Cardinality(Subdirs(e)') = Cardinality(Subdirs(e)) - 1
      BY <3>1, <3>2, FS_RemoveElement
    <3>4. nlink[e] = 2 + Cardinality(Subdirs(e)) /\ nlink[e] \in 0 .. LinkSpan - 1
      BY <1>1, <1>6, <1>8 DEF Counted
    <3>5. DecLink(nlink[e]) = nlink[e] - 1
      BY <3>2, <3>4, LinkFacts, SMT
    <3>6. nlink'[e] = 2 + Cardinality(Subdirs(e)') /\ kind'[e] = "dir"
      BY <1>1, <1>2, <1>3, <1>8, <2>1, <3>2, <3>3, <3>4, <3>5, SMT
    <3> QED
      BY <3>6 DEF Counted
  <2>2. CASE kind[i] # "dir"
    <3>1. Subdirs(e)' = Subdirs(e)
      BY <1>2, <1>4, <1>5, <1>8, <2>2 DEF Subdirs
    <3> QED
      BY <1>1, <1>2, <1>3, <1>6, <1>8, <2>2, <3>1
  <2> QED
    BY <2>1, <2>2
<1>9. CASE e \notin {d, i}
  <2>1. Subdirs(e)' = Subdirs(e)
    BY <1>2, <1>4, <1>5, <1>9 DEF Subdirs
  <2> QED
    BY <1>2, <1>3, <1>6, <1>9, <2>1
<1> QED
  BY <1>7, <1>8, <1>9

\* ouichefs_rename counts a directory out of the old parent and in the new one.
LEMMA MoveKeepsLinkCounts ==
    ASSUME Tree, nlink \in [Inodes -> 0 .. LinkSpan - 1], LinkCounts, NamespaceInv',
           NEW from \in Inodes, NEW i \in Inodes, NEW to \in Inodes,
           NEW f \in Slots, NEW n \in Slots, MoveShape(from, i, to, f, n)
    PROVE  LinkCounts'
<1> SUFFICES ASSUME torn' = {}, NEW e \in Inodes
             PROVE  Counted(kind'[e], nlink'[e], Subdirs(e)')
  BY LinkCountsIs
<1>1. torn = {} /\ kind[from] = "dir" /\ kind[to] = "dir" /\ from # to /\ kind' = kind
  BY DEF MoveShape
<1>2. /\ nlink'[to] = IF kind[i] = "dir" THEN IncLink(nlink[to]) ELSE nlink[to]
      /\ nlink'[from] = IF kind[i] = "dir" THEN DecLink(nlink[from]) ELSE nlink[from]
      /\ \A x \in Inodes \ {from, to} : nlink'[x] = nlink[x]
  BY <1>1 DEF MoveShape
<1>3. /\ Listed(from)' = Listed(from) \ {i} /\ i \in Listed(from)
      /\ Listed(to)' = Listed(to) \cup {i}
      /\ \A x \in Inodes \ {from, to} : Listed(x)' = Listed(x)
  BY <1>1, TreeLists, AddsLists, DropsLists, SameLists DEF MoveShape, Tree
<1>4. i \notin Listed(to)
  BY <1>1, <1>3, TreeLists
<1>5. Counted(kind[e], nlink[e], Subdirs(e))
  BY <1>1, LinkCountsIs
<1>6. IsFiniteSet(Subdirs(e)) /\ Cardinality(Subdirs(e)) \in Nat
  BY SubdirsAreBounded DEF Tree
<1>7. CASE kind[i] = "dir" /\ e = from
  <2>1. Subdirs(e)' = Subdirs(e) \ {i} /\ i \in Subdirs(e)
    BY <1>1, <1>3, <1>7 DEF Subdirs
  <2>2. Cardinality(Subdirs(e)') = Cardinality(Subdirs(e)) - 1
    BY <1>6, <2>1, FS_RemoveElement
  <2>3. nlink[e] = 2 + Cardinality(Subdirs(e)) /\ nlink[e] \in 0 .. LinkSpan - 1
    BY <1>1, <1>5, <1>7 DEF Counted
  <2>4. DecLink(nlink[e]) = nlink[e] - 1
    BY <1>6, <2>3, LinkFacts, SMT
  <2>5. nlink'[e] = 2 + Cardinality(Subdirs(e)') /\ kind'[e] = "dir"
    BY <1>1, <1>2, <1>6, <1>7, <2>2, <2>3, <2>4, SMTT(30)
  <2> QED
    BY <2>5 DEF Counted
<1>8. CASE kind[i] = "dir" /\ e = to
  <2>1. Subdirs(e)' = Subdirs(e) \cup {i} /\ i \notin Subdirs(e)
    BY <1>1, <1>3, <1>4, <1>8 DEF Subdirs
  <2>2. Cardinality(Subdirs(e)') = Cardinality(Subdirs(e)) + 1
    BY <1>6, <2>1, FS_AddElement
  <2>3. Cardinality(Subdirs(e)') <= MaxSubfiles
    <3>1. files'[e] \in [Slots -> Entries]
      BY DEF NamespaceInv
    <3>2. \A x \in Subdirs(e)' : \E k \in Slots : files'[e][k].inode = x
      BY DEF Subdirs, Listed
    <3> QED
      BY <3>1, <3>2, EntriesAreBounded
  <2>4. nlink[e] = 2 + Cardinality(Subdirs(e)) /\ nlink[e] \in 0 .. LinkSpan - 1
    BY <1>1, <1>5, <1>8 DEF Counted
  <2>5. IncLink(nlink[e]) = nlink[e] + 1
    BY <1>6, <2>2, <2>3, <2>4, LinkFacts, SlotFacts, SMT
  <2>6. nlink'[e] = 2 + Cardinality(Subdirs(e)') /\ kind'[e] = "dir"
    BY <1>1, <1>2, <1>6, <1>8, <2>2, <2>4, <2>5, SMTT(30)
  <2> QED
    BY <2>6 DEF Counted
<1>9. CASE kind[i] # "dir" \/ e \notin {from, to}
  <2>1. Subdirs(e)' = Subdirs(e)
    BY <1>1, <1>3, <1>9 DEF Subdirs
  <2>2. nlink'[e] = nlink[e]
    BY <1>2, <1>9
  <2> QED
    BY <1>1, <1>5, <2>1, <2>2
<1> QED
  BY <1>7, <1>8, <1>9

-----------------------------------------------------------------------------
(* Listings.                                                              *)

\* The slots behind the position whose inode was not committed.
Missed(r) == {k \in Slots : k < reader.pos /\ At(r, k) \notin reader.seen}

\* What holds of a listing of r in progress: NoDuplicateListing, and more than
\* SkipsAreBounded, for all entries and not only for those there all along.
ListingOf(r) ==
    reader.dir = r =>
        /\ kind[r] = "dir"
        /\ reader.stable \ torn \subseteq Listed(r)
        /\ \A k \in Slots : k >= reader.pos =>
             At(r, k) \notin (reader.seen \cap reader.stable) \ torn
        /\ Cardinality(Missed(r)) <= reader.gone

ListingInv == \A r \in Inodes : ListingOf(r)

\* The fields of the listing.
LEMMA ReaderFacts ==
    ASSUME RestTypeOK
    PROVE  /\ reader.dir \in 0 .. NrInodes - 1
           /\ reader.dir # 0 => reader.dir \in Inodes
           /\ reader.pos \in Nat /\ reader.pos <= MaxSubfiles
           /\ reader.seen \subseteq Inodes /\ reader.stable \subseteq Inodes
           /\ reader.gone \in Nat /\ reader.gone <= MaxSubfiles
           /\ 0 \notin reader.seen
BY InodeFacts, SlotFacts, SMT DEF RestTypeOK

\* A directory that the step does not touch.
LEMMA SameKeepsListing ==
    ASSUME ListingInv, NEW r \in Inodes, NEW S, r \notin S, Same(S),
           reader' = reader, torn \subseteq torn', kind'[r] = kind[r]
    PROVE  ListingOf(r)'
<1>1. \A k \in Slots : At(r, k)' = At(r, k)
  BY DEF Same
<1>2. Listed(r)' = Listed(r)
  BY SameLists
<1>3. Missed(r)' = Missed(r)
  BY <1>1 DEF Missed
<1>4. ListingOf(r)
  BY DEF ListingInv
<1> QED
  BY <1>1, <1>2, <1>3, <1>4 DEF ListingOf

\* An entry is added to the directory, of an inode that was not there.
LEMMA AddKeepsListing ==
    ASSUME NamespaceInv, RestTypeOK, ListingInv, NEW r \in Inodes, NEW i \in Inodes,
           NEW n \in Slots, Adds(r, i, n), i \notin Listed(r) \/ i \in torn',
           reader' = reader, torn \subseteq torn', kind'[r] = kind[r]
    PROVE  ListingOf(r)'
<1> SUFFICES ASSUME reader.dir = r PROVE ListingOf(r)'
  BY DEF ListingOf
<1>1. At(r, n) = 0 /\ \A k \in Slots : At(r, k)' = IF k = n THEN i ELSE At(r, k)
  BY DEF Adds
<1>2. /\ kind[r] = "dir"
      /\ reader.stable \ torn \subseteq Listed(r)
      /\ \A k \in Slots : k >= reader.pos =>
           At(r, k) \notin (reader.seen \cap reader.stable) \ torn
      /\ Cardinality(Missed(r)) <= reader.gone
  BY DEF ListingInv, ListingOf
<1>3. Listed(r)' = Listed(r) \cup {i}
  BY AddsLists
<1>4. i \notin (reader.seen \cap reader.stable) \ torn'
  BY <1>2
<1>5. \A k \in Slots : k >= reader.pos =>
        At(r, k)' \notin (reader.seen \cap reader.stable) \ torn'
  BY <1>1, <1>2, <1>4
<1>6. Cardinality(Missed(r)') <= reader.gone
  <2>1. Missed(r)' \in SUBSET Missed(r) /\ Missed(r) \in SUBSET Slots
    BY <1>1, ReaderFacts DEF Missed
  <2>2. Cardinality(Missed(r)') <= Cardinality(Missed(r))
    BY <2>1, SlotSets, FS_Subset
  <2>3. Cardinality(Missed(r)') \in Nat /\ Cardinality(Missed(r)) \in Nat
    BY <2>1, SlotSets
  <2> QED
    BY <1>2, <2>2, <2>3, ReaderFacts, SMTT(30)
<1> QED
  BY <1>2, <1>3, <1>5, <1>6 DEF ListingOf

\* An entry is removed from the directory: what follows it moves down, by one
\* slot, which is the only slot the listing may miss for it.
LEMMA DropKeepsListing ==
    ASSUME NamespaceInv, RestTypeOK, ListingInv, NEW r \in Inodes, NEW i \in Inodes,
           NEW f \in Slots, Drops(r, i, f), f = EntryOf(files[r], i),
           reader' = AfterRemoval(reader, r, i), torn' = torn, kind'[r] = kind[r]
    PROVE  ListingOf(r)'
<1> SUFFICES ASSUME reader.dir = r PROVE ListingOf(r)'
  BY DEF ListingOf, AfterRemoval
<1>1. \A k \in Slots : At(r, k)' = IF k < f THEN At(r, k)
                                   ELSE IF k + 1 \in Slots THEN At(r, k + 1) ELSE 0
  BY DEF Drops, Without, At
<1>2. /\ kind[r] = "dir"
      /\ reader.stable \ torn \subseteq Listed(r)
      /\ \A k \in Slots : k >= reader.pos =>
           At(r, k) \notin (reader.seen \cap reader.stable) \ torn
      /\ Cardinality(Missed(r)) <= reader.gone
  BY DEF ListingInv, ListingOf
<1>3. /\ reader'.pos = reader.pos /\ reader'.seen = reader.seen
      /\ reader'.stable = reader.stable \ {i}
      /\ reader'.gone = IF f < reader.pos THEN Min({reader.gone + 1, MaxSubfiles})
                        ELSE reader.gone
  BY DEF AfterRemoval, RestTypeOK
<1>4. reader'.stable \ torn' \subseteq Listed(r)'
  BY <1>2, <1>3, DropsLists
<1>5. ASSUME NEW k \in Slots, k >= reader.pos
      PROVE  At(r, k)' \notin (reader'.seen \cap reader'.stable) \ torn'
  <2>1. CASE At(r, k)' = 0
    BY <1>3, <2>1, ReaderFacts
  <2>2. CASE At(r, k)' # 0
    <3>1. PICK j \in Slots : (j = k \/ j = k + 1) /\ At(r, j) = At(r, k)'
      BY <2>2, DropFacts, SMTT(30)
    <3>2. j >= reader.pos
      BY <1>5, <3>1, SlotFacts, ReaderFacts, SMTT(30)
    <3> QED
      BY <1>2, <1>3, <3>1, <3>2
  <2> QED
    BY <2>1, <2>2
<1>6. Cardinality(Missed(r)') <= reader'.gone
  <2> DEFINE M == Missed(r)
             N == Missed(r)'
  <2>1. /\ M = {k \in Slots : k < reader.pos /\ At(r, k) \notin reader.seen}
        /\ N = {k \in Slots : k < reader.pos /\ At(r, k)' \notin reader.seen}
    BY <1>3 DEF Missed
  <2> HIDE DEF M, N
  <2>2. M \in SUBSET Slots /\ N \in SUBSET Slots
    BY <2>1
  <2>3. /\ IsFiniteSet(M) /\ IsFiniteSet(N)
        /\ Cardinality(M) \in Nat /\ Cardinality(N) \in Nat
        /\ Cardinality(N) <= MaxSubfiles
    BY <2>2, SlotSets
  <2>4. CASE f >= reader.pos
    <3>1. N = M
      BY <1>1, <2>1, <2>4, SlotFacts, ReaderFacts, SMTT(30)
    <3>2. reader'.gone = reader.gone
      BY <1>3, <2>4, SlotFacts, ReaderFacts, SMTT(30)
    <3> QED
      BY <1>2, <3>1, <3>2 DEF M, N
  <2>5. CASE f < reader.pos
    <3> DEFINE L == N \ {reader.pos - 1}
               h == [k \in L |-> IF k < f THEN k ELSE k + 1]
    <3>1. ASSUME NEW k \in L PROVE (IF k < f THEN k ELSE k + 1) \in M
      <4>1. k \in Slots /\ k \in Nat /\ k < reader.pos /\ k # reader.pos - 1
            /\ At(r, k)' \notin reader.seen
        BY <2>1, <2>2, SlotFacts
      <4>2. k + 1 < reader.pos /\ k + 1 \in Slots
        BY <4>1, ReaderFacts, SlotFacts, SMTT(30)
      <4> QED
        BY <1>1, <2>1, <4>1, <4>2
    <3>2. \A k \in L : k \in Nat
      BY <2>2, SlotFacts
    <3>3. h \in [L -> M]
      BY <3>1
    <3>4. ASSUME NEW j \in L, NEW k \in L, h[j] = h[k] PROVE j = k
      <4>1. j \in Nat /\ k \in Nat /\ f \in Nat
        BY <3>2, SlotFacts
      <4>2. (IF j < f THEN j ELSE j + 1) = (IF k < f THEN k ELSE k + 1)
        BY <3>4
      <4> QED
        BY <4>1, <4>2, SMT
    <3>5. h \in Injection(L, M)
      BY <3>3, <3>4 DEF Injection, IsInjective
    <3> HIDE DEF h
    <3>6. Cardinality(L) <= Cardinality(M)
      BY <2>3, <3>5, FS_Injection
    <3>7. Cardinality(L) = IF reader.pos - 1 \in N THEN Cardinality(N) - 1 ELSE Cardinality(N)
      BY <2>3, FS_RemoveElement
    <3> HIDE DEF L
    <3>8. Cardinality(N) <= Cardinality(M) + 1
      BY <2>3, <3>6, <3>7, SMTT(30)
    <3>9. reader.gone \in Nat /\ Cardinality(M) <= reader.gone
      BY <1>2, ReaderFacts DEF M
    <3>10. reader'.gone \in {reader.gone + 1, MaxSubfiles}
      <4>1. {reader.gone + 1, MaxSubfiles} \in SUBSET Nat
        BY <3>9, SlotFacts, SMTT(30)
      <4> QED
        BY <1>3, <2>5, <4>1, MinFacts
    <3>11. Cardinality(N) <= reader'.gone
      BY <2>3, <3>8, <3>9, <3>10, SlotFacts, SMT
    <3> QED
      BY <3>11 DEF N
  <2> QED
    BY <2>4, <2>5, SlotFacts, ReaderFacts, SMTT(30)
<1>7. kind'[r] = "dir"
  BY <1>2
<1>8. \A k \in Slots : k >= reader'.pos =>
        At(r, k)' \notin (reader'.seen \cap reader'.stable) \ torn'
  BY <1>3, <1>5
<1> QED
  BY <1>4, <1>6, <1>7, <1>8 DEF ListingOf

\* Creation, removal, moves and renames that fail half way.
LEMMA ShapesKeepListing ==
    ASSUME Tree, RestTypeOK, ListingInv, NEW i \in Inodes, NEW f \in Slots, NEW n \in Slots
    PROVE  /\ \A d \in Inodes, t \in {"file", "dir"} : CreateShape(d, i, n, t) => ListingInv'
           /\ \A d \in Inodes : UnlinkShape(d, i, f) => ListingInv'
           /\ \A from, to \in Inodes : MoveShape(from, i, to, f, n) => ListingInv'
           /\ \A from, to \in Inodes : TornShape(from, i, to, f, n) => ListingInv'
<1>1. ASSUME NEW d \in Inodes, NEW t \in {"file", "dir"}, CreateShape(d, i, n, t),
             NEW r \in Inodes
      PROVE  ListingOf(r)'
  <2>1. /\ kind[d] = "dir" /\ kind[i] = "none" /\ reader' = reader /\ torn' = torn
        /\ Adds(d, i, n) /\ Same({d})
        /\ \A e \in Inodes : kind'[e] = IF e = i THEN t ELSE kind[e]
    BY <1>1 DEF CreateShape, Tree, NamespaceInv
  <2>2. CASE r = d
    <3>1. i \notin Listed(r) \/ i \in torn'
      BY <2>1, TreeLists
    <3>2. kind'[r] = kind[r]
      BY <2>1, <2>2
    <3> QED
      BY <2>1, <2>2, <3>1, <3>2, AddKeepsListing DEF Tree
  <2>3. CASE r # d /\ r # i
    BY <2>1, <2>3, SameKeepsListing
  <2>4. CASE r = i
    BY <2>1, <2>4 DEF ListingInv, ListingOf
  <2> QED
    BY <2>2, <2>3, <2>4
<1>2. ASSUME NEW d \in Inodes, UnlinkShape(d, i, f), NEW r \in Inodes
      PROVE  ListingOf(r)'
  <2>1. /\ d # i /\ torn' = torn /\ Drops(d, i, f) /\ Same({d})
        /\ f = EntryOf(files[d], i)
        /\ reader' = IF reader.dir = i THEN NoReader ELSE AfterRemoval(reader, d, i)
        /\ \A e \in Inodes : kind'[e] = IF e = i THEN "none" ELSE kind[e]
    BY <1>2 DEF UnlinkShape, Tree, NamespaceInv
  <2>2. CASE reader.dir = i
    <3>1. reader'.dir = 0
      BY <2>1, <2>2 DEF NoReader
    <3> QED
      BY <3>1, InodeFacts DEF ListingOf
  <2>3. CASE reader.dir # i /\ r = d
    <3>1. reader' = AfterRemoval(reader, r, i) /\ kind'[r] = kind[r]
      BY <2>1, <2>3
    <3> QED
      BY <2>1, <2>3, <3>1, DropKeepsListing DEF Tree
  <2>4. CASE reader.dir # i /\ r # d
    <3>1. CASE reader.dir = d
      <4>1. reader'.dir = d
        BY <2>1, <2>4, <3>1 DEF AfterRemoval, RestTypeOK
      <4> QED
        BY <2>4, <4>1 DEF ListingOf
    <3>2. CASE reader.dir # d
      <4>1. reader' = reader
        BY <2>1, <2>4, <3>2 DEF AfterRemoval
      <4>2. CASE r = i
        BY <2>4, <4>1, <4>2 DEF ListingOf
      <4>3. CASE r # i
        BY <2>1, <2>4, <4>1, <4>3, SameKeepsListing
      <4> QED
        BY <4>2, <4>3
    <3> QED
      BY <3>1, <3>2
  <2> QED
    BY <2>2, <2>3, <2>4
<1>3. ASSUME NEW from \in Inodes, NEW to \in Inodes, MoveShape(from, i, to, f, n),
             NEW r \in Inodes
      PROVE  ListingOf(r)'
  <2>1. /\ from # to /\ kind' = kind /\ torn' = torn
        /\ Adds(to, i, n) /\ Drops(from, i, f) /\ Same({from, to})
        /\ f = EntryOf(files[from], i)
        /\ reader' = AfterRemoval(reader, from, i)
    BY <1>3 DEF MoveShape
  <2>2. CASE r = from
    BY <2>1, <2>2, DropKeepsListing DEF Tree
  <2>3. CASE r # from /\ reader.dir = from
    <3>1. reader'.dir = from
      BY <2>1, <2>3 DEF AfterRemoval, RestTypeOK
    <3> QED
      BY <2>3, <3>1 DEF ListingOf
  <2>4. CASE r # from /\ reader.dir # from
    <3>1. reader' = reader
      BY <2>1, <2>4 DEF AfterRemoval
    <3>2. CASE r = to
      <4>1. i \in Listed(from)
        BY <2>1, DropsLists DEF Tree
      <4>2. i \notin Listed(r) \/ i \in torn'
        BY <2>1, <2>4, <4>1, TreeLists
      <4> QED
        BY <2>1, <3>1, <3>2, <4>2, AddKeepsListing DEF Tree
    <3>3. CASE r # to
      BY <2>1, <2>4, <3>1, <3>3, SameKeepsListing
    <3> QED
      BY <3>2, <3>3
  <2> QED
    BY <2>2, <2>3, <2>4
<1>4. ASSUME NEW from \in Inodes, NEW to \in Inodes, TornShape(from, i, to, f, n),
             NEW r \in Inodes
      PROVE  ListingOf(r)'
  <2>1. /\ kind' = kind /\ torn' = torn \cup {i} /\ reader' = reader
        /\ Adds(to, i, n) /\ Same({to})
    BY <1>4 DEF TornShape
  <2>2. CASE r = to
    BY <2>1, <2>2, AddKeepsListing DEF Tree
  <2>3. CASE r # to
    BY <2>1, <2>3, SameKeepsListing
  <2> QED
    BY <2>2, <2>3
<1> QED
  BY <1>1, <1>2, <1>3, <1>4 DEF ListingInv

\* ouichefs_iterate commits the entry at its position, which no other slot
\* holds, and goes on.
LEMMA IterateKeepsListing ==
    ASSUME Tree, RestTypeOK, ListingInv, Iterate
    PROVE  ListingInv'
<1> SUFFICES ASSUME NEW r \in Inodes, reader'.dir = r PROVE ListingOf(r)'
  BY DEF ListingInv, ListingOf
<1> DEFINE p == reader.pos
           x == At(r, p)
<1>1. /\ reader.dir = r /\ p \in Slots
      /\ At(r, p) # 0
      /\ reader'.pos = p + 1 /\ reader'.seen = reader.seen \cup {x}
      /\ reader'.stable = reader.stable /\ reader'.gone = reader.gone
      /\ files' = files /\ kind' = kind /\ torn' = torn
  BY SlotFacts, SMT DEF Iterate, RestTypeOK, At
<1>2. /\ kind[r] = "dir"
      /\ reader.stable \ torn \subseteq Listed(r)
      /\ \A k \in Slots : k >= reader.pos =>
           At(r, k) \notin (reader.seen \cap reader.stable) \ torn
      /\ Cardinality(Missed(r)) <= reader.gone
  BY <1>1 DEF ListingInv, ListingOf
<1>3. \A k \in Slots : At(r, k)' = At(r, k)
  BY <1>1 DEF At
<1>4. Listed(r)' = Listed(r)
  BY <1>1 DEF Listed
<1>5. x \in Inodes
  BY <1>1, ListedFacts, InodeFacts DEF Tree
<1> HIDE DEF x
<1>6. ASSUME NEW k \in Slots, k >= p + 1
      PROVE  At(r, k)' \notin (reader'.seen \cap reader'.stable) \ torn'
  <2>1. k # p /\ k >= p
    BY <1>1, <1>6, SlotFacts, SMT
  <2>2. x \notin torn => At(r, k) # x
    BY <1>1, <1>5, <2>1, SMT DEF Tree, OneEntry, x
  <2> QED
    BY <1>1, <1>2, <1>3, <2>1, <2>2
<1>7. Cardinality(Missed(r)') <= reader.gone
  <2>1. Missed(r)' \in SUBSET Missed(r) /\ Missed(r) \in SUBSET Slots
    <3>1. ASSUME NEW k \in Slots, k < p + 1, At(r, k) \notin reader.seen \cup {x}
          PROVE  k < p /\ At(r, k) \notin reader.seen
      BY <1>1, <3>1, SlotFacts, SMT DEF x
    <3> QED
      BY <1>1, <1>3, <3>1 DEF Missed
  <2>2. Cardinality(Missed(r)') <= Cardinality(Missed(r))
    BY <2>1, SlotSets, FS_Subset
  <2>3. Cardinality(Missed(r)') \in Nat /\ Cardinality(Missed(r)) \in Nat
    BY <2>1, SlotSets
  <2> QED
    BY <1>2, <2>2, <2>3, ReaderFacts, SMTT(30)
<1> QED
  BY <1>1, <1>2, <1>4, <1>6, <1>7 DEF ListingOf

\* A listing begins at the first slot with the entries that are there.
LEMMA OpenDirKeepsListing ==
    ASSUME NamespaceInv, NEW d \in Inodes, OpenDir(d)
    PROVE  ListingInv'
<1> SUFFICES ASSUME NEW r \in Inodes, reader'.dir = r PROVE ListingOf(r)'
  BY DEF ListingInv, ListingOf
<1>1. /\ r = d /\ kind[d] = "dir" /\ kind' = kind /\ torn' = torn /\ files' = files
      /\ reader'.pos = 0 /\ reader'.seen = {} /\ reader'.stable = Listed(d)
      /\ reader'.gone = 0
  BY DEF OpenDir, NoReader
<1>2. Listed(d)' = Listed(d)
  BY <1>1 DEF Listed
<1>3. Missed(r)' = {}
  BY <1>1, SlotFacts, SMT DEF Missed
<1>4. Cardinality(Missed(r)') <= reader'.gone
  BY <1>1, <1>3, FS_EmptySet, SMT
<1> QED
  BY <1>1, <1>2, <1>4 DEF ListingOf

-----------------------------------------------------------------------------
(* The types of the rest.                                                 *)

\* The history of a listing stays within its bounds.
LEMMA AfterRemovalType ==
    ASSUME RestTypeOK, NEW d \in Inodes, NEW i \in Inodes
    PROVE  AfterRemoval(reader, d, i) \in
              [dir : 0 .. NrInodes - 1, pos : 0 .. MaxSubfiles,
               seen : SUBSET Inodes, stable : SUBSET Inodes, gone : 0 .. MaxSubfiles]
<1>1. Min({reader.gone + 1, MaxSubfiles}) \in 0 .. MaxSubfiles
  <2>1. {reader.gone + 1, MaxSubfiles} \in SUBSET Nat
    BY ReaderFacts, SlotFacts, SMT
  <2>2. /\ Min({reader.gone + 1, MaxSubfiles}) \in {reader.gone + 1, MaxSubfiles}
        /\ Min({reader.gone + 1, MaxSubfiles}) <= MaxSubfiles
    BY <2>1, MinFacts
  <2> QED
    BY <2>2, ReaderFacts, SlotFacts, SMT
<1> DEFINE m == Min({reader.gone + 1, MaxSubfiles})
<1> HIDE DEF m
<1>2. AfterRemoval(reader, d, i) =
        IF reader.dir # d THEN reader
        ELSE [reader EXCEPT !.stable = @ \ {i},
                            !.gone = IF EntryOf(files[d], i) < reader.pos THEN m ELSE @]
  BY DEF AfterRemoval, m
<1>3. m \in 0 .. MaxSubfiles
  BY <1>1 DEF m
<1> QED
  BY <1>2, <1>3, ZenonT(60) DEF RestTypeOK

\* A listing that is closed, or whose directory is removed.
LEMMA NoReaderType ==
    NoReader \in [dir : 0 .. NrInodes - 1, pos : 0 .. MaxSubfiles,
                  seen : SUBSET Inodes, stable : SUBSET Inodes, gone : 0 .. MaxSubfiles]
<1>1. 0 \in 0 .. NrInodes - 1 /\ 0 \in 0 .. MaxSubfiles
  BY NamespaceAssumption, SMT
<1> QED
  BY <1>1 DEF NoReader

\* Every operation keeps the types.
LEMMA NextKeepsRest ==
    ASSUME NamespaceInv, OnlyDirectories, RestTypeOK, [Next]_vars
    PROVE  RestTypeOK'
<1> DEFINE L == 0 .. LinkSpan - 1
<1>1. \A n \in L : IncLink(n) \in L /\ DecLink(n) \in L
  BY LinkFacts
<1>2. 1 \in L /\ 2 \in L
  BY LinkFacts, SlotFacts, SMT
<1>3. /\ nlink \in [Inodes -> L] /\ torn \subseteq Inodes /\ astray \in BOOLEAN
      /\ reader \in [dir : 0 .. NrInodes - 1, pos : 0 .. MaxSubfiles,
                     seen : SUBSET Inodes, stable : SUBSET Inodes, gone : 0 .. MaxSubfiles]
  BY DEF RestTypeOK
<1> HIDE DEF L
<1>4. ASSUME NEW d \in Inodes, NEW name \in Names, NEW t \in {"file", "dir"},
             Create(d, name, t)
      PROVE  RestTypeOK'
  <2>1. PICK i \in Inodes, n \in Slots : CreateShape(d, i, n, t)
    BY <1>4, CreateHasShape
  <2>2. nlink' \in [Inodes -> L]
    BY <1>1, <1>2, <1>3, <2>1 DEF CreateShape
  <2>3. torn' = torn /\ reader' = reader /\ astray' = astray
    BY <2>1 DEF CreateShape
  <2> QED
    BY <1>3, <2>2, <2>3 DEF RestTypeOK, L
<1>5. ASSUME NEW d \in Inodes, NEW i \in Inodes, Unlink(d, i) \/ Rmdir(d, i)
      PROVE  RestTypeOK'
  <2>1. PICK f \in Slots : UnlinkShape(d, i, f)
    BY <1>5, UnlinkHasShape
  <2>2. nlink' \in [Inodes -> L]
    BY <1>1, <1>3, <2>1 DEF UnlinkShape
  <2>3. torn' = torn /\ astray' = FALSE
    BY <2>1 DEF UnlinkShape
  <2>4. reader' = NoReader \/ reader' = AfterRemoval(reader, d, i)
    BY <2>1 DEF UnlinkShape
  <2> QED
    BY <1>3, <2>2, <2>3, <2>4, NoReaderType, AfterRemovalType, ZenonT(60) DEF RestTypeOK, L
<1>6. ASSUME NEW d \in Inodes, NEW old \in Names, NEW new \in Names,
             RenameInPlace(d, old, new)
      PROVE  RestTypeOK'
  <2>1. nlink' = nlink /\ torn' = torn /\ reader' = reader
    BY <1>6 DEF RenameInPlace
  <2>2. astray' \in BOOLEAN
    BY <1>6 DEF RenameInPlace
  <2> QED
    BY <1>3, <2>1, <2>2 DEF RestTypeOK, L
<1>7. ASSUME NEW from \in Inodes, NEW i \in Inodes, NEW to \in Inodes, NEW n \in Names,
             \/ Rename(from, i, to, n)
             \/ RenameTorn(from, i, to, n)
             \/ RenameAstray(from, i, to, n)
      PROVE  RestTypeOK'
  <2>1. CASE Rename(from, i, to, n)
    <3>1. nlink' \in [Inodes -> L]
      BY <1>1, <1>3, <2>1 DEF Rename
    <3>2. torn' = torn /\ astray' = astray /\ reader' = AfterRemoval(reader, from, i)
      BY <2>1 DEF Rename
    <3> QED
      BY <1>3, <3>1, <3>2, AfterRemovalType DEF RestTypeOK, L
  <2>2. CASE RenameTorn(from, i, to, n)
    <3>1. nlink' \in [Inodes -> L]
      BY <1>1, <1>3, <2>2 DEF RenameTorn
    <3>2. torn' = torn \cup {i} /\ astray' = astray /\ reader' = reader
      BY <2>2 DEF RenameTorn
    <3> QED
      BY <1>3, <3>1, <3>2 DEF RestTypeOK, L
  <2>3. CASE RenameAstray(from, i, to, n)
    BY <1>3, <2>3 DEF RenameAstray, RestTypeOK, L
  <2> QED
    BY <1>7, <2>1, <2>2, <2>3
<1>8. ASSUME NEW d \in Inodes, OpenDir(d) PROVE RestTypeOK'
  <2>1. /\ nlink' = nlink /\ torn' = torn /\ astray' = astray
        /\ reader' = [NoReader EXCEPT !.dir = d, !.stable = Listed(d)]
    BY <1>8 DEF OpenDir
  <2>2. Listed(d) \subseteq Inodes /\ d \in 0 .. NrInodes - 1
    BY ListedFacts, InodeFacts
  <2> QED
    BY <1>3, <2>1, <2>2, NoReaderType DEF RestTypeOK, L
<1>9. CASE Iterate
  <2>1. /\ reader.dir # 0 /\ reader.pos < MaxSubfiles
        /\ nlink' = nlink /\ torn' = torn /\ astray' = astray
        /\ files[reader.dir][reader.pos].inode # 0
        /\ reader' = [reader EXCEPT !.seen = @ \cup {files[reader.dir][reader.pos].inode},
                                    !.pos = @ + 1]
    BY <1>9 DEF Iterate
  <2>2. reader.dir \in Inodes /\ reader.pos \in Slots /\ reader.pos + 1 \in 0 .. MaxSubfiles
    BY <2>1, ReaderFacts, SlotFacts, SMT
  <2>3. files[reader.dir][reader.pos].inode \in Inodes
    BY <2>1, <2>2, ListedFacts, InodeFacts DEF At
  <2> QED
    BY <1>3, <2>1, <2>2, <2>3 DEF RestTypeOK, L
<1>10. CASE CloseDir
  BY <1>3, <1>10, NoReaderType DEF CloseDir, RestTypeOK, L
<1>11. CASE UNCHANGED vars
  BY <1>3, <1>11 DEF vars, RestTypeOK, L
<1> QED
  BY <1>4, <1>5, <1>6, <1>7, <1>8, <1>9, <1>10, <1>11 DEF Next

-----------------------------------------------------------------------------
(* The invariant and its consequences.                                    *)

\* The inductive invariant of the tree, the link counts and the listing.
TreeInv ==
    Tree /\ RestTypeOK /\ NoIsland /\ LinkCounts /\ ListingInv

\* Steps that move no inode: a new name in place, and the listing.
LEMMA QuietKeepsTree ==
    ASSUME TreeInv, Same({}), kind' = kind, nlink' = nlink, torn' = torn
    PROVE  OnlyDirectories' /\ RootApart' /\ OneEntry' /\ NoIsland' /\ LinkCounts'
<1>1. \A e \in Inodes, k \in Slots : At(e, k)' = At(e, k)
  BY DEF Same
<1>2. \A e \in Inodes : Listed(e)' = Listed(e)
  BY SameLists, SMT
<1>3. OnlyDirectories'
  BY <1>1 DEF TreeInv, Tree, OnlyDirectories
<1>4. RootApart'
  BY <1>1 DEF TreeInv, Tree, RootApart
<1>5. OneEntry'
  <2>1. \A x \in Inodes \ torn : OneEntryAfter(x)
    BY <1>1, SMT DEF TreeInv, Tree, OneEntry, OneEntryAfter
  <2> QED
    BY <2>1 DEF OneEntry, OneEntryAfter
<1>6. NoIsland'
  BY <1>2, SMT DEF TreeInv, NoIsland, InUse
<1>7. LinkCounts'
  BY <1>2 DEF TreeInv, LinkCounts
<1> QED
  BY <1>3, <1>4, <1>5, <1>6, <1>7

\* The image of mkfs.
LEMMA InitIsTree == Init => TreeInv
<1> SUFFICES ASSUME Init PROVE TreeInv
  OBVIOUS
<1>1. /\ files = [d \in Inodes |-> EmptyBlock]
      /\ kind = [i \in Inodes |-> IF i = Root THEN "dir" ELSE "none"]
      /\ nlink = [i \in Inodes |-> IF i = Root THEN 2 ELSE 0]
      /\ torn = {} /\ reader = NoReader /\ astray = FALSE
  BY DEF Init
<1>2. \A d \in Inodes, k \in Slots : At(d, k) = 0
  BY <1>1 DEF At, EmptyBlock, NoEntry
<1>3. \A d \in Inodes : Listed(d) = {}
  BY <1>2 DEF Listed, At
<1>4. Tree
  BY <1>1, <1>2, InitHolds, InodeFacts DEF Tree, OnlyDirectories, RootApart, OneEntry
<1>5. RestTypeOK
  <2>1. 0 \in 0 .. LinkSpan - 1 /\ 2 \in 0 .. LinkSpan - 1
    BY LinkFacts, SlotFacts, SMT
  <2> QED
    BY <1>1, <2>1, NoReaderType DEF RestTypeOK
<1>6. NoIsland
  BY <1>1 DEF NoIsland, InUse
<1>7. LinkCounts
  <2>1. \A i \in Inodes : {e \in Listed(i) : kind[e] = "dir"} = {}
    BY <1>3
  <2> QED
    BY <1>1, <2>1, FS_EmptySet, SMT DEF LinkCounts
<1>8. ListingInv
  <2>1. reader.dir = 0
    BY <1>1 DEF NoReader
  <2> QED
    BY <2>1, InodeFacts DEF ListingInv, ListingOf
<1> QED
  BY <1>4, <1>5, <1>6, <1>7, <1>8 DEF TreeInv

\* Every operation, and every step of a listing.
LEMMA NextKeepsTree == TreeInv /\ [Next]_vars => TreeInv'
<1> SUFFICES ASSUME TreeInv, [Next]_vars PROVE TreeInv'
  OBVIOUS
<1>1. /\ Tree /\ NamespaceInv /\ OnlyDirectories /\ RestTypeOK /\ NoIsland
      /\ LinkCounts /\ ListingInv /\ nlink \in [Inodes -> 0 .. LinkSpan - 1]
  BY DEF TreeInv, Tree, RestTypeOK
<1>2. NamespaceInv' /\ RestTypeOK'
  BY <1>1, NextKeeps, NextKeepsRest DEF Keeps
<1> SUFFICES OnlyDirectories' /\ RootApart' /\ OneEntry' /\ NoIsland' /\ LinkCounts'
             /\ ListingInv'
  BY <1>2 DEF TreeInv, Tree
<1>3. ASSUME NEW d \in Inodes, NEW name \in Names, NEW t \in {"file", "dir"},
             Create(d, name, t)
      PROVE  OnlyDirectories' /\ RootApart' /\ OneEntry' /\ NoIsland' /\ LinkCounts'
             /\ ListingInv'
  <2>1. PICK i \in Inodes, n \in Slots : CreateShape(d, i, n, t)
    BY <1>1, <1>3, CreateHasShape
  <2>2. OnlyDirectories' /\ RootApart' /\ OneEntry'
    BY <1>1, <2>1, CreateKeepsTree
  <2>3. NoIsland' /\ LinkCounts'
    BY <1>1, <1>2, <2>1, CreateKeepsNoIsland, CreateKeepsLinkCounts
  <2> QED
    BY <1>1, <2>1, <2>2, <2>3, ShapesKeepListing
<1>4. ASSUME NEW d \in Inodes, NEW i \in Inodes, Unlink(d, i) \/ Rmdir(d, i)
      PROVE  OnlyDirectories' /\ RootApart' /\ OneEntry' /\ NoIsland' /\ LinkCounts'
             /\ ListingInv'
  <2>1. PICK f \in Slots : UnlinkShape(d, i, f)
    BY <1>1, <1>4, UnlinkHasShape
  <2>2. OnlyDirectories' /\ RootApart' /\ OneEntry'
    BY <1>1, <2>1, UnlinkKeepsTree
  <2>3. NoIsland' /\ LinkCounts'
    BY <1>1, <2>1, UnlinkKeepsNoIsland, UnlinkKeepsLinkCounts
  <2> QED
    BY <1>1, <2>1, <2>2, <2>3, ShapesKeepListing
<1>5. ASSUME Same({}), kind' = kind, nlink' = nlink, torn' = torn, reader' = reader
      PROVE  OnlyDirectories' /\ RootApart' /\ OneEntry' /\ NoIsland' /\ LinkCounts'
             /\ ListingInv'
  <2>1. ASSUME NEW r \in Inodes PROVE ListingOf(r)'
    BY <1>1, <1>5, SameKeepsListing
  <2> QED
    BY <1>5, <2>1, QuietKeepsTree DEF ListingInv
<1>6. files' = files => Same({})
  BY DEF Same, At
<1>7. ASSUME NEW d \in Inodes, NEW old \in Names, NEW new \in Names,
             RenameInPlace(d, old, new)
      PROVE  OnlyDirectories' /\ RootApart' /\ OneEntry' /\ NoIsland' /\ LinkCounts'
             /\ ListingInv'
  <2> DEFINE hits == {k \in Slots : files[d][k].filename = old}
             m == Max(hits)
  <2>1. kind' = kind /\ nlink' = nlink /\ torn' = torn /\ reader' = reader
    BY <1>7 DEF RenameInPlace
  <2>2. CASE hits = {}
    BY <1>5, <1>6, <1>7, <2>1, <2>2 DEF RenameInPlace
  <2>3. CASE hits # {}
    <3>1. m \in Slots
      BY <2>3, MaxFacts
    <3>2. files' = [files EXCEPT ![d][m].filename = Stored[new]]
      BY <1>7, <2>3 DEF RenameInPlace
    <3> HIDE DEF m
    <3>3. Same({})
      BY <1>1, <3>1, <3>2, SMT DEF NamespaceInv, Entries, Same, At
    <3> QED
      BY <1>5, <2>1, <3>3
  <2> QED
    BY <2>2, <2>3
<1>8. ASSUME NEW from \in Inodes, NEW i \in Inodes, NEW to \in Inodes, NEW name \in Names,
             \/ Rename(from, i, to, name)
             \/ RenameTorn(from, i, to, name)
             \/ RenameAstray(from, i, to, name)
      PROVE  OnlyDirectories' /\ RootApart' /\ OneEntry' /\ NoIsland' /\ LinkCounts'
             /\ ListingInv'
  <2>1. CASE Rename(from, i, to, name)
    <3>1. PICK f \in Slots, n \in Slots : MoveShape(from, i, to, f, n)
      BY <1>1, <2>1, MoveHasShape
    <3>2. OnlyDirectories' /\ RootApart' /\ OneEntry'
      BY <1>1, <3>1, MoveKeepsTree
    <3>3. NoIsland' /\ LinkCounts'
      BY <1>1, <1>2, <3>1, MoveKeepsNoIsland, MoveKeepsLinkCounts
    <3> QED
      BY <1>1, <3>1, <3>2, <3>3, ShapesKeepListing
  <2>2. CASE RenameTorn(from, i, to, name)
    <3>1. PICK f \in Slots, n \in Slots : TornShape(from, i, to, f, n)
      BY <1>1, <2>2, MoveHasShape
    <3>2. OnlyDirectories' /\ RootApart' /\ OneEntry'
      BY <1>1, <3>1, TornKeepsTree
    <3>3. torn' # {}
      BY <3>1 DEF TornShape
    <3>4. NoIsland' /\ LinkCounts'
      BY <3>3 DEF NoIsland, LinkCounts
    <3> QED
      BY <1>1, <3>1, <3>2, <3>4, ShapesKeepListing
  <2>3. CASE RenameAstray(from, i, to, name)
    BY <1>5, <1>6, <2>3 DEF RenameAstray
  <2> QED
    BY <1>8, <2>1, <2>2, <2>3
<1>9. ASSUME files' = files, kind' = kind, nlink' = nlink, torn' = torn, ListingInv'
      PROVE  OnlyDirectories' /\ RootApart' /\ OneEntry' /\ NoIsland' /\ LinkCounts'
             /\ ListingInv'
  BY <1>6, <1>9, QuietKeepsTree
<1>10. ASSUME NEW d \in Inodes, OpenDir(d)
       PROVE  OnlyDirectories' /\ RootApart' /\ OneEntry' /\ NoIsland' /\ LinkCounts'
              /\ ListingInv'
  <2>1. ListingInv'
    BY <1>1, <1>10, OpenDirKeepsListing
  <2> QED
    BY <1>9, <1>10, <2>1 DEF OpenDir
<1>11. CASE Iterate
  <2>1. ListingInv'
    BY <1>1, <1>11, IterateKeepsListing
  <2> QED
    BY <1>9, <1>11, <2>1 DEF Iterate
<1>12. CASE CloseDir
  <2>1. reader'.dir = 0
    BY <1>12 DEF CloseDir, NoReader
  <2>2. ListingInv'
    BY <2>1, InodeFacts DEF ListingInv, ListingOf
  <2> QED
    BY <1>9, <1>12, <2>2 DEF CloseDir
<1>13. CASE UNCHANGED vars
  BY <1>5, <1>6, <1>13 DEF vars
<1> QED
  BY <1>3, <1>4, <1>7, <1>8, <1>10, <1>11, <1>12, <1>13 DEF Next

\* The inductive invariant holds of every state.
THEOREM TreeInvariant == Spec => []TreeInv
BY InitIsTree, NextKeepsTree, PTL DEF Spec

\* The slots that hold an inode, counted as TreeIsWhole does.
LEMMA TreeInvIsWhole == TreeInv => TreeIsWhole
<1> SUFFICES ASSUME TreeInv PROVE TreeIsWhole
  OBVIOUS
<1>1. Tree /\ RootApart /\ OneEntry /\ NoIsland
  BY DEF TreeInv, Tree
<1>2. ASSUME NEW i \in Inodes \ torn
      PROVE  Cardinality({e \in Inodes \X Slots : files[e[1]][e[2]].inode = i})
               = IF kind[i] = "none" \/ i = Root THEN 0 ELSE 1
  <2> DEFINE E == {e \in Inodes \X Slots : files[e[1]][e[2]].inode = i}
  <2>1. ASSUME NEW e \in E PROVE e[1] \in Inodes /\ e[2] \in Slots /\ At(e[1], e[2]) = i
                                 /\ e = <<e[1], e[2]>>
    BY SMT DEF At
  <2>2. CASE kind[i] = "none" \/ i = Root
    <3>1. \A d \in Inodes, k \in Slots : At(d, k) # i
      BY <1>1, <2>2 DEF RootApart, OneEntry
    <3>2. E = {}
      BY <2>1, <3>1
    <3> QED
      BY <2>2, <3>2, FS_EmptySet
  <2>3. CASE ~(kind[i] = "none" \/ i = Root)
    <3>1. PICK d \in Inodes, k \in Slots : At(d, k) = i
      BY <1>1, <2>3 DEF OneEntry
    <3>2. <<d, k>> \in E
      BY <3>1 DEF At
    <3>3. ASSUME NEW e \in E PROVE e = <<d, k>>
      <4>1. e[1] = d /\ e[2] = k
        BY <1>1, <2>1, <3>1, SMTT(30) DEF OneEntry
      <4> QED
        BY <2>1, <4>1
    <3>4. E = {<<d, k>>}
      BY <3>2, <3>3
    <3> HIDE DEF E
    <3>5. Cardinality(E) = 1
      BY <3>4, FS_Singleton
    <3> QED
      BY <2>3, <3>5 DEF E
  <2> QED
    BY <2>2, <2>3
<1>3. torn = {} => Subtree(Root) = {i \in Inodes : kind[i] # "none"}
  BY <1>1, NoIslandIsReachable DEF InUse
<1> QED
  BY <1>2, <1>3 DEF TreeIsWhole

\* Types of the directory blocks, inodes, allocator and listing: the link count
\* and the position of a listing included.
THEOREM NamespaceTypes == Spec => []TypeOK
<1>1. TreeInv => TypeOK
  <2> SUFFICES ASSUME TreeInv PROVE TypeOK
    OBVIOUS
  <2>1. NamespaceInv /\ InodesAccounted /\ RestTypeOK
    BY DEF TreeInv, Tree, NamespaceInv
  <2>2. ifree \subseteq Inodes /\ nrFreeInodes \in Nat
    BY <2>1, FreeInodesAreFinite, SMT DEF InodesAccounted
  <2> QED
    BY <2>1, <2>2 DEF NamespaceInv, Entries, RestTypeOK, TypeOK
<1> QED
  BY <1>1, TreeInvariant, PTL

\* No create, unlink, rmdir or rename orphans an inode or leaves an entry
\* behind: an inode in use other than the root has one entry, a free one none,
\* and everything in use is reachable from the root, unless a rename failed half
\* way on it.
THEOREM TreeStaysWhole == Spec => []TreeIsWhole
BY TreeInvIsWhole, TreeInvariant, PTL

\* The link count of a directory stays 2 plus its subdirectories and that of a
\* file 1, and never wraps, if no rename failed half way.
THEOREM LinkCountsStayRight == Spec => []LinkCounts
<1>1. TreeInv => LinkCounts
  BY DEF TreeInv
<1> QED
  BY <1>1, TreeInvariant, PTL

\* ouichefs_iterate, with other operations between its calls, never commits a
\* file twice.
THEOREM ListingsHaveNoDuplicate == Spec => []NoDuplicateListing
<1>1. TreeInv => NoDuplicateListing
  <2> SUFFICES ASSUME TreeInv, reader.dir # 0 PROVE NoDuplicateListing
    BY DEF NoDuplicateListing
  <2>1. reader.dir \in Inodes
    BY ReaderFacts DEF TreeInv
  <2> QED
    BY <2>1 DEF TreeInv, ListingInv, ListingOf, At, NoDuplicateListing
<1> QED
  BY <1>1, TreeInvariant, PTL

\* It misses at most one entry for each removal behind its position.
THEOREM SkipsStayBounded == Spec => []SkipsAreBounded
<1>1. TreeInv => SkipsAreBounded
  <2> SUFFICES ASSUME TreeInv, reader.dir # 0 PROVE SkipsAreBounded
    BY DEF SkipsAreBounded
  <2> DEFINE K == {k \in Slots : k < reader.pos
                     /\ files[reader.dir][k].inode \in reader.stable \ reader.seen}
             M == {k \in Slots : k < reader.pos
                     /\ files[reader.dir][k].inode \notin reader.seen}
  <2>1. reader.dir \in Inodes /\ reader.gone \in Nat
    BY ReaderFacts DEF TreeInv
  <2>2. Cardinality(M) <= reader.gone
    BY <2>1 DEF TreeInv, ListingInv, ListingOf, Missed, At
  <2>3. K \in SUBSET M /\ M \in SUBSET Slots /\ K \in SUBSET Slots
    OBVIOUS
  <2> HIDE DEF K, M
  <2>4. Cardinality(K) <= Cardinality(M) /\ Cardinality(K) \in Nat /\ Cardinality(M) \in Nat
    BY <2>3, SlotSets, FS_Subset
  <2>5. Cardinality(K) <= reader.gone
    BY <2>1, <2>2, <2>4, SMT
  <2> QED
    BY <2>5 DEF K, SkipsAreBounded
<1> QED
  BY <1>1, TreeInvariant, PTL
=============================================================================
