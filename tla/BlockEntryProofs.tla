-------------------------- MODULE BlockEntryProofs --------------------------
(***************************************************************************)
(* The packing of src/bitmap.h is exact on every partition whose block     *)
(* numbers fit the field, whatever the widths of the fields are.           *)
(***************************************************************************)
EXTENDS BlockEntry, TLAPS

\* The partition is not larger than the number field allows.
NumbersFit == NrBlocks <= NumSpan

\* Division by a parameter: quotient and remainder of q * n + r.
LEMMA DivMod ==
  ASSUME NEW n \in Nat \ {0}, NEW q \in Nat, NEW r \in 0..n-1
  PROVE  (q * n + r) % n = r /\ (q * n + r) \div n = q
<1> DEFINE a == q * n + r
           d == a \div n
           m == a % n
<1>1. q * n \in Nat /\ a \in Nat
  OBVIOUS
<1>2. d \in Int /\ m \in 0..n-1 /\ a = n * d + m
  BY <1>1
<1> QED
  <2> HIDE DEF d, m
  <2>1. ~ d < q
    <3> SUFFICES ASSUME d < q PROVE FALSE
      OBVIOUS
    <3>1. q - d >= 1 /\ (q - d) * n = m - r
      BY <1>2
    <3>2. (q - d) * n >= n
      BY <1>2, <3>1
    <3> QED
      BY <1>2, <3>1, <3>2
  <2>2. ~ q < d
    <3> SUFFICES ASSUME q < d PROVE FALSE
      OBVIOUS
    <3>1. d - q >= 1 /\ (d - q) * n = r - m
      BY <1>2
    <3>2. (d - q) * n >= n
      BY <1>2, <3>1
    <3> QED
      BY <1>2, <3>1, <3>2
  <2>3. d = q
    BY <1>2, <2>1, <2>2
  <2> QED
    BY <1>2, <2>3 DEF d, m

\* The number of a word, and the size of the flag, are in range.
LEMMA FieldFacts ==
  ASSUME NEW e \in Nat
  PROVE  /\ Flag \in Nat /\ Flag >= NumSpan
         /\ GetBlockNumber(e) \in 0..NumSpan-1
         /\ GetBlockNumber(e) < Flag
<1>1. NumSpan \in Nat \ {0} /\ SizeSpan \in Nat \ {0}
  BY SpansOK
<1>2. Flag \in Nat /\ Flag >= NumSpan
  BY <1>1 DEF Flag
<1>3. GetBlockNumber(e) \in 0..NumSpan-1
  BY <1>1 DEF GetBlockNumber
<1> QED
  BY <1>1, <1>2, <1>3

\* What set_block_size stores, the other functions of src/bitmap.h return,
\* and the block number stays.
LEMMA SetBlockSizeExact ==
  ASSUME NEW e \in Nat, NEW n \in 0..SizeSpan
  PROVE  LET w == SetBlockSize(e, n)
         IN  /\ w \in Words
             /\ GetBlockNumber(w) = GetBlockNumber(e)
             /\ GetBlockSize(w) = n
             /\ BlockEmpty(w) <=> n = 0
             /\ w = 0 <=> n = 0 /\ GetBlockNumber(e) = 0
<1> DEFINE r == GetBlockNumber(e)
           w == SetBlockSize(e, n)
<1>0. /\ NumSpan \in Nat \ {0} /\ SizeSpan \in Nat \ {0}
      /\ Flag \in Nat /\ Flag >= NumSpan /\ r \in 0..NumSpan-1 /\ r < Flag
  BY FieldFacts, SpansOK
<1> HIDE DEF r
<1>1. CASE n = 0
  <2>1. w = r
    BY <1>1 DEF SetBlockSize, r
  <2>2. r % NumSpan = r
    <3>1. 0 * NumSpan + r = r
      BY <1>0
    <3> QED
      BY <1>0, <3>1, DivMod
  <2> QED
    BY <1>0, <1>1, <2>1, <2>2 DEF GetBlockSize, GetBlockNumber, BlockEmpty, Words, r
<1>2. CASE n # 0
  <2> DEFINE c == (n - 1) * NumSpan
  <2>1. w = Flag + c + r
    BY <1>0, <1>2 DEF SetBlockSize, r
  <2>2. n - 1 \in Nat /\ c \in Nat /\ n <= SizeSpan
    BY <1>0, <1>2
  <2>3. c + NumSpan <= Flag
    <3>1. c + NumSpan = n * NumSpan
      BY <1>0, <2>2
    <3>2. n * NumSpan <= SizeSpan * NumSpan
      BY <1>0, <2>2
    <3> QED
      BY <1>0, <3>1, <3>2 DEF Flag
  <2>4. (w - Flag) \div NumSpan = n - 1
    <3>1. w - Flag = (n - 1) * NumSpan + r
      BY <1>0, <2>1, <2>2
    <3> QED
      BY <1>0, <2>2, <3>1, DivMod
  <2>5. w % NumSpan = r
    <3> DEFINE q == SizeSpan + (n - 1)
    <3>1. q \in Nat /\ w = q * NumSpan + r
      BY <1>0, <2>1, <2>2 DEF Flag
    <3> HIDE DEF q
    <3> QED
      BY <1>0, <3>1, DivMod
  <2> HIDE DEF c, w
  <2>6. w \in Words /\ w >= Flag /\ w # 0
    BY <1>0, <2>1, <2>2, <2>3 DEF Words
  <2>7. GetBlockSize(w) = n /\ ~BlockEmpty(w)
    BY <1>0, <1>2, <2>2, <2>4, <2>6 DEF GetBlockSize, BlockEmpty, Words
  <2>8. GetBlockNumber(w) = GetBlockNumber(e)
    BY <2>5 DEF GetBlockNumber, r
  <2> QED
    BY <1>2, <2>6, <2>7, <2>8 DEF w
<1> QED
  BY <1>1, <1>2

\* A new entry holds the number of its block, if that fits, and no bytes.
LEMMA NewEntryExact ==
  ASSUME NumbersFit, NEW bno \in 1..NrBlocks-1
  PROVE  LET w == SetBlockNumber(bno)
         IN  /\ w \in Words /\ w # 0
             /\ GetBlockNumber(w) = bno
             /\ GetBlockSize(w) = 0
             /\ BlockEmpty(w)
             /\ SetBlockSize(w, 0) = w
<1>1. /\ NumSpan \in Nat \ {0} /\ Flag \in Nat /\ Flag >= NumSpan
      /\ bno \in 0..NumSpan-1 /\ bno \in Nat
  BY FieldFacts, SpansOK DEF NumbersFit
<1>2. bno % NumSpan = bno
  <2>1. 0 * NumSpan + bno = bno
    BY <1>1
  <2> QED
    BY <1>1, <2>1, DivMod
<1> QED
  BY <1>1, <1>2 DEF SetBlockNumber, SetBlockSize, GetBlockNumber, GetBlockSize,
                    BlockEmpty, Words

-----------------------------------------------------------------------------
\* The inductive step: each use of the entry keeps the word and the pair in
\* agreement.
LEMMA NextPacks ==
  ASSUME NumbersFit, TypeOK, PackingExact, [Next]_vars
  PROVE  TypeOK' /\ PackingExact'
<1>0. NrBlocks \in Nat /\ SizeSpan \in Nat \ {0} /\ entry \in Nat
  BY SpansOK DEF TypeOK, Words
<1>1. CASE UNCHANGED vars
  BY <1>1 DEF vars, TypeOK, PackingExact
<1>2. ASSUME NEW bno \in 1..NrBlocks-1, Reserve(bno) \/ MapBlock(bno)
      PROVE  TypeOK' /\ PackingExact'
  <2>1. entry' = SetBlockNumber(bno) /\ num' = bno /\ size' = 0
    BY <1>2, NewEntryExact DEF Reserve, MapBlock
  <2> QED
    BY <1>0, <2>1, NewEntryExact DEF TypeOK, PackingExact
<1>3. ASSUME NEW n \in 1..SizeSpan, SetSize(n) \/ Grow(n) \/ Shrink(n)
      PROVE  TypeOK' /\ PackingExact'
  <2>1. num # 0 /\ num' = num /\ size' \in 0..SizeSpan
        /\ entry' = SetBlockSize(entry, size')
    BY <1>0, <1>3 DEF TypeOK, PackingExact, SetSize, Grow, Shrink,
                      AddBlockSize, SubBlockSize
  <2> QED
    BY <1>0, <2>1, SetBlockSizeExact DEF TypeOK, PackingExact
<1>4. CASE Clear
  <2>1. entry' = 0 /\ num' = 0 /\ size' = 0 /\ NrBlocks # 0
    BY <1>0, <1>4 DEF Clear, TypeOK
  <2> QED
    BY <1>0, <2>1, FieldFacts, SpansOK
       DEF TypeOK, PackingExact, Words, GetBlockNumber, GetBlockSize, BlockEmpty
<1> QED
  BY <1>1, <1>2, <1>3, <1>4 DEF Next

\* On a partition whose block numbers fit in 19 bits every word of an index
\* block is the pair of a block number and a size that the other modules
\* take it for, after any sequence of the operations of write.c, defrag.c
\* and file.c on it.
THEOREM PackingIsExact ==
  ASSUME NumbersFit, NrBlocks # 0
  PROVE  Spec => []PackingExact
<1>1. Init => TypeOK /\ PackingExact
  BY FieldFacts, SpansOK
     DEF Init, TypeOK, PackingExact, Words, GetBlockNumber, GetBlockSize, BlockEmpty
<1>2. TypeOK /\ PackingExact /\ [Next]_vars => TypeOK' /\ PackingExact'
  BY NextPacks
<1> QED
  BY <1>1, <1>2, PTL DEF Spec
=============================================================================
