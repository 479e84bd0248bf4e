--------------------------- MODULE SfsFileProofs ---------------------------
(***************************************************************************)
(* Every block of an SFS disk stays free or named in one place, for disks, *)
(* block maps and numbers of files of any size: proofs about SfsFile.      *)
(***************************************************************************)
EXTENDS SfsFile, FunctionTheorems, FiniteSetTheorems, TLAPS

(* One index for every place of f's map that can name a block: the entry   *)
(* block at -1, the direct blocks, then those in the entry block.          *)
Places == -1..(SFS_NDIRECT + SFS_BLK_NENTRY - 1)

NameAt(f, n) ==
    IF n = -1 THEN Node(f).indirect
    ELSE IF n < SFS_NDIRECT THEN Node(f).direct[n]
    ELSE IF Node(f).indirect = 0 THEN 0
    ELSE entries[Node(f).indirect][n - SFS_NDIRECT]

(* Every block is free or has one name.                                    *)
OneName ==
    /\ \A f, g \in Files : \A m, n \in Places :
          NameAt(f, m) # 0 /\ NameAt(f, m) = NameAt(g, n) => f = g /\ m = n
    /\ \A b \in Blocks :
          b \notin freemap <=> \E f \in Files : \E n \in Places : NameAt(f, n) = b

(* blocks counts names without a gap, and no more than there are entries   *)
(* for.                                                                    *)
NoGap(f) ==
    /\ Node(f).blocks <= SFS_NDIRECT + SFS_BLK_NENTRY
    /\ \A n \in 0..(Node(f).blocks - 1) : NameAt(f, n) # 0
    /\ \A n \in Direct : n >= Node(f).blocks => NameAt(f, n) = 0

MapOK == \A f \in Files : NoGap(f)

(* The inode on the disk names what a clean inode in memory names, though  *)
(* a block in the entry block may have been added without making it dirty. *)
(* Only inodes in memory are dirty.                                        *)
CacheOK ==
    \A f \in Files :
        /\ dirty[f] => Loaded(f)
        /\ Loaded(f) /\ ~dirty[f] =>
              /\ Named(disk[f]) = Named(din[f])
              /\ disk[f].blocks <= din[f].blocks
              /\ disk[f].blocks # din[f].blocks => disk[f].blocks >= SFS_NDIRECT

(* The maps, and the calls that work on them.                              *)
MapTypeOK ==
    /\ freemap \subseteq Blocks
    /\ entries \in [Blocks -> [Entries -> BlockNo]]
    /\ disk \in [Files -> Inode]
    /\ din \in [Files -> Inode]
    /\ dirty \in [Files -> BOOLEAN]
    /\ file \in [Handles -> Files \cup {NULL}]

MapInv ==
    /\ MapTypeOK
    /\ unused = Cardinality(freemap)
    /\ OneName
    /\ MapOK
    /\ CacheOK

CallInv ==
    /\ pos \in [Handles -> Nat]
    /\ op \in Ops
    /\ panic \in {"none", "bmap_load", "bmap_get", "truncfile"}
    /\ op # Idle => OpFile # NULL

(* The inductive invariant.                                                *)
IInv == MapInv /\ CallInv

-----------------------------------------------------------------------------
(* bitmap_alloc finds a free block if there is one.                        *)
LEMMA MinIn ==
    ASSUME NEW S, S \subseteq Nat, S # {}
    PROVE  Min(S) \in S
<1> DEFINE R == OpToRel(<, Nat)
<1>1. \E x \in S : \A y \in S : ~(<<y, x>> \in R)
  BY WFMin, NatLessThanWellFounded
<1>2. \A x, y \in S : <<y, x>> \in R <=> y < x
  BY DEF OpToRel
<1> HIDE DEF R
<1>3. \E x \in S : \A y \in S : x <= y
  <2>1. PICK x \in S : \A y \in S : ~(<<y, x>> \in R)
    BY <1>1
  <2>2. ASSUME NEW y \in S PROVE x <= y
    <3>1. ~(y < x)
      BY <1>2, <2>1
    <3>2. x \in Nat /\ y \in Nat
      OBVIOUS
    <3> QED
      BY <3>1, <3>2
  <2> QED
    BY <2>2
<1> QED
  BY <1>3 DEF Min

LEMMA DivNat ==
    ASSUME NEW a \in Nat, NEW n \in Nat \ {0}
    PROVE  a \div n \in Nat /\ a % n \in 0..(n - 1)
<1> DEFINE q == a \div n
           r == a % n
<1>1. q \in Int /\ r \in 0..(n - 1) /\ a = n * q + r
  OBVIOUS
<1> HIDE DEF q, r
<1>2. q < 0 => n * q <= -n
  BY <1>1
<1>3. q >= 0
  BY <1>1, <1>2
<1> QED
  BY <1>1, <1>3 DEF q, r

LEMMA FreeCounted ==
    ASSUME MapTypeOK
    PROVE  IsFiniteSet(freemap) /\ Cardinality(freemap) \in Nat
BY FS_Subset, FS_CardinalityType, SfsFileAssumption DEF MapTypeOK

LEMMA NodeType ==
    ASSUME MapTypeOK, NEW f \in Files
    PROVE  Node(f) \in Inode
BY DEF MapTypeOK, Node

LEMMA NameType ==
    ASSUME MapTypeOK, NEW f \in Files, NEW n \in Places
    PROVE  NameAt(f, n) \in BlockNo
<1>1. /\ Node(f).indirect \in BlockNo
      /\ Node(f).direct \in [Direct -> BlockNo]
  BY NodeType DEF Inode
<1>2. n = -1 \/ n \in Direct \/ (n >= SFS_NDIRECT /\ n - SFS_NDIRECT \in Entries)
  BY SfsFileAssumption DEF Places, Direct, Entries
<1>3. Node(f).indirect # 0 => entries[Node(f).indirect] \in [Entries -> BlockNo]
  BY <1>1 DEF MapTypeOK, BlockNo
<1> QED
  BY <1>1, <1>2, <1>3, SfsFileAssumption DEF NameAt, Places, Direct, BlockNo

-----------------------------------------------------------------------------
(* What a step on one file in memory leaves alone.                         *)
LEMMA OtherNodes ==
    ASSUME MapTypeOK, NEW f \in Files, Loaded(f), UNCHANGED <<disk, file>>,
           \A g \in Files \ {f} : din'[g] = din[g]
    PROVE  /\ Node(f) = din[f] /\ Node(f)' = din'[f]
           /\ \A g \in Files \ {f} : Node(g)' = Node(g)
           /\ \A g \in Files : Loaded(g)' <=> Loaded(g)
BY DEF Node, Loaded

(* Three ways to change the names: not at all, ...                         *)
LEMMA NamesKept ==
    ASSUME OneName, freemap' = freemap,
           \A g \in Files : \A n \in Places : NameAt(g, n)' = NameAt(g, n)
    PROVE  OneName'
BY DEF OneName

(* ... by names for some free blocks ...                                   *)
LEMMA NamesAdded ==
    ASSUME MapTypeOK, OneName, NEW bs, bs \subseteq freemap, freemap' = freemap \ bs,
           \A g \in Files : \A n \in Places :
              \/ NameAt(g, n)' = NameAt(g, n)
              \/ NameAt(g, n) = 0 /\ NameAt(g, n)' \in bs,
           \A b \in bs : \E g \in Files : \E n \in Places : NameAt(g, n)' = b,
           \A f, g \in Files : \A m, n \in Places :
              NameAt(f, m)' \in bs /\ NameAt(f, m)' = NameAt(g, n)' => f = g /\ m = n
    PROVE  OneName'
<1>0. 0 \notin Blocks /\ bs \subseteq Blocks
  BY SfsFileAssumption DEF MapTypeOK
<1>1. \A g \in Files : \A n \in Places : NameAt(g, n) \notin bs
  BY <1>0 DEF OneName
<1>2. ASSUME NEW f \in Files, NEW g \in Files, NEW m \in Places, NEW n \in Places,
             NameAt(f, m)' # 0, NameAt(f, m)' = NameAt(g, n)'
      PROVE  f = g /\ m = n
  <2>1. CASE NameAt(f, m)' \in bs
    BY <1>2, <2>1
  <2>2. CASE NameAt(f, m)' \notin bs
    <3>1. NameAt(f, m)' = NameAt(f, m) /\ NameAt(g, n)' = NameAt(g, n)
      BY <1>2, <2>2
    <3>2. NameAt(f, m) # 0 /\ NameAt(f, m) = NameAt(g, n)
      BY <1>2, <3>1
    <3> QED
      BY <3>2 DEF OneName
  <2> QED
    BY <2>1, <2>2
<1>3. ASSUME NEW b \in Blocks
      PROVE  b \notin freemap' <=> \E f \in Files : \E n \in Places : NameAt(f, n)' = b
  <2>1. CASE b \in bs
    BY <2>1
  <2>2. CASE b \notin bs
    <3>1. \A g \in Files : \A n \in Places : NameAt(g, n)' = b <=> NameAt(g, n) = b
      BY <1>0, <2>2
    <3> QED
      BY <2>2, <3>1 DEF OneName
  <2> QED
    BY <2>1, <2>2
<1> QED
  BY <1>2, <1>3 DEF OneName

(* ... in the simplest case one ...                                        *)
LEMMA NameAdded ==
    ASSUME MapTypeOK, OneName, NEW f \in Files, NEW m \in Places, NEW b \in freemap,
           freemap' = freemap \ {b}, NameAt(f, m) = 0, NameAt(f, m)' = b,
           \A g \in Files : \A n \in Places :
              g # f \/ n # m => NameAt(g, n)' = NameAt(g, n)
    PROVE  OneName'
<1>1. b \in Blocks
  BY DEF MapTypeOK
<1>2. \A g \in Files : \A n \in Places : NameAt(g, n) # b
  BY <1>1 DEF OneName
<1>3. PICK bs : bs = {b}
  OBVIOUS
<1>4. bs \subseteq freemap /\ freemap' = freemap \ bs
  BY <1>3
<1>5. \A g \in Files : \A n \in Places :
         \/ NameAt(g, n)' = NameAt(g, n)
         \/ NameAt(g, n) = 0 /\ NameAt(g, n)' \in bs
  BY <1>3
<1>6. \A c \in bs : \E g \in Files : \E n \in Places : NameAt(g, n)' = c
  BY <1>3
<1>7. \A h, g \in Files : \A k, n \in Places :
         NameAt(h, k)' \in bs /\ NameAt(h, k)' = NameAt(g, n)' => h = g /\ k = n
  BY <1>2, <1>3
<1> HIDE <1>3
<1> QED
  BY <1>4, <1>5, <1>6, <1>7, NamesAdded

(* ... or by taking one away.                                              *)
LEMMA NameRemoved ==
    ASSUME MapTypeOK, OneName, NEW f \in Files, NEW m \in Places, NEW b \in Blocks,
           NameAt(f, m) = b, NameAt(f, m)' = 0, freemap' = freemap \cup {b},
           \A g \in Files : \A n \in Places :
              g # f \/ n # m => NameAt(g, n)' = NameAt(g, n)
    PROVE  OneName'
<1>0. 0 \notin Blocks
  BY SfsFileAssumption
<1>1. \A g \in Files : \A n \in Places : g # f \/ n # m => NameAt(g, n) # b
  BY <1>0 DEF OneName
<1>2. ASSUME NEW h \in Files, NEW g \in Files, NEW k \in Places, NEW n \in Places,
             NameAt(h, k)' # 0, NameAt(h, k)' = NameAt(g, n)'
      PROVE  h = g /\ k = n
  BY <1>2 DEF OneName
<1>3. ASSUME NEW c \in Blocks
      PROVE  c \notin freemap' <=> \E g \in Files : \E n \in Places : NameAt(g, n)' = c
  BY <1>0, <1>1 DEF OneName
<1> QED
  BY <1>2, <1>3 DEF OneName

(* A file whose map does not change stays as it is.                        *)
LEMMA NoGapKept ==
    ASSUME MapTypeOK, NEW f \in Files, NoGap(f), Node(f)' = Node(f),
           \A n \in Places : NameAt(f, n)' = NameAt(f, n)
    PROVE  NoGap(f)'
<1>1. /\ Node(f).blocks \in Nat
      /\ Node(f).blocks <= SFS_NDIRECT + SFS_BLK_NENTRY
  BY NodeType DEF NoGap, Inode
<1>2. \A n \in 0..(Node(f).blocks - 1) : n \in Places
  BY <1>1, SfsFileAssumption DEF Places
<1>3. \A n \in Direct : n \in Places
  BY SfsFileAssumption DEF Places, Direct
<1> QED
  BY <1>2, <1>3 DEF NoGap

(* A block behind the last one; with the first in the entry block comes    *)
(* the entry block.                                                        *)
LEMMA NoGapAppended ==
    ASSUME MapTypeOK, NEW f \in Files, NEW n \in Places, n = Node(f).blocks, NoGap(f),
           Node(f)'.blocks = n + 1, NameAt(f, n)' # 0,
           \A m \in Places : m \notin {-1, n} => NameAt(f, m)' = NameAt(f, m)
    PROVE  NoGap(f)'
<1>1. n \in Nat
  BY NodeType DEF Inode
<1>2. n + 1 <= SFS_NDIRECT + SFS_BLK_NENTRY
  BY SfsFileAssumption DEF Places
<1>3. \A m \in 0..n : m \in Places /\ m # -1 /\ (m = n \/ m \in 0..(n - 1))
  BY <1>1, <1>2, SfsFileAssumption DEF Places
<1>4. \A m \in Direct : m \in Places /\ m # -1 /\ (m >= n + 1 => m >= n /\ m # n)
  BY <1>1, SfsFileAssumption DEF Places, Direct
<1>5. \A m \in 0..n : NameAt(f, m)' # 0
  BY <1>3 DEF NoGap
<1>6. \A m \in Direct : m >= n + 1 => NameAt(f, m)' = 0
  BY <1>4 DEF NoGap
<1>7. Node(f)'.blocks - 1 = n
  BY <1>1
<1>8. \A m \in 0..(Node(f)'.blocks - 1) : NameAt(f, m)' # 0
  BY <1>5, <1>7
<1> QED
  BY <1>2, <1>6, <1>8 DEF NoGap

(* The last block goes.                                                    *)
LEMMA NoGapRemoved ==
    ASSUME MapTypeOK, NEW f \in Files, NEW n \in Places, n >= 0,
           Node(f).blocks = n + 1, NoGap(f),
           Node(f)'.blocks = n, NameAt(f, n)' = 0,
           \A m \in Places : m # n => NameAt(f, m)' = NameAt(f, m)
    PROVE  NoGap(f)'
<1>1. n \in Nat /\ n <= SFS_NDIRECT + SFS_BLK_NENTRY
  BY SfsFileAssumption DEF Places
<1>2. \A m \in 0..(n - 1) : m \in Places /\ m # n /\ m \in 0..(Node(f).blocks - 1)
  BY <1>1, SfsFileAssumption DEF Places
<1>3. \A m \in Direct : m \in Places /\ (m >= n => m = n \/ m >= n + 1)
  BY <1>1, SfsFileAssumption DEF Places, Direct
<1>4. \A m \in 0..(n - 1) : NameAt(f, m)' # 0
  BY <1>2 DEF NoGap
<1>5. \A m \in Direct : m >= n => NameAt(f, m)' = 0
  BY <1>3 DEF NoGap
<1> QED
  BY <1>1, <1>4, <1>5 DEF NoGap

(* A step on one file in memory: what is to be shown about that file.      *)
LEMMA OneFileStep ==
    ASSUME MapInv, NEW f \in Files, Loaded(f), UNCHANGED <<disk, file>>,
           MapTypeOK', unused' = Cardinality(freemap'), OneName', NoGap(f)',
           \A g \in Files \ {f} : din'[g] = din[g] /\ dirty'[g] = dirty[g],
           \A g \in Files \ {f} : \A n \in Places : NameAt(g, n)' = NameAt(g, n),
           ~dirty'[f] => /\ ~dirty[f]
                         /\ Named(din'[f]) = Named(din[f])
                         /\ din[f].blocks >= SFS_NDIRECT
                         /\ din'[f].blocks >= din[f].blocks
    PROVE  MapInv'
<1>1. /\ Node(f) = din[f] /\ Node(f)' = din'[f]
      /\ \A g \in Files \ {f} : Node(g)' = Node(g)
      /\ \A g \in Files : Loaded(g)' <=> Loaded(g)
  BY OtherNodes DEF MapInv
<1>2. ASSUME NEW g \in Files \ {f} PROVE NoGap(g)'
  BY <1>1, NoGapKept DEF MapInv, MapOK
<1>3. MapOK'
  BY <1>2 DEF MapOK
<1>4. din[f].blocks \in Nat /\ din'[f].blocks \in Nat /\ disk[f].blocks \in Nat
  BY DEF MapInv, MapTypeOK, Inode
<1>5. ASSUME Loaded(f)', ~dirty'[f]
      PROVE  /\ Named(disk'[f]) = Named(din'[f])
             /\ disk'[f].blocks <= din'[f].blocks
             /\ disk'[f].blocks # din'[f].blocks => disk'[f].blocks >= SFS_NDIRECT
  BY <1>4, <1>5, SfsFileAssumption DEF MapInv, CacheOK
<1>6. CacheOK'
  BY <1>1, <1>5 DEF MapInv, CacheOK
<1> QED
  BY <1>3, <1>6 DEF MapInv

-----------------------------------------------------------------------------
(* sfs_bmap_get_nolock takes a free block for a direct entry that names    *)
(* none, ...                                                               *)
LEMMA GrowDirectKeeps ==
    ASSUME MapInv, NEW f \in Files, Loaded(f), grow_direct(f), UNCHANGED <<disk, file>>
    PROVE  MapInv'
<1>0. PICK n, b : n = din[f].blocks /\ b = FirstFree
  OBVIOUS
<1>1. /\ n < SFS_NDIRECT
      /\ freemap # {}
      /\ freemap' = freemap \ {b}
      /\ unused' = unused - Cardinality({b})
      /\ din' = [din EXCEPT ![f].direct[n] = b, ![f].blocks = n + 1]
      /\ dirty' = [dirty EXCEPT ![f] = TRUE]
      /\ UNCHANGED <<entries, disk, file>>
  BY <1>0 DEF grow_direct, sfs_block_alloc
<1>2. b \in freemap /\ b \in Blocks /\ b # 0
  BY <1>0, <1>1, MinIn, SfsFileAssumption DEF FirstFree, MapInv, MapTypeOK
<1>3. n \in Nat /\ n \in Direct /\ n \in Places
  BY <1>0, <1>1, SfsFileAssumption DEF MapInv, MapTypeOK, Inode, Direct, Places
<1>4. /\ din' \in [Files -> Inode]
      /\ \A g \in Files \ {f} : din'[g] = din[g]
      /\ din'[f].blocks = n + 1
      /\ din'[f].indirect = din[f].indirect
      /\ din'[f].direct = [din[f].direct EXCEPT ![n] = b]
  <2>1. din[f] \in Inode /\ din[f].direct \in [Direct -> BlockNo]
    BY DEF MapInv, MapTypeOK, Inode
  <2> DEFINE d == [din[f].direct EXCEPT ![n] = b]
  <2>2. /\ din'[f] = [din[f] EXCEPT !.direct = d, !.blocks = n + 1]
        /\ \A g \in Files \ {f} : din'[g] = din[g]
        /\ din' = [g \in Files |-> din'[g]]
    BY <1>1 DEF MapInv, MapTypeOK
  <2>3. d \in [Direct -> BlockNo]
    BY <1>2, <1>3, <2>1 DEF BlockNo
  <2> HIDE DEF d
  <2>4. din'[f] \in Inode /\ din'[f].blocks = n + 1 /\ din'[f].direct = d
    <3>1. n + 1 \in Nat
      BY <1>3
    <3>2. PICK node : node = din[f]
      OBVIOUS
    <3>3. din'[f] = [size |-> node.size, blocks |-> n + 1, direct |-> d,
                     indirect |-> node.indirect]
      BY <2>1, <2>2, <3>2 DEF Inode
    <3>4. din'[f] \in Inode
      BY <2>1, <2>3, <3>1, <3>2, <3>3 DEF Inode
    <3>5. din'[f].blocks = n + 1 /\ din'[f].direct = d
      BY <2>1, <2>2 DEF Inode
    <3> QED
      BY <3>4, <3>5
  <2>5. din' \in [Files -> Inode]
    BY <2>2, <2>4 DEF MapInv, MapTypeOK
  <2> QED
    BY <2>1, <2>2, <2>4, <2>5 DEF Inode, d
<1>5. MapTypeOK'
  BY <1>1, <1>4 DEF MapInv, MapTypeOK
<1>6. unused' = Cardinality(freemap')
  BY <1>1, <1>2, FreeCounted, FS_RemoveElement, FS_Singleton DEF MapInv
<1>7. /\ Node(f) = din[f] /\ Node(f)' = din'[f]
      /\ \A g \in Files \ {f} : Node(g)' = Node(g)
      /\ \A g \in Files : Loaded(g)' <=> Loaded(g)
  BY <1>1, <1>4, OtherNodes DEF MapInv
<1>8. /\ NameAt(f, n) = 0 /\ NameAt(f, n)' = b
      /\ \A g \in Files, m \in Places : g # f \/ m # n => NameAt(g, m)' = NameAt(g, m)
  <2>1. NameAt(f, n) = 0
    BY <1>0, <1>3, <1>7 DEF MapInv, MapOK, NoGap
  <2>2. din[f].direct \in [Direct -> BlockNo]
    BY DEF MapInv, MapTypeOK, Inode
  <2>3. NameAt(f, n)' = b
    BY <1>1, <1>3, <1>4, <1>7, <2>2 DEF NameAt
  <2>4. ASSUME NEW m \in Places, m # n PROVE NameAt(f, m)' = NameAt(f, m)
    <3>1. m = -1 \/ m >= SFS_NDIRECT \/ m \in Direct
      BY SfsFileAssumption DEF Places, Direct
    <3> QED
      BY <1>1, <1>4, <1>7, <2>2, <2>4, <3>1 DEF NameAt
  <2>5. ASSUME NEW g \in Files \ {f}, NEW m \in Places PROVE NameAt(g, m)' = NameAt(g, m)
    BY <1>1, <1>7 DEF NameAt
  <2> QED
    BY <2>1, <2>3, <2>4, <2>5
<1>9. OneName'
  BY <1>1, <1>2, <1>3, <1>8, NameAdded DEF MapInv
<1>10. NoGap(f)'
  BY <1>0, <1>2, <1>3, <1>4, <1>7, <1>8, NoGapAppended DEF MapInv, MapOK
<1>11. /\ dirty'[f]
       /\ \A g \in Files \ {f} : din'[g] = din[g] /\ dirty'[g] = dirty[g]
       /\ \A g \in Files \ {f} : \A m \in Places : NameAt(g, m)' = NameAt(g, m)
  BY <1>1, <1>4, <1>8 DEF MapInv, MapTypeOK
<1> QED
  BY <1>1, <1>5, <1>6, <1>9, <1>10, <1>11, OneFileStep

LEMMA IndexType ==
    ASSUME NEW n \in Places, n >= SFS_NDIRECT
    PROVE  n - SFS_NDIRECT \in Entries
BY SfsFileAssumption DEF Places, Entries

(* What changes when only blocks does.                                     *)
LEMMA BlocksUpdate ==
    ASSUME MapTypeOK, NEW f \in Files, NEW k \in Nat, din' = [din EXCEPT ![f].blocks = k]
    PROVE  /\ din' \in [Files -> Inode]
           /\ \A g \in Files \ {f} : din'[g] = din[g]
           /\ din'[f].blocks = k
           /\ Named(din'[f]) = Named(din[f])
<1>1. PICK node : node = din[f]
  OBVIOUS
<1>2. node \in Inode
  BY <1>1 DEF MapTypeOK
<1>3. /\ din'[f] = [node EXCEPT !.blocks = k]
      /\ \A g \in Files \ {f} : din'[g] = din[g]
      /\ din' = [g \in Files |-> din'[g]]
  BY <1>1 DEF MapTypeOK
<1>4. din'[f] = [size |-> node.size, blocks |-> k, direct |-> node.direct,
                 indirect |-> node.indirect]
  BY <1>2, <1>3 DEF Inode
<1>5. din'[f] \in Inode
  BY <1>2, <1>4 DEF Inode
<1>6. din' \in [Files -> Inode]
  BY <1>3, <1>5 DEF MapTypeOK
<1> QED
  BY <1>1, <1>3, <1>4, <1>6 DEF Named

(* A change of one entry in the entry block of f is no change of another   *)
(* file's map: no two files have the same entry block.                     *)
LEMMA EntryChanged ==
    ASSUME MapInv, NEW f \in Files, Loaded(f), UNCHANGED <<disk, file>>,
           NEW n \in Places, n >= SFS_NDIRECT, NEW ent \in Blocks, NEW b,
           ent = din[f].indirect,
           entries'[ent][n - SFS_NDIRECT] = b,
           \A j \in Entries \ {n - SFS_NDIRECT} : entries'[ent][j] = entries[ent][j],
           \A c \in Blocks \ {ent} : entries'[c] = entries[c],
           \A g \in Files \ {f} : din'[g] = din[g],
           Named(din'[f]) = Named(din[f])
    PROVE  /\ NameAt(f, n) = entries[ent][n - SFS_NDIRECT]
           /\ NameAt(f, n)' = b
           /\ \A g \in Files : \A m \in Places :
                 g # f \/ m # n => NameAt(g, m)' = NameAt(g, m)
<1>0. 0 \notin Blocks /\ SFS_NDIRECT \in Nat /\ n # -1
  BY SfsFileAssumption
<1>1. /\ Node(f) = din[f] /\ Node(f)' = din'[f]
      /\ \A g \in Files \ {f} : Node(g)' = Node(g)
  BY OtherNodes DEF MapInv
<1>2. din'[f].direct = din[f].direct /\ din'[f].indirect = ent
  BY DEF Named
<1>3. n - SFS_NDIRECT \in Entries
  BY IndexType
<1>4. NameAt(f, n) = entries[ent][n - SFS_NDIRECT] /\ NameAt(f, n)' = b
  BY <1>0, <1>1, <1>2 DEF NameAt, Places
<1>5. ASSUME NEW m \in Places, m # n PROVE NameAt(f, m)' = NameAt(f, m)
  <2>1. CASE m = -1 \/ m < SFS_NDIRECT
    BY <1>1, <1>2, <2>1 DEF NameAt
  <2>2. CASE m >= SFS_NDIRECT
    <3>1. m - SFS_NDIRECT \in Entries \ {n - SFS_NDIRECT} /\ m # -1 /\ ~(m < SFS_NDIRECT)
      BY <1>0, <1>5, <2>2, SfsFileAssumption DEF Places, Entries
    <3> QED
      BY <1>0, <1>1, <1>2, <3>1 DEF NameAt
  <2> QED
    BY <1>0, <2>1, <2>2 DEF Places
<1>6. ASSUME NEW g \in Files \ {f}, NEW m \in Places PROVE NameAt(g, m)' = NameAt(g, m)
  <2>1. Node(g).indirect \in BlockNo
    BY NodeType DEF MapInv, Inode
  <2>2. Node(g).indirect # ent
    <3>1. -1 \in Places
      BY SfsFileAssumption DEF Places
    <3>2. NameAt(f, -1) = ent /\ NameAt(g, -1) = Node(g).indirect
      BY <1>1 DEF NameAt
    <3> QED
      BY <1>0, <3>1, <3>2 DEF MapInv, OneName
  <2>3. Node(g).indirect # 0 => entries'[Node(g).indirect] = entries[Node(g).indirect]
    BY <2>1, <2>2 DEF BlockNo
  <2> QED
    BY <1>1, <2>3 DEF NameAt
<1> QED
  BY <1>4, <1>5, <1>6

(* ... for an entry in the entry block, unless an earlier attempt has left *)
(* one there, ...                                                          *)
LEMMA GrowIndirectKeeps ==
    ASSUME MapInv, NEW f \in Files, Loaded(f), grow_indirect(f), UNCHANGED <<disk, file>>
    PROVE  MapInv'
<1>0. PICK n, b, ent : n = din[f].blocks /\ b = FirstFree /\ ent = din[f].indirect
  OBVIOUS
<1>1. /\ n >= SFS_NDIRECT
      /\ n - SFS_NDIRECT < SFS_BLK_NENTRY
      /\ ent # 0
      /\ \/ /\ entries[ent][n - SFS_NDIRECT] = 0
            /\ freemap # {}
            /\ freemap' = freemap \ {b}
            /\ unused' = unused - Cardinality({b})
            /\ entries' = [entries EXCEPT ![ent][n - SFS_NDIRECT] = b]
         \/ /\ entries[ent][n - SFS_NDIRECT] # 0
            /\ UNCHANGED <<freemap, unused, entries>>
      /\ din' = [din EXCEPT ![f].blocks = n + 1]
      /\ UNCHANGED dirty
  BY <1>0 DEF grow_indirect, sfs_block_alloc
<1>2. n \in Nat /\ n + 1 \in Nat /\ n \in Places /\ n # -1 /\ ent \in Blocks
  BY <1>0, <1>1, SfsFileAssumption DEF MapInv, MapTypeOK, Inode, Places, BlockNo
<1>3. /\ din' \in [Files -> Inode]
      /\ \A g \in Files \ {f} : din'[g] = din[g]
      /\ din'[f].blocks = n + 1
      /\ Named(din'[f]) = Named(din[f])
  BY <1>1, <1>2, BlocksUpdate DEF MapInv
<1>4. /\ Node(f) = din[f] /\ Node(f)' = din'[f]
      /\ \A g \in Files \ {f} : Node(g)' = Node(g)
  BY <1>3, OtherNodes DEF MapInv
<1>5. NameAt(f, n) = entries[ent][n - SFS_NDIRECT]
  BY <1>0, <1>1, <1>2, <1>4, SfsFileAssumption DEF NameAt
<1>6. /\ MapTypeOK'
      /\ unused' = Cardinality(freemap')
      /\ OneName'
      /\ NameAt(f, n)' # 0
      /\ \A g \in Files : \A m \in Places :
            g # f \/ m # n => NameAt(g, m)' = NameAt(g, m)
  <2>1. CASE entries[ent][n - SFS_NDIRECT] = 0
    <3>1. /\ freemap # {}
          /\ freemap' = freemap \ {b}
          /\ unused' = unused - Cardinality({b})
          /\ entries' = [entries EXCEPT ![ent][n - SFS_NDIRECT] = b]
      BY <1>1, <2>1
    <3>2. b \in freemap /\ b \in Blocks /\ b # 0 /\ b \in BlockNo
      BY <1>0, <3>1, MinIn, SfsFileAssumption DEF FirstFree, MapInv, MapTypeOK, BlockNo
    <3>3. /\ entries'[ent][n - SFS_NDIRECT] = b
          /\ \A j \in Entries \ {n - SFS_NDIRECT} : entries'[ent][j] = entries[ent][j]
          /\ \A c \in Blocks \ {ent} : entries'[c] = entries[c]
          /\ entries' \in [Blocks -> [Entries -> BlockNo]]
      <4>1. n - SFS_NDIRECT \in Entries
        BY <1>1, <1>2, IndexType
      <4> QED
        BY <1>2, <3>1, <3>2, <4>1 DEF MapInv, MapTypeOK
    <3>4. /\ NameAt(f, n)' = b
          /\ \A g \in Files : \A m \in Places :
                g # f \/ m # n => NameAt(g, m)' = NameAt(g, m)
      BY <1>0, <1>1, <1>2, <1>3, <3>3, EntryChanged
    <3>5. MapTypeOK'
      BY <1>1, <1>3, <3>1, <3>3 DEF MapInv, MapTypeOK
    <3>6. unused' = Cardinality(freemap')
      BY <3>1, <3>2, FreeCounted, FS_RemoveElement, FS_Singleton DEF MapInv
    <3>7. OneName'
      BY <1>2, <1>5, <2>1, <3>1, <3>2, <3>4, NameAdded DEF MapInv
    <3> QED
      BY <3>2, <3>4, <3>5, <3>6, <3>7
  <2>2. CASE entries[ent][n - SFS_NDIRECT] # 0
    <3>1. UNCHANGED <<freemap, unused, entries>>
      BY <1>1, <2>2
    <3>2. \A g \in Files : \A m \in Places : NameAt(g, m)' = NameAt(g, m)
      BY <1>3, <1>4, <3>1 DEF NameAt, Named
    <3>3. MapTypeOK'
      BY <1>1, <1>3, <3>1 DEF MapInv, MapTypeOK
    <3>4. OneName'
      BY <3>1, <3>2, NamesKept DEF MapInv
    <3>5. NameAt(f, n)' # 0
      BY <1>2, <1>5, <2>2, <3>2
    <3> QED
      BY <3>1, <3>2, <3>3, <3>4, <3>5 DEF MapInv
  <2> QED
    BY <2>1, <2>2
<1>7. NoGap(f)'
  BY <1>0, <1>2, <1>3, <1>4, <1>6, NoGapAppended DEF MapInv, MapOK
<1>8. /\ ~dirty'[f] => /\ ~dirty[f]
                       /\ Named(din'[f]) = Named(din[f])
                       /\ din[f].blocks >= SFS_NDIRECT
                       /\ din'[f].blocks >= din[f].blocks
      /\ \A g \in Files \ {f} : din'[g] = din[g] /\ dirty'[g] = dirty[g]
      /\ \A g \in Files \ {f} : \A m \in Places : NameAt(g, m)' = NameAt(g, m)
  BY <1>0, <1>1, <1>2, <1>3, <1>6 DEF MapInv, MapTypeOK
<1> QED
  BY <1>6, <1>7, <1>8, OneFileStep

(* ... or for both an entry block and its first entry.                     *)
LEMMA GrowEntryBlockKeeps ==
    ASSUME MapInv, NEW f \in Files, Loaded(f), grow_entry_block(f), UNCHANGED <<disk, file>>
    PROVE  MapInv'
<1>0. PICK n, ent, b :
         n = din[f].blocks /\ ent = FirstFree /\ b = Min(freemap \ {ent})
  OBVIOUS
<1>1. /\ n >= SFS_NDIRECT
      /\ n - SFS_NDIRECT < SFS_BLK_NENTRY
      /\ din[f].indirect = 0
      /\ Cardinality(freemap) > 1
      /\ freemap' = freemap \ {ent, b}
      /\ unused' = unused - Cardinality({ent, b})
      /\ entries' = [entries EXCEPT ![ent] =
                        [k \in Entries |-> IF k = n - SFS_NDIRECT THEN b ELSE 0]]
      /\ din' = [din EXCEPT ![f].indirect = ent, ![f].blocks = n + 1]
      /\ dirty' = [dirty EXCEPT ![f] = TRUE]
  BY <1>0 DEF grow_entry_block, sfs_block_alloc
<1>2. /\ ent \in freemap /\ b \in freemap /\ ent # b
      /\ ent \in Blocks /\ b \in Blocks /\ ent # 0 /\ b # 0
      /\ Cardinality(freemap') = Cardinality(freemap) - 2
      /\ Cardinality({ent, b}) = 2
  <2>1. freemap \subseteq Nat /\ IsFiniteSet(freemap) /\ Cardinality(freemap) \in Nat
    BY FreeCounted, SfsFileAssumption DEF MapInv, MapTypeOK
  <2>2. ent \in freemap
    BY <1>0, <1>1, <2>1, MinIn, FS_EmptySet DEF FirstFree
  <2>3. /\ IsFiniteSet(freemap \ {ent})
        /\ Cardinality(freemap \ {ent}) = Cardinality(freemap) - 1
    BY <2>1, <2>2, FS_RemoveElement
  <2>4. freemap \ {ent} # {}
    BY <1>1, <2>1, <2>3, FS_EmptySet
  <2>5. b \in freemap \ {ent}
    BY <1>0, <2>1, <2>4, MinIn
  <2>6. Cardinality((freemap \ {ent}) \ {b}) = Cardinality(freemap) - 2
    <3>1. Cardinality((freemap \ {ent}) \ {b}) = Cardinality(freemap \ {ent}) - 1
      BY <2>3, <2>5, FS_RemoveElement
    <3> QED
      BY <2>1, <2>3, <3>1
  <2>7. freemap' = (freemap \ {ent}) \ {b}
    BY <1>1
  <2>8. Cardinality({ent, b}) = 2
    <3>1. {ent, b} = {b} \cup {ent} /\ ent \notin {b}
      BY <2>5
    <3>2. IsFiniteSet({b}) /\ Cardinality({b}) = 1
      BY FS_Singleton
    <3> QED
      BY <3>1, <3>2, FS_AddElement, SMTT(30)
  <2> QED
    BY <2>2, <2>5, <2>6, <2>7, <2>8, SfsFileAssumption DEF MapInv, MapTypeOK
<1>3. /\ n \in Nat /\ n + 1 \in Nat /\ n \in Places /\ n # -1
      /\ n - SFS_NDIRECT \in Entries
      /\ -1 \in Places
  BY <1>0, <1>1, SfsFileAssumption DEF MapInv, MapTypeOK, Inode, Places, Entries
<1>4. /\ din' \in [Files -> Inode]
      /\ \A g \in Files \ {f} : din'[g] = din[g]
      /\ din'[f].blocks = n + 1
      /\ din'[f].indirect = ent
      /\ din'[f].direct = din[f].direct
  <2>1. PICK node : node = din[f]
    OBVIOUS
  <2>2. node \in Inode
    BY <2>1 DEF MapInv, MapTypeOK
  <2>3. /\ din'[f] = [node EXCEPT !.indirect = ent, !.blocks = n + 1]
        /\ \A g \in Files \ {f} : din'[g] = din[g]
        /\ din' = [g \in Files |-> din'[g]]
    BY <1>1, <2>1 DEF MapInv, MapTypeOK
  <2>4. din'[f] = [size |-> node.size, blocks |-> n + 1, direct |-> node.direct,
                   indirect |-> ent]
    BY <2>2, <2>3 DEF Inode
  <2>5. din'[f] \in Inode
    BY <1>2, <1>3, <2>2, <2>4 DEF Inode, BlockNo
  <2>6. din' \in [Files -> Inode]
    BY <2>3, <2>5 DEF MapInv, MapTypeOK
  <2> QED
    BY <2>1, <2>3, <2>4, <2>6
<1>5. /\ Node(f) = din[f] /\ Node(f)' = din'[f]
      /\ \A g \in Files \ {f} : Node(g)' = Node(g)
  BY <1>4, OtherNodes DEF MapInv
<1>6. /\ entries' \in [Blocks -> [Entries -> BlockNo]]
      /\ \A c \in Blocks \ {ent} : entries'[c] = entries[c]
      /\ \A k \in Entries : entries'[ent][k] = IF k = n - SFS_NDIRECT THEN b ELSE 0
  BY <1>1, <1>2 DEF MapInv, MapTypeOK, BlockNo
<1>7. MapTypeOK'
  BY <1>1, <1>4, <1>6 DEF MapInv, MapTypeOK
<1>8. unused' = Cardinality(freemap')
  BY <1>1, <1>2 DEF MapInv
<1>9. /\ NameAt(f, -1) = 0 /\ NameAt(f, -1)' = ent
      /\ NameAt(f, n) = 0 /\ NameAt(f, n)' = b
  <2>1. NameAt(f, -1) = 0 /\ NameAt(f, -1)' = ent
    BY <1>1, <1>4, <1>5 DEF NameAt
  <2>2. NameAt(f, n) = 0 /\ ~(n < SFS_NDIRECT)
    BY <1>1, <1>3, <1>5, SfsFileAssumption DEF NameAt
  <2>3. NameAt(f, n)' = b
    BY <1>2, <1>3, <1>4, <1>5, <1>6, <2>2 DEF NameAt
  <2> QED
    BY <2>1, <2>2, <2>3
<1>10. ASSUME NEW m \in Places, m # n, m # -1 PROVE NameAt(f, m)' = NameAt(f, m)
  <2>1. CASE m < SFS_NDIRECT
    BY <1>4, <1>5, <1>10, <2>1 DEF NameAt
  <2>2. CASE ~(m < SFS_NDIRECT)
    <3>1. m >= SFS_NDIRECT /\ m - SFS_NDIRECT # n - SFS_NDIRECT
      BY <1>3, <1>10, <2>2, SfsFileAssumption DEF Places
    <3>2. m - SFS_NDIRECT \in Entries
      BY <3>1, IndexType
    <3>3. NameAt(f, m) = 0
      BY <1>1, <1>5, <1>10, <2>2 DEF NameAt
    <3>4. NameAt(f, m)' = 0
      BY <1>2, <1>4, <1>5, <1>6, <1>10, <2>2, <3>1, <3>2 DEF NameAt
    <3> QED
      BY <3>3, <3>4
  <2> QED
    BY <2>1, <2>2
<1>11. ASSUME NEW g \in Files \ {f}, NEW m \in Places PROVE NameAt(g, m)' = NameAt(g, m)
  <2>1. Node(g).indirect \in BlockNo
    BY NodeType DEF MapInv, Inode
  <2>2. Node(g).indirect # ent
    <3>1. NameAt(g, -1) = Node(g).indirect
      BY DEF NameAt
    <3> QED
      BY <1>2, <1>3, <3>1 DEF MapInv, OneName
  <2>3. Node(g).indirect # 0 => entries'[Node(g).indirect] = entries[Node(g).indirect]
    BY <1>6, <2>1, <2>2 DEF BlockNo
  <2> QED
    BY <1>5, <2>3 DEF NameAt
<1>12. OneName'
  <2>1. PICK bs : bs = {ent, b}
    OBVIOUS
  <2>2. bs \subseteq freemap /\ freemap' = freemap \ bs
    BY <1>1, <1>2, <2>1
  <2>3. \A g \in Files : \A m \in Places : NameAt(g, m) \notin bs
    BY <1>2, <2>1 DEF MapInv, OneName
  <2>4. \A g \in Files : \A m \in Places :
           \/ NameAt(g, m)' = NameAt(g, m)
           \/ NameAt(g, m) = 0 /\ NameAt(g, m)' \in bs
    BY <1>9, <1>10, <1>11, <2>1
  <2>5. \A c \in bs : \E g \in Files : \E m \in Places : NameAt(g, m)' = c
    BY <1>3, <1>9, <2>1
  <2>6. ASSUME NEW h \in Files, NEW g \in Files, NEW k \in Places, NEW m \in Places,
               NameAt(h, k)' \in bs, NameAt(h, k)' = NameAt(g, m)'
        PROVE  h = g /\ k = m
    <3>1. h = f /\ g = f
      BY <1>11, <2>3, <2>6
    <3>2. k \in {-1, n} /\ m \in {-1, n}
      BY <1>10, <2>3, <2>6, <3>1
    <3> QED
      BY <1>2, <1>9, <2>6, <3>1, <3>2
  <2>7. \A h, g \in Files : \A k, m \in Places :
           NameAt(h, k)' \in bs /\ NameAt(h, k)' = NameAt(g, m)' => h = g /\ k = m
    BY <2>6
  <2>8. MapTypeOK /\ OneName
    BY DEF MapInv
  <2> QED
    BY <2>2, <2>4, <2>5, <2>7, <2>8, NamesAdded
<1>13. NoGap(f)'
  <2>1. \A m \in Places : m \notin {-1, n} => NameAt(f, m)' = NameAt(f, m)
    BY <1>10
  <2> QED
    BY <1>0, <1>2, <1>3, <1>4, <1>5, <1>9, <2>1, NoGapAppended DEF MapInv, MapOK
<1>14. /\ dirty'[f]
       /\ \A g \in Files \ {f} : din'[g] = din[g] /\ dirty'[g] = dirty[g]
       /\ \A g \in Files \ {f} : \A m \in Places : NameAt(g, m)' = NameAt(g, m)
  BY <1>1, <1>4, <1>11 DEF MapInv, MapTypeOK
<1> QED
  BY <1>7, <1>8, <1>12, <1>13, <1>14, OneFileStep

LEMMA GrowKeeps ==
    ASSUME MapInv, NEW f \in Files, Loaded(f), grow(f), UNCHANGED <<disk, file>>
    PROVE  MapInv'
BY GrowDirectKeeps, GrowIndirectKeeps, GrowEntryBlockKeeps DEF grow

LEMMA GrowOthers ==
    ASSUME MapInv, NEW f \in Files, grow(f)
    PROVE  \A g \in Files \ {f} : din'[g] = din[g]
BY DEF grow, grow_direct, grow_indirect, grow_entry_block, MapInv, MapTypeOK

(* sfs_bmap_truncate_nolock gives back the last block, which is named and  *)
(* so was not free.                                                        *)
LEMMA TruncateKeeps ==
    ASSUME MapInv, NEW f \in Files, Loaded(f), din[f].blocks > 0,
           sfs_bmap_truncate_nolock(f), UNCHANGED <<disk, file>>
    PROVE  MapInv'
<1>0. PICK n, b, ent :
         n = din[f].blocks - 1 /\ b = Mapped(f, n) /\ ent = din[f].indirect
  OBVIOUS
<1>1. /\ freemap' = freemap \cup {b}
      /\ unused' = unused + 1
      /\ IF n < SFS_NDIRECT
         THEN /\ din' = [din EXCEPT ![f].direct[n] = 0, ![f].blocks = n]
              /\ UNCHANGED entries
         ELSE /\ din' = [din EXCEPT ![f].blocks = n]
              /\ entries' = [entries EXCEPT ![ent][n - SFS_NDIRECT] = 0]
      /\ dirty' = [dirty EXCEPT ![f] = TRUE]
  BY <1>0 DEF sfs_bmap_truncate_nolock, sfs_block_free
<1>2. Node(f) = din[f] /\ Node(f) \in Inode
  BY NodeType DEF Node, MapInv
<1>3. NoGap(f)
  BY DEF MapInv, MapOK
<1>4. /\ n \in Nat /\ n + 1 = din[f].blocks /\ n \in Places /\ n # -1
      /\ n \in 0..(Node(f).blocks - 1)
  <2>1. din[f].blocks \in Nat /\ din[f].blocks <= SFS_NDIRECT + SFS_BLK_NENTRY
    BY <1>2, <1>3 DEF Inode, NoGap
  <2> QED
    BY <1>0, <1>2, <2>1, SfsFileAssumption DEF Places
<1>5. NameAt(f, n) = b /\ b # 0 /\ b \in Blocks
  <2>1. NameAt(f, n) = b
    BY <1>0, <1>2, <1>4 DEF NameAt, Mapped
  <2>2. NameAt(f, n) # 0
    BY <1>3, <1>4 DEF NoGap
  <2> QED
    BY <1>4, <2>1, <2>2, NameType DEF MapInv, BlockNo
<1>6. b \notin freemap
  BY <1>4, <1>5 DEF MapInv, OneName
<1>7. unused' = Cardinality(freemap')
  BY <1>1, <1>6, FreeCounted, FS_AddElement DEF MapInv
<1>8. dirty'[f] /\ \A g \in Files \ {f} : dirty'[g] = dirty[g]
  BY <1>1 DEF MapInv, MapTypeOK
<1>9. /\ MapTypeOK'
      /\ \A g \in Files \ {f} : din'[g] = din[g]
      /\ din'[f].blocks = n
      /\ NameAt(f, n)' = 0
      /\ \A g \in Files : \A m \in Places :
            g # f \/ m # n => NameAt(g, m)' = NameAt(g, m)
  <2>1. CASE n < SFS_NDIRECT
    <3>1. din' = [din EXCEPT ![f].direct[n] = 0, ![f].blocks = n] /\ UNCHANGED entries
      BY <1>1, <2>1
    <3>2. n \in Direct
      BY <1>4, <2>1, SfsFileAssumption DEF Direct
    <3>3. PICK node, d : node = din[f] /\ d = [node.direct EXCEPT ![n] = 0]
      OBVIOUS
    <3>4. /\ node \in Inode /\ node.direct \in [Direct -> BlockNo]
          /\ d \in [Direct -> BlockNo]
          /\ d[n] = 0
          /\ \A m \in Direct \ {n} : d[m] = node.direct[m]
      BY <1>2, <3>2, <3>3 DEF Inode, BlockNo
    <3>5. /\ din'[f] = [node EXCEPT !.direct = d, !.blocks = n]
          /\ \A g \in Files \ {f} : din'[g] = din[g]
          /\ din' = [g \in Files |-> din'[g]]
      BY <3>1, <3>3 DEF MapInv, MapTypeOK
    <3>6. din'[f] = [size |-> node.size, blocks |-> n, direct |-> d,
                     indirect |-> node.indirect]
      BY <3>4, <3>5 DEF Inode
    <3>7. din'[f] \in Inode
      BY <1>4, <3>4, <3>6 DEF Inode
    <3>8. din' \in [Files -> Inode]
      BY <3>5, <3>7 DEF MapInv, MapTypeOK
    <3>9. MapTypeOK'
      BY <1>1, <1>5, <3>1, <3>8 DEF MapInv, MapTypeOK
    <3>10. /\ Node(f)' = din'[f]
           /\ \A g \in Files \ {f} : Node(g)' = Node(g)
      BY <3>5, OtherNodes DEF MapInv
    <3>11. NameAt(f, n)' = 0
      BY <1>4, <2>1, <3>4, <3>6, <3>10 DEF NameAt
    <3>12. ASSUME NEW m \in Places, m # n PROVE NameAt(f, m)' = NameAt(f, m)
      <4>1. m = -1 \/ ~(m < SFS_NDIRECT) \/ m \in Direct \ {n}
        BY <3>12, SfsFileAssumption DEF Places, Direct
      <4> QED
        BY <1>2, <3>1, <3>3, <3>4, <3>6, <3>10, <4>1 DEF NameAt
    <3>13. ASSUME NEW g \in Files \ {f}, NEW m \in Places
           PROVE  NameAt(g, m)' = NameAt(g, m)
      BY <3>1, <3>10 DEF NameAt
    <3> QED
      BY <3>5, <3>6, <3>9, <3>11, <3>12, <3>13
  <2>2. CASE ~(n < SFS_NDIRECT)
    <3>1. /\ din' = [din EXCEPT ![f].blocks = n]
          /\ entries' = [entries EXCEPT ![ent][n - SFS_NDIRECT] = 0]
      BY <1>1, <2>2
    <3>2. n >= SFS_NDIRECT /\ n - SFS_NDIRECT \in Entries
      BY <1>4, <2>2, IndexType, SfsFileAssumption
    <3>3. ent \in Blocks
      <4>1. ent # 0
        BY <1>0, <1>2, <1>4, <1>5, <2>2 DEF NameAt
      <4> QED
        BY <1>0, <1>2, <4>1 DEF Inode, BlockNo
    <3>4. /\ din' \in [Files -> Inode]
          /\ \A g \in Files \ {f} : din'[g] = din[g]
          /\ din'[f].blocks = n
          /\ Named(din'[f]) = Named(din[f])
      BY <1>4, <3>1, BlocksUpdate DEF MapInv
    <3>5. /\ entries'[ent][n - SFS_NDIRECT] = 0
          /\ \A j \in Entries \ {n - SFS_NDIRECT} : entries'[ent][j] = entries[ent][j]
          /\ \A c \in Blocks \ {ent} : entries'[c] = entries[c]
          /\ entries' \in [Blocks -> [Entries -> BlockNo]]
      BY <3>1, <3>2, <3>3 DEF MapInv, MapTypeOK, BlockNo
    <3>6. MapTypeOK'
      BY <1>1, <1>5, <3>4, <3>5 DEF MapInv, MapTypeOK
    <3>7. /\ NameAt(f, n)' = 0
          /\ \A g \in Files : \A m \in Places :
                g # f \/ m # n => NameAt(g, m)' = NameAt(g, m)
      BY <1>0, <1>4, <3>2, <3>3, <3>4, <3>5, EntryChanged
    <3> QED
      BY <3>4, <3>6, <3>7
  <2> QED
    BY <2>1, <2>2
<1>10. OneName'
  <2>1. MapTypeOK /\ OneName
    BY DEF MapInv
  <2> QED
    BY <1>1, <1>4, <1>5, <1>9, <2>1, NameRemoved
<1>11. NoGap(f)'
  <2>1. Node(f)' = din'[f]
    BY <1>9, OtherNodes DEF MapInv
  <2>2. Node(f).blocks = n + 1 /\ Node(f)'.blocks = n /\ n >= 0
    BY <1>2, <1>4, <1>9, <2>1
  <2>3. \A m \in Places : m # n => NameAt(f, m)' = NameAt(f, m)
    BY <1>9
  <2> QED
    BY <1>3, <1>4, <1>9, <2>2, <2>3, NoGapRemoved DEF MapInv
<1>12. /\ \A g \in Files \ {f} : din'[g] = din[g] /\ dirty'[g] = dirty[g]
       /\ \A g \in Files \ {f} : \A m \in Places : NameAt(g, m)' = NameAt(g, m)
  BY <1>8, <1>9
<1> QED
  BY <1>7, <1>8, <1>9, <1>10, <1>11, <1>12, OneFileStep

-----------------------------------------------------------------------------
(* Steps that change no name.  A file may lose blocks that the inode on    *)
(* the disk does not count: they stay named in its entry block.            *)
LEMMA NamesStay ==
    ASSUME MapInv, MapTypeOK', CacheOK', UNCHANGED <<freemap, unused, entries>>,
           \A f \in Files :
              /\ Node(f)'.direct = Node(f).direct
              /\ Node(f)'.indirect = Node(f).indirect
              /\ Node(f)'.blocks <= Node(f).blocks
              /\ Node(f)'.blocks # Node(f).blocks => Node(f)'.blocks >= SFS_NDIRECT
    PROVE  MapInv'
<1>1. \A f \in Files : \A n \in Places : NameAt(f, n)' = NameAt(f, n)
  BY DEF NameAt
<1>2. OneName'
  BY <1>1, NamesKept DEF MapInv
<1>3. ASSUME NEW f \in Files PROVE NoGap(f)'
  <2>1. NoGap(f)
    BY DEF MapInv, MapOK
  <2>2. Node(f).blocks \in Nat
    BY NodeType DEF MapInv, Inode
  <2>3. Node(f)'.blocks \in Nat
    <3>1. Node(f)' \in Inode
      BY DEF MapTypeOK, Node
    <3> QED
      BY <3>1 DEF Inode
  <2>4. Node(f)'.blocks <= SFS_NDIRECT + SFS_BLK_NENTRY
    BY <2>1, <2>2, <2>3, SfsFileAssumption DEF NoGap
  <2>5. \A n \in 0..(Node(f)'.blocks - 1) : n \in Places /\ n \in 0..(Node(f).blocks - 1)
    BY <2>2, <2>3, <2>4, SfsFileAssumption DEF Places
  <2>6. \A n \in Direct : n \in Places /\ (n >= Node(f)'.blocks => n >= Node(f).blocks)
    BY <2>2, <2>3, SfsFileAssumption DEF Places, Direct
  <2> QED
    BY <1>1, <2>1, <2>4, <2>5, <2>6 DEF NoGap
<1>4. MapOK'
  BY <1>3 DEF MapOK
<1> QED
  BY <1>2, <1>4 DEF MapInv

LEMMA MapStutter == ASSUME MapInv, UNCHANGED <<map_vars, disk, file>> PROVE MapInv'
<1>1. UNCHANGED <<freemap, unused, entries, din, dirty, disk, file>>
  BY DEF map_vars
<1>2. MapTypeOK' /\ CacheOK'
  BY <1>1 DEF MapInv, MapTypeOK, CacheOK, Loaded
<1>3. \A f \in Files : Node(f)' = Node(f) /\ Node(f).blocks \in Nat
  BY <1>1, NodeType DEF MapInv, Node, Loaded, Inode
<1> QED
  BY <1>1, <1>2, <1>3, NamesStay

(* A new size makes the inode dirty.                                       *)
LEMMA SizeKeeps ==
    ASSUME MapInv, NEW f \in Files, Loaded(f), NEW s \in Nat,
           din' = [din EXCEPT ![f].size = s], dirty' = [dirty EXCEPT ![f] = TRUE],
           UNCHANGED <<freemap, unused, entries, disk, file>>
    PROVE  MapInv'
<1>1. PICK node : node = din[f]
  OBVIOUS
<1>2. node \in Inode /\ node.blocks \in Nat
  BY <1>1 DEF MapInv, MapTypeOK, Inode
<1>3. /\ din'[f] = [node EXCEPT !.size = s]
      /\ \A g \in Files \ {f} : din'[g] = din[g]
      /\ din' = [g \in Files |-> din'[g]]
  BY <1>1 DEF MapInv, MapTypeOK
<1>4. din'[f] = [size |-> s, blocks |-> node.blocks, direct |-> node.direct,
                 indirect |-> node.indirect]
  BY <1>2, <1>3 DEF Inode
<1>5. din'[f] \in Inode
  BY <1>2, <1>4 DEF Inode
<1>6. din' \in [Files -> Inode]
  BY <1>3, <1>5 DEF MapInv, MapTypeOK
<1>7. MapTypeOK'
  BY <1>6 DEF MapInv, MapTypeOK
<1>8. /\ Node(f) = din[f] /\ Node(f)' = din'[f]
      /\ \A g \in Files \ {f} : Node(g)' = Node(g)
      /\ \A g \in Files : Loaded(g)' <=> Loaded(g)
  BY <1>3, OtherNodes DEF MapInv
<1>9. CacheOK'
  BY <1>3, <1>8 DEF MapInv, MapTypeOK, CacheOK
<1>10. \A g \in Files : Node(g).blocks \in Nat
  BY NodeType DEF MapInv, Inode
<1>11. ASSUME NEW g \in Files
       PROVE  /\ Node(g)'.direct = Node(g).direct
              /\ Node(g)'.indirect = Node(g).indirect
              /\ Node(g)'.blocks <= Node(g).blocks
              /\ Node(g)'.blocks # Node(g).blocks => Node(g)'.blocks >= SFS_NDIRECT
  <2>1. CASE g = f
    BY <1>1, <1>2, <1>4, <1>8, <2>1
  <2>2. CASE g # f
    BY <1>8, <1>10, <2>2
  <2> QED
    BY <2>1, <2>2
<1> QED
  BY <1>7, <1>9, <1>11, NamesStay

(* sfs_load_inode: whoever opens a file finds what the last one left.      *)
LEMMA OpenKeeps ==
    ASSUME MapInv, NEW h \in Handles, NEW f \in Files, file[h] = NULL,
           file' = [file EXCEPT ![h] = f], sfs_load_inode(f),
           UNCHANGED <<freemap, unused, entries, dirty, disk>>
    PROVE  /\ MapInv'
           /\ \A g \in Files : Node(g)' = Node(g)
<1>1. /\ Loaded(f)'
      /\ \A g \in Files \ {f} : Loaded(g)' <=> Loaded(g)
  BY SfsFileAssumption DEF Loaded, MapInv, MapTypeOK
<1>2. /\ Loaded(f) => din'[f] = din[f]
      /\ ~Loaded(f) => din'[f] = disk[f]
      /\ \A g \in Files \ {f} : din'[g] = din[g]
      /\ din' \in [Files -> Inode]
  BY DEF sfs_load_inode, MapInv, MapTypeOK
<1>3. MapTypeOK'
  BY <1>2 DEF MapInv, MapTypeOK
<1>4. \A g \in Files : Node(g)' = Node(g)
  BY <1>1, <1>2 DEF Node
<1>5. \A g \in Files : Node(g).blocks \in Nat /\ disk[g].blocks \in Nat
  BY NodeType DEF MapInv, MapTypeOK, Inode
<1>6. CacheOK'
  BY <1>1, <1>2, <1>5 DEF MapInv, CacheOK
<1>7. MapInv'
  BY <1>3, <1>4, <1>5, <1>6, NamesStay
<1> QED
  BY <1>4, <1>7

(* file_dup.                                                               *)
LEMMA DupKeeps ==
    ASSUME MapInv, NEW h \in Handles, NEW to \in Handles, file[h] # NULL, file[to] = NULL,
           file' = [file EXCEPT ![to] = file[h]], UNCHANGED <<map_vars, disk>>
    PROVE  /\ MapInv'
           /\ \A g \in Files : Node(g)' = Node(g)
<1>1. \A g \in Files : Loaded(g)' <=> Loaded(g)
  BY SfsFileAssumption DEF Loaded, MapInv, MapTypeOK
<1>2. UNCHANGED <<freemap, unused, entries, din, dirty, disk>>
  BY DEF map_vars
<1>3. MapTypeOK'
  BY <1>2 DEF MapInv, MapTypeOK
<1>4. \A g \in Files : Node(g)' = Node(g) /\ Node(g).blocks \in Nat
  BY <1>1, <1>2, NodeType DEF MapInv, Node, Inode
<1>5. CacheOK'
  BY <1>1, <1>2 DEF MapInv, CacheOK
<1>6. MapInv'
  BY <1>2, <1>3, <1>4, <1>5, NamesStay
<1> QED
  BY <1>4, <1>6

(* sfs_fsync.                                                              *)
LEMMA FsyncKeeps ==
    ASSUME MapInv, NEW f \in Files, Loaded(f),
           disk' = [disk EXCEPT ![f] = din[f]], dirty' = [dirty EXCEPT ![f] = FALSE],
           UNCHANGED <<freemap, unused, entries, din, file>>
    PROVE  /\ MapInv'
           /\ \A g \in Files : Node(g)' = Node(g)
<1>1. \A g \in Files : Loaded(g)' <=> Loaded(g)
  BY DEF Loaded
<1>2. MapTypeOK'
  BY DEF MapInv, MapTypeOK
<1>3. \A g \in Files : Node(g)' = Node(g) /\ Node(g).blocks \in Nat
  BY <1>1, NodeType DEF MapInv, MapTypeOK, Node, Inode
<1>4. CacheOK'
  <2>1. din[f].blocks \in Nat
    BY DEF MapInv, MapTypeOK, Inode
  <2>2. ASSUME NEW g \in Files, g # f
        PROVE  disk'[g] = disk[g] /\ dirty'[g] = dirty[g]
    BY <2>2 DEF MapInv, MapTypeOK
  <2>3. disk'[f] = din[f] /\ ~dirty'[f]
    BY DEF MapInv, MapTypeOK
  <2> QED
    BY <1>1, <2>1, <2>2, <2>3 DEF MapInv, CacheOK
<1>5. MapInv'
  BY <1>2, <1>3, <1>4, NamesStay
<1> QED
  BY <1>3, <1>5

(* file_close: sfs_reclaim drops a clean inode without writing it, and     *)
(* nothing that it names is lost.                                          *)
LEMMA CloseKeeps ==
    ASSUME IInv, NEW h \in Handles, file_close(h)
    PROVE  /\ MapInv'
           /\ \A g \in Files : Named(Node(g)') = Named(Node(g))
<1>0. PICK f : f = file[h]
  OBVIOUS
<1>1. f \in Files /\ Loaded(f) /\ f # NULL
  BY <1>0 DEF IInv, MapInv, MapTypeOK, Loaded, file_close
<1>2. file' = [file EXCEPT ![h] = NULL] /\ UNCHANGED <<freemap, unused, entries>>
  BY DEF file_close
<1>3. MapInv
  BY DEF IInv
<1>4. \A g \in Files \ {f} : Loaded(g)' <=> Loaded(g)
  BY <1>0, <1>2, <1>3, SfsFileAssumption DEF Loaded, MapInv, MapTypeOK
<1>5. \A g \in Files : Node(g).blocks \in Nat /\ disk[g].blocks \in Nat
  BY <1>3, NodeType DEF MapInv, MapTypeOK, Inode
<1>6. CASE \A k \in Handles \ {h} : file[k] # f
  <2>1. /\ disk' = IF dirty[f] THEN [disk EXCEPT ![f] = din[f]] ELSE disk
        /\ din' = [din EXCEPT ![f] = Empty]
        /\ dirty' = [dirty EXCEPT ![f] = FALSE]
    BY <1>0, <1>6 DEF file_close, sfs_reclaim
  <2>2. ~Loaded(f)'
    BY <1>1, <1>2, <1>3, <1>6 DEF Loaded, MapInv, MapTypeOK
  <2>3. Empty \in Inode
    BY DEF Empty, Inode, BlockNo
  <2>4. MapTypeOK'
    BY <1>1, <1>2, <1>3, <2>1, <2>3 DEF MapInv, MapTypeOK
  <2>5. /\ ~dirty'[f]
        /\ disk'[f] = IF dirty[f] THEN din[f] ELSE disk[f]
        /\ \A g \in Files \ {f} : /\ disk'[g] = disk[g]
                                  /\ din'[g] = din[g]
                                  /\ dirty'[g] = dirty[g]
    BY <1>1, <1>3, <2>1 DEF MapInv, MapTypeOK
  <2>6. CacheOK'
    BY <1>3, <1>4, <2>2, <2>5 DEF MapInv, CacheOK
  <2>7. ASSUME NEW g \in Files
        PROVE  /\ Named(Node(g)') = Named(Node(g))
               /\ Node(g)'.blocks <= Node(g).blocks
               /\ Node(g)'.blocks # Node(g).blocks => Node(g)'.blocks >= SFS_NDIRECT
    <3>1. CASE g # f
      <4>1. Node(g)' = Node(g)
        BY <1>4, <2>5, <3>1 DEF Node
      <4> QED
        BY <1>5, <4>1
    <3>2. CASE g = f
      <4>1. Node(f) = din[f] /\ Node(f)' = disk'[f]
        BY <1>1, <2>2 DEF Node
      <4>2. CASE dirty[f]
        BY <1>5, <2>5, <3>2, <4>1, <4>2
      <4>3. CASE ~dirty[f]
        BY <1>1, <1>3, <1>5, <2>5, <3>2, <4>1, <4>3 DEF MapInv, CacheOK
      <4> QED
        BY <4>2, <4>3
    <3> QED
      BY <3>1, <3>2
  <2>8. MapInv'
    BY <1>2, <1>3, <2>4, <2>6, <2>7, NamesStay DEF Named
  <2> QED
    BY <2>7, <2>8
<1>7. CASE ~(\A k \in Handles \ {h} : file[k] # f)
  <2>1. UNCHANGED <<disk, din, dirty>>
    BY <1>0, <1>7 DEF file_close
  <2>2. \A g \in Files : Loaded(g)' <=> Loaded(g)
    BY <1>1, <1>2, <1>3, <1>4, <1>7 DEF Loaded, MapInv, MapTypeOK
  <2>3. MapTypeOK'
    BY <1>2, <1>3, <2>1 DEF MapInv, MapTypeOK
  <2>4. \A g \in Files : Node(g)' = Node(g)
    BY <2>1, <2>2 DEF Node
  <2>5. CacheOK'
    BY <1>3, <2>1, <2>2 DEF MapInv, CacheOK
  <2>6. MapInv'
    BY <1>2, <1>3, <1>5, <2>3, <2>4, <2>5, NamesStay
  <2> QED
    BY <2>4, <2>6
<1> QED
  BY <1>6, <1>7

-----------------------------------------------------------------------------
(* What CloseKeepsFile says of one step.                                   *)
OthersNamed ==
    \A f \in Files : op = Idle \/ f # OpFile => Named(Node(f)') = Named(Node(f))

LEMMA IoTypes ==
    ASSUME IInv, op.kind = "io"
    PROVE  /\ op \in [kind : {"io"}, h : Handles, write : BOOLEAN, endpos : Nat, alen : Nat]
           /\ op.h \in Handles /\ op.endpos \in Nat /\ op.alen \in Nat
           /\ OpFile \in Files /\ Loaded(OpFile)
           /\ Cur \in Nat
<1>1. op \in [kind : {"io"}, h : Handles, write : BOOLEAN, endpos : Nat, alen : Nat]
  BY DEF IInv, CallInv, Ops, Idle
<1>2. op.h \in Handles /\ op.endpos \in Nat /\ op.alen \in Nat /\ op # Idle
  BY <1>1 DEF Idle
<1>3. OpFile \in Files /\ Loaded(OpFile)
  BY <1>2 DEF IInv, CallInv, MapInv, MapTypeOK, OpFile, Loaded
<1> QED
  BY <1>1, <1>2, <1>3 DEF IInv, CallInv, Cur

LEMMA TruncTypes ==
    ASSUME IInv, op.kind = "trunc"
    PROVE  /\ op.h \in Handles /\ op.len \in Nat
           /\ OpFile \in Files /\ Loaded(OpFile)
           /\ Tblks \in Nat
<1>1. op \in [kind : {"trunc"}, h : Handles, len : Nat, seek : BOOLEAN]
  BY DEF IInv, CallInv, Ops, Idle
<1>2. op.h \in Handles /\ op.len \in Nat /\ op # Idle
  BY <1>1 DEF Idle
<1>3. OpFile \in Files /\ Loaded(OpFile)
  BY <1>2 DEF IInv, CallInv, MapInv, MapTypeOK, OpFile, Loaded
<1>4. op.len + SFS_BLKSIZE - 1 \in Nat /\ SFS_BLKSIZE \in Nat \ {0}
  BY <1>2, SfsFileAssumption
<1>5. Tblks \in Nat
  BY <1>4, DivNat DEF Tblks, ROUNDUP_DIV
<1> QED
  BY <1>2, <1>3, <1>5

(* A step that leaves the maps alone.                                      *)
LEMMA NothingNamed ==
    ASSUME IInv, UNCHANGED <<map_vars, disk, file>>
    PROVE  MapInv' /\ \A f \in Files : Node(f)' = Node(f)
<1>1. MapInv'
  BY MapStutter DEF IInv
<1> QED
  BY <1>1 DEF map_vars, Node, Loaded

(* A step of the call in progress changes no other file.                   *)
LEMMA OthersKept ==
    ASSUME IInv, NEW f \in Files, f = OpFile, Loaded(f), UNCHANGED <<disk, file>>,
           \A g \in Files \ {f} : din'[g] = din[g], op # Idle
    PROVE  OthersNamed
<1>1. \A g \in Files \ {f} : Node(g)' = Node(g)
  BY OtherNodes DEF IInv, MapInv
<1> QED
  BY <1>1 DEF OthersNamed

LEMMA OpenStep ==
    ASSUME IInv, NEW h \in Handles, NEW f \in Files, NEW flag, file_open(h, f, flag)
    PROVE  IInv' /\ OthersNamed
<1>1. MapInv' /\ \A g \in Files : Node(g)' = Node(g)
  BY OpenKeeps DEF IInv, file_open
<1>2. pos' \in [Handles -> Nat]
  <2>1. din'[f].size \in Nat
    BY <1>1 DEF MapInv, MapTypeOK, Inode
  <2> QED
    BY <2>1 DEF file_open, IInv, CallInv
<1>3. /\ op' = Idle \/ op' = [kind |-> "trunc", h |-> h, len |-> 0, seek |-> FALSE]
      /\ file'[h] = f
      /\ panic' = panic
  BY DEF file_open, vfs_open, Ready, IInv, MapInv, MapTypeOK
<1>4. op' \in Ops /\ (op' # Idle => op'.h = h)
  <2>1. CASE op' = Idle
    BY <2>1 DEF Ops
  <2>2. CASE op' = [kind |-> "trunc", h |-> h, len |-> 0, seek |-> FALSE]
    BY <2>2 DEF Ops
  <2> QED
    BY <1>3, <2>1, <2>2
<1>5. CallInv'
  BY <1>2, <1>3, <1>4, SfsFileAssumption DEF IInv, CallInv, OpFile
<1> QED
  BY <1>1, <1>5 DEF IInv, OthersNamed

LEMMA DupStep ==
    ASSUME IInv, NEW h \in Handles, NEW to \in Handles, file_dup(h, to)
    PROVE  IInv' /\ OthersNamed
<1>1. MapInv' /\ \A g \in Files : Node(g)' = Node(g)
  BY DupKeeps DEF IInv, file_dup
<1>2. CallInv'
  BY DEF file_dup, Ready, IInv, CallInv
<1> QED
  BY <1>1, <1>2 DEF IInv, OthersNamed

LEMMA FsyncStep ==
    ASSUME IInv, NEW h \in Handles, file_fsync(h)
    PROVE  IInv' /\ OthersNamed
<1>0. PICK f : f = file[h]
  OBVIOUS
<1>1. f \in Files /\ Loaded(f)
  BY <1>0 DEF file_fsync, IInv, MapInv, MapTypeOK, Loaded
<1>2. MapInv' /\ \A g \in Files : Node(g)' = Node(g)
  <2>1. /\ disk' = [disk EXCEPT ![f] = din[f]]
        /\ dirty' = [dirty EXCEPT ![f] = FALSE]
        /\ UNCHANGED <<freemap, unused, entries, din, file>>
    BY <1>0 DEF file_fsync, file_vars
  <2> QED
    BY <1>1, <2>1, FsyncKeeps DEF IInv
<1>3. CallInv'
  BY DEF file_fsync, file_vars, Ready, IInv, CallInv
<1> QED
  BY <1>2, <1>3 DEF IInv, OthersNamed

LEMMA CloseStep ==
    ASSUME IInv, NEW h \in Handles, file_close(h)
    PROVE  IInv' /\ OthersNamed
<1>1. CallInv'
  BY DEF file_close, Ready, IInv, CallInv
<1> QED
  BY <1>1, CloseKeeps DEF IInv, OthersNamed

(* The start of a read or a write.                                         *)
LEMMA ReadWriteStep ==
    ASSUME IInv, NEW h \in Handles, NEW n \in Lens, file_read(h, n) \/ file_write(h, n)
    PROVE  IInv' /\ OthersNamed
<1>1. /\ UNCHANGED <<map_vars, disk, file, pos, panic>>
      /\ file[h] # NULL
  BY DEF file_read, file_write, file_vars
<1>2. \E endpos \in Nat, w \in BOOLEAN : op' = IoOp(h, w, endpos)
  <2>1. /\ pos[h] + n \in Nat /\ SFS_MAX_FILE_SIZE \in Nat
        /\ file[h] \in Files => din[file[h]].size \in Nat
    BY SfsFileAssumption DEF IInv, CallInv, MapInv, MapTypeOK, Inode
  <2>2. file[h] \in Files
    BY <1>1 DEF IInv, MapInv, MapTypeOK
  <2>3. PICK a, c : a = pos[h] + n /\ c = din[file[h]].size
    OBVIOUS
  <2>4. a \in Nat /\ c \in Nat
    BY <2>1, <2>2, <2>3
  <2>5. /\ Min({a, SFS_MAX_FILE_SIZE, c}) \in {a, SFS_MAX_FILE_SIZE, c}
        /\ Min({a, SFS_MAX_FILE_SIZE}) \in {a, SFS_MAX_FILE_SIZE}
    BY <2>1, <2>4, MinIn
  <2>6. \/ op' = IoOp(h, FALSE, Min({a, SFS_MAX_FILE_SIZE, c}))
        \/ op' = IoOp(h, TRUE, Min({a, SFS_MAX_FILE_SIZE}))
    BY <2>3 DEF file_read, file_write
  <2> QED
    BY <2>1, <2>4, <2>5, <2>6
<1>3. op' \in Ops /\ op'.h = h
  BY <1>2 DEF IoOp, Ops
<1>4. CallInv'
  BY <1>1, <1>3 DEF IInv, CallInv, OpFile
<1> QED
  BY <1>1, <1>4, NothingNamed DEF IInv, OthersNamed

LEMMA SeekStep ==
    ASSUME IInv, NEW h \in Handles, NEW p \in Seeks, file_seek(h, p)
    PROVE  IInv' /\ OthersNamed
<1>0. p \in Nat
  BY SfsFileAssumption
<1>1. /\ UNCHANGED <<map_vars, disk, file, panic>>
      /\ file[h] # NULL
      /\ \/ op' = [kind |-> "trunc", h |-> h, len |-> p, seek |-> TRUE] /\ pos' = pos
         \/ op' = Idle /\ pos' = [pos EXCEPT ![h] = p]
  BY DEF file_seek, Ready
<1>2. op' \in Ops /\ (op' # Idle => op'.h = h)
  <2>1. CASE op' = Idle
    BY <2>1 DEF Ops
  <2>2. CASE op' = [kind |-> "trunc", h |-> h, len |-> p, seek |-> TRUE]
    BY <1>0, <2>2 DEF Ops
  <2> QED
    BY <1>1, <2>1, <2>2
<1>3. CallInv'
  BY <1>0, <1>1, <1>2 DEF IInv, CallInv, OpFile
<1> QED
  BY <1>1, <1>3, NothingNamed DEF IInv, OthersNamed

(* The next block of a read or a write.                                    *)
LEMMA AdvanceType ==
    ASSUME IInv, Io, Cur < op.endpos, io_advance, UNCHANGED <<file, pos, panic>>
    PROVE  CallInv'
<1>1. /\ op \in [kind : {"io"}, h : Handles, write : BOOLEAN, endpos : Nat, alen : Nat]
      /\ op.alen \in Nat /\ op.endpos \in Nat /\ Cur \in Nat
  BY IoTypes DEF Io
<1>2. PICK a, c : a = SFS_BLKSIZE - (Cur % SFS_BLKSIZE) /\ c = op.endpos - Cur
  OBVIOUS
<1>3. a \in Nat /\ c \in Nat
  <2>1. Cur % SFS_BLKSIZE \in 0..(SFS_BLKSIZE - 1)
    BY <1>1, DivNat, SfsFileAssumption
  <2> QED
    BY <1>1, <1>2, <2>1, SfsFileAssumption
<1>4. Min({a, c}) \in Nat
  BY <1>3, MinIn
<1>5. op' = [op EXCEPT !.alen = op.alen + Min({a, c})]
  BY <1>2 DEF io_advance
<1>6. op' \in Ops /\ op'.h = op.h /\ op # Idle
  BY <1>1, <1>4, <1>5 DEF Ops, Idle
<1> QED
  BY <1>6 DEF IInv, CallInv, OpFile

LEMMA IoBlockStep == ASSUME IInv, io_block PROVE IInv' /\ OthersNamed
<1>1. CallInv'
  BY AdvanceType DEF io_block, file_vars
<1> QED
  BY <1>1, NothingNamed DEF IInv, OthersNamed, io_block, file_vars

LEMMA IoGrowStep == ASSUME IInv, io_grow PROVE IInv' /\ OthersNamed
<1>0. PICK f : f = OpFile
  OBVIOUS
<1>1. f \in Files /\ Loaded(f) /\ op # Idle
  BY <1>0, IoTypes DEF io_grow, Io, Idle
<1>2. CallInv'
  BY AdvanceType DEF io_grow, file_vars
<1>3. grow(f) /\ UNCHANGED <<disk, file>>
  BY <1>0 DEF io_grow, file_vars
<1>4. MapInv'
  BY <1>1, <1>3, GrowKeeps DEF IInv
<1>5. \A g \in Files \ {f} : din'[g] = din[g]
  BY <1>1, <1>3, GrowOthers DEF IInv
<1> QED
  BY <1>0, <1>1, <1>2, <1>3, <1>4, <1>5, OthersKept DEF IInv

LEMMA IoEndStep == ASSUME IInv, io_end PROVE IInv' /\ OthersNamed
<1>0. PICK f, s : f = OpFile /\ s = Cur
  OBVIOUS
<1>1. f \in Files /\ Loaded(f) /\ op # Idle /\ s \in Nat /\ op.h \in Handles
  BY <1>0, IoTypes DEF io_end, Io, Idle
<1>2. /\ \/ /\ din' = [din EXCEPT ![f].size = s]
            /\ dirty' = [dirty EXCEPT ![f] = TRUE]
         \/ UNCHANGED <<din, dirty>>
      /\ pos' = [pos EXCEPT ![op.h] = s]
      /\ op' = Idle
      /\ UNCHANGED <<freemap, unused, entries, disk, file, panic>>
  BY <1>0 DEF io_end
<1>3. CallInv'
  BY <1>1, <1>2 DEF IInv, CallInv, Ops
<1>4. CASE /\ din' = [din EXCEPT ![f].size = s]
           /\ dirty' = [dirty EXCEPT ![f] = TRUE]
  <2>1. MapInv'
    BY <1>1, <1>2, <1>4, SizeKeeps DEF IInv
  <2>2. \A g \in Files \ {f} : din'[g] = din[g]
    BY <1>4 DEF IInv, MapInv, MapTypeOK
  <2> QED
    BY <1>0, <1>1, <1>2, <1>3, <2>1, <2>2, OthersKept DEF IInv
<1>5. CASE UNCHANGED <<din, dirty>>
  BY <1>2, <1>3, <1>5, NothingNamed DEF IInv, OthersNamed, map_vars
<1> QED
  BY <1>2, <1>4, <1>5

(* A failed assertion stops everything.                                    *)
LEMMA PanicStep ==
    ASSUME IInv, NEW where \in {"bmap_load", "bmap_get", "truncfile"}, Panic(where)
    PROVE  IInv' /\ OthersNamed
<1>1. CallInv'
  BY DEF Panic, IInv, CallInv, OpFile, file_vars
<1> QED
  BY <1>1, NothingNamed DEF IInv, OthersNamed, Panic, file_vars

LEMMA TruncSameStep == ASSUME IInv, trunc_same PROVE IInv' /\ OthersNamed
<1>1. CASE Panic("truncfile")
  BY <1>1, PanicStep
<1>2. CASE op' = Idle /\ UNCHANGED <<map_vars, disk, file_vars, panic>>
  <2>1. CallInv'
    BY <1>2 DEF IInv, CallInv, Ops, file_vars
  <2> QED
    BY <1>2, <2>1, NothingNamed DEF IInv, OthersNamed, file_vars
<1> QED
  BY <1>1, <1>2 DEF trunc_same

LEMMA TruncFullStep == ASSUME IInv, trunc_full PROVE IInv' /\ OthersNamed
<1>1. CallInv'
  BY DEF IInv, CallInv, Ops, trunc_full, file_vars
<1> QED
  BY <1>1, NothingNamed DEF IInv, OthersNamed, trunc_full, file_vars

LEMMA TruncGrowStep == ASSUME IInv, trunc_grow PROVE IInv' /\ OthersNamed
<1>0. PICK f : f = OpFile
  OBVIOUS
<1>1. f \in Files /\ Loaded(f) /\ op # Idle
  BY <1>0, TruncTypes DEF trunc_grow, Trunc, Idle
<1>2. CallInv'
  BY DEF trunc_grow, IInv, CallInv, OpFile, file_vars
<1>3. grow(f) /\ UNCHANGED <<disk, file>>
  BY <1>0 DEF trunc_grow, file_vars
<1>4. MapInv'
  BY <1>1, <1>3, GrowKeeps DEF IInv
<1>5. \A g \in Files \ {f} : din'[g] = din[g]
  BY <1>1, <1>3, GrowOthers DEF IInv
<1> QED
  BY <1>0, <1>1, <1>2, <1>3, <1>4, <1>5, OthersKept DEF IInv

LEMMA TruncShrinkStep == ASSUME IInv, trunc_shrink PROVE IInv' /\ OthersNamed
<1>0. PICK f : f = OpFile
  OBVIOUS
<1>1. f \in Files /\ Loaded(f) /\ op # Idle /\ Tblks \in Nat
  BY <1>0, TruncTypes DEF trunc_shrink, Trunc, Idle
<1>2. CallInv'
  BY DEF trunc_shrink, IInv, CallInv, OpFile, file_vars
<1>3. /\ din[f].blocks > Tblks
      /\ sfs_bmap_truncate_nolock(f)
      /\ UNCHANGED <<disk, file>>
  BY <1>0 DEF trunc_shrink, file_vars
<1>4. din[f].blocks > 0
  <2>1. din[f].blocks \in Nat
    BY <1>1 DEF IInv, MapInv, MapTypeOK, Inode
  <2> QED
    BY <1>1, <1>3, <2>1
<1>5. MapInv'
  BY <1>1, <1>3, <1>4, TruncateKeeps DEF IInv
<1>6. \A g \in Files \ {f} : din'[g] = din[g]
  BY <1>3 DEF sfs_bmap_truncate_nolock, IInv, MapInv, MapTypeOK
<1> QED
  BY <1>0, <1>1, <1>2, <1>3, <1>5, <1>6, OthersKept DEF IInv

LEMMA TruncDoneStep == ASSUME IInv, trunc_done PROVE IInv' /\ OthersNamed
<1>0. PICK f, s : f = OpFile /\ s = op.len
  OBVIOUS
<1>1. f \in Files /\ Loaded(f) /\ op # Idle /\ s \in Nat /\ op.h \in Handles
  BY <1>0, TruncTypes DEF trunc_done, Trunc, Idle
<1>2. /\ din' = [din EXCEPT ![f].size = s]
      /\ dirty' = [dirty EXCEPT ![f] = TRUE]
      /\ pos' = [pos EXCEPT ![op.h] = s] \/ pos' = pos
      /\ op' = Idle
      /\ UNCHANGED <<freemap, unused, entries, disk, file, panic>>
  BY <1>0 DEF trunc_done
<1>3. CallInv'
  BY <1>1, <1>2 DEF IInv, CallInv, Ops
<1>4. MapInv'
  BY <1>1, <1>2, SizeKeeps DEF IInv
<1>5. \A g \in Files \ {f} : din'[g] = din[g]
  BY <1>2 DEF IInv, MapInv, MapTypeOK
<1> QED
  BY <1>0, <1>1, <1>2, <1>3, <1>4, <1>5, OthersKept DEF IInv

-----------------------------------------------------------------------------
LEMMA InitIInv == ASSUME Init PROVE IInv
<1>1. Empty \in Inode /\ Empty.direct = [j \in Direct |-> 0] /\ Empty.indirect = 0
      /\ Empty.blocks = 0
  BY DEF Empty, Inode, BlockNo
<1>2. MapTypeOK
  BY <1>1, SfsFileAssumption DEF Init, MapTypeOK, BlockNo
<1>3. \A f \in Files : Node(f) = Empty /\ ~Loaded(f)
  BY SfsFileAssumption DEF Init, Node, Loaded
<1>4. ASSUME NEW f \in Files, NEW n \in Places PROVE NameAt(f, n) = 0
  <2>1. n = -1 \/ ~(n < SFS_NDIRECT) \/ n \in Direct
    BY SfsFileAssumption DEF Places, Direct
  <2> QED
    BY <1>1, <1>3, <2>1 DEF NameAt
<1>5. OneName
  BY <1>4, SfsFileAssumption DEF Init, OneName
<1>6. ASSUME NEW f \in Files PROVE NoGap(f)
  <2>1. \A n \in Direct : n \in Places
    BY SfsFileAssumption DEF Places, Direct
  <2> QED
    BY <1>1, <1>3, <1>4, <2>1, SfsFileAssumption DEF NoGap
<1>7. MapOK
  BY <1>6 DEF MapOK
<1>8. CacheOK
  BY <1>3 DEF Init, CacheOK
<1>9. CallInv
  BY DEF Init, CallInv, Ops
<1> QED
  BY <1>2, <1>5, <1>7, <1>8, <1>9 DEF IInv, MapInv, Init

LEMMA NextIInv == ASSUME IInv, [Next]_vars PROVE IInv' /\ (UNCHANGED vars \/ OthersNamed)
<1>1. ASSUME NEW h \in Handles, NEW f \in Files, NEW flag, file_open(h, f, flag)
      PROVE  IInv' /\ OthersNamed
  BY <1>1, OpenStep
<1>2. ASSUME NEW h \in Handles, NEW to \in Handles, file_dup(h, to)
      PROVE  IInv' /\ OthersNamed
  BY <1>2, DupStep
<1>3. ASSUME NEW h \in Handles, NEW n \in Lens, file_read(h, n) \/ file_write(h, n)
      PROVE  IInv' /\ OthersNamed
  BY <1>3, ReadWriteStep
<1>4. ASSUME NEW h \in Handles, NEW p \in Seeks, file_seek(h, p)
      PROVE  IInv' /\ OthersNamed
  BY <1>4, SeekStep
<1>5. ASSUME NEW h \in Handles, file_fsync(h) \/ file_close(h)
      PROVE  IInv' /\ OthersNamed
  BY <1>5, FsyncStep, CloseStep
<1>6. CASE io_block \/ io_grow \/ io_end
  BY <1>6, IoBlockStep, IoGrowStep, IoEndStep
<1>7. CASE trunc_same \/ trunc_grow \/ trunc_full \/ trunc_shrink \/ trunc_done
  BY <1>7, TruncSameStep, TruncGrowStep, TruncFullStep, TruncShrinkStep, TruncDoneStep
<1>8. CASE io_beyond \/ bmap_get_range
  BY <1>8, PanicStep DEF io_beyond, bmap_get_range
<1>9. CASE UNCHANGED vars
  <2>1. UNCHANGED <<map_vars, disk, file, pos, op, panic>>
    BY <1>9 DEF vars, file_vars
  <2>2. CallInv'
    BY <2>1 DEF IInv, CallInv, OpFile
  <2> QED
    BY <1>9, <2>1, <2>2, NothingNamed DEF IInv
<1> QED
  BY <1>1, <1>2, <1>3, <1>4, <1>5, <1>6, <1>7, <1>8, <1>9 DEF Next, Panicked

LEMMA Invariance == Spec => []IInv
<1>1. Init => IInv
  BY InitIInv
<1>2. IInv /\ [Next]_vars => IInv'
  BY NextIInv
<1> QED
  BY <1>1, <1>2, PTL DEF Spec

-----------------------------------------------------------------------------
(* The entry that Uses has for a place.                                    *)
Use(f, n) ==
    IF n = -1 THEN <<f, "indirect", 0, NameAt(f, n)>>
    ELSE IF n < SFS_NDIRECT THEN <<f, "direct", n, NameAt(f, n)>>
    ELSE <<f, "entry", n - SFS_NDIRECT, NameAt(f, n)>>

LEMMA UsesAreNames ==
    ASSUME MapTypeOK
    PROVE  /\ \A u \in AllUses : \E f \in Files : \E n \in Places :
                 u = Use(f, n) /\ u[4] = NameAt(f, n) /\ NameAt(f, n) # 0
           /\ \A f \in Files : \A n \in Places :
                 NameAt(f, n) # 0 => Use(f, n) \in AllUses /\ Use(f, n)[4] = NameAt(f, n)
<1>0. -1 \in Places /\ SFS_NDIRECT \in Nat
  BY SfsFileAssumption DEF Places
<1>1. ASSUME NEW f \in Files, NEW u \in Uses(f)
      PROVE  \E n \in Places : u = Use(f, n) /\ u[4] = NameAt(f, n) /\ NameAt(f, n) # 0
  <2>1. CASE u \in {<<f, "direct", j, Node(f).direct[j]>> :
                       j \in {k \in Direct : Node(f).direct[k] # 0}}
    <3>1. PICK j \in Direct : Node(f).direct[j] # 0 /\ u = <<f, "direct", j, Node(f).direct[j]>>
      BY <2>1
    <3>2. j \in Places /\ j # -1 /\ j < SFS_NDIRECT
      BY SfsFileAssumption DEF Places, Direct
    <3>3. NameAt(f, j) = Node(f).direct[j]
      BY <3>2 DEF NameAt
    <3> QED
      BY <3>1, <3>2, <3>3 DEF Use
  <2>2. CASE u \in {<<f, "indirect", 0, b>> : b \in {Node(f).indirect} \ {0}}
    <3>1. NameAt(f, -1) = Node(f).indirect
      BY DEF NameAt
    <3> QED
      BY <1>0, <2>2, <3>1 DEF Use
  <2>3. CASE /\ Node(f).indirect # 0
             /\ u \in {<<f, "entry", j, entries[Node(f).indirect][j]>> :
                          j \in {k \in Entries : entries[Node(f).indirect][k] # 0}}
    <3>1. PICK j \in Entries : /\ entries[Node(f).indirect][j] # 0
                               /\ u = <<f, "entry", j, entries[Node(f).indirect][j]>>
      BY <2>3
    <3>2. PICK n : n = j + SFS_NDIRECT
      OBVIOUS
    <3>3. n \in Places /\ n # -1 /\ ~(n < SFS_NDIRECT) /\ n - SFS_NDIRECT = j
      BY <3>2, SfsFileAssumption DEF Places, Entries
    <3>4. NameAt(f, n) = entries[Node(f).indirect][j]
      BY <2>3, <3>3 DEF NameAt
    <3> QED
      BY <3>1, <3>3, <3>4 DEF Use
  <2> QED
    BY <2>1, <2>2, <2>3 DEF Uses
<1>2. ASSUME NEW f \in Files, NEW n \in Places, NameAt(f, n) # 0
      PROVE  Use(f, n) \in Uses(f) /\ Use(f, n)[4] = NameAt(f, n)
  <2>1. CASE n = -1
    BY <1>2, <2>1 DEF Use, Uses, NameAt
  <2>2. CASE n # -1 /\ n < SFS_NDIRECT
    <3>1. n \in Direct
      BY <2>2, SfsFileAssumption DEF Places, Direct
    <3> QED
      BY <1>2, <2>2, <3>1 DEF Use, Uses, NameAt
  <2>3. CASE n # -1 /\ ~(n < SFS_NDIRECT)
    <3>1. n - SFS_NDIRECT \in Entries
      BY <2>3, IndexType, SfsFileAssumption DEF Places
    <3> QED
      BY <1>2, <2>3, <3>1 DEF Use, Uses, NameAt
  <2> QED
    BY <2>1, <2>2, <2>3
<1> QED
  BY <1>1, <1>2 DEF AllUses

(* One name each means as many names as blocks.                            *)
LEMMA OwnedOnce == ASSUME MapInv PROVE
    LET used == {u[4] : u \in AllUses}
    IN  used = Blocks \ freemap /\ Cardinality(used) = Cardinality(AllUses)
<1> DEFINE used == {u[4] : u \in AllUses}
<1>0. 0 \notin Blocks /\ MapTypeOK
  BY SfsFileAssumption DEF MapInv
<1>1. \A f \in Files : \A n \in Places : NameAt(f, n) # 0 => NameAt(f, n) \in Blocks \ freemap
  BY <1>0, NameType DEF MapInv, OneName, BlockNo
<1>2. used = Blocks \ freemap
  <2>1. ASSUME NEW b \in used PROVE b \in Blocks \ freemap
    BY <1>0, <1>1, UsesAreNames
  <2>2. ASSUME NEW b \in Blocks \ freemap PROVE b \in used
    <3>1. PICK f \in Files, n \in Places : NameAt(f, n) = b
      BY DEF MapInv, OneName
    <3> QED
      BY <1>0, <3>1, UsesAreNames
  <2> QED
    BY <2>1, <2>2
<1>3. \A u, v \in AllUses : u[4] = v[4] => u = v
  <2> SUFFICES ASSUME NEW u \in AllUses, NEW v \in AllUses, u[4] = v[4] PROVE u = v
    OBVIOUS
  <2>1. PICK f \in Files, n \in Places :
           u = Use(f, n) /\ u[4] = NameAt(f, n) /\ NameAt(f, n) # 0
    BY <1>0, UsesAreNames
  <2>2. PICK g \in Files, m \in Places :
           v = Use(g, m) /\ v[4] = NameAt(g, m) /\ NameAt(g, m) # 0
    BY <1>0, UsesAreNames
  <2>3. f = g /\ n = m
    BY <2>1, <2>2 DEF MapInv, OneName
  <2> QED
    BY <2>1, <2>2, <2>3
<1>4. [u \in AllUses |-> u[4]] \in Bijection(AllUses, used)
  BY <1>3 DEF Bijection, Injection, Surjection, IsInjective
<1>5. ExistsBijection(used, AllUses)
  BY <1>4, Fun_ExistsBijSymmetric DEF ExistsBijection
<1>6. IsFiniteSet(used)
  BY <1>2, FS_Subset, SfsFileAssumption
<1> QED
  BY <1>2, <1>5, <1>6, FS_Bijection

LEMMA InvariantImplies == ASSUME IInv PROVE BlocksOK
<1>1. TypeOK
  BY FreeCounted DEF IInv, MapInv, MapTypeOK, CallInv, TypeOK
<1>2. BlocksOwned
  BY <1>1, OwnedOnce DEF IInv, MapInv, BlocksOwned
<1>3. ASSUME NEW f \in Files
      PROVE  /\ \A n \in 0..(Node(f).blocks - 1) :
                   IF n < SFS_NDIRECT THEN Node(f).direct[n] # 0
                   ELSE /\ Node(f).indirect # 0
                        /\ entries[Node(f).indirect][n - SFS_NDIRECT] # 0
             /\ \A n \in Direct : n >= Node(f).blocks => Node(f).direct[n] = 0
  <2>1. NoGap(f)
    BY DEF IInv, MapInv, MapOK
  <2>2. \A n \in Direct : NameAt(f, n) = Node(f).direct[n]
    BY SfsFileAssumption DEF NameAt, Direct
  <2>3. \A n \in 0..(Node(f).blocks - 1) : n # -1
    OBVIOUS
  <2>4. ASSUME NEW n \in 0..(Node(f).blocks - 1)
        PROVE  IF n < SFS_NDIRECT THEN Node(f).direct[n] # 0
               ELSE /\ Node(f).indirect # 0
                    /\ entries[Node(f).indirect][n - SFS_NDIRECT] # 0
    BY <2>1, <2>3 DEF NoGap, NameAt
  <2> QED
    BY <2>1, <2>2, <2>4 DEF NoGap
<1>4. FileMapOK
  BY <1>3 DEF FileMapOK
<1> QED
  BY <1>2, <1>4 DEF BlocksOK

(* Whatever calls come through however many openings, and also when the    *)
(* disk gets full in the middle of one, every block of the disk is free or *)
(* named by exactly one file, and every file's map can be followed         *)
(* (sfs_bmap_load_nolock, sfs_bmap_truncate_nolock in sfs_inode.c), for    *)
(* any files, block sizes, block maps and disks.                           *)
THEOREM BlocksCorrect == Spec => []BlocksOK
<1>1. IInv => BlocksOK
  BY InvariantImplies
<1> QED
  BY <1>1, Invariance, PTL

(* No call changes a file other than its own, and a close (sfs_reclaim)    *)
(* changes none: neither size nor names of a file depend on whether it was *)
(* dirty when its inode was dropped.                                       *)
THEOREM ClosesKeepFiles == Spec => CloseKeepsFile
<1>1. IInv /\ [Next]_vars =>
        [\A f \in Files : op = Idle \/ f # OpFile => Named(Node(f)') = Named(Node(f))]_vars
  BY NextIInv DEF OthersNamed
<1> QED
  BY <1>1, Invariance, PTL DEF Spec, CloseKeepsFile
=============================================================================
