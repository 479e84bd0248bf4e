---------------------------- MODULE MemoryProofs ----------------------------
(***************************************************************************)
(* Proofs about memory.  The page allocator (DefaultPmm) keeps its books   *)
(* and refuses only what is not there, for any memory map and any sequence *)
(* of calls.  The heap on top of it (KMalloc) never gives a unit to two    *)
(* blocks and loses none, for any number of pages and any sizes that       *)
(* callers ask for.  Swapping (Swap) is not seen by programs and the       *)
(* replacement list is exact, for any set of pages and number of frames.   *)
(***************************************************************************)
EXTENDS DefaultPmm, KMalloc, Swap, FiniteSetTheorems, SequenceTheorems, TLAPS


(* The page allocator.                                                     *)
(* The block that default_free_pages has in hand is in no list.            *)
Busy == pc \in {"merge", "insert"}

Freed == IF Busy THEN Block(base) ELSE {}

(* The memory that the allocator has been told of.                         *)
Found ==
    IF pc = "boot" THEN UNION {Run(Regions[k].base, Regions[k].n) : k \in 1..(i - 1)}
                   ELSE Usable

(* Every page has one owner, also while a block is being freed; nr_free    *)
(* lags behind until the first pass is over.                               *)
Owned ==
    /\ FreePages \cap Freed = {}
    /\ FreePages \cap held = {}
    /\ Freed \cap held = {}
    /\ FreePages \cup Freed \cup held = Found

Counted ==
    nr_free + (IF pc = "merge" THEN size ELSE 0) = Cardinality(FreePages \cup Freed)

(* page_init: the list holds the regions found so far.                     *)
BootOK ==
    pc = "boot" =>
        /\ held = {} /\ refused = 0
        /\ i \in 1..Len(Regions) /\ Len(free_list) = i - 1
        /\ \A k \in DOMAIN free_list :
              free_list[k] = Regions[k].base /\ property[free_list[k]] = Regions[k].n

(* The pass over the list leaves behind it only blocks that are apart from *)
(* the freed one.                                                          *)
MergeOK ==
    Busy =>
        /\ property[base] > 0
        /\ refused = 0
        /\ i \in 1..(Len(free_list) + 1)
        /\ \A k \in DOMAIN free_list :
              k < i \/ pc = "insert" =>
                  \/ free_list[k] + property[free_list[k]] < base
                  \/ base + property[base] < free_list[k]

(* The inductive invariant.                                                *)
IInv ==
    /\ TypeOK
    /\ ListOK
    /\ FlagsOK
    /\ Owned
    /\ Counted
    /\ BootOK
    /\ MergeOK
    /\ RefusedRightly

-----------------------------------------------------------------------------
(* The first block of a search is the least of those that qualify.         *)
LEMMA MinLeast ==
    ASSUME NEW S, S \subseteq Nat, S # {}
    PROVE  Min(S) \in S /\ \A y \in S : Min(S) <= y
<1> DEFINE R == OpToRel(<, Nat)
<1>1. \E x \in S : \A y \in S : ~(<<y, x>> \in R)
  BY WFMin, NatLessThanWellFounded
<1>2. \A x, y \in S : <<y, x>> \in R <=> y < x
  BY DEF OpToRel
<1> HIDE DEF R
<1>3. \E x \in S : \A y \in S : x <= y
  <2>1. PICK x \in S : \A y \in S : ~(<<y, x>> \in R)
    BY <1>1
  <2>2. ASSUME NEW y \in S PROVE x <= y
    <3>1. ~(y < x)
      BY <1>2, <2>1
    <3>2. x \in Nat /\ y \in Nat
      OBVIOUS
    <3> QED
      BY <3>1, <3>2
  <2> QED
    BY <2>2
<1> QED
  BY <1>3 DEF Min

(* list_del: the k-th block leaves, the later ones move up.                *)
LEMMA Removed ==
    ASSUME NEW S, NEW q \in Seq(S), NEW k \in 1..Len(q)
    PROVE  /\ RemoveAt(q, k) \in Seq(S)
           /\ Len(RemoveAt(q, k)) = Len(q) - 1
           /\ \A j \in 1..(Len(q) - 1) :
                 RemoveAt(q, k)[j] = IF j < k THEN q[j] ELSE q[j + 1]
<1> DEFINE a == SubSeq(q, 1, k - 1)
           b == SubSeq(q, k + 1, Len(q))
<1>1. /\ a \in Seq(S)
      /\ Len(a) = k - 1
      /\ \A j \in 1..(k - 1) : a[j] = q[j]
  OBVIOUS
<1>2. /\ b \in Seq(S)
      /\ Len(b) = Len(q) - k
      /\ \A j \in 1..(Len(q) - k) : b[j] = q[k + j]
  OBVIOUS
<1>3. RemoveAt(q, k) = a \o b
  BY DEF RemoveAt
<1> HIDE DEF a, b
<1>4. /\ a \o b \in Seq(S)
      /\ Len(a \o b) = Len(a) + Len(b)
      /\ \A j \in 1..(Len(a) + Len(b)) :
            (a \o b)[j] = IF j <= Len(a) THEN a[j] ELSE b[j - Len(a)]
  BY <1>1, <1>2, ConcatProperties
<1>5. Len(q) \in Nat /\ Len(a) + Len(b) = Len(q) - 1
  BY <1>1, <1>2
<1>6. ASSUME NEW j \in 1..(Len(q) - 1)
      PROVE  (a \o b)[j] = IF j < k THEN q[j] ELSE q[j + 1]
  <2>1. CASE j < k
    BY <1>1, <1>4, <1>5, <2>1
  <2>2. CASE j >= k
    <3>1. j - (k - 1) \in 1..(Len(q) - k) /\ k + (j - (k - 1)) = j + 1
      BY <1>5, <2>2
    <3> QED
      <4>1. (a \o b)[j] = b[j - (k - 1)]
        BY <1>1, <1>4, <1>5, <2>2
      <4>2. b[j - (k - 1)] = q[j + 1]
        BY <1>2, <3>1
      <4> QED
        BY <4>1, <4>2, <2>2
  <2> QED
    BY <1>5, <2>1, <2>2
<1> QED
  BY <1>3, <1>4, <1>5, <1>6

(* What is left in a list without duplicates: all but that block.          *)
LEMMA RemovedRest ==
    ASSUME NEW S, NEW q \in Seq(S), NEW k \in 1..Len(q),
           \A a, c \in 1..Len(q) : a # c => q[a] # q[c]
    PROVE  \A x : (\E j \in 1..(Len(q) - 1) : RemoveAt(q, k)[j] = x)
                     <=> x # q[k] /\ \E j \in 1..Len(q) : q[j] = x
<1> TAKE x
<1>0. Len(q) \in Nat /\ k \in Nat
  OBVIOUS
<1>1. \A j \in 1..(Len(q) - 1) : RemoveAt(q, k)[j] = IF j < k THEN q[j] ELSE q[j + 1]
  BY Removed
<1>2. ASSUME NEW j \in 1..(Len(q) - 1), RemoveAt(q, k)[j] = x
      PROVE  x # q[k] /\ \E l \in 1..Len(q) : q[l] = x
  <2>1. PICK l \in 1..Len(q) : l = IF j < k THEN j ELSE j + 1
    BY <1>0
  <2>2. l # k /\ x = q[l]
    BY <1>0, <1>1, <1>2, <2>1
  <2> QED
    BY <2>2
<1>3. ASSUME NEW l \in 1..Len(q), q[l] = x, x # q[k]
      PROVE  \E j \in 1..(Len(q) - 1) : RemoveAt(q, k)[j] = x
  <2>1. CASE l < k
    <3>1. l \in 1..(Len(q) - 1)
      BY <1>0, <2>1
    <3> QED
      BY <1>1, <1>3, <2>1, <3>1
  <2>2. CASE l > k
    <3>1. l - 1 \in 1..(Len(q) - 1) /\ ~(l - 1 < k) /\ (l - 1) + 1 = l
      BY <1>0, <2>2
    <3>2. RemoveAt(q, k)[l - 1] = q[l]
      BY <1>1, <3>1
    <3> QED
      BY <1>3, <3>1, <3>2
  <2> QED
    BY <1>0, <1>3, <2>1, <2>2
<1> QED
  BY <1>2, <1>3

(* list_add_before: x comes to position k, the later ones move down.       *)
LEMMA Inserted ==
    ASSUME NEW S, NEW q \in Seq(S), NEW k \in 1..(Len(q) + 1), NEW x \in S
    PROVE  /\ InsertAt(q, k, x) \in Seq(S)
           /\ Len(InsertAt(q, k, x)) = Len(q) + 1
           /\ \A j \in 1..(Len(q) + 1) :
                 InsertAt(q, k, x)[j] = IF j < k THEN q[j]
                                        ELSE IF j = k THEN x ELSE q[j - 1]
<1> DEFINE a == SubSeq(q, 1, k - 1)
           b == SubSeq(q, k, Len(q))
           c == a \o <<x>>
<1>1. /\ a \in Seq(S)
      /\ Len(a) = k - 1
      /\ \A j \in 1..(k - 1) : a[j] = q[j]
  OBVIOUS
<1>2. /\ b \in Seq(S)
      /\ Len(b) = Len(q) - (k - 1)
      /\ \A j \in 1..(Len(q) - (k - 1)) : b[j] = q[(k - 1) + j]
  OBVIOUS
<1>3. InsertAt(q, k, x) = c \o b
  BY DEF InsertAt
<1>4. /\ c \in Seq(S)
      /\ Len(c) = k
      /\ \A j \in 1..(k - 1) : c[j] = q[j]
      /\ c[k] = x
  <2> HIDE DEF a
  <2>1. <<x>> \in Seq(S) /\ Len(<<x>>) = 1 /\ <<x>>[1] = x
    OBVIOUS
  <2> QED
    BY <1>1, <2>1, ConcatProperties
<1> HIDE DEF a, b, c
<1>5. /\ c \o b \in Seq(S)
      /\ Len(c \o b) = Len(c) + Len(b)
      /\ \A j \in 1..(Len(c) + Len(b)) :
            (c \o b)[j] = IF j <= Len(c) THEN c[j] ELSE b[j - Len(c)]
  BY <1>2, <1>4, ConcatProperties
<1>6. Len(q) \in Nat /\ Len(c) + Len(b) = Len(q) + 1
  BY <1>2, <1>4
<1>7. ASSUME NEW j \in 1..(Len(q) + 1)
      PROVE  (c \o b)[j] = IF j < k THEN q[j] ELSE IF j = k THEN x ELSE q[j - 1]
  <2>1. CASE j <= k
    BY <1>4, <1>5, <1>6, <2>1
  <2>2. CASE j > k
    <3>1. j - k \in 1..(Len(q) - (k - 1)) /\ (k - 1) + (j - k) = j - 1
      BY <1>6, <2>2
    <3> QED
      BY <1>2, <1>4, <1>5, <1>6, <2>2, <3>1
  <2> QED
    BY <1>6, <2>1, <2>2
<1> QED
  BY <1>3, <1>5, <1>6, <1>7

LEMMA InRun ==
    ASSUME NEW p \in Nat, NEW n \in Nat
    PROVE  \A x : x \in Run(p, n) <=> x \in Int /\ p <= x /\ x < p + n
BY DEF Run

(* Two runs that touch are one run.                                        *)
LEMMA JoinedRun ==
    ASSUME NEW p \in Nat, NEW q \in Nat, NEW n \in Nat, NEW m \in Nat, NEW t \in Nat,
           q = p + n, t = n + m
    PROVE  Run(p, t) = Run(p, n) \cup Run(q, m)
<1>1. \A x : x \in Run(p, t) <=> x \in Run(p, n) \/ x \in Run(q, m)
  BY InRun
<1> QED
  BY <1>1

LEMMA RunSize ==
    ASSUME NEW p \in Nat, NEW n \in Nat
    PROVE  IsFiniteSet(Run(p, n)) /\ Cardinality(Run(p, n)) = n
<1>1. p \in Int /\ p + n - 1 \in Int
  OBVIOUS
<1> QED
  BY <1>1, FS_Interval DEF Run

(* A finite set grows and shrinks by the size of a run.                    *)
LEMMA Grown ==
    ASSUME NEW S, IsFiniteSet(S), NEW p \in Nat, NEW n \in Nat, S \cap Run(p, n) = {}
    PROVE  Cardinality(S \cup Run(p, n)) = Cardinality(S) + n
<1>1. Cardinality(S \cap Run(p, n)) = 0 /\ Cardinality(S) \in Nat
  BY FS_EmptySet, FS_CardinalityType
<1>2. Cardinality(S \cup Run(p, n))
        = Cardinality(S) + Cardinality(Run(p, n)) - Cardinality(S \cap Run(p, n))
  BY RunSize, FS_Union
<1> QED
  BY <1>1, <1>2, RunSize

LEMMA Shrunk ==
    ASSUME NEW S, IsFiniteSet(S), NEW p \in Nat, NEW n \in Nat, Run(p, n) \subseteq S
    PROVE  Cardinality(S \ Run(p, n)) = Cardinality(S) - n /\ n <= Cardinality(S)
<1>1. S \cap Run(p, n) = Run(p, n)
  OBVIOUS
<1>2. Cardinality(Run(p, n)) <= Cardinality(S)
  BY FS_Subset
<1>3. Cardinality(S \ Run(p, n)) = Cardinality(S) - Cardinality(S \cap Run(p, n))
  BY FS_Difference
<1> QED
  BY <1>1, <1>2, <1>3, RunSize

-----------------------------------------------------------------------------
(* The regions are runs of pages of the machine, in order.                 *)
LEMMA Mapped ==
    ASSUME DefaultPmmAssumption
    PROVE  /\ Len(Regions) \in Nat \ {0} /\ DOMAIN Regions = 1..Len(Regions)
           /\ \A k \in 1..Len(Regions) :
                 /\ Regions[k].base \in Nat /\ Regions[k].n \in Nat \ {0}
                 /\ Regions[k].base + Regions[k].n <= npage
           /\ \A k, l \in 1..Len(Regions) :
                 k < l => Regions[k].base + Regions[k].n < Regions[l].base
<1> DEFINE R == [base : Nat, n : Nat \ {0}]
<1>1. Regions \in Seq(R) /\ Regions # <<>>
  BY DEF DefaultPmmAssumption
<1>2. /\ Len(Regions) \in Nat \ {0} /\ DOMAIN Regions = 1..Len(Regions)
      /\ \A k \in 1..Len(Regions) : Regions[k] \in R
  <2> HIDE DEF R
  <2> QED
    BY <1>1
<1>3. \A k \in 1..Len(Regions) : Regions[k].base \in Nat /\ Regions[k].n \in Nat \ {0}
  BY <1>2
<1> QED
  BY <1>2, <1>3 DEF DefaultPmmAssumption

(* page_init stays within the machine's pages.                             *)
LEMMA Within ==
    ASSUME DefaultPmmAssumption, TypeOK, BootOK
    PROVE  Found \subseteq Pages /\ IsFiniteSet(Pages)
<1>1. \A k \in DOMAIN Regions :
          /\ Regions[k].base \in Nat /\ Regions[k].n \in Nat
          /\ Regions[k].base + Regions[k].n <= npage
  BY Mapped
<1> npage \in Nat
  BY DEF DefaultPmmAssumption
<1>2. ASSUME NEW k \in DOMAIN Regions
      PROVE  Run(Regions[k].base, Regions[k].n) \subseteq Pages
  <2>1. PICK b \in Nat, n \in Nat : b = Regions[k].base /\ n = Regions[k].n /\ b + n <= npage
    BY <1>1
  <2>2. Run(b, n) \subseteq Pages
    BY <2>1 DEF Run, Pages
  <2> QED
    BY <2>1, <2>2
<1>3. pc = "boot" => 1..(i - 1) \subseteq DOMAIN Regions
  BY DEF BootOK, DefaultPmmAssumption, TypeOK
<1>4. Found \subseteq Pages
  BY <1>2, <1>3 DEF Found, Usable
<1> QED
  <2>1. 0 \in Int /\ npage - 1 \in Int
    BY DEF DefaultPmmAssumption
  <2> QED
    BY <1>4, <2>1, FS_Interval DEF Pages

(* What the invariant says of the blocks in the list.                      *)
LEMMA Books ==
    ASSUME DefaultPmmAssumption, IInv
    PROVE  /\ DOMAIN free_list = 1..Len(free_list) /\ Len(free_list) \in Nat
           /\ \A k \in DOMAIN free_list :
                 /\ free_list[k] \in Pages
                 /\ property[free_list[k]] \in Nat \ {0}
                 /\ free_list[k] \in Block(free_list[k])
                 /\ Block(free_list[k]) \subseteq FreePages
           /\ FreePages \subseteq Pages /\ IsFiniteSet(FreePages)
           /\ Freed \subseteq Pages /\ IsFiniteSet(FreePages \cup Freed)
<1>1. DOMAIN free_list = 1..Len(free_list) /\ Len(free_list) \in Nat
  BY DEF IInv, TypeOK
<1>2. ASSUME NEW k \in DOMAIN free_list
      PROVE  /\ free_list[k] \in Pages
             /\ property[free_list[k]] \in Nat \ {0}
             /\ free_list[k] \in Block(free_list[k])
             /\ Block(free_list[k]) \subseteq FreePages
  <2>1. free_list[k] \in Pages
    BY DEF IInv, TypeOK
  <2>2. property[free_list[k]] \in Nat
    BY <2>1 DEF IInv, TypeOK
  <2>3. property[free_list[k]] > 0
    BY DEF IInv, ListOK
  <2>4. free_list[k] \in Block(free_list[k])
    BY <2>1, <2>2, <2>3 DEF Block, Run, Pages
  <2> QED
    BY <2>1, <2>2, <2>3, <2>4 DEF FreePages
<1>3. Found \subseteq Pages /\ IsFiniteSet(Pages)
  BY Within DEF IInv
<1>4. FreePages \subseteq Pages /\ Freed \subseteq Pages
  BY <1>3 DEF IInv, Owned
<1>5. IsFiniteSet(FreePages) /\ IsFiniteSet(FreePages \cup Freed)
  BY <1>3, <1>4, FS_Subset
<1> QED
  BY <1>1, <1>2, <1>4, <1>5

(* A page is free if it lies in the block of some head.                    *)
LEMMA Listed ==
    ASSUME DefaultPmmAssumption, IInv, NEW x \in Int
    PROVE  x \in FreePages <=>
               \E k \in DOMAIN free_list :
                  free_list[k] <= x /\ x < free_list[k] + property[free_list[k]]
<1>1. x \in FreePages <=> \E k \in DOMAIN free_list : x \in Block(free_list[k])
  BY DEF FreePages
<1>2. ASSUME NEW k \in DOMAIN free_list
      PROVE  x \in Block(free_list[k]) <=>
                 free_list[k] <= x /\ x < free_list[k] + property[free_list[k]]
  <2>1. free_list[k] \in Nat /\ property[free_list[k]] \in Nat
    BY Books DEF Pages
  <2> QED
    BY <2>1 DEF Block, Run
<1> QED
  BY <1>1, <1>2

(* Two blocks of the list have no page in common.                          *)
LEMMA Disjoint ==
    ASSUME DefaultPmmAssumption, IInv,
           NEW k \in DOMAIN free_list, NEW l \in DOMAIN free_list, k # l
    PROVE  /\ free_list[k] # free_list[l]
           /\ Block(free_list[k]) \cap Block(free_list[l]) = {}
<1>1. /\ free_list[k] \in Nat /\ property[free_list[k]] \in Nat \ {0}
      /\ free_list[l] \in Nat /\ property[free_list[l]] \in Nat \ {0}
      /\ k \in Nat /\ l \in Nat
      /\ free_list[k] \in Block(free_list[k])
  BY Books DEF Pages
<1>2. \/ free_list[k] + property[free_list[k]] < free_list[l]
      \/ free_list[l] + property[free_list[l]] < free_list[k]
  BY <1>1 DEF IInv, ListOK
<1>3. ASSUME NEW x, x \in Block(free_list[k]), x \in Block(free_list[l]) PROVE FALSE
  <2>1. /\ x \in Int
        /\ free_list[k] <= x /\ x < free_list[k] + property[free_list[k]]
        /\ free_list[l] <= x /\ x < free_list[l] + property[free_list[l]]
    BY <1>1, <1>3, InRun DEF Block
  <2> QED
    BY <1>1, <1>2, <2>1
<1> QED
  BY <1>1, <1>3

(* Blocks with a gap between any two of them: free pages in a row lie in   *)
(* one block.                                                              *)
LEMMA RunInBlock ==
    ASSUME DefaultPmmAssumption, IInv, NEW p \in Pages, NEW n \in Nat \ {0},
           Run(p, n) \subseteq FreePages
    PROVE  \E k \in DOMAIN free_list : property[free_list[k]] >= n
<1> DEFINE head(k) == free_list[k]
           end(k)  == free_list[k] + property[free_list[k]]
<1>1. p \in Nat /\ p \in Run(p, n)
  BY DEF Pages, Run
<1>2. PICK k \in DOMAIN free_list : head(k) <= p /\ p < end(k)
  BY <1>1, Listed
<1>3. head(k) \in Nat /\ property[head(k)] \in Nat /\ end(k) \in Nat
  BY Books DEF Pages
<1>4. SUFFICES ASSUME end(k) < p + n PROVE FALSE
  BY <1>1, <1>2, <1>3
<1>5. end(k) \in Run(p, n)
  BY <1>1, <1>2, <1>3, <1>4 DEF Run
<1>6. PICK l \in DOMAIN free_list : head(l) <= end(k) /\ end(k) < end(l)
  BY <1>3, <1>5, Listed
<1>7. head(l) \in Nat /\ property[head(l)] \in Nat /\ end(l) \in Nat /\ k \in Nat /\ l \in Nat
  BY Books DEF Pages
<1>8. CASE k < l
  BY <1>3, <1>6, <1>7, <1>8 DEF IInv, ListOK
<1>9. CASE l < k
  <2>1. end(l) < head(k)
    BY <1>9 DEF IInv, ListOK
  <2> QED
    BY <1>2, <1>3, <1>6, <1>7, <2>1
<1>10. CASE k = l
  BY <1>6, <1>7, <1>10
<1> QED
  BY <1>7, <1>8, <1>9, <1>10

-----------------------------------------------------------------------------
LEMMA InitIInv ==
    ASSUME DefaultPmmAssumption, Init
    PROVE  IInv
<1>1. npage \in Nat \ {0} /\ Len(Regions) \in Nat \ {0}
  <2>1. /\ Len(Regions) \in Nat \ {0}
        /\ Regions[1].base \in Nat /\ Regions[1].n \in Nat \ {0}
        /\ Regions[1].base + Regions[1].n <= npage
    BY Mapped
  <2> QED
    BY <2>1 DEF DefaultPmmAssumption
<1>2. DOMAIN free_list = {} /\ Len(free_list) = 0 /\ free_list \in Seq(Pages)
  BY DEF Init
<1>3. TypeOK
  BY <1>1, <1>2 DEF Init, TypeOK, Pages
<1>4. FreePages = {} /\ Freed = {} /\ held = {}
  BY <1>2 DEF Init, FreePages, Freed, Busy
<1>5. Found = {}
  BY DEF Init, Found
<1>6. Counted
  BY <1>4, FS_EmptySet DEF Init, Counted
<1>7. ListOK /\ FlagsOK /\ Owned /\ BootOK /\ MergeOK /\ RefusedRightly
  BY <1>1, <1>2, <1>4, <1>5
     DEF Init, ListOK, FlagsOK, Owned, BootOK, MergeOK, RefusedRightly, Busy
<1> QED
  BY <1>3, <1>6, <1>7 DEF IInv

(* alloc_pages finds no block and returns NULL.                            *)
LEMMA RefusedStep ==
    ASSUME DefaultPmmAssumption, IInv, NEW n \in 1..npage, alloc_refused(n)
    PROVE  IInv'
<1>1. UNCHANGED <<free_list, nr_free, property, PG_property, held, pc, i, base, size>>
      /\ refused' = n /\ pc = "ready" /\ n \in Nat \ {0}
  BY DEF alloc_refused, free_vars, DefaultPmmAssumption
<1>2. TypeOK' /\ ListOK' /\ FlagsOK' /\ Owned' /\ Counted' /\ BootOK' /\ MergeOK'
  <2>1. FreePages' = FreePages /\ Freed' = Freed /\ Found' = Found
    BY <1>1 DEF FreePages, Freed, Found, Busy, Block
  <2>2. TypeOK' /\ ListOK'
    BY <1>1 DEF IInv, TypeOK, ListOK
  <2>3. FlagsOK'
    BY <1>1 DEF IInv, FlagsOK
  <2>4. Owned' /\ Counted'
    BY <1>1, <2>1 DEF IInv, Owned, Counted
  <2>5. BootOK' /\ MergeOK'
    BY <1>1 DEF BootOK, MergeOK, Busy
  <2> QED
    BY <2>2, <2>3, <2>4, <2>5
<1>3. ASSUME NEW p \in Pages, Run(p, n) \subseteq FreePages PROVE FALSE
  <2>1. Fitting(n) # {}
    BY <1>1, <1>3, RunInBlock DEF Fitting
  <2>2. Freed = {} /\ nr_free = Cardinality(FreePages)
    BY <1>1 DEF IInv, TypeOK, Counted, Freed, Busy
  <2>3. n <= Cardinality(FreePages)
    <3>1. p \in Nat /\ IsFiniteSet(FreePages)
      BY Books DEF Pages
    <3> QED
      BY <1>1, <1>3, <3>1, Shrunk
  <2>4. Cardinality(FreePages) \in Nat
    BY Books, FS_CardinalityType
  <2> QED
    BY <1>1, <2>1, <2>2, <2>3, <2>4 DEF alloc_refused
<1>4. FreePages' = FreePages
  BY <1>1 DEF FreePages, Block
<1>5. RefusedRightly'
  BY <1>1, <1>3, <1>4 DEF RefusedRightly
<1> QED
  BY <1>2, <1>5 DEF IInv

(* default_free_pages takes the pages from the client and makes them one   *)
(* block, which is in no list yet.                                         *)
LEMMA FreeStep ==
    ASSUME DefaultPmmAssumption, IInv,
           NEW n \in 1..npage, NEW b \in Pages, default_free_pages(b, n)
    PROVE  IInv'
<1>1. /\ pc = "ready" /\ pc' = "merge" /\ i' = 1 /\ base' = b /\ size' = n /\ refused' = 0
      /\ free_list' = free_list /\ nr_free' = nr_free
      /\ n \in Nat \ {0} /\ b \in Nat
      /\ Run(b, n) \subseteq held /\ held' = held \ Run(b, n)
      /\ b \in Run(b, n)
  BY DEF default_free_pages, DefaultPmmAssumption, Pages, Run
<1>2. property' \in [Pages -> Nat] /\ \A p \in Pages : property'[p] = IF p = b THEN n ELSE property[p]
  BY <1>1 DEF default_free_pages, IInv, TypeOK
<1>3. PG_property' \in [Pages -> BOOLEAN]
      /\ \A p \in Pages : PG_property'[p] <=> p = b \/ (PG_property[p] /\ p \notin Run(b, n))
  BY <1>1 DEF default_free_pages, IInv, TypeOK
<1>4. TypeOK'
  <2>1. free_list' \in Seq(Pages) /\ nr_free' \in Nat
    BY <1>1 DEF IInv, TypeOK
  <2>2. held' \subseteq Pages
    BY <1>1 DEF IInv, TypeOK
  <2>3. /\ pc' = "merge" /\ i' \in Nat \ {0} /\ base' \in Pages
        /\ size' \in Nat /\ refused' \in Nat
    BY <1>1
  <2> QED
    BY <1>2, <1>3, <2>1, <2>2, <2>3 DEF TypeOK
<1>5. ASSUME NEW k \in DOMAIN free_list
      PROVE  /\ free_list[k] \in Pages /\ free_list[k] \notin Run(b, n)
             /\ property'[free_list[k]] = property[free_list[k]]
  <2>1. free_list[k] \in Pages /\ free_list[k] \in FreePages
    BY Books
  <2>2. free_list[k] \notin Run(b, n)
    BY <1>1, <2>1 DEF IInv, Owned
  <2> QED
    BY <1>1, <1>2, <2>1, <2>2
<1>6. ListOK'
  BY <1>1, <1>5 DEF IInv, ListOK
<1>7. FlagsOK'
  <2>1. ASSUME NEW p \in Pages
        PROVE  PG_property'[p] <=> \/ \E k \in DOMAIN free_list : free_list[k] = p
                                   \/ p = b
    <3>1. PG_property[p] <=> \E k \in DOMAIN free_list : free_list[k] = p
      BY <1>1 DEF IInv, FlagsOK
    <3> QED
      BY <1>3, <1>5, <3>1
  <2> QED
    BY <1>1, <2>1 DEF FlagsOK
<1>8. FreePages' = FreePages /\ Freed' = Run(b, n) /\ Freed = {} /\ Found' = Found
  <2>1. \A k \in DOMAIN free_list : Block(free_list[k])' = Block(free_list[k])
    BY <1>1, <1>5 DEF Block
  <2>2. FreePages' = FreePages
    BY <1>1, <2>1 DEF FreePages
  <2>3. Freed' = Run(b, n) /\ Freed = {}
    BY <1>1, <1>2 DEF Freed, Busy, Block
  <2> QED
    BY <1>1, <2>2, <2>3 DEF Found
<1>9. Owned'
  BY <1>1, <1>8 DEF IInv, Owned
<1>10. Counted'
  <2>1. IsFiniteSet(FreePages) /\ FreePages \cap Run(b, n) = {}
    BY <1>1, Books DEF IInv, Owned
  <2>2. Cardinality(FreePages \cup Run(b, n)) = Cardinality(FreePages) + n
    BY <1>1, <2>1, Grown
  <2>3. nr_free + 0 = Cardinality(FreePages) /\ nr_free \in Nat
    BY <1>1, <1>8 DEF IInv, Counted, TypeOK
  <2> QED
    BY <1>1, <1>8, <2>2, <2>3 DEF Counted
<1>11. BootOK' /\ RefusedRightly'
  BY <1>1 DEF BootOK, RefusedRightly
<1>12. MergeOK'
  <2>1. Len(free_list) \in Nat /\ DOMAIN free_list = 1..Len(free_list)
    BY Books
  <2> QED
    BY <1>1, <1>2, <2>1 DEF MergeOK, Busy
<1> QED
  BY <1>4, <1>6, <1>7, <1>9, <1>10, <1>11, <1>12 DEF IInv

(* The first pass is over: every block of the list is apart from the freed *)
(* one, and nr_free catches up.                                            *)
LEMMA MergeEndStep ==
    ASSUME DefaultPmmAssumption, IInv, merge_end
    PROVE  IInv'
<1>1. /\ pc = "merge" /\ pc' = "insert" /\ i > Len(free_list) /\ nr_free' = nr_free + size
      /\ UNCHANGED <<free_list, property, PG_property, held, i, base, size, refused>>
  BY DEF merge_end
<1>2. TypeOK' /\ ListOK'
  BY <1>1 DEF IInv, TypeOK, ListOK
<1>3. FlagsOK'
  BY <1>1 DEF IInv, FlagsOK
<1>4. FreePages' = FreePages /\ Freed' = Freed /\ Found' = Found
  BY <1>1 DEF FreePages, Freed, Found, Busy, Block
<1>5. Owned'
  BY <1>1, <1>4 DEF IInv, Owned
<1>6. Counted'
  BY <1>1, <1>4 DEF IInv, TypeOK, Counted
<1>7. BootOK' /\ RefusedRightly'
  BY <1>1 DEF IInv, BootOK, RefusedRightly, MergeOK, Busy
<1>8. MergeOK'
  <2>1. DOMAIN free_list = 1..Len(free_list) /\ Len(free_list) \in Nat /\ i \in Nat
    BY Books DEF IInv, TypeOK
  <2>2. \A k \in DOMAIN free_list : k < i
    BY <1>1, <2>1
  <2> QED
    BY <1>1, <2>2 DEF IInv, MergeOK, Busy
<1> QED
  BY <1>2, <1>3, <1>5, <1>6, <1>7, <1>8 DEF IInv

(* The second pass: the freed block is linked in its place.                *)
LEMMA InsertStep ==
    ASSUME DefaultPmmAssumption, IInv, insert
    PROVE  IInv'
<1> DEFINE at == IF Behind = {} THEN Len(free_list) + 1 ELSE Min(Behind)
           len == Len(free_list)
           end(p) == p + property[p]
<1>1. /\ pc = "insert" /\ pc' = "ready" /\ i' = 1 /\ base' = 0 /\ size' = 0
      /\ free_list' = InsertAt(free_list, at, base)
      /\ UNCHANGED <<nr_free, property, PG_property, held, refused>>
  BY DEF insert
<1>2. /\ DOMAIN free_list = 1..len /\ len \in Nat
      /\ base \in Pages /\ property[base] \in Nat \ {0} /\ refused = 0
      /\ npage \in Nat \ {0}
  BY <1>1, Books, SMTT(30) DEF IInv, TypeOK, MergeOK, Busy, Pages, DefaultPmmAssumption
<1>3. /\ at \in 1..(len + 1)
      /\ \A k \in 1..len : k < at => end(free_list[k]) < base
      /\ \A k \in 1..len : k >= at => end(base) < free_list[k]
  <2>1. Behind \subseteq 1..len /\ Behind \subseteq Nat
    BY <1>2 DEF Behind
  <2>0. (Behind = {} => at = len + 1) /\ (Behind # {} => at = Min(Behind))
    OBVIOUS
  <2> HIDE DEF at
  <2>2. CASE Behind = {}
    <3>1. at = len + 1
      BY <2>0, <2>2
    <3>2. ASSUME NEW k \in 1..len PROVE end(free_list[k]) < base
      <4>1. ~(end(base) <= free_list[k]) /\ free_list[k] \in Nat /\ base \in Nat
        BY <1>2, <2>2, Books DEF Behind, Pages
      <4>2. end(free_list[k]) < base \/ end(base) < free_list[k]
        BY <1>1, <1>2 DEF IInv, MergeOK, Busy
      <4> QED
        BY <1>2, <4>1, <4>2
    <3> QED
      BY <1>2, <3>1, <3>2
  <2>3. CASE Behind # {}
    <3>1. at \in Behind /\ \A y \in Behind : at <= y
      BY <2>0, <2>1, <2>3, MinLeast
    <3>2. ASSUME NEW k \in 1..len
          PROVE  /\ k < at => end(free_list[k]) < base
                 /\ k >= at => end(base) < free_list[k]
      <4>1. /\ free_list[k] \in Nat /\ base \in Nat /\ property[free_list[k]] \in Nat \ {0}
            /\ free_list[at] \in Nat /\ property[free_list[at]] \in Nat
        BY <1>2, <2>1, <3>1, Books DEF Pages
      <4>2. end(free_list[k]) < base \/ end(base) < free_list[k]
        BY <1>1, <1>2 DEF IInv, MergeOK, Busy
      <4>3. k < at => ~(end(base) <= free_list[k])
        BY <1>2, <2>1, <3>1 DEF Behind
      <4>4. end(base) <= free_list[at]
        BY <3>1 DEF Behind
      <4>5. k > at => end(free_list[at]) < free_list[k]
        BY <1>2, <2>1, <3>1 DEF IInv, ListOK
      <4> QED
        BY <1>2, <2>1, <3>1, <4>1, <4>2, <4>3, <4>4, <4>5
    <3> QED
      BY <2>1, <3>1, <3>2, <1>2
  <2> QED
    BY <2>2, <2>3
<1> HIDE DEF at
<1>4. /\ free_list' \in Seq(Pages)
      /\ Len(free_list') = len + 1
      /\ \A j \in 1..(len + 1) :
            free_list'[j] = IF j < at THEN free_list[j]
                            ELSE IF j = at THEN base ELSE free_list[j - 1]
      /\ DOMAIN free_list' = 1..(len + 1)
  <2>1. free_list \in Seq(Pages)
    BY DEF IInv, TypeOK
  <2>2. /\ InsertAt(free_list, at, base) \in Seq(Pages)
        /\ Len(InsertAt(free_list, at, base)) = len + 1
        /\ \A j \in 1..(len + 1) :
              InsertAt(free_list, at, base)[j] = IF j < at THEN free_list[j]
                            ELSE IF j = at THEN base ELSE free_list[j - 1]
    BY <1>2, <1>3, <2>1, Inserted, SMTT(30)
  <2> QED
    BY <1>1, <2>2
<1>5. TypeOK'
  BY <1>1, <1>2, <1>4, SMTT(30) DEF IInv, TypeOK, Pages
<1>6. ListOK'
  <2>1. \A k \in 1..(len + 1) : property'[free_list'[k]] > 0
    <3> SUFFICES ASSUME NEW k \in 1..(len + 1) PROVE property[free_list'[k]] > 0
      BY <1>1
    <3>1. CASE k < at
      <4>1. k \in 1..len /\ free_list'[k] = free_list[k]
        BY <1>2, <1>3, <1>4, <3>1
      <4> QED
        BY <1>2, <4>1, Books
    <3>2. CASE k = at
      BY <1>2, <1>4, <3>2
    <3>3. CASE k > at
      <4>1. k - 1 \in 1..len /\ free_list'[k] = free_list[k - 1]
        BY <1>2, <1>3, <1>4, <3>3
      <4> QED
        BY <1>2, <4>1, Books
    <3> QED
      BY <1>3, <3>1, <3>2, <3>3
  <2>2. ASSUME NEW k \in 1..(len + 1), NEW l \in 1..(len + 1), k < l
        PROVE  end(free_list'[k]) < free_list'[l]
    <3>1. \A a, c \in 1..len : a < c => end(free_list[a]) < free_list[c]
      BY <1>2 DEF IInv, ListOK
    <3>2. CASE l < at
      BY <1>2, <1>3, <1>4, <2>2, <3>1, <3>2
    <3>3. CASE l = at
      <4>1. k \in 1..len /\ free_list'[k] = free_list[k] /\ free_list'[l] = base
        BY <1>2, <1>3, <1>4, <2>2, <3>3
      <4> QED
        BY <1>3, <2>2, <3>3, <4>1
    <3>4. CASE l > at
      <4>1. l - 1 \in 1..len /\ free_list'[l] = free_list[l - 1] /\ l - 1 >= at
        BY <1>2, <1>3, <1>4, <3>4
      <4>2. CASE k < at
        BY <1>2, <1>3, <1>4, <2>2, <3>1, <4>1, <4>2
      <4>3. CASE k = at
        BY <1>2, <1>3, <1>4, <4>1, <4>3
      <4>4. CASE k > at
        <5>1. k - 1 \in 1..len /\ free_list'[k] = free_list[k - 1] /\ k - 1 < l - 1
          BY <1>2, <1>3, <1>4, <2>2, <4>4
        <5> QED
          BY <3>1, <4>1, <5>1
      <4> QED
        BY <1>3, <4>2, <4>3, <4>4
    <3> QED
      BY <1>3, <3>2, <3>3, <3>4
  <2> QED
    BY <1>1, <1>4, <2>1, <2>2 DEF ListOK
<1>7. \A p : (\E k \in DOMAIN free_list' : free_list'[k] = p)
                <=> p = base \/ \E k \in DOMAIN free_list : free_list[k] = p
  <2> SUFFICES ASSUME NEW p
               PROVE  (\E k \in 1..(len + 1) : free_list'[k] = p)
                        <=> p = base \/ \E k \in 1..len : free_list[k] = p
    BY <1>2, <1>4
  <2>1. ASSUME NEW k \in 1..(len + 1), free_list'[k] = p
        PROVE  p = base \/ \E j \in 1..len : free_list[j] = p
    <3>1. CASE k < at
      BY <1>2, <1>3, <1>4, <2>1, <3>1
    <3>2. CASE k = at
      BY <1>4, <2>1, <3>2
    <3>3. CASE k > at
      <4>1. k - 1 \in 1..len /\ free_list'[k] = free_list[k - 1]
        BY <1>2, <1>3, <1>4, <3>3
      <4> QED
        BY <2>1, <4>1
    <3> QED
      BY <1>3, <3>1, <3>2, <3>3
  <2>2. free_list'[at] = base
    BY <1>3, <1>4
  <2>3. ASSUME NEW j \in 1..len PROVE \E k \in 1..(len + 1) : free_list'[k] = free_list[j]
    <3>1. CASE j < at
      BY <1>2, <1>3, <1>4, <3>1
    <3>2. CASE j >= at
      <4>1. j + 1 \in 1..(len + 1) /\ free_list'[j + 1] = free_list[j]
        BY <1>2, <1>3, <1>4, <3>2
      <4> QED
        BY <4>1
    <3> QED
      BY <1>3, <3>1, <3>2
  <2> QED
    BY <1>3, <2>1, <2>2, <2>3
<1>8. FlagsOK'
  BY <1>1, <1>7 DEF IInv, FlagsOK
<1>9. FreePages' = FreePages \cup Freed /\ Freed' = {} /\ Found' = Found
  <2>1. \A p : Block(p)' = Block(p)
    BY <1>1 DEF Block
  <2>2. Freed = Block(base) /\ Freed' = {} /\ Found' = Found
    BY <1>1 DEF Freed, Busy, Found
  <2>3. \A x : x \in FreePages <=> \E p : (\E k \in DOMAIN free_list : free_list[k] = p) /\ x \in Block(p)
    BY DEF FreePages
  <2>4. \A x : x \in FreePages' <=> \E p : (\E k \in DOMAIN free_list' : free_list'[k] = p) /\ x \in Block(p)
    BY <2>1 DEF FreePages
  <2> QED
    BY <1>7, <2>2, <2>3, <2>4
<1>10. Owned' /\ Counted'
  BY <1>1, <1>9 DEF IInv, Owned, Counted
<1>11. BootOK' /\ MergeOK' /\ RefusedRightly'
  BY <1>1, <1>2 DEF BootOK, MergeOK, Busy, RefusedRightly
<1> QED
  BY <1>5, <1>6, <1>8, <1>10, <1>11 DEF IInv

(* The freed block overlaps no block of the list.                          *)
LEMMA Apart ==
    ASSUME DefaultPmmAssumption, IInv, Busy, NEW k \in DOMAIN free_list
    PROVE  /\ base \in Nat /\ property[base] \in Nat \ {0}
           /\ free_list[k] # base
           /\ \/ free_list[k] + property[free_list[k]] <= base
              \/ base + property[base] <= free_list[k]
<1>1. base \in Nat /\ property[base] \in Nat \ {0}
  BY DEF IInv, TypeOK, MergeOK, Pages
<1>2. /\ free_list[k] \in Nat /\ property[free_list[k]] \in Nat \ {0}
      /\ free_list[k] \in FreePages
      /\ Block(free_list[k]) \subseteq FreePages
  BY Books DEF Pages
<1>3. base \in Freed
  BY <1>1 DEF Freed, Block, Run
<1>4. base \notin Block(free_list[k]) /\ free_list[k] \notin Block(base)
  BY <1>2, <1>3 DEF IInv, Owned, Freed
<1>5. ~(free_list[k] <= base /\ base < free_list[k] + property[free_list[k]])
  BY <1>1, <1>2, <1>4 DEF Block, Run
<1>6. ~(base <= free_list[k] /\ free_list[k] < base + property[base])
  BY <1>1, <1>2, <1>4 DEF Block, Run
<1> QED
  BY <1>1, <1>2, <1>5, <1>6

(* The pass goes on behind a block that does not touch the freed one.      *)
LEMMA MergePassStep ==
    ASSUME DefaultPmmAssumption, IInv, merge,
           base + property[base] # free_list[i],
           free_list[i] + property[free_list[i]] # base
    PROVE  IInv'
<1>1. /\ pc = "merge" /\ i <= Len(free_list) /\ i' = i + 1
      /\ UNCHANGED <<free_list, property, PG_property, base, nr_free, held, pc, size, refused>>
  BY DEF merge
<1>2. /\ DOMAIN free_list = 1..Len(free_list) /\ Len(free_list) \in Nat
      /\ i \in DOMAIN free_list /\ i \in Nat \ {0}
  BY <1>1, Books DEF IInv, TypeOK
<1>3. TypeOK' /\ ListOK'
  BY <1>1, <1>2 DEF IInv, TypeOK, ListOK
<1>4. FlagsOK'
  BY <1>1 DEF IInv, FlagsOK
<1>5. FreePages' = FreePages /\ Freed' = Freed /\ Found' = Found
  BY <1>1 DEF FreePages, Freed, Found, Busy, Block
<1>6. Owned' /\ Counted'
  BY <1>1, <1>5 DEF IInv, Owned, Counted
<1>7. BootOK' /\ RefusedRightly'
  BY <1>1 DEF IInv, BootOK, RefusedRightly, MergeOK, Busy
<1>8. \/ free_list[i] + property[free_list[i]] < base
      \/ base + property[base] < free_list[i]
  <2>1. Busy /\ free_list[i] \in Nat /\ property[free_list[i]] \in Nat
    BY <1>1, <1>2, Books DEF Busy, Pages
  <2> QED
    BY <1>2, <2>1, Apart
<1>9. MergeOK'
  BY <1>1, <1>2, <1>8 DEF IInv, MergeOK, Busy
<1> QED
  BY <1>3, <1>4, <1>6, <1>7, <1>9 DEF IInv

(* A neighbour p of the freed block b: both become the block at c, and p   *)
(* leaves the list.                                                        *)
LEMMA MergeJoinStep ==
    ASSUME DefaultPmmAssumption, IInv, merge,
           \/ base + property[base] = free_list[i]
           \/ free_list[i] + property[free_list[i]] = base
    PROVE  IInv'
<1> DEFINE len == Len(free_list)
           end(x) == x + property[x]
<1>1. /\ pc = "merge" /\ pc' = "merge" /\ i <= len /\ i' = i
      /\ free_list' = RemoveAt(free_list, i)
      /\ UNCHANGED <<nr_free, held, size, refused>>
  BY DEF merge
<1>2. /\ DOMAIN free_list = 1..len /\ len \in Nat
      /\ i \in DOMAIN free_list /\ i \in Nat \ {0} /\ Busy
  BY <1>1, Books DEF IInv, TypeOK, Busy
<1>3. PICK p \in Pages, b \in Pages, j \in 1..len : p = free_list[i] /\ b = base /\ j = i
  BY <1>2 DEF IInv, TypeOK
<1>4. /\ p \in Nat /\ b \in Nat /\ p # b /\ j \in Nat
      /\ property[p] \in Nat \ {0} /\ property[b] \in Nat \ {0}
      /\ end(p) = b \/ end(b) = p
  BY <1>2, <1>3, Books, Apart DEF Pages
<1>5. PICK c \in {p, b} : c = IF end(b) = p THEN b ELSE p
  OBVIOUS
<1>6. /\ base' = c
      /\ property' \in [Pages -> Nat]
      /\ property'[c] = property[b] + property[p]
      /\ \A x \in Pages : x # c => property'[x] = property[x]
      /\ PG_property' \in [Pages -> BOOLEAN]
      /\ \A x \in Pages : PG_property'[x] <=> PG_property[x] /\ ((x # p /\ x # b) \/ x = c)
  <2>0. PG_property[c]
    <3>1. PG_property[p] /\ PG_property[b]
      BY <1>2, <1>3 DEF IInv, FlagsOK, Busy
    <3> QED
      BY <1>5, <3>1
  <2>1. property \in [Pages -> Nat] /\ PG_property \in [Pages -> BOOLEAN]
    BY DEF IInv, TypeOK
  <2>2. CASE end(b) = p
    <3>1. /\ property' = [property EXCEPT ![b] = property[b] + property[p]]
          /\ PG_property' = [PG_property EXCEPT ![p] = FALSE]
          /\ base' = b
      BY <1>3, <2>1, <2>2 DEF merge
    <3> QED
      BY <1>4, <1>5, <2>1, <2>2, <3>1
  <2>3. CASE end(b) # p
    <3>1. end(p) = b
      BY <1>4, <2>3
    <3>2. /\ property' = [property EXCEPT ![p] = property[p] + property[b]]
          /\ PG_property' = [PG_property EXCEPT ![b] = FALSE]
          /\ base' = p
      BY <1>3, <2>1, <2>3, <3>1 DEF merge
    <3> QED
      BY <1>4, <1>5, <2>1, <2>3, <3>2
  <2> QED
    BY <2>2, <2>3
<1>7. c \in Nat /\ c \in Pages
  BY <1>4, <1>5
<1>8. /\ free_list' \in Seq(Pages)
      /\ Len(free_list') = len - 1
      /\ \A k \in 1..(len - 1) :
            free_list'[k] = IF k < j THEN free_list[k] ELSE free_list[k + 1]
      /\ DOMAIN free_list' = 1..(len - 1)
  <2>1. free_list \in Seq(Pages)
    BY DEF IInv, TypeOK
  <2>2. /\ RemoveAt(free_list, j) \in Seq(Pages)
        /\ Len(RemoveAt(free_list, j)) = len - 1
        /\ \A k \in 1..(len - 1) :
              RemoveAt(free_list, j)[k] = IF k < j THEN free_list[k] ELSE free_list[k + 1]
    BY <1>2, <2>1, Removed
  <2> QED
    BY <1>1, <1>3, <2>2
<1>9. TypeOK'
  <2>1. nr_free' \in Nat /\ held' \subseteq Pages /\ i' \in Nat \ {0} /\ size' \in Nat /\ refused' \in Nat
    BY <1>1 DEF IInv, TypeOK
  <2> QED
    BY <1>1, <1>6, <1>7, <1>8, <2>1 DEF TypeOK
(* The blocks that are left are as they were.                              *)
<1>10. ASSUME NEW k \in 1..(len - 1)
       PROVE  \E l \in 1..len :
                 /\ l = IF k < j THEN k ELSE k + 1
                 /\ free_list'[k] = free_list[l]
                 /\ free_list[l] # p /\ free_list[l] # b
                 /\ property'[free_list[l]] = property[free_list[l]]
  <2>1. PICK l \in 1..len : l = IF k < j THEN k ELSE k + 1
    BY <1>2, <1>3
  <2>2. l # j /\ free_list'[k] = free_list[l]
    BY <1>4, <1>8, <2>1
  <2>3. free_list[l] # p
    BY <1>2, <1>3, <2>2, Disjoint
  <2>4. free_list[l] # b /\ free_list[l] \in Pages
    BY <1>2, <1>3, Apart, Books
  <2> QED
    BY <1>5, <1>6, <2>1, <2>2, <2>3, <2>4
<1>11. ListOK'
  <2>1. ASSUME NEW k \in 1..(len - 1) PROVE property'[free_list'[k]] > 0
    <3>1. PICK l \in 1..len : free_list'[k] = free_list[l]
                           /\ property'[free_list[l]] = property[free_list[l]]
      BY <1>10
    <3> QED
      BY <1>2, <3>1, Books
  <2>2. ASSUME NEW k \in 1..(len - 1), NEW m \in 1..(len - 1), k < m
        PROVE  free_list'[k] + property'[free_list'[k]] < free_list'[m]
    <3>1. PICK l \in 1..len : /\ l = IF k < j THEN k ELSE k + 1
                              /\ free_list'[k] = free_list[l]
                              /\ property'[free_list[l]] = property[free_list[l]]
      BY <1>10
    <3>2. PICK n \in 1..len : /\ n = IF m < j THEN m ELSE m + 1
                              /\ free_list'[m] = free_list[n]
      BY <1>10
    <3>3. l < n
      BY <1>2, <1>4, <2>2, <3>1, <3>2
    <3>4. end(free_list[l]) < free_list[n]
      BY <1>2, <3>3 DEF IInv, ListOK
    <3> QED
      BY <3>1, <3>2, <3>4
  <2> QED
    BY <1>8, <2>1, <2>2 DEF ListOK
<1>12. \A x : (\E k \in 1..(len - 1) : free_list'[k] = x)
                 <=> x # p /\ \E k \in 1..len : free_list[k] = x
  <2>1. free_list \in Seq(Pages) /\ free_list[j] = p
    BY <1>3 DEF IInv, TypeOK
  <2>2. \A k, l \in 1..len : k # l => free_list[k] # free_list[l]
    BY <1>2, Disjoint
  <2>3. \A x : (\E k \in 1..(len - 1) : RemoveAt(free_list, j)[k] = x)
                   <=> x # free_list[j] /\ \E k \in 1..len : free_list[k] = x
    BY <2>1, <2>2, RemovedRest, SMTT(30)
  <2> QED
    BY <1>1, <1>3, <2>1, <2>3
<1>13. FlagsOK'
  <2> SUFFICES ASSUME NEW x \in Pages
               PROVE  PG_property'[x] <=> \/ \E k \in 1..(len - 1) : free_list'[k] = x
                                          \/ x = c
    BY <1>1, <1>6, <1>8 DEF FlagsOK
  <2>1. PG_property[x] <=> (\E k \in 1..len : free_list[k] = x) \/ x = b
    BY <1>1, <1>2, <1>3 DEF IInv, FlagsOK
  <2>2. \A k \in 1..len : free_list[k] # b
    BY <1>2, <1>3, Apart
  <2>3. \E k \in 1..len : free_list[k] = p
    BY <1>2, <1>3
  <2> QED
    BY <1>5, <1>6, <1>12, <2>1, <2>2, <2>3
<1>14. /\ FreePages = FreePages' \cup Block(p)
       /\ FreePages' \cap Block(p) = {}
       /\ Freed = Block(b)
       /\ Freed' = Block(b) \cup Block(p)
       /\ Found' = Found
  <2>1. Freed = Block(b) /\ Found' = Found
    BY <1>1, <1>2, <1>3 DEF Freed, Found
  <2>2. Freed' = Run(c, property[b] + property[p])
    BY <1>1, <1>6 DEF Freed, Busy, Block
  <2>3. Run(c, property[b] + property[p]) = Run(b, property[b]) \cup Run(p, property[p])
    <3>1. PICK pb \in Nat, pp \in Nat, t \in Nat :
                pb = property[b] /\ pp = property[p] /\ t = pb + pp
      BY <1>4
    <3>2. CASE end(b) = p
      <4>1. c = b /\ p = b + pb
        BY <1>5, <3>1, <3>2
      <4>2. Run(b, t) = Run(b, pb) \cup Run(p, pp)
        <5>1. b \in Nat /\ p \in Nat /\ t = pb + pp /\ p = b + pb
          BY <1>4, <3>1, <4>1
        <5> QED
          BY <5>1, JoinedRun
      <4> QED
        BY <3>1, <4>1, <4>2
    <3>3. CASE end(p) = b
      <4>1. c = p /\ b = p + pp /\ t = pp + pb
        BY <1>4, <1>5, <3>1, <3>3, SMTT(30)
      <4>2. Run(p, t) = Run(p, pp) \cup Run(b, pb)
        <5>1. b \in Nat /\ p \in Nat /\ t = pp + pb /\ b = p + pp
          BY <1>4, <4>1
        <5> QED
          BY <5>1, JoinedRun
      <4> QED
        BY <3>1, <4>1, <4>2
    <3> QED
      BY <1>4, <3>2, <3>3
  <2>5. \A x : x \in FreePages' <=>
                  \E k \in 1..(len - 1) : x \in Run(free_list'[k], property'[free_list'[k]])
    BY <1>8 DEF FreePages, Block
  <2>6. \A x : x \in FreePages <=>
                  \E k \in 1..len : x \in Run(free_list[k], property[free_list[k]])
    BY <1>2 DEF FreePages, Block
  <2>7. \A k \in 1..(len - 1) : property'[free_list'[k]] = property[free_list'[k]]
    BY <1>10
  <2>8. \A x : x \in FreePages' <=>
                  \E h : /\ h # p /\ \E k \in 1..len : free_list[k] = h
                         /\ x \in Run(h, property[h])
    <3> TAKE x
    <3>1. ASSUME NEW k \in 1..(len - 1), x \in Run(free_list'[k], property'[free_list'[k]])
          PROVE  \E h : /\ h # p /\ \E l \in 1..len : free_list[l] = h
                        /\ x \in Run(h, property[h])
      <4>1. PICK h : h = free_list'[k]
        OBVIOUS
      <4>2. h # p /\ \E l \in 1..len : free_list[l] = h
        BY <1>12, <4>1
      <4>3. x \in Run(h, property[h])
        BY <2>7, <3>1, <4>1
      <4> QED
        BY <4>2, <4>3
    <3>2. ASSUME NEW h, h # p, \E k \in 1..len : free_list[k] = h, x \in Run(h, property[h])
          PROVE  \E k \in 1..(len - 1) : x \in Run(free_list'[k], property'[free_list'[k]])
      <4>1. PICK k \in 1..(len - 1) : free_list'[k] = h
        BY <1>12, <3>2
      <4> QED
        BY <2>7, <3>2, <4>1
    <3> QED
      BY <2>5, <3>1, <3>2
  <2>9. \A x : x \in FreePages <=> x \in FreePages' \/ x \in Run(p, property[p])
    <3>1. \E k \in 1..len : free_list[k] = p
      BY <1>2, <1>3
    <3> QED
      BY <2>6, <2>8, <3>1
  <2>10. ASSUME NEW x, x \in FreePages', x \in Run(p, property[p]) PROVE FALSE
    <3>1. PICK l \in 1..len : free_list[l] # p /\ x \in Block(free_list[l])
      BY <2>8, <2>10 DEF Block
    <3>2. x \in Block(free_list[j]) /\ l # j
      BY <1>3, <2>10, <3>1 DEF Block
    <3> QED
      BY <1>2, <1>3, <3>1, <3>2, Disjoint
  <2> QED
    BY <2>1, <2>2, <2>3, <2>9, <2>10 DEF Block
<1>15. FreePages' \cup Freed' = FreePages \cup Freed
  BY <1>14
<1>16. Owned'
  <2>1. FreePages \cap Freed = {} /\ FreePages \cap held = {} /\ Freed \cap held = {}
        /\ FreePages \cup Freed \cup held = Found
    BY DEF IInv, Owned
  <2>2. held' = held
    BY <1>1
  <2> QED
    BY <1>14, <1>15, <2>1, <2>2 DEF Owned
<1>17. Counted'
  BY <1>1, <1>15 DEF IInv, Counted
<1>18. BootOK' /\ RefusedRightly'
  BY <1>1, <1>2 DEF IInv, BootOK, RefusedRightly, MergeOK
<1>19. MergeOK'
  <2>1. ASSUME NEW k \in 1..(len - 1), k < j
        PROVE  \/ free_list'[k] + property'[free_list'[k]] < c
               \/ c + property'[c] < free_list'[k]
    <3>1. free_list'[k] = free_list[k] /\ property'[free_list'[k]] = property[free_list[k]]
      BY <1>10, <2>1
    <3>2. end(free_list[k]) < p
      BY <1>2, <1>3, <2>1 DEF IInv, ListOK
    <3>3. end(free_list[k]) < b \/ end(b) < free_list[k]
      BY <1>2, <1>3, <2>1 DEF IInv, MergeOK
    <3>4. free_list[k] \in Nat /\ property[free_list[k]] \in Nat \ {0}
      BY <1>2, Books DEF Pages
    <3>5. end(free_list[k]) < c
      BY <1>4, <1>5, <3>2, <3>3, <3>4
    <3> QED
      BY <3>1, <3>5
  <2>2. i' \in 1..(Len(free_list') + 1) /\ property'[c] > 0 /\ refused' = 0
    BY <1>1, <1>2, <1>4, <1>6, <1>8, SMTT(30) DEF IInv, MergeOK
  <2>3. base' = c /\ i' = j /\ pc' = "merge" /\ DOMAIN free_list' = 1..(len - 1)
    BY <1>1, <1>3, <1>6, <1>8
  <2> QED
    BY <2>1, <2>2, <2>3 DEF MergeOK
<1> QED
  BY <1>9, <1>11, <1>13, <1>16, <1>17, <1>18, <1>19 DEF IInv

(* default_alloc_pages takes n pages from the front of a block: the block  *)
(* leaves the list, or what is left of it takes its place.                 *)
LEMMA AllocStep ==
    ASSUME DefaultPmmAssumption, IInv, NEW n \in 1..npage, default_alloc_pages(n)
    PROVE  IInv'
<1> DEFINE len == Len(free_list)
           end(x) == x + property[x]
<1>1. /\ pc = "ready" /\ pc' = "ready" /\ refused' = 0
      /\ nr_free' = nr_free - n /\ n <= nr_free /\ Fitting(n) # {}
      /\ n \in Nat \ {0}
      /\ UNCHANGED <<i, base, size>>
  BY DEF default_alloc_pages, DefaultPmmAssumption
<1>2. /\ DOMAIN free_list = 1..len /\ len \in Nat
      /\ free_list \in Seq(Pages)
      /\ property \in [Pages -> Nat]
      /\ PG_property \in [Pages -> BOOLEAN]
  BY Books DEF IInv, TypeOK
<1>3. PICK k \in 1..len : k = Min(Fitting(n)) /\ property[free_list[k]] >= n
  <2>1. Fitting(n) \subseteq Nat /\ Fitting(n) \subseteq 1..len
    BY <1>2 DEF Fitting
  <2>2. Min(Fitting(n)) \in Fitting(n)
    BY <1>1, <2>1, MinLeast
  <2> QED
    BY <1>2, <2>1, <2>2 DEF Fitting
<1>4. PICK page \in Pages : page = free_list[k]
  BY <1>2
<1>5. PICK m \in Nat, rest \in Nat : m = property[page] /\ m >= n /\ m > 0 /\ rest = page + n
  <2>1. property[page] \in Nat \ {0} /\ page \in Nat
    BY <1>2, <1>4, Books DEF Pages
  <2> QED
    BY <1>1, <1>3, <1>4, <2>1
<1>6. /\ page \in Nat
      /\ Run(page, m) \subseteq FreePages
      /\ Run(page, n) \subseteq FreePages
      /\ page \in Run(page, n)
  <2>1. page \in Nat /\ Run(page, m) \subseteq FreePages
    BY <1>2, <1>4, <1>5, Books, SMTT(30) DEF Pages, Block
  <2>2. \A x : x \in Run(page, m) <=> x \in Int /\ page <= x /\ x < page + m
    BY <2>1, InRun
  <2>3. \A x : x \in Run(page, n) <=> x \in Int /\ page <= x /\ x < page + n
    BY <1>1, <2>1, InRun
  <2>4. page \in Run(page, n)
    BY <1>1, <2>1, <2>3
  <2>5. Run(page, n) \subseteq Run(page, m)
    BY <1>1, <1>5, <2>1, <2>2, <2>3
  <2> QED
    BY <2>1, <2>4, <2>5
<1>7. held' = held \cup Run(page, n)
  BY <1>3, <1>4 DEF default_alloc_pages
<1>8. Freed = {} /\ Freed' = {} /\ Found' = Found
  BY <1>1 DEF Freed, Busy, Found
<1>9. \A l \in 1..len : /\ free_list[l] \in Pages /\ free_list[l] \in Nat
                        /\ property[free_list[l]] \in Nat \ {0}
                        /\ l # k => /\ free_list[l] # page
                                    /\ Block(free_list[l]) \cap Run(page, m) = {}
                                    /\ free_list[l] \notin Run(page, m)
  <2> SUFFICES ASSUME NEW l \in 1..len
               PROVE  /\ free_list[l] \in Pages /\ free_list[l] \in Nat
                      /\ property[free_list[l]] \in Nat \ {0}
                      /\ l # k => /\ free_list[l] # page
                                  /\ Block(free_list[l]) \cap Run(page, m) = {}
                                  /\ free_list[l] \notin Run(page, m)
    OBVIOUS
  <2>1. /\ free_list[l] \in Pages /\ free_list[l] \in Nat
        /\ property[free_list[l]] \in Nat \ {0}
        /\ free_list[l] \in Block(free_list[l])
    BY <1>2, Books DEF Pages
  <2>2. Block(page) = Run(page, m)
    BY <1>5 DEF Block
  <2>3. l # k => /\ free_list[l] # page
                 /\ Block(free_list[l]) \cap Block(page) = {}
    BY <1>2, <1>4, Disjoint
  <2> QED
    BY <2>1, <2>2, <2>3
<1>10. \A a, c \in 1..len : a < c => end(free_list[a]) < free_list[c]
  BY <1>2 DEF IInv, ListOK
<1>11. \A x : x \in FreePages <=>
          x \in Run(page, m) \/ \E l \in 1..len : l # k /\ x \in Block(free_list[l])
  <2>1. Block(free_list[k]) = Run(page, m)
    BY <1>4, <1>5 DEF Block
  <2> QED
    BY <1>2, <2>1 DEF FreePages
<1>12. \A p \in Pages : PG_property[p] <=> \E l \in 1..len : free_list[l] = p
  BY <1>1, <1>2 DEF IInv, FlagsOK
(* Either way the list stays sorted and marked, and loses the pages.       *)
<1>13. /\ free_list' \in Seq(Pages)
       /\ property' \in [Pages -> Nat]
       /\ PG_property' \in [Pages -> BOOLEAN]
       /\ ListOK' /\ FlagsOK'
       /\ FreePages' = FreePages \ Run(page, n)
  <2>1. CASE m > n
    <3>1. rest \in Run(page, m) /\ rest \in Pages /\ rest # page
      <4>1. rest \in Run(page, m) /\ rest # page
        <5>1. rest \in Int /\ page <= rest /\ rest < page + m /\ rest # page
          BY <1>1, <1>5, <1>6, <2>1
        <5> QED
          BY <1>6, <5>1, InRun
      <4> QED
        BY <1>6, <4>1, Books
    <3>2. /\ property' = [property EXCEPT ![rest] = m - n]
          /\ PG_property' = [PG_property EXCEPT ![page] = FALSE, ![rest] = TRUE]
          /\ free_list' = [free_list EXCEPT ![k] = rest]
      BY <1>3, <1>4, <1>5, <2>1 DEF default_alloc_pages
    <3>3. /\ property' \in [Pages -> Nat]
          /\ property'[rest] = m - n
          /\ \A p \in Pages : p # rest => property'[p] = property[p]
      <4>1. m - n \in Nat
        BY <1>1, <1>5
      <4> QED
        BY <1>2, <3>1, <3>2, <4>1
    <3>4. /\ PG_property' \in [Pages -> BOOLEAN]
          /\ \A p \in Pages : PG_property'[p] <=> p = rest \/ (PG_property[p] /\ p # page)
      BY <1>2, <3>1, <3>2
    <3>5. /\ free_list' \in Seq(Pages)
          /\ DOMAIN free_list' = 1..len
          /\ free_list'[k] = rest
          /\ \A l \in 1..len : l # k => free_list'[l] = free_list[l]
      BY <1>2, <3>1, <3>2
    <3>6. \A l \in 1..len : l # k =>
              free_list[l] # rest /\ property'[free_list[l]] = property[free_list[l]]
      BY <1>9, <3>1, <3>3
    <3>7. ListOK'
      <4>1. \A l \in 1..len : property'[free_list'[l]] > 0
        <5> TAKE l \in 1..len
        <5>1. CASE l = k
          BY <1>1, <1>5, <2>1, <3>3, <3>5, <5>1
        <5>2. CASE l # k
          BY <1>9, <3>5, <3>6, <5>2
        <5> QED
          BY <5>1, <5>2
      <4>2. ASSUME NEW a \in 1..len, NEW c \in 1..len, a < c
            PROVE  free_list'[a] + property'[free_list'[a]] < free_list'[c]
        <5>1. end(free_list[a]) < free_list[c]
          BY <1>10, <4>2
        <5>2. CASE a = k
          <6>1. c # k /\ free_list'[c] = free_list[c] /\ free_list[c] \in Nat
            BY <1>9, <3>5, <4>2, <5>2
          <6>2. rest + (m - n) = page + m
            BY <1>1, <1>5, <1>6
          <6> QED
            BY <1>4, <1>5, <3>3, <3>5, <5>1, <5>2, <6>1, <6>2
        <5>3. CASE c = k
          <6>1. a # k /\ free_list'[a] = free_list[a]
                /\ property'[free_list'[a]] = property[free_list[a]]
            BY <3>5, <3>6, <4>2, <5>3
          <6>2. end(free_list[a]) < page /\ page < rest /\ free_list'[c] = rest
            BY <1>1, <1>4, <1>5, <1>6, <3>5, <5>1, <5>3
          <6>3. end(free_list[a]) \in Nat
            BY <1>9
          <6> QED
            BY <1>5, <1>6, <6>1, <6>2, <6>3
        <5>4. CASE a # k /\ c # k
          BY <3>5, <3>6, <5>1, <5>4
        <5> QED
          BY <5>2, <5>3, <5>4
      <4> QED
        BY <3>5, <4>1, <4>2 DEF ListOK
    <3>8. FlagsOK'
      <4>1. ASSUME NEW p \in Pages
            PROVE  PG_property'[p] <=> \E l \in 1..len : free_list'[l] = p
        <5>1. PG_property[p] <=> \E l \in 1..len : free_list[l] = p
          BY <1>12
        <5>2. (\E l \in 1..len : free_list'[l] = p)
                <=> p = rest \/ \E l \in 1..len : l # k /\ free_list[l] = p
          BY <3>5
        <5>3. (\E l \in 1..len : l # k /\ free_list[l] = p)
                <=> p # page /\ \E l \in 1..len : free_list[l] = p
          BY <1>4, <1>9
        <5> QED
          BY <3>4, <5>1, <5>2, <5>3
      <4> QED
        BY <1>1, <3>5, <4>1 DEF FlagsOK
    <3>9. FreePages' = FreePages \ Run(page, n)
      <4>1. \A x : x \in FreePages' <=>
                \E l \in 1..len : x \in Run(free_list'[l], property'[free_list'[l]])
        BY <3>5 DEF FreePages, Block
      <4>2. Run(free_list'[k], property'[free_list'[k]]) = Run(rest, m - n)
        BY <3>3, <3>5
      <4>3. \A l \in 1..len : l # k =>
                Run(free_list'[l], property'[free_list'[l]]) = Block(free_list[l])
        BY <3>5, <3>6 DEF Block
      <4>4. \A x : x \in FreePages' <=>
                x \in Run(rest, m - n) \/ \E l \in 1..len : l # k /\ x \in Block(free_list[l])
        BY <4>1, <4>2, <4>3
      <4>5. \A x : x \in Run(rest, m - n) <=> x \in Run(page, m) /\ x \notin Run(page, n)
        <5>1. m - n \in Nat /\ n \in Nat /\ rest + (m - n) = page + m
          BY <1>1, <1>5, <1>6
        <5>2. \A x : x \in Run(rest, m - n) <=> x \in Int /\ rest <= x /\ x < rest + (m - n)
          BY <5>1, InRun
        <5>3. \A x : x \in Run(page, m) <=> x \in Int /\ page <= x /\ x < page + m
          BY <1>6, InRun
        <5>4. \A x : x \in Run(page, n) <=> x \in Int /\ page <= x /\ x < page + n
          BY <1>6, <5>1, InRun
        <5> QED
          BY <1>5, <1>6, <5>1, <5>2, <5>3, <5>4
      <4>6. \A x : x \in Run(page, n) => x \in Run(page, m)
        BY <1>1, <1>5, <1>6, InRun
      <4>7. \A l \in 1..len : \A x : l # k /\ x \in Block(free_list[l]) => x \notin Run(page, m)
        BY <1>9
      <4> QED
        BY <1>11, <4>4, <4>5, <4>6, <4>7
    <3> QED
      BY <3>3, <3>4, <3>5, <3>7, <3>8, <3>9
  <2>2. CASE m = n
    <3>1. /\ PG_property' = [PG_property EXCEPT ![page] = FALSE]
          /\ free_list' = RemoveAt(free_list, k)
          /\ property' = property
      BY <1>1, <1>3, <1>4, <1>5, <2>2 DEF default_alloc_pages
    <3>2. /\ PG_property' \in [Pages -> BOOLEAN]
          /\ \A p \in Pages : PG_property'[p] <=> PG_property[p] /\ p # page
      BY <1>2, <3>1
    <3>3. /\ free_list' \in Seq(Pages)
          /\ Len(free_list') = len - 1
          /\ DOMAIN free_list' = 1..(len - 1)
          /\ \A l \in 1..(len - 1) :
                free_list'[l] = IF l < k THEN free_list[l] ELSE free_list[l + 1]
      <4>1. /\ RemoveAt(free_list, k) \in Seq(Pages)
            /\ Len(RemoveAt(free_list, k)) = len - 1
            /\ \A l \in 1..(len - 1) : RemoveAt(free_list, k)[l]
                                         = IF l < k THEN free_list[l] ELSE free_list[l + 1]
        BY <1>2, Removed
      <4> QED
        BY <3>1, <4>1
    <3>4. \A x : (\E l \in 1..(len - 1) : free_list'[l] = x)
                   <=> x # page /\ \E l \in 1..len : free_list[l] = x
      <4>1. \A a, c \in 1..len : a # c => free_list[a] # free_list[c]
        BY <1>2, Disjoint
      <4>2. \A x : (\E l \in 1..(len - 1) : RemoveAt(free_list, k)[l] = x)
                     <=> x # free_list[k] /\ \E l \in 1..len : free_list[l] = x
        BY <1>2, <4>1, RemovedRest
      <4> QED
        BY <1>4, <3>1, <4>2
    <3>5. ListOK'
      <4>1. \A l \in 1..(len - 1) : property[free_list'[l]] > 0
        <5> TAKE l \in 1..(len - 1)
        <5>1. PICK j \in 1..len : free_list[j] = free_list'[l]
          BY <3>4
        <5>2. property[free_list[j]] > 0
          BY <1>9
        <5> QED
          BY <5>1, <5>2
      <4>2. ASSUME NEW a \in 1..(len - 1), NEW c \in 1..(len - 1), a < c
            PROVE  end(free_list'[a]) < free_list'[c]
        <5>1. PICK l \in 1..len : l = IF a < k THEN a ELSE a + 1
          BY <1>2
        <5>2. PICK j \in 1..len : j = IF c < k THEN c ELSE c + 1
          BY <1>2
        <5>3. l < j /\ free_list'[a] = free_list[l] /\ free_list'[c] = free_list[j]
          <6>1. l < j
            BY <1>2, <4>2, <5>1, <5>2
          <6> QED
            BY <3>3, <5>1, <5>2, <6>1
        <5> QED
          BY <1>10, <5>3
      <4> QED
        BY <3>1, <3>3, <4>1, <4>2 DEF ListOK
    <3>6. FlagsOK'
      BY <1>1, <1>12, <3>2, <3>3, <3>4, ZenonT(40) DEF FlagsOK
    <3>7. FreePages' = FreePages \ Run(page, n)
      <4>1. \A x : x \in FreePages' <=> \E l \in 1..(len - 1) : x \in Block(free_list'[l])
        BY <3>1, <3>3 DEF FreePages, Block
      <4>2. \A x : (\E l \in 1..(len - 1) : x \in Block(free_list'[l]))
                     <=> \E l \in 1..len : l # k /\ x \in Block(free_list[l])
        <5> TAKE x
        <5>1. \A l \in 1..len : l # k <=> free_list[l] # page
          BY <1>4, <1>9
        <5>2. ASSUME NEW l \in 1..(len - 1), x \in Block(free_list'[l])
              PROVE  \E j \in 1..len : j # k /\ x \in Block(free_list[j])
          BY <3>4, <5>1, <5>2
        <5>3. ASSUME NEW j \in 1..len, j # k, x \in Block(free_list[j])
              PROVE  \E l \in 1..(len - 1) : x \in Block(free_list'[l])
          BY <3>4, <5>1, <5>3
        <5> QED
          BY <5>2, <5>3
      <4>3. \A l \in 1..len : \A x : l # k /\ x \in Block(free_list[l]) => x \notin Run(page, m)
        BY <1>9
      <4> QED
        BY <1>11, <2>2, <4>1, <4>2, <4>3
    <3> QED
      BY <1>2, <3>1, <3>2, <3>3, <3>5, <3>6, <3>7
  <2> QED
    BY <1>1, <1>5, <2>1, <2>2
<1>14. TypeOK'
  <2>1. nr_free' \in Nat /\ refused' \in Nat
    BY <1>1 DEF IInv, TypeOK
  <2>2. held' \subseteq Pages
    BY <1>6, <1>7, Books DEF IInv, TypeOK
  <2>3. pc' = "ready" /\ i' \in Nat \ {0} /\ base' \in Pages /\ size' \in Nat
    BY <1>1 DEF IInv, TypeOK
  <2> QED
    BY <1>13, <2>1, <2>2, <2>3 DEF TypeOK
<1>15. Owned'
  BY <1>6, <1>7, <1>8, <1>13 DEF IInv, Owned
<1>16. Counted'
  <2>1. IsFiniteSet(FreePages)
    BY Books
  <2>2. nr_free = Cardinality(FreePages) /\ nr_free \in Nat
    BY <1>1, <1>8 DEF IInv, Counted, TypeOK
  <2>3. Cardinality(FreePages \ Run(page, n)) = Cardinality(FreePages) - n
    BY <1>1, <1>6, <2>1, Shrunk
  <2> QED
    BY <1>1, <1>8, <1>13, <2>2, <2>3 DEF Counted
<1>17. BootOK' /\ MergeOK' /\ RefusedRightly'
  BY <1>1 DEF BootOK, MergeOK, Busy, RefusedRightly
<1> QED
  BY <1>13, <1>14, <1>15, <1>16, <1>17 DEF IInv

(* page_init passes the next region to default_init_memmap.                *)
LEMMA BootStep ==
    ASSUME DefaultPmmAssumption, IInv, default_init_memmap
    PROVE  IInv'
<1> DEFINE len == Len(free_list)
<1>1. /\ pc = "boot" /\ UNCHANGED <<held, base, size, refused>>
      /\ \/ i = Len(Regions) /\ pc' = "ready" /\ i' = 1
         \/ i # Len(Regions) /\ pc' = "boot" /\ i' = i + 1
  BY DEF default_init_memmap
<1>2. /\ held = {} /\ refused = 0 /\ i \in 1..Len(Regions) /\ len = i - 1
      /\ Len(Regions) \in Nat
      /\ DOMAIN free_list = 1..len /\ len \in Nat
  BY <1>1, Books, Mapped DEF IInv, BootOK
<1>3. \A k \in 1..len : free_list[k] = Regions[k].base /\ property[free_list[k]] = Regions[k].n
  BY <1>1, <1>2 DEF IInv, BootOK
<1>4. PICK b \in Nat, n \in Nat \ {0}, j \in 1..Len(Regions) :
          b = Regions[i].base /\ n = Regions[i].n /\ j = i
  BY <1>2, Mapped
<1>5. b \in Pages /\ b \in Run(b, n) /\ Run(b, n) \subseteq Pages
  <2>1. b + n <= npage /\ npage \in Nat
    BY <1>2, <1>4, Mapped DEF DefaultPmmAssumption
  <2>2. \A x : x \in Run(b, n) <=> x \in Int /\ b <= x /\ x < b + n
    BY <1>4, InRun
  <2> QED
    BY <1>4, <2>1, <2>2 DEF Pages
<1>6. \A k \in 1..len : Regions[k].base + Regions[k].n < b
  <2>1. \A k \in 1..len : k \in 1..Len(Regions) /\ k < j
    BY <1>2, <1>4
  <2> QED
    BY <1>4, <2>1, Mapped
<1>7. /\ property' \in [Pages -> Nat]
      /\ property'[b] = n
      /\ \A p \in Pages : p \notin Run(b, n) => property'[p] = property[p]
  <2>1. property' = [p \in Pages |-> IF p = b THEN n
                                     ELSE IF p \in Run(b, n) THEN 0 ELSE property[p]]
    BY <1>4 DEF default_init_memmap
  <2>2. property \in [Pages -> Nat]
    BY DEF IInv, TypeOK
  <2> QED
    BY <1>5, <2>1, <2>2
<1>8. /\ PG_property' \in [Pages -> BOOLEAN]
      /\ \A p \in Pages : PG_property'[p] <=> PG_property[p] \/ p = b
  BY <1>4, <1>5 DEF default_init_memmap, IInv, TypeOK
<1>9. nr_free' = nr_free + n /\ nr_free \in Nat
  BY <1>4 DEF default_init_memmap, IInv, TypeOK
<1>10. /\ free_list' \in Seq(Pages)
       /\ Len(free_list') = len + 1
       /\ DOMAIN free_list' = 1..(len + 1)
       /\ free_list'[len + 1] = b
       /\ \A k \in 1..len : free_list'[k] = free_list[k]
  <2>1. free_list' = Append(free_list, b) /\ free_list \in Seq(Pages)
    BY <1>4 DEF default_init_memmap, IInv, TypeOK
  <2> QED
    BY <1>2, <1>5, <2>1
<1>11. \A k \in 1..len : /\ free_list[k] \in Pages /\ free_list[k] \in Nat
                         /\ property[free_list[k]] \in Nat \ {0}
                         /\ free_list[k] + property[free_list[k]] < b
                         /\ free_list[k] \notin Run(b, n)
                         /\ property'[free_list[k]] = property[free_list[k]]
  <2> TAKE k \in 1..len
  <2>1. /\ free_list[k] \in Pages /\ free_list[k] \in Nat
        /\ property[free_list[k]] \in Nat \ {0}
    BY <1>2, Books DEF Pages
  <2>2. free_list[k] + property[free_list[k]] < b
    BY <1>3, <1>6
  <2>3. free_list[k] \notin Run(b, n)
    BY <1>4, <2>1, <2>2, InRun
  <2> QED
    BY <1>7, <2>1, <2>2, <2>3
<1>12. \A k \in 1..(len + 1) : k \in 1..len \/ k = len + 1
  BY <1>2
<1>13. TypeOK'
  <2>1. nr_free' \in Nat
    BY <1>4, <1>9
  <2>2. pc' \in {"boot", "ready"} /\ i' \in Nat \ {0}
    BY <1>1, <1>2
  <2>3. held' \subseteq Pages /\ base' \in Pages /\ size' \in Nat /\ refused' \in Nat
    BY <1>1 DEF IInv, TypeOK
  <2> QED
    BY <1>7, <1>8, <1>10, <2>1, <2>2, <2>3 DEF TypeOK
<1>14. ListOK'
  <2>1. \A k \in 1..(len + 1) : property'[free_list'[k]] > 0
    BY <1>4, <1>7, <1>10, <1>11, <1>12, SMTT(30)
  <2>2. ASSUME NEW k \in 1..(len + 1), NEW l \in 1..(len + 1), k < l
        PROVE  free_list'[k] + property'[free_list'[k]] < free_list'[l]
    <3>1. /\ k \in 1..len /\ free_list'[k] = free_list[k]
          /\ property'[free_list'[k]] = property[free_list[k]]
      BY <1>2, <1>10, <1>11, <2>2
    <3>2. CASE l = len + 1
      BY <1>10, <1>11, <3>1, <3>2
    <3>3. CASE l \in 1..len
      BY <1>2, <1>10, <2>2, <3>1, <3>3 DEF IInv, ListOK
    <3> QED
      BY <1>12, <3>2, <3>3
  <2> QED
    BY <1>10, <2>1, <2>2 DEF ListOK
<1>15. FlagsOK'
  <2>1. ASSUME NEW p \in Pages
        PROVE  PG_property'[p] <=> \E k \in 1..(len + 1) : free_list'[k] = p
    <3>1. PG_property[p] <=> \E k \in 1..len : free_list[k] = p
      BY <1>1, <1>2 DEF IInv, FlagsOK
    <3>2. len + 1 \in 1..(len + 1) /\ \A k \in 1..len : k \in 1..(len + 1)
      BY <1>2
    <3> QED
      BY <1>8, <1>10, <1>12, <3>1, <3>2
  <2> QED
    BY <1>1, <1>10, <2>1 DEF FlagsOK
<1>16. FreePages' = FreePages \cup Run(b, n) /\ FreePages \cap Run(b, n) = {}
  <2>1. \A x : x \in FreePages' <=>
            \E k \in 1..(len + 1) : x \in Run(free_list'[k], property'[free_list'[k]])
    BY <1>10 DEF FreePages, Block
  <2>2. \A x : x \in FreePages <=>
            \E k \in 1..len : x \in Run(free_list[k], property[free_list[k]])
    BY <1>2 DEF FreePages, Block
  <2>3. /\ \A k \in 1..len : Run(free_list'[k], property'[free_list'[k]])
                               = Run(free_list[k], property[free_list[k]])
        /\ Run(free_list'[len + 1], property'[free_list'[len + 1]]) = Run(b, n)
    BY <1>7, <1>10, <1>11
  <2>4. \A x : x \in FreePages' <=> x \in FreePages \/ x \in Run(b, n)
    <3>1. len + 1 \in 1..(len + 1) /\ \A k \in 1..len : k \in 1..(len + 1)
      BY <1>2
    <3> QED
      BY <1>12, <2>1, <2>2, <2>3, <3>1
  <2>5. ASSUME NEW x, x \in FreePages, x \in Run(b, n) PROVE FALSE
    <3>1. PICK k \in 1..len : x \in Run(free_list[k], property[free_list[k]])
      BY <2>2, <2>5
    <3>2. x \in Int /\ x < free_list[k] + property[free_list[k]] /\ b <= x
      BY <1>4, <1>11, <2>5, <3>1, InRun
    <3> QED
      BY <1>4, <1>11, <3>2
  <2> QED
    BY <2>4, <2>5
<1>17. Found' = Found \cup Run(b, n) /\ Freed = {} /\ Freed' = {}
  <2>1. Freed = {} /\ Freed' = {}
    BY <1>1 DEF Freed, Busy
  <2>2. Found = UNION {Run(Regions[k].base, Regions[k].n) : k \in 1..(j - 1)}
    BY <1>1, <1>4 DEF Found
  <2>3. Found' = UNION {Run(Regions[k].base, Regions[k].n) : k \in 1..j}
    <3>1. CASE j = Len(Regions)
      BY <1>1, <1>4, <3>1, Mapped DEF Found, Usable
    <3>2. CASE j # Len(Regions)
      <4>1. pc' = "boot" /\ i' - 1 = j
        BY <1>1, <1>2, <1>4, <3>2
      <4> QED
        BY <4>1 DEF Found
    <3> QED
      BY <3>1, <3>2
  <2>4. 1..j = 1..(j - 1) \cup {j}
    BY <1>2
  <2>5. Run(Regions[j].base, Regions[j].n) = Run(b, n)
    BY <1>4
  <2> QED
    BY <2>1, <2>2, <2>3, <2>4, <2>5
<1>18. Owned'
  <2>1. FreePages \cup {} \cup {} = Found
    BY <1>2, <1>17 DEF IInv, Owned
  <2> QED
    BY <1>1, <1>2, <1>16, <1>17, <2>1 DEF Owned
<1>19. Counted'
  <2>1. IsFiniteSet(FreePages) /\ n \in Nat
    BY <1>4, Books
  <2>2. nr_free = Cardinality(FreePages)
    BY <1>1, <1>9, <1>17 DEF IInv, Counted
  <2>3. Cardinality(FreePages \cup Run(b, n)) = Cardinality(FreePages) + n
    BY <1>4, <1>16, <2>1, Grown
  <2> QED
    BY <1>1, <1>4, <1>9, <1>16, <1>17, <2>2, <2>3 DEF Counted
<1>20. BootOK'
  <2>1. CASE i # Len(Regions)
    <3>1. i' = len + 2 /\ i' \in 1..Len(Regions) /\ len + 1 = j
      BY <1>1, <1>2, <1>4, <2>1
    <3>2. ASSUME NEW k \in 1..(len + 1)
          PROVE  free_list'[k] = Regions[k].base /\ property'[free_list'[k]] = Regions[k].n
      <4>1. CASE k \in 1..len
        BY <1>3, <1>10, <1>11, <4>1
      <4>2. CASE k = len + 1
        BY <1>4, <1>7, <1>10, <3>1, <4>2
      <4> QED
        BY <1>12, <4>1, <4>2
    <3> QED
      BY <1>1, <1>2, <1>10, <3>1, <3>2 DEF BootOK
  <2>2. CASE i = Len(Regions)
    BY <1>1, <2>2 DEF BootOK
  <2> QED
    BY <2>1, <2>2
<1>21. MergeOK' /\ RefusedRightly'
  BY <1>1, <1>2 DEF MergeOK, Busy, RefusedRightly
<1> QED
  BY <1>13, <1>14, <1>15, <1>18, <1>19, <1>20, <1>21 DEF IInv

LEMMA MergeStep ==
    ASSUME DefaultPmmAssumption, IInv, merge
    PROVE  IInv'
BY MergePassStep, MergeJoinStep

LEMMA Stutter ==
    ASSUME IInv, UNCHANGED vars
    PROVE  IInv'
<1>1. UNCHANGED <<free_list, nr_free, property, PG_property, held, pc, i, base, size, refused>>
  BY DEF vars, free_vars
<1>2. FreePages' = FreePages /\ Freed' = Freed /\ Found' = Found
  BY <1>1 DEF FreePages, Freed, Found, Busy, Block
<1>3. TypeOK' /\ ListOK'
  BY <1>1 DEF IInv, TypeOK, ListOK
<1>4. FlagsOK'
  BY <1>1 DEF IInv, FlagsOK
<1>5. Owned' /\ Counted' /\ RefusedRightly'
  BY <1>1, <1>2 DEF IInv, Owned, Counted, RefusedRightly
<1>6. BootOK'
  BY <1>1 DEF IInv, BootOK
<1>7. MergeOK'
  BY <1>1 DEF IInv, MergeOK, Busy
<1> QED
  BY <1>3, <1>4, <1>5, <1>6, <1>7 DEF IInv

LEMMA NextIInv ==
    ASSUME DefaultPmmAssumption, IInv, [Next]_vars
    PROVE  IInv'
<1>1. CASE default_init_memmap
  BY <1>1, BootStep
<1>2. ASSUME NEW n \in 1..npage, default_alloc_pages(n) PROVE IInv'
  BY <1>2, AllocStep
<1>3. ASSUME NEW n \in 1..npage, alloc_refused(n) PROVE IInv'
  BY <1>3, RefusedStep
<1>4. ASSUME NEW n \in 1..npage, NEW b \in Pages, default_free_pages(b, n) PROVE IInv'
  BY <1>4, FreeStep
<1>5. CASE merge
  BY <1>5, MergeStep
<1>6. CASE merge_end
  BY <1>6, MergeEndStep
<1>7. CASE insert
  BY <1>7, InsertStep
<1>8. CASE UNCHANGED vars
  BY <1>8, Stutter
<1> QED
  BY <1>1, <1>2, <1>3, <1>4, <1>5, <1>6, <1>7, <1>8 DEF Next

LEMMA IInvPoolOK ==
    ASSUME IInv
    PROVE  PoolOK
<1>1. PagesAccounted
  <2> SUFFICES ASSUME pc = "ready"
               PROVE  /\ FreePages \cap held = {}
                      /\ FreePages \cup held = Usable
                      /\ nr_free = Cardinality(FreePages)
    BY DEF PagesAccounted
  <2>1. Freed = {} /\ Found = Usable
    BY DEF Freed, Busy, Found
  <2>2. nr_free = Cardinality(FreePages)
    BY <2>1 DEF IInv, Counted, TypeOK
  <2> QED
    BY <2>1, <2>2 DEF IInv, Owned
<1>2. MergeDone
  BY DEF IInv, MergeOK, MergeDone, Busy
<1> QED
  BY <1>1, <1>2 DEF IInv, PoolOK

(* For any memory map that page_init may find and any sequence of calls:   *)
(* the free blocks are sorted, disjoint and merged, the flags mark their   *)
(* heads, every usable page is free or held and nr_free counts the free    *)
(* ones, no assertion of default_free_pages fails, and alloc_pages(n)      *)
(* returns NULL only if there are no n free pages in a row                 *)
(* (default_pmm.c).                                                        *)
THEOREM PoolCorrect ==
    ASSUME DefaultPmmAssumption
    PROVE  Spec => []PoolOK
<1>1. Init => IInv
  BY InitIInv
<1>2. IInv /\ [Next]_vars => IInv'
  BY NextIInv
<1>3. IInv => PoolOK
  BY IInvPoolOK
<1> QED
  BY <1>1, <1>2, <1>3, PTL DEF Spec

-----------------------------------------------------------------------------
(* The kernel heap.                                                        *)

(* Units, pages and the page of a unit.                                    *)
LEMMA DivRange ==
    ASSUME NEW d \in Nat \ {0}, NEW p \in Nat, NEW b, b = p * d, NEW u \in Int
    PROVE  b <= u /\ u < b + d <=> 0 <= u /\ u \div d = p
  OBVIOUS

LEMMA DivAtLeast ==
    ASSUME NEW d \in Nat \ {0}, NEW x \in Nat, 2 * d <= x
    PROVE  x \div d \in Nat /\ x \div d >= 2
  OBVIOUS

LEMMA Multiple ==
    ASSUME NEW d \in Nat \ {0}, NEW p \in Nat
    PROVE  (p * d) % d = 0 /\ (p * d) \div d = p
  OBVIOUS

-----------------------------------------------------------------------------
(* The ring of free blocks.                                                *)
Heads(r) == DOMAIN r.next

(* The block after b is the next one up, and does not touch it; after the  *)
(* highest one comes arena.                                                *)
Follows(r, b) ==
    \/ r.next[b] = arena /\ \A c \in Heads(r) : c <= b
    \/ /\ b + r.units[b] < r.next[b]
       /\ \A c \in Heads(r) : c <= b \/ c >= r.next[b]

RingInv(r) ==
    /\ IsFiniteSet(Heads(r))
    /\ Heads(r) \subseteq Nat \cup {arena}
    /\ arena \in Heads(r)
    /\ r.next \in [Heads(r) -> Heads(r)]
    /\ r.units \in [Heads(r) -> Nat \ {0}]
    /\ r.units[arena] = 1
    /\ r.slobfree \in Heads(r)
    /\ \A b \in Heads(r) : Follows(r, b)

FreeUnits(r) ==
    {u \in Int : \E b \in Heads(r) : b <= u /\ u < b + r.units[b]}

LEMMA InSpan ==
    ASSUME NEW b \in Int, NEW n \in Int
    PROVE  \A u : u \in Span(b, n) <=> u \in Int /\ b <= u /\ u < b + n
  BY DEF Span

LEMMA HeadTypes ==
    ASSUME NEW r, RingInv(r), NEW b \in Heads(r)
    PROVE  /\ b \in Int /\ b >= arena /\ arena \in Int /\ (b # arena => b \in Nat)
           /\ r.next[b] \in Heads(r) /\ r.next[b] \in Int
           /\ r.units[b] \in Nat /\ r.units[b] > 0
  BY DEF RingInv, arena

(* What follows b, for comparing with another block c.                     *)
LEMMA Order ==
    ASSUME NEW r, RingInv(r), NEW b \in Heads(r), NEW c \in Heads(r)
    PROVE  \/ r.next[b] = arena /\ c <= b
           \/ b + r.units[b] < r.next[b] /\ (c <= b \/ c >= r.next[b])
  BY DEF RingInv, Follows

LEMMA NextInjective ==
    ASSUME NEW r, RingInv(r), NEW b \in Heads(r), NEW c \in Heads(r), b # c
    PROVE  r.next[b] # r.next[c]
<1>1. /\ \/ r.next[b] = arena /\ c <= b
         \/ b + r.units[b] < r.next[b] /\ (c <= b \/ c >= r.next[b])
      /\ \/ r.next[c] = arena /\ b <= c
         \/ c + r.units[c] < r.next[c] /\ (b <= c \/ b >= r.next[c])
  BY Order
<1>2. /\ b \in Int /\ c \in Int /\ arena \in Int /\ b >= arena /\ c >= arena
      /\ r.next[b] \in Int /\ r.next[c] \in Int
      /\ r.units[b] \in Nat /\ r.units[c] \in Nat
  BY HeadTypes
<1> QED
  BY <1>1, <1>2

(* Free blocks do not touch.                                               *)
LEMMA HeadsApart ==
    ASSUME NEW r, RingInv(r), NEW b \in Heads(r), NEW c \in Heads(r), b < c
    PROVE  b + r.units[b] < c
<1>1. \/ r.next[b] = arena /\ c <= b
      \/ b + r.units[b] < r.next[b] /\ (c <= b \/ c >= r.next[b])
  BY Order
<1>2. b \in Int /\ c \in Int /\ r.next[b] \in Int /\ r.units[b] \in Nat
  BY HeadTypes
<1> QED
  BY <1>1, <1>2

-----------------------------------------------------------------------------
(* The walk around the ring.                                               *)
Steps(r, n, f) ==
    /\ f \in [0..n -> Heads(r)]
    /\ f[0] = r.slobfree
    /\ \A k \in 1..n : f[k] = r.next[f[k - 1]]

LEMMA StepsExist ==
    ASSUME NEW r, RingInv(r), NEW N \in Nat
    PROVE  \E f : Steps(r, N, f)
<1> DEFINE B == {n \in 0..N : ~\E f : Steps(r, n, f)}
<1>1. SUFFICES ASSUME B # {} PROVE FALSE
  <2>1. N \in 0..N
    OBVIOUS
  <2> QED
    BY <2>1
<1>2. Min(B) \in B /\ \A m \in B : Min(B) <= m
  <2>1. B \subseteq Nat
    OBVIOUS
  <2> HIDE DEF B
  <2> QED
    BY <1>1, <2>1, MinLeast
<1>3. PICK n \in B : \A m \in B : n <= m
  BY <1>2
<1>4. n \in 0..N /\ ~\E f : Steps(r, n, f)
  OBVIOUS
<1>5. r.slobfree \in Heads(r)
  BY DEF RingInv
<1>6. n # 0
  <2>1. Steps(r, 0, [k \in 0..0 |-> r.slobfree])
    BY <1>5 DEF Steps
  <2> QED
    BY <1>4, <2>1
<1>7. PICK m \in 0..N : m = n - 1 /\ m \notin B
  BY <1>3, <1>4, <1>6
<1>8. PICK f : Steps(r, m, f)
  BY <1>7
<1> HIDE DEF B
<1> DEFINE g == [k \in 0..n |-> IF k = n THEN r.next[f[m]] ELSE f[k]]
<1>9. f \in [0..m -> Heads(r)] /\ f[0] = r.slobfree /\ \A k \in 1..m : f[k] = r.next[f[k - 1]]
  BY <1>8 DEF Steps
<1>10. r.next[f[m]] \in Heads(r)
  <2>1. f[m] \in Heads(r)
    BY <1>7, <1>9
  <2> QED
    BY <2>1, HeadTypes
<1>11. g \in [0..n -> Heads(r)] /\ g[0] = r.slobfree
  BY <1>4, <1>6, <1>7, <1>9, <1>10
<1>12. ASSUME NEW k \in 1..n PROVE g[k] = r.next[g[k - 1]]
  <2>1. CASE k = n
    BY <1>4, <1>7, <2>1
  <2>2. CASE k # n
    BY <1>4, <1>7, <1>9, <2>2
  <2> QED
    BY <2>1, <2>2
<1> HIDE DEF g
<1>13. Steps(r, n, g)
  BY <1>11, <1>12 DEF Steps
<1> QED
  BY <1>4, <1>13

LEMMA WalkSteps ==
    ASSUME NEW r, RingInv(r)
    PROVE  Steps(r, Cardinality(Heads(r)), Walk(r))
<1>1. PICK N \in Nat : N = Cardinality(Heads(r))
  BY FS_CardinalityType DEF RingInv
<1> DEFINE Rec(f) == [k \in 0..N |-> IF k = 0 THEN r.slobfree ELSE r.next[f[k - 1]]]
<1>2. PICK g : Steps(r, N, g)
  BY StepsExist
<1>3. g = Rec(g)
  BY <1>2 DEF Steps
<1>4. Walk(r) = CHOOSE f : f = Rec(f)
  BY <1>1 DEF Walk, Heads
<1>5. PICK d : d = Walk(r)
  OBVIOUS
<1>6. d = Rec(d)
  BY <1>3, <1>4, <1>5
<1>7. d[0] = r.slobfree /\ \A k \in 1..N : d[k] = r.next[d[k - 1]]
  BY <1>6
<1>8. DOMAIN d = 0..N /\ d = [k \in 0..N |-> d[k]]
  BY <1>6
<1> DEFINE B == {k \in 0..N : d[k] \notin Heads(r)}
<1>9. B = {}
  <2> SUFFICES ASSUME B # {} PROVE FALSE
    OBVIOUS
  <2>1. PICK k \in B : \A m \in B : k <= m
    <3>1. B \subseteq Nat
      OBVIOUS
    <3> HIDE DEF B
    <3> QED
      BY <3>1, MinLeast
  <2>2. k \in 1..N
    BY <1>7 DEF RingInv
  <2>3. d[k - 1] \in Heads(r)
    BY <2>1, <2>2
  <2>4. r.next[d[k - 1]] \in Heads(r)
    BY <2>3, HeadTypes
  <2> QED
    BY <1>7, <2>2, <2>4
<1>10. d \in [0..N -> Heads(r)]
  BY <1>8, <1>9
<1> QED
  BY <1>1, <1>5, <1>7, <1>10 DEF Steps

(* It comes back to where it has been, and passes arena on the way.        *)
LEMMA WalkReturns ==
    ASSUME NEW r, RingInv(r)
    PROVE  \E V \in SUBSET Heads(r) :
              /\ arena \in V
              /\ \A v \in V : r.next[v] \in V
              /\ \A v \in V : \E k \in DOMAIN Walk(r) : Walk(r)[k] = v
<1>1. PICK N \in Nat : N = Cardinality(Heads(r))
  BY FS_CardinalityType DEF RingInv
<1>2. PICK w : w = Walk(r)
  OBVIOUS
<1>3. /\ w \in [0..N -> Heads(r)]
      /\ \A k \in 1..N : w[k] = r.next[w[k - 1]]
  BY <1>1, <1>2, WalkSteps DEF Steps
<1>4. \E x, y \in 0..N : x # y /\ w[x] = w[y]
  <2>1. IsFiniteSet(0..N) /\ Cardinality(0..N) = N + 1
    BY FS_Interval
  <2>2. IsFiniteSet(Heads(r))
    BY DEF RingInv
  <2> QED
    BY <1>1, <1>3, <2>1, <2>2, FS_PigeonHole
<1>5. PICK i0 \in 0..N, j0 \in 0..N : i0 < j0 /\ w[i0] = w[j0]
  <2>1. PICK x \in 0..N, y \in 0..N : x # y /\ w[x] = w[y]
    BY <1>4
  <2>2. x < y \/ y < x
    BY <2>1
  <2> QED
    BY <2>1, <2>2
<1>6. ASSUME NEW k \in 1..N
      PROVE  /\ w[k] \in Int /\ w[k - 1] \in Int
             /\ w[k] # arena => w[k - 1] < w[k]
  <2>1. w[k - 1] \in Heads(r) /\ w[k] = r.next[w[k - 1]]
    BY <1>3
  <2>2. PICK b \in Heads(r) : b = w[k - 1]
    BY <2>1
  <2>3. /\ b \in Int /\ r.next[b] \in Int /\ r.units[b] \in Nat
        /\ r.next[b] = arena \/ b + r.units[b] < r.next[b]
    BY HeadTypes, Order
  <2> QED
    BY <2>1, <2>2, <2>3
<1>7. \E k \in (i0 + 1)..j0 : w[k] = arena
  <2> SUFFICES ASSUME \A k \in (i0 + 1)..j0 : w[k] # arena PROVE FALSE
    OBVIOUS
  <2>0. \A k \in (i0 + 1)..j0 : k \in 1..N /\ w[k] \in Int /\ w[k - 1] \in Int /\ w[k - 1] < w[k]
    BY <1>6
  <2> DEFINE B == {k \in (i0 + 1)..j0 : w[k] <= w[i0]}
  <2>1. w[i0] \in Int /\ j0 \in B
    <3>1. j0 \in (i0 + 1)..j0
      BY <1>5
    <3>2. w[j0] \in Int
      BY <2>0, <3>1
    <3> QED
      BY <1>5, <3>1, <3>2
  <2>2. PICK k \in B : \A m \in B : k <= m
    <3>1. B \subseteq Nat
      OBVIOUS
    <3> HIDE DEF B
    <3> QED
      BY <2>1, <3>1, MinLeast
  <2>3. k \in (i0 + 1)..j0 /\ w[k] <= w[i0] /\ w[k - 1] < w[k]
    BY <2>0
  <2>4. CASE k = i0 + 1
    BY <2>0, <2>1, <2>3, <2>4
  <2>5. CASE k # i0 + 1
    <3>1. k - 1 \in (i0 + 1)..j0 /\ k - 1 \notin B
      BY <2>2, <2>3, <2>5
    <3>2. ~(w[k - 1] <= w[i0]) /\ w[k - 1] \in Int /\ w[k] \in Int
      BY <2>0, <2>3, <3>1
    <3> QED
      BY <2>1, <2>3, <3>2
  <2> QED
    BY <2>4, <2>5
<1> DEFINE V == {w[k] : k \in i0..j0}
<1>8. V \subseteq Heads(r)
  BY <1>3
<1>9. arena \in V
  BY <1>7
<1>10. ASSUME NEW k \in i0..j0 PROVE r.next[w[k]] \in V
  <2>1. CASE k < j0
    <3>1. k + 1 \in 1..N /\ k + 1 \in i0..j0 /\ (k + 1) - 1 = k
      BY <2>1
    <3>2. w[k + 1] = r.next[w[k]]
      BY <1>3, <3>1
    <3> QED
      BY <3>1, <3>2
  <2>2. CASE k = j0
    <3>1. i0 + 1 \in 1..N /\ i0 + 1 \in i0..j0 /\ (i0 + 1) - 1 = i0
      BY <1>5
    <3>2. w[i0 + 1] = r.next[w[i0]]
      BY <1>3, <3>1
    <3> QED
      BY <1>5, <2>2, <3>1, <3>2
  <2> QED
    BY <2>1, <2>2
<1>11. \A v \in V : r.next[v] \in V
  BY <1>10
<1>12. \A v \in V : \E k \in DOMAIN w : w[k] = v
  BY <1>3
<1> HIDE DEF V
<1> QED
  BY <1>2, <1>8, <1>9, <1>11, <1>12

(* The place of a block that is not free.                                  *)
Place(r, c, b) ==
    /\ c \in Heads(r) /\ c < b
    /\ \/ r.next[c] = arena /\ \A d \in Heads(r) : d <= c
       \/ b < r.next[c] /\ \A d \in Heads(r) : d <= c \/ d >= r.next[c]

LEMMA BetweenMeans ==
    ASSUME NEW r, RingInv(r), NEW c \in Heads(r), NEW b \in Nat, Between(r, c, b)
    PROVE  Place(r, c, b)
<1>1. /\ c \in Int /\ arena \in Int /\ r.next[c] \in Int /\ r.units[c] \in Nat
      /\ r.next[c] >= arena /\ c >= arena
  BY HeadTypes
<1>2. \/ r.next[c] = arena /\ \A d \in Heads(r) : d <= c
      \/ c + r.units[c] < r.next[c] /\ \A d \in Heads(r) : d <= c \/ d >= r.next[c]
  BY DEF RingInv, Follows
<1>3. arena < 0
  BY DEF arena
<1>4. CASE r.next[c] = arena /\ \A d \in Heads(r) : d <= c
  <2>1. c < b
    BY <1>1, <1>3, <1>4 DEF Between
  <2> QED
    BY <1>4, <2>1 DEF Place
<1>5. CASE c + r.units[c] < r.next[c] /\ \A d \in Heads(r) : d <= c \/ d >= r.next[c]
  <2>1. c < b /\ b < r.next[c]
    BY <1>1, <1>5 DEF Between
  <2> QED
    BY <1>5, <2>1 DEF Place
<1> QED
  BY <1>2, <1>4, <1>5

LEMMA PlaceFound ==
    ASSUME NEW r, RingInv(r), NEW b \in Nat, b \notin Heads(r)
    PROVE  \E k \in DOMAIN Walk(r) : Between(r, Walk(r)[k], b)
<1>1. PICK V \in SUBSET Heads(r) :
        /\ arena \in V
        /\ \A v \in V : r.next[v] \in V
        /\ \A v \in V : \E k \in DOMAIN Walk(r) : Walk(r)[k] = v
  BY WalkReturns
<1>2. \A v \in V : v \in Int /\ r.next[v] \in V
  BY <1>1, HeadTypes
<1> DEFINE S == {b - v : v \in {v \in V : v < b}}
<1>3. S \subseteq Nat /\ S # {}
  <2>1. arena < b
    BY DEF arena
  <2> QED
    BY <1>1, <1>2, <2>1
<1>4. PICK s \in S : \A y \in S : s <= y
  <2> HIDE DEF S
  <2> QED
    BY <1>3, MinLeast
<1>5. PICK e \in V : e < b /\ s = b - e
  OBVIOUS
<1>6. ASSUME NEW v \in V, v < b PROVE v <= e
  <2>1. b - v \in S
    BY <1>6
  <2>2. s <= b - v
    BY <1>4, <2>1
  <2> QED
    BY <1>2, <1>5, <2>2
<1> HIDE DEF S
<1>7. /\ r.next[e] \in V /\ r.next[e] \in Int /\ e \in Int /\ r.units[e] \in Nat
      /\ r.next[e] # b /\ arena \in Int /\ e >= arena
      /\ r.next[e] = arena \/ e + r.units[e] < r.next[e]
  <2>1. e \in Heads(r) /\ r.next[e] \in V
    BY <1>1
  <2> QED
    BY <2>1, <1>1, HeadTypes, Order
<1>8. r.next[e] < b => r.next[e] <= e
  BY <1>6, <1>7
<1>9. Between(r, e, b)
  BY <1>5, <1>7, <1>8 DEF Between
<1> QED
  BY <1>1, <1>9

-----------------------------------------------------------------------------
(* A ring from its pairs of blocks: x comes after the n units at b.        *)
Ordered(b, n, x, c) ==
    \/ x = arena /\ c <= b
    \/ b + n < x /\ (c <= b \/ c >= x)

LEMMA RingFromPairs ==
    ASSUME NEW r,
           IsFiniteSet(Heads(r)), Heads(r) \subseteq Nat \cup {arena}, arena \in Heads(r),
           r.next \in [Heads(r) -> Heads(r)],
           r.units \in [Heads(r) -> Nat \ {0}], r.units[arena] = 1,
           r.slobfree \in Heads(r),
           \A b, c \in Heads(r) : Ordered(b, r.units[b], r.next[b], c)
    PROVE  RingInv(r)
<1>1. ASSUME NEW b \in Heads(r) PROVE Follows(r, b)
  <2>1. /\ b \in Int /\ b >= arena /\ arena \in Int
        /\ r.next[b] \in Int /\ r.units[b] \in Nat
    BY DEF arena
  <2>2. CASE r.next[b] = arena
    <3>1. ASSUME NEW c \in Heads(r) PROVE c <= b
      <4>1. Ordered(b, r.units[b], r.next[b], c)
        OBVIOUS
      <4> QED
        BY <2>1, <2>2, <4>1 DEF Ordered
    <3> QED
      BY <2>2, <3>1 DEF Follows
  <2>3. CASE r.next[b] # arena
    <3>1. ASSUME NEW c \in Heads(r)
          PROVE  b + r.units[b] < r.next[b] /\ (c <= b \/ c >= r.next[b])
      BY <2>3 DEF Ordered
    <3> QED
      BY <3>1 DEF Follows
  <2> QED
    BY <2>2, <2>3
<1> QED
  BY <1>1 DEF RingInv

(* slob_free keeps the ring and adds the units of the block to it.         *)
LEMMA FreePlaced ==
    ASSUME NEW r, RingInv(r), NEW b \in Nat, NEW n \in Nat \ {0},
           \A u \in Span(b, n) : u \notin FreeUnits(r),
           NEW cur, Place(r, cur, b)
    PROVE  /\ cur \in Heads(r) /\ b \notin Heads(r)
           /\ cur < b /\ cur + r.units[cur] <= b
           /\ \/ r.next[cur] = arena /\ \A d \in Heads(r) : d <= cur
              \/ /\ b + n <= r.next[cur]
                 /\ \A d \in Heads(r) : d <= cur \/ d >= r.next[cur]
<1>1. cur \in Heads(r) /\ cur < b
  BY DEF Place
<1>2. \A d \in Heads(r) : d \in Int /\ r.units[d] \in Nat /\ r.units[d] > 0
  BY HeadTypes
<1>3. \A d \in Heads(r) : d \in FreeUnits(r)
  BY <1>2 DEF FreeUnits
<1>4. b \in Span(b, n) /\ \A u : u \in Span(b, n) <=> u \in Int /\ b <= u /\ u < b + n
  BY InSpan
<1>5. b \notin Heads(r)
  BY <1>3, <1>4
<1>6. cur + r.units[cur] <= b
  <2>1. b \notin FreeUnits(r)
    BY <1>4
  <2> QED
    BY <1>1, <1>2, <2>1 DEF FreeUnits
<1>7. CASE r.next[cur] = arena /\ \A d \in Heads(r) : d <= cur
  BY <1>1, <1>5, <1>6, <1>7
<1>8. CASE b < r.next[cur] /\ \A d \in Heads(r) : d <= cur \/ d >= r.next[cur]
  <2>1. r.next[cur] \in Heads(r) /\ r.next[cur] \in Int
    BY <1>1, HeadTypes
  <2>2. r.next[cur] \notin Span(b, n)
    BY <1>3, <2>1
  <2>3. b + n <= r.next[cur]
    BY <1>4, <1>8, <2>1, <2>2
  <2> QED
    BY <1>1, <1>5, <1>6, <1>8, <2>3
<1> QED
  BY <1>7, <1>8 DEF Place

(* s is the ring r after the n units at b were linked in behind cur.       *)
LinkedIn(r, cur, b, n, s) ==
    LET nx    == r.next[cur]
        after == b + n = nx
        prior == cur + r.units[cur] = b
        bu    == n + (IF after THEN r.units[nx] ELSE 0)
        bn    == IF after THEN r.next[nx] ELSE nx
    IN  /\ Heads(s) = (Heads(r) \ (IF after THEN {nx} ELSE {}))
                          \cup (IF prior THEN {} ELSE {b})
        /\ DOMAIN s.units = Heads(s)
        /\ s.next = [h \in Heads(s) |-> s.next[h]] /\ s.units = [h \in Heads(s) |-> s.units[h]]
        /\ \A h \in Heads(s) :
              /\ s.next[h] = IF h = cur THEN (IF prior THEN bn ELSE b)
                             ELSE IF h = b THEN bn ELSE r.next[h]
              /\ s.units[h] = IF h = cur THEN r.units[cur] + (IF prior THEN bu ELSE 0)
                              ELSE IF h = b THEN bu ELSE r.units[h]
        /\ s.slobfree = cur

LEMMA LinkMeans ==
    ASSUME NEW r, NEW cur, NEW b, NEW n
    PROVE  LinkedIn(r, cur, b, n, link(r, cur, b, n))
<1> DEFINE nx    == r.next[cur]
           after == b + n = nx
           prior == cur + r.units[cur] = b
           bu    == n + (IF after THEN r.units[nx] ELSE 0)
           bn    == IF after THEN r.next[nx] ELSE nx
           H     == (Heads(r) \ (IF after THEN {nx} ELSE {}))
                        \cup (IF prior THEN {} ELSE {b})
           F(h)  == IF h = cur THEN (IF prior THEN bn ELSE b)
                    ELSE IF h = b THEN bn ELSE r.next[h]
           G(h)  == IF h = cur THEN r.units[cur] + (IF prior THEN bu ELSE 0)
                    ELSE IF h = b THEN bu ELSE r.units[h]
<1>1. link(r, cur, b, n) = [next |-> [h \in H |-> F(h)], units |-> [h \in H |-> G(h)],
                            slobfree |-> cur]
  BY DEF link, Heads
<1>2. ASSUME NEW s, LinkedIn(r, cur, b, n, s) <=>
               /\ Heads(s) = H
               /\ DOMAIN s.units = Heads(s)
               /\ s.next = [h \in Heads(s) |-> s.next[h]]
               /\ s.units = [h \in Heads(s) |-> s.units[h]]
               /\ \A h \in Heads(s) : s.next[h] = F(h) /\ s.units[h] = G(h)
               /\ s.slobfree = cur,
             s = link(r, cur, b, n)
      PROVE  LinkedIn(r, cur, b, n, s)
  <2> HIDE DEF H, F, G
  <2> QED
    BY <1>1, <1>2 DEF Heads
<1> QED
  BY <1>2 DEF LinkedIn

LEMMA FreeLinks ==
    ASSUME NEW r, RingInv(r), NEW b \in Nat, NEW n \in Nat \ {0}, b \notin Heads(r)
    PROVE  \E cur : Place(r, cur, b) /\ LinkedIn(r, cur, b, n, slob_free(r, b, n))
<1> DEFINE at == Walk(r)
           K  == {k \in DOMAIN at : Between(r, at[k], b)}
<1>1. PICK cur : cur = at[Min(K)]
  OBVIOUS
<1>2. Place(r, cur, b)
  <2>1. PICK N \in Nat : N = Cardinality(Heads(r))
    BY FS_CardinalityType DEF RingInv
  <2>2. at \in [0..N -> Heads(r)]
    BY <2>1, WalkSteps DEF Steps
  <2>3. K \subseteq Nat /\ K # {}
    BY <2>2, PlaceFound
  <2>4. Min(K) \in K /\ \A k \in K : Min(K) <= k
    <3> HIDE DEF K
    <3> QED
      BY <2>3, MinLeast
  <2>5. cur \in Heads(r) /\ Between(r, cur, b)
    BY <1>1, <2>2, <2>4
  <2> QED
    BY <2>5, BetweenMeans
<1>3. slob_free(r, b, n) = link(r, cur, b, n)
  BY <1>1 DEF slob_free
<1>4. LinkedIn(r, cur, b, n, link(r, cur, b, n))
  BY LinkMeans
<1> QED
  BY <1>2, <1>3, <1>4

LEMMA LinkedRing ==
    ASSUME NEW r, RingInv(r), NEW b \in Nat, NEW n \in Nat \ {0},
           \A u \in Span(b, n) : u \notin FreeUnits(r),
           NEW cur, Place(r, cur, b), NEW s, LinkedIn(r, cur, b, n, s)
    PROVE  RingInv(s) /\ FreeUnits(s) = FreeUnits(r) \cup Span(b, n)
<1> DEFINE D == Heads(r)
           H == Heads(s)
<1>0. arena \in Int /\ arena + 1 < 0
  BY DEF arena
<1>1. PICK nx, uc, nn, un : nx = r.next[cur] /\ uc = r.units[cur] /\ nn = r.next[nx] /\ un = r.units[nx]
  OBVIOUS
<1>2. PICK after \in BOOLEAN, prior \in BOOLEAN :
        (after <=> b + n = nx) /\ (prior <=> cur + uc = b)
  OBVIOUS
<1>3. PICK bu, bn : bu = n + (IF after THEN un ELSE 0) /\ bn = IF after THEN nn ELSE nx
  OBVIOUS
<1>4. /\ H = (D \ (IF after THEN {nx} ELSE {})) \cup (IF prior THEN {} ELSE {b})
      /\ DOMAIN s.next = H /\ DOMAIN s.units = H
      /\ s.next = [h \in H |-> s.next[h]] /\ s.units = [h \in H |-> s.units[h]]
      /\ s.slobfree = cur
      /\ \A h \in H :
              /\ s.next[h] = IF h = cur THEN (IF prior THEN bn ELSE b)
                             ELSE IF h = b THEN bn ELSE r.next[h]
              /\ s.units[h] = IF h = cur THEN uc + (IF prior THEN bu ELSE 0)
                              ELSE IF h = b THEN bu ELSE r.units[h]
  BY <1>1, <1>2, <1>3 DEF LinkedIn, Heads
<1>5. /\ cur \in D /\ b \notin D /\ cur < b /\ cur + uc <= b
      /\ \/ nx = arena /\ \A d \in D : d <= cur
         \/ b + n <= nx /\ \A d \in D : d <= cur \/ d >= nx
  BY <1>1, FreePlaced
<1>6. /\ \A d \in D : /\ d \in Int /\ d >= arena /\ (d # arena => d \in Nat)
                      /\ r.next[d] \in D /\ r.next[d] \in Int
                      /\ r.units[d] \in Nat /\ r.units[d] > 0
      /\ arena \in Int /\ arena + 1 < 0 /\ arena \in D
      /\ \A d, c \in D : Ordered(d, r.units[d], r.next[d], c)
  <2>1. arena \in D
    BY DEF RingInv
  <2> QED
    BY <2>1, HeadTypes, Order DEF Ordered, arena
<1>7. /\ nx \in D /\ nx \in Int /\ nn \in D /\ nn \in Int /\ un \in Nat /\ un > 0
      /\ cur \in Int /\ uc \in Nat /\ uc > 0
      /\ bu \in Nat /\ bu > 0 /\ bn \in D /\ bn \in Int
      /\ after => nx # arena /\ nx # cur /\ nn # nx
      /\ nx # arena => nx > b
  <2>1. nx \in D /\ nx \in Int /\ cur \in Int /\ uc \in Nat /\ uc > 0
    BY <1>1, <1>5, <1>6
  <2>2. nn \in D /\ nn \in Int /\ un \in Nat /\ un > 0
    BY <1>1, <1>6, <2>1
  <2>3. Ordered(nx, un, nn, nx)
    BY <1>1, <1>6, <2>1
  <2>4. after => nx # arena /\ nx # cur
    BY <1>2, <1>5, <1>6, <2>1
  <2>5. after => nn # nx
    BY <1>6, <2>1, <2>2, <2>3, <2>4 DEF Ordered
  <2>6. nx # arena => nx > b
    BY <1>5, <2>1
  <2> QED
    BY <1>3, <2>1, <2>2, <2>4, <2>5, <2>6
<1>8. /\ cur \in H /\ arena \in H
      /\ ~prior => b \in H
      /\ \A h \in H : h \in D \/ h = b
      /\ bn \in H
  BY <1>3, <1>4, <1>5, <1>6, <1>7
<1>9. IsFiniteSet(H)
  <2>1. IsFiniteSet(D)
    BY DEF RingInv
  <2>2. IsFiniteSet(D \ {nx})
    BY <2>1, FS_RemoveElement
  <2>3. IsFiniteSet(D \cup {b}) /\ IsFiniteSet((D \ {nx}) \cup {b})
    BY <2>1, <2>2, FS_AddElement
  <2>4. H \in {D, D \ {nx}, D \cup {b}, (D \ {nx}) \cup {b}}
    BY <1>4
  <2> QED
    BY <2>1, <2>2, <2>3, <2>4
<1>10. ASSUME NEW h \in H, h # cur, h # b
       PROVE  /\ h \in D /\ (after => h # nx)
              /\ s.next[h] = r.next[h] /\ s.units[h] = r.units[h]
              /\ r.next[h] \in H
  <2>1. h \in D /\ (after => h # nx) /\ s.next[h] = r.next[h] /\ s.units[h] = r.units[h]
    BY <1>4, <1>10
  <2>2. r.next[h] # nx
    BY <1>1, <1>5, <1>10, <2>1, NextInjective
  <2>3. r.next[h] \in D
    BY <1>6, <2>1
  <2> QED
    BY <1>4, <2>1, <2>2, <2>3
<1>11. /\ s.next[cur] = IF prior THEN bn ELSE b
       /\ s.units[cur] = uc + (IF prior THEN bu ELSE 0)
       /\ ~prior => s.next[b] = bn /\ s.units[b] = bu
  BY <1>4, <1>5, <1>8
<1>12. /\ s.next \in [H -> H]
       /\ s.units \in [H -> Nat \ {0}]
  <2>1. ASSUME NEW h \in H PROVE s.next[h] \in H /\ s.units[h] \in Nat \ {0}
    <3>1. CASE h = cur
      BY <1>7, <1>8, <1>11, <3>1
    <3>2. CASE h = b
      BY <1>4, <1>5, <1>7, <1>8, <1>11, <3>2
    <3>3. CASE h # cur /\ h # b
      <4>1. h \in D /\ s.next[h] = r.next[h] /\ s.units[h] = r.units[h] /\ r.next[h] \in H
        BY <1>10, <3>3
      <4>2. r.units[h] \in Nat /\ r.units[h] > 0
        BY <1>6, <4>1
      <4> QED
        BY <4>1, <4>2
    <3> QED
      BY <3>1, <3>2, <3>3
  <2> QED
    BY <1>4, <2>1
<1>13. ASSUME NEW d \in D
       PROVE  /\ d \in Int
              /\ nx = arena => d <= cur
              /\ nx # arena => b + n <= nx /\ (d <= cur \/ d >= nx)
              /\ after => Ordered(nx, un, nn, d)
  <2>1. d \in Int
    BY <1>6
  <2>2. /\ nx = arena => d <= cur
        /\ nx # arena => b + n <= nx /\ (d <= cur \/ d >= nx)
    <3>1. CASE nx = arena /\ \A c \in D : c <= cur
      BY <3>1
    <3>2. CASE b + n <= nx /\ \A c \in D : c <= cur \/ c >= nx
      <4>1. nx # arena
        BY <1>0, <3>2
      <4> QED
        BY <3>2, <4>1
    <3> QED
      BY <1>5, <3>1, <3>2
  <2>3. Ordered(nx, un, nn, d)
    BY <1>1, <1>6, <1>7
  <2> QED
    BY <2>1, <2>2, <2>3
<1>14. \A h, c \in H : Ordered(h, s.units[h], s.next[h], c)
  <2> SUFFICES ASSUME NEW h \in H, NEW c \in H
               PROVE  Ordered(h, s.units[h], s.next[h], c)
    OBVIOUS
  <2>0. /\ c \in Int
        /\ \/ c = b /\ ~prior
           \/ c \in D /\ (after => c # nx)
    BY <1>4, <1>6
  <2>1. \/ c = b /\ ~prior
        \/ /\ after => c # nx /\ Ordered(nx, un, nn, c)
           /\ nx = arena => c <= cur
           /\ nx # arena => c <= cur \/ c >= nx
    BY <2>0, <1>13
  <2>2. /\ nx # arena => b + n <= nx
        /\ after => nn = arena \/ nx + un < nn
    BY <1>7, <1>13 DEF Ordered
  <2>a. c \in Int /\ cur < b /\ cur + uc <= b
    BY <1>5, <2>0
  <2>3. CASE h = cur
    BY <1>0, <1>2, <1>3, <1>7, <1>11, <2>a, <2>1, <2>2, <2>3 DEF Ordered
  <2>4. CASE h = b /\ ~prior
    BY <1>0, <1>2, <1>3, <1>7, <1>11, <2>a, <2>1, <2>2, <2>4 DEF Ordered
  <2>5. CASE h # cur /\ h # b
    <3>1. /\ h \in D /\ (after => h # nx)
          /\ s.next[h] = r.next[h] /\ s.units[h] = r.units[h]
      BY <1>10, <2>5
    <3>2. CASE c \in D
      BY <1>6, <3>1, <3>2
    <3>3. CASE c = b
      <4>1. /\ Ordered(h, r.units[h], r.next[h], cur)
            /\ h \in Int /\ r.units[h] \in Nat /\ r.next[h] \in Int
            /\ nx = arena => h <= cur
            /\ nx # arena => b + n <= nx /\ (h <= cur \/ h >= nx)
        BY <1>5, <1>6, <1>13, <3>1
      <4>2. cur < b /\ cur \in Int /\ nx \in Int /\ arena \in Int
        BY <1>5, <1>6, <1>7
      <4>3. Ordered(h, r.units[h], r.next[h], b)
        BY <2>5, <4>1, <4>2 DEF Ordered
      <4> QED
        BY <3>1, <3>3, <4>3
    <3> QED
      BY <2>0, <3>2, <3>3
  <2> QED
    BY <1>4, <1>5, <2>3, <2>4, <2>5
<1>15. s.units[arena] = 1 /\ H \subseteq Nat \cup {arena}
  <2>1. H \subseteq Nat \cup {arena}
    BY <1>6, <1>8
  <2>2. r.units[arena] = 1 /\ arena # b
    BY <1>6 DEF RingInv
  <2>3. CASE arena = cur
    <3>1. ~prior
      BY <1>1, <1>2, <1>6, <2>2, <2>3
    <3> QED
      BY <1>1, <1>7, <1>11, <2>1, <2>2, <2>3, <3>1
  <2>4. CASE arena # cur
    BY <1>8, <1>10, <2>1, <2>2, <2>4
  <2> QED
    BY <2>1, <2>3, <2>4
<1>16. RingInv(s)
  BY <1>4, <1>8, <1>9, <1>12, <1>14, <1>15, RingFromPairs DEF Heads
<1>17. \A u : u \in Span(b, n) <=> u \in Int /\ b <= u /\ u < b + n
  BY InSpan
<1>18. ASSUME NEW u \in FreeUnits(s) PROVE u \in FreeUnits(r) \cup Span(b, n)
  <2>1. PICK h \in H : h <= u /\ u < h + s.units[h] /\ u \in Int
    BY DEF FreeUnits
  <2>2. \A d \in D : d <= u /\ u < d + r.units[d] => u \in FreeUnits(r)
    BY <2>1 DEF FreeUnits
  <2>3. /\ cur <= u /\ u < cur + uc => u \in FreeUnits(r)
        /\ nx <= u /\ u < nx + un => u \in FreeUnits(r)
    BY <1>1, <1>5, <1>7, <2>2
  <2>4. CASE h = cur
    BY <1>2, <1>3, <1>7, <1>11, <1>17, <2>1, <2>3, <2>4
  <2>5. CASE h = b /\ ~prior
    BY <1>2, <1>3, <1>7, <1>11, <1>17, <2>1, <2>3, <2>5
  <2>6. CASE h # cur /\ h # b
    BY <1>10, <2>1, <2>2, <2>6
  <2> QED
    BY <1>4, <1>5, <2>4, <2>5, <2>6
<1>19. ASSUME NEW u \in Int, NEW h \in H, h <= u, u < h + s.units[h] PROVE u \in FreeUnits(s)
  BY <1>19 DEF FreeUnits
<1>20. ASSUME NEW u \in Span(b, n) PROVE u \in FreeUnits(s)
  <2>1. u \in Int /\ b <= u /\ u < b + n
    BY <1>17
  <2>2. CASE prior
    <3>1. cur <= u /\ u < cur + s.units[cur]
      BY <1>2, <1>3, <1>7, <1>11, <2>1, <2>2
    <3> QED
      BY <1>8, <1>19, <2>1, <3>1
  <2>3. CASE ~prior
    <3>1. b <= u /\ u < b + s.units[b]
      BY <1>3, <1>7, <1>11, <2>1, <2>3
    <3> QED
      BY <1>8, <1>19, <2>1, <2>3, <3>1
  <2> QED
    BY <2>2, <2>3
<1>21. ASSUME NEW u \in FreeUnits(r) PROVE u \in FreeUnits(s)
  <2>1. PICK d \in D : d <= u /\ u < d + r.units[d] /\ u \in Int
    BY DEF FreeUnits
  <2>2. CASE d = cur
    <3>1. cur <= u /\ u < cur + s.units[cur]
      BY <1>1, <1>7, <1>11, <2>1, <2>2
    <3> QED
      BY <1>8, <1>19, <2>1, <3>1
  <2>3. CASE d = nx /\ after /\ prior
    <3>1. cur <= u /\ u < cur + s.units[cur]
      BY <1>1, <1>2, <1>3, <1>7, <1>11, <2>1, <2>3
    <3> QED
      BY <1>8, <1>19, <2>1, <3>1
  <2>4. CASE d = nx /\ after /\ ~prior
    <3>1. b <= u /\ u < b + s.units[b]
      BY <1>1, <1>2, <1>3, <1>7, <1>11, <2>1, <2>4
    <3> QED
      BY <1>8, <1>19, <2>1, <2>4, <3>1
  <2>5. CASE d # cur /\ ~(d = nx /\ after)
    <3>1. d \in H /\ d # b
      BY <1>4, <1>5, <2>5
    <3>2. s.units[d] = r.units[d]
      BY <1>10, <2>5, <3>1
    <3> QED
      BY <1>19, <2>1, <3>1, <3>2
  <2> QED
    BY <2>2, <2>3, <2>4, <2>5
<1> QED
  BY <1>16, <1>18, <1>20, <1>21

LEMMA FreeKeeps ==
    ASSUME NEW r, RingInv(r), NEW b \in Nat, NEW n \in Nat \ {0},
           \A u \in Span(b, n) : u \notin FreeUnits(r)
    PROVE  /\ RingInv(slob_free(r, b, n))
           /\ FreeUnits(slob_free(r, b, n)) = FreeUnits(r) \cup Span(b, n)
<1>1. b \notin Heads(r)
  <2>1. \A d \in Heads(r) : d \in FreeUnits(r)
    BY HeadTypes DEF FreeUnits
  <2>2. b \in Span(b, n)
    BY InSpan
  <2> QED
    BY <2>1, <2>2
<1>2. PICK cur : Place(r, cur, b) /\ LinkedIn(r, cur, b, n, slob_free(r, b, n))
  BY <1>1, FreeLinks
<1> QED
  BY <1>2, LinkedRing

-----------------------------------------------------------------------------
(* slob_alloc keeps the ring and takes the units of the block out of it.   *)
TakenFrom(r, prev, cur, n, s) ==
    LET exact == r.units[cur] = n
        rest  == cur + n
    IN  /\ Heads(s) = (Heads(r) \ {cur}) \cup (IF exact THEN {} ELSE {rest})
        /\ DOMAIN s.units = Heads(s)
        /\ s.next = [h \in Heads(s) |-> s.next[h]] /\ s.units = [h \in Heads(s) |-> s.units[h]]
        /\ \A h \in Heads(s) :
              /\ s.next[h] = IF h = prev THEN (IF exact THEN r.next[cur] ELSE rest)
                             ELSE IF h = rest THEN r.next[cur] ELSE r.next[h]
              /\ s.units[h] = IF h = rest THEN r.units[cur] - n ELSE r.units[h]
        /\ s.slobfree = prev

LEMMA TakeMeans ==
    ASSUME NEW r, NEW prev, NEW cur, NEW n
    PROVE  TakenFrom(r, prev, cur, n, take(r, prev, cur, n))
<1> DEFINE exact == r.units[cur] = n
           rest  == cur + n
           H     == (Heads(r) \ {cur}) \cup (IF exact THEN {} ELSE {rest})
           F(h)  == IF h = prev THEN (IF exact THEN r.next[cur] ELSE rest)
                    ELSE IF h = rest THEN r.next[cur] ELSE r.next[h]
           G(h)  == IF h = rest THEN r.units[cur] - n ELSE r.units[h]
<1>1. take(r, prev, cur, n) = [next |-> [h \in H |-> F(h)], units |-> [h \in H |-> G(h)],
                               slobfree |-> prev]
  BY DEF take, Heads
<1>2. ASSUME NEW s, TakenFrom(r, prev, cur, n, s) <=>
               /\ Heads(s) = H
               /\ DOMAIN s.units = Heads(s)
               /\ s.next = [h \in Heads(s) |-> s.next[h]]
               /\ s.units = [h \in Heads(s) |-> s.units[h]]
               /\ \A h \in Heads(s) : s.next[h] = F(h) /\ s.units[h] = G(h)
               /\ s.slobfree = prev,
             s = take(r, prev, cur, n)
      PROVE  TakenFrom(r, prev, cur, n, s)
  <2> HIDE DEF H, F, G
  <2> QED
    BY <1>1, <1>2 DEF Heads
<1> QED
  BY <1>2 DEF TakenFrom

LEMMA TakenRing ==
    ASSUME NEW r, RingInv(r), NEW prev \in Heads(r), NEW cur, cur = r.next[prev],
           NEW n \in Nat, n >= 2, r.units[cur] >= n,
           NEW s, TakenFrom(r, prev, cur, n, s)
    PROVE  /\ cur \in Nat
           /\ RingInv(s)
           /\ \A u \in Span(cur, n) : u \in FreeUnits(r)
           /\ FreeUnits(s) = FreeUnits(r) \ Span(cur, n)
<1> DEFINE D == Heads(r)
           H == Heads(s)
<1>0. arena \in Int /\ arena + 1 < 0
  BY DEF arena
<1>1. PICK nx, uc, rest : nx = r.next[cur] /\ uc = r.units[cur] /\ rest = cur + n
  OBVIOUS
<1>2. PICK exact \in BOOLEAN : exact <=> uc = n
  OBVIOUS
<1>3. /\ H = (D \ {cur}) \cup (IF exact THEN {} ELSE {rest})
      /\ DOMAIN s.next = H /\ DOMAIN s.units = H
      /\ s.next = [h \in H |-> s.next[h]] /\ s.units = [h \in H |-> s.units[h]]
      /\ s.slobfree = prev
      /\ \A h \in H :
            /\ s.next[h] = IF h = prev THEN (IF exact THEN nx ELSE rest)
                           ELSE IF h = rest THEN nx ELSE r.next[h]
            /\ s.units[h] = IF h = rest THEN uc - n ELSE r.units[h]
  BY <1>1, <1>2 DEF TakenFrom, Heads
<1>4. \A d \in D : /\ d \in Int /\ d >= arena /\ (d # arena => d \in Nat)
                   /\ r.next[d] \in D /\ r.next[d] \in Int
                   /\ r.units[d] \in Nat /\ r.units[d] > 0
  BY HeadTypes
<1>5. \A d, c \in D : Ordered(d, r.units[d], r.next[d], c)
  BY Order DEF Ordered
<1>6. /\ cur \in D /\ cur \in Int /\ prev \in Int /\ nx \in D /\ nx \in Int
      /\ uc \in Nat /\ uc >= n /\ rest \in Int /\ prev >= arena
      /\ r.units[prev] \in Nat /\ r.units[prev] > 0 /\ (~exact => uc > n)
  BY <1>1, <1>2, <1>4
<1>7. cur # arena /\ arena \in D /\ r.units[arena] = 1
  BY <1>1, <1>6 DEF RingInv
<1>8. /\ cur \in Nat
      /\ nx = arena \/ cur + uc < nx
      /\ prev + r.units[prev] < cur
  <2>1. Ordered(cur, uc, nx, cur) /\ Ordered(prev, r.units[prev], cur, prev)
    BY <1>1, <1>5, <1>6
  <2> QED
    BY <1>4, <1>6, <1>7, <2>1 DEF Ordered
<1>9. ASSUME NEW d \in D
      PROVE  /\ d \in Int /\ (d <= prev \/ d >= cur)
             /\ nx = arena => d <= cur
             /\ nx # arena => d <= cur \/ d >= nx
  <2>1. d \in Int /\ Ordered(cur, uc, nx, d) /\ Ordered(prev, r.units[prev], cur, d)
    BY <1>1, <1>4, <1>5, <1>6
  <2> QED
    BY <1>0, <1>6, <1>7, <1>8, <2>1 DEF Ordered
<1>10. rest \notin D
  BY <1>1, <1>6, <1>8, <1>9
<1>11. /\ prev # cur /\ prev # rest /\ nx # cur
       /\ prev \in H /\ nx \in H /\ arena \in H
       /\ ~exact => rest \in H
       /\ \A h \in H : (h \in D /\ h # cur) \/ (h = rest /\ ~exact)
  <2>1. prev # cur /\ prev # rest /\ nx # cur
    BY <1>1, <1>6, <1>7, <1>8
  <2> QED
    BY <1>3, <1>6, <1>7, <2>1
<1>12. ASSUME NEW h \in H, h # prev, h # rest
       PROVE  /\ h \in D /\ h # cur
              /\ s.next[h] = r.next[h] /\ s.units[h] = r.units[h]
              /\ r.next[h] \in H
  <2>1. h \in D /\ h # cur /\ s.next[h] = r.next[h] /\ s.units[h] = r.units[h]
    BY <1>3, <1>12
  <2>2. r.next[h] # cur
    BY <1>1, <1>12, <2>1, NextInjective
  <2>3. r.next[h] \in D
    BY <1>4, <2>1
  <2> QED
    BY <1>3, <2>1, <2>2, <2>3
<1>13. /\ s.next[prev] = IF exact THEN nx ELSE rest
       /\ s.units[prev] = r.units[prev]
       /\ ~exact => s.next[rest] = nx /\ s.units[rest] = uc - n
  BY <1>3, <1>11
<1>14. /\ s.next \in [H -> H]
       /\ s.units \in [H -> Nat \ {0}]
  <2>1. ASSUME NEW h \in H PROVE s.next[h] \in H /\ s.units[h] \in Nat \ {0}
    <3>1. CASE h = prev
      BY <1>6, <1>11, <1>13, <3>1
    <3>2. CASE h = rest
      BY <1>6, <1>10, <1>11, <1>13, <3>2
    <3>3. CASE h # prev /\ h # rest
      <4>1. h \in D /\ s.next[h] = r.next[h] /\ s.units[h] = r.units[h] /\ r.next[h] \in H
        BY <1>12, <3>3
      <4>2. r.units[h] \in Nat /\ r.units[h] > 0
        BY <1>4, <4>1
      <4> QED
        BY <4>1, <4>2
    <3> QED
      BY <3>1, <3>2, <3>3
  <2> QED
    BY <1>3, <2>1
<1>15. IsFiniteSet(H)
  <2>1. IsFiniteSet(D)
    BY DEF RingInv
  <2>2. IsFiniteSet(D \ {cur})
    BY <2>1, FS_RemoveElement
  <2>3. IsFiniteSet((D \ {cur}) \cup {rest})
    BY <2>2, FS_AddElement
  <2>4. H \in {D \ {cur}, (D \ {cur}) \cup {rest}}
    BY <1>3
  <2> QED
    BY <2>2, <2>3, <2>4
<1>16. \A h, c \in H : Ordered(h, s.units[h], s.next[h], c)
  <2> SUFFICES ASSUME NEW h \in H, NEW c \in H
               PROVE  Ordered(h, s.units[h], s.next[h], c)
    OBVIOUS
  <2>1. \/ c = rest /\ ~exact
        \/ /\ c \in Int /\ c # cur /\ (c <= prev \/ c >= cur)
           /\ nx = arena => c <= cur
           /\ nx # arena => c <= cur \/ c >= nx
    BY <1>9, <1>11
  <2>2. CASE h = prev
    BY <1>0, <1>1, <1>2, <1>6, <1>8, <1>13, <2>1, <2>2 DEF Ordered
  <2>3. CASE h = rest /\ ~exact
    BY <1>0, <1>1, <1>2, <1>6, <1>8, <1>13, <2>1, <2>3 DEF Ordered
  <2>4. CASE h # prev /\ h # rest
    <3>1. h \in D /\ h # cur /\ s.next[h] = r.next[h] /\ s.units[h] = r.units[h]
      BY <1>12, <2>4
    <3>2. CASE c \in D
      BY <1>5, <3>1, <3>2
    <3>3. CASE c = rest
      <4>1. /\ Ordered(h, r.units[h], r.next[h], cur) /\ Ordered(h, r.units[h], r.next[h], nx)
            /\ h \in Int /\ r.units[h] \in Nat /\ r.next[h] \in Int
            /\ nx = arena => h <= cur
            /\ nx # arena => h <= cur \/ h >= nx
        BY <1>4, <1>5, <1>6, <1>9, <3>1
      <4>2. r.next[h] # cur
        BY <1>1, <2>4, <3>1, NextInjective
      <4>3. Ordered(h, r.units[h], r.next[h], rest)
        BY <1>0, <1>1, <1>6, <1>8, <3>1, <4>1, <4>2 DEF Ordered
      <4> QED
        BY <3>1, <3>3, <4>3
    <3> QED
      BY <1>11, <3>2, <3>3
  <2> QED
    BY <1>10, <1>11, <2>2, <2>3, <2>4
<1>17. s.units[arena] = 1 /\ H \subseteq Nat \cup {arena}
  <2>1. H \subseteq Nat \cup {arena}
    BY <1>1, <1>4, <1>8, <1>11
  <2>2. arena # rest
    BY <1>0, <1>1, <1>8
  <2> QED
    BY <1>3, <1>7, <1>11, <2>1, <2>2
<1>18. RingInv(s)
  BY <1>3, <1>11, <1>14, <1>15, <1>16, <1>17, RingFromPairs DEF Heads
<1>19. \A u : u \in Span(cur, n) <=> u \in Int /\ cur <= u /\ u < rest
  BY <1>1, <1>6, InSpan
<1>20. ASSUME NEW u \in Span(cur, n) PROVE u \in FreeUnits(r)
  <2>1. u \in Int /\ cur <= u /\ u < cur + uc
    BY <1>1, <1>6, <1>19
  <2> QED
    BY <1>1, <1>6, <2>1 DEF FreeUnits
<1>21. ASSUME NEW u \in FreeUnits(s) PROVE u \in FreeUnits(r) /\ u \notin Span(cur, n)
  <2>1. PICK h \in H : h <= u /\ u < h + s.units[h] /\ u \in Int
    BY DEF FreeUnits
  <2>2. \A d \in D : d <= u /\ u < d + r.units[d] => u \in FreeUnits(r)
    BY <2>1 DEF FreeUnits
  <2>3. CASE h = rest /\ ~exact
    <3>1. cur <= u /\ u < cur + uc /\ ~(u < rest)
      BY <1>1, <1>6, <1>13, <2>1, <2>3
    <3> QED
      BY <1>1, <1>6, <1>19, <2>2, <3>1
  <2>4. CASE h \in D /\ h # cur
    <3>1. s.units[h] = r.units[h] /\ h \in Int /\ r.units[h] \in Nat
      BY <1>3, <1>4, <1>10, <2>4
    <3>2. h < cur => h + r.units[h] < cur
      BY <1>6, <2>4, HeadsApart
    <3>3. h > cur => cur + uc < h
      BY <1>1, <1>6, <2>4, HeadsApart
    <3>4. ~(cur <= u /\ u < rest)
      BY <1>1, <1>6, <2>1, <2>4, <3>1, <3>2, <3>3
    <3> QED
      BY <1>19, <2>1, <2>2, <2>4, <3>1, <3>4
  <2> QED
    BY <1>11, <2>3, <2>4
<1>22. ASSUME NEW u \in FreeUnits(r), u \notin Span(cur, n) PROVE u \in FreeUnits(s)
  <2>1. PICK d \in D : d <= u /\ u < d + r.units[d] /\ u \in Int
    BY DEF FreeUnits
  <2>2. CASE d = cur
    <3>1. ~exact /\ rest <= u /\ u < rest + s.units[rest]
      BY <1>1, <1>2, <1>6, <1>13, <1>19, <1>22, <2>1, <2>2
    <3> QED
      BY <1>11, <2>1, <3>1 DEF FreeUnits
  <2>3. CASE d # cur
    <3>1. d \in H /\ s.units[d] = r.units[d]
      BY <1>3, <1>10, <2>3
    <3> QED
      BY <2>1, <3>1 DEF FreeUnits
  <2> QED
    BY <2>2, <2>3
<1> QED
  BY <1>8, <1>18, <1>20, <1>21, <1>22

LEMMA SearchKeeps ==
    ASSUME NEW r, RingInv(r), NEW n \in Nat, n >= 2
    PROVE  \/ slob_search(r, n) = [ring |-> r, block |-> NULL]
           \/ \E s : \E b \in Nat :
                /\ slob_search(r, n) = [ring |-> s, block |-> b]
                /\ RingInv(s)
                /\ \A u \in Span(b, n) : u \in FreeUnits(r)
                /\ FreeUnits(s) = FreeUnits(r) \ Span(b, n)
<1> DEFINE at  == Walk(r)
           fit == {k \in DOMAIN at \ {0} : r.units[at[k]] >= n}
<1>1. slob_search(r, n) = IF fit = {} THEN [ring |-> r, block |-> NULL]
        ELSE [ring |-> take(r, at[Min(fit) - 1], at[Min(fit)], n), block |-> at[Min(fit)]]
  BY DEF slob_search
<1>2. PICK N \in Nat : N = Cardinality(Heads(r))
  BY FS_CardinalityType DEF RingInv
<1>3. /\ at \in [0..N -> Heads(r)]
      /\ \A k \in 1..N : at[k] = r.next[at[k - 1]]
  BY <1>2, WalkSteps DEF Steps
<1>4. CASE fit # {}
  <2>1. fit \subseteq Nat
    BY <1>3
  <2>2. Min(fit) \in fit /\ \A k \in fit : Min(fit) <= k
    <3> HIDE DEF fit
    <3> QED
      BY <1>4, <2>1, MinLeast
  <2>3. PICK k \in 1..N : k = Min(fit) /\ r.units[at[k]] >= n
    <3>1. PICK k \in fit : k = Min(fit)
      BY <2>2
    <3>2. k \in 1..N /\ r.units[at[k]] >= n
      BY <1>3
    <3> HIDE DEF fit
    <3> QED
      BY <3>1, <3>2
  <2>4. PICK prev \in Heads(r), cur \in Heads(r) : prev = at[k - 1] /\ cur = at[k] /\ cur = r.next[prev]
    BY <1>3
  <2>5. slob_search(r, n) = [ring |-> take(r, prev, cur, n), block |-> cur]
    BY <1>1, <1>4, <2>3, <2>4
  <2>6. PICK s : s = take(r, prev, cur, n) /\ TakenFrom(r, prev, cur, n, s)
    BY TakeMeans
  <2>7. r.units[cur] >= n
    BY <2>3, <2>4
  <2>8. /\ cur \in Nat
        /\ RingInv(s)
        /\ \A u \in Span(cur, n) : u \in FreeUnits(r)
        /\ FreeUnits(s) = FreeUnits(r) \ Span(cur, n)
    BY <2>4, <2>6, <2>7, TakenRing
  <2> QED
    BY <2>5, <2>6, <2>8
<1> QED
  BY <1>1, <1>4

-----------------------------------------------------------------------------
(* The units of a set of pages.                                            *)
PageSet(S) == {u \in Nat : u \div PageUnits \in S}

LEMMA UnitsNat ==
    ASSUME KMallocAssumption
    PROVE  PageUnits \in Nat \ {0} /\ SLOB_UNIT \in Nat \ {0}
<1>1. /\ SLOB_UNIT \in Nat \ {0} /\ PAGE_SIZE \in Nat /\ BIGBLOCK \in Nat
      /\ SLOB_UNIT < BIGBLOCK /\ BIGBLOCK + SLOB_UNIT < PAGE_SIZE
  BY DEF KMallocAssumption
<1>2. 2 * SLOB_UNIT <= PAGE_SIZE
  BY <1>1
<1> QED
  BY <1>1, <1>2, DivAtLeast DEF PageUnits

LEMMA PageOf ==
    ASSUME KMallocAssumption, NEW p \in Nat
    PROVE  \A u : u \in Span(p * PageUnits, PageUnits) <=> u \in PageSet({p})
<1>1. PageUnits \in Nat \ {0}
  BY UnitsNat
<1>2. PICK d \in Nat \ {0} : d = PageUnits
  BY <1>1
<1>3. PICK b \in Int : b = p * d
  OBVIOUS
<1>4. \A u : u \in Span(b, d) <=> u \in Int /\ b <= u /\ u < b + d
  BY InSpan
<1>5. ASSUME NEW u \in Int PROVE b <= u /\ u < b + d <=> u \in Nat /\ u \div d = p
  <2>1. b <= u /\ u < b + d <=> 0 <= u /\ u \div d = p
    BY <1>3, DivRange
  <2> QED
    BY <2>1
<1> QED
  BY <1>2, <1>3, <1>4, <1>5 DEF PageSet

(* What slob_alloc does: maybe one page more for the ring, maybe a block.  *)
Allocated(r, pages, n, a) ==
    /\ a.pages \subseteq pages
    /\ RingInv(a.r)
    /\ \E F :
          /\ F = FreeUnits(r) \cup PageSet(pages \ a.pages)
          /\ \/ a.block = NULL /\ FreeUnits(a.r) = F
             \/ /\ a.block \in Nat /\ a.block # NULL
                /\ Span(a.block, n) \subseteq F
                /\ FreeUnits(a.r) = F \ Span(a.block, n)

LEMMA AllocKeeps ==
    ASSUME KMallocAssumption, NEW r, RingInv(r), NEW pages \in SUBSET Nat,
           \A u \in PageSet(pages) : u \notin FreeUnits(r),
           NEW bytes \in Nat, bytes > SLOB_UNIT
    PROVE  /\ SLOB_UNITS(bytes) \in Nat /\ SLOB_UNITS(bytes) >= 2
           /\ Allocated(r, pages, SLOB_UNITS(bytes), slob_alloc(r, pages, bytes))
<1>1. SLOB_UNITS(bytes) \in Nat /\ SLOB_UNITS(bytes) >= 2
  <2>1. SLOB_UNIT \in Nat \ {0}
    BY UnitsNat
  <2>2. bytes + SLOB_UNIT - 1 \in Nat /\ 2 * SLOB_UNIT <= bytes + SLOB_UNIT - 1
    BY <2>1
  <2> QED
    BY <2>1, <2>2, DivAtLeast DEF SLOB_UNITS
<1>2. PICK n \in Nat : n = SLOB_UNITS(bytes) /\ n >= 2
  BY <1>1
<1>3. PICK first, p, grown, again :
        /\ first = slob_search(r, n)
        /\ p = Min(pages)
        /\ grown = slob_free(r, p * PageUnits, PageUnits)
        /\ again = slob_search(grown, n)
  OBVIOUS
<1>4. slob_alloc(r, pages, bytes) =
        IF first.block # NULL THEN [r |-> first.ring, pages |-> pages, block |-> first.block]
        ELSE IF pages = {} THEN [r |-> r, pages |-> pages, block |-> NULL]
        ELSE [r |-> again.ring, pages |-> pages \ {p}, block |-> again.block]
  BY <1>2, <1>3 DEF slob_alloc
<1>5. PICK a : a = slob_alloc(r, pages, bytes)
  OBVIOUS
<1>6. NULL \notin Nat
  BY DEF NULL
<1>7. ASSUME NEW q, NEW rest \in SUBSET pages, RingInv(q),
             FreeUnits(q) = FreeUnits(r) \cup PageSet(pages \ rest),
             a.r = slob_search(q, n).ring, a.block = slob_search(q, n).block, a.pages = rest
      PROVE  Allocated(r, pages, n, a)
  <2>1. CASE slob_search(q, n) = [ring |-> q, block |-> NULL]
    BY <1>7, <2>1 DEF Allocated
  <2>2. CASE \E s : \E b \in Nat :
                /\ slob_search(q, n) = [ring |-> s, block |-> b]
                /\ RingInv(s)
                /\ \A u \in Span(b, n) : u \in FreeUnits(q)
                /\ FreeUnits(s) = FreeUnits(q) \ Span(b, n)
    <3>1. PICK s : \E b \in Nat :
                /\ slob_search(q, n) = [ring |-> s, block |-> b]
                /\ RingInv(s)
                /\ \A u \in Span(b, n) : u \in FreeUnits(q)
                /\ FreeUnits(s) = FreeUnits(q) \ Span(b, n)
      BY <2>2
    <3>2. PICK b \in Nat :
                /\ slob_search(q, n) = [ring |-> s, block |-> b]
                /\ RingInv(s)
                /\ \A u \in Span(b, n) : u \in FreeUnits(q)
                /\ FreeUnits(s) = FreeUnits(q) \ Span(b, n)
      BY <3>1
    <3>3. a.block = b /\ a.r = s
      BY <1>7, <3>2
    <3>4. Span(b, n) \subseteq FreeUnits(q)
      BY <3>2
    <3> QED
      BY <1>6, <1>7, <3>2, <3>3, <3>4 DEF Allocated
  <2> QED
    BY <1>2, <1>7, <2>1, <2>2, SearchKeeps
<1>8. PageSet(pages \ pages) = {}
  BY DEF PageSet
<1>9. CASE first.block # NULL
  <2>1. a.r = first.ring /\ a.pages = pages /\ a.block = first.block
    BY <1>4, <1>5, <1>9
  <2> QED
    BY <1>2, <1>3, <1>5, <1>7, <1>8, <2>1
<1>10. CASE first.block = NULL /\ pages = {}
  <2>1. a.r = r /\ a.pages = pages /\ a.block = NULL
    BY <1>4, <1>5, <1>10
  <2> QED
    BY <1>2, <1>5, <1>8, <2>1 DEF Allocated
<1>11. CASE first.block = NULL /\ pages # {}
  <2>1. a.r = again.ring /\ a.pages = pages \ {p} /\ a.block = again.block
    BY <1>4, <1>5, <1>11
  <2>2. p \in pages /\ p \in Nat
    BY <1>3, <1>11, MinLeast
  <2>3. \A u : u \in Span(p * PageUnits, PageUnits) <=> u \in PageSet({p})
    BY <2>2, PageOf
  <2>4. pages \ (pages \ {p}) = {p} /\ \A u \in PageSet({p}) : u \notin FreeUnits(r)
    BY <2>2 DEF PageSet
  <2>5. p * PageUnits \in Nat /\ PageUnits \in Nat \ {0}
    BY <2>2, UnitsNat
  <2>6. PICK b \in Nat : b = p * PageUnits
    BY <2>5
  <2>7. \A u \in Span(b, PageUnits) : u \notin FreeUnits(r)
    BY <2>3, <2>4, <2>6
  <2>8. RingInv(grown) /\ FreeUnits(grown) = FreeUnits(r) \cup Span(b, PageUnits)
    BY <1>3, <2>5, <2>6, <2>7, FreeKeeps
  <2>9. FreeUnits(grown) = FreeUnits(r) \cup PageSet(pages \ (pages \ {p}))
    BY <2>3, <2>4, <2>6, <2>8
  <2> QED
    BY <1>2, <1>3, <1>5, <1>7, <2>1, <2>8, <2>9
<1> QED
  BY <1>1, <1>2, <1>5, <1>9, <1>10, <1>11

-----------------------------------------------------------------------------
(* What the other uses occupy does not depend on the ring.                 *)
OtherUnits(use) ==
    LET x == use[2]
    IN  CASE use[1] = "small"      -> Span(x.addr - 1, SLOB_UNITS(x.size + SLOB_UNIT))
          [] use[1] = "bigblock_t" -> Span(x.at, SLOB_UNITS(BIGBLOCK))
          [] use[1] = "pages"      -> Span(x.pages, 2^x.order * PageUnits)

Others(small, big) == ({"small"} \X small) \cup ({"bigblock_t", "pages"} \X big)

(* The free units F and the uses O split the units T between them.         *)
Split(F, O, T) ==
    /\ \A u : u \in T <=> u \in F \/ \E o \in O : u \in OtherUnits(o)
    /\ \A o \in O : \A u \in OtherUnits(o) : u \notin F
    /\ \A o, t \in O : \A u : u \in OtherUnits(o) /\ u \in OtherUnits(t) => o = t

(* Pages come in and leave as free units; a block changes hands.           *)
LEMMA SplitGrow ==
    ASSUME NEW F, NEW O, NEW T, Split(F, O, T), NEW E, \A u \in E : u \notin T
    PROVE  Split(F \cup E, O, T \cup E)
  BY DEF Split

LEMMA SplitShrink ==
    ASSUME NEW F, NEW O, NEW T, NEW E, Split(F \cup E, O, T), \A u \in E : u \notin F
    PROVE  Split(F, O, T \ E)
  BY DEF Split

LEMMA SplitAdd ==
    ASSUME NEW F, NEW O, NEW T, Split(F, O, T), NEW o, OtherUnits(o) \subseteq F
    PROVE  Split(F \ OtherUnits(o), O \cup {o}, T)
  BY DEF Split

LEMMA SplitDrop ==
    ASSUME NEW F, NEW O, NEW T, Split(F, O, T), NEW o \in O
    PROVE  Split(F \cup OtherUnits(o), O \ {o}, T)
  BY DEF Split

-----------------------------------------------------------------------------
(* The inductive invariant, over the set of large blocks B.                *)
AllPages == 0..(heap_pages - 1)

BigBlockT ==
    {x \in [at : Nat, order : {0, 1}, pages : Nat] :
        \E p \in Nat : x.pages = p * PageUnits /\ p + 2^x.order <= heap_pages}

SmallOf(bl, B) == {x \in bl : \A bb \in B : bb.pages # x.addr}

HeapCore(r, B, f, bl) ==
    /\ RingInv(r)
    /\ f \subseteq AllPages
    /\ B \subseteq BigBlockT
    /\ bl \subseteq [addr : Nat, size : Sizes]
    /\ \A x, y \in bl : x.addr = y.addr => x = y
    /\ Split(FreeUnits(r), Others(SmallOf(bl, B), B), PageSet(AllPages \ f) \cup {arena})
    /\ \A x \in bl, bb \in B : bb.pages = x.addr => 2^bb.order * PAGE_SIZE >= x.size

LEMMA TwoPowers == 2^0 = 1 /\ 2^1 = 2
  OBVIOUS

(* What each use occupies.                                                 *)
LEMMA SmallUnits ==
    ASSUME KMallocAssumption, NEW x \in [addr : Nat, size : Sizes]
    PROVE  /\ OtherUnits(<<"small", x>>)
                = Span(x.addr - 1, SLOB_UNITS(x.size + SLOB_UNIT))
           /\ SLOB_UNITS(x.size + SLOB_UNIT) \in Nat
           /\ SLOB_UNITS(x.size + SLOB_UNIT) >= 2
           /\ x.addr \in OtherUnits(<<"small", x>>)
<1>1. OtherUnits(<<"small", x>>) = Span(x.addr - 1, SLOB_UNITS(x.size + SLOB_UNIT))
  BY DEF OtherUnits
<1>2. x.addr \in Nat /\ x.size \in Nat /\ x.size >= 1
  BY DEF KMallocAssumption
<1>3. SLOB_UNIT \in Nat \ {0}
  BY UnitsNat
<1>4. /\ x.size + SLOB_UNIT + SLOB_UNIT - 1 \in Nat
      /\ 2 * SLOB_UNIT <= x.size + SLOB_UNIT + SLOB_UNIT - 1
  BY <1>2, <1>3
<1>5. SLOB_UNITS(x.size + SLOB_UNIT) \in Nat /\ SLOB_UNITS(x.size + SLOB_UNIT) >= 2
  BY <1>3, <1>4, DivAtLeast DEF SLOB_UNITS
<1>6. PICK n \in Nat : n = SLOB_UNITS(x.size + SLOB_UNIT) /\ n >= 2
  BY <1>5
<1>7. x.addr \in Span(x.addr - 1, n)
  BY <1>2, <1>6, InSpan
<1> QED
  BY <1>1, <1>5, <1>6, <1>7

LEMMA HeaderUnits ==
    ASSUME KMallocAssumption, NEW bb \in BigBlockT
    PROVE  /\ OtherUnits(<<"bigblock_t", bb>>) = Span(bb.at, SLOB_UNITS(BIGBLOCK))
           /\ SLOB_UNITS(BIGBLOCK) \in Nat /\ SLOB_UNITS(BIGBLOCK) >= 2
           /\ bb.at \in Nat /\ bb.at \in OtherUnits(<<"bigblock_t", bb>>)
<1>1. OtherUnits(<<"bigblock_t", bb>>) = Span(bb.at, SLOB_UNITS(BIGBLOCK))
  BY DEF OtherUnits
<1>2. /\ SLOB_UNIT \in Nat \ {0} /\ BIGBLOCK \in Nat /\ SLOB_UNIT < BIGBLOCK
      /\ bb.at \in Nat
  BY DEF KMallocAssumption, BigBlockT
<1>3. BIGBLOCK + SLOB_UNIT - 1 \in Nat /\ 2 * SLOB_UNIT <= BIGBLOCK + SLOB_UNIT - 1
  BY <1>2
<1>4. SLOB_UNITS(BIGBLOCK) \in Nat /\ SLOB_UNITS(BIGBLOCK) >= 2
  BY <1>2, <1>3, DivAtLeast DEF SLOB_UNITS
<1>5. PICK n \in Nat : n = SLOB_UNITS(BIGBLOCK) /\ n >= 2
  BY <1>4
<1>6. bb.at \in Span(bb.at, n)
  BY <1>2, <1>5, InSpan
<1> QED
  BY <1>1, <1>2, <1>4, <1>5, <1>6

LEMMA RunUnits ==
    ASSUME KMallocAssumption, NEW p \in Nat, NEW order \in {0, 1}
    PROVE  /\ 2^order \in Nat /\ 2^order >= 1
           /\ \A u : u \in Span(p * PageUnits, 2^order * PageUnits)
                        <=> u \in PageSet(p..(p + 2^order - 1))
           /\ p * PageUnits \in PageSet(p..(p + 2^order - 1))
<1>1. PICK d \in Nat \ {0} : d = PageUnits
  BY UnitsNat
<1>2. PICK b \in Nat : b = p * d
  OBVIOUS
<1>3. ASSUME NEW u \in Int
      PROVE  /\ b <= u /\ u < b + d <=> u \in Nat /\ u \div d = p
             /\ b + d <= u /\ u < b + 2 * d <=> u \in Nat /\ u \div d = p + 1
  <2>1. b <= u /\ u < b + d <=> 0 <= u /\ u \div d = p
    BY <1>2, DivRange
  <2>2. PICK l \in Nat : l = p + 1
    OBVIOUS
  <2>3. PICK c \in Int : c = l * d
    OBVIOUS
  <2>4. c <= u /\ u < c + d <=> 0 <= u /\ u \div d = l
    BY <2>3, DivRange
  <2>5. c = b + d
    BY <1>2, <2>2, <2>3
  <2> QED
    BY <2>1, <2>2, <2>4, <2>5
<1>4. 2^order \in {1, 2}
  BY TwoPowers
<1>5. PICK m \in {1, 2} : m = 2^order
  BY <1>4
<1>6. m * d \in Int
  OBVIOUS
<1>7. \A u : u \in Span(b, m * d) <=> u \in Int /\ b <= u /\ u < b + m * d
  BY <1>6, InSpan
<1>8. ASSUME NEW u
      PROVE  u \in Span(b, m * d) <=> u \in Nat /\ u \div d \in p..(p + m - 1)
  <2>1. CASE u \notin Int
    BY <1>7, <2>1
  <2>2. CASE u \in Int /\ m = 1
    <3>1. m * d = d /\ p..(p + m - 1) = {p}
      BY <2>2
    <3> QED
      BY <1>3, <1>7, <2>2, <3>1
  <2>3. CASE u \in Int /\ m = 2
    <3>1. m * d = 2 * d /\ p..(p + m - 1) = {p, p + 1}
      BY <2>3
    <3>2. u \in Span(b, m * d) <=> b <= u /\ u < b + 2 * d
      BY <1>7, <2>3, <3>1
    <3>3. /\ b <= u /\ u < b + d <=> u \in Nat /\ u \div d = p
          /\ b + d <= u /\ u < b + 2 * d <=> u \in Nat /\ u \div d = p + 1
      BY <1>3, <2>3
    <3>4. b <= u /\ u < b + 2 * d <=> (b <= u /\ u < b + d) \/ (b + d <= u /\ u < b + 2 * d)
      BY <2>3
    <3> QED
      BY <3>1, <3>2, <3>3, <3>4
  <2> QED
    BY <2>1, <2>2, <2>3
<1>9. b \in Nat /\ b \div d = p /\ p \in p..(p + m - 1)
  BY <1>2, Multiple
<1> QED
  BY <1>1, <1>2, <1>4, <1>5, <1>8, <1>9 DEF PageSet

LEMMA PagesUnits ==
    ASSUME KMallocAssumption, NEW bb \in BigBlockT
    PROVE  \E p \in Nat :
             /\ bb.pages = p * PageUnits
             /\ p..(p + 2^bb.order - 1) \subseteq AllPages
             /\ bb.pages \div PageUnits = p /\ bb.pages % PageUnits = 0
             /\ OtherUnits(<<"pages", bb>>) = PageSet(p..(p + 2^bb.order - 1))
             /\ bb.pages \in OtherUnits(<<"pages", bb>>)
<1>1. bb.order \in {0, 1}
  BY DEF BigBlockT
<1>2. PICK p \in Nat : bb.pages = p * PageUnits /\ p + 2^bb.order <= heap_pages
  BY DEF BigBlockT
<1>3. OtherUnits(<<"pages", bb>>) = Span(bb.pages, 2^bb.order * PageUnits)
  BY DEF OtherUnits
<1>4. /\ 2^bb.order \in Nat /\ 2^bb.order >= 1
      /\ \A u : u \in Span(p * PageUnits, 2^bb.order * PageUnits)
                   <=> u \in PageSet(p..(p + 2^bb.order - 1))
      /\ p * PageUnits \in PageSet(p..(p + 2^bb.order - 1))
  BY <1>1, RunUnits
<1>5. PICK m \in Nat : m = 2^bb.order
  BY <1>4
<1>6. p..(p + m - 1) \subseteq AllPages
  <2>1. heap_pages \in Nat
    BY DEF KMallocAssumption
  <2> QED
    BY <1>2, <1>5, <2>1 DEF AllPages
<1>7. (p * PageUnits) \div PageUnits = p /\ (p * PageUnits) % PageUnits = 0
  BY UnitsNat, Multiple
<1>8. PICK b, run : b = p * PageUnits /\ run = PageSet(p..(p + m - 1))
  OBVIOUS
<1>9. b \div PageUnits = p /\ b % PageUnits = 0 /\ bb.pages = b
  BY <1>2, <1>7, <1>8
<1>10. OtherUnits(<<"pages", bb>>) = run /\ b \in run
  <2>1. (\A u : u \in Span(b, m * PageUnits) <=> u \in run) /\ b \in run
    BY <1>4, <1>5, <1>8
  <2>2. OtherUnits(<<"pages", bb>>) = Span(b, m * PageUnits)
    BY <1>3, <1>5, <1>9
  <2>3. \A u : u \in OtherUnits(<<"pages", bb>>) <=> u \in run
    BY <2>1, <2>2
  <2>4. Span(b, m * PageUnits) = run
    BY <2>1
  <2> QED
    BY <2>1, <2>2, <2>4
<1> QED
  BY <1>2, <1>5, <1>6, <1>8, <1>9, <1>10

(* A client's block holds the unit at its address.                         *)
LEMMA AddrUsed ==
    ASSUME KMallocAssumption, NEW r, NEW B, NEW f, NEW bl, HeapCore(r, B, f, bl),
           NEW x \in bl
    PROVE  \E o \in Others(SmallOf(bl, B), B) : x.addr \in OtherUnits(o)
<1>1. CASE x \in SmallOf(bl, B)
  <2>1. <<"small", x>> \in Others(SmallOf(bl, B), B)
    BY <1>1 DEF Others
  <2>2. x.addr \in OtherUnits(<<"small", x>>)
    BY SmallUnits DEF HeapCore
  <2> QED
    BY <2>1, <2>2
<1>2. CASE x \notin SmallOf(bl, B)
  <2>1. PICK bb \in B : bb.pages = x.addr
    BY <1>2 DEF SmallOf
  <2>2. <<"pages", bb>> \in Others(SmallOf(bl, B), B)
    BY DEF Others
  <2>3. x.addr \in OtherUnits(<<"pages", bb>>)
    BY <2>1, PagesUnits DEF HeapCore
  <2> QED
    BY <2>2, <2>3
<1> QED
  BY <1>1, <1>2

LEMMA PagesUsed ==
    ASSUME KMallocAssumption, NEW r, NEW B, NEW f, NEW bl, HeapCore(r, B, f, bl),
           NEW bb \in B
    PROVE  \E o \in Others(SmallOf(bl, B), B) : bb.pages \in OtherUnits(o)
<1>1. <<"pages", bb>> \in Others(SmallOf(bl, B), B)
  BY DEF Others
<1>2. bb.pages \in OtherUnits(<<"pages", bb>>)
  BY PagesUnits DEF HeapCore
<1> QED
  BY <1>1, <1>2

(* The heap after slob_alloc, before its block is put to use.              *)
Given(B, f, bl, n, a) ==
    /\ n \in Nat /\ n >= 2
    /\ RingInv(a.r) /\ a.pages \subseteq f
    /\ \E F :
          /\ Split(F, Others(SmallOf(bl, B), B), PageSet(AllPages \ a.pages) \cup {arena})
          /\ \/ a.block = NULL /\ FreeUnits(a.r) = F
             \/ /\ a.block \in Nat /\ a.block # NULL
                /\ Span(a.block, n) \subseteq F
                /\ FreeUnits(a.r) = F \ Span(a.block, n)

LEMMA AllocSplit ==
    ASSUME KMallocAssumption, NEW r, NEW B, NEW f, NEW bl, HeapCore(r, B, f, bl),
           NEW bytes \in Nat, bytes > SLOB_UNIT, NEW a, a = slob_alloc(r, f, bytes),
           NEW n, n = SLOB_UNITS(bytes)
    PROVE  Given(B, f, bl, n, a)
<1>1. /\ RingInv(r) /\ f \subseteq AllPages
      /\ Split(FreeUnits(r), Others(SmallOf(bl, B), B), PageSet(AllPages \ f) \cup {arena})
  BY DEF HeapCore
<1>2. f \in SUBSET Nat
  BY <1>1 DEF AllPages, KMallocAssumption
<1>3. \A u \in PageSet(f) : u \notin PageSet(AllPages \ f) \cup {arena}
  BY DEF PageSet, arena
<1>4. \A u \in PageSet(f) : u \notin FreeUnits(r)
  BY <1>1, <1>3 DEF Split
<1>5. n \in Nat /\ n >= 2 /\ Allocated(r, f, n, a)
  BY <1>1, <1>2, <1>4, AllocKeeps
<1>6. a.pages \subseteq f /\ RingInv(a.r)
  BY <1>5 DEF Allocated
<1>7. PICK F :
        /\ F = FreeUnits(r) \cup PageSet(f \ a.pages)
        /\ \/ a.block = NULL /\ FreeUnits(a.r) = F
           \/ /\ a.block \in Nat /\ a.block # NULL
              /\ Span(a.block, n) \subseteq F
              /\ FreeUnits(a.r) = F \ Span(a.block, n)
  BY <1>5 DEF Allocated
<1>8. /\ \A u \in PageSet(f \ a.pages) : u \notin PageSet(AllPages \ f) \cup {arena}
      /\ (PageSet(AllPages \ f) \cup {arena}) \cup PageSet(f \ a.pages)
            = PageSet(AllPages \ a.pages) \cup {arena}
  BY <1>1, <1>3, <1>6 DEF PageSet
<1>9. Split(F, Others(SmallOf(bl, B), B), PageSet(AllPages \ a.pages) \cup {arena})
  BY <1>1, <1>7, <1>8, SplitGrow
<1> QED
  BY <1>5, <1>6, <1>7, <1>9 DEF Given

-----------------------------------------------------------------------------
(* kmalloc of a small block.                                               *)
LEMMA AllocFails ==
    ASSUME KMallocAssumption, NEW r, NEW B, NEW f, NEW bl, HeapCore(r, B, f, bl),
           NEW bytes \in Nat, bytes > SLOB_UNIT, NEW a, a = slob_alloc(r, f, bytes),
           a.block = NULL
    PROVE  HeapCore(a.r, B, a.pages, bl)
<1>1. /\ RingInv(a.r) /\ a.pages \subseteq f
      /\ Split(FreeUnits(a.r), Others(SmallOf(bl, B), B),
               PageSet(AllPages \ a.pages) \cup {arena})
  <2>1. PICK n : n = SLOB_UNITS(bytes) /\ Given(B, f, bl, n, a)
    BY AllocSplit
  <2> QED
    BY <2>1 DEF Given
<1> QED
  BY <1>1 DEF HeapCore

LEMMA SmallGiven ==
    ASSUME KMallocAssumption, NEW r, NEW B, NEW f, NEW bl, HeapCore(r, B, f, bl),
           NEW bytes \in Sizes, NEW a, a = slob_alloc(r, f, bytes + SLOB_UNIT),
           a.block # NULL, NEW x, x = [addr |-> a.block + 1, size |-> bytes]
    PROVE  HeapCore(a.r, B, a.pages, bl \cup {x})
<1> DEFINE O == Others(SmallOf(bl, B), B)
           T == PageSet(AllPages \ a.pages) \cup {arena}
<1>1. PICK n : n = SLOB_UNITS(bytes + SLOB_UNIT)
  OBVIOUS
<1>2. PICK c \in Nat : c = bytes + SLOB_UNIT /\ c > SLOB_UNIT
  <2>1. bytes \in Nat /\ bytes >= 1 /\ SLOB_UNIT \in Nat
    BY DEF KMallocAssumption
  <2> QED
    BY <2>1
<1>3. PICK F :
        /\ n \in Nat /\ n >= 2
        /\ RingInv(a.r) /\ a.pages \subseteq f
        /\ Split(F, O, T)
        /\ a.block \in Nat
        /\ Span(a.block, n) \subseteq F
        /\ FreeUnits(a.r) = F \ Span(a.block, n)
  <2>1. Given(B, f, bl, n, a)
    BY <1>1, <1>2, AllocSplit
  <2> QED
    BY <2>1 DEF Given
<1>4. x \in [addr : Nat, size : Sizes] /\ x.addr = a.block + 1 /\ x.size = bytes
  BY <1>3
<1>5. OtherUnits(<<"small", x>>) = Span(a.block, n) /\ x.addr \in Span(a.block, n)
  <2>1. x.addr - 1 = a.block
    BY <1>3, <1>4
  <2> QED
    BY <1>1, <1>4, <2>1, SmallUnits
<1>6. Split(F \ Span(a.block, n), O \cup {<<"small", x>>}, T)
  <2>1. Split(F \ OtherUnits(<<"small", x>>), O \cup {<<"small", x>>}, T)
    <3>1. PICK o : o = <<"small", x>>
      OBVIOUS
    <3>2. OtherUnits(o) \subseteq F
      BY <1>3, <1>5, <3>1
    <3> HIDE DEF O, T
    <3> QED
      BY <1>3, <3>1, <3>2, SplitAdd
  <2> QED
    BY <1>5, <2>1
<1>7. \A o \in O : x.addr \notin OtherUnits(o)
  BY <1>3, <1>5 DEF Split
<1>8. \A bb \in B : bb.pages # x.addr
  BY <1>7, PagesUsed
<1>9. \A y \in bl : y.addr # x.addr
  BY <1>7, AddrUsed
<1>10. Others(SmallOf(bl \cup {x}, B), B) = O \cup {<<"small", x>>}
  <2>1. SmallOf(bl \cup {x}, B) = SmallOf(bl, B) \cup {x}
    BY <1>8 DEF SmallOf
  <2> QED
    BY <2>1 DEF Others
<1>11. bl \cup {x} \subseteq [addr : Nat, size : Sizes]
  BY <1>4 DEF HeapCore
<1>12. \A y, z \in bl \cup {x} : y.addr = z.addr => y = z
  BY <1>9 DEF HeapCore
<1>13. \A y \in bl \cup {x}, bb \in B : bb.pages = y.addr => 2^bb.order * PAGE_SIZE >= y.size
  BY <1>8 DEF HeapCore
<1>14. RingInv(a.r) /\ a.pages \subseteq AllPages /\ B \subseteq BigBlockT
  BY <1>3 DEF HeapCore
<1>15. Split(FreeUnits(a.r), Others(SmallOf(bl \cup {x}, B), B), T)
  BY <1>3, <1>6, <1>10
<1> QED
  BY <1>11, <1>12, <1>13, <1>14, <1>15 DEF HeapCore

(* kmalloc of a large block: without a run of pages the bigblock_t goes    *)
(* back.                                                                   *)
LEMMA BigFails ==
    ASSUME KMallocAssumption, NEW r, NEW B, NEW f, NEW bl, HeapCore(r, B, f, bl),
           NEW a, a = slob_alloc(r, f, BIGBLOCK), a.block # NULL
    PROVE  HeapCore(slob_free(a.r, a.block, SLOB_UNITS(BIGBLOCK)), B, a.pages, bl)
<1> DEFINE O == Others(SmallOf(bl, B), B)
           T == PageSet(AllPages \ a.pages) \cup {arena}
<1>1. PICK n : n = SLOB_UNITS(BIGBLOCK)
  OBVIOUS
<1>2. BIGBLOCK \in Nat /\ BIGBLOCK > SLOB_UNIT
  BY DEF KMallocAssumption
<1>3. PICK F :
        /\ n \in Nat /\ n >= 2
        /\ RingInv(a.r) /\ a.pages \subseteq f
        /\ Split(F, O, T)
        /\ a.block \in Nat
        /\ Span(a.block, n) \subseteq F
        /\ FreeUnits(a.r) = F \ Span(a.block, n)
  <2>1. Given(B, f, bl, n, a)
    BY <1>1, <1>2, AllocSplit
  <2> QED
    BY <2>1 DEF Given
<1>4. PICK b \in Nat, s \in {slob_free(a.r, a.block, n)} : s = slob_free(a.r, b, n) /\ b = a.block
  BY <1>3
<1>5. n \in Nat \ {0} /\ \A u \in Span(b, n) : u \notin FreeUnits(a.r)
  BY <1>3, <1>4
<1>6. RingInv(s) /\ FreeUnits(s) = FreeUnits(a.r) \cup Span(b, n)
  BY <1>3, <1>4, <1>5, FreeKeeps
<1>7. FreeUnits(s) = F
  BY <1>3, <1>4, <1>6
<1>8. HeapCore(s, B, a.pages, bl)
  BY <1>3, <1>6, <1>7 DEF HeapCore
<1> QED
  BY <1>1, <1>4, <1>8

LEMMA OrderFits ==
    ASSUME KMallocAssumption, NEW bytes \in Sizes
    PROVE  find_order(bytes) \in {0, 1} /\ 2^find_order(bytes) * PAGE_SIZE >= bytes
<1>1. /\ bytes \in Nat /\ bytes >= 1 /\ bytes <= 2 * PAGE_SIZE
      /\ PAGE_SIZE \in Nat /\ PAGE_SIZE > 0
  BY DEF KMallocAssumption
<1> DEFINE K == {k \in 0..(bytes \div PAGE_SIZE) : bytes \div 2^k <= PAGE_SIZE}
<1>2. find_order(bytes) = Min(K)
  BY DEF find_order
<1>3. bytes \div PAGE_SIZE \in Nat /\ bytes \div 1 = bytes /\ bytes \div 2 <= PAGE_SIZE
  BY <1>1
<1>4. K \subseteq Nat
  BY <1>3
<1>5. 0 \in K <=> bytes <= PAGE_SIZE
  BY <1>3, TwoPowers
<1>6. CASE bytes <= PAGE_SIZE
  <2>1. 0 \in K
    BY <1>5, <1>6
  <2>2. Min(K) \in K /\ \A k \in K : Min(K) <= k
    <3> HIDE DEF K
    <3> QED
      BY <1>4, <2>1, MinLeast
  <2> HIDE DEF K
  <2>3. Min(K) = 0
    <3>1. PICK m \in K : m = Min(K) /\ m <= 0
      BY <2>1, <2>2
    <3> QED
      BY <1>4, <3>1
  <2> QED
    BY <1>1, <1>2, <1>6, <2>3, TwoPowers
<1>7. CASE bytes > PAGE_SIZE
  <2>1. bytes \div PAGE_SIZE >= 1
    BY <1>1, <1>7
  <2>2. 1 \in K /\ 0 \notin K
    BY <1>1, <1>3, <1>5, <1>7, <2>1, TwoPowers
  <2>3. Min(K) \in K /\ \A k \in K : Min(K) <= k
    <3> HIDE DEF K
    <3> QED
      BY <1>4, <2>2, MinLeast
  <2> HIDE DEF K
  <2>4. Min(K) = 1
    <3>1. PICK m \in K : m = Min(K) /\ m <= 1 /\ m # 0
      BY <2>2, <2>3
    <3> QED
      BY <1>4, <3>1
  <2> QED
    BY <1>1, <1>2, <2>4, TwoPowers
<1> QED
  BY <1>1, <1>6, <1>7

(* What the client and the heap note of a run at page p.                   *)
NewBigBlock(a, order, p) == [at |-> a.block, order |-> order, pages |-> p * PageUnits]

NewBlock(p, bytes) == [addr |-> p * PageUnits, size |-> bytes]

NewRun(order, p) == p..(p + 2^order - 1)

LEMMA BigGiven ==
    ASSUME KMallocAssumption, NEW r, NEW B, NEW f, NEW bl, HeapCore(r, B, f, bl),
           NEW a, a = slob_alloc(r, f, BIGBLOCK), a.block # NULL,
           NEW bytes \in Sizes, NEW order, order = find_order(bytes),
           NEW p \in Runs(a.pages, order),
           NEW bb, bb = NewBigBlock(a, order, p), NEW x, x = NewBlock(p, bytes)
    PROVE  /\ bb \in BigBlockT /\ bb \notin B
           /\ HeapCore(a.r, B \cup {bb}, a.pages \ NewRun(order, p), bl \cup {x})
<1> DEFINE O == Others(SmallOf(bl, B), B)
           T == PageSet(AllPages \ a.pages) \cup {arena}
           o == <<"bigblock_t", bb>>
           t == <<"pages", bb>>
<1> USE DEF NewBigBlock, NewBlock
<1>0. f \subseteq AllPages /\ B \subseteq BigBlockT /\ bl \subseteq [addr : Nat, size : Sizes]
  BY DEF HeapCore
<1>1. PICK n : n = SLOB_UNITS(BIGBLOCK)
  OBVIOUS
<1>2. BIGBLOCK \in Nat /\ BIGBLOCK > SLOB_UNIT
  BY DEF KMallocAssumption
<1>3. PICK F :
        /\ n \in Nat /\ n >= 2
        /\ RingInv(a.r) /\ a.pages \subseteq f
        /\ Split(F, O, T)
        /\ a.block \in Nat
        /\ Span(a.block, n) \subseteq F
        /\ FreeUnits(a.r) = F \ Span(a.block, n)
  <2>1. Given(B, f, bl, n, a)
    BY <1>1, <1>2, AllocSplit
  <2> QED
    BY <2>1 DEF Given
<1>4. order \in {0, 1} /\ 2^order * PAGE_SIZE >= bytes
  BY OrderFits
<1>5. PICK m \in Nat : m = 2^order /\ m >= 1
  <2>1. 2^order = 1 \/ 2^order = 2
    BY <1>4, TwoPowers
  <2> QED
    BY <2>1
<1>6. PICK P : P = p..(p + m - 1)
  OBVIOUS
<1>7. p \in Nat /\ P \subseteq a.pages /\ P \subseteq AllPages
  <2>1. p \in a.pages /\ p..(p + m - 1) \subseteq a.pages
    BY <1>5 DEF Runs
  <2>2. a.pages \subseteq AllPages
    BY <1>0, <1>3
  <2>3. AllPages \subseteq Nat
    BY DEF AllPages, KMallocAssumption
  <2> QED
    BY <1>6, <2>1, <2>2, <2>3
<1>8. PICK b \in Nat : b = p * PageUnits
  BY <1>7, UnitsNat
<1>9. bb \in BigBlockT
  <2>1. p + m <= heap_pages
    <3>1. p + m - 1 \in P
      BY <1>5, <1>6, <1>7
    <3>2. p + m - 1 <= heap_pages - 1 /\ heap_pages \in Nat
      BY <1>7, <3>1 DEF AllPages, KMallocAssumption
    <3> QED
      BY <1>5, <1>7, <3>2
  <2>2. bb \in [at : Nat, order : {0, 1}, pages : Nat]
    BY <1>3, <1>4, <1>8
  <2>3. bb.pages = p * PageUnits /\ bb.order = order
    OBVIOUS
  <2> QED
    BY <1>5, <1>7, <2>1, <2>2, <2>3 DEF BigBlockT
<1>10. bb.at = a.block /\ bb.order = order /\ bb.pages = b /\ x.addr = b /\ x.size = bytes
  BY <1>8
<1>11. OtherUnits(o) = Span(a.block, n) /\ a.block \in Span(a.block, n)
  BY <1>1, <1>9, <1>10, HeaderUnits
<1>12. OtherUnits(t) = PageSet(P) /\ b \in PageSet(P)
  <2>1. OtherUnits(t) = Span(b, m * PageUnits)
    BY <1>5, <1>10 DEF OtherUnits
  <2>2. /\ \A u : u \in Span(b, m * PageUnits) <=> u \in PageSet(P)
        /\ b \in PageSet(P)
    BY <1>4, <1>5, <1>6, <1>7, <1>8, RunUnits
  <2>3. Span(b, m * PageUnits) = PageSet(P)
    BY <2>2
  <2> QED
    BY <2>1, <2>2, <2>3
<1>13. \A u \in PageSet(P) : u \notin T
  BY <1>7 DEF PageSet, arena
<1>14. T \cup PageSet(P) = PageSet(AllPages \ (a.pages \ P)) \cup {arena}
  BY <1>7 DEF PageSet
<1>15. PICK F1, F2 : F1 = F \ Span(a.block, n) /\ F2 = F1 \cup PageSet(P)
  OBVIOUS
<1>16. Split(F1, O \cup {o}, T)
  <2>1. OtherUnits(o) \subseteq F
    BY <1>3, <1>11
  <2> HIDE DEF O, T, o
  <2> QED
    BY <1>3, <1>11, <1>15, <2>1, SplitAdd
<1>17. Split(F2, O \cup {o}, T \cup PageSet(P))
  <2> HIDE DEF O, T, o
  <2> QED
    BY <1>13, <1>15, <1>16, SplitGrow
<1>18. F2 \ PageSet(P) = F1
  <2>1. \A u \in F1 : u \in T
    BY <1>16 DEF Split
  <2> QED
    BY <1>13, <1>15, <2>1
<1>19. Split(F1, (O \cup {o}) \cup {t}, T \cup PageSet(P))
  <2>1. OtherUnits(t) \subseteq F2
    BY <1>12, <1>15
  <2> HIDE DEF O, T, o, t
  <2>2. Split(F2 \ OtherUnits(t), (O \cup {o}) \cup {t}, T \cup PageSet(P))
    BY <1>17, <2>1, SplitAdd
  <2> QED
    BY <1>12, <1>18, <2>2
<1>20. bb \notin B
  <2> SUFFICES ASSUME bb \in B PROVE FALSE
    OBVIOUS
  <2>1. o \in O
    BY DEF Others
  <2> QED
    BY <1>3, <1>11, <2>1 DEF Split
<1>21. b \notin T /\ \A q \in O : b \notin OtherUnits(q)
  BY <1>3, <1>12, <1>13 DEF Split
<1>22. \A c \in B : c.pages # b
  BY <1>21, PagesUsed
<1>23. \A y \in bl : y.addr # b
  BY <1>21, AddrUsed
<1>24. Others(SmallOf(bl \cup {x}, B \cup {bb}), B \cup {bb}) = (O \cup {o}) \cup {t}
  <2>1. SmallOf(bl \cup {x}, B \cup {bb}) = SmallOf(bl, B)
    BY <1>10, <1>22, <1>23 DEF SmallOf
  <2> QED
    BY <2>1 DEF Others
<1>25. bl \cup {x} \subseteq [addr : Nat, size : Sizes] /\ B \cup {bb} \subseteq BigBlockT
  BY <1>0, <1>8, <1>9
<1>26. \A y, z \in bl \cup {x} : y.addr = z.addr => y = z
  BY <1>10, <1>23 DEF HeapCore
<1>27. \A y \in bl \cup {x}, c \in B \cup {bb} :
          c.pages = y.addr => 2^c.order * PAGE_SIZE >= y.size
  <2>1. ASSUME NEW y \in bl \cup {x}, NEW c \in B \cup {bb}, c.pages = y.addr
        PROVE  2^c.order * PAGE_SIZE >= y.size
    <3>1. CASE y \in bl /\ c \in B
      BY <2>1, <3>1 DEF HeapCore
    <3>2. CASE y = x /\ c = bb
      BY <1>4, <1>10, <3>2
    <3> QED
      BY <1>10, <1>22, <1>23, <2>1, <3>1, <3>2
  <2> QED
    BY <2>1
<1>28. PICK g : g = a.pages \ P
  OBVIOUS
<1>29. RingInv(a.r) /\ g \subseteq AllPages
  BY <1>0, <1>3, <1>28
<1>30. Split(FreeUnits(a.r), Others(SmallOf(bl \cup {x}, B \cup {bb}), B \cup {bb}),
             PageSet(AllPages \ g) \cup {arena})
  BY <1>3, <1>14, <1>15, <1>19, <1>24, <1>28
<1>31. HeapCore(a.r, B \cup {bb}, g, bl \cup {x})
  BY <1>25, <1>26, <1>27, <1>29, <1>30 DEF HeapCore
<1> QED
  BY <1>5, <1>6, <1>9, <1>20, <1>28, <1>31 DEF NewRun

-----------------------------------------------------------------------------
(* kfree.                                                                  *)
LEMMA SmallFreed ==
    ASSUME KMallocAssumption, NEW r, NEW B, NEW f, NEW bl, HeapCore(r, B, f, bl),
           NEW x \in bl, \A bb \in B : bb.pages # x.addr
    PROVE  HeapCore(slob_free(r, x.addr - 1, SLOB_UNITS(x.size + SLOB_UNIT)), B, f, bl \ {x})
<1> DEFINE O == Others(SmallOf(bl, B), B)
           T == PageSet(AllPages \ f) \cup {arena}
           o == <<"small", x>>
<1>1. /\ RingInv(r) /\ f \subseteq AllPages /\ B \subseteq BigBlockT
      /\ bl \subseteq [addr : Nat, size : Sizes]
      /\ Split(FreeUnits(r), O, T)
  BY DEF HeapCore
<1>2. PICK n \in Nat : n = SLOB_UNITS(x.size + SLOB_UNIT) /\ n >= 2
  BY <1>1, SmallUnits
<1>3. PICK b \in Int : b = x.addr - 1
  BY <1>1
<1>4. OtherUnits(o) = Span(b, n)
  BY <1>1, <1>2, <1>3, SmallUnits
<1>5. o \in O
  BY DEF Others, SmallOf
<1>6. b \in Nat /\ \A u \in Span(b, n) : u \notin FreeUnits(r)
  <2>1. \A u : u \in Span(b, n) <=> u \in Int /\ b <= u /\ u < b + n
    BY <1>2, <1>3, InSpan
  <2>2. \A u \in Span(b, n) : u \notin FreeUnits(r) /\ u \in T
    <3>1. Split(FreeUnits(r), O, T)
      BY <1>1
    <3> HIDE DEF O, T, o
    <3> QED
      BY <1>4, <1>5, <3>1 DEF Split
  <2>3. b \in Span(b, n)
    BY <1>2, <1>3, <2>1
  <2>4. arena \in FreeUnits(r)
    <3>1. arena \in Heads(r)
      BY <1>1 DEF RingInv
    <3> QED
      BY <1>1, <3>1, HeadTypes DEF FreeUnits
  <2>5. b \in T /\ b # arena
    BY <2>2, <2>3, <2>4
  <2> QED
    BY <2>2, <2>5 DEF PageSet
<1>7. PICK s : s = slob_free(r, b, n)
  OBVIOUS
<1>8. RingInv(s) /\ FreeUnits(s) = FreeUnits(r) \cup Span(b, n)
  <2>1. n \in Nat \ {0}
    BY <1>2
  <2> QED
    BY <1>1, <1>6, <1>7, <2>1, FreeKeeps
<1>9. Split(FreeUnits(s), O \ {o}, T)
  <2> HIDE DEF O, T, o
  <2> QED
    BY <1>1, <1>4, <1>5, <1>8, SplitDrop
<1>10. Others(SmallOf(bl \ {x}, B), B) = O \ {o}
  <2>1. PICK S : S = SmallOf(bl, B) /\ SmallOf(bl \ {x}, B) = S \ {x}
    BY DEF SmallOf
  <2>2. {"small"} \X (S \ {x}) = ({"small"} \X S) \ {<<"small", x>>}
    OBVIOUS
  <2>3. <<"small", x>> \notin {"bigblock_t", "pages"} \X B
    OBVIOUS
  <2> QED
    BY <2>1, <2>2, <2>3 DEF Others
<1>11. HeapCore(s, B, f, bl \ {x})
  BY <1>1, <1>8, <1>9, <1>10 DEF HeapCore
<1> QED
  BY <1>2, <1>3, <1>7, <1>11

LEMMA BigFreed ==
    ASSUME KMallocAssumption, NEW r, NEW B, NEW f, NEW bl, HeapCore(r, B, f, bl),
           NEW x \in bl, NEW bb \in B, bb.pages = x.addr,
           NEW p, p = bb.pages \div PageUnits
    PROVE  HeapCore(slob_free(r, bb.at, SLOB_UNITS(BIGBLOCK)), B \ {bb},
                    f \cup (p..(p + 2^bb.order - 1)), bl \ {x})
<1> DEFINE O == Others(SmallOf(bl, B), B)
           T == PageSet(AllPages \ f) \cup {arena}
           o == <<"bigblock_t", bb>>
           t == <<"pages", bb>>
<1>1. /\ RingInv(r) /\ f \subseteq AllPages /\ B \subseteq BigBlockT
      /\ bl \subseteq [addr : Nat, size : Sizes]
      /\ Split(FreeUnits(r), O, T)
      /\ \A y, z \in bl : y.addr = z.addr => y = z
      /\ \A y \in bl, c \in B : c.pages = y.addr => 2^c.order * PAGE_SIZE >= y.size
  BY DEF HeapCore
<1>2. PICK n \in Nat : n = SLOB_UNITS(BIGBLOCK) /\ n >= 2
  BY <1>1, HeaderUnits
<1>3. PICK b \in Nat : b = bb.at
  BY <1>1, HeaderUnits
<1>4. OtherUnits(o) = Span(b, n)
  BY <1>1, <1>2, <1>3, HeaderUnits
<1>5. PICK P : P = p..(p + 2^bb.order - 1)
  OBVIOUS
<1>6. P \subseteq AllPages /\ OtherUnits(t) = PageSet(P) /\ bb.pages \in PageSet(P)
  <2>1. PICK q \in Nat :
             /\ q..(q + 2^bb.order - 1) \subseteq AllPages
             /\ bb.pages \div PageUnits = q
             /\ OtherUnits(t) = PageSet(q..(q + 2^bb.order - 1))
             /\ bb.pages \in OtherUnits(t)
    BY <1>1, PagesUnits
  <2> QED
    BY <1>5, <2>1
<1>7. o \in O /\ t \in O /\ o # t
  BY DEF Others
<1>8. \A u \in Span(b, n) : u \notin FreeUnits(r)
  BY <1>1, <1>4, <1>7 DEF Split
<1>9. PICK s : s = slob_free(r, b, n)
  OBVIOUS
<1>10. RingInv(s) /\ FreeUnits(s) = FreeUnits(r) \cup Span(b, n)
  <2>1. n \in Nat \ {0}
    BY <1>2
  <2> QED
    BY <1>1, <1>8, <1>9, <2>1, FreeKeeps
<1>11. Split(FreeUnits(s), O \ {o}, T)
  <2> HIDE DEF O, T, o
  <2> QED
    BY <1>1, <1>4, <1>7, <1>10, SplitDrop
<1>12. Split(FreeUnits(s) \cup PageSet(P), (O \ {o}) \ {t}, T)
  <2>1. t \in O \ {o}
    BY <1>7
  <2> HIDE DEF O, T, o, t
  <2> QED
    BY <1>6, <1>11, <2>1, SplitDrop
<1>13. \A u \in PageSet(P) : u \notin FreeUnits(s)
  BY <1>6, <1>7, <1>11 DEF Split
<1>14. Split(FreeUnits(s), (O \ {o}) \ {t}, T \ PageSet(P))
  <2> HIDE DEF O, T, o, t
  <2> QED
    BY <1>12, <1>13, SplitShrink
<1>15. T \ PageSet(P) = PageSet(AllPages \ (f \cup P)) \cup {arena}
  BY DEF PageSet, arena
<1>16. \A y \in bl : y.addr = bb.pages <=> y = x
  BY <1>1
<1>17. \A c \in B \ {bb} : c.pages # bb.pages
  <2> SUFFICES ASSUME NEW c \in B \ {bb}, c.pages = bb.pages PROVE FALSE
    OBVIOUS
  <2>1. <<"pages", c>> \in O /\ <<"pages", c>> # t
    BY DEF Others
  <2>2. c.pages \in OtherUnits(<<"pages", c>>)
    BY <1>1, PagesUnits
  <2> QED
    BY <1>1, <1>6, <1>7, <2>1, <2>2 DEF Split
<1>18. Others(SmallOf(bl \ {x}, B \ {bb}), B \ {bb}) = (O \ {o}) \ {t}
  <2>1. SmallOf(bl \ {x}, B \ {bb}) = SmallOf(bl, B)
    BY <1>16, <1>17 DEF SmallOf
  <2> QED
    BY <2>1 DEF Others
<1>19. PICK g : g = f \cup P
  OBVIOUS
<1>20. g \subseteq AllPages
  BY <1>1, <1>6, <1>19
<1>21. Split(FreeUnits(s), Others(SmallOf(bl \ {x}, B \ {bb}), B \ {bb}),
             PageSet(AllPages \ g) \cup {arena})
  BY <1>14, <1>15, <1>18, <1>19
<1>22. HeapCore(s, B \ {bb}, g, bl \ {x})
  BY <1>1, <1>10, <1>20, <1>21 DEF HeapCore
<1> QED
  BY <1>2, <1>3, <1>5, <1>9, <1>19, <1>22

-----------------------------------------------------------------------------
(* The inductive invariant of the heap.                                    *)
HeapInv ==
    /\ HeapCore(ring, BigBlocks, freePages, blocks)
    /\ bigblocks \in Seq(BigBlockT)
    /\ \A j, k \in 1..Len(bigblocks) : j # k => bigblocks[j] # bigblocks[k]

LEMMA HeapInitInv == ASSUME KMallocAssumption, HeapInit PROVE HeapInv
<1>1. /\ ring = [next |-> [b \in {arena} |-> arena], units |-> [b \in {arena} |-> 1],
                 slobfree |-> arena]
      /\ bigblocks = <<>> /\ freePages = AllPages /\ blocks = {}
  BY DEF HeapInit, AllPages
<1>2. /\ Heads(ring) = {arena} /\ ring.slobfree = arena
      /\ ring.next = [b \in {arena} |-> arena] /\ ring.units = [b \in {arena} |-> 1]
  BY <1>1 DEF Heads
<1>3. RingInv(ring)
  <2>1. IsFiniteSet({arena})
    BY FS_Singleton
  <2>2. \A b, c \in {arena} : Ordered(b, ring.units[b], ring.next[b], c)
    BY <1>2 DEF Ordered, arena
  <2> QED
    BY <1>2, <2>1, <2>2, RingFromPairs
<1>4. FreeUnits(ring) = {arena}
  <2>1. \A u \in Int : arena <= u /\ u < arena + 1 <=> u = arena
    BY DEF arena
  <2>2. arena \in Int
    BY DEF arena
  <2> QED
    BY <1>2, <2>1, <2>2 DEF FreeUnits
<1>5. BigBlocks = {} /\ SmallOf(blocks, BigBlocks) = {}
  BY <1>1 DEF BigBlocks, SmallOf
<1>6. Others(SmallOf(blocks, BigBlocks), BigBlocks) = {}
  BY <1>5 DEF Others
<1>7. PageSet(AllPages \ freePages) = {}
  BY <1>1 DEF PageSet
<1>8. Split(FreeUnits(ring), Others(SmallOf(blocks, BigBlocks), BigBlocks),
            PageSet(AllPages \ freePages) \cup {arena})
  BY <1>4, <1>6, <1>7 DEF Split
<1> QED
  BY <1>1, <1>3, <1>5, <1>8 DEF HeapInv, HeapCore

LEMMA KmallocSmallStep ==
    ASSUME KMallocAssumption, HeapInv, NEW bytes \in Sizes, kmalloc_small(bytes)
    PROVE  HeapInv'
<1>1. PICK a : a = slob_alloc(ring, freePages, bytes + SLOB_UNIT)
  OBVIOUS
<1>2. /\ ring' = a.r /\ freePages' = a.pages
      /\ blocks' = IF a.block = NULL THEN blocks
                   ELSE blocks \cup {[addr |-> a.block + 1, size |-> bytes]}
      /\ bigblocks' = bigblocks
  BY <1>1 DEF kmalloc_small
<1>3. PICK r, f, bl, B : r = ring /\ f = freePages /\ bl = blocks /\ B = BigBlocks
  OBVIOUS
<1>4. HeapCore(r, B, f, bl)
  BY <1>3 DEF HeapInv
<1>5. CASE a.block = NULL
  <2>1. PICK c \in Nat : c = bytes + SLOB_UNIT /\ c > SLOB_UNIT
    <3>1. bytes \in Nat /\ bytes >= 1 /\ SLOB_UNIT \in Nat
      BY DEF KMallocAssumption
    <3> QED
      BY <3>1
  <2>2. HeapCore(a.r, B, a.pages, bl)
    BY <1>1, <1>3, <1>4, <1>5, <2>1, AllocFails
  <2> QED
    BY <1>2, <1>3, <1>5, <2>2 DEF HeapInv, BigBlocks
<1>6. CASE a.block # NULL
  <2>1. PICK x : x = [addr |-> a.block + 1, size |-> bytes]
    OBVIOUS
  <2>2. HeapCore(a.r, B, a.pages, bl \cup {x})
    BY <1>1, <1>3, <1>4, <1>6, <2>1, SmallGiven
  <2> QED
    BY <1>2, <1>3, <1>6, <2>1, <2>2 DEF HeapInv, BigBlocks
<1> QED
  BY <1>5, <1>6

LEMMA KmallocBigStep ==
    ASSUME KMallocAssumption, HeapInv, NEW bytes \in Sizes, kmalloc_big(bytes)
    PROVE  HeapInv'
<1>1. PICK a, order, n :
        /\ a = slob_alloc(ring, freePages, BIGBLOCK)
        /\ order = find_order(bytes)
        /\ n = SLOB_UNITS(BIGBLOCK)
  OBVIOUS
<1>2. PICK p : p = Min(Runs(a.pages, order))
  OBVIOUS
<1>3. PICK bb, x : bb = NewBigBlock(a, order, p) /\ x = NewBlock(p, bytes)
  OBVIOUS
<1>4. \/ /\ a.block = NULL
         /\ ring' = a.r /\ freePages' = a.pages
         /\ UNCHANGED <<bigblocks, blocks>>
      \/ /\ a.block # NULL
         /\ ring' = slob_free(a.r, a.block, n)
         /\ freePages' = a.pages
         /\ UNCHANGED <<bigblocks, blocks>>
      \/ /\ a.block # NULL /\ Runs(a.pages, order) # {}
         /\ ring' = a.r
         /\ freePages' = a.pages \ NewRun(order, p)
         /\ bigblocks' = <<bb>> \o bigblocks
         /\ blocks' = blocks \cup {x}
  BY <1>1, <1>2, <1>3 DEF kmalloc_big, NewBigBlock, NewBlock, NewRun
<1>5. PICK r, f, bl, B, q :
        r = ring /\ f = freePages /\ bl = blocks /\ B = BigBlocks /\ q = bigblocks
  OBVIOUS
<1>6. HeapCore(r, B, f, bl)
  BY <1>5 DEF HeapInv
<1>7. CASE /\ a.block = NULL
           /\ ring' = a.r /\ freePages' = a.pages
           /\ UNCHANGED <<bigblocks, blocks>>
  <2>1. BIGBLOCK \in Nat /\ BIGBLOCK > SLOB_UNIT
    BY DEF KMallocAssumption
  <2>2. HeapCore(a.r, B, a.pages, bl)
    BY <1>1, <1>5, <1>6, <1>7, <2>1, AllocFails
  <2> QED
    BY <1>5, <1>7, <2>2 DEF HeapInv, BigBlocks
<1>8. CASE /\ a.block # NULL
           /\ ring' = slob_free(a.r, a.block, n)
           /\ freePages' = a.pages
           /\ UNCHANGED <<bigblocks, blocks>>
  <2>1. HeapCore(slob_free(a.r, a.block, n), B, a.pages, bl)
    BY <1>1, <1>5, <1>6, <1>8, BigFails
  <2> QED
    BY <1>5, <1>8, <2>1 DEF HeapInv, BigBlocks
<1>9. CASE /\ a.block # NULL /\ Runs(a.pages, order) # {}
           /\ ring' = a.r
           /\ freePages' = a.pages \ NewRun(order, p)
           /\ bigblocks' = <<bb>> \o bigblocks
           /\ blocks' = blocks \cup {x}
  <2>1. p \in Runs(a.pages, order)
    <3>1. a.pages \subseteq Nat
      <4>1. BIGBLOCK \in Nat /\ BIGBLOCK > SLOB_UNIT
        BY DEF KMallocAssumption
      <4>2. Given(B, f, bl, n, a)
        BY <1>1, <1>5, <1>6, <4>1, AllocSplit
      <4>3. a.pages \subseteq AllPages
        BY <1>6, <4>2 DEF Given, HeapCore
      <4> QED
        BY <4>3 DEF AllPages, KMallocAssumption
    <3>2. Runs(a.pages, order) \subseteq Nat
      BY <3>1 DEF Runs
    <3>3. PICK R : R = Runs(a.pages, order)
      OBVIOUS
    <3>4. Min(R) \in R /\ \A y \in R : Min(R) <= y
      BY <1>9, <3>2, <3>3, MinLeast
    <3> QED
      BY <1>2, <3>3, <3>4
  <2>2. /\ bb \in BigBlockT /\ bb \notin B
        /\ HeapCore(a.r, B \cup {bb}, a.pages \ NewRun(order, p), bl \cup {x})
    <3>1. a = slob_alloc(r, f, BIGBLOCK) /\ a.block # NULL
      BY <1>1, <1>5, <1>9
    <3>2. order = find_order(bytes)
      BY <1>1
    <3> QED
      BY <1>3, <1>6, <2>1, <3>1, <3>2, BigGiven
  <2>3. PICK s : s = bigblocks'
    OBVIOUS
  <2>4. /\ q \in Seq(BigBlockT) /\ B = {q[k] : k \in 1..Len(q)}
        /\ \A j, k \in 1..Len(q) : j # k => q[j] # q[k]
    BY <1>5 DEF HeapInv, BigBlocks
  <2>5. s = <<bb>> \o q
    BY <1>5, <1>9, <2>3
  <2>6. /\ s \in Seq(BigBlockT) /\ Len(s) = Len(q) + 1
        /\ s[1] = bb /\ \A k \in 1..Len(q) : s[k + 1] = q[k]
    BY <2>2, <2>4, <2>5
  <2>7. \A k \in 1..Len(s) : k = 1 \/ (k - 1 \in 1..Len(q) /\ s[k] = q[k - 1])
    <3> SUFFICES ASSUME NEW k \in 1..Len(s), k # 1
                 PROVE  k - 1 \in 1..Len(q) /\ s[k] = q[k - 1]
      OBVIOUS
    <3>1. Len(q) \in Nat
      BY <2>4
    <3>2. k - 1 \in 1..Len(q) /\ (k - 1) + 1 = k
      BY <2>6, <3>1
    <3> QED
      BY <2>6, <3>2
  <2>8. {s[k] : k \in 1..Len(s)} = B \cup {bb}
    <3>0. Len(q) \in Nat
      BY <2>4
    <3>1. ASSUME NEW k \in 1..Len(s) PROVE s[k] \in B \cup {bb}
      BY <2>4, <2>6, <2>7
    <3>2. bb \in {s[k] : k \in 1..Len(s)}
      BY <2>6, <3>0
    <3>3. ASSUME NEW k \in 1..Len(q) PROVE q[k] \in {s[j] : j \in 1..Len(s)}
      <4>1. k + 1 \in 1..Len(s) /\ s[k + 1] = q[k]
        BY <2>6, <3>0
      <4> QED
        BY <4>1
    <3> QED
      BY <2>4, <3>1, <3>2, <3>3
  <2>9. \A j, k \in 1..Len(s) : j # k => s[j] # s[k]
    <3>1. \A k \in 1..Len(q) : q[k] # bb
      BY <2>2, <2>4
    <3> SUFFICES ASSUME NEW j \in 1..Len(s), NEW k \in 1..Len(s), j # k PROVE s[j] # s[k]
      OBVIOUS
    <3>2. CASE j = 1
      BY <2>6, <2>7, <3>1, <3>2
    <3>3. CASE k = 1
      BY <2>6, <2>7, <3>1, <3>3
    <3>4. CASE j # 1 /\ k # 1
      <4>1. /\ j - 1 \in 1..Len(q) /\ s[j] = q[j - 1]
            /\ k - 1 \in 1..Len(q) /\ s[k] = q[k - 1]
        BY <2>7, <3>4
      <4>2. j - 1 # k - 1
        OBVIOUS
      <4> QED
        BY <2>4, <4>1, <4>2
    <3> QED
      BY <3>2, <3>3, <3>4
  <2>10. BigBlocks' = B \cup {bb}
    <3>1. DOMAIN s = 1..Len(s)
      BY <2>6
    <3> QED
      BY <2>3, <2>8, <3>1 DEF BigBlocks
  <2>11. HeapCore(ring, BigBlocks, freePages, blocks)'
    BY <1>5, <1>9, <2>2, <2>10
  <2> QED
    BY <2>3, <2>6, <2>9, <2>11 DEF HeapInv
<1> QED
  BY <1>4, <1>7, <1>8, <1>9

LEMMA RemovedRan ==
    ASSUME NEW S, NEW q \in Seq(S), NEW k \in 1..Len(q),
           \A a, c \in 1..Len(q) : a # c => q[a] # q[c]
    PROVE  {RemoveAt(q, k)[j] : j \in 1..(Len(q) - 1)} = {q[j] : j \in 1..Len(q)} \ {q[k]}
<1>1. \A x : (\E j \in 1..(Len(q) - 1) : RemoveAt(q, k)[j] = x)
                <=> x # q[k] /\ \E j \in 1..Len(q) : q[j] = x
  BY RemovedRest
<1>2. PICK s : s = RemoveAt(q, k)
  OBVIOUS
<1>3. \A x : x \in {s[j] : j \in 1..(Len(q) - 1)} <=> x \in {q[j] : j \in 1..Len(q)} \ {q[k]}
  BY <1>1, <1>2
<1> QED
  BY <1>2, <1>3

LEMMA KfreeStep ==
    ASSUME KMallocAssumption, HeapInv, NEW x \in blocks, kfree(x) PROVE HeapInv'
<1>1. PICK r, f, bl, B, q :
        r = ring /\ f = freePages /\ bl = blocks /\ B = BigBlocks /\ q = bigblocks
  OBVIOUS
<1>2. /\ HeapCore(r, B, f, bl)
      /\ q \in Seq(BigBlockT) /\ B = {q[j] : j \in 1..Len(q)}
      /\ \A j, l \in 1..Len(q) : j # l => q[j] # q[l]
  BY <1>1 DEF HeapInv, BigBlocks
<1> DEFINE I == {j \in 1..Len(q) : q[j].pages = x.addr}
<1>3. PICK k : k = IF I # {} THEN Min(I) ELSE 0
  OBVIOUS
<1>4. SelectInSeq(bigblocks, LAMBDA bb : bb.pages = x.addr) = k
  BY <1>1, <1>3 DEF SelectInSeq
<1>5. /\ blocks' = blocks \ {x}
      /\ IF x.addr % PageUnits = 0 /\ k # 0
         THEN LET bb == bigblocks[k]
                  p  == bb.pages \div PageUnits
              IN  /\ bigblocks' = RemoveAt(bigblocks, k)
                  /\ freePages' = freePages \cup (p..(p + 2^bb.order - 1))
                  /\ ring' = slob_free(ring, bb.at, SLOB_UNITS(BIGBLOCK))
         ELSE /\ ring' = slob_free(ring, x.addr - 1, SLOB_UNITS(x.size + SLOB_UNIT))
              /\ UNCHANGED <<bigblocks, freePages>>
  BY <1>4 DEF kfree
<1>6. CASE I = {}
  <2>1. \A bb \in B : bb.pages # x.addr
    BY <1>2, <1>6
  <2>2. HeapCore(slob_free(r, x.addr - 1, SLOB_UNITS(x.size + SLOB_UNIT)), B, f, bl \ {x})
    BY <1>1, <1>2, <2>1, SmallFreed
  <2>3. k = 0
    BY <1>3, <1>6
  <2> QED
    BY <1>1, <1>2, <1>5, <2>2, <2>3 DEF HeapInv, BigBlocks
<1>7. CASE I # {}
  <2>1. I \subseteq Nat
    OBVIOUS
  <2>2. Min(I) \in I /\ \A y \in I : Min(I) <= y
    <3> HIDE DEF I
    <3> QED
      BY <1>7, <2>1, MinLeast
  <2>3. k \in 1..Len(q) /\ q[k].pages = x.addr /\ k # 0
    <3>1. k \in I
      BY <1>3, <1>7, <2>2
    <3> QED
      BY <3>1
  <2> HIDE DEF I
  <2>4. PICK bb \in B : bb = q[k] /\ bb.pages = x.addr
    BY <1>2, <2>3
  <2>5. bb \in BigBlockT
    BY <1>2 DEF HeapCore
  <2>6. x.addr % PageUnits = 0
    BY <2>4, <2>5, PagesUnits
  <2>7. PICK p : p = bb.pages \div PageUnits
    OBVIOUS
  <2>8. /\ bigblocks' = RemoveAt(q, k)
        /\ freePages' = f \cup (p..(p + 2^bb.order - 1))
        /\ ring' = slob_free(r, bb.at, SLOB_UNITS(BIGBLOCK))
    BY <1>1, <1>5, <2>3, <2>4, <2>6, <2>7
  <2>9. HeapCore(slob_free(r, bb.at, SLOB_UNITS(BIGBLOCK)), B \ {bb},
                 f \cup (p..(p + 2^bb.order - 1)), bl \ {x})
    BY <1>1, <1>2, <2>4, <2>7, BigFreed
  <2>10. PICK s : s = RemoveAt(q, k)
    OBVIOUS
  <2>11. /\ s \in Seq(BigBlockT) /\ Len(s) = Len(q) - 1
         /\ \A j \in 1..(Len(q) - 1) : s[j] = IF j < k THEN q[j] ELSE q[j + 1]
    BY <1>2, <2>3, <2>10, Removed
  <2>12. {RemoveAt(q, k)[j] : j \in 1..(Len(q) - 1)} = {q[j] : j \in 1..Len(q)} \ {q[k]}
    BY <1>2, <2>3, RemovedRan
  <2>13. {s[j] : j \in 1..Len(s)} = B \ {bb}
    BY <1>2, <2>4, <2>10, <2>11, <2>12
  <2>14. \A j, l \in 1..Len(s) : j # l => s[j] # s[l]
    <3> SUFFICES ASSUME NEW j \in 1..Len(s), NEW l \in 1..Len(s), j # l PROVE s[j] # s[l]
      OBVIOUS
    <3>1. Len(q) \in Nat
      BY <1>2
    <3>2. PICK c \in 1..Len(q), d \in 1..Len(q) :
            /\ c = IF j < k THEN j ELSE j + 1
            /\ d = IF l < k THEN l ELSE l + 1
      BY <2>11, <3>1
    <3>3. s[j] = q[c] /\ s[l] = q[d]
      BY <2>11, <3>1, <3>2
    <3>4. c # d
      BY <2>3, <3>1, <3>2
    <3> QED
      BY <1>2, <3>3, <3>4
  <2>15. BigBlocks' = B \ {bb}
    <3>1. DOMAIN s = 1..Len(s) /\ s = bigblocks'
      BY <2>8, <2>10, <2>11
    <3> QED
      BY <2>13, <3>1 DEF BigBlocks
  <2>16. HeapCore(ring, BigBlocks, freePages, blocks)'
    BY <1>1, <1>5, <2>8, <2>9, <2>15
  <2> QED
    BY <2>8, <2>10, <2>11, <2>14, <2>16 DEF HeapInv
<1> QED
  BY <1>6, <1>7

LEMMA HeapNextInv ==
    ASSUME KMallocAssumption, HeapInv, [HeapNext]_heap_vars PROVE HeapInv'
<1>1. ASSUME NEW bytes \in Sizes, kmalloc_small(bytes) \/ kmalloc_big(bytes) PROVE HeapInv'
  BY <1>1, KmallocSmallStep, KmallocBigStep
<1>2. ASSUME NEW x \in blocks, kfree(x) PROVE HeapInv'
  BY <1>2, KfreeStep
<1>3. ASSUME UNCHANGED heap_vars PROVE HeapInv'
  BY <1>3 DEF heap_vars, HeapInv, BigBlocks
<1> QED
  BY <1>1, <1>2, <1>3 DEF HeapNext

-----------------------------------------------------------------------------
(* What the invariant means for clients of the heap.                       *)
LEMMA HeapInvRing == ASSUME HeapInv PROVE RingOK
<1>1. RingInv(ring)
  BY DEF HeapInv, HeapCore
<1>2. ring.slobfree \in DOMAIN ring.next
  BY <1>1 DEF RingInv, Heads
<1>3. ASSUME NEW b \in DOMAIN ring.next, NEW later,
             later = {c \in DOMAIN ring.next : c > b}
      PROVE  /\ ring.next[b] = IF later = {} THEN arena ELSE Min(later)
             /\ later # {} => b + ring.units[b] < ring.next[b]
  <2>1. PICK r : r = ring
    OBVIOUS
  <2>2. RingInv(r) /\ b \in Heads(r) /\ later = {c \in Heads(r) : c > b}
    BY <1>1, <1>3, <2>1 DEF Heads
  <2>3. /\ b \in Int /\ b >= arena /\ arena \in Int
        /\ r.next[b] \in Heads(r) /\ r.next[b] \in Int /\ r.units[b] \in Nat
    BY <2>2, HeadTypes
  <2>4. \A c \in Heads(r) : c \in Int
    BY <2>2, HeadTypes
  <2>5. CASE r.next[b] = arena /\ \A c \in Heads(r) : c <= b
    <3>1. later = {}
      BY <2>2, <2>3, <2>4, <2>5
    <3> QED
      BY <2>1, <2>5, <3>1
  <2>6. CASE /\ b + r.units[b] < r.next[b]
             /\ \A c \in Heads(r) : c <= b \/ c >= r.next[b]
    <3>1. r.next[b] \in later
      BY <2>2, <2>3, <2>6
    <3>2. \A c \in later : c \in Nat /\ c >= r.next[b]
      <4>1. \A c \in Heads(r) : c > b => c \in Nat
        BY <2>2, <2>3, HeadTypes
      <4> QED
        BY <2>2, <2>3, <2>4, <2>6, <4>1
    <3>3. Min(later) \in later /\ \A y \in later : Min(later) <= y
      <4>1. later \subseteq Nat /\ later # {}
        BY <3>1, <3>2
      <4> QED
        BY <4>1, MinLeast
    <3>4. Min(later) = r.next[b]
      <4>1. PICK m \in later : m = Min(later) /\ m <= r.next[b]
        BY <3>1, <3>3
      <4>2. m \in Nat /\ m >= r.next[b]
        BY <3>2
      <4> QED
        BY <2>3, <4>1, <4>2
    <3> QED
      BY <2>1, <2>6, <3>1, <3>4
  <2> QED
    BY <2>2, <2>5, <2>6 DEF RingInv, Follows
<1> QED
  BY <1>2, <1>3 DEF RingOK

LEMMA HeapInvUnits ==
    ASSUME KMallocAssumption, HeapInv PROVE NoOverlap
<1>1. PICK r, B, S : r = ring /\ B = BigBlocks /\ S = SmallBlocks
  OBVIOUS
<1> DEFINE O == Others(S, B)
<1>2. /\ RingInv(r)
      /\ Split(FreeUnits(r), O, PageSet(AllPages \ freePages) \cup {arena})
  BY <1>1 DEF HeapInv, HeapCore, SmallBlocks, SmallOf
<1>3. Uses = ({"free"} \X Heads(r)) \cup O
  BY <1>1, <1>2 DEF Uses, Others, RingInv
<1>4. \A o \in O : Units(o) = OtherUnits(o)
  BY DEF Others, Units, OtherUnits
<1>5. ASSUME NEW h \in Heads(r)
      PROVE  Units(<<"free", h>>) = Span(h, r.units[h])
  BY <1>1 DEF Units
<1>6. \A h \in Heads(r) : /\ h \in Int /\ r.units[h] \in Nat
                          /\ \A u : u \in Span(h, r.units[h]) <=>
                                      u \in Int /\ h <= u /\ u < h + r.units[h]
  BY <1>2, HeadTypes, InSpan
<1>7. Taken = PageSet(AllPages \ freePages)
  <2>1. \A p \in AllPages : p \in Nat
    BY DEF AllPages, KMallocAssumption
  <2>2. \A p \in AllPages : \A u : u \in Span(p * PageUnits, PageUnits) <=> u \in PageSet({p})
    BY <2>1, PageOf
  <2> QED
    BY <2>2 DEF Taken, AllPages, PageSet
<1>8. \A u : u \in FreeUnits(r) <=> \E h \in Heads(r) : u \in Units(<<"free", h>>)
  BY <1>5, <1>6 DEF FreeUnits
<1>9. UNION {Units(use) : use \in Uses} = Taken \cup {arena}
  <2>1. \A u : u \in UNION {Units(use) : use \in Uses}
                 <=> u \in FreeUnits(r) \/ \E o \in O : u \in OtherUnits(o)
    <3> TAKE u
    <3>1. ASSUME NEW use \in Uses, u \in Units(use)
          PROVE  u \in FreeUnits(r) \/ \E o \in O : u \in OtherUnits(o)
      <4>1. CASE use \in O
        BY <1>4, <3>1, <4>1
      <4>2. CASE use \notin O
        <5>1. PICK h \in Heads(r) : use = <<"free", h>>
          BY <1>3, <4>2
        <5> QED
          BY <1>8, <3>1, <5>1
      <4> QED
        BY <4>1, <4>2
    <3>2. ASSUME u \in FreeUnits(r) PROVE \E use \in Uses : u \in Units(use)
      <4>1. PICK h \in Heads(r) : u \in Units(<<"free", h>>)
        BY <1>8, <3>2
      <4>2. <<"free", h>> \in Uses
        BY <1>3
      <4> QED
        BY <4>1, <4>2
    <3>3. ASSUME NEW o \in O, u \in OtherUnits(o) PROVE \E use \in Uses : u \in Units(use)
      <4>1. o \in Uses
        BY <1>3
      <4> QED
        BY <1>4, <3>3, <4>1
    <3> QED
      BY <3>1, <3>2, <3>3
  <2> QED
    BY <1>2, <1>7, <2>1 DEF Split
<1>10. ASSUME NEW s \in Uses, NEW t \in Uses, NEW u \in Units(s), u \in Units(t)
       PROVE  s = t
  <2>1. CASE s \in O /\ t \in O
    BY <1>2, <1>4, <1>10, <2>1 DEF Split
  <2>2. CASE s \in O /\ t \notin O
    BY <1>2, <1>3, <1>4, <1>8, <1>10, <2>2 DEF Split
  <2>3. CASE s \notin O /\ t \in O
    BY <1>2, <1>3, <1>4, <1>8, <1>10, <2>3 DEF Split
  <2>4. CASE s \notin O /\ t \notin O
    <3>1. PICK h \in Heads(r), g \in Heads(r) : s = <<"free", h>> /\ t = <<"free", g>>
      BY <1>3, <2>4
    <3>2. u \in Int /\ h <= u /\ u < h + r.units[h] /\ g <= u /\ u < g + r.units[g]
      BY <1>5, <1>6, <1>10, <3>1
    <3>3. h \in Int /\ g \in Int /\ r.units[h] \in Nat /\ r.units[g] \in Nat
      BY <1>6
    <3>4. (h < g => h + r.units[h] < g) /\ (g < h => g + r.units[g] < h)
      BY <1>2, HeadsApart
    <3>5. h = g
      BY <3>2, <3>3, <3>4
    <3> QED
      BY <3>1, <3>5
  <2> QED
    BY <2>1, <2>2, <2>3, <2>4
<1> QED
  BY <1>9, <1>10 DEF NoOverlap

(* Blocks of the kernel heap never overlap, every unit of every page that  *)
(* the heap has taken is free, in a client's block or in a bigblock_t, and *)
(* the ring of free blocks is in order and joined (kmalloc.c), for any     *)
(* memory, any sizes that callers ask for and any sequence of calls.       *)
THEOREM HeapCorrect == ASSUME KMallocAssumption PROVE HeapSpec => []HeapOK
<1>1. HeapInit => HeapInv
  BY HeapInitInv
<1>2. HeapInv /\ [HeapNext]_heap_vars => HeapInv'
  BY HeapNextInv
<1>3. HeapInv => HeapOK
  <2>1. HeapInv => BigEnough
    BY DEF HeapInv, HeapCore, BigEnough
  <2> QED
    BY <2>1, HeapInvRing, HeapInvUnits DEF HeapOK
<1> QED
  BY <1>1, <1>2, <1>3, PTL DEF HeapSpec

-----------------------------------------------------------------------------
(* Swapping.                                                               *)
Slots == {swap_entry(v) : v \in VPages}

(* The frames in the replacement list.                                     *)
InList(f) == \E k \in DOMAIN pra_list : pra_list[k] = f

SwapTypeOK ==
    /\ pra_list \in Seq(Frames)
    /\ pra_vaddr \in [Frames -> VPages \cup {0}]
    /\ pte \in [VPages -> [kind : {"empty", "present", "swapped"}, at : Int]]
    /\ data \in [Frames -> Values \cup {Junk}]
    /\ disk \in [Slots -> Values \cup {Junk}]
    /\ tlb \in [VPages -> Frames \cup {NoFrame}]
    /\ pos \in Nat

(* Page table, list and swap slots name each other.                        *)
PagesOK ==
    \A v \in VPages :
        /\ pte[v].kind = "present" => InList(pte[v].at) /\ pra_vaddr[pte[v].at] = v
        /\ pte[v].kind = "swapped" => pte[v].at = swap_entry(v)

FramesListed ==
    /\ \A k, l \in DOMAIN pra_list : pra_list[k] = pra_list[l] => k = l
    /\ \A k \in DOMAIN pra_list :
          /\ pra_vaddr[pra_list[k]] \in VPages
          /\ pte[pra_vaddr[pra_list[k]]] = Present(pra_list[k])
    /\ \A f : f \in free <=> f \in Pool /\ ~InList(f)
    /\ \A f : InList(f) => f \in Pool

(* The processor keeps no translation that the page table does not have.   *)
Coherent ==
    \A v \in VPages : tlb[v] # NoFrame => pte[v] = Present(tlb[v])

(* A page fault is handled for a page that is not present.                 *)
AccessOK ==
    access # NoAccess =>
        /\ access.page \in VPages /\ access.write \in BOOLEAN
        /\ access.write => access.value \in Values
        /\ pte[access.page].kind # "present"
        /\ tlb[access.page] = NoFrame

(* The inductive invariant.                                                *)
SwapInv ==
    /\ SwapTypeOK
    /\ PagesOK
    /\ FramesListed
    /\ Coherent
    /\ AccessOK

-----------------------------------------------------------------------------
(* What a touched page holds, in its frame or in its slot.                 *)
Touched == {v \in VPages : pte[v].kind # "empty"}

Content(v) == IF pte[v].kind = "present" THEN data[pte[v].at] ELSE disk[swap_entry(v)]

(* What a step may do to the contents of the pages: nothing, or one page   *)
(* is touched, which then holds what was written or, if it was touched     *)
(* before, what it held.                                                   *)
Quiet ==
    /\ Touched' = Touched
    /\ \A w \in Touched : Content(w)' = Content(w)

Touches(v) ==
    /\ Touched' = Touched \cup {v}
    /\ \A w \in Touched \ {v} : Content(w)' = Content(w)
    /\ \/ Content(v)' \in Values
       \/ v \in Touched => Content(v)' = Content(v)

Effect == Quiet \/ \E v \in VPages : Touches(v)

-----------------------------------------------------------------------------
(* The first free frame is one of them.                                    *)
LEMMA MinIn ==
    ASSUME NEW S, S \subseteq Nat, S # {}
    PROVE  Min(S) \in S
<1> DEFINE R == OpToRel(<, Nat)
<1>1. \E x \in S : \A y \in S : ~(<<y, x>> \in R)
  BY WFMin, NatLessThanWellFounded
<1>2. \A x, y \in S : <<y, x>> \in R <=> y < x
  BY DEF OpToRel
<1> HIDE DEF R
<1>3. \E x \in S : \A y \in S : x <= y
  <2>1. PICK x \in S : \A y \in S : ~(<<y, x>> \in R)
    BY <1>1
  <2>2. ASSUME NEW y \in S PROVE x <= y
    <3>1. ~(y < x)
      BY <1>2, <2>1
    <3>2. x \in Nat /\ y \in Nat
      OBVIOUS
    <3> QED
      BY <3>1, <3>2
  <2> QED
    BY <2>2
<1> QED
  BY <1>3 DEF Min

(* A page joins the list at its head.                                      *)
LEMMA Pushed ==
    ASSUME NEW S, NEW q \in Seq(S), NEW x \in S
    PROVE  /\ <<x>> \o q \in Seq(S)
           /\ Len(<<x>> \o q) = Len(q) + 1
           /\ DOMAIN (<<x>> \o q) = 1..(Len(q) + 1)
           /\ (<<x>> \o q)[1] = x
           /\ \A k \in 2..(Len(q) + 1) : (<<x>> \o q)[k] = q[k - 1]
OBVIOUS

(* The oldest page leaves it at its tail.                                  *)
LEMMA DroppedLast ==
    ASSUME NEW S, NEW q \in Seq(S), q # <<>>
    PROVE  /\ RemoveAt(q, Len(q)) \in Seq(S)
           /\ Len(RemoveAt(q, Len(q))) = Len(q) - 1
           /\ DOMAIN RemoveAt(q, Len(q)) = 1..(Len(q) - 1)
           /\ \A k \in 1..(Len(q) - 1) : RemoveAt(q, Len(q))[k] = q[k]
<1>1. PICK n \in 1..Len(q) : n = Len(q) /\ Len(q) \in Nat
  OBVIOUS
<1> DEFINE a == SubSeq(q, 1, n - 1)
<1>2. SubSeq(q, n + 1, Len(q)) = <<>>
  BY <1>1
<1>3. /\ a \in Seq(S)
      /\ Len(a) = n - 1
      /\ \A k \in 1..(n - 1) : a[k] = q[k]
  OBVIOUS
<1>4. RemoveAt(q, n) = a \o <<>>
  BY <1>2 DEF RemoveAt
<1> HIDE DEF a
<1>5. a \o <<>> = a
  BY <1>3
<1> QED
  BY <1>1, <1>3, <1>4, <1>5

(* The frames of a run are some of the frames, and NoFrame is none.        *)
LEMMA Frame ==
    ASSUME SwapAssumption
    PROVE  /\ nframe \in Nat /\ Frames \subseteq Nat /\ NoFrame \notin Frames
           /\ Pool \subseteq Frames
           /\ VPages \subseteq Nat
BY DEF SwapAssumption, Frames, NoFrame, Pool

(* A page that is present is in a frame of its own.                        *)
LEMMA OwnFrame ==
    ASSUME SwapAssumption, SwapInv, NEW v \in VPages, pte[v].kind = "present"
    PROVE  /\ pte[v].at \in Frames
           /\ pte[v] = Present(pte[v].at)
           /\ \A w \in VPages \ {v} : pte[w].kind = "present" => pte[w].at # pte[v].at
<1>1. InList(pte[v].at) /\ pra_vaddr[pte[v].at] = v
  BY DEF SwapInv, PagesOK
<1>2. pte[v].at \in Frames
  BY <1>1 DEF InList, SwapInv, SwapTypeOK
<1>3. pte[v] = Present(pte[v].at)
  <2>1. pte[v] \in [kind : {"empty", "present", "swapped"}, at : Int]
    BY DEF SwapInv, SwapTypeOK
  <2> QED
    BY <2>1 DEF Present
<1> QED
  BY <1>1, <1>2, <1>3 DEF SwapInv, PagesOK

(* Reads go to the frame or to the slot, also through the processor's      *)
(* translations.                                                           *)
LEMMA MemoryIs ==
    ASSUME SwapAssumption, SwapInv
    PROVE  Memory = [v \in Touched |-> Content(v)]
<1>1. ASSUME NEW v \in VPages, pte[v].kind # "empty"
      PROVE  Memory[v] = Content(v)
  <2>1. CASE tlb[v] # NoFrame
    <3>1. pte[v] = Present(tlb[v])
      BY <2>1 DEF SwapInv, Coherent
    <3> QED
      BY <1>1, <2>1, <3>1 DEF Memory, Content, Present
  <2>2. CASE tlb[v] = NoFrame /\ pte[v].kind = "present"
    BY <1>1, <2>2 DEF Memory, Content
  <2>3. CASE tlb[v] = NoFrame /\ pte[v].kind # "present"
    <3>1. pte[v].kind = "swapped"
      BY <1>1, <2>3 DEF SwapInv, SwapTypeOK
    <3>2. pte[v].at = swap_entry(v)
      BY <3>1 DEF SwapInv, PagesOK
    <3> QED
      BY <1>1, <2>3, <3>2 DEF Memory, Content
  <2> QED
    BY <2>1, <2>2, <2>3
<1>2. Memory = [v \in Touched |-> Memory[v]]
  BY DEF Memory, Touched
<1> QED
  BY <1>1, <1>2 DEF Touched

LEMMA SwapInitInv ==
    ASSUME SwapAssumption, SwapInit
    PROVE  SwapInv
<1>1. DOMAIN pra_list = {} /\ pra_list \in Seq(Frames)
  BY DEF SwapInit
<1>2. SwapTypeOK
  BY <1>1 DEF SwapInit, SwapTypeOK, Empty, Slots
<1>3. \A v \in VPages : pte[v].kind = "empty" /\ tlb[v] = NoFrame
  BY DEF SwapInit, Empty
<1>4. PagesOK /\ Coherent
  BY <1>3 DEF PagesOK, Coherent
<1>5. FramesListed
  BY <1>1 DEF SwapInit, FramesListed, InList
<1>6. AccessOK
  BY DEF SwapInit, AccessOK
<1> QED
  BY <1>2, <1>4, <1>5, <1>6 DEF SwapInv

-----------------------------------------------------------------------------
Accesses ==
    [page : VPages, write : {TRUE}, value : Values]
      \cup [page : VPages, write : {FALSE}, value : {Junk}]

(* The position in check_swap's accesses advances; the pool stays.         *)
LEMMA SamePool ==
    ASSUME SwapInv, pos' = NextPos \/ pos' = pos
    PROVE  Pool' = Pool /\ pos' \in Nat
BY DEF SwapInv, SwapTypeOK, NextPos, Pool

(* Steps that leave the page table and the list alone keep them right.     *)
LEMMA SameTables ==
    ASSUME SwapInv, UNCHANGED <<free, pte, pra_list, pra_vaddr>>, Pool' = Pool
    PROVE  PagesOK' /\ FramesListed' /\ Touched' = Touched
<1>1. \A f : InList(f)' <=> InList(f)
  BY DEF InList
<1>2. PagesOK' /\ Touched' = Touched
  BY <1>1 DEF SwapInv, PagesOK, Touched
<1>3. FramesListed'
  BY <1>1 DEF SwapInv, FramesListed
<1> QED
  BY <1>2, <1>3

(* An access that finds the page in memory.                                *)
LEMMA HitStep ==
    ASSUME SwapAssumption, SwapInv, NEW a \in Accesses, Hit(a)
    PROVE  SwapInv' /\ Effect
<1>1. /\ access = NoAccess /\ pos' = NextPos
      /\ UNCHANGED <<free, pte, pra_list, pra_vaddr, disk, access>>
  BY DEF Hit
<1>2. PICK v \in VPages : v = a.page
  BY DEF Accesses
<1>3. PICK f \in Frames : pte[v] = Present(f) /\ Perform(a, f)
  <2>1. CASE tlb[v] # NoFrame
    <3>1. Perform(a, tlb[v])
      BY <1>2, <2>1 DEF Hit
    <3> QED
      BY <2>1, <3>1 DEF SwapInv, Coherent, SwapTypeOK
  <2>2. CASE tlb[v] = NoFrame
    <3>1. pte[v].kind = "present" /\ Perform(a, pte[v].at)
      BY <1>2, <2>2 DEF Hit
    <3> QED
      BY <3>1, OwnFrame
  <2> QED
    BY <2>1, <2>2
<1>4. /\ data' = IF a.write THEN [data EXCEPT ![f] = a.value] ELSE data
      /\ tlb' = [tlb EXCEPT ![v] = f]
      /\ a.write \in BOOLEAN
      /\ a.write => a.value \in Values
  BY <1>2, <1>3 DEF Perform, Accesses
<1>5. pte[v].kind = "present" /\ pte[v].at = f /\ v \in Touched
  BY <1>3 DEF Present, Touched
<1>6. data' \in [Frames -> Values \cup {Junk}]
      /\ \A g \in Frames \ {f} : data'[g] = data[g]
      /\ data'[f] = IF a.write THEN a.value ELSE data[f]
  BY <1>4 DEF SwapInv, SwapTypeOK
<1>7. tlb' \in [VPages -> Frames \cup {NoFrame}]
      /\ tlb'[v] = f /\ \A w \in VPages \ {v} : tlb'[w] = tlb[w]
  BY <1>4 DEF SwapInv, SwapTypeOK
<1>8. Pool' = Pool /\ pos' \in Nat
  BY <1>1, SamePool
<1>9. PagesOK' /\ FramesListed' /\ Touched' = Touched
  BY <1>1, <1>8, SameTables
<1>10. SwapTypeOK'
  BY <1>1, <1>6, <1>7, <1>8 DEF SwapInv, SwapTypeOK
<1>11. Coherent'
  BY <1>1, <1>3, <1>7 DEF SwapInv, Coherent
<1>12. AccessOK'
  BY <1>1 DEF AccessOK
<1>13. ASSUME NEW w \in Touched \ {v} PROVE Content(w)' = Content(w)
  <2>1. w \in VPages /\ pte'[w] = pte[w] /\ disk' = disk
    BY <1>1 DEF Touched
  <2>2. CASE pte[w].kind = "present"
    <3>1. pte[w].at \in Frames \ {f}
      BY <1>5, <2>1, <2>2, OwnFrame
    <3> QED
      BY <1>6, <2>1, <2>2, <3>1 DEF Content
  <2>3. CASE pte[w].kind # "present"
    BY <2>1, <2>3 DEF Content
  <2> QED
    BY <2>2, <2>3
<1>14. Content(v) = data[f] /\ Content(v)' = data'[f]
  BY <1>1, <1>5 DEF Content
<1>15. Touches(v)
  <2>1. Touched' = Touched \cup {v}
    BY <1>5, <1>9
  <2>2. \/ Content(v)' \in Values
        \/ Content(v)' = Content(v)
    BY <1>4, <1>6, <1>14
  <2> QED
    BY <1>13, <2>1, <2>2 DEF Touches
<1> QED
  BY <1>9, <1>10, <1>11, <1>12, <1>15 DEF SwapInv, Effect

(* Steps that change neither tables nor contents.                          *)
LEMMA QuietStep ==
    ASSUME SwapInv, UNCHANGED <<free, pte, pra_list, pra_vaddr, data, disk>>,
           pos' = NextPos \/ pos' = pos,
           Coherent', AccessOK',
           tlb' \in [VPages -> Frames \cup {NoFrame}]
    PROVE  SwapInv' /\ Effect
<1>1. Pool' = Pool /\ pos' \in Nat
  BY SamePool
<1>2. PagesOK' /\ FramesListed' /\ Touched' = Touched
  BY <1>1, SameTables
<1>3. SwapTypeOK'
  BY <1>1 DEF SwapInv, SwapTypeOK
<1>4. \A w \in Touched : Content(w)' = Content(w)
  BY DEF Content
<1> QED
  BY <1>2, <1>3, <1>4 DEF SwapInv, Effect, Quiet

(* An access that raises a page fault.                                     *)
LEMMA FaultStep ==
    ASSUME SwapAssumption, SwapInv, NEW a \in Accesses, Fault(a)
    PROVE  SwapInv' /\ Effect
<1>1. /\ UNCHANGED <<free, pte, pra_list, pra_vaddr, data, disk, tlb, pos>>
      /\ access' = a /\ tlb[a.page] = NoFrame /\ pte[a.page].kind # "present"
  BY DEF Fault
<1>2. a.page \in VPages /\ a.write \in BOOLEAN /\ (a.write => a.value \in Values)
  BY DEF Accesses
<1>3. Coherent' /\ tlb' \in [VPages -> Frames \cup {NoFrame}]
  BY <1>1 DEF SwapInv, Coherent, SwapTypeOK
<1>4. AccessOK'
  BY <1>1, <1>2 DEF AccessOK
<1> QED
  BY <1>1, <1>3, <1>4, QuietStep

(* The processor drops a translation.                                      *)
LEMMA EvictStep ==
    ASSUME SwapAssumption, SwapInv, NEW v \in VPages, Evict(v)
    PROVE  SwapInv' /\ Effect
<1>1. /\ UNCHANGED <<free, pte, pra_list, pra_vaddr, data, disk, access, pos>>
      /\ tlb' = [tlb EXCEPT ![v] = NoFrame]
  BY DEF Evict
<1>2. tlb' \in [VPages -> Frames \cup {NoFrame}]
      /\ tlb'[v] = NoFrame /\ \A w \in VPages \ {v} : tlb'[w] = tlb[w]
  BY <1>1 DEF SwapInv, SwapTypeOK
<1>3. Coherent'
  BY <1>1, <1>2 DEF SwapInv, Coherent
<1>4. AccessOK'
  BY <1>1, <1>2 DEF SwapInv, AccessOK
<1> QED
  BY <1>1, <1>2, <1>3, <1>4, QuietStep

LEMMA StutterStep ==
    ASSUME SwapAssumption, SwapInv, UNCHANGED swap_vars
    PROVE  SwapInv' /\ Effect
<1>1. UNCHANGED <<free, pte, pra_list, pra_vaddr, data, disk, tlb, access, pos>>
  BY DEF swap_vars
<1>2. Coherent' /\ tlb' \in [VPages -> Frames \cup {NoFrame}]
  BY <1>1 DEF SwapInv, Coherent, SwapTypeOK
<1>3. AccessOK'
  BY <1>1 DEF SwapInv, AccessOK
<1> QED
  BY <1>1, <1>2, <1>3, QuietStep

-----------------------------------------------------------------------------
(* swap_out moves the oldest page to its slot: the frame is free, and the  *)
(* contents are where the page table says.                                 *)
LEMMA SwapOutStep ==
    ASSUME SwapAssumption, SwapInv, swap_out
    PROVE  SwapInv' /\ Effect
<1>1. PICK n \in 1..Len(pra_list) : n = Len(pra_list) /\ Len(pra_list) \in Nat
  BY DEF swap_out, SwapInv, SwapTypeOK
<1>2. PICK f \in Frames : f = pra_list[n]
  BY DEF SwapInv, SwapTypeOK
<1>3. DOMAIN pra_list = 1..n /\ pra_list \in Seq(Frames) /\ pra_list # <<>>
  BY <1>1 DEF swap_out, SwapInv, SwapTypeOK
<1>4. PICK v \in VPages : v = pra_vaddr[f] /\ pte[v] = Present(f)
  BY <1>2, <1>3 DEF SwapInv, FramesListed
<1>5. /\ disk' = [disk EXCEPT ![swap_entry(v)] = data[f]]
      /\ pte' = [pte EXCEPT ![v] = Swapped(swap_entry(v))]
      /\ free' = free \cup {f}
      /\ pra_list' = RemoveAt(pra_list, n)
      /\ tlb' = [tlb EXCEPT ![v] = NoFrame]
      /\ UNCHANGED <<pra_vaddr, data, access, pos>>
  BY <1>1, <1>2, <1>4 DEF swap_out, swap_out_victim, tlb_invalidate
<1>6. pte[v].kind = "present" /\ pte[v].at = f
  BY <1>4 DEF Present
<1>7. /\ pra_list' \in Seq(Frames)
      /\ DOMAIN pra_list' = 1..(n - 1)
      /\ \A k \in 1..(n - 1) : pra_list'[k] = pra_list[k]
  BY <1>1, <1>3, <1>5, DroppedLast
<1>8. \A g : InList(g)' <=> InList(g) /\ g # f
  <2> TAKE g
  <2>1. ASSUME NEW k \in 1..(n - 1) PROVE pra_list[k] # f /\ k \in 1..n
    BY <1>1, <1>2, <1>3 DEF SwapInv, FramesListed
  <2>2. \A k \in 1..n : k \in 1..(n - 1) \/ k = n
    BY <1>1
  <2> QED
    BY <1>2, <1>3, <1>7, <2>1, <2>2 DEF InList
<1>9. swap_entry(v) \in Slots /\ \A w \in VPages : swap_entry(w) = swap_entry(v) => w = v
  BY Frame DEF Slots, swap_entry
<1>10. /\ pte' \in [VPages -> [kind : {"empty", "present", "swapped"}, at : Int]]
       /\ pte'[v].kind = "swapped" /\ pte'[v].at = swap_entry(v)
       /\ \A w \in VPages \ {v} : pte'[w] = pte[w]
  <2>1. pte \in [VPages -> [kind : {"empty", "present", "swapped"}, at : Int]]
    BY DEF SwapInv, SwapTypeOK
  <2>2. Swapped(swap_entry(v)) \in [kind : {"empty", "present", "swapped"}, at : Int]
    BY Frame DEF Swapped, swap_entry
  <2>3. /\ Swapped(swap_entry(v)).kind = "swapped"
        /\ Swapped(swap_entry(v)).at = swap_entry(v)
    BY DEF Swapped
  <2> HIDE DEF Swapped
  <2> QED
    BY <1>5, <2>1, <2>2, <2>3
<1>11. /\ disk' \in [Slots -> Values \cup {Junk}]
       /\ disk'[swap_entry(v)] = data[f]
       /\ \A s \in Slots \ {swap_entry(v)} : disk'[s] = disk[s]
  <2>1. disk \in [Slots -> Values \cup {Junk}] /\ data[f] \in Values \cup {Junk}
    BY DEF SwapInv, SwapTypeOK
  <2> QED
    BY <1>5, <1>9, <2>1
<1>12. /\ tlb' \in [VPages -> Frames \cup {NoFrame}]
       /\ tlb'[v] = NoFrame
       /\ \A w \in VPages \ {v} : tlb'[w] = tlb[w]
  BY <1>5 DEF SwapInv, SwapTypeOK
<1>13. Pool' = Pool
  BY <1>5 DEF Pool
<1>14. SwapTypeOK'
  BY <1>5, <1>7, <1>10, <1>11, <1>12 DEF SwapInv, SwapTypeOK
<1>15. PagesOK'
  <2>1. ASSUME NEW w \in VPages, NEW g, g = pte'[w].at
        PROVE  /\ pte'[w].kind = "present" => InList(g)' /\ pra_vaddr'[g] = w
               /\ pte'[w].kind = "swapped" => g = swap_entry(w)
    <3>1. CASE w = v
      BY <1>10, <2>1, <3>1
    <3>2. CASE w # v
      <4>1. pte'[w] = pte[w] /\ pra_vaddr' = pra_vaddr
        BY <1>5, <1>10, <3>2
      <4>2. /\ pte[w].kind = "swapped" => pte[w].at = swap_entry(w)
            /\ pte[w].kind = "present" => InList(pte[w].at) /\ pra_vaddr[pte[w].at] = w
        BY DEF SwapInv, PagesOK
      <4>3. g = pte[w].at
        BY <2>1, <4>1
      <4>4. pte[w].kind = "present" => InList(g) /\ g # f
        BY <1>4, <3>2, <4>2, <4>3
      <4> QED
        BY <1>8, <4>1, <4>2, <4>3, <4>4
    <3> QED
      BY <3>1, <3>2
  <2> QED
    BY <2>1 DEF PagesOK, InList, swap_entry
<1>16. FramesListed'
  <2>1. \A k, l \in 1..(n - 1) : pra_list'[k] = pra_list'[l] => k = l
    BY <1>1, <1>3, <1>7 DEF SwapInv, FramesListed
  <2>2. ASSUME NEW k \in 1..(n - 1)
        PROVE  /\ pra_vaddr'[pra_list'[k]] \in VPages
               /\ pte'[pra_vaddr'[pra_list'[k]]] = Present(pra_list'[k])
    <3>1. /\ k \in 1..n /\ pra_list'[k] = pra_list[k] /\ pra_list[k] # f
      BY <1>1, <1>2, <1>3, <1>7 DEF SwapInv, FramesListed
    <3>2. /\ pra_vaddr[pra_list[k]] \in VPages
          /\ pte[pra_vaddr[pra_list[k]]] = Present(pra_list[k])
      BY <1>3, <3>1 DEF SwapInv, FramesListed
    <3>3. pra_vaddr[pra_list[k]] # v
      BY <1>4, <3>1, <3>2 DEF Present
    <3> QED
      BY <1>5, <1>10, <3>1, <3>2, <3>3
  <2>3. InList(f) /\ f \in Pool
    BY <1>2, <1>3 DEF InList, SwapInv, FramesListed
  <2>4. \A g : g \in free' <=> g \in Pool /\ ~InList(g)'
    BY <1>5, <1>8, <2>3 DEF SwapInv, FramesListed
  <2>5. \A g : InList(g)' => g \in Pool
    BY <1>8 DEF SwapInv, FramesListed
  <2> QED
    BY <1>7, <1>13, <2>1, <2>2, <2>4, <2>5 DEF FramesListed, Present
<1>17. Coherent'
  <2>1. ASSUME NEW w \in VPages, tlb'[w] # NoFrame PROVE pte'[w] = Present(tlb'[w])
    <3>1. w # v
      BY <1>12, <2>1
    <3> QED
      BY <1>10, <1>12, <2>1, <3>1 DEF SwapInv, Coherent
  <2> QED
    BY <2>1 DEF Coherent, Present, NoFrame
<1>18. AccessOK'
  <2>1. access # NoAccess
    BY DEF swap_out
  <2>2. /\ access.page \in VPages /\ access.write \in BOOLEAN
        /\ access.write => access.value \in Values
        /\ pte[access.page].kind # "present" /\ tlb[access.page] = NoFrame
    BY <2>1 DEF SwapInv, AccessOK
  <2>3. access.page # v
    BY <1>6, <2>2
  <2> QED
    BY <1>5, <1>10, <1>12, <2>2, <2>3 DEF AccessOK
<1>19. Touched' = Touched
  BY <1>6, <1>10 DEF Touched
<1>20. ASSUME NEW w \in Touched PROVE Content(w)' = Content(w)
  <2>1. w \in VPages
    BY DEF Touched
  <2>2. CASE w = v
    BY <1>6, <1>10, <1>11, <2>2 DEF Content, swap_entry
  <2>3. CASE w # v
    <3>1. swap_entry(w) \in Slots \ {swap_entry(v)}
      BY <1>9, <2>1, <2>3 DEF Slots
    <3>2. disk'[swap_entry(w)] = disk[swap_entry(w)] /\ pte'[w] = pte[w] /\ data' = data
      BY <1>5, <1>10, <1>11, <2>1, <2>3, <3>1
    <3> QED
      BY <3>2 DEF Content, swap_entry
  <2> QED
    BY <2>2, <2>3
<1> QED
  BY <1>14, <1>15, <1>16, <1>17, <1>18, <1>19, <1>20 DEF SwapInv, Effect, Quiet

(* A failed write leaves the page where it was, as the newest.             *)
LEMMA SwapOutFailedStep ==
    ASSUME SwapAssumption, SwapInv, swap_out_failed
    PROVE  SwapInv' /\ Effect
<1>1. PICK n \in 1..Len(pra_list) : n = Len(pra_list) /\ Len(pra_list) \in Nat
  BY DEF swap_out_failed, SwapInv, SwapTypeOK
<1>2. PICK f \in Frames : f = pra_list[n]
  BY DEF SwapInv, SwapTypeOK
<1>3. DOMAIN pra_list = 1..n /\ pra_list \in Seq(Frames) /\ pra_list # <<>>
  BY <1>1 DEF swap_out_failed, SwapInv, SwapTypeOK
<1>4. /\ pra_list' = <<f>> \o RemoveAt(pra_list, n)
      /\ UNCHANGED <<free, pte, pra_vaddr, data, disk, tlb, access, pos>>
  BY <1>1, <1>2 DEF swap_out_failed, swap_out_victim
<1>5. /\ pra_list' \in Seq(Frames)
      /\ DOMAIN pra_list' = 1..n
      /\ pra_list'[1] = f
      /\ \A k \in 2..n : pra_list'[k] = pra_list[k - 1]
  <2> DEFINE q == RemoveAt(pra_list, n)
  <2>1. /\ q \in Seq(Frames) /\ Len(q) = n - 1
        /\ \A k \in 1..(n - 1) : q[k] = pra_list[k]
    BY <1>1, <1>3, DroppedLast
  <2> HIDE DEF q
  <2>2. /\ <<f>> \o q \in Seq(Frames)
        /\ DOMAIN (<<f>> \o q) = 1..(Len(q) + 1)
        /\ (<<f>> \o q)[1] = f
        /\ \A k \in 2..(Len(q) + 1) : (<<f>> \o q)[k] = q[k - 1]
    BY <2>1, Pushed
  <2>3. pra_list' = <<f>> \o q /\ Len(q) + 1 = n
    BY <1>1, <1>4, <2>1 DEF q
  <2>4. \A k \in 2..n : k - 1 \in 1..(n - 1)
    BY <1>1
  <2> QED
    BY <2>1, <2>2, <2>3, <2>4
<1>6. \A k \in 1..n : \E l \in 1..n : /\ pra_list'[k] = pra_list[l]
                                      /\ l = IF k = 1 THEN n ELSE k - 1
  <2> TAKE k \in 1..n
  <2>1. CASE k = 1
    BY <1>1, <1>2, <1>5, <2>1
  <2>2. CASE k # 1
    <3>1. k \in 2..n /\ k - 1 \in 1..n
      BY <1>1, <2>2
    <3> QED
      BY <1>5, <2>2, <3>1
  <2> QED
    BY <2>1, <2>2
<1>7. \A g : InList(g)' <=> InList(g)
  <2> TAKE g
  <2>1. ASSUME NEW l \in 1..n PROVE \E k \in 1..n : pra_list'[k] = pra_list[l]
    <3>1. CASE l = n
      BY <1>1, <1>2, <1>5, <3>1
    <3>2. CASE l # n
      <4>1. l + 1 \in 1..n /\ l + 1 \in 2..n /\ (l + 1) - 1 = l
        BY <1>1, <3>2
      <4> QED
        BY <1>5, <4>1
    <3> QED
      BY <3>1, <3>2
  <2>2. ASSUME InList(g)' PROVE InList(g)
    <3>1. PICK k \in 1..n : pra_list'[k] = g
      BY <1>5, <2>2 DEF InList
    <3>2. PICK l \in 1..n : pra_list'[k] = pra_list[l]
      BY <1>6
    <3> QED
      BY <1>3, <3>1, <3>2 DEF InList
  <2>3. ASSUME InList(g) PROVE InList(g)'
    <3>1. PICK l \in 1..n : pra_list[l] = g
      BY <1>3, <2>3 DEF InList
    <3>2. PICK k \in 1..n : pra_list'[k] = pra_list[l]
      BY <2>1
    <3> QED
      BY <1>5, <3>1, <3>2 DEF InList
  <2> QED
    BY <2>2, <2>3
<1>8. Pool' = Pool
  BY <1>4 DEF Pool
<1>9. SwapTypeOK'
  BY <1>4, <1>5 DEF SwapInv, SwapTypeOK
<1>10. PagesOK' /\ Coherent' /\ AccessOK'
  BY <1>4, <1>7 DEF SwapInv, PagesOK, Coherent, AccessOK
<1>11. FramesListed'
  <2>1. ASSUME NEW j \in 1..n, NEW k \in 1..n, pra_list'[j] = pra_list'[k] PROVE j = k
    <3>1. PICK l \in 1..n : pra_list'[j] = pra_list[l] /\ l = IF j = 1 THEN n ELSE j - 1
      BY <1>6
    <3>2. PICK m \in 1..n : pra_list'[k] = pra_list[m] /\ m = IF k = 1 THEN n ELSE k - 1
      BY <1>6
    <3>3. l = m
      BY <1>3, <2>1, <3>1, <3>2 DEF SwapInv, FramesListed
    <3> QED
      BY <1>1, <3>1, <3>2, <3>3
  <2>2. ASSUME NEW k \in 1..n
        PROVE  /\ pra_vaddr'[pra_list'[k]] \in VPages
               /\ pte'[pra_vaddr'[pra_list'[k]]] = Present(pra_list'[k])
    <3>1. PICK l \in 1..n : pra_list'[k] = pra_list[l]
      BY <1>6
    <3> QED
      BY <1>3, <1>4, <3>1 DEF SwapInv, FramesListed
  <2>3. \A g : (g \in free' <=> g \in Pool /\ ~InList(g)') /\ (InList(g)' => g \in Pool)
    BY <1>4, <1>7 DEF SwapInv, FramesListed
  <2> QED
    BY <1>5, <1>8, <2>1, <2>2, <2>3 DEF FramesListed, Present
<1>12. Quiet
  BY <1>4 DEF Quiet, Touched, Content
<1> QED
  BY <1>9, <1>10, <1>11, <1>12 DEF SwapInv, Effect

(* do_pgfault puts the page into a free frame, with what was written or    *)
(* with what its slot holds.                                               *)
LEMMA PgfaultStep ==
    ASSUME SwapAssumption, SwapInv, do_pgfault
    PROVE  SwapInv' /\ Effect
<1>1. /\ access # NoAccess /\ free # {} /\ access' = NoAccess /\ pos' = NextPos
      /\ UNCHANGED disk
  BY DEF do_pgfault
<1>2. PICK v \in VPages : v = access.page
  BY <1>1 DEF SwapInv, AccessOK
<1>3. /\ access.write \in BOOLEAN
      /\ access.write => access.value \in Values
      /\ pte[v].kind # "present" /\ tlb[v] = NoFrame
  BY <1>1, <1>2 DEF SwapInv, AccessOK
<1>4. PICK f \in Frames : f = Min(free) /\ f \in free
  <2>1. free \subseteq Frames /\ free \subseteq Nat
    BY Frame DEF SwapInv, FramesListed
  <2> QED
    BY <1>1, <2>1, MinIn
<1>5. ~InList(f) /\ f \in Pool
  BY <1>4 DEF SwapInv, FramesListed
<1>6. PICK x : x = IF access.write THEN access.value
                   ELSE IF pte[v].kind = "swapped" THEN disk[pte[v].at] ELSE Junk
  OBVIOUS
<1>7. /\ free' = free \ {f}
      /\ data' = [data EXCEPT ![f] = x]
      /\ pte' = [pte EXCEPT ![v] = Present(f)]
      /\ tlb' = [[tlb EXCEPT ![v] = NoFrame] EXCEPT ![v] = f]
      /\ pra_list' = <<f>> \o pra_list
      /\ pra_vaddr' = [pra_vaddr EXCEPT ![f] = v]
  BY <1>2, <1>4, <1>6 DEF do_pgfault, tlb_invalidate
<1>8. x \in Values \cup {Junk}
  <2>1. ASSUME pte[v].kind = "swapped" PROVE disk[pte[v].at] \in Values \cup {Junk}
    BY <2>1 DEF SwapInv, SwapTypeOK, PagesOK, Slots
  <2> QED
    BY <1>3, <1>6, <2>1
<1>9. PICK n \in Nat : n = Len(pra_list) /\ DOMAIN pra_list = 1..n /\ pra_list \in Seq(Frames)
  BY DEF SwapInv, SwapTypeOK
<1>10. /\ pra_list' \in Seq(Frames)
       /\ DOMAIN pra_list' = 1..(n + 1)
       /\ pra_list'[1] = f
       /\ \A k \in 2..(n + 1) : pra_list'[k] = pra_list[k - 1] /\ k - 1 \in 1..n
  <2>1. /\ <<f>> \o pra_list \in Seq(Frames)
        /\ DOMAIN (<<f>> \o pra_list) = 1..(Len(pra_list) + 1)
        /\ (<<f>> \o pra_list)[1] = f
        /\ \A k \in 2..(Len(pra_list) + 1) : (<<f>> \o pra_list)[k] = pra_list[k - 1]
    BY <1>9, Pushed
  <2>2. \A k \in 2..(n + 1) : k - 1 \in 1..n
    OBVIOUS
  <2> QED
    BY <1>7, <1>9, <2>1, <2>2
<1>11. \A k \in 1..(n + 1) : k = 1 \/ k \in 2..(n + 1)
  OBVIOUS
<1>12. \A g : InList(g)' <=> InList(g) \/ g = f
  <2> TAKE g
  <2>1. ASSUME NEW k \in 1..n PROVE \E l \in 1..(n + 1) : pra_list'[l] = pra_list[k]
    <3>1. k + 1 \in 2..(n + 1) /\ k + 1 \in 1..(n + 1) /\ (k + 1) - 1 = k
      OBVIOUS
    <3> QED
      BY <1>10, <3>1
  <2>2. ASSUME InList(g)' PROVE InList(g) \/ g = f
    <3>1. PICK k \in 1..(n + 1) : pra_list'[k] = g
      BY <1>10, <2>2 DEF InList
    <3> QED
      BY <1>9, <1>10, <1>11, <3>1 DEF InList
  <2>3. ASSUME InList(g) PROVE InList(g)'
    <3>1. PICK k \in 1..n : pra_list[k] = g
      BY <1>9, <2>3 DEF InList
    <3>2. PICK l \in 1..(n + 1) : pra_list'[l] = pra_list[k]
      BY <2>1
    <3> QED
      BY <1>10, <3>1, <3>2 DEF InList
  <2>4. InList(f)'
    <3>1. 1 \in 1..(n + 1)
      OBVIOUS
    <3> QED
      BY <1>10, <3>1 DEF InList
  <2> QED
    BY <2>2, <2>3, <2>4
<1>13. /\ pte' \in [VPages -> [kind : {"empty", "present", "swapped"}, at : Int]]
       /\ pte'[v] = Present(f) /\ pte'[v].kind = "present" /\ pte'[v].at = f
       /\ \A w \in VPages \ {v} : pte'[w] = pte[w]
  <2>1. pte \in [VPages -> [kind : {"empty", "present", "swapped"}, at : Int]]
    BY DEF SwapInv, SwapTypeOK
  <2>2. Present(f) \in [kind : {"empty", "present", "swapped"}, at : Int]
        /\ Present(f).kind = "present" /\ Present(f).at = f
    BY Frame DEF Present
  <2> HIDE DEF Present
  <2> QED
    BY <1>7, <2>1, <2>2
<1>14. /\ data' \in [Frames -> Values \cup {Junk}]
       /\ data'[f] = x /\ \A g \in Frames \ {f} : data'[g] = data[g]
  <2>1. data \in [Frames -> Values \cup {Junk}]
    BY DEF SwapInv, SwapTypeOK
  <2> QED
    BY <1>7, <1>8, <2>1
<1>15. /\ tlb' \in [VPages -> Frames \cup {NoFrame}]
       /\ tlb'[v] = f /\ \A w \in VPages \ {v} : tlb'[w] = tlb[w]
  BY <1>7 DEF SwapInv, SwapTypeOK
<1>16. /\ pra_vaddr' \in [Frames -> VPages \cup {0}]
       /\ pra_vaddr'[f] = v /\ \A g \in Frames \ {f} : pra_vaddr'[g] = pra_vaddr[g]
  BY <1>7 DEF SwapInv, SwapTypeOK
<1>17. Pool' = Pool /\ pos' \in Nat
  BY <1>1, SamePool
<1>18. SwapTypeOK'
  BY <1>1, <1>10, <1>13, <1>14, <1>15, <1>16, <1>17 DEF SwapInv, SwapTypeOK
<1>19. PagesOK'
  <2>1. ASSUME NEW w \in VPages, NEW g, g = pte'[w].at
        PROVE  /\ pte'[w].kind = "present" => InList(g)' /\ pra_vaddr'[g] = w
               /\ pte'[w].kind = "swapped" => g = swap_entry(w)
    <3>1. CASE w = v
      BY <1>12, <1>13, <1>16, <2>1, <3>1
    <3>2. CASE w # v
      <4>1. pte'[w] = pte[w] /\ g = pte[w].at
        BY <1>13, <2>1, <3>2
      <4>2. /\ pte[w].kind = "swapped" => g = swap_entry(w)
            /\ pte[w].kind = "present" => InList(g) /\ pra_vaddr[g] = w
        BY <4>1 DEF SwapInv, PagesOK
      <4>3. pte[w].kind = "present" => g \in Frames \ {f}
        BY <1>5, <4>1, <4>2, OwnFrame
      <4> QED
        BY <1>12, <1>16, <4>1, <4>2, <4>3
    <3> QED
      BY <3>1, <3>2
  <2> QED
    BY <2>1 DEF PagesOK, InList, swap_entry
<1>20. FramesListed'
  <2>1. ASSUME NEW k \in 1..n PROVE pra_list[k] # f /\ pra_list[k] \in Frames
    BY <1>5, <1>9 DEF InList
  <2>2. ASSUME NEW j \in 1..(n + 1), NEW k \in 1..(n + 1), pra_list'[j] = pra_list'[k]
        PROVE  j = k
    <3>1. CASE j = 1
      <4>1. ~(k \in 2..(n + 1))
        BY <1>10, <2>1, <2>2, <3>1
      <4> QED
        BY <1>11, <3>1, <4>1
    <3>2. CASE j \in 2..(n + 1)
      <4>1. k \in 2..(n + 1)
        BY <1>10, <1>11, <2>1, <2>2, <3>2
      <4>2. j - 1 = k - 1
        BY <1>9, <1>10, <2>2, <3>2, <4>1 DEF SwapInv, FramesListed
      <4> QED
        BY <3>2, <4>1, <4>2
    <3> QED
      BY <1>11, <3>1, <3>2
  <2>3. ASSUME NEW k \in 1..(n + 1)
        PROVE  /\ pra_vaddr'[pra_list'[k]] \in VPages
               /\ pte'[pra_vaddr'[pra_list'[k]]] = Present(pra_list'[k])
    <3>1. CASE k = 1
      BY <1>10, <1>13, <1>16, <3>1
    <3>2. CASE k \in 2..(n + 1)
      <4>1. PICK l \in 1..n : pra_list'[k] = pra_list[l]
        BY <1>10, <3>2
      <4>2. /\ pra_vaddr[pra_list[l]] \in VPages
            /\ pte[pra_vaddr[pra_list[l]]] = Present(pra_list[l])
        BY <1>9 DEF SwapInv, FramesListed
      <4>3. pra_vaddr[pra_list[l]] # v
        BY <1>3, <4>2 DEF Present
      <4> QED
        BY <1>13, <1>16, <2>1, <4>1, <4>2, <4>3
    <3> QED
      BY <1>11, <3>1, <3>2
  <2>4. \A g : (g \in free' <=> g \in Pool /\ ~InList(g)') /\ (InList(g)' => g \in Pool)
    BY <1>5, <1>7, <1>12 DEF SwapInv, FramesListed
  <2> QED
    BY <1>10, <1>17, <2>2, <2>3, <2>4 DEF FramesListed, Present
<1>21. Coherent'
  <2>1. ASSUME NEW w \in VPages, tlb'[w] # NoFrame PROVE pte'[w] = Present(tlb'[w])
    <3>1. CASE w = v
      BY <1>13, <1>15, <3>1
    <3>2. CASE w # v
      BY <1>13, <1>15, <2>1, <3>2 DEF SwapInv, Coherent
    <3> QED
      BY <3>1, <3>2
  <2> QED
    BY <2>1 DEF Coherent, Present, NoFrame
<1>22. AccessOK'
  BY <1>1 DEF AccessOK
<1>23. Touches(v)
  <2>1. Touched' = Touched \cup {v}
    BY <1>13 DEF Touched
  <2>2. ASSUME NEW w \in Touched \ {v} PROVE Content(w)' = Content(w)
    <3>1. w \in VPages /\ pte'[w] = pte[w] /\ disk' = disk
      BY <1>1, <1>13 DEF Touched
    <3>2. CASE pte[w].kind = "present"
      <4>1. pte[w].at \in Frames \ {f}
        BY <1>5, <3>1, <3>2, OwnFrame DEF SwapInv, PagesOK
      <4> QED
        BY <1>14, <3>1, <3>2, <4>1 DEF Content
    <3>3. CASE pte[w].kind # "present"
      BY <3>1, <3>3 DEF Content
    <3> QED
      BY <3>2, <3>3
  <2>3. Content(v)' = x
    BY <1>13, <1>14 DEF Content
  <2>4. x \in Values \/ (v \in Touched => x = Content(v))
    <3>1. CASE access.write
      BY <1>3, <1>6, <3>1
    <3>2. CASE ~access.write /\ v \in Touched
      <4>1. pte[v].kind = "swapped"
        BY <1>3, <3>2 DEF Touched, SwapInv, SwapTypeOK
      <4>2. pte[v].at = swap_entry(v)
        BY <4>1 DEF SwapInv, PagesOK
      <4> QED
        BY <1>6, <3>2, <4>1, <4>2 DEF Content
    <3> QED
      BY <3>1, <3>2
  <2> QED
    BY <2>1, <2>2, <2>3, <2>4 DEF Touches
<1> QED
  BY <1>18, <1>19, <1>20, <1>21, <1>22, <1>23 DEF SwapInv, Effect

LEMMA SwapNextInv ==
    ASSUME SwapAssumption, SwapInv, [SwapNext]_swap_vars
    PROVE  SwapInv' /\ Effect
<1>1. ASSUME NEW a \in Accesses, Hit(a) PROVE SwapInv' /\ Effect
  BY <1>1, HitStep
<1>2. ASSUME NEW a \in Accesses, Fault(a) PROVE SwapInv' /\ Effect
  BY <1>2, FaultStep
<1>3. ASSUME NEW v \in VPages, Evict(v) PROVE SwapInv' /\ Effect
  BY <1>3, EvictStep
<1>4. CASE swap_out
  BY <1>4, SwapOutStep
<1>5. CASE swap_out_failed
  BY <1>5, SwapOutFailedStep
<1>6. CASE do_pgfault
  BY <1>6, PgfaultStep
<1>7. CASE Done \/ UNCHANGED swap_vars
  BY <1>7, StutterStep DEF Done
<1> QED
  BY <1>1, <1>2, <1>3, <1>4, <1>5, <1>6, <1>7 DEF SwapNext, Accesses

-----------------------------------------------------------------------------
(* What programs see is what the frames and the slots hold.                *)
Seen ==
    /\ Memory = [v \in Touched |-> Memory[v]]
    /\ \A v \in Touched : Memory[v] = Content(v)

LEMMA IInvSeen ==
    ASSUME SwapAssumption, SwapInv
    PROVE  Seen
<1>1. Memory = [v \in Touched |-> Content(v)]
  BY MemoryIs
<1> HIDE DEF Memory
<1> QED
  BY <1>1 DEF Seen

(* A step with no effect on the contents is not seen.                      *)
LEMMA QuietUnseen ==
    ASSUME Seen, Seen', Quiet
    PROVE  UNCHANGED Memory
<1> USE DEF Seen, Quiet
<1>1. \A w \in Touched : Memory'[w] = Memory[w]
  OBVIOUS
<1> QED
  BY <1>1

(* A step that touches a page is a read or a write of it.                  *)
LEMMA TouchIsAccess ==
    ASSUME Seen, Seen', NEW v \in VPages, Touches(v)
    PROVE  UserMem!Next
<1> DEFINE P == {"check_mm_struct"}
           m == [p \in P |-> Memory]
<1>1. DOMAIN Memory = Touched /\ DOMAIN Memory' = Touched \cup {v}
  BY DEF Seen, Touches
<1>2. \A w \in Touched \ {v} : Memory'[w] = Memory[w]
  BY DEF Seen, Touches
<1>3. Memory'[v] = Content(v)'
  BY DEF Seen, Touches
<1>4. v \in Touched => Memory[v] = Content(v)
  BY DEF Seen
<1>5. ASSUME NEW x, Memory'[v] = x
      PROVE  UserMem!Access("check_mm_struct", v, x)
  BY <1>1, <1>2, <1>5 DEF UserMem!Access
<1>6. CASE Content(v)' \in Values
  <2>1. UserMem!Write("check_mm_struct", v)
    BY <1>3, <1>5, <1>6 DEF UserMem!Write
  <2> QED
    BY <2>1 DEF UserMem!Next
<1>7. CASE v \in Touched => Content(v)' = Content(v)
  <2>1. UserMem!Read("check_mm_struct", v)
    <3>1. Memory'[v] = IF v \in Touched THEN Memory[v] ELSE Memory'[v]
      BY <1>3, <1>4, <1>7
    <3> QED
      BY <1>1, <1>5, <3>1 DEF UserMem!Read
  <2> QED
    BY <2>1 DEF UserMem!Next
<1> QED
  BY <1>6, <1>7 DEF Touches

LEMMA EffectPromised ==
    ASSUME Seen, Seen', Effect
    PROVE  [UserMem!Next]_<<[p \in {"check_mm_struct"} |-> Memory],
                            [p \in {"check_mm_struct"} |-> ""]>>
<1>1. CASE Quiet
  BY <1>1, QuietUnseen
<1>2. ASSUME NEW v \in VPages, Touches(v) PROVE UserMem!Next
  BY <1>2, TouchIsAccess
<1> QED
  BY <1>1, <1>2 DEF Effect

(* Page replacement is not seen (swap_out and swap_in of kern/mm/swap.c,   *)
(* and do_pgfault): whatever victims are chosen, whichever writes to the   *)
(* swap disk fail and whatever translations the processor has kept, a      *)
(* program reads from a page what was written to it last.                  *)
THEOREM SwapRefined ==
    ASSUME SwapAssumption PROVE SwapSpec => SwapPromise
<1>1. SwapInit => UserMem!Init
  <2> SUFFICES ASSUME SwapInit PROVE DOMAIN Memory = {}
    BY DEF UserMem!Init
  <2>1. \A v \in VPages : pte[v].kind = "empty"
    BY DEF SwapInit, Empty
  <2> QED
    BY <2>1 DEF Memory
<1>2. SwapInit => SwapInv
  BY SwapInitInv
<1>3. SwapInv /\ [SwapNext]_swap_vars => SwapInv' /\ Effect
  BY SwapNextInv
<1>4. SwapInv => Seen
  BY IInvSeen
<1>5. Seen /\ Seen' /\ Effect
        => [UserMem!Next]_<<[p \in {"check_mm_struct"} |-> Memory],
                            [p \in {"check_mm_struct"} |-> ""]>>
  BY EffectPromised
<1> QED
  BY <1>1, <1>2, <1>3, <1>4, <1>5, PTL DEF SwapSpec, SwapPromise, UserMem!Spec

-----------------------------------------------------------------------------
LEMMA IInvReplacement ==
    ASSUME SwapInv PROVE ReplacementOK
<1> DEFINE L == {pra_list[k] : k \in DOMAIN pra_list}
<1>1. PICK n \in Nat : n = Len(pra_list) /\ DOMAIN pra_list = 1..n
  BY DEF SwapInv, SwapTypeOK
<1>2. \A k, l \in 1..n : pra_list[k] = pra_list[l] => k = l
  BY <1>1 DEF SwapInv, FramesListed
<1>3. \A k \in 1..n : /\ pra_vaddr[pra_list[k]] \in VPages
                      /\ pte[pra_vaddr[pra_list[k]]] = Present(pra_list[k])
  BY <1>1 DEF SwapInv, FramesListed
<1>4. Cardinality(L) = n
  <2> DEFINE f == [k \in 1..n |-> pra_list[k]]
  <2>1. f \in Bijection(1..n, L)
    BY <1>1, <1>2 DEF Bijection, Injection, Surjection, IsInjective
  <2>2. ExistsBijection(1..n, L)
    BY <2>1 DEF ExistsBijection
  <2> QED
    BY <2>2, FS_CountingElements
<1>5. Cardinality(Resident) = n
  <2> DEFINE f == [k \in 1..n |-> pra_vaddr[pra_list[k]]]
  <2> \A g : Present(g).kind = "present" /\ Present(g).at = g
    BY DEF Present
  <2>1. ASSUME NEW k \in 1..n PROVE f[k] \in Resident
    <3>1. f[k] = pra_vaddr[pra_list[k]]
      OBVIOUS
    <3>2. pte[f[k]].kind = "present" /\ f[k] \in VPages
      BY <1>3, <3>1
    <3> QED
      BY <3>2 DEF Resident
  <2>2. ASSUME NEW k \in 1..n, NEW l \in 1..n, f[k] = f[l] PROVE k = l
    <3>1. pra_vaddr[pra_list[k]] = pra_vaddr[pra_list[l]]
      BY <2>2
    <3>2. Present(pra_list[k]) = Present(pra_list[l])
      BY <1>3, <3>1
    <3>3. pra_list[k] = pra_list[l]
      BY <3>2
    <3> QED
      BY <1>2, <3>3
  <2>3. \A v \in Resident : \E k \in 1..n : f[k] = v
    BY <1>1 DEF Resident, SwapInv, PagesOK, InList
  <2>4. f \in [1..n -> Resident]
    BY <2>1
  <2> HIDE DEF f
  <2>5. f \in Bijection(1..n, Resident)
    BY <2>2, <2>3, <2>4 DEF Bijection, Injection, Surjection, IsInjective
  <2>6. ExistsBijection(1..n, Resident)
    BY <2>5 DEF ExistsBijection
  <2> QED
    BY <2>6, FS_CountingElements
<1>6. free = Pool \ L
  BY DEF SwapInv, FramesListed, InList
<1> HIDE DEF L
<1> QED
  BY <1>1, <1>3, <1>4, <1>5, <1>6 DEF ReplacementOK, L

(* The replacement list of kern/mm/swap_fifo.c is exact: _fifo_map_-       *)
(* swappable and _fifo_swap_out_victim keep in it each resident page once, *)
(* with its address in pra_vaddr, and every other frame of the pool free,  *)
(* so swap_out finds the page of its victim present (the assertion in      *)
(* kern/mm/swap.c) however often swapfs_write has failed before.           *)
THEOREM ReplacementCorrect ==
    ASSUME SwapAssumption PROVE SwapSpec => []ReplacementOK
<1>1. SwapInit => SwapInv
  BY SwapInitInv
<1>2. SwapInv /\ [SwapNext]_swap_vars => SwapInv'
  BY SwapNextInv
<1>3. SwapInv => ReplacementOK
  BY IInvReplacement
<1> QED
  BY <1>1, <1>2, <1>3, PTL DEF SwapSpec

-----------------------------------------------------------------------------
(* check_swap.  It is written for four frames (CHECK_VALID_PHY_PAGE_NUM)   *)
(* and makes one sequence of accesses, so what first-in first-out keeps is *)
(* known at each of them: the resident pages before access p, newest       *)
(* first.                                                                  *)
FifoPages ==
    <<<<>>, <<1>>, <<1>>, <<2, 1>>, <<2, 1>>, <<3, 2, 1>>, <<3, 2, 1>>,
      <<4, 3, 2, 1>>, <<4, 3, 2, 1>>, <<4, 3, 2, 1>>, <<4, 3, 2, 1>>, <<4, 3, 2, 1>>,
      <<4, 3, 2, 1>>, <<5, 4, 3, 2>>, <<5, 4, 3, 2>>, <<1, 5, 4, 3>>, <<2, 1, 5, 4>>,
      <<3, 2, 1, 5>>, <<4, 3, 2, 1>>, <<5, 4, 3, 2>>, <<1, 5, 4, 3>>>>

(* The page faults asserted before access p.                               *)
FaultsBefore(p) == IF p = 1 THEN 0 ELSE CheckFaults[p - 1]

(* One access of first-in first-out: a page that is resident makes no      *)
(* fault, another one comes to the front and, if there are four, pushes    *)
(* the oldest out.                                                         *)
FifoStep(p, q, r, a) ==
    /\ Len(q) \in 0..4
    /\ (\E k \in 1..Len(q) : q[k] = a) =>
          r = q /\ CheckFaults[p] = FaultsBefore(p)
    /\ ~(\E k \in 1..Len(q) : q[k] = a) =>
          /\ CheckFaults[p] = FaultsBefore(p) + 1
          /\ Len(r) = IF Len(q) = 4 THEN 4 ELSE Len(q) + 1
          /\ r[1] = a
          /\ \A k \in 2..Len(r) : r[k] = q[k - 1]

LEMMA CheckTables ==
    /\ Len(CheckPages) = 20
    /\ CheckPages[1] = 1 /\ CheckPages[2] = 1 /\ CheckPages[3] = 2 /\ CheckPages[4] = 2
    /\ CheckPages[5] = 3 /\ CheckPages[6] = 3 /\ CheckPages[7] = 4 /\ CheckPages[8] = 4
    /\ CheckPages[9] = 3 /\ CheckPages[10] = 1 /\ CheckPages[11] = 4 /\ CheckPages[12] = 2
    /\ CheckPages[13] = 5 /\ CheckPages[14] = 2 /\ CheckPages[15] = 1 /\ CheckPages[16] = 2
    /\ CheckPages[17] = 3 /\ CheckPages[18] = 4 /\ CheckPages[19] = 5 /\ CheckPages[20] = 1
    /\ CheckFaults[1] = 1 /\ CheckFaults[2] = 1 /\ CheckFaults[3] = 2 /\ CheckFaults[4] = 2
    /\ CheckFaults[5] = 3 /\ CheckFaults[6] = 3 /\ CheckFaults[7] = 4 /\ CheckFaults[8] = 4
    /\ CheckFaults[9] = 4 /\ CheckFaults[10] = 4 /\ CheckFaults[11] = 4 /\ CheckFaults[12] = 4
    /\ CheckFaults[13] = 5 /\ CheckFaults[14] = 5 /\ CheckFaults[15] = 6 /\ CheckFaults[16] = 7
    /\ CheckFaults[17] = 8 /\ CheckFaults[18] = 9 /\ CheckFaults[19] = 10 /\ CheckFaults[20] = 11
BY DEF CheckPages, CheckFaults, check_content_set, fifo_check_swap

LEMMA FifoTrace ==
    ASSUME NEW p \in 1..20
    PROVE  FifoStep(p, FifoPages[p], FifoPages[p + 1], CheckPages[p])
<1>1. CASE p = 1
  BY <1>1, CheckTables DEF FifoStep, FifoPages, FaultsBefore
<1>2. CASE p = 2
  BY <1>2, CheckTables DEF FifoStep, FifoPages, FaultsBefore
<1>3. CASE p = 3
  BY <1>3, CheckTables DEF FifoStep, FifoPages, FaultsBefore
<1>4. CASE p = 4
  BY <1>4, CheckTables DEF FifoStep, FifoPages, FaultsBefore
<1>5. CASE p = 5
  BY <1>5, CheckTables DEF FifoStep, FifoPages, FaultsBefore
<1>6. CASE p = 6
  BY <1>6, CheckTables DEF FifoStep, FifoPages, FaultsBefore
<1>7. CASE p = 7
  BY <1>7, CheckTables DEF FifoStep, FifoPages, FaultsBefore
<1>8. CASE p = 8
  BY <1>8, CheckTables DEF FifoStep, FifoPages, FaultsBefore
<1>9. CASE p = 9
  BY <1>9, CheckTables DEF FifoStep, FifoPages, FaultsBefore
<1>10. CASE p = 10
  BY <1>10, CheckTables DEF FifoStep, FifoPages, FaultsBefore
<1>11. CASE p = 11
  BY <1>11, CheckTables DEF FifoStep, FifoPages, FaultsBefore
<1>12. CASE p = 12
  BY <1>12, CheckTables DEF FifoStep, FifoPages, FaultsBefore
<1>13. CASE p = 13
  BY <1>13, CheckTables DEF FifoStep, FifoPages, FaultsBefore
<1>14. CASE p = 14
  BY <1>14, CheckTables DEF FifoStep, FifoPages, FaultsBefore
<1>15. CASE p = 15
  BY <1>15, CheckTables DEF FifoStep, FifoPages, FaultsBefore
<1>16. CASE p = 16
  BY <1>16, CheckTables DEF FifoStep, FifoPages, FaultsBefore
<1>17. CASE p = 17
  BY <1>17, CheckTables DEF FifoStep, FifoPages, FaultsBefore
<1>18. CASE p = 18
  BY <1>18, CheckTables DEF FifoStep, FifoPages, FaultsBefore
<1>19. CASE p = 19
  BY <1>19, CheckTables DEF FifoStep, FifoPages, FaultsBefore
<1>20. CASE p = 20
  BY <1>20, CheckTables DEF FifoStep, FifoPages, FaultsBefore
<1> QED
  BY <1>1, <1>2, <1>3, <1>4, <1>5, <1>6, <1>7, <1>8, <1>9, <1>10,
     <1>11, <1>12, <1>13, <1>14, <1>15, <1>16, <1>17, <1>18, <1>19, <1>20

(* The replacement list holds the first n pages of the table's entry.      *)
Holds(n) ==
    /\ Len(pra_list) = n
    /\ \A k \in 1..n : pra_vaddr[pra_list[k]] = FifoPages[pos][k]

(* Where check_swap is: what it has counted, which access waits, and that  *)
(* the list is that of the table, without its oldest page between the      *)
(* eviction and the end of the page fault that needed it.                  *)
CheckInv ==
    pos > 0 =>
        /\ pos \in 1..21
        /\ pgfault_num = FaultsBefore(pos) + (IF access = NoAccess THEN 0 ELSE 1)
        /\ access # NoAccess =>
              /\ pos <= 20 /\ access.page = CheckPages[pos]
              /\ ~\E k \in 1..Len(FifoPages[pos]) : FifoPages[pos][k] = CheckPages[pos]
        /\ \/ Holds(Len(FifoPages[pos]))
           \/ access # NoAccess /\ Len(FifoPages[pos]) = 4 /\ Holds(3)

(* Four frames are in use when the list has four pages, and only then.     *)
LEMMA FourFrames ==
    ASSUME SwapAssumption, nframe = 4, SwapInv, pos > 0
    PROVE  free = {} <=> Len(pra_list) = 4
<1> DEFINE L == {pra_list[k] : k \in DOMAIN pra_list}
<1>1. ReplacementOK
  BY IInvReplacement
<1>2. Pool = 0..3
  BY DEF Pool, Frames, SwapInv, SwapTypeOK
<1>3. free = (0..3) \ L /\ Cardinality(L) = Len(pra_list)
  BY <1>1, <1>2 DEF ReplacementOK
<1>4. L \subseteq 0..3
  BY <1>2 DEF SwapInv, FramesListed, InList
<1> HIDE DEF L
<1>5. IsFiniteSet(0..3) /\ Cardinality(0..3) = 4
  <2>1. PICK a \in Int, z \in Int : a = 0 /\ z = 3
    OBVIOUS
  <2>2. IsFiniteSet(a..z) /\ Cardinality(a..z) = IF a > z THEN 0 ELSE z - a + 1
    BY FS_Interval
  <2> QED
    BY <2>1, <2>2
<1>6. free = {} <=> L = 0..3
  BY <1>3, <1>4
<1>7. Cardinality(L) = 4 => L = 0..3
  BY <1>4, <1>5, FS_Subset
<1> QED
  BY <1>3, <1>5, <1>6, <1>7

(* A page is resident when the list has it.                                *)
LEMMA ResidentListed ==
    ASSUME SwapInv, NEW v \in VPages
    PROVE  pte[v].kind = "present"
             <=> \E k \in 1..Len(pra_list) : pra_vaddr[pra_list[k]] = v
<1>1. DOMAIN pra_list = 1..Len(pra_list)
  BY DEF SwapInv, SwapTypeOK
<1>2. ASSUME pte[v].kind = "present"
      PROVE  \E k \in 1..Len(pra_list) : pra_vaddr[pra_list[k]] = v
  BY <1>1, <1>2 DEF SwapInv, PagesOK, InList
<1>3. ASSUME NEW k \in 1..Len(pra_list), pra_vaddr[pra_list[k]] = v
      PROVE  pte[v].kind = "present"
  <2>1. pte[v] = Present(pra_list[k])
    BY <1>1, <1>3 DEF SwapInv, FramesListed
  <2> QED
    BY <2>1 DEF Present
<1> QED
  BY <1>2, <1>3

LEMMA CheckStep ==
    ASSUME SwapAssumption, nframe = 4, SwapInv, CheckInv, [SwapNext]_swap_vars
    PROVE  CheckInv'
<1>1. CASE pos = 0
  <2>1. pos' = 0
    BY <1>1 DEF SwapNext, Hit, Fault, Evict, swap_out, swap_out_failed, do_pgfault, Done,
                NextPos, swap_vars
  <2> QED
    BY <2>1 DEF CheckInv
<1>2. CASE pos > 0
  <2>1. /\ pos \in 1..21 /\ Len(CheckPages) = 20
        /\ pgfault_num = FaultsBefore(pos) + (IF access = NoAccess THEN 0 ELSE 1)
        /\ access # NoAccess =>
              /\ pos \in 1..20 /\ access.page = CheckPages[pos]
              /\ ~\E k \in 1..Len(FifoPages[pos]) : FifoPages[pos][k] = CheckPages[pos]
        /\ \/ Holds(Len(FifoPages[pos]))
           \/ access # NoAccess /\ Len(FifoPages[pos]) = 4 /\ Holds(3)
    BY <1>2, CheckTables DEF CheckInv
  <2>2. ASSUME NEW a \in Accesses, Hit(a) \/ Fault(a)
        PROVE  CheckInv'
    <3>1. /\ pos \in 1..20 /\ a.page = CheckPages[pos] /\ a.page \in VPages
          /\ access = NoAccess
      <4>1. access = NoAccess /\ Requested(a)
        BY <2>2 DEF Hit, Fault
      <4>2. a.page \in VPages
        BY DEF Accesses
      <4>3. pos <= 20 /\ a.page = CheckPages[pos]
        BY <1>2, <2>1, <4>1 DEF Requested
      <4> QED
        BY <2>1, <4>1, <4>2, <4>3
    <3>2. PICK q, r : q = FifoPages[pos] /\ r = FifoPages[pos + 1]
      OBVIOUS
    <3>3. FifoStep(pos, q, r, CheckPages[pos])
      BY <3>1, <3>2, FifoTrace
    <3>4. /\ Len(pra_list) = Len(q)
          /\ \A k \in 1..Len(q) : pra_vaddr[pra_list[k]] = q[k]
      BY <2>1, <3>1, <3>2 DEF Holds
    <3>5. pte[a.page].kind = "present" <=> \E k \in 1..Len(q) : q[k] = a.page
      BY <3>1, <3>4, ResidentListed
    <3>6. CASE Hit(a)
      <4>1. pte[a.page].kind = "present"
        <5>1. \A g : Present(g).kind = "present"
          BY DEF Present
        <5>2. tlb[a.page] # NoFrame \/ pte[a.page].kind = "present"
          BY <3>6 DEF Hit
        <5> QED
          BY <3>1, <5>1, <5>2 DEF SwapInv, Coherent
      <4>2. r = q /\ CheckFaults[pos] = FaultsBefore(pos)
        BY <3>1, <3>3, <3>5, <4>1 DEF FifoStep
      <4>3. /\ pos' = pos + 1 /\ access' = NoAccess /\ pgfault_num' = pgfault_num
            /\ pra_list' = pra_list /\ pra_vaddr' = pra_vaddr
        BY <1>2, <3>1, <3>6 DEF Hit, NextPos
      <4>4. FaultsBefore(pos)' = CheckFaults[pos]
        BY <3>1, <4>3 DEF FaultsBefore
      <4>5. FifoPages[pos]' = q
        BY <3>2, <4>2, <4>3
      <4>6. Holds(Len(FifoPages[pos]))'
        BY <3>4, <4>3, <4>5 DEF Holds
      <4>7. CheckFaults[pos] \in Nat
        BY <3>1, CheckTables
      <4>8. pgfault_num' = FaultsBefore(pos)'
        <5>1. pgfault_num = FaultsBefore(pos) + 0
          BY <2>1, <3>1
        <5> QED
          BY <4>2, <4>3, <4>4, <4>7, <5>1
      <4> QED
        BY <3>1, <4>3, <4>4, <4>6, <4>7, <4>8, SMTT(30) DEF CheckInv
    <3>7. CASE Fault(a)
      <4>1. /\ pos' = pos /\ access' = a /\ pgfault_num' = pgfault_num + 1
            /\ pra_list' = pra_list /\ pra_vaddr' = pra_vaddr
            /\ pte[a.page].kind # "present"
        BY <1>2, <3>7 DEF Fault
      <4>2. a # NoAccess
        BY <3>1, CheckTables DEF NoAccess
      <4>3. Holds(Len(FifoPages[pos]))'
        BY <2>1, <3>1, <4>1 DEF Holds
      <4>4. FaultsBefore(pos) \in Nat
        BY <3>1, CheckTables DEF FaultsBefore
      <4>5. pgfault_num' = FaultsBefore(pos) + 1
        BY <2>1, <3>1, <4>1, <4>4
      <4> QED
        BY <3>1, <3>2, <3>5, <4>1, <4>2, <4>3, <4>5, SMTT(30) DEF CheckInv, FaultsBefore
    <3> QED
      BY <2>2, <3>6, <3>7
  <2>3. CASE swap_out
    <3>1. /\ access # NoAccess /\ free = {} /\ pra_list # <<>>
          /\ pra_list' = RemoveAt(pra_list, Len(pra_list))
          /\ pra_vaddr' = pra_vaddr /\ access' = access /\ pgfault_num' = pgfault_num
          /\ pos' = pos
      BY <2>3 DEF swap_out, swap_out_victim
    <3>2. Len(pra_list) = 4
      BY <1>2, <3>1, FourFrames
    <3>3. Len(FifoPages[pos]) = 4 /\ Holds(4)
      BY <2>1, <3>2 DEF Holds
    <3>4. pra_list \in Seq(Frames)
      BY DEF SwapInv, SwapTypeOK
    <3>5. Len(pra_list)' = 3 /\ \A k \in 1..3 : pra_list'[k] = pra_list[k]
      <4>1. PICK q \in Seq(Frames) : q = pra_list
        BY <3>4
      <4>2. q # <<>> /\ Len(q) = 4
        BY <3>1, <3>2, <4>1
      <4>3. /\ Len(RemoveAt(q, Len(q))) = Len(q) - 1
            /\ \A k \in 1..(Len(q) - 1) : RemoveAt(q, Len(q))[k] = q[k]
        BY <4>2, DroppedLast
      <4> QED
        BY <3>1, <4>1, <4>2, <4>3
    <3>6. Holds(3)'
      BY <3>1, <3>3, <3>5 DEF Holds
    <3> QED
      BY <2>1, <3>1, <3>3, <3>6 DEF CheckInv, FaultsBefore
  <2>4. CASE do_pgfault
    <3> DEFINE f == Min(free)
    <3>1. /\ access # NoAccess /\ free # {}
          /\ pra_list' = <<f>> \o pra_list
          /\ pra_vaddr' = [pra_vaddr EXCEPT ![f] = access.page]
          /\ access' = NoAccess /\ pgfault_num' = pgfault_num /\ pos' = pos + 1
      BY <1>2, <2>4 DEF do_pgfault, NextPos
    <3>2. pos \in 1..20 /\ access.page = CheckPages[pos]
      BY <2>1, <3>1
    <3>3. /\ free \subseteq Frames /\ f \in free /\ f \in Frames
          /\ \A k \in 1..Len(pra_list) : pra_list[k] # f
          /\ pra_list \in Seq(Frames) /\ pra_vaddr \in [Frames -> VPages \cup {0}]
      <4>1. free \subseteq Frames /\ Frames \subseteq Nat
        BY OwnFrame, Frame DEF SwapInv, FramesListed
      <4>2. f \in free
        BY <3>1, <4>1, MinIn
      <4> QED
        <5>1. pra_list \in Seq(Frames) /\ DOMAIN pra_list = 1..Len(pra_list)
          BY DEF SwapInv, SwapTypeOK
        <5>2. ~InList(f)
          BY <4>2 DEF SwapInv, FramesListed
        <5>3. \A k \in 1..Len(pra_list) : pra_list[k] # f
          BY <5>1, <5>2 DEF InList
        <5>4. pra_vaddr \in [Frames -> VPages \cup {0}]
          BY DEF SwapInv, SwapTypeOK
        <5> QED
          BY <4>1, <4>2, <5>1, <5>3, <5>4
    <3>4. PICK g \in Frames : g = f
      BY <3>3
    <3> HIDE DEF f
    <3>5. PICK q, r : q = FifoPages[pos] /\ r = FifoPages[pos + 1]
      OBVIOUS
    <3>6. FifoStep(pos, q, r, CheckPages[pos])
      BY <3>2, <3>5, FifoTrace
    <3>7. Len(pra_list) # 4
      BY <1>2, <3>1, FourFrames
    <3>8. PICK n \in 0..3 : /\ n = Len(pra_list)
                            /\ n = IF Len(q) = 4 THEN 3 ELSE Len(q)
                            /\ \A k \in 1..n : pra_vaddr[pra_list[k]] = q[k]
      BY <2>1, <3>1, <3>5, <3>6, <3>7 DEF Holds, FifoStep
    <3>9. ~\E k \in 1..Len(q) : q[k] = CheckPages[pos]
      BY <2>1, <3>1, <3>5
    <3>10. /\ CheckFaults[pos] = FaultsBefore(pos) + 1
           /\ Len(r) = n + 1
           /\ r[1] = CheckPages[pos]
           /\ \A k \in 2..(n + 1) : r[k] = q[k - 1]
      BY <3>6, <3>8, <3>9 DEF FifoStep
    <3>11. /\ Len(pra_list') = n + 1
           /\ pra_list'[1] = g
           /\ \A k \in 2..(n + 1) : pra_list'[k] = pra_list[k - 1]
      <4>1. PICK z \in Seq(Frames) : z = pra_list /\ Len(z) = n
        BY <3>3, <3>8
      <4>2. /\ Len(<<g>> \o z) = Len(z) + 1
            /\ (<<g>> \o z)[1] = g
            /\ \A k \in 2..(Len(z) + 1) : (<<g>> \o z)[k] = z[k - 1]
        BY Pushed
      <4> QED
        BY <3>1, <3>4, <4>1, <4>2
    <3>12. /\ pra_vaddr'[g] = CheckPages[pos]
           /\ \A h \in Frames \ {g} : pra_vaddr'[h] = pra_vaddr[h]
      BY <3>1, <3>2, <3>3, <3>4
    <3>13. ASSUME NEW k \in 1..(n + 1) PROVE pra_vaddr'[pra_list'[k]] = r[k]
      <4>1. CASE k = 1
        BY <3>10, <3>11, <3>12, <4>1
      <4>2. CASE k # 1
        <5>1. PICK j \in 1..n : j = k - 1 /\ k \in 2..(n + 1)
          BY <4>2
        <5>2. pra_list'[k] = pra_list[j] /\ r[k] = q[j]
          BY <3>10, <3>11, <5>1
        <5>3. pra_list[j] \in Frames \ {g}
          <6>1. j \in 1..Len(pra_list)
            BY <3>8, <5>1
          <6>2. pra_list[j] # g
            BY <3>3, <3>4, <6>1
          <6>3. pra_list[j] \in Frames
            BY <3>3, <6>1
          <6> QED
            BY <6>2, <6>3
        <5> QED
          BY <3>8, <3>12, <5>2, <5>3
      <4> QED
        BY <4>1, <4>2
    <3>14. FifoPages[pos]' = r
      BY <3>1, <3>5
    <3>15. Holds(Len(FifoPages[pos]))'
      BY <3>10, <3>11, <3>13, <3>14 DEF Holds
    <3>16. FaultsBefore(pos)' = CheckFaults[pos]
      BY <3>1, <3>2 DEF FaultsBefore
    <3>17. CheckFaults[pos] \in Nat
      BY <3>2, CheckTables
    <3>18. pgfault_num' = FaultsBefore(pos)'
      BY <2>1, <3>1, <3>10, <3>16
    <3> QED
      BY <3>1, <3>2, <3>15, <3>16, <3>17, <3>18 DEF CheckInv
  <2>5. CASE swap_out_failed
    BY <1>2, <2>5 DEF swap_out_failed
  <2>6. ASSUME NEW v \in VPages, Evict(v)
        PROVE  CheckInv'
    BY <2>1, <2>6 DEF Evict, CheckInv, Holds, FaultsBefore
  <2>7. CASE Done \/ UNCHANGED swap_vars
    BY <2>1, <2>7 DEF Done, swap_vars, CheckInv, Holds, FaultsBefore
  <2> QED
    BY <2>2, <2>3, <2>4, <2>5, <2>6, <2>7 DEF SwapNext, Accesses
<1> QED
  BY <1>1, <1>2 DEF SwapInv, SwapTypeOK

(* check_swap of kern/mm/swap.c and swap_fifo.c: with four frames, first-  *)
(* in first-out takes exactly the page faults that _fifo_check_swap        *)
(* asserts after each access, and the replacement list is exact, in the    *)
(* check and under any other accesses.                                     *)
THEOREM SwapCorrect ==
    ASSUME SwapAssumption, nframe = 4 PROVE SwapSpec => []SwapOK
<1>1. SwapInit => SwapInv /\ CheckInv
  <2>1. SwapInit => CheckInv
    BY SMTT(30) DEF SwapInit, CheckInv, Holds, FifoPages, FaultsBefore
  <2> QED
    BY <2>1, SwapInitInv
<1>2. SwapInv /\ CheckInv /\ [SwapNext]_swap_vars => SwapInv' /\ CheckInv'
  BY SwapNextInv, CheckStep
<1>3. SwapInv /\ CheckInv => SwapOK
  <2> SUFFICES ASSUME SwapInv, CheckInv PROVE SwapOK
    OBVIOUS
  <2>1. ASSUME pos > 1, access = NoAccess PROVE pgfault_num = CheckFaults[pos - 1]
    <3>1. pos \in 2..21 /\ pgfault_num = FaultsBefore(pos) + 0
      <4>1. pos \in Nat /\ pos > 0
        BY <2>1 DEF SwapInv, SwapTypeOK
      <4> QED
        BY <2>1, <4>1 DEF CheckInv
    <3>2. FaultsBefore(pos) = CheckFaults[pos - 1] /\ CheckFaults[pos - 1] \in Nat
      BY <3>1, CheckTables DEF FaultsBefore
    <3> QED
      BY <3>1, <3>2
  <2> QED
    BY <2>1, IInvReplacement DEF SwapOK, FaultsAsChecked
<1> QED
  BY <1>1, <1>2, <1>3, PTL DEF SwapSpec
=============================================================================
