----------------------------- MODULE DefaultPmm -----------------------------
(***************************************************************************)
(* The physical page allocator of kern/mm/default_pmm.c.  Free pages form  *)
(* blocks; the head page of a block has PG_property set and the number of  *)
(* pages in property, and the heads are in free_list, sorted by address.   *)
(* Allocation takes the first block that is large enough; freeing merges   *)
(* the block with its neighbours in one pass over the list and puts the    *)
(* result back in order.                                                   *)
(*                                                                         *)
(* alloc_pages and free_pages (kern/mm/pmm.c) call the allocator with      *)
(* interrupts off.  The pass of default_free_pages is modelled one         *)
(* iteration per step, so that what it knows halfway can be stated.        *)
(* Clients may free any run of pages they hold, also a part of what they   *)
(* got.                                                                    *)
(***************************************************************************)
EXTENDS Integers, Sequences, FiniteSetsExt, SequencesExt

CONSTANTS
    npage,   \* pages of the machine, numbered from 0
    Regions  \* usable memory: sequence of [base, n], as page_init finds it

(* page_init finds the regions in the order of their addresses, with       *)
(* reserved pages between them.                                            *)
DefaultPmmAssumption ==
    /\ npage \in Nat
    /\ Regions \in Seq([base : Nat, n : Nat \ {0}])
    /\ Regions # <<>>
    /\ \A k \in DOMAIN Regions : Regions[k].base + Regions[k].n <= npage
    /\ \A k \in DOMAIN Regions : \A l \in DOMAIN Regions :
           k < l => Regions[k].base + Regions[k].n < Regions[l].base

VARIABLES
    free_list,    \* heads of the free blocks
    nr_free,
    property,     \* [Pages -> Nat]: counts only for heads of blocks
    PG_property,  \* [Pages -> BOOLEAN]
    held,         \* pages that belong to clients
    pc,           \* "boot", "ready", "merge" or "insert"
    i,            \* region, or position in free_list
    base,         \* default_free_pages: the block that is being freed
    size,         \* default_free_pages: the argument n
    refused       \* number of pages that the latest call asked for in vain, or 0

free_vars == <<free_list, nr_free, property, PG_property>>

vars == <<free_vars, held, pc, i, base, size, refused>>

Pages == 0..(npage - 1)

Run(p, n) == p..(p + n - 1)

TypeOK ==
    /\ free_list \in Seq(Pages)
    /\ nr_free \in Nat
    /\ property \in [Pages -> Nat]
    /\ PG_property \in [Pages -> BOOLEAN]
    /\ held \subseteq Pages
    /\ pc \in {"boot", "ready", "merge", "insert"}
    /\ i \in Nat \ {0}
    /\ base \in Pages
    /\ size \in Nat
    /\ refused \in Nat

Init ==
    /\ free_list = <<>>
    /\ nr_free = 0
    /\ property = [p \in Pages |-> 0]
    /\ PG_property = [p \in Pages |-> FALSE]
    /\ held = {}
    /\ pc = "boot"
    /\ i = 1
    /\ base = 0
    /\ size = 0
    /\ refused = 0

-----------------------------------------------------------------------------
(* default_init_memmap for the next region: one block at the end of the    *)
(* list.                                                                   *)
default_init_memmap ==
    LET r == Regions[i]
    IN  /\ pc = "boot"
        /\ property' = [p \in Pages |-> IF p = r.base THEN r.n
                                        ELSE IF p \in Run(r.base, r.n) THEN 0
                                        ELSE property[p]]
        /\ PG_property' = [PG_property EXCEPT ![r.base] = TRUE]
        /\ nr_free' = nr_free + r.n
        /\ free_list' = Append(free_list, r.base)
        /\ IF i = Len(Regions) THEN pc' = "ready" /\ i' = 1
                              ELSE i' = i + 1 /\ UNCHANGED pc
        /\ UNCHANGED <<held, base, size, refused>>

(* The blocks that n pages fit in.                                         *)
Fitting(n) == {k \in DOMAIN free_list : property[free_list[k]] >= n}

(* default_alloc_pages: the first block that fits; what is left of it      *)
(* takes its place.                                                        *)
default_alloc_pages(n) ==
    /\ pc = "ready"
    /\ n <= nr_free
    /\ Fitting(n) # {}
    /\ LET k    == Min(Fitting(n))
           page == free_list[k]
           rest == page + n
       IN  /\ IF property[page] > n
              THEN /\ property' = [property EXCEPT ![rest] = property[page] - n]
                   /\ PG_property' = [PG_property EXCEPT ![page] = FALSE, ![rest] = TRUE]
                   /\ free_list' = [free_list EXCEPT ![k] = rest]
              ELSE /\ PG_property' = [PG_property EXCEPT ![page] = FALSE]
                   /\ free_list' = RemoveAt(free_list, k)
                   /\ UNCHANGED property
           /\ held' = held \cup Run(page, n)
    /\ nr_free' = nr_free - n
    /\ refused' = 0
    /\ UNCHANGED <<pc, i, base, size>>

(* default_alloc_pages returns NULL.                                       *)
alloc_refused(n) ==
    /\ pc = "ready"
    /\ n > nr_free \/ Fitting(n) = {}
    /\ refused' = n
    /\ UNCHANGED <<free_vars, held, pc, i, base, size>>

(* default_free_pages up to its first loop over the list.                  *)
default_free_pages(b, n) ==
    /\ pc = "ready"
    /\ Run(b, n) \subseteq held
    /\ held' = held \ Run(b, n)
    /\ property' = [property EXCEPT ![b] = n]
    /\ PG_property' = [p \in Pages |-> (p = b) \/ (PG_property[p] /\ p \notin Run(b, n))]
    /\ base' = b
    /\ size' = n
    /\ i' = 1
    /\ pc' = "merge"
    /\ refused' = 0
    /\ UNCHANGED <<free_list, nr_free>>

(* Faulty variant of merge: the block before the freed one stays apart.  *)
merge_forward_only ==
    /\ pc = "merge"
    /\ i <= Len(free_list)
    /\ LET p == free_list[i]
       IN  IF base + property[base] = p
           THEN /\ free_list' = RemoveAt(free_list, i)
                /\ property' = [property EXCEPT ![base] = @ + property[p]]
                /\ PG_property' = [PG_property EXCEPT ![p] = FALSE]
                /\ UNCHANGED i
           ELSE /\ i' = i + 1
                /\ UNCHANGED <<free_list, property, PG_property>>
    /\ UNCHANGED <<nr_free, held, pc, base, size, refused>>

(* One block of the list: it is joined to the freed block if it is the     *)
(* next one or the one before, and leaves the list.                        *)
merge ==
    /\ pc = "merge"
    /\ i <= Len(free_list)
    /\ LET p      == free_list[i]
           after  == base + property[base] = p
           before == p + property[p] = base
       IN  /\ IF after \/ before
              THEN /\ free_list' = RemoveAt(free_list, i)
                   /\ UNCHANGED i
              ELSE /\ i' = i + 1
                   /\ UNCHANGED free_list
           /\ CASE after ->
                     /\ property' = [property EXCEPT ![base] = @ + property[p]]
                     /\ PG_property' = [PG_property EXCEPT ![p] = FALSE]
                     /\ UNCHANGED base
                [] ~after /\ before ->
                     /\ property' = [property EXCEPT ![p] = @ + property[base]]
                     /\ PG_property' = [PG_property EXCEPT ![base] = FALSE]
                     /\ base' = p
                [] OTHER -> UNCHANGED <<property, PG_property, base>>
    /\ UNCHANGED <<nr_free, held, pc, size, refused>>

merge_end ==
    /\ pc = "merge"
    /\ i > Len(free_list)
    /\ nr_free' = nr_free + size
    /\ pc' = "insert"
    /\ UNCHANGED <<free_list, property, PG_property, held, i, base, size, refused>>

(* The blocks behind the freed one.                                        *)
Behind == {k \in DOMAIN free_list : base + property[base] <= free_list[k]}

(* The second loop: the block is linked before the first block behind it.  *)
insert ==
    /\ pc = "insert"
    /\ free_list' = InsertAt(free_list,
                             IF Behind = {} THEN Len(free_list) + 1 ELSE Min(Behind),
                             base)
    /\ pc' = "ready"
    /\ i' = 1 /\ base' = 0 /\ size' = 0   \* locals that are gone
    /\ UNCHANGED <<nr_free, property, PG_property, held, refused>>

Next ==
    \/ default_init_memmap
    \/ \E n \in 1..npage :
          \/ default_alloc_pages(n)
          \/ alloc_refused(n)
          \/ \E b \in Pages : default_free_pages(b, n)
    \/ merge
    \/ merge_end
    \/ insert

Spec == Init /\ [][Next]_vars

-----------------------------------------------------------------------------
Block(p) == Run(p, property[p])

Usable == UNION {Run(Regions[k].base, Regions[k].n) : k \in DOMAIN Regions}

FreePages == UNION {Block(free_list[k]) : k \in DOMAIN free_list}

(* The blocks are in the order of their addresses, not empty, disjoint and *)
(* never next to each other: what could be merged is merged, whatever the  *)
(* order and the pieces in which pages come back.                          *)
ListOK ==
    /\ \A k \in DOMAIN free_list : property[free_list[k]] > 0
    /\ \A k \in DOMAIN free_list : \A l \in DOMAIN free_list :
           k < l => free_list[k] + property[free_list[k]] < free_list[l]

(* The flag marks exactly the heads of free blocks, so that the assertion  *)
(* !PageProperty(p) of default_free_pages holds for every page a client    *)
(* has.                                                                    *)
FlagsOK ==
    \A p \in Pages :
        PG_property[p] <=> \/ \E k \in DOMAIN free_list : free_list[k] = p
                           \/ pc \in {"merge", "insert"} /\ p = base

(* Every usable page is free or belongs to a client, and to one place      *)
(* only; nr_free counts the free ones.                                     *)
PagesAccounted ==
    pc = "ready" =>
        /\ FreePages \cap held = {}
        /\ FreePages \cup held = Usable
        /\ nr_free = Cardinality(FreePages)

(* After the first pass no block touches the freed one (the assertion      *)
(* base + base->property != p), or overlaps it.                            *)
MergeDone ==
    pc = "insert" =>
        \A k \in DOMAIN free_list :
            \/ free_list[k] + property[free_list[k]] < base
            \/ base + property[base] < free_list[k]

(* alloc_pages(n) fails only if there are no n free pages in a row: splits *)
(* and merges never hide a run that is there.                              *)
RefusedRightly ==
    refused > 0 => ~\E p \in Pages : Run(p, refused) \subseteq FreePages

(* The page allocator keeps its books for any order of calls: free list,   *)
(* flags and counter agree, what touches is merged, and only what is not   *)
(* there is refused (default_pmm.c).                                       *)
PoolOK ==
    /\ TypeOK
    /\ ListOK
    /\ FlagsOK
    /\ PagesAccounted
    /\ MergeDone
    /\ RefusedRightly
=============================================================================
