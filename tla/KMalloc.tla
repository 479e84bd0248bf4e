------------------------------ MODULE KMalloc ------------------------------
(***************************************************************************)
(* The kernel heap of kern/mm/kmalloc.c: SLOB blocks for small objects,    *)
(* runs of pages for objects of about a page or more.                      *)
(*                                                                         *)
(* Addresses are counted in SLOB units.  A free block begins with its      *)
(* length (units) and the address of the next free block; the free blocks  *)
(* form a ring in the order of their addresses, entered at slobfree.  The  *)
(* ring never gets empty: arena, a static block below all pages, is in it. *)
(* The list walks and updates run with interrupts off, and no interrupt    *)
(* handler uses the heap, so every call is one step.                       *)
(***************************************************************************)
EXTENDS Integers, Sequences, SequencesExt, FiniteSetsExt

CONSTANTS
    heap_pages, \* pages that alloc_pages may give, numbered from 0
    SLOB_UNIT,  \* bytes per unit
    PAGE_SIZE,  \* bytes per page: 2^k units
    BIGBLOCK,   \* sizeof(bigblock_t)
    Sizes,      \* sizes that are asked for
    MaxBlocks   \* bound: blocks held at the same time

(* No caller asks for more than two pages, or for one of the sizes that    *)
(* the assertion in slob_alloc excludes.                                   *)
KMallocAssumption ==
    /\ heap_pages \in Nat
    /\ SLOB_UNIT \in Nat \ {0} /\ PAGE_SIZE \in Nat /\ PAGE_SIZE % SLOB_UNIT = 0
    /\ BIGBLOCK \in Nat /\ SLOB_UNIT < BIGBLOCK /\ BIGBLOCK + SLOB_UNIT < PAGE_SIZE
    /\ \A size \in Sizes : size \in 1..(2 * PAGE_SIZE)
    /\ \A size \in Sizes : size \notin (PAGE_SIZE - 2 * SLOB_UNIT)..(PAGE_SIZE - SLOB_UNIT - 1)

VARIABLES
    ring,       \* [next, units : functions on the free blocks, slobfree]
    bigblocks,  \* list of [at, order, pages]: at is the bigblock_t itself
    freePages,
    blocks      \* blocks that clients have: [addr, size]

heap_vars == <<ring, bigblocks, freePages, blocks>>

PageUnits == PAGE_SIZE \div SLOB_UNIT
SLOB_UNITS(size) == (size + SLOB_UNIT - 1) \div SLOB_UNIT
arena == -2

HeapInit ==
    /\ ring = [next |-> [b \in {arena} |-> arena], units |-> [b \in {arena} |-> 1],
               slobfree |-> arena]
    /\ bigblocks = <<>>
    /\ freePages = 0..(heap_pages - 1)
    /\ blocks = {}

(* alloc_pages(1 << order) before swap_init: the lowest run, or none.      *)
Runs(pages, order) == {p \in pages : p..(p + 2^order - 1) \subseteq pages}

-----------------------------------------------------------------------------
(* The ring as it is walked from slobfree; position 0 is slobfree itself.  *)
Walk(r) ==
    LET At[k \in 0..Cardinality(DOMAIN r.next)] ==
            IF k = 0 THEN r.slobfree ELSE r.next[At[k - 1]]
    IN  At

(* Does b belong between the free block c and the next one?                *)
Between(r, c, b) ==
    \/ c < b /\ b < r.next[c]
    \/ c >= r.next[c] /\ (c < b \/ b < r.next[c])

(* The part of slob_free that links the block of n units at b in behind    *)
(* cur, joined with the free blocks after and before it.                   *)
link(r, cur, b, n) ==
    LET nx    == r.next[cur]
        after == b + n = nx
        prior == cur + r.units[cur] = b
        bu    == n + (IF after THEN r.units[nx] ELSE 0)
        bn    == IF after THEN r.next[nx] ELSE nx
        heads == ((DOMAIN r.next \ (IF after THEN {nx} ELSE {}))
                    \cup (IF prior THEN {} ELSE {b}))
    IN  [next |-> [h \in heads |-> IF h = cur THEN (IF prior THEN bn ELSE b)
                                   ELSE IF h = b THEN bn ELSE r.next[h]],
         units |-> [h \in heads |-> IF h = cur THEN r.units[cur] + (IF prior THEN bu ELSE 0)
                                    ELSE IF h = b THEN bu ELSE r.units[h]],
         slobfree |-> cur]

(* slob_free: the walk from slobfree finds the place of b in the ring.     *)
slob_free(r, b, n) ==
    LET at == Walk(r)
    IN  link(r, at[Min({k \in DOMAIN at : Between(r, at[k], b)})], b, n)

(* Faulty variant of take: what is left of the block is lost.            *)
take_whole(r, prev, cur, n) ==
    LET heads == DOMAIN r.next \ {cur}
    IN  [next |-> [h \in heads |-> r.next[IF h = prev THEN cur ELSE h]],
         units |-> [h \in heads |-> r.units[h]],
         slobfree |-> prev]

(* The part of slob_alloc that takes n units from the front of cur.        *)
take(r, prev, cur, n) ==
    LET exact == r.units[cur] = n
        rest  == cur + n
        heads == (DOMAIN r.next \ {cur}) \cup (IF exact THEN {} ELSE {rest})
    IN  [next |-> [h \in heads |-> IF h = prev THEN (IF exact THEN r.next[cur] ELSE rest)
                                   ELSE IF h = rest THEN r.next[cur] ELSE r.next[h]],
         units |-> [h \in heads |-> IF h = rest THEN r.units[cur] - n ELSE r.units[h]],
         slobfree |-> prev]

(* slob_alloc: the first block behind slobfree that is large enough; when  *)
(* the walk is back at slobfree, one more page is freed into the ring.     *)
(* The result: the ring, the pages left, and the block or NULL.            *)
NULL == -1

slob_search(r, n) ==
    LET at == Walk(r)
        fit == {k \in DOMAIN at \ {0} : r.units[at[k]] >= n}
    IN  IF fit = {} THEN [ring |-> r, block |-> NULL]
        ELSE LET k == Min(fit) IN [ring |-> take(r, at[k - 1], at[k], n), block |-> at[k]]

slob_alloc(r, pages, size) ==
    LET n     == SLOB_UNITS(size)
        first == slob_search(r, n)
        again == slob_search(slob_free(r, Min(pages) * PageUnits, PageUnits), n)
    IN  IF first.block # NULL THEN [r |-> first.ring, pages |-> pages, block |-> first.block]
        ELSE IF pages = {} THEN [r |-> r, pages |-> pages, block |-> NULL]
        ELSE [r |-> again.ring, pages |-> pages \ {Min(pages)}, block |-> again.block]

(* How often size is halved until it is at most a page.                    *)
find_order(size) == Min({k \in 0..(size \div PAGE_SIZE) : size \div 2^k <= PAGE_SIZE})

-----------------------------------------------------------------------------
kmalloc_small(size) ==
    LET a == slob_alloc(ring, freePages, size + SLOB_UNIT)
    IN  /\ size < PAGE_SIZE - SLOB_UNIT
        /\ ring' = a.r /\ freePages' = a.pages
        /\ blocks' = IF a.block = NULL THEN blocks
                   ELSE blocks \cup {[addr |-> a.block + 1, size |-> size]}
        /\ UNCHANGED bigblocks

(* A large block: first the bigblock_t, which is freed again when there is *)
(* no run of pages.                                                        *)
kmalloc_big(size) ==
    LET a     == slob_alloc(ring, freePages, BIGBLOCK)
        order == find_order(size)
        runs  == Runs(a.pages, order)
        p     == Min(runs)
    IN  /\ size >= PAGE_SIZE - SLOB_UNIT
        /\ CASE a.block = NULL ->
                  /\ ring' = a.r /\ freePages' = a.pages
                  /\ UNCHANGED <<bigblocks, blocks>>
             [] a.block # NULL /\ runs = {} ->
                  /\ ring' = slob_free(a.r, a.block, SLOB_UNITS(BIGBLOCK))
                  /\ freePages' = a.pages
                  /\ UNCHANGED <<bigblocks, blocks>>
             [] OTHER ->
                  /\ ring' = a.r
                  /\ freePages' = a.pages \ (p..(p + 2^order - 1))
                  /\ bigblocks' = <<[at |-> a.block, order |-> order,
                                     pages |-> p * PageUnits]>> \o bigblocks
                  /\ blocks' = blocks \cup {[addr |-> p * PageUnits, size |-> size]}

(* kfree: a pointer to the start of a page may be in the list of large     *)
(* blocks; otherwise the block begins one unit before it.                  *)
kfree(x) ==
    LET k == SelectInSeq(bigblocks, LAMBDA bb : bb.pages = x.addr)
    IN  /\ blocks' = blocks \ {x}
        /\ IF x.addr % PageUnits = 0 /\ k # 0
           THEN LET bb == bigblocks[k]
                    p  == bb.pages \div PageUnits
                IN  /\ bigblocks' = RemoveAt(bigblocks, k)
                    /\ freePages' = freePages \cup (p..(p + 2^bb.order - 1))
                    /\ ring' = slob_free(ring, bb.at, SLOB_UNITS(BIGBLOCK))
           ELSE /\ ring' = slob_free(ring, x.addr - 1, SLOB_UNITS(x.size + SLOB_UNIT))
                /\ UNCHANGED <<bigblocks, freePages>>

HeapNext ==
    \/ /\ Cardinality(blocks) < MaxBlocks
       /\ \E size \in Sizes : kmalloc_small(size) \/ kmalloc_big(size)
    \/ \E x \in blocks : kfree(x)

HeapSpec == HeapInit /\ [][HeapNext]_heap_vars

-----------------------------------------------------------------------------
Span(a, n) == a..(a + n - 1)

BigBlocks == {bigblocks[k] : k \in DOMAIN bigblocks}

SmallBlocks == {x \in blocks : \A bb \in BigBlocks : bb.pages # x.addr}

(* What occupies units: free blocks, small blocks with their headers,      *)
(* bigblock_t objects, and the pages of large blocks.                      *)
Uses ==
    ({"free"} \X DOMAIN ring.units) \cup ({"small"} \X SmallBlocks)
        \cup ({"bigblock_t", "pages"} \X BigBlocks)

Units(use) ==
    LET x == use[2]
    IN  CASE use[1] = "free"       -> Span(x, ring.units[x])
          [] use[1] = "small"      -> Span(x.addr - 1, SLOB_UNITS(x.size + SLOB_UNIT))
          [] use[1] = "bigblock_t" -> Span(x.at, SLOB_UNITS(BIGBLOCK))
          [] use[1] = "pages"      -> Span(x.pages, 2^x.order * PageUnits)

Taken == UNION {Span(p * PageUnits, PageUnits) : p \in (0..(heap_pages - 1)) \ freePages}

(* Every unit of every page that was taken has one use, after any sequence *)
(* of calls, also those that failed.                                       *)
NoOverlap ==
    /\ UNION {Units(use) : use \in Uses} = Taken \cup {arena}
    /\ \A s, t \in Uses : s # t => Units(s) \cap Units(t) = {}

(* The ring goes once around in the order of the addresses, so every walk  *)
(* ends, and what touches is joined.                                       *)
RingOK ==
    /\ ring.slobfree \in DOMAIN ring.next
    /\ \A b \in DOMAIN ring.next :
          LET later == {c \in DOMAIN ring.next : c > b}
          IN  /\ ring.next[b] = IF later = {} THEN arena ELSE Min(later)
              /\ later # {} => b + ring.units[b] < ring.next[b]

(* A large block has at least the bytes that were asked for.               *)
BigEnough ==
    \A x \in blocks, bb \in BigBlocks :
        bb.pages = x.addr => 2^bb.order * PAGE_SIZE >= x.size

(* Blocks of the kernel heap never overlap, every unit of every page taken *)
(* is in one of them, and free neighbours are joined (kmalloc.c).          *)
HeapOK == NoOverlap /\ RingOK /\ BigEnough
=============================================================================
