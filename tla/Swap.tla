-------------------------------- MODULE Swap --------------------------------
(***************************************************************************)
(* Page replacement: kern/mm/swap.c, swap_fifo.c and kern/fs/swap/swapfs.c *)
(* with the paths of alloc_pages and do_pgfault that use them.  They work  *)
(* while check_mm_struct is set, as in check_swap: one address space with  *)
(* a page table, more pages than frames, and interrupts that do not touch  *)
(* any of this.                                                            *)
(*                                                                         *)
(* The processor caches translations (tlb) and asks the page table only    *)
(* when it has none, so a stale one would be used.  A page fault is        *)
(* handled in steps because alloc_pages calls swap_out until a frame is    *)
(* free: writing to the swap disk may fail, and then another victim is     *)
(* tried.  The disk is taken to be readable: swap_in ignores the result of *)
(* swapfs_read.                                                            *)
(***************************************************************************)
EXTENDS Integers, Sequences, SequencesExt, FiniteSetsExt

CONSTANTS
    VPages,      \* page numbers of the area
    nframe,      \* frames that are left: CHECK_VALID_PHY_PAGE_NUM
    AnyPages, nany,  \* pages and frames where any access may come
    Values,      \* what programs write
    MaxFailures  \* bound: failed writes to the swap disk

(* The pages that check_swap writes, one after the other, and the number   *)
(* of page faults that it asserts after each.                              *)
check_content_set ==
    [page |-> <<1, 1, 2, 2, 3, 3, 4, 4>>, faults |-> <<1, 1, 2, 2, 3, 3, 4, 4>>]

fifo_check_swap ==
    [page   |-> <<3, 1, 4, 2, 5, 2, 1, 2, 3, 4, 5, 1>>,
     faults |-> <<4, 4, 4, 4, 5, 5, 6, 7, 8, 9, 10, 11>>]

CheckPages == check_content_set.page \o fifo_check_swap.page

CheckFaults == check_content_set.faults \o fifo_check_swap.faults

SwapAssumption ==
    /\ VPages \subseteq Nat /\ AnyPages \subseteq VPages
    /\ nframe \in Nat /\ nany \in 1..nframe
    /\ CheckPages \in Seq(VPages)

VARIABLES
    free,       \* free frames
    pte,        \* [VPages -> entry]
    pra_list,   \* frames that may be swapped out, newest first
    pra_vaddr,  \* [Frames -> page]
    data,       \* contents of the frames
    disk,       \* contents of the swap slots
    tlb,        \* [VPages -> Frames or NoFrame]: translations in the processor
    access,     \* the access that waits for do_pgfault: [page, write, value]
    failures, pgfault_num,
    pos         \* position in CheckPages, or 0: any access may come

swap_vars ==
    <<free, pte, pra_list, pra_vaddr, data, disk, tlb, access, failures, pgfault_num, pos>>

Frames == 0..(nframe - 1)
NoFrame == nframe

(* The frames of this run.                                                 *)
Pool == IF pos = 0 THEN 0..(nany - 1) ELSE Frames

NoAccess == [page |-> 0, write |-> FALSE, value |-> 0]
Junk == 0

(* A page table entry is empty, names a frame, or names a swap slot.       *)
Empty == [kind |-> "empty", at |-> 0]
Present(f) == [kind |-> "present", at |-> f]
Swapped(slot) == [kind |-> "swapped", at |-> slot]

(* The slot of a page: (vaddr / PGSIZE + 1) << 8, used by its upper bits.  *)
swap_entry(v) == v + 1

(* The state that check_swap sets up before the first access.              *)
SwapInit ==
    /\ pte = [v \in VPages |-> Empty]
    /\ pra_list = <<>>                       \* swap_init_mm
    /\ pra_vaddr = [f \in Frames |-> 0]
    /\ data = [f \in Frames |-> Junk]
    /\ disk = [s \in {swap_entry(v) : v \in VPages} |-> Junk]
    /\ tlb = [v \in VPages |-> NoFrame]
    /\ access = NoAccess
    /\ failures = 0 /\ pgfault_num = 0
    /\ pos \in {0, 1}
    /\ free = Pool

(* An access of the program: through the tlb, or the page table, whose     *)
(* entry the processor then remembers; or it raises a page fault.          *)
Perform(a, f) ==
    /\ data' = IF a.write THEN [data EXCEPT ![f] = a.value] ELSE data
    /\ tlb' = [tlb EXCEPT ![a.page] = f]

Requested(a) ==
    IF pos = 0 THEN a.page \in AnyPages
    ELSE /\ pos <= Len(CheckPages)
         /\ a.page = CheckPages[pos] /\ a.write /\ a.value = CHOOSE x \in Values : TRUE

NextPos == IF pos = 0 THEN 0 ELSE pos + 1

Hit(a) ==
    /\ access = NoAccess /\ Requested(a)
    /\ \/ tlb[a.page] # NoFrame /\ Perform(a, tlb[a.page])
       \/ /\ tlb[a.page] = NoFrame /\ pte[a.page].kind = "present"
          /\ Perform(a, pte[a.page].at)
    /\ pos' = NextPos
    /\ UNCHANGED <<free, pte, pra_list, pra_vaddr, disk, access, failures, pgfault_num>>

Fault(a) ==
    /\ access = NoAccess /\ Requested(a)
    /\ tlb[a.page] = NoFrame /\ pte[a.page].kind # "present"
    /\ access' = a
    /\ pgfault_num' = IF pos = 0 THEN 0 ELSE pgfault_num + 1   \* watched by check_swap
    /\ UNCHANGED <<free, pte, pra_list, pra_vaddr, data, disk, tlb, failures, pos>>

Evict(v) ==
    /\ tlb[v] # NoFrame
    /\ tlb' = [tlb EXCEPT ![v] = NoFrame]
    /\ UNCHANGED <<free, pte, pra_list, pra_vaddr, data, disk, access, failures, pgfault_num, pos>>

(* Faulty variant: the newest page is the victim.                        *)
swap_out_victim_newest == 1

(* _fifo_swap_out_victim: the place of the page that came first.           *)
swap_out_victim == Len(pra_list)

(* Faulty variant of tlb_invalidate: nothing happens.                    *)
tlb_keep(v) == tlb

tlb_invalidate(v) == [tlb EXCEPT ![v] = NoFrame]

(* swap_out from alloc_pages, when no frame is free.                       *)
swap_out ==
    LET f == pra_list[swap_out_victim]
        v == pra_vaddr[f]
    IN  /\ access # NoAccess /\ free = {} /\ pra_list # <<>>
        /\ disk' = [disk EXCEPT ![swap_entry(v)] = data[f]]      \* swapfs_write
        /\ pte' = [pte EXCEPT ![v] = Swapped(swap_entry(v))]
        /\ free' = free \cup {f}
        /\ pra_list' = RemoveAt(pra_list, swap_out_victim)
        /\ tlb' = tlb_invalidate(v)
        /\ UNCHANGED <<pra_vaddr, data, access, failures, pgfault_num, pos>>

(* swapfs_write fails: the page is mapped as before and counts as new.     *)
swap_out_failed ==
    LET f == pra_list[swap_out_victim]
    IN  /\ access # NoAccess /\ free = {} /\ pra_list # <<>>
        /\ failures < MaxFailures /\ pos = 0
        /\ failures' = failures + 1
        /\ pra_list' = <<f>> \o RemoveAt(pra_list, swap_out_victim)
        /\ UNCHANGED <<free, pte, pra_vaddr, data, disk, tlb, access, pgfault_num, pos>>

(* The rest of do_pgfault: an empty entry gets a new page                  *)
(* (pgdir_alloc_page), another one is read back (swap_in); page_insert and *)
(* swap_map_swappable, then the access is made again.                      *)
do_pgfault ==
    LET v == access.page
    IN  /\ access # NoAccess
        /\ free # {}
        /\ LET f == Min(free) IN
              /\ free' = free \ {f}
              /\ data' = [data EXCEPT ![f] = IF access.write THEN access.value
                                             ELSE IF pte[v].kind = "swapped" THEN disk[pte[v].at]
                                             ELSE Junk]
              /\ pte' = [pte EXCEPT ![v] = Present(f)]
              /\ tlb' = [tlb_invalidate(v) EXCEPT ![v] = f]
              /\ pra_list' = <<f>> \o pra_list
              /\ pra_vaddr' = [pra_vaddr EXCEPT ![f] = v]
        /\ access' = NoAccess
        /\ pos' = NextPos
        /\ UNCHANGED <<disk, failures, pgfault_num>>

(* check_swap is over.                                                     *)
Done == pos = Len(CheckPages) + 1 /\ access = NoAccess /\ UNCHANGED swap_vars

SwapNext ==
    \/ \E a \in [page : VPages, write : {TRUE}, value : Values]
             \cup [page : VPages, write : {FALSE}, value : {Junk}] : Hit(a) \/ Fault(a)
    \/ \E v \in VPages : Evict(v)
    \/ swap_out
    \/ swap_out_failed
    \/ do_pgfault
    \/ Done

SwapSpec == SwapInit /\ [][SwapNext]_swap_vars

-----------------------------------------------------------------------------
Resident == {v \in VPages : pte[v].kind = "present"}

(* The replacement list holds exactly the resident pages, each once and    *)
(* with its address, however often swap_out failed before: the assertion   *)
(* that a victim is present holds, and no frame is lost.                   *)
ReplacementOK ==
    /\ Cardinality({pra_list[k] : k \in DOMAIN pra_list}) = Len(pra_list)
    /\ Len(pra_list) = Cardinality(Resident)
    /\ \A k \in DOMAIN pra_list : pte[pra_vaddr[pra_list[k]]] = Present(pra_list[k])
    /\ free = Pool \ {pra_list[k] : k \in DOMAIN pra_list}

(* check_swap's assertions on pgfault_num: with four frames and these      *)
(* accesses, first-in first-out takes exactly these faults.                *)
FaultsAsChecked ==
    pos > 1 /\ access = NoAccess => pgfault_num = CheckFaults[pos - 1]

(* The replacement list holds exactly the resident pages, however often a  *)
(* write to the swap disk failed, and check_swap takes the page faults it  *)
(* asserts (swap.c, swap_fifo.c).                                          *)
SwapOK == ReplacementOK /\ (pos > 0 => FaultsAsChecked)

(* The pages that were touched, with what the processor finds in them.     *)
Memory ==
    [v \in {w \in VPages : pte[w].kind # "empty"} |->
        CASE tlb[v] # NoFrame -> data[tlb[v]]
          [] tlb[v] = NoFrame /\ pte[v].kind = "present" -> data[pte[v].at]
          [] OTHER -> disk[pte[v].at]]

UserMem ==
    INSTANCE UserMemory WITH
        Procs   <- {"check_mm_struct"},
        Addrs   <- VPages,
        Program <- [x \in {} |-> 0],
        mem     <- [p \in {"check_mm_struct"} |-> Memory],
        name    <- [p \in {"check_mm_struct"} |-> ""]

(* Moving pages to the disk and back is not seen: a page always reads as   *)
(* it was written last, also through translations that the processor has   *)
(* kept.                                                                   *)
SwapPromise == UserMem!Spec
=============================================================================
