--------------------------------- MODULE Vm ---------------------------------
(***************************************************************************)
(* Address spaces: kern/mm/vmm.c (areas, page faults), the page tables of  *)
(* kern/mm/pmm.c, and the parts of do_fork, do_execve, do_exit and do_wait *)
(* in kern/process/proc.c that take and give back memory.                  *)
(*                                                                         *)
(* The kernel is not preemptive and none of these calls sleeps, so each is *)
(* one step.  Their code is a sequence of calls that may fail; here it is  *)
(* a composition of operators on a record s that holds what they share,    *)
(* and an operator that is applied after a failure changes nothing:        *)
(*   free, ref, data   free frames, Page.ref, contents of the frames       *)
(*   heap              live proc_struct, mm_struct and vma_struct objects  *)
(*   mm                the address space that the call works on            *)
(*   page              the page that the latest allocation returned        *)
(*   err               "ok", an error code, or the reason of a panic       *)
(* Addresses are counted in units smaller than a page, so that the         *)
(* rounding of mm_map and the loops of load_icode are kept.                *)
(***************************************************************************)
EXTENDS Integers, Sequences, SequencesExt, FiniteSetsExt

CONSTANTS
    Procs,        \* processes; their number is MAX_PROCESS
    MemSizes,     \* possible numbers of frames of the machine
    PGSIZE,       \* addresses per page
    PTPAGES,      \* pages per page table: PTSIZE / PGSIZE
    USERTOP,      \* user addresses are 0 .. USERTOP - 1
    USTACKPAGE,   \* pages of the user stack
    StackNow,     \* how many of them load_icode allocates at once
    Elf,          \* [program name |-> ELF file]
    Touched,      \* addresses that programs read and write
    MaxCalls      \* bound: forks and execs

VmAssumption ==
    /\ PGSIZE \in Nat \ {0} /\ PTPAGES \in Nat \ {0}
    /\ USERTOP % (PGSIZE * PTPAGES) = 0
    /\ StackNow <= USTACKPAGE /\ USTACKPAGE * PGSIZE <= USERTOP

VARIABLES
    nframe,        \* frames of this machine
    swap_init_ok,  \* did swap_init succeed (swap.c:47)
    km,            \* [free, ref, data, heap]
    proc,          \* [Procs -> process]
    panic,         \* "" or why the kernel has stopped
    loading,       \* the program that was being loaded when it stopped, or ""
    calls          \* forks and execs so far

vars == <<nframe, swap_init_ok, km, proc, panic, loading, calls>>

NULL == -1

Frames == 0..(nframe - 1)
USTACK == USERTOP - USTACKPAGE * PGSIZE
UserPages == 0..(USERTOP \div PGSIZE - 1)
PDX(v) == v \div PTPAGES                 \* of a page number
PageOf(a) == a \div PGSIZE
RoundUp(a) == ((a + PGSIZE - 1) \div PGSIZE) * PGSIZE
RoundDown(a) == (a \div PGSIZE) * PGSIZE

NoPte == [frame |-> NULL, w |-> FALSE]

NoMM == [pgdir |-> NULL]

(* mm_create and vma_create: kmalloc serves objects of this size from its  *)
(* own pages.                                                              *)
mm_create ==
    [pgdir |-> NULL, pde |-> [d \in {PDX(v) : v \in UserPages} |-> NULL],
     pte |-> [v \in UserPages |-> NoPte], vmas |-> <<>>, mmap_cache |-> 0, mm_count |-> 0]

vma_create(start, end, flags) == [vm_start |-> start, vm_end |-> end, vm_flags |-> flags]

NoProc == [state |-> "none", name |-> "", kstack |-> NULL, filesp |-> NULL, mm |-> NoMM]

(* The content of a frame that is new to its user; what the last user has  *)
(* left in it is not told apart.                                           *)
Junk == [o \in 0..(PGSIZE - 1) |-> -1]

OK(s) == s.err = "ok"

Fail(s, code) == [s EXCEPT !.err = code]

-----------------------------------------------------------------------------
(* alloc_pages: the lowest run of n free frames (first fit).  When one     *)
(* frame cannot be had, swap_out is called with check_mm_struct, which is  *)
(* NULL once the boot checks are over: the kernel faults and panics.       *)
alloc_pages(s, n) ==
    LET fit == {f \in Frames : f..(f + n - 1) \subseteq s.free}
    IN  CASE ~OK(s) -> s
          [] OK(s) /\ fit # {} -> [s EXCEPT !.page = Min(fit), !.free = @ \ (Min(fit)..(Min(fit) + n - 1))]
          [] OK(s) /\ fit = {} /\ (n > 1 \/ ~swap_init_ok) -> Fail(s, "E_NO_MEM")
          [] OTHER -> Fail(s, "swap_out(NULL)")

free_pages(s, f, n) ==
    [s EXCEPT !.free = @ \cup (f..(f + n - 1)),
              !.ref = [g \in DOMAIN @ |-> IF g \in f..(f + n - 1) THEN 0 ELSE @[g]],
              !.data = [g \in DOMAIN @ |-> IF g \in f..(f + n - 1) THEN Junk ELSE @[g]]]

(* get_pte with create: the page table of page v, a new one if there is    *)
(* none.                                                                   *)
get_pte(s, v) ==
    LET t == alloc_pages(s, 1)
    IN  IF ~OK(s) \/ s.mm.pde[PDX(v)] # NULL THEN s
        ELSE IF ~OK(t) THEN t
        ELSE [t EXCEPT !.mm.pde[PDX(v)] = t.page, !.ref[t.page] = 1]

page_remove_pte(s, v) ==
    LET f == s.mm.pte[v].frame
        t == [s EXCEPT !.ref[f] = @ - 1, !.mm.pte[v] = NoPte]
    IN  IF f = NULL THEN s
        ELSE IF t.ref[f] = 0 THEN free_pages(t, f, 1)
        ELSE t

(* page_insert: v is mapped to frame f, once its table is there.           *)
set_pte(s, f, v, w) ==
    LET t == IF s.mm.pte[v].frame = f THEN s
             ELSE page_remove_pte([s EXCEPT !.ref[f] = @ + 1], v)
    IN  IF OK(s) THEN [t EXCEPT !.mm.pte[v] = [frame |-> f, w |-> w]] ELSE s

page_insert(s, f, v, w) == set_pte(get_pte(s, v), f, v, w)

(* pgdir_alloc_page: a new frame, with whatever it held, mapped at v.      *)
map_new(s, f, v, w) ==
    LET t == page_insert(s, f, v, w)
    IN  IF ~OK(s) THEN s
        ELSE IF t.err = "E_NO_MEM" THEN free_pages(t, f, 1) ELSE [t EXCEPT !.page = f]

pgdir_alloc_page(s, v, w) ==
    LET t == alloc_pages(s, 1) IN map_new(t, t.page, v, w)

(* unmap_range and exit_range: the pages, or the page tables, of an area.  *)
unmap_range(s, vma) ==
    LET first == PageOf(vma.vm_start)
        unmapped[k \in Nat] ==
            IF k = 0 THEN s ELSE page_remove_pte(unmapped[k - 1], first + k - 1)
    IN  unmapped[PageOf(vma.vm_end) - first]

free_table(s, d) ==
    IF s.mm.pde[d] = NULL THEN s
    ELSE [free_pages(s, s.mm.pde[d], 1) EXCEPT !.mm.pde[d] = NULL]

exit_range(s, vma) ==
    LET first == PDX(PageOf(vma.vm_start))
        freed[k \in Nat] == IF k = 0 THEN s ELSE free_table(freed[k - 1], first + k - 1)
    IN  freed[PDX(PageOf(vma.vm_end) - 1) + 1 - first]

(* exit_mmap: all pages first, then the page tables, which areas may share *)
exit_mmap(s) ==
    LET n == Len(s.mm.vmas)
        done[k \in Nat] ==
            IF k = 0 THEN s
            ELSE IF k <= n THEN unmap_range(done[k - 1], s.mm.vmas[k])
            ELSE exit_range(done[k - 1], s.mm.vmas[k - n])
    IN  done[2 * n]

put_pgdir(s) == free_pages(s, s.mm.pgdir, 1)

mm_destroy(s) == [s EXCEPT !.heap = @ - 1 - Len(s.mm.vmas), !.mm = NoMM]

setup_pgdir(s) ==
    LET t == alloc_pages(s, 1) IN IF OK(t) THEN [t EXCEPT !.mm.pgdir = t.page] ELSE t

(* The three levels of clean-up of copy_mm, load_icode and do_exit.        *)
drop_mm(s) ==
    LET t == IF s.mm.pgdir = NULL THEN [s EXCEPT !.err = "ok"]
             ELSE put_pgdir(exit_mmap([s EXCEPT !.err = "ok"]))
    IN  Fail(mm_destroy(t), s.err)

-----------------------------------------------------------------------------
(* find_vma: the cached area if it has the address, otherwise the first in *)
(* the list that does; 0 for NULL.  It becomes the cached one.             *)
Has(vma, a) == vma.vm_start <= a /\ a < vma.vm_end

find_vma(mm, a) ==
    IF mm.mmap_cache # 0 /\ Has(mm.vmas[mm.mmap_cache], a) THEN mm.mmap_cache
    ELSE SelectInSeq(mm.vmas, LAMBDA vma : Has(vma, a))

Cached(mm, k) == IF k = 0 THEN mm ELSE [mm EXCEPT !.mmap_cache = k]

(* insert_vma_struct: in the order of vm_start; an overlap with a          *)
(* neighbour fails the assertions of check_vma_overlap.                    *)
insert_vma_struct(s, vma) ==
    LET vmas == s.mm.vmas
        k    == Cardinality({j \in DOMAIN vmas : vmas[j].vm_start <= vma.vm_start})
        ok   == /\ vma.vm_start < vma.vm_end
                /\ k > 0 => vmas[k].vm_end <= vma.vm_start
                /\ k < Len(vmas) => vma.vm_end <= vmas[k + 1].vm_start
    IN  IF ~OK(s) THEN s
        ELSE IF ~ok THEN Fail(s, "check_vma_overlap")
        ELSE [s EXCEPT !.mm.vmas = InsertAt(vmas, k + 1, vma), !.heap = @ + 1,
                       !.mm.mmap_cache = IF @ > k THEN @ + 1 ELSE @]

mm_map(s, addr, len, flags) ==
    LET start == RoundDown(addr)
        end   == RoundUp(addr + len)
        k     == find_vma(s.mm, start)
        t     == [s EXCEPT !.mm = Cached(@, k)]
    IN  IF ~OK(s) THEN s
        ELSE IF ~(start < end /\ end <= USERTOP) \/ (k # 0 /\ end > s.mm.vmas[k].vm_start)
        THEN Fail(t, "E_INVAL")
        ELSE insert_vma_struct(t, vma_create(start, end, flags))

(* copy_range: a frame of its own for every page that is present.  The     *)
(* frame is asserted to be there.                                          *)
copy_into(s, from, v) ==
    LET f == s.page
    IN  IF s.err = "E_NO_MEM" THEN Fail(s, "npage!=NULL")
        ELSE IF ~OK(s) THEN s
        ELSE page_insert([s EXCEPT !.data[f] = s.data[from.pte[v].frame]], f, v, from.pte[v].w)

copy_page(s, from, v) ==
    IF OK(s) THEN copy_into(alloc_pages(s, 1), from, v) ELSE s

copy_range(s, from, vma) ==
    LET first == PageOf(vma.vm_start)
        copied[k \in Nat] ==
            IF k = 0 THEN s
            ELSE LET v == first + k - 1
                 IN  IF from.pte[v].frame = NULL THEN copied[k - 1]
                     ELSE copy_page(get_pte(copied[k - 1], v), from, v)
    IN  copied[PageOf(vma.vm_end) - first]

(* dup_mmap goes through the list from its end.                            *)
dup_mmap(s, from) ==
    LET n == Len(from.vmas)
        dup[k \in Nat] ==
            IF k = 0 THEN s
            ELSE LET vma == from.vmas[n + 1 - k]
                 IN  copy_range(insert_vma_struct(dup[k - 1], vma), from, vma)
    IN  dup[n]

(* copy_mm for a user process: CLONE_VM is only used by kernel threads.    *)
mm_made(s) ==
    CASE OK(s) -> [s EXCEPT !.mm.mm_count = @ + 1]
      [] s.err \in {"E_NO_MEM", "E_INVAL"} -> drop_mm(s)
      [] OTHER -> s

copy_mm(s, oldmm) ==
    IF ~OK(s) THEN s
    ELSE mm_made(dup_mmap(setup_pgdir([s EXCEPT !.mm = mm_create, !.heap = @ + 1]), oldmm))

-----------------------------------------------------------------------------
fault_page(s, v, w) ==
    IF ~OK(s) THEN s
    ELSE IF s.mm.pte[v].frame # NULL THEN Fail(s, "error write a non-writable pte")
    ELSE pgdir_alloc_page(s, v, w)

(* do_pgfault for the address a.  error_code: bit 0 the page is present,   *)
(* bit 1 the access is a write.                                            *)
do_pgfault(s, error_code, a) ==
    LET k     == find_vma(s.mm, a)
        flags == s.mm.vmas[k].vm_flags
        t     == [s EXCEPT !.mm = Cached(@, k)]
        v     == PageOf(a)
    IN  IF k = 0 THEN Fail(s, "E_INVAL")
        ELSE IF \/ error_code \in {2, 3} /\ "W" \notin flags
                \/ error_code = 1
                \/ error_code = 0 /\ flags \cap {"R", "X"} = {}
        THEN Fail(t, "E_INVAL")
        ELSE fault_page(get_pte(t, v), v, "W" \in flags)

(* Can a user address be read, or written, without a fault?                *)
Reachable(mm, a, write) ==
    LET pte == mm.pte[PageOf(a)] IN pte.frame # NULL /\ (write => pte.w)

(* One access of a program: the processor raises a page fault if it must;  *)
(* trap_dispatch panics when do_pgfault fails, and otherwise the access is *)
(* made again.                                                             *)
FaultCode(mm, a, write) ==
    (IF mm.pte[PageOf(a)].frame # NULL THEN 1 ELSE 0) + (IF write THEN 2 ELSE 0)

fault_done(s) ==
    IF s.err \in {"E_INVAL", "E_NO_MEM"} THEN Fail(s, "handle user mode pgfault failed") ELSE s

touch(s, a, write) ==
    IF Reachable(s.mm, a, write) THEN s
    ELSE fault_done(do_pgfault(s, FaultCode(s.mm, a, write), a))

Store(s, a, x) ==
    IF OK(s) THEN [s EXCEPT !.data[s.mm.pte[PageOf(a)].frame][a % PGSIZE] = x] ELSE s

(* Faulty variant: only the area of the first address is looked at.      *)
user_mem_check_first(mm, addr, len, write) ==
    LET k == find_vma(mm, addr)
    IN  /\ 0 < len /\ addr + len <= USERTOP
        /\ k # 0 /\ (IF write THEN "W" ELSE "R") \in mm.vmas[k].vm_flags

(* user_mem_check: area by area; the lowest page of the stack may not be   *)
(* written.                                                                *)
user_mem_check(mm, addr, len, write) ==
    LET flag == IF write THEN "W" ELSE "R"
        Good(start) ==
            LET k == find_vma(mm, start)
            IN  /\ k # 0
                /\ flag \in mm.vmas[k].vm_flags
                /\ write /\ "STACK" \in mm.vmas[k].vm_flags
                       => start >= mm.vmas[k].vm_start + PGSIZE
        Step[start \in 0..USERTOP] ==
            start >= addr + len \/ (Good(start) /\ Step[mm.vmas[find_vma(mm, start)].vm_end])
    IN  0 < len /\ addr + len <= USERTOP /\ Step[addr]

-----------------------------------------------------------------------------
(* The pieces of load_icode's loops.  Addresses from .. to - 1, which are  *)
(* on the page of the latest allocation, get the bytes of segment n; it    *)
(* begins at va and its part in the file ends at eof, behind that it is 0. *)
FileByte(n, k) == 10 * n + k        \* byte k of segment n in the file
Zero == 0
ArgByte == 1                        \* the arguments on the user stack

fill(s, from, to, n, va, eof) ==
    LET la == RoundDown(from)
    IN  IF ~OK(s) THEN s
        ELSE [s EXCEPT !.data[s.page] =
                 [o \in DOMAIN @ |-> IF la + o \notin from..(to - 1) THEN @[o]
                                     ELSE IF la + o < eof THEN FileByte(n, la + o - va)
                                     ELSE Zero]]

(* load_icode_read may come back short.                                    *)
read_or_fail(s, ph) == IF OK(s) /\ ~ph.readable THEN Fail(s, "short read") ELSE s

(* The first loop of load_icode: pages that the file has something for.    *)
load_file_pages(s, n, ph, w) ==
    LET end == ph.va + ph.filesz
        la(k) == RoundDown(ph.va) + (k - 1) * PGSIZE
        loaded[k \in Nat] ==
            IF k = 0 THEN s
            ELSE fill(read_or_fail(pgdir_alloc_page(loaded[k - 1], PageOf(la(k)), w), ph),
                      Max({la(k), ph.va}), Min({la(k) + PGSIZE, end}), n, ph.va, end)
    IN  loaded[PageOf(RoundUp(end)) - PageOf(ph.va)]

(* The last loop: whole pages of BSS, from address start on.               *)
clear_pages(s, start, end, w) ==
    LET la(k) == start + (k - 1) * PGSIZE
        cleared[k \in Nat] ==
            IF k = 0 THEN s
            ELSE fill(pgdir_alloc_page(cleared[k - 1], PageOf(la(k)), w),
                      la(k), Min({la(k) + PGSIZE, end}), 0, 0, 0)
    IN  cleared[PageOf(RoundUp(end)) - PageOf(start)]

(* Faulty variant: only whole pages of BSS are cleared.                  *)
load_bss_whole(s, ph, w) == clear_pages(s, RoundUp(ph.va + ph.filesz), ph.va + ph.memsz, w)

(* The rest of the last file page up to the end of the segment, then the   *)
(* pages of BSS.                                                           *)
load_bss(s, ph, w) ==
    LET start == ph.va + ph.filesz
        end   == ph.va + ph.memsz
        t     == IF start % PGSIZE = 0 \/ start = end THEN s
                 ELSE fill(s, start, Min({RoundUp(start), end}), 0, 0, 0)
    IN  clear_pages(t, RoundUp(start), end, w)

(* One program header.                                                     *)
load_segment(s, n, ph) ==
    LET w == "W" \in ph.flags
    IN  IF ~OK(s) THEN s
        ELSE IF ph.filesz > ph.memsz THEN Fail(s, "E_INVAL_ELF")
        ELSE IF ph.filesz = 0 THEN s
        ELSE load_bss(load_file_pages(mm_map(s, ph.va, ph.memsz, ph.flags), n, ph, w), ph, w)

(* The user stack: its top pages are asserted to be there.                 *)
stack_page(s) ==
    IF s.err = "E_NO_MEM" THEN Fail(s, "pgdir_alloc_page(USTACK) != NULL") ELSE s

stack_pages(s) ==
    LET pages[k \in Nat] ==
            IF k = 0 THEN s
            ELSE stack_page(pgdir_alloc_page(pages[k - 1], PageOf(USERTOP) - k, TRUE))
    IN  IF OK(s) THEN pages[StackNow] ELSE s

load_stack(s) == stack_pages(mm_map(s, USTACK, USTACKPAGE * PGSIZE, {"R", "W", "STACK"}))

Errors == {"E_NO_MEM", "E_INVAL", "E_INVAL_ELF", "short read"}

load_elf(s, elf) ==
    LET loaded[n \in Nat] ==
            IF n = 0 THEN s ELSE load_segment(loaded[n - 1], n, elf.ph[n])
    IN  IF OK(s) /\ ~elf.magic THEN Fail(s, "E_INVAL_ELF")
        ELSE load_stack(loaded[Len(elf.ph)])

icode_loaded(s) ==
    CASE OK(s) -> Store([s EXCEPT !.mm.mm_count = @ + 1], USERTOP - 1, ArgByte)
      [] s.err \in Errors -> drop_mm(s)
      [] OTHER -> s

load_icode(s, elf) ==
    icode_loaded(load_elf(setup_pgdir([s EXCEPT !.mm = mm_create, !.heap = @ + 1]), elf))

-----------------------------------------------------------------------------
(* do_fork takes the proc_struct, the kernel stack, the files and the      *)
(* address space in this order, and gives them back in the opposite one    *)
(* when a later one cannot be had.                                         *)
Work == [free |-> km.free, ref |-> km.ref, data |-> km.data, heap |-> km.heap,
         mm |-> NoMM, page |-> NULL, err |-> "ok"]

(* Faulty variant: without memory for the address space the files stay.  *)
fork_undo_short(s, kstack, filesp) ==
    LET t == IF kstack = NULL THEN s ELSE free_pages(s, kstack, 2)
    IN  [t EXCEPT !.heap = @ - 1]

(* bad_fork_cleanup_fs, _kstack and _proc.                                 *)
fork_undo(s, kstack, filesp) ==
    LET t == IF filesp = NULL THEN s ELSE free_pages(s, filesp, 1)
        u == IF kstack = NULL THEN t ELSE free_pages(t, kstack, 2)
    IN  [u EXCEPT !.heap = @ - 1]

fork_resources(oldmm) ==
    LET s1 == alloc_pages([Work EXCEPT !.heap = @ + 1], 2)       \* setup_kstack
        s2 == alloc_pages(s1, 1)                                 \* files_create
        s3 == copy_mm(s2, oldmm)
        kstack == IF s1.err = "ok" THEN s1.page ELSE NULL
        filesp == IF s2.err = "ok" THEN s2.page ELSE NULL
    IN  [s |-> IF s3.err = "E_NO_MEM" THEN fork_undo(s3, kstack, filesp) ELSE s3,
         kstack |-> kstack, filesp |-> filesp]

(* The kernel memory after a call, or a panic.                             *)
Commit(s) ==
    IF s.err \in {"ok"} \cup Errors
    THEN /\ km' = [free |-> s.free, ref |-> s.ref, data |-> s.data, heap |-> s.heap]
         /\ UNCHANGED panic
    ELSE panic' = s.err /\ UNCHANGED km

do_fork(p, c) ==
    LET r == fork_resources(proc[p].mm)
    IN  /\ proc[p].state = "live" /\ proc[p].mm # NoMM
        /\ proc[c].state = "none"
        /\ Commit(r.s)
        /\ proc' = IF r.s.err = "ok"
                   THEN [proc EXCEPT ![c] = [state |-> "live", name |-> "", kstack |-> r.kstack,
                                             filesp |-> r.filesp, mm |-> r.s.mm]]
                   ELSE proc

(* The address space of a process goes when nobody else counts on it.      *)
leave_mm(s, mm) ==
    IF mm = NoMM THEN s
    ELSE drop_mm([s EXCEPT !.mm = [mm EXCEPT !.mm_count = @ - 1]])

(* do_exit; the kernel stack and the proc_struct stay for do_wait.         *)
Exited(s, pr) == [s |-> free_pages(s, pr.filesp, 1),
                  pr |-> [pr EXCEPT !.state = "zombie", !.name = "", !.filesp = NULL, !.mm = NoMM]]

do_exit(p) ==
    LET x == Exited(leave_mm(Work, proc[p].mm), proc[p])
    IN  /\ proc[p].state = "live" /\ proc[p].mm # NoMM
        /\ Commit(x.s)
        /\ proc' = [proc EXCEPT ![p] = x.pr]

(* do_execve: a process that cannot be given its new program exits.  name  *)
(* is unlike the current one (a bound on what is run).                     *)
do_execve(p, name) ==
    LET s == load_icode(leave_mm(Work, proc[p].mm), Elf[name])
        x == Exited([s EXCEPT !.err = "ok"], proc[p])
    IN  /\ proc[p].state = "live" /\ name # proc[p].name
        /\ IF s.err \in Errors
           THEN Commit(x.s) /\ proc' = [proc EXCEPT ![p] = x.pr]
           ELSE /\ Commit(s)
                /\ proc' = IF s.err = "ok" THEN [proc EXCEPT ![p].mm = s.mm, ![p].name = name]
                           ELSE proc
        /\ loading' = IF s.err \in {"ok"} \cup Errors THEN loading ELSE name

(* do_wait gives back the kernel stack and the proc_struct of a zombie.    *)
do_wait(p) ==
    /\ proc[p].state = "zombie"
    /\ Commit([free_pages(Work, proc[p].kstack, 2) EXCEPT !.heap = @ - 1])
    /\ proc' = [proc EXCEPT ![p] = NoProc]

user_read(p, a) ==
    LET s == touch([Work EXCEPT !.mm = proc[p].mm], a, FALSE)
    IN  /\ proc[p].state = "live" /\ proc[p].mm # NoMM
        /\ Commit(s)
        /\ proc' = IF s.err = "ok" THEN [proc EXCEPT ![p].mm = s.mm] ELSE proc

user_write(p, a) ==
    LET s == Store(touch([Work EXCEPT !.mm = proc[p].mm], a, TRUE), a, ArgByte + 1)
    IN  /\ proc[p].state = "live" /\ proc[p].mm # NoMM
        /\ Commit(s)
        /\ proc' = IF s.err = "ok" THEN [proc EXCEPT ![p].mm = s.mm] ELSE proc

(* user_main, a kernel thread, has a kernel stack and files but no address *)
(* space.                                                                  *)
Init ==
    /\ nframe \in MemSizes
    /\ swap_init_ok \in BOOLEAN
    /\ LET main == CHOOSE p \in Procs : TRUE
       IN  /\ proc = [p \in Procs |->
                        IF p = main
                        THEN [NoProc EXCEPT !.state = "live", !.kstack = 0, !.filesp = 2]
                        ELSE NoProc]
           /\ km = [free |-> Frames \ 0..2, ref |-> [f \in Frames |-> 0],
                    data |-> [f \in Frames |-> Junk], heap |-> 1]
    /\ panic = ""
    /\ loading = ""
    /\ calls = 0

Next ==
    /\ panic = ""
    /\ \E p \in Procs :
          \/ /\ calls < MaxCalls
             /\ \/ \E c \in Procs : do_fork(p, c) /\ UNCHANGED loading
                \/ \E name \in DOMAIN Elf : do_execve(p, name)
             /\ calls' = calls + 1
          \/ /\ \/ do_exit(p)
                \/ do_wait(p)
                \/ \E a \in Touched : user_read(p, a) \/ user_write(p, a)
             /\ UNCHANGED <<loading, calls>>
    /\ UNCHANGED <<nframe, swap_init_ok>>

Spec == Init /\ [][Next]_vars

-----------------------------------------------------------------------------
Users == {p \in Procs : proc[p].mm # NoMM}

(* Every use of a frame: by whom, as what and where.                       *)
Uses ==
       {<<p, "kstack", k, proc[p].kstack + k>> :
            p \in {q \in Procs : proc[q].kstack # NULL}, k \in {0, 1}}
  \cup {<<p, "files", 0, proc[p].filesp>> : p \in {q \in Procs : proc[q].filesp # NULL}}
  \cup UNION {LET mm == proc[p].mm
              IN       {<<p, "pgdir", 0, mm.pgdir>>}
                  \cup {<<p, "table", d, mm.pde[d]>> : d \in {e \in DOMAIN mm.pde : mm.pde[e] # NULL}}
                  \cup {<<p, "page", v, mm.pte[v].frame>> : v \in {w \in UserPages : mm.pte[w].frame # NULL}}
              : p \in Users}

(* Whatever calls failed halfway, every frame has one use or is free, and  *)
(* counts the references to it; and no kernel object is lost.              *)
FramesOK ==
    /\ LET uses == Uses
       IN  \A f \in Frames :
              LET u == {x \in uses : x[4] = f}
              IN  /\ Cardinality(u) + (IF f \in km.free THEN 1 ELSE 0) = 1
                  /\ km.ref[f] = Cardinality({x \in u : x[2] \in {"table", "page"}})
    /\ km.heap = Cardinality({p \in Procs : proc[p].state # "none"})
                 + Cardinality(Users)
                 + FoldSet(LAMBDA p, n : n + Len(proc[p].mm.vmas), 0, Users)
    /\ \A p \in Users : proc[p].mm.mm_count = 1

(* The areas are sorted and disjoint; what is mapped lies in an area, with *)
(* its permission and in a table that is there.                            *)
AreasOK(mm) ==
    /\ \A j, k \in DOMAIN mm.vmas : j < k => mm.vmas[j].vm_end <= mm.vmas[k].vm_start
    /\ mm.mmap_cache \in 0..Len(mm.vmas)
    /\ \A v \in UserPages : mm.pte[v].frame # NULL =>
          /\ mm.pde[PDX(v)] # NULL
          /\ \E k \in DOMAIN mm.vmas :
                Has(mm.vmas[k], v * PGSIZE) /\ mm.pte[v].w = ("W" \in mm.vmas[k].vm_flags)

(* What user_mem_check lets pass the kernel can read or write: a fault at  *)
(* an address of it is never refused as invalid.                           *)
ChecksOK(mm) ==
    \A a \in 0..(USERTOP - 1), n \in 1..(2 * PGSIZE), write \in BOOLEAN :
        user_mem_check(mm, a, n, write) =>
            \A b \in a..(a + n - 1) :
                \/ Reachable(mm, b, write)
                \/ do_pgfault([Work EXCEPT !.mm = mm], FaultCode(mm, b, write), b).err # "E_INVAL"

(* The areas that load_icode asks for: segments without anything in the    *)
(* file are skipped, and the stack comes last.                             *)
Areas(elf) ==
    LET area(ph) == [start |-> RoundDown(ph.va), end |-> RoundUp(ph.va + ph.memsz)]
        mapped   == SelectSeq(elf.ph, LAMBDA ph : ph.filesz # 0)
    IN  Append([n \in DOMAIN mapped |-> area(mapped[n])], [start |-> USTACK, end |-> USERTOP])

(* A later area begins below an earlier one and reaches into it: mm_map    *)
(* only looks for an area around the new one's start (vmm.c:180).          *)
Overlapping(elf) ==
    LET areas == Areas(elf)
    IN  \E m, n \in DOMAIN areas :
            m < n /\ areas[n].start < areas[m].start /\ areas[m].start < areas[n].end

(* Address spaces stay well formed, and system call arguments that were    *)
(* checked can be used.  The assertion on page table entries never fails,  *)
(* and that of check_vma_overlap only while a program is loaded whose      *)
(* areas overlap in the way that mm_map does not see.                      *)
SpacesOK ==
    /\ \A p \in Users : AreasOK(proc[p].mm) /\ ChecksOK(proc[p].mm)
    /\ panic # "error write a non-writable pte"
    /\ panic = "check_vma_overlap" => loading # "" /\ Overlapping(Elf[loading])

-----------------------------------------------------------------------------
(* The reference for load_icode: what a program's memory holds.  A segment *)
(* of which the file holds nothing is not part of it: proc.c:808 skips     *)
(* such a header, and its BSS is never mapped.                             *)
Image(elf) ==
    LET mapped == {n \in DOMAIN elf.ph : elf.ph[n].filesz # 0}
        Of(n)  == elf.ph[n].va..(elf.ph[n].va + elf.ph[n].memsz - 1)
    IN  [a \in UNION {Of(n) : n \in mapped} |->
            LET n == CHOOSE m \in mapped : a \in Of(m)
                k == a - elf.ph[n].va
            IN  IF k < elf.ph[n].filesz THEN FileByte(n, k) ELSE Zero]

UserMem ==
    INSTANCE UserMemory WITH
        Addrs   <- 0..(USERTOP - 1),
        Values  <- {ArgByte + 1},
        Program <- [name \in DOMAIN Elf |-> Image(Elf[name])],
        mem     <- [p \in Procs |->
                      IF p \notin Users THEN [a \in {} |-> 0]
                      ELSE [a \in {b \in 0..(USERTOP - 1) : Reachable(proc[p].mm, b, FALSE)} |->
                              km.data[proc[p].mm.pte[PageOf(a)].frame][a % PGSIZE]]],
        name    <- [p \in Procs |-> proc[p].name]

(* Page tables, fork's copies and the loader give every program the memory *)
(* of its own that UserMemory describes.                                   *)
MemoryPromise == UserMem!Spec
=============================================================================
