------------------------------ MODULE MCMemory ------------------------------
(***************************************************************************)
(* Memory management, one allocator or mapping at a time: the address      *)
(* spaces of processes (Vm), the page allocator (DefaultPmm), the kernel   *)
(* heap (KMalloc) and swapping (Swap).  Each contains what it needs of the *)
(* ones below it, so they share no state: the first state of a behaviour   *)
(* chooses one and the others stay in an initial state.                    *)
(***************************************************************************)
EXTENDS DefaultPmm, KMalloc, Swap

CONSTANTS
    Procs, MemSizes, PGSIZE, PTPAGES, USERTOP, USTACKPAGE, StackNow, Elf, Touched,
    MaxCalls                                               \* of Vm

VARIABLES
    part,
    machine_frames, swap_init_ok, km, proc, panic, loading, calls   \* of Vm

-----------------------------------------------------------------------------
(* Programs for pages of two addresses and tables of two pages, with user  *)
(* addresses 0 .. 11 of which the top two pages are the stack.  "a" has    *)
(* code and unaligned data with BSS, "b" one writable segment, "bss" a     *)
(* second segment of which the file holds nothing.  "above" begins above   *)
(* the base of the stack, and the second segment of "falling" below its    *)
(* first.  The others are files that the loader must refuse.               *)
Segment(va, filesz, memsz, flags) ==
    [va |-> va, filesz |-> filesz, memsz |-> memsz, flags |-> flags, readable |-> TRUE]

MCElf ==
    [a       |-> [magic |-> TRUE,
                  ph |-> <<Segment(0, 2, 2, {"R", "X"}), Segment(3, 1, 3, {"R", "W"})>>],
     b       |-> [magic |-> TRUE, ph |-> <<Segment(4, 1, 2, {"R", "W"})>>],
     bss     |-> [magic |-> TRUE,
                  ph |-> <<Segment(0, 1, 2, {"R", "X"}), Segment(4, 0, 2, {"R", "W"})>>],
     above   |-> [magic |-> TRUE, ph |-> <<Segment(10, 1, 2, {"R", "W"})>>],
     falling |-> [magic |-> TRUE,
                  ph |-> <<Segment(4, 1, 2, {"R", "W"}), Segment(3, 1, 3, {"R", "W"})>>],
     samepage |-> [magic |-> TRUE,
                  ph |-> <<Segment(0, 1, 1, {"R", "X"}), Segment(1, 1, 1, {"R", "W"})>>],
     onstack |-> [magic |-> TRUE, ph |-> <<Segment(6, 1, 4, {"R", "W"})>>],
     cut     |-> [magic |-> TRUE,
                  ph |-> <<[Segment(2, 1, 2, {"R"}) EXCEPT !.readable = FALSE]>>],
     text    |-> [magic |-> FALSE, ph |-> <<>>]]

(* Two regions of usable memory with a reserved page between them.         *)
MCRegions == <<[base |-> 0, n |-> 4], [base |-> 5, n |-> 2]>>

-----------------------------------------------------------------------------
Spaces == INSTANCE Vm WITH nframe <- machine_frames

ASSUME MemoryAssumption ==
    /\ Spaces!VmAssumption
    /\ DefaultPmmAssumption
    /\ KMallocAssumption
    /\ SwapAssumption

vm_vars == <<machine_frames, swap_init_ok, km, proc, panic, loading, calls>>

all_vars == <<part, vm_vars, vars, heap_vars, swap_vars>>

AllInit ==
    /\ part \in {"vm", "pmm", "heap", "swap"}
    /\ Spaces!Init /\ (part # "vm" => machine_frames = Min(MemSizes) /\ ~swap_init_ok)
    /\ Init
    /\ HeapInit
    /\ SwapInit /\ (part # "swap" => pos = 0)

VmNext ==
    /\ part = "vm"
    /\ Spaces!Next
    /\ UNCHANGED <<part, vars, heap_vars, swap_vars>>

PmmNext ==
    /\ part = "pmm"
    /\ Next
    /\ UNCHANGED <<part, vm_vars, heap_vars, swap_vars>>

AllocatingNext ==
    /\ part = "heap"
    /\ HeapNext
    /\ UNCHANGED <<part, vm_vars, vars, swap_vars>>

SwappingNext ==
    /\ part = "swap"
    /\ SwapNext
    /\ UNCHANGED <<part, vm_vars, vars, heap_vars>>

AllSpec ==
    /\ AllInit
    /\ [][VmNext \/ PmmNext \/ AllocatingNext \/ SwappingNext]_all_vars

-----------------------------------------------------------------------------
(* Whatever failed halfway, every frame has one use or is free and no      *)
(* object of a process is lost; areas are disjoint, pages are mapped in an *)
(* area with its permission, what user_mem_check lets pass does not fault  *)
(* as invalid, and check_vma_overlap stops the kernel only for programs    *)
(* whose areas mm_map cannot tell to overlap (do_fork, do_execve, do_exit, *)
(* vmm.c, pmm.c).                                                          *)
AddressSpacesOK == part = "vm" => Spaces!FramesOK /\ Spaces!SpacesOK

(* fork, exec, exit and page faults give every process a memory of its     *)
(* own, that of its program or a copy of its parent's (copy_mm,            *)
(* load_icode, exit_mmap, do_pgfault).                                     *)
MemoryPromise == Spaces!MemoryPromise
=============================================================================
