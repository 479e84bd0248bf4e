# A TLA+ verification of the ucore kernel in `code-with-comments`

The repository `libinyl/lcore` holds a commented copy of the teaching kernel
ucore (`src/code-with-comments`), with notes on it. The kernel runs on one
x86 CPU: processes and kernel threads, a round-robin scheduler, timers,
semaphores and monitors, paged memory with swap, a VFS with the file system SFS,
and a few devices. Beside it are a shell and other user programs, and host tools,
one of which builds the disk image. This directory holds TLA+ models of it, TLC
configurations and TLAPS proofs.

Paths below are relative to `src/code-with-comments/kern`.

## 1. Inventory

| component | source | state | operations | what makes it correct |
|---|---|---|---|---|
| scheduler, round robin | `schedule/sched.c`, `rr_sched.c` | run queue, `current`, `state`, `need_resched`, `time_slice` | `wakeup_proc`, `schedule`, `sched_class_proc_tick` | who can run is queued exactly once; nobody starves |
| timer list | `schedule/sched.c` | delta-encoded list | `add_timer`, `del_timer`, `run_timer_list` | every timer expires at its own time, whatever happens to the others |
| process life cycle | `process/proc.c`, `trap/trap.c` | process tree, `PF_EXITING`, `wait_state`, `nr_process` | fork, exit, wait, kill, sleep, yield, `init_main`, `cpu_idle`, the end of `trap()` | no wakeup lost, nothing freed that is in use, orphans reaped |
| process ids | `process/proc.c` | `last_pid`, `next_safe`, `proc_list` | `get_pid`, `set_links`, `remove_links` | unique pids; the search ends |
| wait queues, semaphores | `sync/wait.c`, `sync/sem.c` | `value`, wait queue, `wakeup_flags` | `up`, `down`, `try_down` | a counting semaphore with hand-over |
| monitor | `sync/monitor.c` | `mutex`, `next`, `next_count`, condition variables | `cond_wait`, `cond_signal` | one process active at a time |
| philosophers | `sync/check_sync.c` | forks as states | take and put forks | neighbours do not eat together; all finish |
| standard input | `fs/devs/dev_stdin.c` | ring, wait queue | key interrupt, read | keys delivered once, in order; no reader sleeps beside a key |
| traps, system calls | `trap/trap.c`, `syscall/syscall.c` | - | dispatch, return path | kill and preemption are noticed |
| stride scheduler | `schedule/stride_sched.c`, `libs/skew_heap.h` | heap, strides | enqueue, dequeue, pick | the least true stride is picked although strides wrap around |
| physical pages | `mm/default_pmm.c`, `mm/pmm.c` | free list, page flags | alloc, free, split, merge | pages in one place; neighbours merged |
| kernel heap | `mm/kmalloc.c` | SLOB ring, big blocks | `kmalloc`, `kfree` | blocks large enough and disjoint |
| page tables | `mm/pmm.c` | PTEs, `page->ref` | `page_insert`, `page_remove_pte`, `copy_range` | `ref` counts mappings |
| address spaces | `mm/vmm.c` | vma list, `mmap_cache`, `mm_count` | `mm_map`, `find_vma`, `do_pgfault`, `dup_mmap` | areas sorted and disjoint; each program has its own memory |
| swap | `mm/swap.c`, `swap_fifo.c`, `fs/swap/swapfs.c` | FIFO, swap entries | in, out | a page's content survives |
| exec | `process/proc.c` | address space under construction | `do_execve`, `load_icode` | the program's image; failures undo what was done |
| open files | `fs/file.c`, `fs.c`, `sysfile.c` | fd table, positions, open counts | open, close, dup, read, write, seek | counts balance on every error path |
| VFS | `fs/vfs/*` | device list, inode `ref_count`, `open_count` | lookup, open, close, mount | counts balance |
| SFS | `fs/sfs/*` | inode cache, block map, free map | load, reclaim, read, write, seek, truncate, sync | no block used twice or lost; a close keeps the file; a clean shutdown leaves a disk that mounts |
| console | `driver/console.c` | shift state, ring, video memory | interrupts, `cons_getc`, `cga_putc` | keys decoded as pressed, characters in order, the screen shows the last rows |
| other devices | `driver/*`, `fs/devs/*` | ports | I/O | - |
| boot, context switch, vectors | `boot/*`, `init/*`, `process/switch.S`, `trap/vectors.S` | registers | straight-line set-up | - |
| debug monitor | `debug/*` | symbol table | `debuginfo_eip` | function and line of an address |
| shell, user library | `../user` | line, processes of a line | `readline`, `runcmd`, `umain` | commands run as they read; standard files |
| image builder | `../tools/mksfs.c` | image, inode and block caches | `open_dir`, `close_sfs` | an image the kernel mounts and reads as the host tree |
| libraries | `../libs` | - | - | - |

**How the parts interact.** A trap enters `trap()`, which dispatches to a system
call, an interrupt handler or the page-fault handler. System calls that wait set
`state` and `wait_state` of `current` and call `schedule()`; somebody else's
exit, a timer, a key or an `up()` calls `wakeup_proc`. Everything that blocks -
`do_wait`, `do_sleep`, semaphores, `stdin` - meets in the two functions
`wakeup_proc` and `schedule`, so a mistake in any user of them shows up as a
process that is queued twice, or never again. Memory and files meet in fork, exec
and exit, which take and give back a kernel stack, a file table and an address
space and can fail between any two of them. The image builder and the kernel
share only the layout of the disk.

**What is hard.** Five facts of the code decide which interleavings exist:

* The kernel does not preempt itself. `trap()` looks at `need_resched` (and at
  `PF_EXITING`, `trap.c:350`) only on its way back to *user* mode, so a process
  in the kernel runs until it calls `schedule()` itself.
* The disk driver polls: file and memory calls never sleep. They are atomic to each
  other, and what is hard about them is long sequences, and failures halfway.
* Interrupts are *on* during system calls (`T_SYSCALL` is a trap gate), except
  between `local_intr_save` and `local_intr_restore`: a timer or a key can come
  between any two statements of a handler.
* `do_wait` and `do_sleep` set `state = PROC_SLEEPING` first and call
  `schedule()` later: a process can be woken while it still has the CPU.
* `do_kill` only sets a flag and wakes an interruptible sleeper; the victim acts
  on it at the places that look at the flag.

The resulting hazards are listed, each at its line, in `PROJECT.json`.

## 2. Modules

```
Sched ── Proc ── MCProc          Timers (promise) <── DeltaTimers (the list)
  │        └ uses Timers         Semaphore (promise) <── SemClients
  ├── Sem ── SemClients          UserMemory (promise) <── Vm, Swap
  │     └─── PhilThreads ── PhilSem, PhilMon ── Philosophers
  └── Stdin                      Mksfs ── SfsSync ── MCMksfs
Wait: used by Sem and Stdin
SfsFile ── MCSfsFile             Files ── MCFiles
MCLists    = GetPid + DeltaTimers + Stdin
MCBlocking = SemClients + Philosophers
MCMemory   = Vm + DefaultPmm + KMalloc + Swap
MCConsole  = Console + Cga + Shell + Kdebug + Stride
proofs: SchedProofs ── ProcProofs
                    ├── BlockingProofs (SemClients, Philosophers)
                    └── DeviceProofs (Stdin, Cga)
        ListsProofs (GetPid, DeltaTimers)      SfsFileProofs (SfsFile)
        MemoryProofs (DefaultPmm, KMalloc, Swap)   FilesProofs (Files)
```

The modules `MCLists`, `MCMemory` and `MCConsole` join models that share
no state: a variable `part`, chosen in the initial state and never changed, says
which of them moves, and the others stay in an initial state. Such a run has
the sum, not the product, of the parts' behaviours, and an invariant of it is
an invariant of every part. In `MCBlocking` the parts are built on one scheduler and
one set of semaphores; there `version` chooses among the clients of `SemClients` and
the two groups of philosophers, and an invariant is checked in all three. Parts about which something is proved are extended, so
that the run checks the very formula that the theorem is about; the others are
instances.

### Processes

**Sched** (`sched.c`, `rr_sched.c`, fields of `proc.h`). `wakeup_proc(st, p)` and
`schedule` are operators that constrain the primed variables; the modules above
conjoin them with their own assignments. `wakeup_proc` takes the states it starts
from as a parameter, because `do_fork` and `do_exit` change `state` before they
call it in the same interrupt-free section. A process that is woken while it is
`current` becomes runnable without being queued. `schedule` queues `current` if
it can run, takes the head of the queue or `idleproc`, and clears `need_resched`.
The counters `proc_num` and `runs` are left out.

**Timers / DeltaTimers**. `Timers` is the promise: each process has at most one
timer, which counts down at each tick and fires in the tick in which it reaches
0. `DeltaTimers` is the list as the code keeps it, with differences between
neighbours, and is shown to implement `Timers` (`TimersPromise`; a process's
timer is the sum of the fields up to its own). `Proc` uses the promise. Timers
that expire in the same tick fire in any order in `Timers`; the list has one.

**Proc**. `pc[p]` is the place p's kernel stack has reached; the labels are
listed in the module. A handler is one action per stretch of code that nothing
can interrupt in a way it or the others could notice: it is cut where interrupts
are on and at loop iterations that wake processes.

| code | actions |
|---|---|
| `do_fork`, `kernel_thread` | `do_fork(c)`, `init_start(c)`, both through `fork_child` |
| `do_exit` | `do_exit` / `exit_self`, `exit_reparent(c)` per child, `exit_reparented`, `exit_sched` |
| `do_wait` | `sys_wait(a)`, `wait_found(z)`, `wait_block`, `wait_nochild`, `wait_sleep`, `wait_woken` |
| `do_kill` | `do_kill(t)`, `kill_wake` |
| `do_sleep` | `do_sleep(n)`, `sleep_sleep`, `sleep_woken` |
| `do_yield`; other system calls | `do_yield`; `sys_other` |
| the end of `trap()` | `trap_return` |
| timer interrupt | `timer_intr`, `timer_fire(p)`, `timer_done` |
| `init_main`, `cpu_idle` | `init_start`, `init_yield`, `Halted`, `cpu_idle` |

Abstractions: a `proc_struct` is a *slot* that is reused after `do_wait` frees
it, and the pid in `do_wait` and `do_kill` is the slot (`GetPid` shows that pids
are unique). `run_timer_list` runs once in 100 interrupts; the others only set
`need_resched` of nobody and are left out. The order in which `do_wait` finds
dead children and `do_exit` hands children over is left open, which covers the
sibling list's order. Failures of `do_fork` change nothing here (`sys_other`);
what they give back is the subject of `Vm` and `Files`.
Kills are of user processes: killing `initproc` ends in a panic.

**GetPid** is the search with its cache, one action per iteration of the loop,
between any forks and exits.

**Wait** (`sync/wait.c`). A wait queue is the sequence of the processes linked in it;
`wait_current_del` unlinks a process unless the one who woke it has done so. When
`wakeup_queue` wakes several, `Stdin` says that they are appended to the run queue
in the order of the wait queue (`Before`), without a loop over it.

**Sem / Semaphore / SemClients**. `Sem` gives `up` and the parts of `down` around
its `schedule()`; `SemClients` lets processes use them in any order, with
preemption, other waits and kills, and is shown to implement the abstract
counting semaphore `Semaphore`, where permits handed over but not yet
picked up count as permits. `ClientSems` are the semaphores its processes use.

**PhilThreads / PhilSem / PhilMon / Philosophers**. The philosophers are kernel threads and leave
the CPU only where they block. `PhilSem` translates the version with semaphores,
`PhilMon` the one with `monitor.c`, with `cond_wait`, `cond_signal` and the
entry and exit protocol as actions; `Philosophers` is `check_sync`, which starts
both. Ticks of a running kernel thread
change only fields that nothing reads, so ticks are modelled while `idleproc` runs.
Because kernel threads are not preempted, the mutex of the semaphore version is
never contended; the monitor's hand-over is exercised fully.

**Stdin**. A key is the number of its press; `delivered` records what readers got.
When the ring is full, the new key overwrites the oldest unread one and is then
the first delivered. `p_rpos` and `p_wpos` are unbounded numbers; the wrap-around
of the 32-bit fields after 2^31 keys is not modelled.

**Stride** (`stride_sched.c`, `libs/skew_heap.h`). Strides are words of `w` bits;
`ahead` keeps the true strides, relative to the last process that can run. The
heap is its links (`parent`, `left`, `right`), and merging and removing follow
the pointers. A build in which `_SCHED_POLICY_` (`sched.h:9`) is `_SCHED_STRIDE_`
uses this class; here it is `_SCHED_RR_`. Elements leave the heap at the root only:
`schedule()` dequeues nobody but the process it has picked.

### Memory

**DefaultPmm** (`mm/default_pmm.c`). Pages are numbers; `property`, `PG_property`,
`free_list` and `nr_free` are the code's. `default_alloc_pages` is one action,
since `alloc_pages` calls it with interrupts off. `default_free_pages` is cut at
each iteration of its merging loop (`default_free_pages(b, n)`, `merge`,
`merge_end`, `insert`), to state what holds when it ends. Clients may free
any run of pages they hold, so also parts of what they got or pieces from two
allocations.

**KMalloc** (`mm/kmalloc.c`). Addresses are counted in SLOB units. The ring of free
blocks is a function `next` on their addresses, entered at `slobfree`; the static
block `arena` keeps it from being empty. `slob_free` is the search for the place
(`Between`) and the joining with the two neighbours (`link`), `slob_alloc` the
search for a block (`slob_search`), what is cut from it (`take`) and the retry with
a new page. Pages come from `alloc_pages` one at a
time; requests of about a page or more get whole pages and a `bigblock_t` from the
ring. `KMallocAssumption` lists what callers owe: no size between 4080
and 4087 bytes, and none for which `find_order` would be too small.

**Vm** (`mm/vmm.c`, the page tables of `mm/pmm.c`, and the memory side of fork, exec,
exit and wait in `proc.c`). A call is a composition of operators on a record of the
kernel's memory (`free`, `ref`, `data`, `heap`, the address space `mm` it works on,
`err`), in the order of the code; an operator applied after a failure changes nothing. So
every allocation can be the one that fails, and the code's clean-up labels are
operators of their own (`drop_mm`, `fork_undo`). Addresses are finer than pages:
`mm_map` rounds, segments begin and end inside pages, and `load_icode`'s two loops
and the shared page between file and BSS are kept. A program is any list of
headers: segments may come in any order, reach into each other or into the stack, or
have nothing in the file, which `load_icode` skips. `loading` remembers the program
whose loading stopped the kernel. What is not modelled here:
swapping (after the boot checks `check_mm_struct` is `NULL`, so an exhausted memory
with `swap_init_ok` ends in a fault in `swap_out`: the panic `swap_out(NULL)`), and
kernel threads that share an address space.

| code | actions |
|---|---|
| `do_fork`, `copy_mm`, `dup_mmap`, `copy_range` | `do_fork(p, c)` |
| `do_execve`, `load_icode` | `do_execve(p, name)` |
| `do_exit`, `exit_mmap`; `do_wait` | `do_exit(p)`; `do_wait(p)` |
| an access by a program, `do_pgfault` | `user_read(p, a)`, `user_write(p, a)` |

**UserMemory** is what virtual memory promises: every process has a function from the
addresses it has touched to what they hold; exec fills it with the program, fork
copies it, and no step of one process changes another's. `Vm` and `Swap` are both
shown to implement it.

**Swap** (`swap.c`, `swap_fifo.c`, `swapfs.c`). One address space, as in `check_swap`,
with more pages than frames. The processor's translations are a variable (`tlb`): an
access uses the one it has, stale or not. `alloc_pages` calls `swap_out` until a
frame is free; writing to the disk may fail. With `pos > 0` the accesses are those of
`check_swap`, whose assertions on the number of page faults are part of `SwapOK`;
with `pos = 0` any access may come.

### Files

**SfsFile** (`fs/sfs/sfs_inode.c`, with the positions of `fs/file.c` and the opening
of `vfs/vfsfile.c`). A file is an inode on the disk (`disk`) and, while it is
open, one in memory (`din`, `dirty`), with direct blocks, an entry block whose
content is in `entries`, and the free map. The disk driver polls and the kernel
does not preempt itself, so a call runs to its end before the next begins, and the
locks of SFS are never contended; `op` is the call in progress, and reads,
writes and truncations take one step per block. The only error that reaches SFS
is a full disk (`disk0_io` panics when the driver fails). An assertion that fails
stops the model, as the panic stops the kernel: `panic` says which. Sizes are in
units, `SFS_BLKSIZE` of which make a block. Left out: content of data blocks,
modes of open files (all are read-write, which allows every call), unlinking
(the code has none).

| code | actions |
|---|---|
| `file_open`, `vfs_open`, `sfs_load_inode` | `file_open(h, f, flag)` |
| `file_dup`, `dup_fs` | `file_dup(h, to)` |
| `sfs_io_nolock` | `file_read`, `file_write`, `io_block`, `io_grow`, `io_end`, `io_beyond` |
| `sfs_tryseek`, `sfs_truncfile` | `file_seek`, `trunc_same`, `trunc_grow`, `trunc_full`, `trunc_shrink`, `trunc_done` |
| the panic of `sfs_bmap_get_nolock` | `bmap_get_range` |
| `sfs_fsync`; `file_close`, `sfs_reclaim` | `file_fsync`; `file_close` |

**Files** (`file.c`, `fs.c`, `sysfile.c`, `vfs/*`). The descriptor tables of the
processes, the inodes in memory with `ref_count`, `open_count` and `reclaim_count`,
the device list and the boot file system. A system call is one step, built
from the functions of the code on a record of the kernel's variables. A path is
where its lookup starts (current directory, `/`, `:`, a device) and a name.
Calling an operation that an inode's table lacks panics (`vop`), as `__vop_op`
does, and so does one on an inode whose counts have reached `MAX_INODE_COUNT`
(`inode_check`). Either stops the kernel in the middle of the call: `Stopped` says
which came first, and `Commit` then keeps nothing of what the call would still have done.
`lost` counts the references that `O_CREAT|O_EXCL` on an existing name
leaves behind (`vfsfile.c:57`); they are what brings a count to its limit. Processes begin with `init_main` and
`user_main`, then fork, exec (with `umain`'s `initfd`, a user-level sequence of calls
that other processes may interleave with) and exit.

**Mksfs / SfsSync**. `Mksfs` is `tools/mksfs.c` building an image of a host tree, one
directory entry a step, and the kernel's side of the layout: `sfs_do_mount`,
`sfs_bmap_get`, the directory functions of `sfs_inode.c` and the loading of the inode
that a lookup has found, with the panic of `sfs_get_ops`. The inodes that `mksfs` has made
are kept by their number on the disk with the host's inode they stand for (`real`): the names of a
file share one, those of a symbolic link get one each. `SfsSync` goes on from the
finished image: the kernel boots, files are opened, written, extended by a seek,
truncated, synced and reclaimed, and `sfs_cleanup` writes inodes, super block and the free
map, one block a step. Only what the code marks is dirty: a block that is added inside
an entry block marks nothing, so a seek that a full disk cuts short (`short` remembers
of which file) can leave a block behind that the inode on the disk does not count. The
power may fail between any two writes: between calls and between the writes of
`sfs_sync` by `power_cut`, and inside a call because each call keeps the disks that its
writes have replaced (`past`). A boot follows a shutdown or a power cut. After a cut only its
mount is modelled (`"mounted"`), not what calls do to a disk whose map is behind its inodes.

### Console, shell, debugger

**Console** (`driver/console.c`, the keyboard and serial cases of `trap_dispatch`). The
keyboard sends make and break codes, with the E0 prefix for some keys; an
interrupt reads as many bytes as have arrived, and takes one character out of the
ring. Keyboard, serial port and interrupt controller are external. The history
`hist` keeps what the presses mean by the keys that are down.

**Cga** is `cga_putc` with its scrolling, next to an endless sheet of paper.

**Shell** (`user/sh.c`): `readline`, `gettoken`, and `runcmd` in the processes that it
forks. One line is run; Ctrl-C, a failing read or the end of the input may end the shell at its
prompt (`readline_end`), or the line, if some of it has been typed. The `|` of the code has
no pipe behind it.

**Kdebug** (`debug/kdebug.c`): `stab_binsearch` and `debuginfo_eip` on tables that a
compiler would produce for small programs, against those programs.

Operators called *faulty variant* are not used by any specification. Each is a
definition with a plausible mistake in it that breaks a property when it takes
the definition's place (`mutants` in `PROJECT.json`).

## 3. Runs

| run | instance | states | shows |
|---|---|---|---|
| `proc_safety` | 3 user processes + idle + init, sleeps of 1 and 2 ticks, slice 1, symmetry | 463 949 | `TypeOK`, `RunQueueOK`, `WaitingOK`, `NoLostChildWakeup`, `TreeOK`, `NoUseAfterFree`, `CountOK`, `HaltClean`, `ZombieReapedByParent` |
| `proc_liveness` | 2 user processes, slice 2, sleeps of 1 and 2 | 55 801 | `RunnableRuns`, `SleepEnds`, `OrphansReaped`, `KilledWaiterExits` |
| `proc_kill` | 2 user processes | violation | `KilledExits`, see section 6 |
| `lists` | `MAX_PID` 6, `MAX_PROCESS` 5; 4 timers, times 1..3; 3 readers, ring of 2, 3 keys, reads of 2 | 193 658 | `SearchOK`, `PidsUnique`, `SearchEnds`; `TimersPromise`; `StdinOK`, `KilledReaderExits` |
| `blocking` | 4 processes + idle, 2 semaphores, at most 2 permits; 4 philosophers, 2 meals, twice | 422 576 | `QueuesOK`, `CountingSemaphore`; `PhilosophersOK`, `AllLeave` |
| `memory` | 2 processes, 8 sizes of memory (12 to 24 frames), 9 programs, 3 forks or execs; 7 pages in regions of 4 and 2; a heap of 4 pages of 8 units, 3 blocks; 5 pages in 4 frames, and 3 in 2 with 2 failed writes | 218 317 | `AddressSpacesOK`, `MemoryPromise`; `PoolOK`, `HeapOK`; `SwapOK`, `SwapPromise` |
| `files` | init and 2 programs, 3 descriptors, 2 inodes, 3 devices, `MAX_INODE_COUNT` 10, at most 4 lost references, symmetry | 63 066 | `FilesOK`, `StdioOK` |
| `image` | 18 host trees, 17 image sizes, entry blocks of 3, 3 calls that change a file, 2 boots | 4 832 929 | `ImageOKAtFirst`, `ShutdownOK` |
| `sfs_files` | 2 files, 2 open files, 4 blocks of 2 units, 1 direct and 2 indirect, maximal size 7, symmetry | 533 509 | `BlocksOK`, `CloseKeepsFile` |
| `sfs_stale_pos` | 1 file, 2 open files, 5 blocks | violation | `LoadInRange`, see section 6 |
| `console` | ring of 3, 7 keys, 4 events; a screen of 3 by 2, 6 characters; lines of 5 characters, 3 processes; programs of 2 files with 2 functions; 3 processes with strides of 3 bits | 1 453 413 | `InputOK`; `ScreenOK`; `CommandsOK`; `DebugInfoOK`; `StrideOK` |
| `line_search` | as above, lines of one byte | violation | `FindsContaining`, see section 6 |

*Bounds.* Three user processes give a parent, a child and a third that kills
either or is the grandchild that becomes an orphan; two sleep times give timers
that expire together and apart; `MAX_PROCESS` 5 is reached. Four timers give a
head, a tail and two neighbours in the middle. `MAX_PID` 6 with up to four linked
processes reaches the wrap-around with the table full. Two semaphores tell a
waiter in the wrong queue from one in the right one. With four philosophers one has
two distinct neighbours and an opposite that can eat at the same time; two
meals let the second meal meet every state the first one left. A ring of two with
three keys is filled and overrun. Four pages in one region allow a freed block with
a free neighbour on both sides; the second region has a reserved page before it
that must never be bridged. Page tables of two pages are shared by areas and
the stack; the eight memory sizes let a fork or an exec fail at each of its
allocations, and the largest is enough for two processes. The programs have
code and unaligned data with BSS, a segment that is all BSS (`bss`), segments on one page,
one that reaches into the stack from below and one that lies above its base (`above`),
segments in falling order that overlap (`falling`), a file that is cut off and one that
is none. Four heap pages hold
a large block of two pages beside small ones. Five pages in four frames are
`check_swap`'s own. Three descriptors are the standard files and one more, so that
the table fills. The code's `MAX_INODE_COUNT` is 65536; with 10, and 4 references that
can get lost, forks and opens reach it as well as stay below it. Image sizes lie on both sides of multiples of the bits in
a map block, and trees have nested directories, a file that needs the index block
a symbolic link with two names, and a file that the kernel cannot read. Three calls
fill the disk, extend a file by a seek that fails halfway and let another file go on,
on one boot or over two. Four disk blocks
hold one file of the largest size (three data blocks and the entry block) or
two that compete for the last block; writes of three units cross into a new block,
seeks to 3, 4, 5 and 6 extend a file by two or three blocks or stop halfway on the
full disk, and the maximal size is one unit more than the block map can hold. Four events are a modifier down, a key down, and their release, in any
order. Strides of three bits wrap around after a few steps. All these runs explore
every reachable state.
Symmetry is declared only where the specification treats the elements alike and
no liveness is checked (`proc_safety`, `files`, `sfs_files`).

*Deadlock* is checked in the process, list, blocking and `sfs_files` runs. `Proc` may stop when
`init_main` has returned (the kernel panics): `Halted` is a step of its own there.
The philosophers end with `idleproc` ticking. `memory`, `files`, `image` and
`console` may stop: at a panic, at the bound on calls, after the shutdown, after
the one line of the shell.

*Fairness.* `Proc`: an interrupt handler that has started finishes (weak fairness);
kernel code proceeds although interrupts come in between (strong, since an
interrupt disables the step for a moment); and timer interrupts keep coming
(strong: one that comes while interrupts are off stays pending in the interrupt
controller). User code owes nothing, it may loop for ever. `Stdin` (in `lists`):
the same, and nobody has to press a key. Philosophers: threads run and timers
expire (weak). `GetPid`: the loop, which runs with interrupts off, runs on (weak).

## 4. What the properties say

* `RunQueueOK`: the run queue holds exactly the runnable processes other than
  `current` and `idleproc`, each once (the assertion of `RR_enqueue`).
* `WaitingOK`: position in the code, `state` and `wait_state` fit together
  (`ControlOK`); a sleeper has a timer or a child that will wake it
  (`SleepersCanWake`); a timer, which lives on the stack of `do_sleep`, is never on
  the list longer than that frame (`TimersLive`); the next calls of `wakeup_proc`
  are for living processes (`WakeupsLiving`).
* `NoLostChildWakeup`: nobody sleeps in `do_wait` beside a dead child.
* `TreeOK`, `NoUseAfterFree`, `ZombieReapedByParent`: the tree holds together while
  its members die and are freed in any order.
* `CountOK`, `HaltClean`: `nr_process` is exact, and the assertions at the end of
  `init_main` hold.
* `SearchOK`: nothing strictly between `last_pid` and `next_safe` is in use, during
  the scan for the part already scanned; the result is unused.
* `QueuesOK`: no permit goes past a waiter, every waiter can be
  found by `up()`, and `down()` returns only when it was handed a permit (its
  assertion `flags == 0`): kills cannot wake it.
* `TimersPromise`: the list implements `Timers`; so the head never has 0 ticks left
  between two ticks (the assertion of `run_timer_list`).
* `PhilosophersOK` (`SemaOK` and `MonitorOK`): neighbours do not eat together, nobody waits for forks that
  are free; for the monitor also: it is free or has exactly one process
  active in it, counting one that has been handed it and has not run yet,
  `next_count` and `count` are exact, and `cond_wait`, which is called in an `if`,
  returns with its condition true.
* `StdinOK` (`KeysDelivered` and `ReadersOK`): each key is delivered once, in order; no reader
  sleeps beside a key; a read that comes back short was killed.
* `PoolOK`: free blocks are sorted, disjoint and never adjacent, the flag marks
  exactly their heads, every usable page is in one block or with one client,
  `nr_free` is exact, the assertions of `default_free_pages` hold, and a request is
  refused only if no run of free pages fits it.
* `HeapOK`: blocks never overlap, every unit of every page is in one, the ring is in
  the order of addresses with neighbours joined, large blocks are large enough.
* `AddressSpacesOK` has two parts. `FramesOK`: whatever failed halfway, every frame has exactly one use or is free,
  `ref` counts its mappings, and no `proc_struct`, `mm_struct` or
  `vma_struct` is lost.
  `SpacesOK`: areas are sorted and disjoint, mapped pages lie in an area with
  its permission, the assertion of `check_vma_overlap` fails only while a program is loaded
  one of whose areas begins below an earlier one and reaches into it (`Overlapping`; the
  stack is the last area), and what `user_mem_check` lets pass never faults as invalid.
* `MemoryPromise`, `SwapPromise`: the refinements of `UserMemory`. What exec fills a memory
  with is the program's segments, without those that have nothing in the file.
* `SwapOK`: the replacement list is exact; `check_swap`'s assertions hold.
* `FilesOK`: reference and open counts are exact, tables consistent, no change
  is dropped with its inode, and of the assertions only two can fail: the one on a
  missing operation, and the bound in `inode_check`, and that only when the holders of some
  inode and its lost references have all but reached `MAX_INODE_COUNT` (`NearLimit`; a
  call adds at most `NENTRY + 1` references before it is done). `StdioOK`: a program starts with
  `stdin:` at 0 and `stdout:` at 1 whatever it inherited.
* `ImageOKAtFirst`: a finished image mounts, nothing on it overlaps, and the kernel's
  lookups, listings and paths see the host tree; the entry of a symbolic link is there too,
  with its contents, but looking it up stops the kernel. `ShutdownOK`: after `sfs_cleanup`
  every block is free or has one place (`Tidy`), so the next boot neither panics nor gives a
  block to two files. The places include entries behind the last block of a file (`Left`), which exist only
  where a full disk cut an extension of that file short; the next growth takes them. After a
  power cut between any two writes the next mount succeeds unless the cut fell between super block
  and map (`gap`); files that nobody opened for writing keep their contents always.
* `BlocksOK` has two parts. `BlocksOwned`: a block is free or named in exactly one place of one file, also after
  a full disk interrupted an extension and after the inode was dropped
  and read again. The last case is delicate: growing into the entry block changes
  `blocks` without making the inode dirty, so the inode on the disk may name fewer
  blocks than its entry block, which the next growth finds there.
  `FileMapOK`: every index below `blocks` has a block (the assertion in
  `sfs_bmap_load_nolock` after the lookup).
* `CloseKeepsFile`: opening, copying, syncing and closing leave size and
  block pointers of every file as they were for whoever opens it next.
* `InputOK` has two parts. `KeysOK`: no modifier sticks and characters are the ones the keys mean,
  however bytes are split over interrupts. `CharsOK`: characters pass the ring in order, an
  overrun loses exactly one ringful, and no more characters wait than bytes shared
  an interrupt.
* `ScreenOK`, `CommandsOK`, `DebugInfoOK`: the screen against the sheet, the commands
  that run against the line as it reads, the searches against the program.
* `StrideOK`: the skew heap is one tree (`TreeOK` of `Stride`) and its root has the least true
  stride as long as nobody came back further than `BIG_STRIDE` behind
  (`SharesOK`).

## 5. Proofs

`tlapm` proves the following for every value of the constants that satisfies the
assumptions in the modules (any finite set of slots, any slice, any sleep times,
any `MAX_PID > MAX_PROCESS > 1`, any memory map, any number of frames, any disk, any
directory tree).

* **SchedProofs**: lemmas that `wakeup_proc`, `schedule`, a tick and going to
  sleep keep `SchedTypeOK /\ RunQueueOK`. The heart is that appending a process
  that is not queued and taking the head off keep the entries distinct.
* **ProcProofs**: `Spec => []IInv` with
  `IInv == TypeOK /\ RunQueueOK /\ ControlOK /\ TreeOK /\ TimersLive /\
  WakeupsLiving /\ SleepersCanWake /\ NoLostChildWakeup`, and from it
  `TypeCorrect`, `RunQueueCorrect`, `WaitingCorrect`, `ChildWakeupCorrect`,
  `TreeCorrect`, `NoDangling` and `ReapedByParent`. None of the conjuncts
  is inductive alone: that `wakeup_proc` queues a process at most once needs
  `ControlOK` (a sleeper is not queued); that a wakeup is not lost needs `TreeOK`
  (whose parent wakes whom) and `ControlOK` (between the scan of the
  children and the sleep nobody else runs); that a timer fires for a
  living process needs `TimersLive`. `StepCases` reduces the actions to a
  few shapes (only a label moves, a process is switched, forks, exits, ...), and
  each conjunct has one lemma with a step per shape or action.
  `CountCorrect` is by cardinalities of the set of allocated slots. `HaltCorrect`:
  when `do_wait` in `init_main` finds no child, no process exists. The invariant for
  that says that some numbering of the processes grows from parent to child (the
  tree has no cycle), so that a least numbered user process would have to be a child
  of `initproc`.
* **ListsProofs**: `PidUnused` (`SearchOK`) and `PidUnique`; the invariant is
  that of the loop and the promise of the cached interval together. `TimersRefined`
  (`TimersPromise`): the list implements `Timers`. What a timer has left is a sum along
  the list, so `add_timer`, `del_timer` and a tick have to be followed through sums; the
  induction this needs is done by hand, by taking the least place at which a
  claim fails. The invariant `TimerInv` says that a process is in the list once and
  that the head has time left between ticks, which is the assertion of
  `run_timer_list`.
* **BlockingProofs**: `QueuesCorrect` (`QueuesOK`) and `SemaphoreRefined`, the
  refinement of `Semaphore`. `QueueInv` is what every user of `up` and `down` keeps:
  besides `QueuesOK`, `DownState` says where a process is in `down()`, whether it is
  queued, and whether it was woken. It is needed because `QueuesOK` alone would let a
  process in `down()` sleep for something else and be woken by that. For the
  clients `TargetOK` adds which semaphore a process wants. For the
  refinement, `up()` with a waiter leaves `value` alone and adds a process to those that
  hold a permit in flight; a `down()` that was woken takes it out again.
  `PhilosophersCorrect` (`PhilosophersOK`), for any number of philosophers and meals.
  `SemaInv`: whoever is in the critical section has the mutex (`SemaMutex`), place and
  state of a philosopher fit together, and `value[i]` is the permit between the test
  that granted it and `down(&s[i])` (`SemaStates`); a hungry philosopher has an eating
  neighbour or one that is still to test it (`SemaCause`). `MonInv` for the
  monitor: it is free, or has one active philosopher and at most one signaller that waits for
  its return (`MonOwner`, so `next_count` is at most 1 and a philosopher that has been
  signalled is on its way out); who waits on its condition is hungry until it is
  signalled and eats from then on (`MonStates`), which is why the `if` around
  `cond_wait` is enough.
* **DeviceProofs**: `StdinCorrect` (`StdinOK`). `RingContents` says what the ring
  holds between `p_rpos` and `p_wpos`: keys that nobody has got, each in one place, in
  order unless a key was dropped. `ReadOK` says that a reader that runs
  again was woken by a key or killed. The arithmetic is in one lemma: two positions
  less than the ring's length apart have different places. `ScreenCorrect`
  (`ScreenOK`), for any number of rows and columns: the invariant adds that the sheet is blank
  below the screen, which the row that scrolling brings in has to be.
* **MemoryProofs**: `PoolCorrect` (`PoolOK`). What holds between calls is
  extended to the middle of one: `Owned` counts the block that
  `default_free_pages` has in hand, `Counted` lets `nr_free` lag behind while the first
  pass runs, `MergeOK` says that the pass leaves behind only blocks that are apart
  from the freed one, and `BootOK` describes `page_init`.
  `HeapCorrect` (`HeapOK`): `RingInv` says of each block what its successor is
  (`Follows`: the next one in order of addresses, not adjacent, or the arena after the last). A
  search follows `next` until a condition holds, and that it ends is part of the proof:
  a walk that never reached the arena would come back to a block in a finite ring and so be a cycle of
  growing addresses. The place that `slob_free` finds is therefore the one between the two
  neighbours in the order of addresses, and `link` keeps the ring and adds
  just the units of the block; `take` removes just those it returns. `HeapInv`
  divides the units of all pages taken into free ones, small blocks, `bigblock_t`s and large
  blocks, and adds that no two blocks or `bigblock_t`s are the same, without
  which `kfree` could release one for the other.
  `ReplacementCorrect` (`ReplacementOK`, the first half of `SwapOK`) and
  `SwapRefined`, the refinement of `UserMemory`. Page table, list, slots and
  `pra_vaddr` name each other (`PagesOK`, `FramesListed`); `Coherent`
  says that the processor keeps no translation that the table does not have, which is
  why `tlb_invalidate` in `swap_out` matters; `AccessOK` is about the fault in
  progress. Each action is shown to be quiet for the contents of all pages, or to touch
  one page. `SwapCorrect` (all of `SwapOK`) is for four frames, the
  `CHECK_VALID_PHY_PAGE_NUM` for which `check_swap`'s numbers of faults are written; the invariant
  `CheckInv` lists which pages are in memory at each step of the check.
* **SfsFileProofs**: `BlocksCorrect` (`BlocksOK`) and the action property
  `ClosesKeepFiles` (`CloseKeepsFile`). `OneName` gives every place that can name a
  block an index, so that exclusiveness is one formula over direct blocks, the entry
  block and its contents; `NoGap` ties `blocks` to the places. The part that is
  easy to miss is `CacheOK`: a clean inode in memory may count more blocks than
  the one on the disk, but only in the entry block, and both name the same
  pointers. Without it dropping the inode would not be a safe step.
* **FilesProofs**: `FilesCorrect` (`FilesOK`) and the action property `StdioCorrect`
  (`StdioOK`). A call is a composition of operators on the kernel's record, and the counts
  are right only at its ends: in the middle, `file_open` has a reference that no
  descriptor names yet, and `files_destroy` has dropped `pwd` but not the descriptors.
  So `Held(s, r, o)` says that each inode has exactly the references `r` and opens `o`
  that are demanded of it, and every operator (`inode_ref_inc`, `vop_open`, `vfs_close`,
  `fd_array_dup`, ...) has a lemma that tells how it moves the demand. `Good` computes the
  demand from the tables, and from the current directories separately, because
  `files_destroy` clears those first; the lemmas about cardinalities relate a changed
  descriptor to one unit of demand. `files_closeall`, `dup_files` and `files_destroy`
  go through the descriptors in a loop: the claim is shown for every stage by taking the
  least stage at which it fails. `IInv` adds to the exact demand what is true of a process by its
  place: a free slot has an empty table, in `umain` every
  descriptor from 2 on is free (`Spare`), and after `initfd(0)` descriptor 0 is `stdin:`, without
  which `StdioOK` does not follow from one step. That `inode_check` fails only near the
  limit is a second, coarser reading of the same operators: `Calm(s, b, k)` says that no
  inode has gained more than `k` references since the call began with `b`, and that the
  check has failed only if some inode was within `k` of the limit then. Every
  operator has a lemma on how far it can move `k`; a fork, which takes one for each descriptor and
  one for the directory, moves it furthest. `IInv` turns the bound into `NearLimit`, since at the
  start of a call the references are exactly the holders and the lost ones. Writing the proof showed that some `CASE`s of
  the model had guards that overlap, which TLC resolves by order and TLA+ does not; they
  are now chains of `IF`, in the order of the code's tests.

The assumptions are `SchedAssumption`, `ProcAssumption`, `GetPidAssumption`,
`DeltaTimersAssumption` (times are not 0), `SemClientsAssumption` and
`StdinAssumption` (both: finitely many processes), `PhilAssumption` and
`PhilMonAssumption` (at least two philosophers, and semaphores that are not the same),
`CgaAssumption` (a screen has rows and columns; control characters are not printable),
`DefaultPmmAssumption` (regions of usable memory are in order with a gap between
them, as `page_init` finds them), `KMallocAssumption` (what callers owe, see
section 2), `SwapAssumption`, `SfsFileAssumption` and `FilesAssumption`
(finitely many processes, a table of more than two descriptors, `MAX_INODE_COUNT` not 0, entries of a directory are
inodes and the root is its own parent). TLC evaluates
each of them in the runs of its module.

Only model-checked:

* liveness: under fairness, out of the prover's reach;
* `AddressSpacesOK`, `MemoryPromise` (`Vm`): a call is there a composition of operators
  through functions that recur over areas and pages;
* `ShutdownOK`, `InputOK`, `CommandsOK`: the same, for
  truncation, the bytes of an interrupt, and the parser of the shell;
* `DebugInfoOK` and `StrideOK`: about recursive operators, which the prover does not take;
* `ImageOKAtFirst`: about a program that runs once, on trees of any shape; what it
  says of lookups and paths is induction over the tree.

## 6. Disagreements between code and comments or assertions

`process/proc.c:82` describes `SYS_kill` as `do_kill-->proc->flags |= PF_EXITING
-->wakeup_proc-->do_wait-->do_exit`. The run `proc_kill` shows a killed process that
never reaches `do_exit`: the end of `trap()` looks at `PF_EXITING` *before* it
calls `schedule()`. A process killed while it is queued in that `schedule()`
returns to user mode, may then call `do_wait`, and sleeps there with `PF_EXITING`
set for as long as its child lives; another kill returns `-E_KILLED`
without waking it. `KilledWaiterExits` states what does hold: a process killed
*in* `do_wait` or `do_sleep` exits. `Stdin` has a relative: a key that
arrives after a kill and before the reader runs overwrites `wakeup_flags`, and the
reader goes on reading (`KilledReaderExits` says so in its conclusion).

`sfs_stale_pos` shows that an assertion of SFS can fail. Process A has written a block
of a file; process B opens the file with `O_TRUNC`; A writes again, at its old
position. `sfs_io_nolock` asks for a block that is more than one behind the last,
and `assert(index <= din->blocks)` (`sfs_inode.c:366`) stops the kernel.

`line_search` is about the comment at `debug/kdebug.c:72`, "*@region_left points to the
matching stab that contains @addr": after an exact match `stab_binsearch` goes on with
`addr ++`, so it finds the entry that contains the next address. For lines with one
byte of code (the pushes of `trapentry.S`) that is the next line.

What the models meet besides, as steps that stop them or as cases that a property
names:

* `trunc_same` (`SfsFile`): a seek behind the end extends the file, the disk becomes
  full, and `sfs_truncfile` returns with the new blocks kept and the old size.
  Truncating to that size then fails `assert(tblks == din->blocks)` (`sfs_inode.c:967`).
  In `SfsSync` the assertion stops the kernel as a power cut would. If the
  blocks were added in the entry block, nothing marks the inode: once it is dropped, its
  copy on the disk counts fewer blocks than the entry block names, and these stay in use although
  the file does not have them (`sfs_inode.c:375`).
* `bmap_get_range`: `sfs.h:28` allows files of 128 MB, and seeks and writes are
  checked against that; the block map ends at 12 + 1024 blocks, where
  `sfs_bmap_get_nolock` panics. `mksfs` accepts files that are larger still, by
  a double indirect block, which the kernel does not know.
* `vfs_open` with `O_CREAT` on a missing name calls `vop_create`, which no inode has;
  with `O_CREAT|O_EXCL` on an existing one it leaves a reference behind (`lost`). About
  65536 of them bring the inode to the limit of `inode_check`, whose assertion
  (`inode.c:117`) stops the kernel at the next operation on it.
* `mksfs` stores symbolic links, and the kernel has no operations for them: looking one up,
  by opening it or by a path through it, ends in the panic of `sfs_get_ops`
  (`sfs_inode.c:46`).
* `mm_map` looks only for an area around the start of the new one (`vmm.c:180`). A program
  whose segment lies above the base of the stack, or whose segments are not in ascending order and
  overlap, therefore reaches the assertion in `check_vma_overlap` (`vmm.c:110`) and stops
  the kernel, where exec should refuse it.
* `load_icode` skips a segment with `p_filesz == 0` (`proc.c:808`), so one that is all BSS is
  not mapped, and the program faults when it uses it.
* `copy_range` asserts that it gets a page, and `load_icode` that it gets the stack:
  a fork or exec that runs out of memory there stops the kernel instead of
  failing. So does any failing single-page allocation once `swap_init_ok` is set.
* Two modifier keys of one kind share a bit of `shift`: releasing one ends both.
* `kmalloc` of 4080 to 4087 bytes, or of a size that `find_order` rounds down (8193),
  would get too little; no caller in this kernel asks for one
  (`KMallocAssumption`).
* A power cut between the super block and the end of the free map makes the next mount
  fail its assertion on `unused_blocks`. A cut at any other write leaves a disk that mounts,
  but whose map may be behind its inodes; what happens to it afterwards is not modelled.

## 7. Not modelled

Left out for good:

* boot code, `entry.S`, context switch and interrupt vectors: straight-line machine code,
  partly generated; `page_init` and the mapping of the kernel run once, and the
  self-checks of the allocators (except those of `check_swap`) are tests;
* port I/O of disk, clock and interrupt controller: no state but the hardware's;
* `vfs_unmount`, link, unlink, rename, mkdir and chdir: no system call of this
  kernel reaches them, and SFS implements none that changes a directory;
* `try_down`, `mm`-sharing clones: no caller;
* the command loop of `kmonitor`, formatted output, strings, the host tools `sign` and
  `vector`: no state that a property could be about;
* the sibling pointers of the process tree, whose order nothing depends on.

User programs other than the shell are covered by `Proc`, `Vm` and `Files`, which let
user mode make any sequence of calls.
