------------------------------- MODULE Files -------------------------------
(***************************************************************************)
(* Open files above the disk: the descriptor tables of the processes       *)
(* (kern/fs/file.c, fs.c), the inodes the kernel holds in memory with      *)
(* their reference and open counts (kern/fs/vfs), the device list and the  *)
(* boot file system, and the calls of kern/fs/sysfile.c.                   *)
(*                                                                         *)
(* The kernel is not preemptive and the disk driver polls, so a system     *)
(* call is one step; the processes interleave between calls.  What the     *)
(* files contain is the subject of SfsFile, and the directories are what   *)
(* mksfs put on the disk (Mksfs): creating, removing and renaming files is *)
(* not implemented in this kernel.  Here a path is the pair of the place   *)
(* where its lookup starts and the name looked up there, None for none.    *)
(*                                                                         *)
(* The operators act on a record s of the kernel's variables; ret and out  *)
(* are the return value of the call and the inode or descriptor it stores, *)
(* full says that inode_check has found a count at its limit.              *)
(***************************************************************************)
EXTENDS Integers, FiniteSets

CONSTANTS
  Procs,       \* process slots
  InitProc,    \* initproc, the kernel thread init_main
  NENTRY,      \* FILES_STRUCT_NENTRY
  MAX_INODE_COUNT,  \* limit of inode_check on the counts of an inode
  Inodes,      \* the inodes on the disk
  Root,        \* SFS_BLKN_ROOT
  Type,        \* the type of an inode, "dir" or "file"
  Entry,       \* the entries of a directory: name -> inode
  Opens,       \* what programs open: [path, flags], a path is [at, name],
               \* flags are [acc, creat, trunc, excl, append]
  Execs,       \* the paths that programs execute
  MaxLost      \* bound on the references that O_CREAT|O_EXCL loses

Devices == {"stdin", "stdout", "disk0"}
Nodes == Inodes \cup Devices
Fds == 0 .. NENTRY - 1
None == "none"
NO_FD == -1

ASSUME FilesAssumption ==
  /\ NENTRY \in Nat /\ NENTRY > 2 /\ MaxLost \in Nat
  /\ MAX_INODE_COUNT \in Nat \ {0}
  /\ IsFiniteSet(Procs) /\ InitProc \in Procs
  /\ Root \in Inodes /\ Type \in [Inodes -> {"dir", "file"}]
  /\ Type[Root] = "dir" /\ ".." \in DOMAIN Entry[Root] /\ Entry[Root][".."] = Root
  /\ \A d \in Inodes : Type[d] = "dir" => \A x \in DOMAIN Entry[d] : Entry[d][x] \in Inodes
  /\ Inodes \cap Devices = {} /\ None \notin Nodes

VARIABLES
  node,    \* the inodes in memory: [ref, open, reclaim, dirty]
  stale,   \* inodes whose copy on the disk is behind the one in memory
  lost,    \* references that nothing will ever drop
  files,   \* filesp of each process: [pwd, fd]; released, it is empty
  boot,    \* bootfs_node
  vdev,    \* vdev_list
  pc,      \* what each process runs
  panic    \* why the kernel stopped, None while it runs

vars == <<node, stale, lost, files, boot, vdev, pc, panic>>

Kernel == [node |-> node, stale |-> stale, lost |-> lost, files |-> files,
           boot |-> boot, vdev |-> vdev, panic |-> panic, full |-> FALSE,
           ret |-> "0", out |-> None]

Ret(s, r) == [s EXCEPT !.ret = r]
Store(s, x) == [s EXCEPT !.ret = "0", !.out = x]
Panic(s, why) == [s EXCEPT !.panic = IF @ = None THEN why ELSE @, !.ret = "panic"]
Failed(s) == s.ret # "0"

----------------------------------------------------------------------------
(* Inodes (inode.c, inode.h)                                               *)

(* dev_node_ops, sfs_node_dirops and sfs_node_fileops.                     *)
Ops(n) ==
  CASE n \in Devices -> {"open", "close", "read", "write", "fstat", "gettype",
                         "tryseek", "lookup"}
    [] n \in Inodes /\ Type[n] = "dir" ->
         {"open", "close", "fstat", "fsync", "namefile", "getdirentry",
          "reclaim", "gettype", "lookup"}
    [] OTHER -> {"open", "close", "read", "write", "fstat", "fsync",
                 "reclaim", "gettype", "tryseek", "truncate"}

(* inode_check's last assertion.  The call stops there: what the operators *)
(* still compute with full set is thrown away (Stopped, Commit).           *)
inode_check(s, n) ==
  IF s.node[n].ref < MAX_INODE_COUNT /\ s.node[n].open < MAX_INODE_COUNT THEN s
  ELSE [s EXCEPT !.full = TRUE]

(* __vop_op asserts that the operation exists and inode_check that the     *)
(* counts are possible; calling through a freed inode is "freed" here.  An *)
(* operation that calls another one of the same inode (sfs_close, fstat,   *)
(* tryseek, or O_APPEND's fstat after the open) finds the same counts.     *)
vop(s, n, op) ==
  IF s.panic # None THEN s
  ELSE IF n \notin DOMAIN s.node THEN Panic(s, "freed")
  ELSE IF op \notin Ops(n) THEN Panic(s, "no_operation")
  ELSE IF s.node[n].ref >= s.node[n].open THEN inode_check(s, n)
  ELSE Panic(s, "assert")

inode_init == [ref |-> 1, open |-> 0, reclaim |-> 1, dirty |-> FALSE]

inode_ref_inc(s, n) ==
  IF n \in DOMAIN s.node THEN [s EXCEPT !.node[n].ref = @ + 1] ELSE Panic(s, "freed")

sfs_fsync(s, n) ==
  IF s.node[n].dirty THEN [s EXCEPT !.node[n].dirty = FALSE, !.stale = @ \ {n}] ELSE s

(* inode_kill asserts that nobody has the inode open.                      *)
inode_kill(s, n) ==
  IF s.node[n].open # 0 THEN Panic(s, "assert")
  ELSE [s EXCEPT !.node = [m \in DOMAIN @ \ {n} |-> @[m]]]

(* No link count ever becomes 0, so the truncation is never reached.       *)
sfs_reclaim(s, n) ==
  LET t == [s EXCEPT !.node[n].reclaim = @ - 1]
  IN  IF t.node[n].reclaim # 0 \/ t.node[n].ref # 0 THEN t
      ELSE inode_kill(sfs_fsync(t, n), n)

inode_ref_dec(s, n) ==
  IF s.panic # None THEN s
  ELSE IF n \notin DOMAIN s.node THEN Panic(s, "freed")
  ELSE IF s.node[n].ref = 0 THEN Panic(s, "assert")
  ELSE LET t == [s EXCEPT !.node[n].ref = @ - 1]
           v == vop(t, n, "reclaim")
       IN  IF t.node[n].ref # 0 THEN t
           ELSE IF v.panic # None THEN v ELSE sfs_reclaim(v, n)

inode_open_inc(s, n) == [s EXCEPT !.node[n].open = @ + 1]

(* The last close calls vop_close: sfs_close is sfs_fsync, the devices do  *)
(* nothing.                                                                *)
inode_open_dec(s, n) ==
  IF s.panic # None THEN s
  ELSE IF n \notin DOMAIN s.node THEN Panic(s, "freed")
  ELSE IF s.node[n].open = 0 THEN Panic(s, "assert")
  ELSE LET t == [s EXCEPT !.node[n].open = @ - 1]
           v == vop(t, n, "close")
       IN  IF t.node[n].open # 0 THEN t
           ELSE IF v.panic # None \/ n \in Devices THEN v ELSE sfs_fsync(v, n)

(* sfs_load_inode returns the inode in memory or reads it into a new one.  *)
sfs_load_inode(s, n) ==
  LET t == inode_ref_inc(s, n)
  IN  Store(IF n \in DOMAIN s.node
            THEN IF t.node[n].ref = 1 THEN [t EXCEPT !.node[n].reclaim = @ + 1] ELSE t
            ELSE [s EXCEPT !.node = [m \in DOMAIN @ \cup {n} |->
                                       IF m = n THEN inode_init ELSE @[m]]],
            n)

----------------------------------------------------------------------------
(* Names (vfsdev.c, vfs.c, vfspath.c, vfslookup.c, sfs_inode.c, dev.c)      *)

sfs_lookup_once(s, d, name) ==
  IF name \in DOMAIN Entry[d] THEN sfs_load_inode(s, Entry[d][name]) ELSE Ret(s, "E_NOENT")

sfs_lookup(s, d, name) ==
  IF Type[d] # "dir" THEN Ret(inode_ref_dec(inode_ref_inc(s, d), d), "E_NOTDIR")
  ELSE inode_ref_dec(sfs_lookup_once(inode_ref_inc(s, d), d, name), d)

vop_lookup(s, n, name) ==
  LET v == vop(s, n, "lookup")
  IN  IF v.panic # None THEN v
      ELSE IF n \in Devices THEN Ret(v, "E_NOENT") ELSE sfs_lookup(v, n, name)

vfs_get_root(s, dev) ==
  IF dev \notin DOMAIN s.vdev THEN Ret(s, "E_NO_DEV")
  ELSE IF s.vdev[dev].fs THEN sfs_load_inode(s, Root)
  ELSE IF ~s.vdev[dev].mountable
       THEN Store(inode_ref_inc(s, s.vdev[dev].devnode), s.vdev[dev].devnode)
  ELSE Ret(s, "E_NA_DEV")

vfs_get_curdir(s, p) ==
  LET n == s.files[p].pwd
  IN  IF n = None THEN Ret(s, "E_NOENT") ELSE Store(inode_ref_inc(s, n), n)

vfs_get_bootfs(s) ==
  IF s.boot = None THEN Ret(s, "E_NOENT") ELSE Store(inode_ref_inc(s, s.boot), s.boot)

(* A path starts at the current directory, at "/" the boot file system, at *)
(* ":" the root of the current directory's file system, or at a device.    *)
get_device(s, p, path) ==
  CASE path.at = "." -> vfs_get_curdir(s, p)
    [] path.at = "/" -> vfs_get_bootfs(s)
    [] path.at = ":" -> LET c == vfs_get_curdir(s, p)
                        IN  IF Failed(c) THEN c
                            ELSE inode_ref_dec(sfs_load_inode(c, Root), c.out)
    [] OTHER -> vfs_get_root(s, path.at)

(* The device's root d is looked into, unless it is what was asked for.    *)
lookup_in(d, name) ==
  IF Failed(d) \/ name = None THEN d
  ELSE inode_ref_dec(vop_lookup(d, d.out, name), d.out)

vfs_lookup(s, p, path) == lookup_in(get_device(s, p, path), path.name)

vfs_set_curdir(s, p, dir) ==
  LET old == s.files[p].pwd
      v   == vop(s, dir, "gettype")
      t   == [inode_ref_inc(v, dir) EXCEPT !.files[p].pwd = dir]
  IN  IF old = dir THEN Ret(s, "0")
      ELSE IF v.panic # None THEN v
      ELSE IF dir \in Devices \/ Type[dir] # "dir" THEN Ret(v, "E_NOTDIR")
      ELSE Ret(IF old = None THEN t ELSE inode_ref_dec(t, old), "0")

chdir_to(n, p) ==
  IF Failed(n) THEN n ELSE inode_ref_dec(vfs_set_curdir(n, p, n.out), n.out)

vfs_chdir(s, p, path) == chdir_to(vfs_lookup(s, p, path), p)

change_bootfs(n) ==
  IF Failed(n) THEN n
  ELSE LET t == [n EXCEPT !.boot = n.out]
       IN  Ret(IF n.boot = None THEN t ELSE inode_ref_dec(t, n.boot), "0")

bootfs_here(c, p) == IF Failed(c) THEN c ELSE change_bootfs(vfs_get_curdir(c, p))

vfs_set_bootfs(s, p, dev) == bootfs_here(vfs_chdir(s, p, [at |-> dev, name |-> None]), p)

(* The current directory is always the root (only vfs_set_bootfs changes   *)
(* it), so sfs_namefile ends in its first turn, where the parent is the    *)
(* directory itself; it fails early when the buffer is short.              *)
sfs_namefile(s, n, short) ==
  LET up == sfs_lookup_once(inode_ref_inc(s, n), n, "..")
  IN  IF short THEN Ret(s, "E_NO_MEM")
      ELSE IF Failed(up) THEN inode_ref_dec(up, n)
      ELSE inode_ref_dec(inode_ref_dec(up, n), n)

vfs_getcwd(s, p, short) ==
  LET n == vfs_get_curdir(s, p)
      v == vop(n, n.out, "namefile")
  IN  IF Failed(n) THEN n
      ELSE IF v.panic # None THEN v
      ELSE inode_ref_dec(sfs_namefile(v, n.out, short), n.out)

----------------------------------------------------------------------------
(* Opening (vfsfile.c, dev.c, dev_stdin.c, dev_stdout.c)                    *)

Plain(fl) == ~(fl.creat \/ fl.trunc \/ fl.excl \/ fl.append)

vop_open(s, n, fl) ==
  LET v == vop(s, n, "open")
  IN  IF v.panic # None THEN v
      ELSE IF n \in Devices
           THEN Ret(v, IF Plain(fl) /\ \/ n = "stdin" /\ fl.acc = "r"
                                       \/ n = "stdout" /\ fl.acc = "w"
                       THEN "0" ELSE "E_INVAL")
      ELSE Ret(v, IF Type[n] = "dir" /\ (fl.acc # "r" \/ fl.append)
                  THEN "E_ISDIR" ELSE "0")

vfs_close(s, n) == inode_ref_dec(inode_open_dec(s, n), n)

sfs_truncfile(s, n) ==
  \* the size becomes 0: the inode in memory is ahead of the disk
  [s EXCEPT !.node[n].dirty = TRUE, !.stale = @ \cup {n}]

(* What vfs_open does once the path has named an inode n: vop_open, whose  *)
(* result is o, and then perhaps vop_truncate.                             *)
truncated(v, n) == IF v.panic # None THEN v ELSE Store(sfs_truncfile(v, n), n)

vfs_opened(o, n, fl) ==
  IF o.panic # None THEN o
  ELSE IF Failed(o) THEN Ret(inode_ref_dec(o, n), o.ret)
  ELSE IF fl.trunc \/ fl.creat
       THEN truncated(vop(inode_open_inc(o, n), n, "truncate"), n)
  ELSE Store(inode_open_inc(o, n), n)

vfs_create(d) == IF Failed(d) THEN d ELSE vop(d, d.out, "create")

(* With O_CREAT a missing name goes to vop_create, which no file system    *)
(* here has; O_CREAT|O_EXCL on an existing name returns without dropping   *)
(* the reference that the lookup, whose result is l, took.                 *)
open_found(l, p, path, fl) ==
  IF l.ret = "E_NOENT" /\ fl.creat THEN vfs_create(get_device(Ret(l, "0"), p, path))
  ELSE IF Failed(l) THEN l
  ELSE IF fl.excl /\ fl.creat THEN Ret([l EXCEPT !.lost[l.out] = @ + 1], "E_EXISTS")
  ELSE vfs_opened(vop_open(l, l.out, fl), l.out, fl)

vfs_open(s, p, path, fl) ==
  IF fl.trunc /\ fl.acc = "r" THEN Ret(s, "E_INVAL")
  ELSE open_found(vfs_lookup(s, p, path), p, path, fl)

----------------------------------------------------------------------------
(* Descriptor tables (file.c, fs.c)                                         *)

FreeFd == [status |-> "FD_NONE", readable |-> FALSE, writable |-> FALSE,
           open_count |-> 0, node |-> None]

files_create == [pwd |-> None, fd |-> [i \in Fds |-> FreeFd]]

Asserted(s, cond) == IF cond THEN s ELSE Panic(s, "assert")

File(s, p, fd) == s.files[p].fd[fd]

SetFile(s, p, fd, f) == [s EXCEPT !.files[p].fd[fd] = f]

FreeFds(s, p) == {i \in Fds : File(s, p, i).status = "FD_NONE"}

(* fd_array_alloc: the lowest free descriptor, or the one asked for.       *)
fd_array_alloc(s, p, want) ==
  LET i == IF want # NO_FD THEN want
           ELSE CHOOSE x \in FreeFds(s, p) : \A y \in FreeFds(s, p) : x <= y
      t == SetFile(s, p, i, [File(s, p, i) EXCEPT !.status = "FD_INIT", !.node = None])
  IN  IF want = NO_FD /\ FreeFds(s, p) = {} THEN Ret(s, "E_MAX_OPEN")
      ELSE IF i \notin Fds THEN Ret(s, "E_INVAL")
      ELSE IF i \notin FreeFds(s, p) THEN Ret(s, "E_BUSY")
      ELSE Store(Asserted(t, File(s, p, i).open_count = 0), i)

fd_array_free(s, p, i) ==
  LET f == File(s, p, i)
      c == IF f.status = "FD_CLOSED" THEN vfs_close(s, f.node) ELSE s
      t == Asserted(c, f.status \in {"FD_INIT", "FD_CLOSED"} /\ f.open_count = 0)
  IN  SetFile(t, p, i, FreeFd)

fd_array_acquire(s, p, i) ==
  Asserted(SetFile(s, p, i, [File(s, p, i) EXCEPT !.open_count = @ + 1]),
           File(s, p, i).status = "FD_OPENED")

fd_array_release(s, p, i) ==
  LET t == SetFile(s, p, i, [File(s, p, i) EXCEPT !.open_count = @ - 1])
  IN  IF File(t, p, i).open_count = 0 THEN fd_array_free(t, p, i) ELSE t

fd_array_open(s, p, i) ==
  Asserted(SetFile(s, p, i, [File(s, p, i) EXCEPT !.status = "FD_OPENED", !.open_count = @ + 1]),
           File(s, p, i).status = "FD_INIT" /\ File(s, p, i).node # None)

fd_array_close(s, p, i) ==
  fd_array_release(SetFile(s, p, i, [File(s, p, i) EXCEPT !.status = "FD_CLOSED"]), p, i)

fd_array_dup(s, p, to, from) ==
  LET n == from.node
      t == inode_open_inc(inode_ref_inc(s, n), n)
      f == [from EXCEPT !.status = "FD_INIT", !.open_count = 0]
  IN  fd_array_open(SetFile(t, p, to, f), p, to)

IsOpen(s, p, i) == i \in Fds /\ File(s, p, i).status = "FD_OPENED"

file_testfd(s, p, i, op) ==
  /\ IsOpen(s, p, i)
  /\ op = "read" => File(s, p, i).readable
  /\ op = "write" => File(s, p, i).writable

(* The inode v.out, if vfs_open has found one, goes into descriptor i.     *)
file_opened(v, p, i, acc) ==
  LET t == SetFile(v, p, i, [File(v, p, i) EXCEPT !.node = v.out,
                                                  !.readable = acc \in {"r", "rw"},
                                                  !.writable = acc \in {"w", "rw"}])
  IN  IF Failed(v) THEN fd_array_free(v, p, i)
      ELSE Store(fd_array_open(t, p, i), i)

open_in(a, p, path, fl) ==
  IF Failed(a) THEN a ELSE file_opened(vfs_open(a, p, path, fl), p, a.out, fl.acc)

file_open(s, p, path, fl) == open_in(fd_array_alloc(s, p, NO_FD), p, path, fl)

file_close(s, p, i) ==
  IF IsOpen(s, p, i) THEN fd_array_close(s, p, i) ELSE Ret(s, "E_INVAL")

(* file_read, file_write, file_seek, file_fstat, file_fsync and            *)
(* file_getdirentry hold the descriptor around the inode's operation.  A   *)
(* write (and a seek beyond the end) may change the inode in memory.       *)
file_op(s, p, i, op, changes) ==
  LET a == fd_array_acquire(s, p, i)
      n == File(s, p, i).node
      v == vop(a, n, op)
      w == IF changes /\ n \in Inodes /\ op \in {"write", "tryseek"}
           THEN sfs_truncfile(v, n)
           ELSE IF op = "fsync" THEN sfs_fsync(v, n) ELSE v
  IN  IF ~file_testfd(s, p, i, op) THEN Ret(s, "E_INVAL")
      ELSE IF v.panic # None THEN v
      ELSE fd_array_release(w, p, i)

file_dup(s, p, fd1, fd2) ==
  LET a == fd_array_alloc(s, p, fd2)
  IN  IF ~IsOpen(s, p, fd1) THEN Ret(s, "E_INVAL")
      ELSE IF Failed(a) THEN a
      ELSE Store(fd_array_dup(a, p, a.out, File(s, p, fd1)), a.out)

(* Closing, or copying, the open descriptors from i on.                    *)
CloseFrom(s, p, i) ==
  LET f[j \in i .. NENTRY] ==
        IF j = i THEN s
        ELSE IF IsOpen(f[j - 1], p, j - 1) THEN fd_array_close(f[j - 1], p, j - 1)
        ELSE f[j - 1]
  IN  f[NENTRY]

(* Faulty variant: dup_files forgets the reference to the working directory. *)
dup_files_nopwd(s, c, p) ==
  LET f[j \in 0 .. NENTRY] ==
        IF j = 0 THEN [s EXCEPT !.files[c] = [files_create EXCEPT !.pwd = s.files[p].pwd]]
        ELSE IF IsOpen(s, p, j - 1)
             THEN fd_array_dup(f[j - 1], c, j - 1, File(s, p, j - 1))
        ELSE f[j - 1]
  IN  f[NENTRY]

dup_files(s, c, p) ==
  LET pwd == s.files[p].pwd
      t   == IF pwd = None THEN s ELSE inode_ref_inc(s, pwd)
      f[j \in 0 .. NENTRY] ==
        IF j = 0 THEN [t EXCEPT !.files[c] = [files_create EXCEPT !.pwd = pwd]]
        ELSE IF IsOpen(s, p, j - 1)
             THEN fd_array_dup(f[j - 1], c, j - 1, File(s, p, j - 1))
        ELSE f[j - 1]
  IN  f[NENTRY]

(* files_closeall spares descriptors 0 and 1.                              *)
files_closeall(s, p) == CloseFrom(s, p, 2)

files_destroy(s, p) ==
  LET d == IF s.files[p].pwd = None THEN s ELSE inode_ref_dec(s, s.files[p].pwd)
      t == CloseFrom(d, p, 0)
  IN  [Asserted(t, \A i \in Fds : File(t, p, i).status = "FD_NONE")
         EXCEPT !.files[p] = files_create]

----------------------------------------------------------------------------
(* The calls (sysfile.c, proc.c, umain.c)                                   *)

(* The first assertion that failed in the call: after a panic vop no       *)
(* longer gets to inode_check.                                             *)
Stopped(t) == IF t.full THEN "inode_check" ELSE t.panic

(* The call is done, with result t, and its process goes on as c says; or  *)
(* it has stopped the kernel.                                              *)
Commit(t, c) ==
  /\ panic' = Stopped(t)
  /\ IF Stopped(t) # None THEN UNCHANGED <<node, stale, lost, files, boot, vdev, pc>>
     ELSE /\ node' = t.node /\ stale' = t.stale /\ lost' = t.lost
          /\ files' = t.files /\ boot' = t.boot /\ vdev' = t.vdev /\ pc' = c

Running(p) == panic = None /\ pc[p] = "main"

(* vfs_do_add, and sfs_mount on the one mountable device.                  *)
vfs_do_add(s, dev, mountable) ==
  [s EXCEPT !.vdev = [d \in DOMAIN @ \cup {dev} |->
                        IF d # dev THEN @[d]
                        ELSE [devnode |-> dev, fs |-> FALSE, mountable |-> mountable]],
            !.node = [n \in DOMAIN @ \cup {dev} |-> IF n = dev THEN inode_init ELSE @[n]]]

vfs_mount(s, dev) ==
  IF dev \notin DOMAIN s.vdev \/ ~s.vdev[dev].mountable THEN Ret(s, "E_NO_DEV")
  ELSE IF s.vdev[dev].fs THEN Ret(s, "E_BUSY")
  ELSE Ret([s EXCEPT !.vdev[dev].fs = TRUE], "0")

Empty == [x \in {} |-> x]

fs_init ==
  LET s == [node |-> Empty, stale |-> {}, lost |-> [n \in Nodes |-> 0],
            files |-> [p \in Procs |-> files_create],
            boot |-> None, vdev |-> Empty, panic |-> None, full |-> FALSE,
            ret |-> "0", out |-> None]
  IN  vfs_mount(vfs_do_add(vfs_do_add(vfs_do_add(s, "stdin", FALSE),
                                      "stdout", FALSE), "disk0", TRUE), "disk0")

Init ==
  /\ node = fs_init.node /\ stale = {} /\ lost = fs_init.lost /\ files = fs_init.files
  /\ boot = None /\ vdev = fs_init.vdev /\ panic = None
  /\ pc = [p \in Procs |-> IF p = InitProc THEN "boot" ELSE None]

(* copy_fs in do_fork: kernel threads and programs fork without CLONE_FS.  *)
do_fork(p, c) ==
  /\ pc[c] = None
  /\ Commit(dup_files(Kernel, c, p), [pc EXCEPT ![c] = pc[p]])

(* do_fork failed after copy_fs: bad_fork_cleanup_fs drops the new table.  *)
fork_undo(p, c) ==
  /\ pc[c] = None
  /\ Commit(files_destroy(dup_files(Kernel, c, p), c), pc)

sys_fork(p) == Running(p) /\ \E c \in Procs : do_fork(p, c) \/ fork_undo(p, c)

(* init_main: vfs_set_bootfs, then the kernel thread user_main.            *)
init_main(p) ==
  /\ panic = None /\ pc[p] = "boot"
  /\ LET t == vfs_set_bootfs(Kernel, p, "disk0")
     IN  Commit(IF Failed(t) THEN Panic(t, "assert") ELSE t, [pc EXCEPT ![p] = "thread"])

user_main(p) ==
  /\ panic = None /\ pc[p] = "thread"
  /\ \E c \in Procs :
        /\ pc[c] = None
        /\ Commit(dup_files(Kernel, c, p), [pc EXCEPT ![p] = "waiting", ![c] = "exec"])

(* The rest of init_main: fs_cleanup, which is vop_fsync of every inode in *)
(* memory, once every process has quit.                                    *)
fs_cleanup(p) ==
  LET loaded == DOMAIN node \cap Inodes
      dirty  == {n \in loaded : node[n].dirty}
  IN  /\ panic = None /\ pc[p] = "waiting"
      /\ \A q \in Procs \ {p} : pc[q] = None
      /\ Commit([Kernel EXCEPT
           !.node = [n \in DOMAIN @ |-> IF n \in dirty THEN [@[n] EXCEPT !.dirty = FALSE] ELSE @[n]],
           !.stale = @ \ dirty,
           !.full = \E n \in loaded : inode_check(Kernel, n).full],
           [pc EXCEPT ![p] = "done"])

Exit(s, p) == files_destroy(s, p)

do_exit(p) ==
  /\ panic = None /\ pc[p] \in {"main", "umain0", "umain1"}
  /\ Commit(Exit(Kernel, p), [pc EXCEPT ![p] = None])

(* Open flags without O_CREAT, O_TRUNC, O_EXCL and O_APPEND.               *)
Access(acc) == [acc |-> acc, creat |-> FALSE, trunc |-> FALSE, excl |-> FALSE, append |-> FALSE]

(* do_execve closes the descriptors above 1, opens the program, and        *)
(* load_icode reads it through that descriptor and closes it.  When the    *)
(* open or the load fails the process exits.                               *)
do_execve(p, path) ==
  /\ panic = None /\ pc[p] \in {"exec", "main"}
  /\ \E o \in {file_open(files_closeall(Kernel, p), p, path, Access("r"))} :
        IF Failed(o) THEN Commit(Exit(o, p), [pc EXCEPT ![p] = None])
        ELSE \E r \in {file_op(file_op(o, p, o.out, "tryseek", FALSE), p, o.out, "read", FALSE)} :
                \/ Commit(file_close(r, p, o.out), [pc EXCEPT ![p] = "umain0"])
                \/ /\ r.panic = None                   \* load_icode failed
                   /\ Commit(Exit(r, p), [pc EXCEPT ![p] = None])

(* Faulty variant: the inherited descriptor is not closed first.           *)
move_fd_noclose(o, p, fd2) ==
  IF Failed(o) \/ o.out = fd2 THEN o
  ELSE file_close(file_dup(o, p, o.out, fd2), p, o.out)

(* The descriptor o.out that was opened becomes fd2, which is closed first. *)
move_fd(o, p, fd2) ==
  IF Failed(o) \/ o.out = fd2 THEN o
  ELSE file_close(file_dup(file_close(o, p, fd2), p, o.out, fd2), p, o.out)

(* umain's initfd, the first thing a program does: descriptor 0 becomes    *)
(* "stdin:" and 1 becomes "stdout:".                                       *)
initfd(s, p, fd2, path, acc) == move_fd(file_open(s, p, path, Access(acc)), p, fd2)

umain(p) ==
  /\ panic = None
  /\ \/ /\ pc[p] = "umain0"
        /\ Commit(initfd(Kernel, p, 0, [at |-> "stdin", name |-> None], "r"),
                  [pc EXCEPT ![p] = "umain1"])
     \/ /\ pc[p] = "umain1"
        /\ Commit(initfd(Kernel, p, 1, [at |-> "stdout", name |-> None], "w"),
                  [pc EXCEPT ![p] = "main"])

sysfile_open(p) ==
  \E o \in Opens :
     /\ o.flags.excl /\ o.flags.creat => \A n \in Nodes : lost[n] < MaxLost
     /\ Commit(file_open(Kernel, p, o.path, o.flags), pc)

sysfile_close(p) == \E i \in Fds : Commit(file_close(Kernel, p, i), pc)

(* sysfile_read, sysfile_write, sysfile_seek, sysfile_fstat,               *)
(* sysfile_fsync and sysfile_getdirentry: the loops of read and write over *)
(* the bounce buffer repeat the same step.                                 *)
sysfile_op(p) ==
  \E i \in Fds, changes \in BOOLEAN,
     op \in {"read", "write", "tryseek", "fstat", "fsync", "getdirentry"} :
        /\ IsOpen(Kernel, p, i)
        /\ changes => op \in {"write", "tryseek"}
        /\ Commit(file_op(Kernel, p, i, op, changes), pc)

sysfile_getcwd(p) == \E short \in BOOLEAN : Commit(vfs_getcwd(Kernel, p, short), pc)

sysfile_dup(p) ==
  \E i \in Fds, j \in Fds \cup {NO_FD, NENTRY} : Commit(file_dup(Kernel, p, i, j), pc)

sysfile(p) ==
  /\ Running(p)
  /\ \/ sysfile_open(p) \/ sysfile_close(p) \/ sysfile_op(p)
     \/ sysfile_getcwd(p) \/ sysfile_dup(p)

Next == \E p \in Procs :
          \/ init_main(p) \/ user_main(p) \/ fs_cleanup(p)
          \/ sys_fork(p) \/ do_exit(p) \/ umain(p) \/ sysfile(p)
          \/ \E path \in Execs : do_execve(p, path)

Spec == Init /\ [][Next]_vars

----------------------------------------------------------------------------
(* Properties                                                              *)

OpenIn(n) == {x \in Procs \X Fds :
                 /\ files[x[1]].fd[x[2]].status = "FD_OPENED"
                 /\ files[x[1]].fd[x[2]].node = n}

Holders(n) == Cardinality(OpenIn(n))
              + Cardinality({p \in Procs : files[p].pwd = n})
              + (IF boot = n THEN 1 ELSE 0) + (IF n \in Devices THEN 1 ELSE 0)

(* Every descriptor, current directory and the boot file system is counted *)
(* once in the inode it names, and nothing else is: an inode is in memory  *)
(* exactly as long as somebody (or a lost reference) holds it.             *)
Counted ==
  \A n \in Nodes :
    IF n \in DOMAIN node
    THEN /\ node[n].open = Cardinality(OpenIn(n))
         /\ node[n].ref = Holders(n) + lost[n] /\ node[n].ref > 0
         /\ n \in Inodes => node[n].reclaim = 1
    ELSE Holders(n) + lost[n] = 0

(* Between calls a descriptor is free, or open once.                       *)
TableOK == \A p \in Procs :
             /\ pc[p] = None => files[p] = files_create
             /\ \A i \in Fds : LET f == files[p].fd[i]
                               IN  \/ f = FreeFd
                                   \/ f.status = "FD_OPENED" /\ f.open_count = 1

(* What the disk does not have yet is in memory, marked dirty; when init   *)
(* has cleaned up, nothing is missing on the disk.                         *)
Saved == /\ \A n \in stale : n \in DOMAIN node /\ node[n].dirty
         /\ (\E p \in Procs : pc[p] = "done") => stale = {}

(* What a call may add to the references of one inode before it is done:   *)
(* a fork NENTRY descriptors and the working directory.                    *)
Slack == NENTRY + 2

(* Some inode has all but Slack of the references that inode_check allows. *)
NearLimit == \E n \in Nodes : Holders(n) + lost[n] + Slack >= MAX_INODE_COUNT

(* FilesOK: whatever calls the processes make, in whatever order they fork,*)
(* exec and exit, the reference and open counts of the inodes are exact,   *)
(* the descriptor tables are consistent, no change is dropped with an      *)
(* inode, and no assertion of file.c, fs.c or inode.c fails but two: the   *)
(* call of an operation that the inode lacks, and inode_check's bound on   *)
(* the counts, which only fails when the descriptors and directories that  *)
(* hold an inode, with the references that O_CREAT|O_EXCL has lost, have   *)
(* all but reached MAX_INODE_COUNT.                                        *)
FilesOK == /\ panic \in {None, "no_operation", "inode_check"}
           /\ panic = None => Counted /\ TableOK /\ Saved
           /\ panic = "inode_check" => NearLimit

(* StdioOK: whatever descriptors a program inherits over fork and exec,    *)
(* its main starts with "stdin:" readable at 0 and "stdout:" writable at 1 *)
(* (umain's initfd on top of files_closeall and fd_array_alloc).           *)
StdioOK ==
  [][\A p \in Procs : pc[p] = "umain1" /\ pc'[p] = "main" =>
        /\ files'[p].fd[0].status = "FD_OPENED" /\ files'[p].fd[0].node = "stdin"
        /\ files'[p].fd[0].readable
        /\ files'[p].fd[1].status = "FD_OPENED" /\ files'[p].fd[1].node = "stdout"
        /\ files'[p].fd[1].writable]_vars

============================================================================
