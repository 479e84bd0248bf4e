------------------------------- MODULE SfsFile -------------------------------
(***************************************************************************)
(* Files of SFS, kern/fs/sfs/sfs_inode.c: the block map of an inode (some  *)
(* direct blocks and one block of further entries), the free map, reading, *)
(* writing, seeking and truncating through open files (kern/fs/file.c),    *)
(* and the write-back and release of an inode at its last close.           *)
(*                                                                         *)
(* The disk driver polls and the kernel does not preempt itself, so a      *)
(* system call on a file runs to its end before the next one starts.  op   *)
(* is the call in progress; reads, writes and truncations take one step    *)
(* per block.  The one error that reaches the file system is a full disk:  *)
(* disk0_io panics when the driver reports an error.                       *)
(*                                                                         *)
(* Sizes and positions are in units of which SFS_BLKSIZE make a block.     *)
(* Content of data blocks is left out.                                     *)
(***************************************************************************)
EXTENDS Integers, FiniteSetsExt

CONSTANTS
    Files,              \* inodes
    Handles,            \* entries of the processes' tables of open files
    NULL,               \* no file
    Blocks,             \* data and entry blocks of the disk, numbers > 0
    SFS_NDIRECT,
    SFS_BLK_NENTRY,     \* entries in the indirect block
    SFS_BLKSIZE,
    SFS_MAX_FILE_SIZE,
    Lens,               \* lengths of reads and writes
    Seeks               \* positions of seeks

ASSUME SfsFileAssumption ==
    /\ NULL \notin Files
    /\ Blocks \subseteq Nat \ {0}
    /\ IsFiniteSet(Blocks)
    /\ SFS_NDIRECT \in Nat
    /\ SFS_BLK_NENTRY \in Nat
    /\ SFS_BLKSIZE \in Nat \ {0}
    /\ SFS_MAX_FILE_SIZE \in Nat
    /\ Lens \subseteq Nat \ {0}
    /\ Seeks \subseteq 0..(SFS_MAX_FILE_SIZE - 1)

VARIABLES
    freemap,   \* the free blocks
    unused,    \* super.unused_blocks
    entries,   \* [Blocks -> [Entries -> Block numbers]]: content of entry blocks
    disk,      \* [Files -> Inode]: sfs_disk_inode on the disk
    din,       \* [Files -> Inode]: sfs_disk_inode in memory; Empty if not loaded
    dirty,     \* [Files -> BOOLEAN]
    file,      \* [Handles -> Files \cup {NULL}]: the inode of an open file
    pos,       \* [Handles -> Nat]
    op,        \* the call in progress
    panic      \* assertion that has failed, or "none"

map_vars == <<freemap, unused, entries, din, dirty>>

file_vars == <<file, pos>>

vars == <<map_vars, disk, file_vars, op, panic>>

BlockNo == Blocks \cup {0}

Direct == 0..(SFS_NDIRECT - 1)

Entries == 0..(SFS_BLK_NENTRY - 1)

Inode == [size : Nat, blocks : Nat, direct : [Direct -> BlockNo], indirect : BlockNo]

Idle == [kind |-> "none"]

Ops == {Idle}
    \cup [kind : {"io"}, h : Handles, write : BOOLEAN, endpos : Nat, alen : Nat]
    \cup [kind : {"trunc"}, h : Handles, len : Nat, seek : BOOLEAN]

TypeOK ==
    /\ freemap \subseteq Blocks
    /\ unused \in Nat
    /\ entries \in [Blocks -> [Entries -> BlockNo]]
    /\ disk \in [Files -> Inode]
    /\ din \in [Files -> Inode]
    /\ dirty \in [Files -> BOOLEAN]
    /\ file \in [Handles -> Files \cup {NULL}]
    /\ pos \in [Handles -> Nat]
    /\ op \in Ops
    /\ panic \in {"none", "bmap_load", "bmap_get", "truncfile"}

Empty == [size |-> 0, blocks |-> 0, direct |-> [j \in Direct |-> 0], indirect |-> 0]

(* A disk made by mksfs with empty files, and no file open.                *)
Init ==
    /\ freemap = Blocks
    /\ unused = Cardinality(Blocks)
    /\ entries = [b \in Blocks |-> [j \in Entries |-> 0]]
    /\ disk = [f \in Files |-> Empty]
    /\ din = [f \in Files |-> Empty]
    /\ dirty = [f \in Files |-> FALSE]
    /\ file = [h \in Handles |-> NULL]
    /\ pos = [h \in Handles |-> 0]
    /\ op = Idle
    /\ panic = "none"

-----------------------------------------------------------------------------
Ready == op = Idle /\ panic = "none"

ROUNDUP_DIV(n, k) == (n + k - 1) \div k

Loaded(f) == \E h \in Handles : file[h] = f

OpFile == file[op.h]

(* An assertion fails and the kernel stops.                                *)
Panic(where) ==
    /\ panic' = where
    /\ UNCHANGED <<map_vars, disk, file_vars, op>>

(* bitmap_alloc finds the first free block.                                *)
FirstFree == Min(freemap)

(* sfs_block_alloc: block b is taken and cleared.                          *)
sfs_block_alloc(bs) ==
    /\ freemap' = freemap \ bs
    /\ unused' = unused - Cardinality(bs)

(* sfs_block_free.                                                         *)
sfs_block_free(b) ==
    /\ freemap' = freemap \cup {b}
    /\ unused' = unused + 1

(* sfs_bmap_load_nolock for the block behind the last one of f, which      *)
(* sfs_bmap_get_nolock allocates: a direct block ...                       *)
grow_direct(f) ==
    LET n == din[f].blocks
        b == FirstFree
    IN  /\ n < SFS_NDIRECT
        /\ freemap # {}
        /\ sfs_block_alloc({b})
        /\ din' = [din EXCEPT ![f].direct[n] = b, ![f].blocks = n + 1]
        /\ dirty' = [dirty EXCEPT ![f] = TRUE]
        /\ UNCHANGED entries

(* ... or one in the entry block (sfs_bmap_get_sub_nolock), in which an    *)
(* earlier attempt may have left a block ...                               *)
grow_indirect(f) ==
    LET n   == din[f].blocks
        j   == n - SFS_NDIRECT
        ent == din[f].indirect
        b   == FirstFree
    IN  /\ n >= SFS_NDIRECT
        /\ j < SFS_BLK_NENTRY
        /\ ent # 0
        /\ \/ /\ entries[ent][j] = 0
              /\ freemap # {}
              /\ sfs_block_alloc({b})
              /\ entries' = [entries EXCEPT ![ent][j] = b]
           \/ /\ entries[ent][j] # 0
              /\ UNCHANGED <<freemap, unused, entries>>
        /\ din' = [din EXCEPT ![f].blocks = n + 1]
        /\ UNCHANGED dirty

(* ... or the first one there, together with the entry block.              *)
grow_entry_block(f) ==
    LET n   == din[f].blocks
        j   == n - SFS_NDIRECT
        ent == FirstFree
        b   == Min(freemap \ {ent})
    IN  /\ n >= SFS_NDIRECT
        /\ j < SFS_BLK_NENTRY
        /\ din[f].indirect = 0
        /\ Cardinality(freemap) > 1
        /\ sfs_block_alloc({ent, b})
        /\ entries' = [entries EXCEPT ![ent] = [k \in Entries |-> IF k = j THEN b ELSE 0]]
        /\ din' = [din EXCEPT ![f].indirect = ent, ![f].blocks = n + 1]
        /\ dirty' = [dirty EXCEPT ![f] = TRUE]

grow(f) == grow_direct(f) \/ grow_indirect(f) \/ grow_entry_block(f)

(* Too few free blocks: sfs_bmap_load_nolock returns -E_NO_MEM and undoes  *)
(* what it has allocated.                                                  *)
DiskFull(f) ==
    LET n   == din[f].blocks
        ent == din[f].indirect
    IN  \/ n < SFS_NDIRECT /\ freemap = {}
        \/ /\ n >= SFS_NDIRECT
           /\ n - SFS_NDIRECT < SFS_BLK_NENTRY
           /\ IF ent = 0 THEN Cardinality(freemap) < 2
                         ELSE entries[ent][n - SFS_NDIRECT] = 0 /\ freemap = {}

(* The block that entry n of f's map names.                                *)
Mapped(f, n) ==
    IF n < SFS_NDIRECT THEN din[f].direct[n]
    ELSE IF din[f].indirect = 0 THEN 0
    ELSE entries[din[f].indirect][n - SFS_NDIRECT]

(* Faulty variant of sfs_bmap_truncate_nolock: the entry in the indirect *)
(* block keeps the number of the block.                                    *)
sfs_bmap_truncate_nolock_stale(f) ==
    LET n == din[f].blocks - 1
    IN  /\ sfs_block_free(Mapped(f, n))
        /\ din' = IF n < SFS_NDIRECT
                  THEN [din EXCEPT ![f].direct[n] = 0, ![f].blocks = n]
                  ELSE [din EXCEPT ![f].blocks = n]
        /\ dirty' = [dirty EXCEPT ![f] = TRUE]
        /\ UNCHANGED entries

(* sfs_bmap_truncate_nolock: the last block of f is freed; the entry block *)
(* stays.                                                                  *)
sfs_bmap_truncate_nolock(f) ==
    LET n == din[f].blocks - 1
    IN  /\ sfs_block_free(Mapped(f, n))
        /\ IF n < SFS_NDIRECT
           THEN /\ din' = [din EXCEPT ![f].direct[n] = 0, ![f].blocks = n]
                /\ UNCHANGED entries
           ELSE /\ din' = [din EXCEPT ![f].blocks = n]
                /\ entries' = [entries EXCEPT ![din[f].indirect][n - SFS_NDIRECT] = 0]
        /\ dirty' = [dirty EXCEPT ![f] = TRUE]

-----------------------------------------------------------------------------
(* sfs_load_inode reads the inode unless it is in memory.                  *)
sfs_load_inode(f) ==
    din' = IF Loaded(f) THEN din ELSE [din EXCEPT ![f] = disk[f]]

(* vfs_open of a file that exists: O_TRUNC and O_CREAT truncate it.        *)
vfs_open(h, flag) ==
    op' = IF flag = "O_TRUNC" THEN [kind |-> "trunc", h |-> h, len |-> 0, seek |-> FALSE]
                              ELSE op

(* file_open for reading and writing; O_APPEND starts at the end.          *)
file_open(h, f, flag) ==
    /\ Ready
    /\ file[h] = NULL
    /\ file' = [file EXCEPT ![h] = f]
    /\ sfs_load_inode(f)
    /\ vfs_open(h, flag)
    /\ pos' = [pos EXCEPT ![h] = IF flag = "O_APPEND" THEN din'[f].size ELSE 0]
    /\ UNCHANGED <<freemap, unused, entries, dirty, disk, panic>>

(* file_dup, and the copies that fork makes: same inode, own position.     *)
file_dup(h, to) ==
    /\ Ready
    /\ file[h] # NULL
    /\ file[to] = NULL
    /\ file' = [file EXCEPT ![to] = file[h]]
    /\ pos' = [pos EXCEPT ![to] = pos[h]]
    /\ UNCHANGED <<map_vars, disk, op, panic>>

(* sfs_fsync.                                                              *)
file_fsync(h) ==
    /\ Ready
    /\ file[h] # NULL
    /\ dirty[file[h]]
    /\ disk' = [disk EXCEPT ![file[h]] = din[file[h]]]
    /\ dirty' = [dirty EXCEPT ![file[h]] = FALSE]
    /\ UNCHANGED <<freemap, unused, entries, din, file_vars, op, panic>>

(* sfs_reclaim: the inode is written back if it is dirty, and dropped.     *)
sfs_reclaim(f) ==
    /\ disk' = IF dirty[f] THEN [disk EXCEPT ![f] = din[f]] ELSE disk
    /\ din' = [din EXCEPT ![f] = Empty]
    /\ dirty' = [dirty EXCEPT ![f] = FALSE]

(* file_close; the last reference reclaims the inode.                      *)
file_close(h) ==
    LET f    == file[h]
        last == \A k \in Handles \ {h} : file[k] # f
    IN  /\ Ready
        /\ f # NULL
        /\ file' = [file EXCEPT ![h] = NULL]
        /\ pos' = [pos EXCEPT ![h] = 0]
        /\ IF last THEN sfs_reclaim(f) ELSE UNCHANGED <<disk, din, dirty>>
        /\ UNCHANGED <<freemap, unused, entries, op, panic>>

-----------------------------------------------------------------------------
IoOp(h, write, endpos) ==
    [kind |-> "io", h |-> h, write |-> write, endpos |-> endpos, alen |-> 0]

(* file_read and file_write of n units, up to the first block of           *)
(* sfs_io_nolock.  A read stops at the end of the file; a write may start  *)
(* anywhere.                                                               *)
file_read(h, n) ==
    /\ Ready
    /\ file[h] # NULL
    /\ pos[h] < SFS_MAX_FILE_SIZE
    /\ pos[h] < din[file[h]].size
    /\ op' = IoOp(h, FALSE, Min({pos[h] + n, SFS_MAX_FILE_SIZE, din[file[h]].size}))
    /\ UNCHANGED <<map_vars, disk, file_vars, panic>>

file_write(h, n) ==
    /\ Ready
    /\ file[h] # NULL
    /\ pos[h] < SFS_MAX_FILE_SIZE
    /\ op' = IoOp(h, TRUE, Min({pos[h] + n, SFS_MAX_FILE_SIZE}))
    /\ UNCHANGED <<map_vars, disk, file_vars, panic>>

Io == op.kind = "io" /\ panic = "none"

Cur == pos[op.h] + op.alen

Blkno == Cur \div SFS_BLKSIZE

(* The part of the current block that is read or written.                  *)
io_advance ==
    op' = [op EXCEPT !.alen =
              @ + Min({SFS_BLKSIZE - (Cur % SFS_BLKSIZE), op.endpos - Cur})]

(* One block that the file has.                                            *)
io_block ==
    /\ Io
    /\ Cur < op.endpos
    /\ Blkno < din[OpFile].blocks
    /\ io_advance
    /\ UNCHANGED <<map_vars, disk, file_vars, panic>>

(* One block behind the last one.  sfs_io_nolock does not tell             *)
(* sfs_bmap_load_nolock whether it reads or writes.                        *)
io_grow ==
    /\ Io
    /\ Cur < op.endpos
    /\ Blkno = din[OpFile].blocks
    /\ grow(OpFile)
    /\ io_advance
    /\ UNCHANGED <<disk, file_vars, panic>>

(* Faulty variant of io_end: a larger size does not make the inode dirty. *)
io_end_clean ==
    LET f == OpFile
    IN  /\ Io
        /\ \/ Cur = op.endpos
           \/ Blkno = din[f].blocks /\ DiskFull(f)
        /\ din' = [din EXCEPT ![f].size = Max({Cur, @})]
        /\ pos' = [pos EXCEPT ![op.h] = Cur]
        /\ op' = Idle
        /\ UNCHANGED <<freemap, unused, entries, dirty, disk, file, panic>>

(* The label out of sfs_io_nolock, and the end of the call: the size       *)
(* covers the position even if nothing was written.                        *)
io_end ==
    LET f == OpFile
    IN  /\ Io
        /\ \/ Cur = op.endpos
           \/ Blkno = din[f].blocks /\ DiskFull(f)
        /\ IF Cur > din[f].size
           THEN /\ din' = [din EXCEPT ![f].size = Cur]
                /\ dirty' = [dirty EXCEPT ![f] = TRUE]
           ELSE UNCHANGED <<din, dirty>>
        /\ pos' = [pos EXCEPT ![op.h] = Cur]
        /\ op' = Idle
        /\ UNCHANGED <<freemap, unused, entries, disk, file, panic>>

(* The assertion at the start of sfs_bmap_load_nolock.                     *)
io_beyond ==
    /\ Io
    /\ Cur < op.endpos
    /\ Blkno > din[OpFile].blocks
    /\ Panic("bmap_load")

-----------------------------------------------------------------------------
(* sfs_tryseek: a position behind the end extends the file.                *)
Extends(h, p) == p > din[file[h]].size

(* file_seek; Seeks holds only positions that sfs_tryseek does not refuse. *)
file_seek(h, p) ==
    /\ Ready
    /\ file[h] # NULL
    /\ IF Extends(h, p)
       THEN /\ op' = [kind |-> "trunc", h |-> h, len |-> p, seek |-> TRUE]
            /\ UNCHANGED pos
       ELSE /\ pos' = [pos EXCEPT ![h] = p]
            /\ UNCHANGED op
    /\ UNCHANGED <<map_vars, disk, file, panic>>

Trunc == op.kind = "trunc" /\ panic = "none"

Tblks == ROUNDUP_DIV(op.len, SFS_BLKSIZE)

(* sfs_truncfile: the file has the length already ...                      *)
trunc_same ==
    /\ Trunc
    /\ din[OpFile].size = op.len
    /\ \/ /\ Tblks # din[OpFile].blocks
          /\ Panic("truncfile")
       \/ /\ Tblks = din[OpFile].blocks
          /\ op' = Idle
          /\ UNCHANGED <<map_vars, disk, file_vars, panic>>

(* ... or gets blocks ...                                                  *)
trunc_grow ==
    /\ Trunc
    /\ din[OpFile].size # op.len
    /\ din[OpFile].blocks < Tblks
    /\ grow(OpFile)
    /\ UNCHANGED <<disk, file_vars, op, panic>>

(* ... until the disk is full ...                                          *)
trunc_full ==
    /\ Trunc
    /\ din[OpFile].size # op.len
    /\ din[OpFile].blocks < Tblks
    /\ DiskFull(OpFile)
    /\ op' = Idle
    /\ UNCHANGED <<map_vars, disk, file_vars, panic>>

(* ... or loses them ...                                                   *)
trunc_shrink ==
    /\ Trunc
    /\ din[OpFile].size # op.len
    /\ din[OpFile].blocks > Tblks
    /\ sfs_bmap_truncate_nolock(OpFile)
    /\ UNCHANGED <<disk, file_vars, op, panic>>

(* ... and has the new length.                                             *)
trunc_done ==
    /\ Trunc
    /\ din[OpFile].size # op.len
    /\ din[OpFile].blocks = Tblks
    /\ din' = [din EXCEPT ![OpFile].size = op.len]
    /\ dirty' = [dirty EXCEPT ![OpFile] = TRUE]
    /\ pos' = IF op.seek THEN [pos EXCEPT ![op.h] = op.len] ELSE pos
    /\ op' = Idle
    /\ UNCHANGED <<freemap, unused, entries, disk, file, panic>>

(* The caller of sfs_bmap_load_nolock wants the block behind the last one. *)
NewBlockWanted ==
    \/ op.kind = "io" /\ Cur < op.endpos /\ Blkno = din[OpFile].blocks
    \/ op.kind = "trunc" /\ din[OpFile].size # op.len /\ din[OpFile].blocks < Tblks

(* sfs_bmap_get_nolock panics: no entry for such a block.                  *)
bmap_get_range ==
    /\ op # Idle
    /\ panic = "none"
    /\ NewBlockWanted
    /\ din[OpFile].blocks >= SFS_NDIRECT + SFS_BLK_NENTRY
    /\ Panic("bmap_get")

(* After a panic the machine stays in the kernel monitor.                  *)
Panicked ==
    /\ panic # "none"
    /\ UNCHANGED vars

Next ==
    \/ \E h \in Handles :
          \/ \E f \in Files, flag \in {"none", "O_TRUNC", "O_APPEND"} : file_open(h, f, flag)
          \/ \E to \in Handles : file_dup(h, to)
          \/ \E n \in Lens : file_read(h, n) \/ file_write(h, n)
          \/ \E p \in Seeks : file_seek(h, p)
          \/ file_fsync(h)
          \/ file_close(h)
    \/ io_block \/ io_grow \/ io_end \/ io_beyond
    \/ trunc_same \/ trunc_grow \/ trunc_full \/ trunc_shrink \/ trunc_done
    \/ bmap_get_range
    \/ Panicked

Spec == Init /\ [][Next]_vars

-----------------------------------------------------------------------------
(* What a file is to whoever opens it next.                                *)
Node(f) == IF Loaded(f) THEN din[f] ELSE disk[f]

(* The blocks that the map of f names, with the place where it does.       *)
Uses(f) ==
    LET node == Node(f)
    IN  {<<f, "direct", j, node.direct[j]>> : j \in {k \in Direct : node.direct[k] # 0}}
        \cup {<<f, "indirect", 0, b>> : b \in {node.indirect} \ {0}}
        \cup IF node.indirect = 0 THEN {}
             ELSE {<<f, "entry", j, entries[node.indirect][j]>> :
                       j \in {k \in Entries : entries[node.indirect][k] # 0}}

AllUses == UNION {Uses(f) : f \in Files}

(* Every block of the disk is free or named in exactly one place of one    *)
(* file's map, also after errors and after inodes were dropped and loaded  *)
(* again; unused_blocks counts the free ones.                              *)
BlocksOwned ==
    /\ TypeOK
    /\ LET uses == AllUses
           used == {u[4] : u \in uses}
       IN  used = Blocks \ freemap /\ Cardinality(used) = Cardinality(uses)
    /\ unused = Cardinality(freemap)

(* The map names a block for every index below blocks, which               *)
(* sfs_bmap_load_nolock asserts of the block that it returns, and no       *)
(* direct one above: what a seek or a write on a full disk leaves behind   *)
(* can be loaded and truncated like the rest of the file.                  *)
FileMapOK ==
    \A f \in Files :
        LET node == Node(f)
        IN  /\ \A n \in 0..(node.blocks - 1) :
                   IF n < SFS_NDIRECT THEN node.direct[n] # 0
                   ELSE node.indirect # 0 /\ entries[node.indirect][n - SFS_NDIRECT] # 0
            /\ \A n \in Direct : n >= node.blocks => node.direct[n] = 0

(* The blocks of the disk as a whole, for any order of writes, seeks and   *)
(* truncations through several openings and also when the disk gets full:  *)
(* every block has one owner or is free, and every file can be followed    *)
(* (sfs_bmap_load_nolock, sfs_bmap_truncate_nolock).                       *)
BlocksOK == BlocksOwned /\ FileMapOK

Named(node) == <<node.size, node.direct, node.indirect>>

(* The last close of a file does not change it: its size and the blocks    *)
(* that the inode names are on the disk, whichever calls changed them.     *)
CloseKeepsFile ==
    [][\A f \in Files : op = Idle \/ f # OpFile => Named(Node(f)') = Named(Node(f))]_vars

(* sfs_inode.c:366 asserts index <= din->blocks of every block that is     *)
(* loaded.                                                                 *)
LoadInRange == panic # "bmap_load"
=============================================================================
