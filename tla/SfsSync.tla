------------------------------ MODULE SfsSync ------------------------------
(***************************************************************************)
(* The life of an image that mksfs built (module Mksfs): the kernel boots, *)
(* mounts it, changes files and, at the end, sfs_cleanup writes back what  *)
(* is only in memory.  Data, entry blocks and inodes reach the disk when a *)
(* file is written or closed; the super block and the free map only when   *)
(* the system halts, one block after the other.  The machine may lose its  *)
(* power between any two writes.  It can be booted again then; what calls  *)
(* do to a disk whose map is behind its inodes is not modelled.            *)
(***************************************************************************)
EXTENDS Mksfs

CONSTANTS MaxOps,    \* calls that change a file, over all boots
          MaxBoots   \* boots of one image

VARIABLES
  k,         \* struct sfs_fs of the kernel: [pc, gap, free, unused, super_dirty, din,
             \* dirty, at]; gap: the power failed between super block and map
  touched,   \* inodes that have been opened for writing
  short,     \* inodes of which a full disk has cut an extension short
  count      \* [ops, boots]

kernelVars == <<k, touched, short, count>>
vars == <<mksfsVars, kernelVars>>

Off == [pc |-> "off", gap |-> FALSE, free |-> {}, unused |-> 0, super_dirty |-> FALSE,
        din |-> [i \in {} |-> 0], dirty |-> {}, at |-> 0]

Init == /\ MksfsInit
        /\ k = Off /\ touched = {} /\ short = {} /\ count = [ops |-> 0, boots |-> 0]

(* Files whose block map the kernel can follow.                            *)
KFiles == {i \in DOMAIN b.ci : b.ci[i].type = "file" /\ b.ci[i].nblks <= L1_NBLKS}

NMap == ROUNDUP_DIV(b.ninos, BLKBITS)

Running == status = "built" /\ k.pc = "run"

(* The first boot, one after a shutdown, or one after a power cut.         *)
boot ==
  LET fs == sfs_do_mount(disk)
  IN  /\ status = "built" /\ k.pc \in {"off", "cut"} /\ count.boots < MaxBoots
      /\ k' = [Off EXCEPT !.pc = IF fs.ret # "0" THEN "panic"
                                 ELSE IF k.pc = "off" THEN "run" ELSE "mounted",
                          !.gap = k.gap, !.free = fs.free, !.unused = fs.unused]
      /\ count' = [count EXCEPT !.boots = @ + 1]
      /\ UNCHANGED <<mksfsVars, touched, short>>

----------------------------------------------------------------------------
(* The operators below act on s = [k, disk, past, ino, ret]: past has the  *)
(* disks that the writes of the call have replaced, ino is the block that  *)
(* was found or taken last, and ret is "0", an error, or "panic" when an   *)
(* assertion on blocks in use has failed.                                  *)
Put(s, n, x) == [s EXCEPT !.past = @ \cup {s.disk}, !.disk[n] = x]

(* sfs_block_alloc takes the first free block and clears it on the disk.   *)
sfs_block_alloc(s) ==
  LET n == First(s.k.free)
  IN  IF s.k.free = {} THEN [s EXCEPT !.ret = "E_NO_MEM"]
      ELSE Put([s EXCEPT !.k.free = @ \ {n}, !.k.unused = @ - 1, !.k.super_dirty = TRUE, !.ino = n],
               n, Zero)

sfs_block_inuse(s, n) == n \in 1 .. b.ninos - 1 /\ n \notin s.k.free

(* Faulty variant: the super block is not marked.                        *)
sfs_block_free_clean(s, n) ==
  [s EXCEPT !.k.free = @ \cup {n}, !.k.unused = @ + 1]

sfs_block_free(s, n) ==
  [s EXCEPT !.k.free = @ \cup {n}, !.k.unused = @ + 1, !.k.super_dirty = TRUE,
            !.ret = IF sfs_block_inuse(s, n) THEN @ ELSE "panic"]

Dirty(s, i) == [s EXCEPT !.k.dirty = @ \cup {i}]

(* Entry x of the entry block of inode i: what is there, also behind the   *)
(* last block of the file, is used; otherwise a block is taken, and one    *)
(* for the entries if there is none.  An entry goes to the disk at once.   *)
(* Only a new entry block marks the inode.                                 *)
sfs_bmap_get_sub(s, i, x, create) ==
  LET ent == s.k.din[i].indirect
      at  == IF ent = 0 THEN NoIndex ELSE s.disk[ent].at
      e   == IF ent = 0 THEN sfs_block_alloc(s) ELSE [s EXCEPT !.ino = ent]
      c   == sfs_block_alloc(e)
      w   == Put(c, e.ino, [t |-> "index", at |-> [at EXCEPT ![x] = c.ino]])
  IN  IF at[x] # 0 \/ ~create THEN [s EXCEPT !.ino = at[x]]
      ELSE IF e.ret # "0" THEN e
      ELSE IF c.ret # "0" THEN IF ent = 0 THEN sfs_block_free(c, e.ino) ELSE c
      ELSE IF ent = 0 THEN Dirty([w EXCEPT !.k.din[i].indirect = e.ino], i)
      ELSE w

sfs_bmap_get_nolock(s, i, index, create) ==
  LET n == s.k.din[i].direct[index]
      a == sfs_block_alloc(s)
  IN  IF index >= NDIRECT THEN sfs_bmap_get_sub(s, i, index - NDIRECT, create)
      ELSE IF n # 0 \/ ~create THEN [s EXCEPT !.ino = n]
      ELSE IF a.ret # "0" THEN a
      ELSE Dirty([a EXCEPT !.k.din[i].direct[index] = a.ino], i)

(* sfs_bmap_load_nolock: the block behind the last one is added.           *)
sfs_bmap_load(s, i, index) ==
  LET n == s.k.din[i].blocks
      g == sfs_bmap_get_nolock(s, i, index, index = n)
  IN  IF s.ret # "0" THEN s
      ELSE IF index > n THEN [s EXCEPT !.ret = "panic"]
      ELSE IF g.ret # "0" THEN g
      ELSE IF ~sfs_block_inuse(g, g.ino) THEN [g EXCEPT !.ret = "panic"]
      ELSE IF index = n THEN [g EXCEPT !.k.din[i].blocks = n + 1]
      ELSE g

(* sfs_bmap_truncate_nolock: the last block goes.                          *)
sfs_bmap_truncate(s, i) ==
  LET din == s.k.din[i]
      n   == din.blocks - 1
      ent == din.indirect
      ino == sfs_bmap_get(s.disk, din, n)
      v   == IF n < NDIRECT THEN [s EXCEPT !.k.din[i].direct[n] = 0]
             ELSE Put(s, ent, [s.disk[ent] EXCEPT !.at[n - NDIRECT] = 0])
  IN  Dirty([IF ino = 0 THEN s ELSE sfs_block_free(v, ino) EXCEPT !.k.din[i].blocks = n], i)

(* sfs_truncfile: to length len, block by block in either direction.  When *)
(* the size is right already the blocks are asserted to be, too ("stop").  *)
sfs_truncfile(s, i, len) ==
  LET old == s.k.din[i].blocks
      resized[n \in 0 .. L1_NBLKS] ==          \* after n blocks more or less
        IF n = 0 THEN s
        ELSE IF old < len THEN sfs_bmap_load(resized[n - 1], i, old + n - 1)
        ELSE sfs_bmap_truncate(resized[n - 1], i)
      t == resized[IF old < len THEN len - old ELSE old - len]
  IN  IF s.k.din[i].size = len THEN IF old = len THEN s ELSE [s EXCEPT !.ret = "stop"]
      ELSE IF t.ret # "0" THEN t
      ELSE Dirty([t EXCEPT !.k.din[i].size = len], i)

sfs_fsync(s, i) ==
  IF i \in s.k.dirty THEN Put([s EXCEPT !.k.dirty = @ \ {i}], i, s.k.din[i]) ELSE s

Kernel == [k |-> k, disk |-> disk, past |-> {}, ino |-> 0, ret |-> "0"]

Dead(gap) == [Off EXCEPT !.pc = "cut", !.gap = gap]

(* A call ends, or the power fails between two of its writes.  After a     *)
(* failed assertion nothing that is in memory can be saved either.         *)
Do(s) ==
  /\ \/ /\ disk' = s.disk
        /\ k' = CASE s.ret = "panic" -> [s.k EXCEPT !.pc = "panic"]
                  [] s.ret = "stop" -> Dead(FALSE)
                  [] OTHER -> s.k
     \/ /\ disk' \in s.past \ {disk}
        /\ k' = Dead(FALSE)
  /\ UNCHANGED <<host, b, stack, status>>

----------------------------------------------------------------------------
(* One of the calls on files, by whichever process.                        *)
file_open(i) ==
  LET s == [Kernel EXCEPT !.ret = sfs_load_inode(disk, k.free, i),
                          !.k.din = (i :> disk[i]) @@ @]
  IN  /\ Running /\ i \notin DOMAIN k.din
      /\ touched' = touched \cup {i}
      /\ Do(s) /\ UNCHANGED <<short, count>>

(* sfs_io_nolock for one block at the end of the file.                     *)
file_write(i) ==
  LET n == k.din[i].size
      s == sfs_bmap_load(Kernel, i, n)
      w == Put(Dirty([s EXCEPT !.k.din[i].size = n + 1], i),
               s.ino, [t |-> "data", of |-> "new", k |-> i])
  IN  /\ n < L1_NBLKS
      /\ Do(IF s.ret = "0" THEN w ELSE s) /\ UNCHANGED short

(* sfs_tryseek beyond the end of the file extends it.                      *)
file_seek(i) ==
  \E len \in k.din[i].size + 1 .. L1_NBLKS :
    LET s == sfs_truncfile(Kernel, i, len)
    IN  /\ Do(s)
        /\ short' = IF s.ret = "E_NO_MEM" THEN short \cup {i} ELSE short

(* An opening with O_TRUNC.                                                *)
file_truncate(i) == Do(sfs_truncfile(Kernel, i, 0)) /\ UNCHANGED short

file_fsync(i) ==
  /\ i \in k.dirty
  /\ Do(sfs_fsync(Kernel, i)) /\ UNCHANGED short

sfs_reclaim(i) ==
  /\ Running /\ i \in DOMAIN k.din
  /\ LET s == sfs_fsync(Kernel, i)
     IN  Do([s EXCEPT !.k.din = [x \in DOMAIN @ \ {i} |-> @[x]]])
  /\ UNCHANGED <<touched, short, count>>

file_call ==
  \E i \in KFiles :
    \/ file_open(i) \/ sfs_reclaim(i)
    \/ /\ Running /\ i \in DOMAIN k.din
       /\ count.ops < MaxOps /\ count' = [count EXCEPT !.ops = @ + 1]
       /\ file_write(i) \/ file_seek(i) \/ file_truncate(i) \/ file_fsync(i)
       /\ UNCHANGED touched

----------------------------------------------------------------------------
(* sfs_cleanup runs sfs_sync when the last process has gone.  An inode is  *)
(* still loaded then if a reference to it was lost.                        *)
sfs_cleanup ==
  /\ Running
  /\ Do([Kernel EXCEPT !.k.pc = "sync_inodes"]) /\ UNCHANGED <<touched, short, count>>

sync_inode ==
  /\ status = "built" /\ k.pc = "sync_inodes"
  /\ \E i \in k.dirty : Do(sfs_fsync(Kernel, i))
  /\ UNCHANGED <<touched, short, count>>

sfs_sync_super ==
  /\ status = "built" /\ k.pc = "sync_inodes" /\ k.dirty = {}
  /\ Do(IF k.super_dirty
        THEN [Kernel EXCEPT !.k.pc = "sync_freemap", !.k.super_dirty = FALSE,
                            !.disk[SUPER].unused = k.unused]
        ELSE [Kernel EXCEPT !.k = Off])
  /\ UNCHANGED <<touched, short, count>>

sfs_sync_freemap ==
  LET word == {n - k.at * BLKBITS : n \in {x \in k.free : x \div BLKBITS = k.at}}
      s == [Kernel EXCEPT !.disk[FREEMAP + k.at].free = word]
  IN  /\ status = "built" /\ k.pc = "sync_freemap"
      /\ Do(IF k.at + 1 = NMap THEN [s EXCEPT !.k = Off] ELSE [s EXCEPT !.k.at = @ + 1])
      /\ UNCHANGED <<touched, short, count>>

(* The power fails between two calls or two writes of sfs_sync: what is    *)
(* only in memory is gone.                                                 *)
power_cut ==
  /\ status = "built" /\ k.pc \in {"run", "sync_inodes", "sync_freemap"}
  /\ k' = Dead(k.pc = "sync_freemap")
  /\ UNCHANGED <<mksfsVars, touched, short, count>>

Next ==
  \/ MksfsNext /\ UNCHANGED kernelVars
  \/ boot \/ file_call \/ sfs_cleanup \/ sync_inode \/ sfs_sync_super \/ sfs_sync_freemap
  \/ power_cut

Spec == Init /\ [][Next]_vars

----------------------------------------------------------------------------
(* Entries of inode i on the disk that lie behind its last block: what an  *)
(* extension has left that a full disk cut short.  The next growth of the  *)
(* file takes them.                                                        *)
Left(i) ==
  LET din == disk[i]
  IN  IF din.indirect = 0 THEN {}
      ELSE {x \in DOMAIN NoIndex : NDIRECT + x >= din.blocks /\ disk[din.indirect].at[x] # 0}

(* The places where inode i names a block, and the block.                  *)
Places(i) ==
  LET din == disk[i]
  IN  {<<i, "inode", 0, i>>}
      \cup (IF din.indirect = 0 THEN {} ELSE {<<i, "index", 0, din.indirect>>})
      \cup {<<i, "data", n, sfs_bmap_get(disk, din, n)>> : n \in 0 .. din.blocks - 1}
      \cup {<<i, "left", x, disk[din.indirect].at[x]>> : x \in Left(i)}

(* The disk of a machine that has been shut down: no block has two places, *)
(* none of them is free, and, unless a file is too large for the kernel to *)
(* follow, every block has a place or is free.  Entries are left over only *)
(* where an extension was cut short.                                       *)
Tidy ==
  LET free   == sfs_do_mount(disk).free
      follow == {i \in DOMAIN b.ci : b.ci[i].nblks <= L1_NBLKS}
      places == UNION {Places(i) : i \in follow}
      Count(n) == Cardinality({p \in places : p[4] = n}) + (IF n \in free THEN 1 ELSE 0)
  IN  /\ \A n \in {ROOT} \cup (FREEMAP + NMap .. b.ninos - 1) :
            Count(n) \in (IF follow = DOMAIN b.ci THEN {1} ELSE {0, 1})
      /\ \A n \in {SUPER} \cup (FREEMAP .. FREEMAP + NMap - 1) : Count(n) = 0
      /\ \A i \in follow : Left(i) # {} => i \in short

(* ShutdownOK: after sfs_cleanup the disk is tidy, whatever the calls      *)
(* were: the next boot does not panic and gives no block to two files, and *)
(* a used block that no inode counts is one that a failed extension has    *)
(* left in an entry block.  After a power cut at any write, or an          *)
(* assertion of sfs_truncfile, the next mount's assertion on unused_blocks *)
(* holds unless the cut fell between super block and map; and files that   *)
(* nobody opened for writing keep their contents in any case, also while   *)
(* the blocks freed by others are used again.                              *)
ShutdownOK ==
  /\ k.pc = "panic" => k.gap
  /\ status = "built" /\ k.pc = "off" => Tidy
  /\ status = "built" /\ k.pc # "sync_freemap" /\ ~k.gap => sfs_do_mount(disk).ret = "0"
  /\ status = "built" =>
       \A i \in KFiles \ touched :
         /\ disk[i] = DiskInode(b.ci[i])
         /\ \A x \in 1 .. b.ci[i].nblks :
              disk[sfs_bmap_get(disk, disk[i], x - 1)]
                = [t |-> "data", of |-> b.ci[i].real, k |-> x]
============================================================================
