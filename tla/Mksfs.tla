------------------------------- MODULE Mksfs -------------------------------
(***************************************************************************)
(* The disk image: tools/mksfs.c writes it on the host from a directory    *)
(* tree, and the kernel mounts it and reads its directories (sfs_fs.c,     *)
(* sfs_io.c, bitmap.c and the directory part of sfs_inode.c).  The two are *)
(* separate programs that share only the layout on the disk.               *)
(*                                                                         *)
(* A block is a record whose field t tells what was written to it.  One    *)
(* step of mksfs handles one entry of a host directory; open_dir's         *)
(* recursion is the stack of directories being read.                       *)
(***************************************************************************)
EXTENDS Integers, Sequences, FiniteSets, SequencesExt

CONSTANTS
  Hosts,     \* host trees: [root, kids, type, blocks]; kids[d] is the sequence
             \* of [name, real] that readdir yields, real the host's inode
  Sizes,     \* sizes of the image file, in blocks
  Hidden,    \* host names that start with a dot
  Cut,       \* what is left of a name in a directory entry: Cut[name]
  BLKBITS,   \* SFS_BLKBITS, blocks counted by one block of the free map
  NDIRECT,   \* SFS_NDIRECT
  NENTRY,    \* SFS_BLK_NENTRY
  LN_NBLKS   \* SFS_LN_NBLKS, the blocks of the largest file mksfs accepts

L1_NBLKS == NDIRECT + NENTRY
SUPER == 0
ROOT == 1
FREEMAP == 2

ROUNDUP_DIV(a, n) == (a + n - 1) \div n

ASSUME MksfsAssumption ==
  /\ BLKBITS \in Nat \ {0} /\ NDIRECT \in Nat \ {0} /\ NENTRY \in Nat \ {0}
  /\ LN_NBLKS \in Nat /\ LN_NBLKS <= L1_NBLKS + NENTRY * NENTRY
  /\ Sizes \subseteq Nat

VARIABLES
  host,    \* the tree that goes on the disk
  disk,    \* the blocks of the image
  b,       \* struct sfs_fs of mksfs: [ninos, next_ino, unused, ci, cb, out];
           \* ci, the inodes made so far, by their number on the disk
  stack,   \* the directories being read: [dir, parent, name, rest], dir and
           \* parent by their number on the disk
  status   \* "build", "built", or how mksfs stopped: "space", "big", "assert"

mksfsVars == <<host, disk, b, stack, status>>

Zero == [t |-> "zero"]
NoBlocks == [i \in 0 .. NDIRECT - 1 |-> 0]
NoIndex == [i \in 0 .. NENTRY - 1 |-> 0]

(* The operators below act on s = [disk, b, why]: why is "" while all is   *)
(* well, b.out is the block that the last allocation returned.             *)
Stop(s, why) == IF s.why = "" THEN [s EXCEPT !.why = why] ELSE s

write_block(s, blk, ino) ==
  IF ino \in DOMAIN s.disk THEN [s EXCEPT !.disk[ino] = blk] ELSE Stop(s, "assert")

sfs_alloc_ino(s) ==
  IF s.b.next_ino < s.b.ninos
  THEN [s EXCEPT !.b.unused = @ - 1, !.b.next_ino = @ + 1, !.b.out = s.b.next_ino]
  ELSE Stop(s, "space")

(* b.out is the number of the new inode.                                   *)
alloc_cache_inode(s, real, ino, type) ==
  LET a == IF ino # 0 THEN [s EXCEPT !.b.out = ino] ELSE sfs_alloc_ino(s)
      c == [real |-> real, type |-> type, nlinks |-> 0, nblks |-> 0,
            direct |-> NoBlocks, indirect |-> 0, db_indirect |-> 0, l1 |-> 0, l2 |-> 0]
  IN  IF a.why # "" THEN a ELSE [a EXCEPT !.b.ci = (a.b.out :> c) @@ @]

(* The inodes made for the host's inode real.                              *)
search_cache_inode(s, real) == {i \in DOMAIN s.b.ci : s.b.ci[i].real = real}

create_sfs(ninos) ==
  LET next == FREEMAP + ROUNDUP_DIV(ninos, BLKBITS)
      s == [disk |-> [i \in 0 .. ninos - 1 |-> Zero], why |-> "",
            b |-> [ninos |-> ninos, next_ino |-> next, unused |-> ninos - next,
                   ci |-> [r \in {} |-> 0], cb |-> [i \in {} |-> 0], out |-> 0]]
  IN  IF next >= ninos THEN Stop(s, "space") ELSE s

(* update_cache: an index block that does not exist yet is allocated, the  *)
(* one in hand is used; any other would have to be searched, and the       *)
(* search looks in another hash list than alloc_cache_block filled.        *)
update_cache(s, cur, ino) ==
  IF ino = 0
  THEN LET a == sfs_alloc_ino(s)
       IN  [a EXCEPT !.b.cb = [i \in DOMAIN @ \cup {a.b.out} |->
                                 IF i = a.b.out THEN NoIndex ELSE @[i]]]
  ELSE IF cur = ino THEN [s EXCEPT !.b.out = ino] ELSE Stop(s, "assert")

append_block(s, f, ino) ==
  LET c == s.b.ci[f]
      n == c.nblks
      Grown(u) == [u EXCEPT !.b.ci[f].nblks = @ + 1]
      one == update_cache(s, c.l1, c.indirect)
      two == update_cache(s, c.l2, c.db_indirect)
      m   == n - L1_NBLKS
      sub == update_cache(two, c.l1, two.b.cb[two.b.out][m \div NENTRY])
  IN  CASE n >= LN_NBLKS -> Stop(s, "big")
        [] n < NDIRECT /\ n < LN_NBLKS -> Grown([s EXCEPT !.b.ci[f].direct[n] = ino])
        [] n \in NDIRECT .. L1_NBLKS - 1 /\ n < LN_NBLKS ->
             IF one.why # "" THEN one
             ELSE Grown([one EXCEPT !.b.ci[f].indirect = one.b.out, !.b.ci[f].l1 = one.b.out,
                                    !.b.cb[one.b.out][n - NDIRECT] = ino])
        [] n >= L1_NBLKS /\ n < LN_NBLKS ->
             IF two.why # "" \/ sub.why # "" THEN Stop(Stop(s, two.why), sub.why)
             ELSE Grown([sub EXCEPT !.b.ci[f].db_indirect = two.b.out,
                                    !.b.ci[f].l2 = two.b.out, !.b.ci[f].l1 = sub.b.out,
                                    !.b.cb[two.b.out][m \div NENTRY] = sub.b.out,
                                    !.b.cb[sub.b.out][m % NENTRY] = ino])

(* add_entry writes only sizeof(entry->name) bytes of the entry: the end   *)
(* of the longest names is lost.                                           *)
add_entry(s, d, f, name) ==
  LET a == sfs_alloc_ino(s)
      w == write_block(a, [t |-> "entry", ino |-> f, name |-> Cut[name]], a.b.out)
      p == append_block(w, d, a.b.out)
  IN  IF a.why # "" THEN a
      ELSE IF p.why # "" THEN p ELSE [p EXCEPT !.b.ci[f].nlinks = @ + 1]

(* open_file and open_link copy the contents of the host's inode to the    *)
(* new inode, block after block.                                           *)
open_file(s) ==
  LET f == s.b.out
      real == s.b.ci[f].real
      put[k \in 0 .. host.blocks[real]] ==
        IF k = 0 THEN s
        ELSE LET a == sfs_alloc_ino(put[k - 1])
                 w == write_block(a, [t |-> "data", of |-> real, k |-> k], a.b.out)
             IN  IF put[k - 1].why # "" THEN put[k - 1]
                 ELSE IF a.why # "" THEN a ELSE append_block(w, f, a.b.out)
  IN  IF s.why # "" THEN s ELSE put[host.blocks[real]]

(* A file with several names is stored once, a symbolic link every time.   *)
add_file(s, d, real, name) ==
  LET made == search_cache_inode(s, real)
      n == alloc_cache_inode(s, real, 0, "file")
      o == open_file(n)
  IN  IF made # {} THEN add_entry(s, d, CHOOSE f \in made : TRUE, name)
      ELSE IF o.why # "" THEN o ELSE add_entry(o, d, n.b.out, name)

add_link(s, d, real, name) ==
  LET n == alloc_cache_inode(s, real, 0, "link")
      o == open_file(n)
  IN  IF o.why # "" THEN o ELSE add_entry(o, d, n.b.out, name)

(* Faulty variant: the last block of the bitmap is filled to its end.    *)
FreeBitsFull(i) ==
  LET start == IF i < b.next_ino THEN b.next_ino - i ELSE 0
  IN  IF i + BLKBITS > b.next_ino THEN start .. BLKBITS - 1 ELSE {}

(* The bits that close_sfs sets in the block of the bitmap for the blocks  *)
(* from i on.                                                              *)
FreeBits(i) ==
  LET start == IF i < b.next_ino THEN b.next_ino - i ELSE 0
      end   == IF i + BLKBITS > b.ninos THEN b.ninos - i ELSE BLKBITS
  IN  IF i + BLKBITS > b.next_ino THEN start .. end - 1 ELSE {}

(* Sizes are counted in blocks here.                                       *)
DiskInode(c) == [t |-> "inode", type |-> c.type, nlinks |-> c.nlinks,
                 size |-> c.nblks, blocks |-> c.nblks, direct |-> c.direct,
                 indirect |-> c.indirect, db_indirect |-> c.db_indirect]

close_sfs ==
  [i \in DOMAIN disk |->
     CASE i = SUPER -> [t |-> "super", blocks |-> b.ninos, unused |-> b.unused]
       [] i \in FREEMAP .. FREEMAP + ROUNDUP_DIV(b.ninos, BLKBITS) - 1 ->
            [t |-> "map", free |-> FreeBits((i - FREEMAP) * BLKBITS)]
       [] i \in DOMAIN b.ci -> DiskInode(b.ci[i])
       [] i \in DOMAIN b.cb -> [t |-> "index", at |-> b.cb[i]]
       [] OTHER -> disk[i]]

Frame(d, parent, name, real) ==
  [dir |-> d, parent |-> parent, name |-> name, rest |-> host.kids[real]]

State == [disk |-> disk, b |-> b, why |-> ""]

Apply(t) == /\ disk' = t.disk /\ b' = t.b
            /\ status' = IF t.why = "" THEN status ELSE t.why

(* open_dir starts with "." and "..".                                      *)
enter_dir(s, d, parent) ==
  LET e == add_entry(s, d, d, ".")
  IN  IF e.why # "" THEN e ELSE add_entry(e, d, parent, "..")

MksfsInit ==
  /\ host \in Hosts
  /\ \E n \in Sizes :
       LET c == create_sfs(n)
           s == enter_dir(alloc_cache_inode(c, host.root, ROOT, "dir"), ROOT, ROOT)
           t == IF c.why # "" THEN c ELSE s
       IN  /\ disk = t.disk /\ b = t.b
           /\ status = IF t.why = "" THEN "build" ELSE t.why
  /\ stack = <<Frame(ROOT, ROOT, "/", host.root)>>

(* One turn of open_dir's loop.                                            *)
open_dir ==
  LET top == Last(stack)
      e   == Head(top.rest)
      d   == top.dir
      ty  == host.type[e.real]
      rest == [stack EXCEPT ![Len(stack)].rest = Tail(@)]
      new == IF search_cache_inode(State, e.real) # {} THEN Stop(State, "assert")
             ELSE alloc_cache_inode(State, e.real, 0, "dir")
  IN  /\ status = "build" /\ stack # <<>> /\ top.rest # <<>>
      /\ UNCHANGED host
      /\ \/ /\ e.name \in Hidden \/ ty = "other"
            /\ stack' = rest /\ UNCHANGED <<disk, b, status>>
         \/ /\ e.name \notin Hidden /\ ty = "file"
            /\ stack' = rest /\ Apply(add_file(State, d, e.real, e.name))
         \/ /\ e.name \notin Hidden /\ ty = "link"
            /\ stack' = rest /\ Apply(add_link(State, d, e.real, e.name))
         \/ /\ e.name \notin Hidden /\ ty = "dir"
            /\ stack' = Append(rest, Frame(new.b.out, d, e.name, e.real))
            /\ Apply(IF new.why # "" THEN new ELSE enter_dir(new, new.b.out, d))

(* The end of add_dir: the finished directory gets its name in its parent. *)
add_dir ==
  LET top == Last(stack)
  IN  /\ status = "build" /\ stack # <<>> /\ top.rest = <<>> /\ Len(stack) > 1
      /\ stack' = Front(stack)
      /\ Apply(add_entry(State, top.parent, top.dir, top.name))
      /\ UNCHANGED host

create_img ==
  /\ status = "build" /\ stack # <<>> /\ Last(stack).rest = <<>> /\ Len(stack) = 1
  /\ disk' = close_sfs /\ status' = "built" /\ stack' = <<>>
  /\ UNCHANGED <<host, b>>

MksfsNext == open_dir \/ add_dir \/ create_img

----------------------------------------------------------------------------
(* The kernel's view of a disk d                                           *)

(* sfs_do_mount reads the super block and the map; it refuses a file       *)
(* system larger than the device and asserts that the count is right.      *)
sfs_do_mount(d) ==
  LET sup  == d[SUPER]
      nmap == ROUNDUP_DIV(sup.blocks, BLKBITS)
      free == UNION {{i * BLKBITS + j : j \in d[FREEMAP + i].free} : i \in 0 .. nmap - 1}
      fs(r) == [ret |-> r, blocks |-> sup.blocks, unused |-> sup.unused, free |-> free]
  IN  IF sup.blocks > Cardinality(DOMAIN d) THEN fs("E_INVAL")
      ELSE IF Cardinality(free) # sup.unused THEN fs("assert")
      ELSE fs("0")

(* sfs_bmap_get_nolock without create: there is no double indirect block   *)
(* in the kernel, an index beyond the first one is refused (0).            *)
sfs_bmap_get(d, din, index) ==
  IF index < NDIRECT THEN din.direct[index]
  ELSE IF index < L1_NBLKS /\ din.indirect # 0 THEN d[din.indirect].at[index - NDIRECT]
  ELSE 0

sfs_dirent_read(d, din, slot) == d[sfs_bmap_get(d, din, slot)]

Slots(din) == 0 .. din.blocks - 1

First(S) == CHOOSE i \in S : \A j \in S : i <= j

(* sfs_dirent_search_nolock: the inode of the first entry with the name.   *)
sfs_dirent_search(d, dir, name) ==
  LET hits == {i \in Slots(d[dir]) : LET e == sfs_dirent_read(d, d[dir], i)
                                     IN  e.ino # 0 /\ e.name = name}
  IN  IF hits = {} THEN 0 ELSE sfs_dirent_read(d, d[dir], First(hits)).ino

(* sfs_load_inode, with the free blocks of the mounted disk: the inode is  *)
(* asserted to be in use and to have a name, and sfs_get_ops panics for    *)
(* any type but directory and file (sfs_inode.c:46).                       *)
sfs_load_inode(d, free, ino) ==
  IF ino \in 1 .. d[SUPER].blocks - 1 /\ ino \notin free /\ d[ino].nlinks # 0
     /\ d[ino].type \in {"dir", "file"}
  THEN "0" ELSE "panic"

sfs_lookup_once(d, free, dir, name) ==
  LET ino == sfs_dirent_search(d, dir, name)
  IN  [ino |-> ino, ret |-> IF ino = 0 THEN "E_NOENT" ELSE sfs_load_inode(d, free, ino)]

sfs_dirent_findino(d, dir, ino) ==
  LET hits == {i \in Slots(d[dir]) : sfs_dirent_read(d, d[dir], i).ino = ino}
  IN  IF hits = {} THEN "" ELSE sfs_dirent_read(d, d[dir], First(hits)).name

(* sfs_getdirentry: the entry of the slot-th used slot.                    *)
sfs_getdirentry(d, dir, slot) ==
  LET used == {i \in Slots(d[dir]) : sfs_dirent_read(d, d[dir], i).ino # 0}
      at   == {i \in used : Cardinality({j \in used : j < i}) = slot}
  IN  IF slot > d[dir].blocks \/ at = {} THEN ""
      ELSE sfs_dirent_read(d, d[dir], First(at)).name

(* sfs_namefile climbs by ".." and finds its own number in the parent;     *)
(* Depth bounds the climb.                                                 *)
Depth == 4

sfs_namefile(d, free, dir) ==
  LET climb[n \in 0 .. Depth] ==
        IF n = 0 THEN [at |-> dir, path |-> <<>>]
        ELSE LET c == climb[n - 1]
                 up == sfs_lookup_once(d, free, c.at, "..")
             IN  IF up.ret # "0" THEN [c EXCEPT !.path = <<up.ret>>]
                 ELSE IF up.ino = c.at THEN c
                 ELSE [at |-> up.ino, path |-> <<sfs_dirent_findino(d, up.ino, c.at)>> \o c.path]
  IN  climb[Depth].path

----------------------------------------------------------------------------
(* Properties                                                              *)

Stored(d) == {i \in DOMAIN host.kids[d] :
                host.kids[d][i].name \notin Hidden /\ host.type[host.kids[d][i].real] # "other"}

Dirs == {i \in DOMAIN b.ci : b.ci[i].type = "dir"}

(* mksfs itself never fails an assertion.                                  *)
NoBug == status # "assert"

(* What mksfs leaves as free is what the kernel counts as free, and every  *)
(* block that something on the disk names is used, once.                   *)
BlocksUsedOnce ==
  LET fs == sfs_do_mount(disk)
      named(i) == LET c == b.ci[i]
                  IN  <<i>> \o [x \in 1 .. c.nblks |->
                                  IF x > L1_NBLKS THEN -x ELSE sfs_bmap_get(disk, disk[i], x - 1)]
                      \o (IF c.indirect # 0 THEN <<c.indirect>> ELSE <<>>)
      fits(i)  == b.ci[i].nblks <= L1_NBLKS
      meta == 0 .. FREEMAP + ROUNDUP_DIV(b.ninos, BLKBITS) - 1
  IN  /\ fs.ret = "0"
      /\ \A i \in DOMAIN b.ci : fits(i) =>
           /\ \A x \in DOMAIN named(i) : /\ named(i)[x] \in 1 .. b.ninos - 1
                                         /\ named(i)[x] \notin fs.free
                                         /\ named(i)[x] \notin meta \ {ROOT}
           /\ \A x, y \in DOMAIN named(i) : x # y => named(i)[x] # named(i)[y]
           /\ \A j \in DOMAIN b.ci : j # i /\ fits(j) =>
                \A x \in DOMAIN named(i), y \in DOMAIN named(j) : named(i)[x] # named(j)[y]

(* The places in the host tree where an inode is named.                    *)
NamesOf(real) == UNION {{<<dir, i>> : i \in {x \in Stored(b.ci[dir].real) :
                                              host.kids[b.ci[dir].real][x].real = real}} :
                        dir \in Dirs}

(* The entry and the contents of a name of the host tree: kept where it    *)
(* was, as a file of its type with its blocks.  The names of one file lead *)
(* to one inode, those of a symbolic link each to its own.                 *)
EntryKept(dir, k) ==
  LET ino == sfs_dirent_search(disk, dir, k.name)
  IN  /\ ino \in DOMAIN b.ci /\ b.ci[ino].real = k.real
      /\ disk[ino].type = host.type[k.real]
      /\ host.type[k.real] # "link" => search_cache_inode(State, k.real) = {ino}
      /\ host.type[k.real] = "link" => disk[ino].nlinks = 1
      /\ host.type[k.real] = "file" => disk[ino].nlinks = Cardinality(NamesOf(k.real))
      /\ host.type[k.real] # "dir" =>
           /\ disk[ino].blocks = host.blocks[k.real]
           /\ \A x \in 1 .. host.blocks[k.real] :
                disk[sfs_bmap_get(disk, disk[ino], x - 1)] = [t |-> "data", of |-> k.real, k |-> x]

(* Every name of the host tree that fits an entry is stored, and looked up *)
(* by the kernel leads to its inode: unless it is a symbolic link, which   *)
(* the kernel cannot load, it panics.  Directories list exactly their      *)
(* names and know their own path.                                          *)
NamesKept ==
  \A dir \in Dirs :
    LET d      == b.ci[dir].real
        kids   == host.kids[d]
        free   == sfs_do_mount(disk).free
        Fits(i) == /\ Cut[kids[i].name] = kids[i].name
                   /\ host.type[kids[i].real] # "dir" => host.blocks[kids[i].real] <= L1_NBLKS
    IN  /\ \A i \in Stored(d) : Fits(i) =>
             /\ EntryKept(dir, kids[i])
             /\ sfs_lookup_once(disk, free, dir, kids[i].name).ret
                  = IF host.type[kids[i].real] = "link" THEN "panic" ELSE "0"
        /\ [x \in 0 .. Cardinality(Stored(d)) + 1 |-> sfs_getdirentry(disk, dir, x)]
             = [x \in 0 .. Cardinality(Stored(d)) + 1 |->
                  IF x = 0 THEN "." ELSE IF x = 1 THEN ".."
                  ELSE Cut[kids[CHOOSE i \in Stored(d) :
                                  Cardinality({j \in Stored(d) : j < i}) = x - 2].name]]
        /\ sfs_getdirentry(disk, dir, Cardinality(Stored(d)) + 2) = ""
        /\ disk[dir].nlinks = 2
             + Cardinality({x \in Dirs \ {ROOT} : sfs_dirent_search(disk, x, "..") = dir})
        /\ sfs_namefile(disk, free, dir) # <<>> <=> dir # ROOT
        /\ \A i \in Stored(d) : host.type[kids[i].real] = "dir" /\ Fits(i) =>
             sfs_namefile(disk, free, sfs_dirent_search(disk, dir, kids[i].name))
               = Append(sfs_namefile(disk, free, dir), kids[i].name)

(* ImageOK: an image that mksfs finishes is one the kernel mounts (the     *)
(* assertion on unused_blocks in sfs_do_mount holds for every image size,  *)
(* also at the edges of the map's blocks), nothing on it overlaps, and the *)
(* kernel's lookups see the host tree; a symbolic link is stored as well,  *)
(* but its lookup stops the kernel (sfs_get_ops).                          *)
ImageOK == NoBug /\ (status = "built" => BlocksUsedOnce /\ NamesKept)
============================================================================
