---------------------------- MODULE FilesProofs ----------------------------
(***************************************************************************)
(* The reference and open counts of the inodes in memory are exact, for    *)
(* any processes, descriptors, directories and calls: proofs about Files.  *)
(*                                                                         *)
(* A call is a composition of operators on the record of the kernel's      *)
(* variables.  Between two of them the counts need not fit the tables, so  *)
(* Held(s, r, o) says what the inodes of s are with any demand: r[n]       *)
(* references and o[n] opens of inode n.  Each operator is described by    *)
(* how it changes the demand; at the end of the call it is that of the     *)
(* tables again.                                                           *)
(***************************************************************************)
EXTENDS Files, FiniteSetTheorems, WellFoundedInduction, NaturalsInduction,
        TLAPS

(* A record of the kernel's variables.                                     *)
IsKernel(s) ==
    s = [node |-> s.node, stale |-> s.stale, lost |-> s.lost, files |-> s.files,
         boot |-> s.boot, vdev |-> s.vdev, panic |-> s.panic, full |-> s.full,
         ret |-> s.ret, out |-> s.out]

NodeT == [ref : Nat, open : Nat, reclaim : Nat, dirty : BOOLEAN]

Demand == [Nodes -> Nat]

Held(s, r, o) ==
    /\ IsKernel(s)
    /\ s.panic = None
    /\ r \in Demand
    /\ o \in Demand
    /\ s.node \in [DOMAIN s.node -> NodeT]
    /\ DOMAIN s.node = {n \in Nodes : r[n] > 0}
    /\ \A n \in Devices : r[n] > o[n]
    /\ \A n \in Nodes : r[n] >= o[n]
    /\ \A n \in DOMAIN s.node :
          /\ s.node[n].ref = r[n]
          /\ s.node[n].open = o[n]
          /\ n \in Inodes => s.node[n].reclaim = 1
    /\ \A n \in s.stale : n \in Inodes /\ n \in DOMAIN s.node /\ s.node[n].dirty

(* What an operator on inodes leaves alone.                                *)
SameRest(s, t) ==
    /\ t.lost = s.lost
    /\ t.files = s.files
    /\ t.boot = s.boot
    /\ t.vdev = s.vdev

SameResult(s, t) == t.ret = s.ret /\ t.out = s.out

(* The kernel has stopped in __vop_op.                                     *)
Stuck(s) == IsKernel(s) /\ s.panic = "no_operation"

Plus(r, n) == [m \in Nodes |-> IF m = n THEN r[m] + 1 ELSE r[m]]

Minus(r, n) == [m \in Nodes |-> IF m = n THEN r[m] - 1 ELSE r[m]]

-----------------------------------------------------------------------------
(* Demands.                                                                *)

LEMMA Least ==
    ASSUME NEW S, S \subseteq Nat, S # {}
    PROVE  \E x \in S : \A y \in S : x <= y
<1> DEFINE R == OpToRel(<, Nat)
<1>1. \E x \in S : \A y \in S : ~(<<y, x>> \in R)
  BY WFMin, NatLessThanWellFounded
<1>2. \A x, y \in S : <<y, x>> \in R <=> y < x
  BY DEF OpToRel
<1> HIDE DEF R
<1>3. PICK x \in S : \A y \in S : ~(<<y, x>> \in R)
  BY <1>1
<1>4. ASSUME NEW y \in S PROVE x <= y
  <2>1. x \in Nat /\ y \in Nat /\ ~(y < x)
    BY <1>2, <1>3
  <2> QED
    BY <2>1
<1> QED
  BY <1>4

LEMMA NodesApart ==
    /\ Nodes = Inodes \cup Devices
    /\ \A n \in Inodes : n \notin Devices
    /\ None \notin Nodes
    /\ Root \in Inodes
    /\ Root \in Nodes
  BY FilesAssumption DEF Nodes

LEMMA PlusValue ==
    ASSUME NEW r \in Demand, NEW n \in Nodes
    PROVE  /\ Plus(r, n) \in Demand
           /\ \A m \in Nodes : Plus(r, n)[m] = IF m = n THEN r[m] + 1 ELSE r[m]
           /\ Minus(Plus(r, n), n) = r
  BY DEF Plus, Minus, Demand

LEMMA MinusValue ==
    ASSUME NEW r \in Demand, NEW n \in Nodes, r[n] > 0
    PROVE  /\ Minus(r, n) \in Demand
           /\ \A m \in Nodes : Minus(r, n)[m] = IF m = n THEN r[m] - 1 ELSE r[m]
           /\ Plus(Minus(r, n), n) = r
  BY DEF Plus, Minus, Demand

LEMMA PlusMinus ==
    ASSUME NEW r \in Demand, NEW n \in Nodes, NEW m \in Nodes
    PROVE  Minus(Plus(Plus(r, n), m), n) = Plus(r, m)
  BY DEF Plus, Minus, Demand

-----------------------------------------------------------------------------
(* Operators on inodes.                                                    *)

LEMMA RetHeld ==
    ASSUME NEW s, NEW r, NEW o, NEW x, Held(s, r, o)
    PROVE  /\ Held(Ret(s, x), r, o)
           /\ SameRest(s, Ret(s, x))
           /\ Ret(s, x).ret = x
           /\ Ret(s, x).out = s.out
<1> DEFINE t == Ret(s, x)
<1>1. t = [s EXCEPT !.ret = x]
  BY DEF Ret
<1>2. IsKernel(s)
  BY DEF Held
<1>3. /\ IsKernel(t) /\ t.node = s.node /\ t.stale = s.stale /\ t.panic = s.panic
      /\ SameRest(s, t) /\ t.ret = x /\ t.out = s.out
  BY <1>1, <1>2 DEF IsKernel, SameRest
<1> HIDE DEF t
<1>4. Held(t, r, o)
  BY <1>3 DEF Held
<1> QED
  BY <1>3, <1>4 DEF t

LEMMA StoreHeld ==
    ASSUME NEW s, NEW r, NEW o, NEW x, Held(s, r, o)
    PROVE  /\ Held(Store(s, x), r, o)
           /\ SameRest(s, Store(s, x))
           /\ Store(s, x).ret = "0"
           /\ Store(s, x).out = x
<1> DEFINE t == Store(s, x)
<1>1. t = [s EXCEPT !.ret = "0", !.out = x]
  BY DEF Store
<1>2. IsKernel(s)
  BY DEF Held
<1>3. /\ IsKernel(t) /\ t.node = s.node /\ t.stale = s.stale /\ t.panic = s.panic
      /\ SameRest(s, t) /\ t.ret = "0" /\ t.out = x
  BY <1>1, <1>2 DEF IsKernel, SameRest
<1> HIDE DEF t
<1>4. Held(t, r, o)
  BY <1>3 DEF Held
<1> QED
  BY <1>3, <1>4 DEF t

(* A record that differs in the inodes.                                    *)
LEMMA NodeChanged ==
    ASSUME NEW s, NEW N, IsKernel(s)
    PROVE  LET t == [s EXCEPT !.node = N]
           IN  /\ IsKernel(t) /\ t.node = N /\ t.stale = s.stale /\ t.panic = s.panic
               /\ SameRest(s, t) /\ SameResult(s, t)
  BY DEF IsKernel, SameRest, SameResult

LEMMA RefIncHeld ==
    ASSUME NEW s, NEW r, NEW o, NEW n \in Nodes, Held(s, r, o), r[n] > 0
    PROVE  /\ Held(inode_ref_inc(s, n), Plus(r, n), o)
           /\ SameRest(s, inode_ref_inc(s, n))
           /\ SameResult(s, inode_ref_inc(s, n))
<1> DEFINE t == inode_ref_inc(s, n)
           N == [s.node EXCEPT ![n].ref = @ + 1]
<1>1. /\ IsKernel(s) /\ r \in Demand /\ n \in DOMAIN s.node
      /\ s.node \in [DOMAIN s.node -> NodeT]
  BY DEF Held
<1>2. t = [s EXCEPT !.node = N]
  BY <1>1 DEF inode_ref_inc, IsKernel
<1>3. /\ DOMAIN N = DOMAIN s.node
      /\ N \in [DOMAIN N -> NodeT]
      /\ \A m \in DOMAIN N :
            /\ N[m].ref = IF m = n THEN s.node[m].ref + 1 ELSE s.node[m].ref
            /\ N[m].open = s.node[m].open
            /\ N[m].reclaim = s.node[m].reclaim
            /\ N[m].dirty = s.node[m].dirty
  BY <1>1 DEF NodeT
<1> HIDE DEF N
<1>4. /\ IsKernel(t) /\ t.node = N /\ t.stale = s.stale /\ t.panic = s.panic
      /\ SameRest(s, t) /\ SameResult(s, t)
  BY <1>1, <1>2, NodeChanged
<1> HIDE DEF t
<1> DEFINE q == Plus(r, n)
<1>5. /\ q \in Demand
      /\ \A m \in Nodes : q[m] = IF m = n THEN r[m] + 1 ELSE r[m]
  BY <1>1, PlusValue
<1> HIDE DEF q
<1>6. Held(t, q, o)
  BY <1>3, <1>4, <1>5, NodesApart DEF Held, Demand
<1> QED
  BY <1>4, <1>6 DEF t, q

(* sfs_fsync: the inode is written if it is dirty, and is then not behind. *)
LEMMA FsyncHeld ==
    ASSUME NEW s, NEW r, NEW o, NEW n \in Nodes, Held(s, r, o), r[n] > 0
    PROVE  /\ Held(sfs_fsync(s, n), r, o)
           /\ SameRest(s, sfs_fsync(s, n))
           /\ SameResult(s, sfs_fsync(s, n))
<1> DEFINE t == sfs_fsync(s, n)
           N == [s.node EXCEPT ![n].dirty = FALSE]
<1>1. /\ IsKernel(s) /\ r \in Demand /\ n \in DOMAIN s.node
      /\ s.node \in [DOMAIN s.node -> NodeT]
  BY DEF Held
<1>2. CASE ~s.node[n].dirty
  BY <1>2 DEF sfs_fsync, SameRest, SameResult
<1>3. CASE s.node[n].dirty
  <2>1. t = [s EXCEPT !.node = N, !.stale = s.stale \ {n}]
    BY <1>1, <1>3 DEF sfs_fsync, IsKernel
  <2>2. /\ DOMAIN N = DOMAIN s.node
        /\ N \in [DOMAIN N -> NodeT]
        /\ \A m \in DOMAIN N :
              /\ N[m].ref = s.node[m].ref
              /\ N[m].open = s.node[m].open
              /\ N[m].reclaim = s.node[m].reclaim
              /\ m # n => N[m].dirty = s.node[m].dirty
    BY <1>1 DEF NodeT
  <2> HIDE DEF N
  <2>3. /\ IsKernel(t) /\ t.node = N /\ t.stale = s.stale \ {n} /\ t.panic = s.panic
        /\ SameRest(s, t) /\ SameResult(s, t)
    BY <1>1, <2>1 DEF IsKernel, SameRest, SameResult
  <2> HIDE DEF t
  <2>4. Held(t, r, o)
    BY <2>2, <2>3 DEF Held
  <2> QED
    BY <2>3, <2>4 DEF t
<1> QED
  BY <1>2, <1>3

(* A change to a file makes its inode dirty.                               *)
LEMMA TruncHeld ==
    ASSUME NEW s, NEW r, NEW o, NEW n \in Inodes, Held(s, r, o), r[n] > 0
    PROVE  /\ Held(sfs_truncfile(s, n), r, o)
           /\ SameRest(s, sfs_truncfile(s, n))
           /\ SameResult(s, sfs_truncfile(s, n))
<1> DEFINE t == sfs_truncfile(s, n)
           N == [s.node EXCEPT ![n].dirty = TRUE]
<1>1. /\ IsKernel(s) /\ r \in Demand /\ n \in DOMAIN s.node
      /\ s.node \in [DOMAIN s.node -> NodeT]
  BY NodesApart DEF Held
<1>2. t = [s EXCEPT !.node = N, !.stale = s.stale \cup {n}]
  BY <1>1 DEF sfs_truncfile, IsKernel
<1>3. /\ DOMAIN N = DOMAIN s.node
      /\ N \in [DOMAIN N -> NodeT]
      /\ N[n].dirty
      /\ \A m \in DOMAIN N :
            /\ N[m].ref = s.node[m].ref
            /\ N[m].open = s.node[m].open
            /\ N[m].reclaim = s.node[m].reclaim
            /\ m # n => N[m].dirty = s.node[m].dirty
  BY <1>1 DEF NodeT
<1> HIDE DEF N
<1>4. /\ IsKernel(t) /\ t.node = N /\ t.stale = s.stale \cup {n} /\ t.panic = s.panic
      /\ SameRest(s, t) /\ SameResult(s, t)
  BY <1>1, <1>2 DEF IsKernel, SameRest, SameResult
<1> HIDE DEF t
<1>5. Held(t, r, o)
  BY <1>1, <1>3, <1>4 DEF Held
<1> QED
  BY <1>4, <1>5 DEF t

LEMMA OpenIncHeld ==
    ASSUME NEW s, NEW r, NEW o, NEW n \in Nodes, Held(s, r, o),
           r[n] > o[n], n \in Devices => r[n] > o[n] + 1
    PROVE  /\ Held(inode_open_inc(s, n), r, Plus(o, n))
           /\ SameRest(s, inode_open_inc(s, n))
           /\ SameResult(s, inode_open_inc(s, n))
<1> DEFINE t == inode_open_inc(s, n)
           N == [s.node EXCEPT ![n].open = @ + 1]
           q == Plus(o, n)
<1>1. /\ IsKernel(s) /\ r \in Demand /\ o \in Demand /\ n \in DOMAIN s.node
      /\ s.node \in [DOMAIN s.node -> NodeT]
  BY DEF Held, Demand
<1>2. t = [s EXCEPT !.node = N]
  BY <1>1 DEF inode_open_inc, IsKernel
<1>3. /\ DOMAIN N = DOMAIN s.node
      /\ N \in [DOMAIN N -> NodeT]
      /\ \A m \in DOMAIN N :
            /\ N[m].open = IF m = n THEN s.node[m].open + 1 ELSE s.node[m].open
            /\ N[m].ref = s.node[m].ref
            /\ N[m].reclaim = s.node[m].reclaim
            /\ N[m].dirty = s.node[m].dirty
  BY <1>1 DEF NodeT
<1> HIDE DEF N
<1>4. /\ IsKernel(t) /\ t.node = N /\ t.stale = s.stale /\ t.panic = s.panic
      /\ SameRest(s, t) /\ SameResult(s, t)
  BY <1>1, <1>2, NodeChanged
<1> HIDE DEF t
<1>5. /\ q \in Demand
      /\ \A m \in Nodes : q[m] = IF m = n THEN o[m] + 1 ELSE o[m]
  BY <1>1, PlusValue
<1> HIDE DEF q
<1>6. Held(t, r, q)
  <2>1. \A m \in Devices : r[m] > q[m]
    BY <1>1, <1>5, NodesApart DEF Held, Demand
  <2>2. \A m \in Nodes : r[m] >= q[m]
    BY <1>1, <1>5 DEF Held, Demand
  <2>3. \A m \in DOMAIN N : N[m].open = q[m]
    BY <1>1, <1>3, <1>5 DEF Held
  <2> QED
    BY <1>3, <1>4, <1>5, <2>1, <2>2, <2>3 DEF Held
<1> QED
  BY <1>4, <1>6 DEF t, q

(* An operation of an inode that is in memory: at most inode_check's flag  *)
(* is new.                                                                 *)
LEMMA VopHeld ==
    ASSUME NEW s, NEW r, NEW o, NEW n \in Nodes, NEW op \in Ops(n), Held(s, r, o), r[n] > 0
    PROVE  LET v == vop(s, n, op)
           IN  /\ Held(v, r, o) /\ v.panic = None
               /\ v.node = s.node /\ v.stale = s.stale
               /\ SameRest(s, v) /\ SameResult(s, v)
<1>1. /\ s.panic = None /\ n \in DOMAIN s.node /\ IsKernel(s)
      /\ s.node[n].ref >= s.node[n].open
  BY DEF Held
<1> DEFINE v == vop(s, n, op)
<1>2. v = s \/ v = [s EXCEPT !.full = TRUE]
  BY <1>1 DEF vop, inode_check
<1> HIDE DEF v
<1>3. /\ IsKernel(v) /\ v.node = s.node /\ v.stale = s.stale /\ v.panic = s.panic
      /\ SameRest(s, v) /\ SameResult(s, v)
  BY <1>1, <1>2 DEF IsKernel, SameRest, SameResult
<1>4. Held(v, r, o)
  BY <1>3 DEF Held
<1> QED
  BY <1>1, <1>3, <1>4 DEF v

LEMMA OpenDecHeld ==
    ASSUME NEW s, NEW r, NEW o, NEW n \in Nodes, Held(s, r, o), o[n] > 0
    PROVE  /\ Held(inode_open_dec(s, n), r, Minus(o, n))
           /\ SameRest(s, inode_open_dec(s, n))
           /\ SameResult(s, inode_open_dec(s, n))
<1> DEFINE t == [s EXCEPT !.node[n].open = @ - 1]
           N == [s.node EXCEPT ![n].open = @ - 1]
           q == Minus(o, n)
<1>1. /\ IsKernel(s) /\ r \in Demand /\ o \in Demand /\ n \in DOMAIN s.node
      /\ s.node \in [DOMAIN s.node -> NodeT] /\ s.panic = None
      /\ s.node[n].open = o[n] /\ r[n] > 0
  BY DEF Held, Demand
<1>2. t = [s EXCEPT !.node = N]
  BY <1>1 DEF IsKernel
<1>3. /\ DOMAIN N = DOMAIN s.node
      /\ N \in [DOMAIN N -> NodeT]
      /\ \A m \in DOMAIN N :
            /\ N[m].open = IF m = n THEN s.node[m].open - 1 ELSE s.node[m].open
            /\ N[m].ref = s.node[m].ref
            /\ N[m].reclaim = s.node[m].reclaim
            /\ N[m].dirty = s.node[m].dirty
  BY <1>1 DEF NodeT
<1> DEFINE v == vop(t, n, "close")
<1>4. inode_open_dec(s, n)
        = IF t.node[n].open # 0 THEN t
          ELSE IF v.panic # None \/ n \in Devices THEN v ELSE sfs_fsync(v, n)
  BY <1>1 DEF inode_open_dec
<1> HIDE DEF N, t, v
<1>5. /\ IsKernel(t) /\ t.node = N /\ t.stale = s.stale /\ t.panic = s.panic
      /\ SameRest(s, t) /\ SameResult(s, t)
  BY <1>1, <1>2, NodeChanged
<1>6. /\ q \in Demand
      /\ \A m \in Nodes : q[m] = IF m = n THEN o[m] - 1 ELSE o[m]
  BY <1>1, MinusValue
<1> HIDE DEF q
<1>7. Held(t, r, q)
  <2>1. \A m \in Devices : r[m] > q[m]
    BY <1>1, <1>6, NodesApart DEF Held, Demand
  <2>2. \A m \in Nodes : r[m] >= q[m]
    BY <1>1, <1>6 DEF Held, Demand
  <2>3. \A m \in DOMAIN N : N[m].open = q[m]
    BY <1>1, <1>3, <1>6 DEF Held
  <2> QED
    BY <1>3, <1>5, <1>6, <2>1, <2>2, <2>3 DEF Held
<1>8. Held(v, r, q) /\ v.panic = None /\ SameRest(t, v) /\ SameResult(t, v)
  <2>1. "close" \in Ops(n)
    BY DEF Ops
  <2> QED
    BY <1>1, <1>7, <2>1, VopHeld DEF v
<1>9. CASE t.node[n].open = 0 /\ n \notin Devices
  <2>1. /\ Held(sfs_fsync(v, n), r, q)
        /\ SameRest(v, sfs_fsync(v, n))
        /\ SameResult(v, sfs_fsync(v, n))
    BY <1>1, <1>8, FsyncHeld
  <2> QED
    BY <1>4, <1>5, <1>8, <1>9, <2>1 DEF SameRest, SameResult, q
<1>10. CASE t.node[n].open = 0 /\ n \in Devices
  BY <1>4, <1>5, <1>8, <1>10 DEF SameRest, SameResult, q
<1>11. CASE t.node[n].open # 0
  BY <1>4, <1>5, <1>7, <1>11 DEF q
<1> QED
  BY <1>9, <1>10, <1>11

(* The last reference to an inode of the disk writes it back and frees it. *)
LEMMA RefDecHeld ==
    ASSUME NEW s, NEW r, NEW o, NEW n \in Nodes, Held(s, r, o),
           r[n] > o[n], n \in Devices => r[n] > o[n] + 1
    PROVE  /\ Held(inode_ref_dec(s, n), Minus(r, n), o)
           /\ SameRest(s, inode_ref_dec(s, n))
           /\ SameResult(s, inode_ref_dec(s, n))
<1> DEFINE t == [s EXCEPT !.node[n].ref = @ - 1]
           N == [s.node EXCEPT ![n].ref = @ - 1]
           q == Minus(r, n)
           v == vop(t, n, "reclaim")
<1>1. /\ IsKernel(s) /\ r \in Demand /\ o \in Demand /\ n \in DOMAIN s.node
      /\ s.node \in [DOMAIN s.node -> NodeT] /\ s.panic = None
      /\ s.node[n].ref = r[n] /\ r[n] > 0
  BY DEF Held, Demand
<1>2. t = [s EXCEPT !.node = N]
  BY <1>1 DEF IsKernel
<1>3. /\ DOMAIN N = DOMAIN s.node
      /\ N \in [DOMAIN N -> NodeT]
      /\ \A m \in DOMAIN N :
            /\ N[m].ref = IF m = n THEN s.node[m].ref - 1 ELSE s.node[m].ref
            /\ N[m].open = s.node[m].open
            /\ N[m].reclaim = s.node[m].reclaim
            /\ N[m].dirty = s.node[m].dirty
  BY <1>1 DEF NodeT
<1>4. inode_ref_dec(s, n)
        = IF t.node[n].ref # 0 THEN t
          ELSE IF v.panic # None THEN v ELSE sfs_reclaim(v, n)
  BY <1>1 DEF inode_ref_dec
<1> HIDE DEF N, v, t
<1>5. /\ IsKernel(t) /\ t.node = N /\ t.stale = s.stale /\ t.panic = s.panic
      /\ SameRest(s, t) /\ SameResult(s, t)
  BY <1>1, <1>2, NodeChanged
<1>6. /\ q \in Demand
      /\ \A m \in Nodes : q[m] = IF m = n THEN r[m] - 1 ELSE r[m]
  BY <1>1, MinusValue
<1> HIDE DEF q
<1>7. /\ \A m \in Devices : q[m] > o[m]
      /\ \A m \in Nodes : q[m] >= o[m]
      /\ \A m \in DOMAIN N : N[m].ref = q[m]
  <2>1. \A m \in Devices : q[m] > o[m]
    BY <1>1, <1>6, NodesApart DEF Held, Demand
  <2>2. \A m \in Nodes : q[m] >= o[m]
    BY <1>1, <1>6 DEF Held, Demand
  <2>3. \A m \in DOMAIN N : N[m].ref = q[m]
    BY <1>1, <1>3, <1>6 DEF Held
  <2> QED
    BY <2>1, <2>2, <2>3
<1>8. CASE t.node[n].ref # 0
  <2>1. q[n] > 0
    BY <1>1, <1>3, <1>5, <1>6, <1>7, <1>8 DEF Demand
  <2>2. DOMAIN N = {m \in Nodes : q[m] > 0}
    BY <1>1, <1>3, <1>6, <2>1 DEF Held
  <2>3. Held(t, q, o)
    BY <1>1, <1>3, <1>5, <1>6, <1>7, <2>2 DEF Held
  <2> QED
    BY <1>4, <1>5, <1>8, <2>3 DEF q
<1>9. CASE t.node[n].ref = 0
  <2>1. r[n] = 1 /\ q[n] = 0 /\ o[n] = 0 /\ n \in Inodes /\ n \notin Devices
    BY <1>1, <1>3, <1>5, <1>6, <1>7, <1>9, NodesApart DEF Demand
  <2>2. N[n].open = 0 /\ N[n].reclaim = 1
    BY <1>1, <1>3, <2>1 DEF Held
  <2>3. "reclaim" \in Ops(n)
    BY <2>1 DEF Ops
  <2>4. v = t
    BY <1>1, <1>3, <1>5, <1>9, <2>2, <2>3, FilesAssumption DEF vop, inode_check, v
  <2>5. inode_ref_dec(s, n) = sfs_reclaim(t, n)
    BY <1>1, <1>4, <1>5, <1>9, <2>4
  <2> DEFINE N2 == [N EXCEPT ![n].reclaim = @ - 1]
             t2 == [t EXCEPT !.node[n].reclaim = @ - 1]
  <2>6. /\ DOMAIN N2 = DOMAIN N
        /\ N2[n].reclaim = 0 /\ N2[n].ref = 0 /\ N2[n].open = 0
        /\ N2[n].dirty = s.node[n].dirty
        /\ N2[n] \in NodeT
        /\ \A m \in DOMAIN N : m # n => N2[m] = s.node[m]
    <3>1. \A m \in DOMAIN N : m # n => N[m] = s.node[m]
      BY <1>1 DEF N
    <3> QED
      BY <1>1, <1>3, <1>5, <1>9, <2>2, <3>1 DEF NodeT
  <2>7. t2 = [t EXCEPT !.node = N2]
    BY <1>5 DEF IsKernel
  <2>8. sfs_reclaim(t, n)
          = IF t2.node[n].reclaim # 0 \/ t2.node[n].ref # 0 THEN t2
            ELSE inode_kill(sfs_fsync(t2, n), n)
    BY DEF sfs_reclaim
  <2> HIDE DEF N2, t2
  <2>9. /\ IsKernel(t2) /\ t2.node = N2 /\ t2.stale = s.stale /\ t2.panic = None
        /\ SameRest(s, t2) /\ SameResult(s, t2)
    BY <1>1, <1>5, <2>7, NodeChanged DEF SameRest, SameResult
  <2> DEFINE f == sfs_fsync(t2, n)
             N3 == [m \in DOMAIN N \ {n} |-> s.node[m]]
             u  == inode_kill(f, n)
  <2>10. /\ IsKernel(f) /\ DOMAIN f.node = DOMAIN N /\ f.panic = None
         /\ f.node[n].open = 0
         /\ \A m \in DOMAIN N : m # n => f.node[m] = s.node[m]
         /\ f.stale = s.stale \ {n}
         /\ SameRest(s, f) /\ SameResult(s, f)
    <3>1. CASE N2[n].dirty
      <4> DEFINE N4 == [N2 EXCEPT ![n].dirty = FALSE]
      <4>1. f = [t2 EXCEPT !.node = N4, !.stale = t2.stale \ {n}]
        BY <2>9, <3>1 DEF sfs_fsync, IsKernel
      <4>2. /\ DOMAIN N4 = DOMAIN N2 /\ N4[n].open = 0
            /\ \A m \in DOMAIN N2 : m # n => N4[m] = N2[m]
        BY <1>1, <1>3, <2>6 DEF NodeT
      <4> HIDE DEF N4
      <4>3. /\ IsKernel(f) /\ f.node = N4 /\ f.stale = s.stale \ {n} /\ f.panic = None
            /\ SameRest(s, f) /\ SameResult(s, f)
        BY <2>9, <4>1 DEF IsKernel, SameRest, SameResult
      <4> QED
        BY <2>6, <4>2, <4>3
    <3>2. CASE ~N2[n].dirty
      <4>1. f = t2
        BY <2>9, <3>2 DEF sfs_fsync
      <4>2. n \notin s.stale
        BY <2>6, <3>2 DEF Held
      <4> QED
        BY <2>6, <2>9, <4>1, <4>2
    <3> QED
      BY <3>1, <3>2
  <2>11. inode_ref_dec(s, n) = u
    BY <2>5, <2>6, <2>8, <2>9
  <2> HIDE DEF f
  <2>12. u = [f EXCEPT !.node = N3]
    <3>1. [m \in DOMAIN f.node \ {n} |-> f.node[m]] = N3
      BY <2>10
    <3>2. u = [f EXCEPT !.node = [m \in DOMAIN f.node \ {n} |-> f.node[m]]]
      BY <2>10 DEF inode_kill
    <3> QED
      BY <3>1, <3>2
  <2> HIDE DEF u
  <2>13. /\ DOMAIN N3 = DOMAIN s.node \ {n}
         /\ \A m \in DOMAIN N3 : N3[m] = s.node[m]
    BY <1>3
  <2> HIDE DEF N3
  <2>14. /\ IsKernel(u) /\ u.node = N3 /\ u.stale = s.stale \ {n} /\ u.panic = None
         /\ SameRest(s, u) /\ SameResult(s, u)
    BY <2>10, <2>12, NodeChanged DEF SameRest, SameResult
  <2>15. DOMAIN N3 = {m \in Nodes : q[m] > 0}
    BY <1>1, <1>6, <2>1, <2>13 DEF Held
  <2>16. N3 \in [DOMAIN N3 -> NodeT]
    <3>1. N3 = [m \in DOMAIN N3 |-> N3[m]]
      BY DEF N3
    <3> QED
      BY <1>1, <2>13, <3>1
  <2>17. \A m \in DOMAIN N3 : q[m] = r[m]
    BY <1>1, <1>6, <2>13 DEF Held
  <2>18. Held(u, q, o)
    BY <1>1, <1>6, <1>7, <2>13, <2>14, <2>15, <2>16, <2>17 DEF Held
  <2> QED
    BY <2>11, <2>14, <2>18 DEF q
<1> QED
  BY <1>8, <1>9

LEMMA LoadHeld ==
    ASSUME NEW s, NEW r, NEW o, NEW n \in Inodes, Held(s, r, o)
    PROVE  /\ Held(sfs_load_inode(s, n), Plus(r, n), o)
           /\ SameRest(s, sfs_load_inode(s, n))
           /\ sfs_load_inode(s, n).ret = "0"
           /\ sfs_load_inode(s, n).out = n
<1> DEFINE q == Plus(r, n)
<1>1. /\ IsKernel(s) /\ r \in Demand /\ o \in Demand /\ s.panic = None
      /\ s.node \in [DOMAIN s.node -> NodeT] /\ n \in Nodes
  BY NodesApart DEF Held
<1>2. /\ q \in Demand
      /\ \A m \in Nodes : q[m] = IF m = n THEN r[m] + 1 ELSE r[m]
  BY <1>1, PlusValue
<1>3. CASE n \in DOMAIN s.node
  <2> DEFINE t == inode_ref_inc(s, n)
  <2>1. r[n] > 0
    BY <1>3 DEF Held
  <2>2. Held(t, q, o) /\ SameRest(s, t)
    BY <1>1, <2>1, RefIncHeld
  <2>3. t.node[n].ref # 1
    <3>1. r[n] \in Nat /\ q[n] = r[n] + 1
      BY <1>1, <1>2 DEF Demand
    <3>2. t.node[n].ref = q[n]
      <4> HIDE DEF t, q
      <4> QED
        BY <1>1, <2>2, <3>1 DEF Held
    <3> QED
      BY <2>1, <3>1, <3>2
  <2>4. sfs_load_inode(s, n) = Store(t, n)
    BY <1>3, <2>3 DEF sfs_load_inode
  <2> HIDE DEF t, q
  <2>5. /\ Held(Store(t, n), q, o) /\ SameRest(t, Store(t, n))
        /\ Store(t, n).ret = "0" /\ Store(t, n).out = n
    BY <2>2, StoreHeld
  <2> QED
    BY <2>2, <2>4, <2>5 DEF SameRest, q
<1>4. CASE n \notin DOMAIN s.node
  <2> DEFINE N == [m \in DOMAIN s.node \cup {n} |-> IF m = n THEN inode_init ELSE s.node[m]]
             t == [s EXCEPT !.node = N]
  <2>1. sfs_load_inode(s, n) = Store(t, n)
    BY <1>4 DEF sfs_load_inode
  <2>2. inode_init \in NodeT /\ inode_init.ref = 1 /\ inode_init.open = 0
        /\ inode_init.reclaim = 1
    BY DEF inode_init, NodeT
  <2>3. /\ DOMAIN N = DOMAIN s.node \cup {n} /\ N[n] = inode_init
        /\ \A m \in DOMAIN s.node : N[m] = s.node[m]
        /\ N \in [DOMAIN N -> NodeT]
    BY <1>1, <1>4, <2>2
  <2> HIDE DEF N
  <2>4. /\ IsKernel(t) /\ t.node = N /\ t.stale = s.stale /\ t.panic = s.panic
        /\ SameRest(s, t)
    BY <1>1, NodeChanged
  <2> HIDE DEF t, q
  <2>5. r[n] = 0 /\ q[n] = 1 /\ o[n] = 0
    BY <1>1, <1>2, <1>4 DEF Held, Demand
  <2>6. DOMAIN N = {m \in Nodes : q[m] > 0}
    BY <1>1, <1>2, <2>3, <2>5 DEF Held
  <2>7. \A m \in DOMAIN N : N[m].ref = q[m] /\ N[m].open = o[m]
                            /\ (m \in Inodes => N[m].reclaim = 1)
    BY <1>1, <1>2, <1>4, <2>2, <2>3, <2>5 DEF Held
  <2>8. /\ \A m \in Devices : q[m] > o[m]
        /\ \A m \in Nodes : q[m] >= o[m]
    BY <1>1, <1>2, NodesApart DEF Held, Demand
  <2>9. \A m \in t.stale : m \in DOMAIN t.node /\ t.node[m].dirty
    BY <2>3, <2>4 DEF Held
  <2>10. Held(t, q, o)
    BY <1>1, <1>2, <2>3, <2>4, <2>6, <2>7, <2>8, <2>9 DEF Held
  <2>11. /\ Held(Store(t, n), q, o) /\ SameRest(t, Store(t, n))
         /\ Store(t, n).ret = "0" /\ Store(t, n).out = n
    BY <2>10, StoreHeld
  <2> QED
    BY <2>1, <2>4, <2>11 DEF SameRest, q
<1> QED
  BY <1>3, <1>4

LEMMA PanicStuck ==
    ASSUME NEW s, IsKernel(s), s.panic \in {None, "no_operation"}
    PROVE  /\ Stuck(Panic(s, "no_operation"))
           /\ Panic(s, "no_operation").ret = "panic"
<1> DEFINE t == Panic(s, "no_operation")
<1>1. t = [s EXCEPT !.panic = IF s.panic = None THEN "no_operation" ELSE s.panic,
                    !.ret = "panic"]
  BY DEF Panic, IsKernel
<1>2. (IF s.panic = None THEN "no_operation" ELSE s.panic) = "no_operation"
  BY DEF None
<1>3. t = [s EXCEPT !.panic = "no_operation", !.ret = "panic"]
  BY <1>1, <1>2
<1> QED
  BY <1>3 DEF IsKernel, Stuck

LEMMA VopStuck ==
    ASSUME NEW s, NEW r, NEW o, NEW n \in Nodes, NEW op, op \notin Ops(n),
           Held(s, r, o), r[n] > 0
    PROVE  Stuck(vop(s, n, op)) /\ vop(s, n, op).ret = "panic"
<1>1. IsKernel(s) /\ s.panic = None /\ n \in DOMAIN s.node
  BY DEF Held
<1>2. vop(s, n, op) = Panic(s, "no_operation")
  BY <1>1 DEF vop
<1> QED
  BY <1>1, <1>2, PanicStuck

-----------------------------------------------------------------------------
(* Names.                                                                  *)

(* The device list as fs_init leaves it.                                   *)
DeviceList ==
    [d \in Devices |-> [devnode |-> d, fs |-> d = "disk0", mountable |-> d = "disk0"]]

(* Where lookups may start: the current directory of every process and the *)
(* boot file system are the root directory, or not set.                    *)
Places(s) ==
    /\ s.boot \in {None, Root}
    /\ \A p \in Procs : s.files[p].pwd \in {None, Root}
    /\ s.vdev = DeviceList

(* t is s after a search: it failed and nothing is demanded of the inodes  *)
(* that was not before, or there is one more reference to what was found.  *)
Found(s, t, r, o) ==
    /\ SameRest(s, t)
    /\ t.ret # "0" => Held(t, r, o)
    /\ t.ret = "0" => t.out \in Nodes /\ Held(t, Plus(r, t.out), o)

LEMMA CurdirFound ==
    ASSUME NEW s, NEW r, NEW o, NEW p \in Procs, Held(s, r, o), Places(s),
           s.files[p].pwd = Root => r[Root] > 0
    PROVE  LET t == vfs_get_curdir(s, p)
           IN  /\ Found(s, t, r, o)
               /\ t.ret = (IF s.files[p].pwd = None THEN "E_NOENT" ELSE "0")
               /\ t.ret = "0" => t.out = Root
<1> DEFINE t == vfs_get_curdir(s, p)
           i == inode_ref_inc(s, Root)
<1>1. s.files[p].pwd \in {None, Root} /\ None # Root
  BY NodesApart DEF Places
<1>2. CASE s.files[p].pwd = None
  <2>1. t = Ret(s, "E_NOENT")
    BY <1>2 DEF vfs_get_curdir
  <2> QED
    BY <1>2, <2>1, RetHeld DEF Found
<1>3. CASE s.files[p].pwd = Root
  <2>1. t = Store(i, Root)
    BY <1>1, <1>3 DEF vfs_get_curdir
  <2>2. Held(i, Plus(r, Root), o) /\ SameRest(s, i)
    BY <1>3, NodesApart, RefIncHeld
  <2> HIDE DEF i
  <2>3. /\ Held(Store(i, Root), Plus(r, Root), o) /\ SameRest(i, Store(i, Root))
        /\ Store(i, Root).ret = "0" /\ Store(i, Root).out = Root
    BY <2>2, StoreHeld
  <2> QED
    BY <1>1, <1>3, <2>1, <2>2, <2>3, NodesApart DEF Found, SameRest
<1> QED
  BY <1>1, <1>2, <1>3

LEMMA BootfsFound ==
    ASSUME NEW s, NEW r, NEW o, Held(s, r, o), Places(s), s.boot = Root => r[Root] > 0
    PROVE  LET t == vfs_get_bootfs(s)
           IN  Found(s, t, r, o) /\ (t.ret = "0" => t.out = Root)
<1> DEFINE t == vfs_get_bootfs(s)
           i == inode_ref_inc(s, Root)
<1>1. s.boot \in {None, Root} /\ None # Root
  BY NodesApart DEF Places
<1>2. CASE s.boot = None
  <2>1. t = Ret(s, "E_NOENT")
    BY <1>2 DEF vfs_get_bootfs
  <2> QED
    BY <1>2, <2>1, RetHeld DEF Found
<1>3. CASE s.boot = Root
  <2>1. t = Store(i, Root)
    BY <1>1, <1>3 DEF vfs_get_bootfs
  <2>2. Held(i, Plus(r, Root), o) /\ SameRest(s, i)
    BY <1>3, NodesApart, RefIncHeld
  <2> HIDE DEF i
  <2>3. /\ Held(Store(i, Root), Plus(r, Root), o) /\ SameRest(i, Store(i, Root))
        /\ Store(i, Root).ret = "0" /\ Store(i, Root).out = Root
    BY <2>2, StoreHeld
  <2> QED
    BY <1>1, <1>3, <2>1, <2>2, <2>3, NodesApart DEF Found, SameRest
<1> QED
  BY <1>1, <1>2, <1>3

LEMMA DeviceEntry ==
    /\ DOMAIN DeviceList = Devices
    /\ \A d \in Devices :
          /\ DeviceList[d].devnode = d
          /\ DeviceList[d].fs = (d = "disk0")
          /\ DeviceList[d].mountable = (d = "disk0")
<1>1. ASSUME NEW d \in Devices
      PROVE  /\ DeviceList[d].devnode = d
             /\ DeviceList[d].fs = (d = "disk0")
             /\ DeviceList[d].mountable = (d = "disk0")
  <2> DEFINE b == d = "disk0"
  <2>1. DeviceList[d] = [devnode |-> d, fs |-> b, mountable |-> b]
    BY DEF DeviceList
  <2> HIDE DEF b
  <2>2. /\ DeviceList[d].devnode = d
        /\ DeviceList[d].fs = b
        /\ DeviceList[d].mountable = b
    BY <2>1
  <2> QED
    BY <2>2 DEF b
<1>2. DOMAIN DeviceList = Devices
  BY DEF DeviceList
<1> QED
  BY <1>1, <1>2

LEMMA RootFound ==
    ASSUME NEW s, NEW r, NEW o, NEW dev, Held(s, r, o), Places(s)
    PROVE  LET t == vfs_get_root(s, dev)
           IN  /\ Found(s, t, r, o)
               /\ t.ret = "0" => t.out \in Devices \cup {Root}
               /\ dev = "disk0" => t.ret = "0" /\ t.out = Root
               /\ dev \in {"stdin", "stdout"} => t.ret = "0" /\ t.out = dev
<1> DEFINE t == vfs_get_root(s, dev)
           i == inode_ref_inc(s, dev)
<1>1. s.vdev = DeviceList
  BY DEF Places
<1>2. CASE dev \notin Devices
  <2>1. t = Ret(s, "E_NO_DEV")
    BY <1>1, <1>2 DEF vfs_get_root, DeviceList
  <2>2. /\ Held(Ret(s, "E_NO_DEV"), r, o) /\ SameRest(s, Ret(s, "E_NO_DEV"))
        /\ Ret(s, "E_NO_DEV").ret = "E_NO_DEV"
    BY RetHeld
  <2> QED
    BY <1>2, <2>1, <2>2 DEF Found, Devices
<1>3. CASE dev = "disk0"
  <2>1. t = sfs_load_inode(s, Root)
    BY <1>1, <1>3, DeviceEntry DEF vfs_get_root, Devices
  <2> QED
    BY <1>3, <2>1, LoadHeld, NodesApart DEF Found
<1>4. CASE dev \in {"stdin", "stdout"}
  <2>1. dev \in Devices /\ dev # "disk0" /\ dev \in Nodes
    BY <1>4 DEF Devices, Nodes
  <2>2. t = Store(i, dev)
    BY <1>1, <2>1, DeviceEntry DEF vfs_get_root
  <2>3. r[dev] > 0
    BY <2>1 DEF Held, Demand
  <2>4. Held(i, Plus(r, dev), o) /\ SameRest(s, i)
    BY <2>1, <2>3, RefIncHeld
  <2> HIDE DEF i
  <2>5. /\ Held(Store(i, dev), Plus(r, dev), o) /\ SameRest(i, Store(i, dev))
        /\ Store(i, dev).ret = "0" /\ Store(i, dev).out = dev
    BY <2>4, StoreHeld
  <2> QED
    BY <2>1, <2>2, <2>4, <2>5 DEF Found, SameRest
<1> QED
  BY <1>2, <1>3, <1>4 DEF Devices

(* What the demand must contain for the lookups of p.                      *)
Starts(s, p, r) ==
    /\ s.files[p].pwd = Root => r[Root] > 0
    /\ s.boot = Root => r[Root] > 0

LEMMA DeviceFound ==
    ASSUME NEW s, NEW r, NEW o, NEW p \in Procs, NEW path,
           Held(s, r, o), Places(s), Starts(s, p, r)
    PROVE  LET t == get_device(s, p, path)
           IN  Found(s, t, r, o) /\ (t.ret = "0" => t.out \in Devices \cup {Root})
<1> DEFINE t == get_device(s, p, path)
<1>1. CASE path.at = "."
  <2>1. t = vfs_get_curdir(s, p)
    BY <1>1 DEF get_device
  <2> QED
    BY <2>1, CurdirFound DEF Starts
<1>2. CASE path.at = "/"
  <2>1. t = vfs_get_bootfs(s)
    BY <1>2 DEF get_device
  <2> QED
    BY <2>1, BootfsFound DEF Starts
<1>3. CASE path.at = ":"
  <2> DEFINE c == vfs_get_curdir(s, p)
             l == sfs_load_inode(c, Root)
  <2>1. t = IF Failed(c) THEN c ELSE inode_ref_dec(l, c.out)
    BY <1>3 DEF get_device
  <2>2. Found(s, c, r, o) /\ (c.ret = "0" => c.out = Root)
    BY CurdirFound DEF Starts
  <2> HIDE DEF c
  <2>3. CASE Failed(c)
    BY <2>1, <2>2, <2>3 DEF Failed
  <2>4. CASE ~Failed(c)
    <3>1. c.ret = "0" /\ c.out = Root /\ Held(c, Plus(r, Root), o) /\ SameRest(s, c)
      BY <2>2, <2>4 DEF Failed, Found
    <3>2. /\ Held(l, Plus(Plus(r, Root), Root), o) /\ SameRest(c, l)
          /\ l.ret = "0" /\ l.out = Root
      BY <3>1, LoadHeld, NodesApart
    <3> DEFINE q == Plus(Plus(r, Root), Root)
    <3>3. r \in Demand /\ o \in Demand /\ Plus(r, Root) \in Demand /\ r[Root] >= o[Root]
      <4>1. r \in Demand /\ o \in Demand /\ r[Root] >= o[Root]
        BY NodesApart DEF Held
      <4> QED
        BY <4>1, NodesApart, PlusValue
    <3>4. q[Root] > o[Root] /\ Root \notin Devices /\ Minus(q, Root) = Plus(r, Root)
      BY <3>3, NodesApart, PlusValue DEF Demand
    <3> HIDE DEF l, q
    <3>5. /\ Held(inode_ref_dec(l, Root), Minus(q, Root), o)
          /\ SameRest(l, inode_ref_dec(l, Root)) /\ SameResult(l, inode_ref_dec(l, Root))
      BY <3>2, <3>4, RefDecHeld, NodesApart DEF q
    <3> QED
      BY <2>1, <2>4, <3>1, <3>2, <3>4, <3>5, NodesApart DEF Found, SameRest, SameResult
  <2> QED
    BY <2>3, <2>4
<1>4. CASE path.at \notin {".", "/", ":"}
  <2>1. t = vfs_get_root(s, path.at)
    BY <1>4 DEF get_device
  <2> QED
    BY <2>1, RootFound
<1> QED
  BY <1>1, <1>2, <1>3, <1>4

(* A demand that inodes may have: what is open is referenced, and a device *)
(* has the reference of the device list besides.                           *)
Fit(r, o) ==
    /\ r \in Demand
    /\ o \in Demand
    /\ \A n \in Nodes : r[n] >= o[n]
    /\ \A n \in Devices : r[n] > o[n]

LEMMA HeldFits ==
    ASSUME NEW s, NEW r, NEW o, Held(s, r, o)
    PROVE  Fit(r, o) /\ IsKernel(s) /\ s.panic = None
  BY DEF Held, Fit

LEMMA FitPlus ==
    ASSUME NEW r, NEW o, NEW n \in Nodes, Fit(r, o)
    PROVE  /\ Fit(Plus(r, n), o)
           /\ Plus(r, n)[n] > o[n]
           /\ Plus(r, n)[n] > 0
           /\ n \in Devices => Plus(r, n)[n] > o[n] + 1
<1> DEFINE q == Plus(r, n)
<1>1. /\ q \in Demand
      /\ \A m \in Nodes : q[m] = IF m = n THEN r[m] + 1 ELSE r[m]
  BY PlusValue DEF Fit
<1> HIDE DEF q
<1>2. Devices \subseteq Nodes
  BY NodesApart
<1>3. Fit(q, o) /\ q[n] > o[n] /\ q[n] > 0 /\ (n \in Devices => q[n] > o[n] + 1)
  BY <1>1, <1>2 DEF Fit, Demand
<1> QED
  BY <1>3 DEF q

LEMMA PlusSwap ==
    ASSUME NEW r \in Demand, NEW n \in Nodes, NEW m \in Nodes
    PROVE  Plus(Plus(r, n), m) = Plus(Plus(r, m), n)
  BY DEF Plus, Demand

(* Dropping a reference that was taken.                                    *)
LEMMA DropHeld ==
    ASSUME NEW s, NEW r, NEW o, NEW n \in Nodes, Fit(r, o), Held(s, Plus(r, n), o)
    PROVE  /\ Held(inode_ref_dec(s, n), r, o)
           /\ SameRest(s, inode_ref_dec(s, n))
           /\ SameResult(s, inode_ref_dec(s, n))
<1> DEFINE q == Plus(r, n)
<1>1. q[n] > o[n] /\ (n \in Devices => q[n] > o[n] + 1)
  BY FitPlus
<1>2. Minus(q, n) = r
  BY PlusValue DEF Fit
<1> HIDE DEF q
<1> QED
  BY <1>1, <1>2, RefDecHeld DEF q

LEMMA RestSame ==
    ASSUME NEW s, NEW t, NEW u, SameRest(s, t), SameRest(t, u)
    PROVE  SameRest(s, u)
  BY DEF SameRest

(* Looking a name up in the directory root.                                *)
LEMMA InRootFound ==
    ASSUME NEW s, NEW r, NEW o, NEW name, Held(s, r, o), r[Root] > 0
    PROVE  Found(s, sfs_lookup(s, Root, name), r, o)
<1> DEFINE i == inode_ref_inc(s, Root)
           l == sfs_lookup_once(i, Root, name)
           t == inode_ref_dec(l, Root)
<1>1. sfs_lookup(s, Root, name) = t
  BY FilesAssumption DEF sfs_lookup
<1>2. Held(i, Plus(r, Root), o) /\ SameRest(s, i)
  BY RefIncHeld, NodesApart
<1>3. Fit(r, o)
  BY HeldFits
<1> HIDE DEF i
<1>4. CASE name \notin DOMAIN Entry[Root]
  <2>1. l = Ret(i, "E_NOENT")
    BY <1>4 DEF sfs_lookup_once
  <2>2. Held(l, Plus(r, Root), o) /\ SameRest(i, l) /\ l.ret = "E_NOENT"
    BY <1>2, <2>1, RetHeld
  <2> HIDE DEF l
  <2>3. Held(t, r, o) /\ SameRest(l, t) /\ t.ret = "E_NOENT"
    BY <1>3, <2>2, DropHeld, NodesApart DEF SameResult
  <2> QED
    BY <1>1, <1>2, <2>2, <2>3, RestSame DEF Found
<1>5. CASE name \in DOMAIN Entry[Root]
  <2> DEFINE m == Entry[Root][name]
  <2>1. m \in Inodes /\ m \in Nodes
    BY <1>5, FilesAssumption, NodesApart
  <2>2. l = sfs_load_inode(i, m)
    BY <1>5 DEF sfs_lookup_once
  <2> HIDE DEF m
  <2>3. /\ Held(l, Plus(Plus(r, Root), m), o) /\ SameRest(i, l)
        /\ l.ret = "0" /\ l.out = m
    BY <1>2, <2>1, <2>2, LoadHeld
  <2>4. Plus(Plus(r, Root), m) = Plus(Plus(r, m), Root)
    BY <1>3, <2>1, PlusSwap, NodesApart DEF Fit
  <2>5. Fit(Plus(r, m), o)
    BY <1>3, <2>1, FitPlus
  <2> HIDE DEF l
  <2>6. Held(t, Plus(r, m), o) /\ SameRest(l, t) /\ t.ret = "0" /\ t.out = m
    BY <2>3, <2>4, <2>5, DropHeld, NodesApart DEF SameResult
  <2> QED
    BY <1>1, <1>2, <2>1, <2>3, <2>6, RestSame DEF Found
<1> QED
  BY <1>4, <1>5

LEMMA LookupFound ==
    ASSUME NEW s, NEW r, NEW o, NEW p \in Procs, NEW path,
           Held(s, r, o), Places(s), Starts(s, p, r)
    PROVE  /\ Found(s, vfs_lookup(s, p, path), r, o)
           /\ path.name = None => vfs_lookup(s, p, path) = get_device(s, p, path)
<1> DEFINE d == get_device(s, p, path)
           t == vfs_lookup(s, p, path)
           n == d.out
           v == vop_lookup(d, n, path.name)
<1>1. Found(s, d, r, o) /\ (d.ret = "0" => n \in Devices \cup {Root})
  BY DeviceFound
<1>2. t = IF Failed(d) \/ path.name = None THEN d ELSE inode_ref_dec(v, n)
  BY DEF vfs_lookup, lookup_in
<1>3. Fit(r, o)
  BY HeldFits
<1> HIDE DEF d, t
<1>4. CASE Failed(d) \/ path.name = None
  BY <1>1, <1>2, <1>4 DEF d, t
<1>5. CASE ~Failed(d) /\ path.name # None
  <2>1. /\ n \in Devices \cup {Root} /\ n \in Nodes /\ Held(d, Plus(r, n), o)
        /\ SameRest(s, d)
    BY <1>1, <1>5 DEF Failed, Found
  <2>2. Fit(Plus(r, n), o) /\ Plus(r, n)[n] > 0
    BY <1>3, <2>1, FitPlus
  <2>3. "lookup" \in Ops(n)
    BY <2>1, FilesAssumption, NodesApart DEF Ops
  <2> HIDE DEF n
  <2> DEFINE g == vop(d, n, "lookup")
  <2>4. Held(g, Plus(r, n), o) /\ g.panic = None /\ SameRest(d, g)
    BY <2>1, <2>2, <2>3, VopHeld
  <2>5. v = IF n \in Devices THEN Ret(g, "E_NOENT") ELSE sfs_lookup(g, n, path.name)
    BY <2>4 DEF vop_lookup
  <2> HIDE DEF g, v
  <2>6. CASE n \in Devices
    <3>1. v = Ret(g, "E_NOENT")
      BY <2>5, <2>6
    <3>2. Held(v, Plus(r, n), o) /\ SameRest(d, v) /\ v.ret = "E_NOENT"
      BY <2>4, <3>1, RetHeld, RestSame
    <3>3. /\ Held(inode_ref_dec(v, n), r, o) /\ SameRest(v, inode_ref_dec(v, n))
          /\ inode_ref_dec(v, n).ret = "E_NOENT"
      BY <1>3, <2>1, <3>2, DropHeld DEF SameResult
    <3>4. t = inode_ref_dec(v, n)
      BY <1>2, <1>5 DEF n, v
    <3> QED
      BY <1>5, <2>1, <3>2, <3>3, <3>4, RestSame DEF Found, t
  <2>7. CASE n = Root
    <3>1. v = sfs_lookup(g, Root, path.name)
      BY <2>5, <2>7, NodesApart
    <3>2. Found(d, v, Plus(r, Root), o)
      <4>1. Found(g, v, Plus(r, Root), o)
        BY <2>2, <2>4, <2>7, <3>1, InRootFound
      <4> QED
        BY <2>4, <4>1, RestSame DEF Found
    <3> DEFINE u == inode_ref_dec(v, Root)
    <3>3. t = u
      BY <1>2, <1>5, <2>7 DEF n, v
    <3>4. CASE v.ret # "0"
      <4>1. Held(v, Plus(r, Root), o) /\ SameRest(d, v)
        BY <3>2, <3>4 DEF Found
      <4>2. Held(u, r, o) /\ SameRest(v, u) /\ SameResult(v, u)
        BY <1>3, <4>1, DropHeld, NodesApart
      <4> QED
        BY <1>5, <2>1, <3>3, <3>4, <4>1, <4>2, RestSame DEF Found, SameResult, t
    <3>5. CASE v.ret = "0"
      <4> DEFINE m == v.out
      <4>1. m \in Nodes /\ Held(v, Plus(Plus(r, Root), m), o) /\ SameRest(d, v)
        BY <3>2, <3>5 DEF Found
      <4> HIDE DEF m
      <4>2. Plus(Plus(r, Root), m) = Plus(Plus(r, m), Root) /\ Fit(Plus(r, m), o)
        BY <1>3, <4>1, PlusSwap, FitPlus, NodesApart DEF Fit
      <4>3. Held(u, Plus(r, m), o) /\ SameRest(v, u) /\ SameResult(v, u)
        BY <4>1, <4>2, DropHeld, NodesApart
      <4>4. u.out = m /\ u.ret = "0"
        BY <3>5, <4>3 DEF SameResult, m
      <4> QED
        BY <1>5, <2>1, <3>3, <4>1, <4>3, <4>4, RestSame DEF Found, t
    <3> QED
      BY <3>4, <3>5
  <2> QED
    BY <2>1, <2>6, <2>7
<1> QED
  BY <1>4, <1>5

-----------------------------------------------------------------------------
(* Opening.                                                                *)

(* t is s after vfs_open: the kernel has stopped; or the call failed, and  *)
(* left the demand as it was; or it has lost a reference; or it has opened *)
(* the inode t.out.                                                        *)
OpenLost(s, t, r, o) ==
    \E n \in Nodes :
       /\ t.ret = "E_EXISTS"
       /\ Held(t, Plus(r, n), o)
       /\ t.lost = [s.lost EXCEPT ![n] = @ + 1]
       /\ t.files = s.files
       /\ t.boot = s.boot
       /\ t.vdev = s.vdev

OpenFailed(s, t, r, o) == t.ret # "0" /\ Held(t, r, o) /\ SameRest(s, t)

OpenDone(s, t, r, o) ==
    /\ t.ret = "0"
    /\ t.out \in Nodes
    /\ Held(t, Plus(r, t.out), Plus(o, t.out))
    /\ SameRest(s, t)

Opened(s, t, r, o) ==
    \/ Stuck(t) /\ t.ret = "panic"
    \/ OpenFailed(s, t, r, o)
    \/ OpenLost(s, t, r, o)
    \/ OpenDone(s, t, r, o)

(* The operations that vfs_open calls.                                     *)
LEMMA OpenOps ==
    ASSUME NEW n \in Nodes
    PROVE  "open" \in Ops(n) /\ "create" \notin Ops(n)
  BY DEF Ops

(* vop_open answers without changing anything.                             *)
LEMMA VopOpenHeld ==
    ASSUME NEW s, NEW r, NEW o, NEW n \in Nodes, NEW fl, Held(s, r, o), r[n] > 0
    PROVE  LET t == vop_open(s, n, fl)
           IN  /\ Held(t, r, o)
               /\ SameRest(s, t)
               /\ n \in Devices /\ Plain(fl)
                  /\ ((n = "stdin" /\ fl.acc = "r") \/ (n = "stdout" /\ fl.acc = "w"))
                  => t.ret = "0"
<1> DEFINE t == vop_open(s, n, fl)
           ok == Plain(fl) /\ \/ n = "stdin" /\ fl.acc = "r"
                              \/ n = "stdout" /\ fl.acc = "w"
           dir == Type[n] = "dir" /\ (fl.acc # "r" \/ fl.append)
<1> DEFINE v == vop(s, n, "open")
<1>1. Held(v, r, o) /\ v.panic = None /\ SameRest(s, v)
  BY VopHeld, OpenOps
<1>2. CASE n \in Devices
  <2>1. t = Ret(v, IF ok THEN "0" ELSE "E_INVAL")
    BY <1>1, <1>2, NodesApart DEF vop_open
  <2> HIDE DEF t, ok, v
  <2>2. Held(t, r, o) /\ SameRest(s, t) /\ t.ret = (IF ok THEN "0" ELSE "E_INVAL")
    BY <1>1, <2>1, RetHeld, RestSame
  <2> QED
    BY <2>2 DEF t, ok
<1>3. CASE n \in Inodes
  <2>1. n \notin Devices
    BY <1>3, NodesApart
  <2>2. t = Ret(v, IF dir THEN "E_ISDIR" ELSE "0")
    BY <1>1, <1>3, <2>1 DEF vop_open
  <2> HIDE DEF t, dir, v
  <2>3. Held(t, r, o) /\ SameRest(s, t)
    BY <1>1, <2>2, RetHeld, RestSame
  <2> QED
    BY <2>1, <2>3 DEF t
<1> QED
  BY <1>2, <1>3, NodesApart

(* The second half of vfs_open, after vop_open: with neither O_TRUNC nor   *)
(* O_CREAT, a success of vop_open is one of vfs_open.                      *)
LEMMA SecondHalf ==
    ASSUME NEW s, NEW r, NEW o, NEW n \in Nodes, NEW fl, Fit(r, o),
           Held(s, Plus(r, n), o)
    PROVE  LET t == vfs_opened(s, n, fl)
           IN  /\ Opened(s, t, r, o)
               /\ ~(fl.trunc \/ fl.creat) => OpenFailed(s, t, r, o) \/ OpenDone(s, t, r, o)
               /\ ~(fl.trunc \/ fl.creat) /\ s.ret = "0" => t.ret = "0" /\ t.out = n
<1> DEFINE t == vfs_opened(s, n, fl)
           q == Plus(r, n)
           u == inode_ref_dec(s, n)
           i == inode_open_inc(s, n)
<1>1. s.panic = None
  BY HeldFits
<1>2. q[n] > o[n] /\ q[n] > 0 /\ (n \in Devices => q[n] > o[n] + 1)
  BY FitPlus
<1>4. CASE Failed(s)
  <2>1. t = Ret(u, s.ret)
    BY <1>1, <1>4 DEF vfs_opened
  <2>2. Held(u, r, o) /\ SameRest(s, u)
    BY DropHeld
  <2> HIDE DEF u
  <2>3. Held(t, r, o) /\ SameRest(u, t) /\ t.ret = s.ret
    BY <2>1, <2>2, RetHeld
  <2> HIDE DEF t
  <2>4. OpenFailed(s, t, r, o)
    BY <1>4, <2>2, <2>3, RestSame DEF Failed, OpenFailed
  <2> QED
    BY <1>4, <2>4 DEF t, Failed, Opened
<1>5. CASE ~Failed(s)
  <2>1. t = IF ~(fl.trunc \/ fl.creat) THEN Store(i, n) ELSE truncated(vop(i, n, "truncate"), n)
    BY <1>1, <1>5 DEF vfs_opened
  <2>2. Held(i, q, Plus(o, n)) /\ SameRest(s, i)
    BY <1>2, OpenIncHeld
  <2> HIDE DEF i, q
  <2>3. CASE ~(fl.trunc \/ fl.creat)
    <3>1. /\ Held(t, q, Plus(o, n)) /\ SameRest(i, t) /\ t.ret = "0" /\ t.out = n
      BY <2>1, <2>2, <2>3, StoreHeld
    <3> HIDE DEF t
    <3>2. OpenDone(s, t, r, o)
      BY <2>2, <3>1, RestSame DEF OpenDone, q
    <3> QED
      BY <3>1, <3>2 DEF Opened, t
  <2>4. CASE (fl.trunc \/ fl.creat) /\ "truncate" \in Ops(n)
    <3> DEFINE v == vop(i, n, "truncate")
               w == sfs_truncfile(v, n)
    <3>1. Held(v, q, Plus(o, n)) /\ v.panic = None /\ SameRest(i, v)
      BY <1>2, <2>2, <2>4, VopHeld
    <3>2. t = Store(w, n)
      BY <2>1, <2>4, <3>1 DEF truncated
    <3> HIDE DEF v
    <3>3. Held(w, q, Plus(o, n)) /\ SameRest(i, w)
      <4>1. n \in Inodes
        BY <2>4, NodesApart DEF Ops
      <4> QED
        BY <1>2, <3>1, <4>1, TruncHeld, RestSame
    <3> HIDE DEF w
    <3>4. Held(t, q, Plus(o, n)) /\ SameRest(w, t) /\ t.ret = "0" /\ t.out = n
      BY <3>2, <3>3, StoreHeld
    <3> HIDE DEF t
    <3>5. OpenDone(s, t, r, o)
      BY <2>2, <3>3, <3>4, RestSame DEF OpenDone, q
    <3> QED
      BY <2>4, <3>5 DEF Opened, t
  <2>5. CASE (fl.trunc \/ fl.creat) /\ "truncate" \notin Ops(n)
    <3> DEFINE v == vop(i, n, "truncate")
    <3>1. Stuck(v) /\ v.ret = "panic"
      BY <1>2, <2>2, <2>5, VopStuck
    <3>2. v.panic # None
      BY <3>1 DEF Stuck, None
    <3>3. t = v
      BY <2>1, <2>5, <3>2 DEF truncated
    <3> QED
      BY <2>5, <3>1, <3>3 DEF Opened
  <2> QED
    BY <2>3, <2>4, <2>5
<1> QED
  BY <1>4, <1>5

LEMMA OpenedFrom ==
    ASSUME NEW s, NEW u, NEW t, NEW r, NEW o, SameRest(s, u), Opened(u, t, r, o)
    PROVE  /\ Opened(s, t, r, o)
           /\ OpenFailed(u, t, r, o) => OpenFailed(s, t, r, o)
           /\ OpenDone(u, t, r, o) => OpenDone(s, t, r, o)
<1>1. OpenFailed(u, t, r, o) => OpenFailed(s, t, r, o)
  BY DEF OpenFailed, SameRest
<1>2. OpenDone(u, t, r, o) => OpenDone(s, t, r, o)
  BY DEF OpenDone, SameRest
<1>3. OpenLost(u, t, r, o) => OpenLost(s, t, r, o)
  BY DEF OpenLost, SameRest
<1> QED
  BY <1>1, <1>2, <1>3 DEF Opened

LEMMA StaysFit ==
    ASSUME NEW s, NEW t, NEW p \in Procs, NEW r, SameRest(s, t), Places(s), Starts(s, p, r)
    PROVE  Places(t) /\ Starts(t, p, r)
  BY DEF SameRest, Places, Starts

(* With neither O_TRUNC nor O_CREAT the kernel does not stop and nothing   *)
(* is lost; "stdin:" opens for reading and "stdout:" for writing.          *)
LEMMA VfsOpen ==
    ASSUME NEW s, NEW r, NEW o, NEW p \in Procs, NEW path, NEW fl,
           Held(s, r, o), Places(s), Starts(s, p, r)
    PROVE  LET t == vfs_open(s, p, path, fl)
           IN  /\ Opened(s, t, r, o)
               /\ ~(fl.trunc \/ fl.creat) => OpenFailed(s, t, r, o) \/ OpenDone(s, t, r, o)
               /\ /\ path.name = None /\ Plain(fl)
                  /\ \/ path.at = "stdin" /\ fl.acc = "r"
                     \/ path.at = "stdout" /\ fl.acc = "w"
                  => t.ret = "0" /\ t.out = path.at
<1> DEFINE t == vfs_open(s, p, path, fl)
           l == vfs_lookup(s, p, path)
           n == l.out
           std == /\ path.name = None /\ Plain(fl)
                  /\ \/ path.at = "stdin" /\ fl.acc = "r"
                     \/ path.at = "stdout" /\ fl.acc = "w"
<1>1. Fit(r, o)
  BY HeldFits
<1>2. CASE fl.trunc /\ fl.acc = "r"
  <2>1. t = Ret(s, "E_INVAL")
    BY <1>2 DEF vfs_open
  <2>2. Held(t, r, o) /\ SameRest(s, t) /\ t.ret = "E_INVAL"
    BY <2>1, RetHeld
  <2> HIDE DEF t
  <2>3. OpenFailed(s, t, r, o) /\ ~Plain(fl)
    BY <1>2, <2>2 DEF OpenFailed, Plain
  <2> QED
    BY <2>3 DEF t, Opened
<1>3. CASE ~(fl.trunc /\ fl.acc = "r")
  <2>1. t = open_found(l, p, path, fl)
    BY <1>3 DEF vfs_open
  <2>2. Found(s, l, r, o) /\ SameRest(s, l)
    BY LookupFound DEF Found
  <2>3. std => l.ret = "0" /\ n = path.at
    <3> SUFFICES ASSUME std PROVE l.ret = "0" /\ n = path.at
      OBVIOUS
    <3>1. l = get_device(s, p, path)
      BY LookupFound
    <3>2. path.at \in {"stdin", "stdout"}
      OBVIOUS
    <3>3. l = vfs_get_root(s, path.at)
      BY <3>1, <3>2 DEF get_device
    <3> QED
      BY <3>2, <3>3, RootFound
  <2> HIDE DEF l, t, std
  <2>4. CASE l.ret = "E_NOENT" /\ fl.creat
    <3> DEFINE c == Ret(l, "0")
               d == get_device(c, p, path)
    <3>1. t = vfs_create(d)
      BY <2>1, <2>4 DEF open_found
    <3>2. Held(c, r, o) /\ SameRest(l, c)
      BY <2>2, <2>4, RetHeld DEF Found
    <3> HIDE DEF c
    <3>3. SameRest(s, c)
      BY <2>2, <3>2, RestSame
    <3>4. Found(c, d, r, o)
      BY <3>2, <3>3, StaysFit, DeviceFound
    <3> HIDE DEF d
    <3>5. CASE Failed(d)
      <4>1. t = d
        BY <3>1, <3>5 DEF vfs_create
      <4>2. OpenFailed(s, t, r, o)
        BY <3>3, <3>4, <3>5, <4>1, RestSame DEF Found, Failed, OpenFailed
      <4> QED
        BY <2>4, <4>2 DEF Opened, t, std, Plain
    <3>6. CASE ~Failed(d)
      <4> DEFINE m == d.out
      <4>1. t = vop(d, m, "create")
        BY <3>1, <3>6 DEF vfs_create
      <4>2. m \in Nodes /\ Held(d, Plus(r, m), o)
        BY <3>4, <3>6 DEF Found, Failed
      <4>3. Plus(r, m)[m] > 0 /\ "create" \notin Ops(m)
        BY <1>1, <4>2, FitPlus, OpenOps
      <4>4. Stuck(t) /\ t.ret = "panic"
        BY <4>1, <4>2, <4>3, VopStuck
      <4> QED
        BY <2>4, <4>4 DEF Opened, t, std, Plain
    <3> QED
      BY <3>5, <3>6
  <2>5. CASE ~(l.ret = "E_NOENT" /\ fl.creat) /\ Failed(l)
    <3>1. t = l
      BY <2>1, <2>5 DEF open_found
    <3>2. OpenFailed(s, t, r, o)
      BY <2>2, <2>5, <3>1 DEF Found, OpenFailed, Failed
    <3>3. ~std
      BY <2>3, <2>5 DEF Failed
    <3> QED
      BY <3>2, <3>3 DEF Opened, t, std
  <2>6. CASE ~Failed(l) /\ fl.excl /\ fl.creat
    <3> DEFINE e == [l EXCEPT !.lost[n] = @ + 1]
    <3>1. t = Ret(e, "E_EXISTS")
      BY <2>1, <2>6 DEF open_found, Failed
    <3>2. n \in Nodes /\ Held(l, Plus(r, n), o)
      BY <2>2, <2>6 DEF Found, Failed
    <3>3. IsKernel(l)
      BY <3>2, HeldFits
    <3>4. e = [l EXCEPT !.lost = [l.lost EXCEPT ![n] = @ + 1]]
      BY <3>3 DEF IsKernel
    <3>5. /\ IsKernel(e) /\ e.node = l.node /\ e.stale = l.stale /\ e.panic = l.panic
          /\ e.lost = [l.lost EXCEPT ![n] = @ + 1]
          /\ e.files = l.files /\ e.boot = l.boot /\ e.vdev = l.vdev
      BY <3>3, <3>4 DEF IsKernel
    <3> HIDE DEF e, n
    <3>6. Held(e, Plus(r, n), o)
      BY <3>2, <3>5 DEF Held
    <3>7. Held(t, Plus(r, n), o) /\ SameRest(e, t) /\ t.ret = "E_EXISTS"
      BY <3>1, <3>6, RetHeld
    <3>8. OpenLost(s, t, r, o)
      BY <2>2, <3>2, <3>5, <3>7 DEF OpenLost, SameRest
    <3> QED
      BY <2>6, <3>8 DEF Opened, t, std, Plain
  <2>7. CASE ~Failed(l) /\ ~(fl.excl /\ fl.creat)
    <3> DEFINE v == vop_open(l, n, fl)
    <3>1. t = vfs_opened(v, n, fl)
      BY <2>1, <2>7 DEF open_found, Failed
    <3>2. n \in Nodes /\ Held(l, Plus(r, n), o)
      BY <2>2, <2>7 DEF Found, Failed
    <3>3. Plus(r, n)[n] > 0
      BY <1>1, <3>2, FitPlus
    <3> HIDE DEF n
    <3>4. Held(v, Plus(r, n), o) /\ SameRest(l, v)
      BY <3>2, <3>3, VopOpenHeld
    <3>5. std => v.ret = "0"
      <4> SUFFICES ASSUME std PROVE v.ret = "0"
        OBVIOUS
      <4>1. /\ n \in Devices /\ Plain(fl)
            /\ ((n = "stdin" /\ fl.acc = "r") \/ (n = "stdout" /\ fl.acc = "w"))
        BY <2>3 DEF std, Devices
      <4> QED
        BY <3>2, <3>3, <4>1, VopOpenHeld
    <3> HIDE DEF v
    <3>6. /\ Opened(v, t, r, o)
          /\ ~(fl.trunc \/ fl.creat) => OpenFailed(v, t, r, o) \/ OpenDone(v, t, r, o)
          /\ ~(fl.trunc \/ fl.creat) /\ v.ret = "0" => t.ret = "0" /\ t.out = n
      BY <1>1, <3>1, <3>2, <3>4, SecondHalf
    <3>7. SameRest(s, v)
      BY <2>2, <3>4, RestSame
    <3>8. /\ Opened(s, t, r, o)
          /\ ~(fl.trunc \/ fl.creat) => OpenFailed(s, t, r, o) \/ OpenDone(s, t, r, o)
      BY <3>6, <3>7, OpenedFrom
    <3>9. std => t.ret = "0" /\ t.out = path.at
      BY <2>3, <3>5, <3>6 DEF std, Plain, n
    <3> QED
      BY <3>8, <3>9 DEF t, std
  <2> QED
    BY <2>4, <2>5, <2>6, <2>7
<1> QED
  BY <1>2, <1>3

-----------------------------------------------------------------------------
(* Descriptor tables.                                                      *)

Fd == [status : {"FD_NONE", "FD_INIT", "FD_OPENED", "FD_CLOSED"}, readable : BOOLEAN,
       writable : BOOLEAN, open_count : Nat, node : Nodes \cup {None}]

Tables == [Procs -> [pwd : {None, Root}, fd : [Fds -> Fd]]]

(* Between calls a descriptor is free, or open once.                       *)
OpenFd(f) ==
    f \in Fd /\ f.status = "FD_OPENED" /\ f.open_count = 1 /\ f.node \in Nodes

Clean(F) ==
    /\ F \in Tables
    /\ \A p \in Procs, i \in Fds : F[p].fd[i] = FreeFd \/ OpenFd(F[p].fd[i])

(* The opens, and the references, that tables F hold when the current      *)
(* directories that count are W, the boot file system is b and the lost    *)
(* references are L.                                                       *)
OpenSet(F, n) ==
    {x \in Procs \X Fds : F[x[1]].fd[x[2]].status = "FD_OPENED" /\ F[x[1]].fd[x[2]].node = n}

OpenOf(F) == [n \in Nodes |-> Cardinality(OpenSet(F, n))]

PwdOf(W) == [n \in Nodes |-> Cardinality({p \in Procs : W[p] = n})]

RefSum(a, w, b, L) ==
    [n \in Nodes |-> a[n] + w[n] + (IF b = n THEN 1 ELSE 0)
                     + (IF n \in Devices THEN 1 ELSE 0) + L[n]]

RefOf(F, W, b, L) == RefSum(OpenOf(F), PwdOf(W), b, L)

SetFd(F, p, i, f) == [F EXCEPT ![p].fd[i] = f]

LEMMA FdsFinite ==
    /\ NENTRY \in Nat /\ Fds = 0 .. NENTRY - 1 /\ Fds \subseteq Nat
    /\ IsFiniteSet(Procs) /\ IsFiniteSet(Procs \X Fds)
<1>1. NENTRY \in Nat /\ Fds = 0 .. NENTRY - 1 /\ Fds \subseteq Nat /\ IsFiniteSet(Procs)
  BY FilesAssumption DEF Fds
<1>2. IsFiniteSet(Fds)
  BY <1>1, FS_Interval
<1> QED
  BY <1>1, <1>2, FS_Product

LEMMA FreeFdType ==
    /\ FreeFd \in Fd /\ FreeFd.status = "FD_NONE" /\ FreeFd.open_count = 0
    /\ FreeFd.node = None
  BY DEF FreeFd, Fd

LEMMA SetFdValue ==
    ASSUME NEW F \in Tables, NEW p \in Procs, NEW i \in Fds, NEW f \in Fd
    PROVE  /\ SetFd(F, p, i, f) \in Tables
           /\ \A q \in Procs : SetFd(F, p, i, f)[q].pwd = F[q].pwd
           /\ \A q \in Procs, j \in Fds :
                 SetFd(F, p, i, f)[q].fd[j] = IF q = p /\ j = i THEN f ELSE F[q].fd[j]
           /\ \A q \in Procs : q # p => SetFd(F, p, i, f)[q] = F[q]
<1> DEFINE G == SetFd(F, p, i, f)
           E == [F[p] EXCEPT !.fd = [F[p].fd EXCEPT ![i] = f]]
<1>1. F \in [Procs -> [pwd : {None, Root}, fd : [Fds -> Fd]]]
  BY DEF Tables
<1> HIDE DEF Tables
<1>2. F[p] \in [pwd : {None, Root}, fd : [Fds -> Fd]]
  BY <1>1
<1>3. G = [F EXCEPT ![p] = E]
  BY <1>1, <1>2 DEF SetFd
<1>4. /\ E \in [pwd : {None, Root}, fd : [Fds -> Fd]] /\ E.pwd = F[p].pwd
      /\ \A j \in Fds : E.fd[j] = IF j = i THEN f ELSE F[p].fd[j]
  BY <1>2
<1> HIDE DEF E
<1>5. /\ G \in [Procs -> [pwd : {None, Root}, fd : [Fds -> Fd]]]
      /\ \A q \in Procs : G[q] = IF q = p THEN E ELSE F[q]
  BY <1>1, <1>3, <1>4
<1> HIDE DEF G
<1>6. G \in Tables
  BY <1>5 DEF Tables
<1> QED
  BY <1>4, <1>5, <1>6 DEF G

(* Two tables with the same descriptors and current directories.           *)
LEMMA TablesEqual ==
    ASSUME NEW F \in Tables, NEW G \in Tables,
           \A q \in Procs : G[q].pwd = F[q].pwd,
           \A q \in Procs, j \in Fds : G[q].fd[j] = F[q].fd[j]
    PROVE  F = G
<1> DEFINE T == [pwd : {None, Root}, fd : [Fds -> Fd]]
<1>1. F \in [Procs -> T] /\ G \in [Procs -> T]
  BY DEF Tables
<1>2. ASSUME NEW q \in Procs PROVE F[q] = G[q]
  <2>1. F[q] \in T /\ G[q] \in T
    BY <1>1
  <2>2. F[q].fd = G[q].fd
    <3>1. F[q].fd \in [Fds -> Fd] /\ G[q].fd \in [Fds -> Fd]
      BY <2>1
    <3> QED
      BY <3>1
  <2> QED
    BY <2>1, <2>2
<1> HIDE DEF T
<1> QED
  BY <1>1, <1>2

LEMMA SetFdTwice ==
    ASSUME NEW F \in Tables, NEW p \in Procs, NEW i \in Fds, NEW f \in Fd, NEW g \in Fd
    PROVE  /\ SetFd(SetFd(F, p, i, f), p, i, g) = SetFd(F, p, i, g)
           /\ SetFd(F, p, i, F[p].fd[i]) = F
<1> DEFINE G == SetFd(F, p, i, f)
           H == SetFd(F, p, i, g)
<1>1. /\ G \in Tables
      /\ \A q \in Procs : G[q].pwd = F[q].pwd
      /\ \A q \in Procs, j \in Fds : G[q].fd[j] = IF q = p /\ j = i THEN f ELSE F[q].fd[j]
  BY SetFdValue
<1>2. /\ H \in Tables
      /\ \A q \in Procs : H[q].pwd = F[q].pwd
      /\ \A q \in Procs, j \in Fds : H[q].fd[j] = IF q = p /\ j = i THEN g ELSE F[q].fd[j]
  BY SetFdValue
<1> HIDE DEF G, H
<1> DEFINE K == SetFd(G, p, i, g)
<1>3. /\ K \in Tables
      /\ \A q \in Procs : K[q].pwd = G[q].pwd
      /\ \A q \in Procs, j \in Fds : K[q].fd[j] = IF q = p /\ j = i THEN g ELSE G[q].fd[j]
  BY <1>1, SetFdValue
<1> HIDE DEF K
<1>4. K = H
  <2>1. \A q \in Procs : K[q].pwd = H[q].pwd
    BY <1>1, <1>2, <1>3
  <2>2. \A q \in Procs, j \in Fds : K[q].fd[j] = H[q].fd[j]
    BY <1>1, <1>2, <1>3
  <2> QED
    BY <1>2, <1>3, <2>1, <2>2, TablesEqual
<1>5. F[p].fd[i] \in Fd
  BY DEF Tables
<1> DEFINE M == SetFd(F, p, i, F[p].fd[i])
<1>6. /\ M \in Tables
      /\ \A q \in Procs : M[q].pwd = F[q].pwd
      /\ \A q \in Procs, j \in Fds :
            M[q].fd[j] = IF q = p /\ j = i THEN F[p].fd[i] ELSE F[q].fd[j]
  BY <1>5, SetFdValue
<1> HIDE DEF M
<1>7. M = F
  <2>1. \A q \in Procs, j \in Fds : M[q].fd[j] = F[q].fd[j]
    BY <1>6
  <2> QED
    BY <1>6, <2>1, TablesEqual
<1> QED
  BY <1>4, <1>7 DEF G, H, K, M

(* Counting.                                                               *)
LEMMA OpenOfType ==
    ASSUME NEW F, NEW n \in Nodes
    PROVE  /\ IsFiniteSet(OpenSet(F, n))
           /\ OpenOf(F) \in Demand
           /\ OpenOf(F)[n] = Cardinality(OpenSet(F, n))
<1>1. ASSUME NEW m
      PROVE  IsFiniteSet(OpenSet(F, m)) /\ Cardinality(OpenSet(F, m)) \in Nat
  <2>1. OpenSet(F, m) \subseteq Procs \X Fds
    BY DEF OpenSet
  <2>2. IsFiniteSet(OpenSet(F, m))
    BY <2>1, FdsFinite, FS_Subset
  <2> QED
    BY <2>2, FS_CardinalityType
<1> QED
  BY <1>1 DEF OpenOf, Demand

LEMMA Pairs ==
    ASSUME NEW p \in Procs, NEW i \in Fds
    PROVE  /\ <<p, i>> \in Procs \X Fds
           /\ \A x \in Procs \X Fds :
                 /\ x[1] \in Procs /\ x[2] \in Fds
                 /\ x = <<p, i>> <=> x[1] = p /\ x[2] = i
  OBVIOUS

(* The open descriptors when one of them changes.                          *)
LEMMA OpenSetChange ==
    ASSUME NEW F \in Tables, NEW p \in Procs, NEW i \in Fds, NEW f \in Fd, NEW n
    PROVE  LET here == f.status = "FD_OPENED" /\ f.node = n
               S == OpenSet(F, n)
           IN  OpenSet(SetFd(F, p, i, f), n)
                 = IF here THEN S \cup {<<p, i>>} ELSE S \ {<<p, i>>}
<1> DEFINE G == SetFd(F, p, i, f)
           here == f.status = "FD_OPENED" /\ f.node = n
           On(H, x) == H[x[1]].fd[x[2]].status = "FD_OPENED" /\ H[x[1]].fd[x[2]].node = n
<1>1. /\ G \in Tables
      /\ \A q \in Procs, j \in Fds : G[q].fd[j] = IF q = p /\ j = i THEN f ELSE F[q].fd[j]
  BY SetFdValue
<1> HIDE DEF G
<1>2. ASSUME NEW x \in Procs \X Fds
      PROVE  On(G, x) <=> IF x = <<p, i>> THEN here ELSE On(F, x)
  <2>1. x[1] \in Procs /\ x[2] \in Fds /\ (x = <<p, i>> <=> x[1] = p /\ x[2] = i)
    BY Pairs
  <2>2. G[x[1]].fd[x[2]] = IF x = <<p, i>> THEN f ELSE F[x[1]].fd[x[2]]
    BY <1>1, <2>1
  <2> QED
    BY <2>2
<1>3. <<p, i>> \in Procs \X Fds
  BY Pairs
<1>4. OpenSet(F, n) = {x \in Procs \X Fds : On(F, x)}
  BY DEF OpenSet
<1>5. OpenSet(G, n) = {x \in Procs \X Fds : On(G, x)}
  BY DEF OpenSet
<1> HIDE DEF On, here
<1>6. OpenSet(G, n) = IF here THEN OpenSet(F, n) \cup {<<p, i>>} ELSE OpenSet(F, n) \ {<<p, i>>}
  BY <1>2, <1>3, <1>4, <1>5
<1> QED
  BY <1>6 DEF G, here

LEMMA OpenSetHas ==
    ASSUME NEW F \in Tables, NEW n \in Nodes, NEW p \in Procs, NEW i \in Fds
    PROVE  <<p, i>> \in OpenSet(F, n)
             <=> F[p].fd[i].status = "FD_OPENED" /\ F[p].fd[i].node = n
<1> DEFINE y == <<p, i>>
<1>1. y \in Procs \X Fds /\ y[1] = p /\ y[2] = i
  OBVIOUS
<1> HIDE DEF y
<1>2. y \in OpenSet(F, n)
        <=> F[y[1]].fd[y[2]].status = "FD_OPENED" /\ F[y[1]].fd[y[2]].node = n
  BY <1>1 DEF OpenSet
<1> QED
  BY <1>1, <1>2 DEF y

LEMMA DemandEqual ==
    ASSUME NEW a \in Demand, NEW b \in Demand, \A n \in Nodes : a[n] = b[n]
    PROVE  a = b
  BY DEF Demand

(* A descriptor is opened.                                                 *)
LEMMA FdOpened ==
    ASSUME NEW F \in Tables, NEW p \in Procs, NEW i \in Fds, NEW f \in Fd,
           F[p].fd[i].status # "FD_OPENED", f.status = "FD_OPENED", f.node \in Nodes
    PROVE  OpenOf(SetFd(F, p, i, f)) = Plus(OpenOf(F), f.node)
<1> DEFINE G == SetFd(F, p, i, f)
<1>1. /\ G \in Tables
      /\ \A q \in Procs, j \in Fds : G[q].fd[j] = IF q = p /\ j = i THEN f ELSE F[q].fd[j]
  BY SetFdValue
<1> HIDE DEF G
<1>2. ASSUME NEW n \in Nodes
      PROVE  OpenOf(G)[n] = IF n = f.node THEN OpenOf(F)[n] + 1 ELSE OpenOf(F)[n]
  <2> DEFINE S == OpenSet(F, n)
             T == OpenSet(G, n)
  <2>1. IsFiniteSet(S) /\ OpenOf(F)[n] = Cardinality(S) /\ OpenOf(G)[n] = Cardinality(T)
    BY OpenOfType
  <2>2. <<p, i>> \notin S
    BY OpenSetHas
  <2>3. T = IF n = f.node THEN S \cup {<<p, i>>} ELSE S \ {<<p, i>>}
    BY OpenSetChange DEF G
  <2> DEFINE y == <<p, i>>
  <2> HIDE DEF S, T, y
  <2>4. CASE n = f.node
    <3>1. Cardinality(S \cup {y}) = Cardinality(S) + 1
      BY <2>1, <2>2, FS_AddElement DEF y
    <3> QED
      BY <2>1, <2>3, <2>4, <3>1 DEF y
  <2>5. CASE n # f.node
    <3>1. S \ {y} = S
      BY <2>2 DEF y
    <3> QED
      BY <2>1, <2>3, <2>5, <3>1 DEF y
  <2> QED
    BY <2>4, <2>5
<1>3. OpenOf(F) \in Demand /\ OpenOf(G) \in Demand
  BY OpenOfType
<1> DEFINE a == OpenOf(F)
           b == OpenOf(G)
<1> HIDE DEF a, b
<1>4. Plus(a, f.node) \in Demand /\ \A n \in Nodes : Plus(a, f.node)[n] = b[n]
  BY <1>2, <1>3, PlusValue DEF a, b
<1> QED
  BY <1>3, <1>4, DemandEqual DEF a, b, G

(* A descriptor is closed.                                                 *)
LEMMA FdClosed ==
    ASSUME NEW F \in Tables, NEW p \in Procs, NEW i \in Fds, NEW f \in Fd,
           F[p].fd[i].status = "FD_OPENED", F[p].fd[i].node \in Nodes,
           f.status # "FD_OPENED"
    PROVE  LET n == F[p].fd[i].node
           IN  /\ OpenOf(F) = Plus(OpenOf(SetFd(F, p, i, f)), n)
               /\ OpenOf(SetFd(F, p, i, f)) = Minus(OpenOf(F), n)
               /\ OpenOf(F)[n] > 0
<1> DEFINE G == SetFd(F, p, i, f)
           g == F[p].fd[i]
           n == g.node
<1>1. g \in Fd
  BY DEF Tables
<1>2. G \in Tables /\ G[p].fd[i] = f
  BY SetFdValue
<1>3. SetFd(G, p, i, g) = F
  BY <1>1, SetFdTwice
<1> HIDE DEF G, g
<1>4. OpenOf(F) = Plus(OpenOf(G), n)
  BY <1>1, <1>2, <1>3, FdOpened DEF g
<1>5. n \in Nodes
  BY DEF g
<1>6. OpenOf(G) \in Demand
  BY <1>5, OpenOfType
<1> DEFINE b == OpenOf(G)
<1> HIDE DEF b
<1>7. Plus(b, n)[n] = b[n] + 1 /\ Minus(Plus(b, n), n) = b /\ b[n] \in Nat
  BY <1>5, <1>6, PlusValue DEF b, Demand
<1> QED
  BY <1>4, <1>7 DEF b, G, g

(* A descriptor that is not open stays so.                                 *)
LEMMA FdKept ==
    ASSUME NEW F \in Tables, NEW p \in Procs, NEW i \in Fds, NEW f \in Fd,
           \/ F[p].fd[i].status # "FD_OPENED" /\ f.status # "FD_OPENED"
           \/ F[p].fd[i].status = f.status /\ F[p].fd[i].node = f.node
    PROVE  OpenOf(SetFd(F, p, i, f)) = OpenOf(F)
<1> DEFINE G == SetFd(F, p, i, f)
<1>1. /\ G \in Tables
      /\ \A q \in Procs, j \in Fds : G[q].fd[j] = IF q = p /\ j = i THEN f ELSE F[q].fd[j]
  BY SetFdValue
<1> HIDE DEF G
<1>2. ASSUME NEW n \in Nodes
      PROVE  OpenSet(G, n) = OpenSet(F, n)
  <2> DEFINE S == OpenSet(F, n)
             y == <<p, i>>
             here == f.status = "FD_OPENED" /\ f.node = n
  <2>1. OpenSet(G, n) = IF here THEN S \cup {y} ELSE S \ {y}
    BY OpenSetChange DEF G
  <2>2. y \in S <=> here
    BY OpenSetHas
  <2> HIDE DEF S, y, here
  <2> QED
    BY <2>1, <2>2 DEF S
<1> QED
  BY <1>2 DEF OpenOf, G

(* Current directories.                                                    *)
Pwds == [Procs -> {None, Root}]

LEMMA PwdOfType ==
    ASSUME NEW W, NEW n \in Nodes
    PROVE  /\ IsFiniteSet({p \in Procs : W[p] = n})
           /\ PwdOf(W) \in Demand
           /\ PwdOf(W)[n] = Cardinality({p \in Procs : W[p] = n})
<1>1. ASSUME NEW m
      PROVE  IsFiniteSet({p \in Procs : W[p] = m}) /\ Cardinality({p \in Procs : W[p] = m}) \in Nat
  <2>1. IsFiniteSet({p \in Procs : W[p] = m})
    BY FdsFinite, FS_Subset
  <2> QED
    BY <2>1, FS_CardinalityType
<1> QED
  BY <1>1 DEF PwdOf, Demand

(* A process enters the root directory.                                    *)
LEMMA PwdSet ==
    ASSUME NEW W \in Pwds, NEW p \in Procs, W[p] = None
    PROVE  /\ [W EXCEPT ![p] = Root] \in Pwds
           /\ PwdOf([W EXCEPT ![p] = Root]) = Plus(PwdOf(W), Root)
<1> DEFINE V == [W EXCEPT ![p] = Root]
<1>1. V \in Pwds /\ \A q \in Procs : V[q] = IF q = p THEN Root ELSE W[q]
  BY DEF Pwds
<1> HIDE DEF V
<1>2. ASSUME NEW n \in Nodes
      PROVE  PwdOf(V)[n] = IF n = Root THEN PwdOf(W)[n] + 1 ELSE PwdOf(W)[n]
  <2> DEFINE S == {q \in Procs : W[q] = n}
             T == {q \in Procs : V[q] = n}
  <2>1. IsFiniteSet(S) /\ PwdOf(W)[n] = Cardinality(S) /\ PwdOf(V)[n] = Cardinality(T)
    BY PwdOfType
  <2>2. CASE n = Root
    <3>1. T = S \cup {p} /\ p \notin S
      BY <1>1, <2>2, NodesApart
    <3> QED
      BY <2>1, <2>2, <3>1, FS_AddElement
  <2>3. CASE n # Root
    <3>1. T = S
      BY <1>1, <2>3, NodesApart
    <3> QED
      BY <2>1, <2>3, <3>1
  <2> QED
    BY <2>2, <2>3
<1>3. PwdOf(W) \in Demand /\ PwdOf(V) \in Demand
  BY PwdOfType, NodesApart
<1> DEFINE a == PwdOf(W)
           b == PwdOf(V)
<1> HIDE DEF a, b
<1>4. Plus(a, Root) \in Demand /\ \A n \in Nodes : Plus(a, Root)[n] = b[n]
  BY <1>2, <1>3, PlusValue, NodesApart DEF a, b
<1> QED
  BY <1>1, <1>3, <1>4, DemandEqual DEF a, b, V

LEMMA RefSumValue ==
    ASSUME NEW a \in Demand, NEW w \in Demand, NEW b, NEW L \in Demand
    PROVE  /\ RefSum(a, w, b, L) \in Demand
           /\ \A n \in Nodes : RefSum(a, w, b, L)[n] >= a[n] + w[n]
           /\ \A n \in Nodes : b = n => RefSum(a, w, b, L)[n] > 0
           /\ \A n \in Nodes : n \in Devices => RefSum(a, w, b, L)[n] > a[n]
  BY DEF RefSum, Demand

LEMMA RefSumOpen ==
    ASSUME NEW a \in Demand, NEW w \in Demand, NEW b, NEW L \in Demand, NEW n \in Nodes
    PROVE  RefSum(Plus(a, n), w, b, L) = Plus(RefSum(a, w, b, L), n)
  BY DEF RefSum, Plus, Demand

LEMMA RefSumPwd ==
    ASSUME NEW a \in Demand, NEW w \in Demand, NEW b, NEW L \in Demand, NEW n \in Nodes
    PROVE  RefSum(a, Plus(w, n), b, L) = Plus(RefSum(a, w, b, L), n)
  BY DEF RefSum, Plus, Demand

LEMMA RefSumLost ==
    ASSUME NEW a \in Demand, NEW w \in Demand, NEW b, NEW L \in Demand, NEW n \in Nodes
    PROVE  RefSum(a, w, b, [L EXCEPT ![n] = @ + 1]) = Plus(RefSum(a, w, b, L), n)
  BY DEF RefSum, Plus, Demand

LEMMA RefSumBoot ==
    ASSUME NEW a \in Demand, NEW w \in Demand, NEW L \in Demand, NEW n \in Nodes
    PROVE  RefSum(a, w, n, L) = Plus(RefSum(a, w, None, L), n)
  BY NodesApart DEF RefSum, Plus, Demand

-----------------------------------------------------------------------------
(* Operators on descriptors.                                               *)

(* The counts are those of the tables, where the current directories W     *)
(* count (files_destroy drops a current directory before the table).       *)
Good(s, W) ==
    /\ W \in Pwds
    /\ Clean(s.files)
    /\ s.boot \in {None, Root}
    /\ s.vdev = DeviceList
    /\ s.lost \in Demand
    /\ Held(s, RefOf(s.files, W, s.boot, s.lost), OpenOf(s.files))

(* What remains of a call on descriptors besides the tables.               *)
SameBut(s, t) == t.lost = s.lost /\ t.boot = s.boot /\ t.vdev = s.vdev

LEMMA GoodFacts ==
    ASSUME NEW s, NEW W, Good(s, W)
    PROVE  /\ IsKernel(s) /\ s.panic = None /\ s.files \in Tables /\ Clean(s.files)
           /\ Places(s)
           /\ \A p \in Procs : W[p] = s.files[p].pwd
                               => Starts(s, p, RefOf(s.files, W, s.boot, s.lost))
<1> DEFINE a == OpenOf(s.files)
           w == PwdOf(W)
           R == RefSum(a, w, s.boot, s.lost)
<1>1. IsKernel(s) /\ s.panic = None /\ s.files \in Tables /\ Clean(s.files)
  BY HeldFits DEF Good, Clean
<1>2. Places(s)
  BY <1>1 DEF Good, Places, Tables
<1>3. a \in Demand /\ w \in Demand /\ s.lost \in Demand
  BY OpenOfType, PwdOfType, NodesApart DEF Good
<1>4. ASSUME NEW p \in Procs, W[p] = s.files[p].pwd
      PROVE  Starts(s, p, R)
  <2>1. s.boot = Root => R[Root] > 0
    BY <1>3, RefSumValue, NodesApart
  <2>2. ASSUME W[p] = Root PROVE R[Root] > 0
    <3> DEFINE S == {q \in Procs : W[q] = Root}
    <3>1. IsFiniteSet(S) /\ w[Root] = Cardinality(S)
      BY PwdOfType, NodesApart
    <3>2. S # {}
      BY <2>2
    <3> HIDE DEF S
    <3>3. Cardinality(S) \in Nat /\ Cardinality(S) # 0
      BY <3>1, <3>2, FS_CardinalityType, FS_EmptySet
    <3> HIDE DEF a, w, R
    <3>4. R[Root] >= a[Root] + w[Root] /\ a[Root] \in Nat /\ R[Root] \in Nat
      BY <1>3, RefSumValue, NodesApart DEF R, Demand
    <3> QED
      BY <3>1, <3>3, <3>4
  <2> QED
    BY <1>4, <2>1, <2>2 DEF Starts
<1> QED
  BY <1>1, <1>2, <1>4 DEF RefOf

(* A record that differs in the tables.                                    *)
LEMMA FilesHeld ==
    ASSUME NEW s, NEW r, NEW o, NEW G, Held(s, r, o)
    PROVE  LET t == [s EXCEPT !.files = G]
           IN  /\ Held(t, r, o) /\ t.files = G /\ SameBut(s, t) /\ SameResult(s, t)
               /\ IsKernel(t)
<1> DEFINE t == [s EXCEPT !.files = G]
<1>1. IsKernel(s)
  BY HeldFits
<1>2. /\ IsKernel(t) /\ t.node = s.node /\ t.stale = s.stale /\ t.panic = s.panic
      /\ t.files = G /\ SameBut(s, t) /\ SameResult(s, t)
  BY <1>1 DEF IsKernel, SameBut, SameResult
<1> HIDE DEF t
<1>3. Held(t, r, o)
  BY <1>2 DEF Held
<1> QED
  BY <1>2, <1>3 DEF t

LEMMA SetFileHeld ==
    ASSUME NEW s, NEW r, NEW o, NEW p, NEW i, NEW f, Held(s, r, o)
    PROVE  LET t == SetFile(s, p, i, f)
           IN  /\ Held(t, r, o) /\ t.files = SetFd(s.files, p, i, f) /\ SameBut(s, t)
               /\ SameResult(s, t) /\ IsKernel(t)
<1>1. IsKernel(s)
  BY HeldFits
<1>2. SetFile(s, p, i, f) = [s EXCEPT !.files = SetFd(s.files, p, i, f)]
  BY <1>1 DEF SetFile, SetFd, IsKernel
<1> QED
  BY <1>2, FilesHeld

LEMMA FdEqual ==
    ASSUME NEW f \in Fd, NEW g \in Fd, f.status = g.status, f.readable = g.readable,
           f.writable = g.writable, f.open_count = g.open_count, f.node = g.node
    PROVE  f = g
  BY DEF Fd

LEMMA FdStatus ==
    ASSUME NEW f \in Fd, NEW st \in {"FD_NONE", "FD_INIT", "FD_OPENED", "FD_CLOSED"}
    PROVE  LET g == [f EXCEPT !.status = st]
           IN  /\ g \in Fd /\ g.status = st /\ g.readable = f.readable
               /\ g.writable = f.writable /\ g.open_count = f.open_count /\ g.node = f.node
  BY DEF Fd

InitFd == [FreeFd EXCEPT !.status = "FD_INIT"]

LEMMA InitFdType ==
    /\ InitFd \in Fd /\ InitFd.status = "FD_INIT" /\ InitFd.open_count = 0
    /\ InitFd.node = None
    /\ InitFd.readable = FreeFd.readable /\ InitFd.writable = FreeFd.writable
  BY FreeFdType, FdStatus DEF InitFd

LEMMA CleanFree ==
    ASSUME NEW F, Clean(F), NEW p \in Procs, NEW i \in Fds
    PROVE  /\ F[p].fd[i].status = "FD_NONE" <=> F[p].fd[i] = FreeFd
           /\ F[p].fd[i].status = "FD_OPENED" <=> OpenFd(F[p].fd[i])
           /\ F[p].fd[i] = FreeFd \/ OpenFd(F[p].fd[i])
           /\ F \in Tables
  BY FreeFdType DEF Clean, OpenFd

(* fd_array_alloc.                                                         *)
LEMMA AllocFd ==
    ASSUME NEW s, NEW r, NEW o, NEW p \in Procs, NEW want, Held(s, r, o), Clean(s.files)
    PROVE  LET a == fd_array_alloc(s, p, want)
           IN  /\ Held(a, r, o) /\ SameBut(s, a)
               /\ \/ a.ret # "0" /\ a.files = s.files
                  \/ /\ a.ret = "0" /\ a.out \in Fds /\ s.files[p].fd[a.out] = FreeFd
                     /\ a.files = SetFd(s.files, p, a.out, InitFd)
               /\ want = NO_FD /\ (\E j \in Fds : s.files[p].fd[j] = FreeFd) =>
                     /\ a.ret = "0"
                     /\ \A j \in Fds : s.files[p].fd[j] = FreeFd => a.out <= j
               /\ want \in Fds =>
                     a.ret = (IF s.files[p].fd[want] = FreeFd THEN "0" ELSE "E_BUSY")
               /\ want # NO_FD /\ a.ret = "0" => a.out = want
<1> DEFINE a == fd_array_alloc(s, p, want)
           FF == FreeFds(s, p)
           i == IF want # NO_FD THEN want ELSE CHOOSE x \in FF : \A y \in FF : x <= y
           f == [File(s, p, i) EXCEPT !.status = "FD_INIT", !.node = None]
           t == SetFile(s, p, i, f)
<1>1. FF = {j \in Fds : s.files[p].fd[j] = FreeFd} /\ FF \subseteq Nat
  BY CleanFree, FdsFinite DEF FreeFds, File
<1>2. a = IF want = NO_FD /\ FF = {} THEN Ret(s, "E_MAX_OPEN")
          ELSE IF i \notin Fds THEN Ret(s, "E_INVAL")
          ELSE IF i \notin FF THEN Ret(s, "E_BUSY")
          ELSE Store(Asserted(t, File(s, p, i).open_count = 0), i)
  BY DEF fd_array_alloc
<1>3. NO_FD \notin Fds
  BY FdsFinite DEF NO_FD
<1>4. ASSUME want = NO_FD, FF # {} PROVE i \in FF /\ \A y \in FF : i <= y
  <2>1. \E x \in FF : \A y \in FF : x <= y
    BY <1>1, <1>4, Least
  <2> HIDE DEF FF
  <2> QED
    BY <1>4, <2>1
<1> HIDE DEF FF, a
<1>5. CASE i \in FF
  <2>1. i \in Fds /\ s.files[p].fd[i] = FreeFd /\ s.files \in Tables
    BY <1>1, <1>5, CleanFree
  <2>3. a = Store(t, i)
    BY <1>2, <1>5, <2>1, FreeFdType DEF Asserted, File
  <2> HIDE DEF i
  <2>4. f = InitFd
    <3> DEFINE g == File(s, p, i)
    <3>1. g = FreeFd /\ g \in Fd
      BY <2>1, FreeFdType DEF File
    <3> HIDE DEF g
    <3>2. /\ f \in Fd /\ f.status = "FD_INIT" /\ f.open_count = g.open_count
          /\ f.node = None /\ f.readable = g.readable /\ f.writable = g.writable
      BY <3>1 DEF Fd, g
    <3> HIDE DEF f
    <3> QED
      BY <3>1, <3>2, FreeFdType, InitFdType, FdEqual
  <2> HIDE DEF f
  <2>5. Held(t, r, o) /\ t.files = SetFd(s.files, p, i, InitFd) /\ SameBut(s, t)
    BY <2>4, SetFileHeld
  <2> HIDE DEF t
  <2>6. Held(a, r, o) /\ SameRest(t, a) /\ a.ret = "0" /\ a.out = i
    BY <2>3, <2>5, StoreHeld
  <2>7. SameBut(s, a) /\ a.files = SetFd(s.files, p, i, InitFd)
    BY <2>5, <2>6 DEF SameBut, SameRest
  <2>8. want = NO_FD => \A j \in Fds : s.files[p].fd[j] = FreeFd => a.out <= j
    BY <1>1, <1>4, <1>5, <2>6 DEF i
  <2>9. want # NO_FD => i = want
    BY DEF i
  <2> QED
    BY <1>3, <2>1, <2>6, <2>7, <2>8, <2>9 DEF a
<1>6. CASE i \notin FF
  <2> DEFINE e == IF want = NO_FD THEN "E_MAX_OPEN" ELSE IF i \notin Fds THEN "E_INVAL" ELSE "E_BUSY"
  <2>1. want = NO_FD => FF = {}
    BY <1>4, <1>6
  <2>2. a = Ret(s, e)
    BY <1>2, <1>6, <2>1
  <2>3. want = NO_FD => ~\E j \in Fds : s.files[p].fd[j] = FreeFd
    BY <1>1, <2>1
  <2>4. want \in Fds => e = "E_BUSY" /\ s.files[p].fd[want] # FreeFd
    BY <1>1, <1>3, <1>6
  <2>5. e # "0"
    OBVIOUS
  <2> HIDE DEF e
  <2>6. Held(a, r, o) /\ SameRest(s, a) /\ a.ret = e
    BY <2>2, RetHeld
  <2> QED
    BY <2>3, <2>4, <2>5, <2>6 DEF SameRest, SameBut, a
<1> QED
  BY <1>5, <1>6

LEMMA CleanSet ==
    ASSUME NEW F, NEW p \in Procs, NEW i \in Fds, NEW f, Clean(F), f = FreeFd \/ OpenFd(f)
    PROVE  Clean(SetFd(F, p, i, f))
<1>1. F \in Tables /\ f \in Fd
  BY FreeFdType DEF Clean, OpenFd
<1> QED
  BY <1>1, SetFdValue DEF Clean

(* A call that changes no table.                                           *)
LEMMA GoodSame ==
    ASSUME NEW s, NEW W, NEW t, Good(s, W), t.files = s.files, SameBut(s, t),
           Held(t, RefOf(s.files, W, s.boot, s.lost), OpenOf(s.files))
    PROVE  Good(t, W)
  BY DEF Good, SameBut

LEMMA GoodOpened ==
    ASSUME NEW F, NEW W \in Pwds, NEW p \in Procs, NEW i \in Fds, NEW f, NEW t,
           Clean(F), F[p].fd[i] = FreeFd, OpenFd(f), t.files = SetFd(F, p, i, f),
           t.boot \in {None, Root}, t.vdev = DeviceList, t.lost \in Demand,
           Held(t, Plus(RefOf(F, W, t.boot, t.lost), f.node), Plus(OpenOf(F), f.node))
    PROVE  Good(t, W)
<1>1. F \in Tables /\ f \in Fd /\ f.node \in Nodes
  BY DEF Clean, OpenFd
<1>2. OpenOf(t.files) = Plus(OpenOf(F), f.node)
  BY <1>1, FdOpened, FreeFdType DEF OpenFd
<1>3. OpenOf(F) \in Demand /\ PwdOf(W) \in Demand
  BY <1>1, OpenOfType, PwdOfType
<1>4. RefOf(t.files, W, t.boot, t.lost) = Plus(RefOf(F, W, t.boot, t.lost), f.node)
  BY <1>1, <1>2, <1>3, RefSumOpen DEF RefOf
<1>5. Clean(t.files)
  BY CleanSet
<1> QED
  BY <1>2, <1>4, <1>5 DEF Good

LEMMA GoodClosed ==
    ASSUME NEW F, NEW W \in Pwds, NEW p \in Procs, NEW i \in Fds, NEW n \in Nodes, NEW t,
           Clean(F), F[p].fd[i].status = "FD_OPENED", F[p].fd[i].node = n,
           t.files = SetFd(F, p, i, FreeFd),
           t.boot \in {None, Root}, t.vdev = DeviceList, t.lost \in Demand,
           Held(t, Minus(RefOf(F, W, t.boot, t.lost), n), Minus(OpenOf(F), n))
    PROVE  Good(t, W)
<1> DEFINE G == SetFd(F, p, i, FreeFd)
           a == OpenOf(G)
           R == RefOf(G, W, t.boot, t.lost)
<1>1. F \in Tables
  BY DEF Clean
<1>2. OpenOf(F) = Plus(a, n) /\ a = Minus(OpenOf(F), n)
  BY <1>1, FdClosed, FreeFdType
<1>3. a \in Demand /\ PwdOf(W) \in Demand
  BY OpenOfType, PwdOfType
<1>4. RefOf(F, W, t.boot, t.lost) = Plus(R, n) /\ R \in Demand
  <2> HIDE DEF a
  <2>1. R = RefSum(a, PwdOf(W), t.boot, t.lost)
    BY DEF RefOf, a
  <2>2. RefOf(F, W, t.boot, t.lost) = RefSum(Plus(a, n), PwdOf(W), t.boot, t.lost)
    BY <1>2 DEF RefOf
  <2> HIDE DEF R
  <2> QED
    BY <1>3, <2>1, <2>2, RefSumOpen, RefSumValue
<1>5. Minus(RefOf(F, W, t.boot, t.lost), n) = R
  <2> HIDE DEF R
  <2> QED
    BY <1>4, PlusValue
<1>6. Clean(G)
  BY CleanSet
<1> QED
  BY <1>2, <1>5, <1>6 DEF Good

(* fd_array_free of a descriptor that was only reserved.                   *)
LEMMA FreeReserved ==
    ASSUME NEW s, NEW r, NEW o, NEW F \in Tables, NEW p \in Procs, NEW i \in Fds,
           Held(s, r, o), F[p].fd[i] = FreeFd, s.files = SetFd(F, p, i, InitFd)
    PROVE  LET t == fd_array_free(s, p, i)
           IN  Held(t, r, o) /\ t.files = F /\ SameBut(s, t) /\ SameResult(s, t)
<1> DEFINE t == fd_array_free(s, p, i)
<1>1. File(s, p, i) = InitFd
  BY SetFdValue, InitFdType DEF File
<1>2. t = SetFile(s, p, i, FreeFd)
  BY <1>1, InitFdType DEF fd_array_free, Asserted
<1>3. /\ Held(t, r, o) /\ t.files = SetFd(s.files, p, i, FreeFd) /\ SameBut(s, t)
      /\ SameResult(s, t)
  BY <1>2, SetFileHeld
<1>4. SetFd(s.files, p, i, FreeFd) = F
  BY SetFdTwice, InitFdType, FreeFdType
<1> QED
  BY <1>3, <1>4

(* Once stopped, the kernel stays so.                                      *)
LEMMA AssertedStuck ==
    ASSUME NEW s, NEW c, Stuck(s)
    PROVE  Stuck(Asserted(s, c))
<1> DEFINE t == Panic(s, "assert")
<1>1. t = [s EXCEPT !.panic = s.panic, !.ret = "panic"]
  BY DEF Panic, Stuck, IsKernel, None
<1>2. Stuck(t)
  BY <1>1 DEF Stuck, IsKernel
<1> QED
  BY <1>2 DEF Asserted

LEMMA SetFileStuck ==
    ASSUME NEW s, NEW p, NEW i, NEW f, Stuck(s)
    PROVE  Stuck(SetFile(s, p, i, f))
<1>1. SetFile(s, p, i, f) = [s EXCEPT !.files = SetFd(s.files, p, i, f)]
  BY DEF SetFile, SetFd, Stuck, IsKernel
<1> QED
  BY <1>1 DEF Stuck, IsKernel

LEMMA FreeStuck ==
    ASSUME NEW s, NEW p, NEW i, Stuck(s)
    PROVE  Stuck(fd_array_free(s, p, i))
<1> DEFINE f == File(s, p, i)
           c == IF f.status = "FD_CLOSED" THEN vfs_close(s, f.node) ELSE s
           t == Asserted(c, f.status \in {"FD_INIT", "FD_CLOSED"} /\ f.open_count = 0)
<1>1. s.panic # None
  BY DEF Stuck, None
<1>2. vfs_close(s, f.node) = s
  <2>1. inode_open_dec(s, f.node) = s
    BY <1>1 DEF inode_open_dec
  <2>2. inode_ref_dec(s, f.node) = s
    BY <1>1 DEF inode_ref_dec
  <2> QED
    BY <2>1, <2>2 DEF vfs_close
<1>3. Stuck(t)
  BY <1>2, AssertedStuck
<1>4. fd_array_free(s, p, i) = SetFile(t, p, i, FreeFd)
  BY DEF fd_array_free
<1> HIDE DEF t
<1> QED
  BY <1>3, <1>4, SetFileStuck

(* The inode that vfs_open has found goes into the reserved descriptor.    *)
LEMMA FdFilled ==
    ASSUME NEW s, NEW r, NEW o, NEW F \in Tables, NEW p \in Procs, NEW i \in Fds, NEW acc,
           Held(s, r, o), s.files = SetFd(F, p, i, InitFd), s.ret = "0", s.out \in Nodes
    PROVE  LET t == file_opened(s, p, i, acc)
           IN  /\ Held(t, r, o) /\ SameBut(s, t) /\ t.ret = "0" /\ t.out = i
               /\ \E f \in Fd : /\ OpenFd(f) /\ f.node = s.out
                                /\ f.readable = (acc \in {"r", "rw"})
                                /\ f.writable = (acc \in {"w", "rw"})
                                /\ t.files = SetFd(F, p, i, f)
<1> DEFINE rd == acc \in {"r", "rw"}
           wr == acc \in {"w", "rw"}
           e == File(s, p, i)
           g == [e EXCEPT !.node = s.out, !.readable = rd, !.writable = wr]
           u == SetFile(s, p, i, g)
           h == File(u, p, i)
           f == [h EXCEPT !.status = "FD_OPENED", !.open_count = @ + 1]
           x == SetFile(u, p, i, f)
           t == file_opened(s, p, i, acc)
<1>1. e = InitFd /\ e \in Fd /\ rd \in BOOLEAN /\ wr \in BOOLEAN
  BY SetFdValue, InitFdType DEF File
<1> HIDE DEF e, rd, wr
<1>2. /\ g \in Fd /\ g.status = e.status /\ g.readable = rd /\ g.writable = wr
      /\ g.open_count = e.open_count /\ g.node = s.out
  BY <1>1 DEF Fd
<1> HIDE DEF g
<1>3. Held(u, r, o) /\ u.files = SetFd(s.files, p, i, g) /\ SameBut(s, u)
  BY SetFileHeld
<1>4. u.files = SetFd(F, p, i, g) /\ u.files \in Tables /\ u.files[p].fd[i] = g
  BY <1>2, <1>3, SetFdTwice, SetFdValue, InitFdType
<1> HIDE DEF u
<1>5. h = g
  BY <1>4 DEF File
<1>6. h.status = "FD_INIT" /\ h.open_count = 0 /\ h.node = s.out /\ h \in Fd
  BY <1>1, <1>2, <1>5, InitFdType
<1> HIDE DEF h
<1>7. /\ f \in Fd /\ f.status = "FD_OPENED" /\ f.open_count = 1 /\ f.node = s.out
      /\ f.readable = h.readable /\ f.writable = h.writable
  <2>1. f = [h EXCEPT !.status = "FD_OPENED", !.open_count = 1]
    BY <1>6
  <2> HIDE DEF f
  <2> QED
    BY <1>6, <2>1 DEF Fd
<1>8. OpenFd(f) /\ f.readable = rd /\ f.writable = wr
  BY <1>2, <1>5, <1>7 DEF OpenFd
<1>9. t = Store(x, i)
  <2>1. s.out # None
    BY NodesApart
  <2>2. fd_array_open(u, p, i) = Asserted(x, h.status = "FD_INIT" /\ h.node # None)
    BY DEF fd_array_open, h
  <2>3. fd_array_open(u, p, i) = x
    BY <1>6, <2>1, <2>2 DEF Asserted
  <2>4. t = Store(fd_array_open(u, p, i), i)
    BY DEF file_opened, Failed, u, g, e, rd, wr
  <2> QED
    BY <2>3, <2>4
<1> HIDE DEF f
<1>10. Held(x, r, o) /\ x.files = SetFd(u.files, p, i, f) /\ SameBut(u, x)
  BY <1>3, SetFileHeld
<1> HIDE DEF x
<1>11. Held(t, r, o) /\ SameRest(x, t) /\ t.ret = "0" /\ t.out = i
  BY <1>9, <1>10, StoreHeld
<1>12. t.files = SetFd(F, p, i, f)
  BY <1>2, <1>4, <1>7, <1>10, <1>11, SetFdTwice DEF SameRest
<1>13. SameBut(s, t)
  BY <1>3, <1>10, <1>11 DEF SameBut, SameRest
<1> QED
  BY <1>7, <1>8, <1>11, <1>12, <1>13 DEF rd, wr

(* file_open: a failure leaves the tables alone, a success opens the       *)
(* lowest free descriptor.                                                 *)
OpenKept(s, t, W) ==
    Good(t, W) /\ t.ret # "0" /\ t.files = s.files /\ t.boot = s.boot

OpenGiven(s, t, W, p) ==
    /\ Good(t, W) /\ t.ret = "0" /\ t.boot = s.boot
    /\ t.out \in Fds /\ s.files[p].fd[t.out] = FreeFd
    /\ \E f \in Fd : OpenFd(f) /\ t.files = SetFd(s.files, p, t.out, f)

LEMMA FileOpen ==
    ASSUME NEW s, NEW W, NEW p \in Procs, NEW path, NEW fl,
           Good(s, W), W[p] = s.files[p].pwd
    PROVE  LET t == file_open(s, p, path, fl)
           IN  /\ Stuck(t) \/ OpenKept(s, t, W) \/ OpenGiven(s, t, W, p)
               /\ ~(fl.trunc \/ fl.creat) => OpenKept(s, t, W) \/ OpenGiven(s, t, W, p)
               /\ /\ path.name = None /\ Plain(fl)
                  /\ \/ path.at = "stdin" /\ fl.acc = "r"
                     \/ path.at = "stdout" /\ fl.acc = "w"
                  /\ \E j \in Fds : s.files[p].fd[j] = FreeFd
                  => /\ t.ret = "0"
                     /\ t.files[p].fd[t.out].node = path.at
                     /\ t.files[p].fd[t.out].readable = (fl.acc \in {"r", "rw"})
                     /\ t.files[p].fd[t.out].writable = (fl.acc \in {"w", "rw"})
                     /\ \A j \in Fds : s.files[p].fd[j] = FreeFd => t.out <= j
<1> DEFINE R == RefOf(s.files, W, s.boot, s.lost)
           O == OpenOf(s.files)
           F == s.files
           a == fd_array_alloc(s, p, NO_FD)
           i == a.out
           v == vfs_open(a, p, path, fl)
           t == file_open(s, p, path, fl)
           std == /\ path.name = None /\ Plain(fl)
                  /\ \/ path.at = "stdin" /\ fl.acc = "r"
                     \/ path.at = "stdout" /\ fl.acc = "w"
           room == \E j \in Fds : F[p].fd[j] = FreeFd
<1>1. /\ Held(s, R, O) /\ Clean(F) /\ F \in Tables /\ Places(s) /\ Starts(s, p, R)
      /\ W \in Pwds /\ s.boot \in {None, Root} /\ s.vdev = DeviceList /\ s.lost \in Demand
  BY GoodFacts DEF Good
<1> HIDE DEF R, O, F
<1>2. /\ Held(a, R, O) /\ SameBut(s, a)
      /\ \/ a.ret # "0" /\ a.files = s.files
         \/ /\ a.ret = "0" /\ i \in Fds /\ F[p].fd[i] = FreeFd
            /\ a.files = SetFd(F, p, i, InitFd)
      /\ room => /\ a.ret = "0"
                 /\ \A j \in Fds : F[p].fd[j] = FreeFd => i <= j
  BY <1>1, AllocFd DEF F
<1> HIDE DEF a, room
<1>3. t = IF Failed(a) THEN a ELSE file_opened(v, p, i, fl.acc)
  BY DEF file_open, open_in, a
<1>4. CASE Failed(a)
  <2>1. t = a /\ a.ret # "0"
    BY <1>3, <1>4 DEF Failed
  <2>2. OpenKept(s, t, W) /\ ~room
    BY <1>2, <2>1, GoodSame DEF OpenKept, SameBut, R, O
  <2> QED
    BY <2>2 DEF room, F
<1>5. CASE ~Failed(a)
  <2>1. /\ a.ret = "0" /\ i \in Fds /\ F[p].fd[i] = FreeFd
        /\ a.files = SetFd(F, p, i, InitFd)
    BY <1>2, <1>5 DEF Failed
  <2>2. t = file_opened(v, p, i, fl.acc)
    BY <1>3, <1>5
  <2> HIDE DEF t, i
  <2>3. /\ a.files \in Tables /\ \A q \in Procs : a.files[q].pwd = F[q].pwd
    BY <1>1, <2>1, SetFdValue, InitFdType
  <2>4. Places(a) /\ Starts(a, p, R)
    BY <1>1, <1>2, <2>3 DEF Places, Starts, SameBut, F
  <2>5. /\ Opened(a, v, R, O)
        /\ ~(fl.trunc \/ fl.creat) => OpenFailed(a, v, R, O) \/ OpenDone(a, v, R, O)
        /\ std => v.ret = "0" /\ v.out = path.at
    BY <1>2, <2>4, VfsOpen
  <2> HIDE DEF v, std
  <2> DEFINE u == fd_array_free(v, p, i)
  <2>6. v.ret # "0" => t = u
    BY <2>2 DEF file_opened, Failed
  <2>7. CASE Stuck(v) /\ v.ret = "panic"
    <3>1. Stuck(t)
      BY <2>6, <2>7, FreeStuck
    <3>2. ~OpenFailed(a, v, R, O) /\ ~OpenDone(a, v, R, O) /\ ~std
      BY <2>5, <2>7, HeldFits DEF OpenFailed, OpenDone, Stuck, None
    <3> QED
      BY <2>5, <3>1, <3>2 DEF t, std
  <2>8. CASE OpenFailed(a, v, R, O)
    <3>1. v.ret # "0" /\ Held(v, R, O) /\ SameRest(a, v) /\ v.files = SetFd(F, p, i, InitFd)
      BY <2>1, <2>8 DEF OpenFailed, SameRest
    <3>2. Held(t, R, O) /\ t.files = F /\ SameBut(v, t) /\ SameResult(v, t)
      BY <1>1, <2>1, <2>6, <3>1, FreeReserved
    <3>3. SameBut(s, t)
      BY <1>2, <3>1, <3>2 DEF SameBut, SameRest
    <3>4. Good(t, W)
      BY <3>2, <3>3, GoodSame DEF R, O, F
    <3>5. OpenKept(s, t, W) /\ ~std
      BY <2>5, <3>1, <3>2, <3>3, <3>4 DEF OpenKept, SameBut, SameResult, F
    <3> QED
      BY <3>5 DEF t, std
  <2>9. CASE OpenLost(a, v, R, O)
    <3>1. PICK n \in Nodes :
             /\ v.ret = "E_EXISTS" /\ Held(v, Plus(R, n), O)
             /\ v.lost = [a.lost EXCEPT ![n] = @ + 1]
             /\ v.files = a.files /\ v.boot = a.boot /\ v.vdev = a.vdev
      BY <2>9 DEF OpenLost
    <3>2. Held(t, Plus(R, n), O) /\ t.files = F /\ SameBut(v, t) /\ SameResult(v, t)
      BY <1>1, <2>1, <2>6, <3>1, FreeReserved
    <3>3. /\ t.lost = [s.lost EXCEPT ![n] = @ + 1] /\ t.boot = s.boot /\ t.vdev = s.vdev
          /\ t.ret = "E_EXISTS"
      BY <1>2, <3>1, <3>2 DEF SameBut, SameResult
    <3>4. OpenOf(F) \in Demand /\ PwdOf(W) \in Demand
      BY OpenOfType, PwdOfType
    <3>5. RefOf(F, W, s.boot, [s.lost EXCEPT ![n] = @ + 1]) = Plus(R, n)
      BY <1>1, <3>4, RefSumLost DEF RefOf, R, F
    <3>6. [s.lost EXCEPT ![n] = @ + 1] \in Demand
      BY <1>1 DEF Demand
    <3>7. Good(t, W)
      <4>1. Clean(t.files) /\ t.boot \in {None, Root} /\ t.vdev = DeviceList
        BY <1>1, <3>2, <3>3
      <4>2. t.lost \in Demand /\ RefOf(t.files, W, t.boot, t.lost) = Plus(R, n)
        BY <3>2, <3>3, <3>5, <3>6
      <4>3. OpenOf(t.files) = O
        BY <3>2 DEF O, F
      <4> QED
        BY <1>1, <3>2, <4>1, <4>2, <4>3 DEF Good
    <3>8. OpenKept(s, t, W) /\ ~std
      BY <2>5, <3>1, <3>2, <3>3, <3>7 DEF OpenKept, F
    <3> QED
      BY <3>8 DEF t, std
  <2>10. CASE OpenDone(a, v, R, O)
    <3> DEFINE n == v.out
    <3>1. /\ v.ret = "0" /\ n \in Nodes /\ Held(v, Plus(R, n), Plus(O, n)) /\ SameRest(a, v)
          /\ v.files = SetFd(F, p, i, InitFd)
      BY <2>1, <2>10 DEF OpenDone, SameRest
    <3> HIDE DEF n
    <3>2. /\ Held(t, Plus(R, n), Plus(O, n)) /\ SameBut(v, t) /\ t.ret = "0" /\ t.out = i
          /\ \E f \in Fd : /\ OpenFd(f) /\ f.node = n
                           /\ f.readable = (fl.acc \in {"r", "rw"})
                           /\ f.writable = (fl.acc \in {"w", "rw"})
                           /\ t.files = SetFd(F, p, i, f)
      BY <1>1, <2>1, <2>2, <3>1, FdFilled DEF n
    <3>3. PICK f \in Fd : /\ OpenFd(f) /\ f.node = n
                          /\ f.readable = (fl.acc \in {"r", "rw"})
                          /\ f.writable = (fl.acc \in {"w", "rw"})
                          /\ t.files = SetFd(F, p, i, f)
      BY <3>2
    <3>4. SameBut(s, t)
      BY <1>2, <3>1, <3>2 DEF SameBut, SameRest
    <3>5. /\ t.boot = s.boot /\ t.lost = s.lost /\ t.boot \in {None, Root}
          /\ t.vdev = DeviceList /\ t.lost \in Demand
      BY <1>1, <3>4 DEF SameBut
    <3>6. Held(t, Plus(RefOf(F, W, t.boot, t.lost), f.node), Plus(OpenOf(F), f.node))
      BY <3>2, <3>3, <3>5 DEF R, O, F
    <3>7. Good(t, W)
      BY <1>1, <2>1, <3>3, <3>5, <3>6, GoodOpened
    <3>8. OpenGiven(s, t, W, p)
      BY <2>1, <3>2, <3>3, <3>5, <3>7 DEF OpenGiven, F
    <3>9. t.files[p].fd[i] = f
      BY <1>1, <2>1, <3>3, SetFdValue
    <3>10. std => f.node = path.at
      BY <2>5, <3>3 DEF n
    <3>11. room => \A j \in Fds : F[p].fd[j] = FreeFd => t.out <= j
      BY <1>2, <3>2 DEF i
    <3> QED
      BY <3>2, <3>3, <3>8, <3>9, <3>10, <3>11 DEF t, std, room, F
  <2> QED
    BY <2>5, <2>7, <2>8, <2>9, <2>10 DEF Opened
<1> QED
  BY <1>4, <1>5

(* fd_array_close of an open descriptor.                                   *)
LEMMA FdClose ==
    ASSUME NEW s, NEW W, NEW p \in Procs, NEW i \in Fds, Good(s, W),
           OpenFd(s.files[p].fd[i])
    PROVE  LET t == fd_array_close(s, p, i)
           IN  /\ Good(t, W) /\ t.files = SetFd(s.files, p, i, FreeFd)
               /\ SameBut(s, t) /\ SameResult(s, t)
<1> DEFINE R == RefOf(s.files, W, s.boot, s.lost)
           O == OpenOf(s.files)
           F == s.files
           e == File(s, p, i)
           n == e.node
           f1 == [e EXCEPT !.status = "FD_CLOSED"]
           s1 == SetFile(s, p, i, f1)
           e1 == File(s1, p, i)
           f2 == [e1 EXCEPT !.open_count = @ - 1]
           s2 == SetFile(s1, p, i, f2)
           e2 == File(s2, p, i)
           c == vfs_close(s2, n)
           t == SetFile(c, p, i, FreeFd)
<1>1. /\ Held(s, R, O) /\ Clean(F) /\ F \in Tables /\ W \in Pwds
      /\ s.boot \in {None, Root} /\ s.vdev = DeviceList /\ s.lost \in Demand
  BY GoodFacts DEF Good
<1>2. /\ e = F[p].fd[i] /\ OpenFd(e) /\ e \in Fd /\ n \in Nodes /\ e.status = "FD_OPENED"
      /\ e.open_count = 1
  BY DEF File, OpenFd
<1> HIDE DEF R, O, F, e
<1>3. /\ f1 \in Fd /\ f1.status = "FD_CLOSED" /\ f1.open_count = 1 /\ f1.node = n
  BY <1>2 DEF Fd
<1> HIDE DEF f1
<1>4. Held(s1, R, O) /\ s1.files = SetFd(F, p, i, f1) /\ SameBut(s, s1) /\ SameResult(s, s1)
  BY <1>1, SetFileHeld DEF F
<1> HIDE DEF s1
<1>5. e1 = f1
  BY <1>1, <1>3, <1>4, SetFdValue DEF File
<1>6. f2 \in Fd /\ f2.status = "FD_CLOSED" /\ f2.open_count = 0 /\ f2.node = n
  <2>1. f2 = [f1 EXCEPT !.open_count = 0]
    BY <1>3, <1>5
  <2> HIDE DEF f2
  <2> QED
    BY <1>3, <2>1 DEF Fd
<1>7. fd_array_close(s, p, i) = IF e2.open_count = 0 THEN fd_array_free(s2, p, i) ELSE s2
  BY DEF fd_array_close, fd_array_release, s1, f1, e
<1> HIDE DEF f2
<1>8. Held(s2, R, O) /\ s2.files = SetFd(s1.files, p, i, f2) /\ SameBut(s1, s2) /\ SameResult(s1, s2)
  BY <1>4, SetFileHeld
<1>9. s2.files = SetFd(F, p, i, f2)
  BY <1>1, <1>3, <1>4, <1>6, <1>8, SetFdTwice
<1> HIDE DEF s2
<1>10. e2 = f2
  BY <1>1, <1>6, <1>9, SetFdValue DEF File
<1>11. fd_array_close(s, p, i) = t
  BY <1>6, <1>7, <1>10 DEF fd_array_free, Asserted
<1>12. O[n] > 0 /\ O \in Demand
  BY <1>1, <1>2, <1>6, FdClosed, OpenOfType DEF O, F
<1> DEFINE d == inode_open_dec(s2, n)
<1>13. Held(d, R, Minus(O, n)) /\ SameRest(s2, d) /\ SameResult(s2, d)
  BY <1>2, <1>8, <1>12, OpenDecHeld
<1>14. R[n] > Minus(O, n)[n] /\ (n \in Devices => R[n] > Minus(O, n)[n] + 1)
  <2>1. Minus(O, n)[n] = O[n] - 1 /\ O[n] \in Nat
    BY <1>2, <1>12, MinusValue DEF Demand
  <2>2. R[n] \in Nat /\ R[n] >= O[n] /\ (n \in Devices => R[n] > O[n])
    BY <1>1, <1>2, HeldFits DEF Fit, Demand
  <2> QED
    BY <2>1, <2>2
<1> HIDE DEF d, n
<1>15. Held(c, Minus(R, n), Minus(O, n)) /\ SameRest(d, c) /\ SameResult(d, c)
  <2>1. c = inode_ref_dec(d, n)
    BY DEF vfs_close, d
  <2> QED
    BY <1>2, <1>13, <1>14, <2>1, RefDecHeld
<1> HIDE DEF c
<1>16. /\ Held(t, Minus(R, n), Minus(O, n)) /\ t.files = SetFd(c.files, p, i, FreeFd)
       /\ SameBut(c, t) /\ SameResult(c, t)
  BY <1>15, SetFileHeld
<1> HIDE DEF t
<1>17. c.files = SetFd(F, p, i, f2)
  BY <1>9, <1>13, <1>15 DEF SameRest
<1>18. t.files = SetFd(F, p, i, FreeFd)
  BY <1>1, <1>6, <1>16, <1>17, SetFdTwice, FreeFdType
<1>19. SameBut(s, t) /\ SameResult(s, t)
  BY <1>4, <1>8, <1>13, <1>15, <1>16 DEF SameBut, SameRest, SameResult
<1>20. /\ t.boot = s.boot /\ t.lost = s.lost /\ t.boot \in {None, Root}
       /\ t.vdev = DeviceList /\ t.lost \in Demand
  BY <1>1, <1>19 DEF SameBut
<1>21. Held(t, Minus(RefOf(F, W, t.boot, t.lost), n), Minus(OpenOf(F), n))
  BY <1>16, <1>20 DEF R, O, F
<1>22. Good(t, W)
  BY <1>1, <1>2, <1>18, <1>20, <1>21, GoodClosed DEF n
<1> QED
  BY <1>11, <1>18, <1>19, <1>22 DEF F

LEMMA FileClose ==
    ASSUME NEW s, NEW W, NEW p \in Procs, NEW i \in Fds, Good(s, W)
    PROVE  LET t == file_close(s, p, i)
           IN  /\ Good(t, W) /\ t.files = SetFd(s.files, p, i, FreeFd) /\ SameBut(s, t)
               /\ t.out = s.out
               /\ s.files[p].fd[i] # FreeFd => t.ret = s.ret
<1> DEFINE t == file_close(s, p, i)
           R == RefOf(s.files, W, s.boot, s.lost)
           O == OpenOf(s.files)
<1>1. Held(s, R, O) /\ Clean(s.files) /\ s.files \in Tables
  BY GoodFacts DEF Good
<1>2. CASE s.files[p].fd[i].status = "FD_OPENED"
  <2>1. OpenFd(s.files[p].fd[i])
    BY <1>1, <1>2, CleanFree
  <2>2. t = fd_array_close(s, p, i)
    BY <1>2 DEF file_close, IsOpen, File
  <2>3. /\ Good(t, W) /\ t.files = SetFd(s.files, p, i, FreeFd)
        /\ SameBut(s, t) /\ SameResult(s, t)
    BY <2>1, <2>2, FdClose
  <2> QED
    BY <2>3 DEF SameResult
<1>3. CASE s.files[p].fd[i].status # "FD_OPENED"
  <2>1. s.files[p].fd[i] = FreeFd
    BY <1>1, <1>3, CleanFree DEF OpenFd
  <2>2. t = Ret(s, "E_INVAL")
    BY <1>3 DEF file_close, IsOpen, File
  <2>3. Held(t, R, O) /\ SameRest(s, t) /\ t.out = s.out
    BY <1>1, <2>2, RetHeld
  <2> HIDE DEF t
  <2>4. t.files = s.files /\ SameBut(s, t)
    BY <2>3 DEF SameRest, SameBut
  <2>5. Good(t, W)
    BY <2>3, <2>4, GoodSame
  <2>6. SetFd(s.files, p, i, FreeFd) = s.files
    BY <1>1, <2>1, SetFdTwice, FreeFdType
  <2> QED
    BY <2>1, <2>3, <2>4, <2>5, <2>6 DEF t
<1> QED
  BY <1>2, <1>3

(* fd_array_dup: an open descriptor is copied into a free one.             *)
LEMMA FdDup ==
    ASSUME NEW s, NEW W, NEW F, NEW p \in Procs, NEW to \in Fds, NEW from, NEW g \in Fd,
           Clean(F), W \in Pwds, F[p].fd[to] = FreeFd, OpenFd(from),
           s.files = SetFd(F, p, to, g),
           s.boot \in {None, Root}, s.vdev = DeviceList, s.lost \in Demand,
           Held(s, RefOf(F, W, s.boot, s.lost), OpenOf(F)),
           OpenOf(F)[from.node] > 0
    PROVE  LET t == fd_array_dup(s, p, to, from)
           IN  Good(t, W) /\ t.files = SetFd(F, p, to, from) /\ SameBut(s, t)
<1> DEFINE R == RefOf(F, W, s.boot, s.lost)
           O == OpenOf(F)
           n == from.node
           i == inode_ref_inc(s, n)
           u == inode_open_inc(i, n)
           f == [from EXCEPT !.status = "FD_INIT", !.open_count = 0]
           x == SetFile(u, p, to, f)
           h == File(x, p, to)
           k == [h EXCEPT !.status = "FD_OPENED", !.open_count = @ + 1]
           t == SetFile(x, p, to, k)
<1>1. /\ F \in Tables /\ n \in Nodes /\ from \in Fd /\ from.status = "FD_OPENED"
      /\ from.open_count = 1
  BY DEF Clean, OpenFd
<1>2. Fit(R, O) /\ R[n] > 0
  <2>1. Fit(R, O)
    BY HeldFits
  <2>2. O[n] \in Nat /\ R[n] \in Nat /\ R[n] >= O[n]
    BY <1>1, <2>1 DEF Fit, Demand
  <2> QED
    BY <2>1, <2>2
<1> HIDE DEF R, O
<1>3. Held(i, Plus(R, n), O) /\ SameRest(s, i)
  BY <1>1, <1>2, RefIncHeld DEF R, O
<1>4. Plus(R, n)[n] > O[n] /\ (n \in Devices => Plus(R, n)[n] > O[n] + 1)
  BY <1>1, <1>2, FitPlus
<1> HIDE DEF i
<1>5. Held(u, Plus(R, n), Plus(O, n)) /\ SameRest(i, u)
  BY <1>1, <1>3, <1>4, OpenIncHeld
<1> HIDE DEF u
<1>6. /\ f \in Fd /\ f.status = "FD_INIT" /\ f.open_count = 0 /\ f.node = n
      /\ f.readable = from.readable /\ f.writable = from.writable
  BY <1>1 DEF Fd
<1>7. fd_array_dup(s, p, to, from) = Asserted(t, h.status = "FD_INIT" /\ h.node # None)
  BY DEF fd_array_dup, fd_array_open, u, i
<1> HIDE DEF f
<1>8. /\ Held(x, Plus(R, n), Plus(O, n)) /\ x.files = SetFd(u.files, p, to, f)
      /\ SameBut(u, x)
  BY <1>5, SetFileHeld
<1>9. x.files = SetFd(F, p, to, f)
  BY <1>1, <1>3, <1>5, <1>6, <1>8, SetFdTwice DEF SameRest
<1> HIDE DEF x
<1>10. h = f
  BY <1>1, <1>6, <1>9, SetFdValue DEF File
<1> HIDE DEF h
<1>11. k = from
  <2>1. k = [f EXCEPT !.status = "FD_OPENED", !.open_count = 1]
    <3>1. h.open_count + 1 = 1
      BY <1>6, <1>10
    <3> QED
      BY <1>10, <3>1
  <2> HIDE DEF k
  <2>2. /\ k \in Fd /\ k.status = "FD_OPENED" /\ k.open_count = 1 /\ k.node = f.node
        /\ k.readable = f.readable /\ k.writable = f.writable
    BY <1>6, <2>1 DEF Fd
  <2> QED
    BY <1>1, <1>6, <2>2, FdEqual
<1>12. fd_array_dup(s, p, to, from) = t
  BY <1>1, <1>6, <1>7, <1>10, NodesApart DEF Asserted
<1> HIDE DEF k, n
<1>13. /\ Held(t, Plus(R, n), Plus(O, n)) /\ t.files = SetFd(x.files, p, to, from)
       /\ SameBut(x, t)
  BY <1>8, <1>11, SetFileHeld
<1> HIDE DEF t
<1>14. t.files = SetFd(F, p, to, from)
  BY <1>1, <1>6, <1>9, <1>13, SetFdTwice
<1>15. SameBut(s, t)
  BY <1>3, <1>5, <1>8, <1>13 DEF SameBut, SameRest
<1>16. /\ t.boot \in {None, Root} /\ t.vdev = DeviceList /\ t.lost \in Demand
       /\ t.boot = s.boot /\ t.lost = s.lost
  BY <1>15 DEF SameBut
<1>17. Held(t, Plus(RefOf(F, W, t.boot, t.lost), from.node), Plus(OpenOf(F), from.node))
  BY <1>13, <1>16 DEF R, O, n
<1>18. Good(t, W)
  BY <1>14, <1>16, <1>17, GoodOpened
<1> QED
  BY <1>12, <1>14, <1>15, <1>18

(* What is in an open descriptor is open.                                  *)
LEMMA OpenPositive ==
    ASSUME NEW F, NEW p \in Procs, NEW i \in Fds, Clean(F), OpenFd(F[p].fd[i])
    PROVE  OpenOf(F)[F[p].fd[i].node] > 0
<1>1. F \in Tables /\ F[p].fd[i].node \in Nodes /\ F[p].fd[i].status = "FD_OPENED"
  BY DEF Clean, OpenFd
<1> QED
  BY <1>1, FdClosed, FreeFdType

(* file_dup: a success opens the descriptor asked for, or any that is free.*)
LEMMA FileDup ==
    ASSUME NEW s, NEW W, NEW p \in Procs, NEW i, NEW want, Good(s, W)
    PROVE  LET t == file_dup(s, p, i, want)
           IN  /\ Good(t, W) /\ t.boot = s.boot
               /\ \/ t.files = s.files
                  \/ /\ i \in Fds /\ t.out \in Fds /\ s.files[p].fd[t.out] = FreeFd
                     /\ OpenFd(s.files[p].fd[i])
                     /\ t.files = SetFd(s.files, p, t.out, s.files[p].fd[i])
               /\ /\ i \in Fds /\ want \in Fds /\ OpenFd(s.files[p].fd[i])
                  /\ s.files[p].fd[want] = FreeFd
                  => /\ t.out = want
                     /\ t.files = SetFd(s.files, p, want, s.files[p].fd[i])
<1> DEFINE t == file_dup(s, p, i, want)
           R == RefOf(s.files, W, s.boot, s.lost)
           O == OpenOf(s.files)
           F == s.files
           a == fd_array_alloc(s, p, want)
           d == fd_array_dup(a, p, a.out, File(s, p, i))
<1>1. /\ Held(s, R, O) /\ Clean(F) /\ F \in Tables /\ W \in Pwds
      /\ s.boot \in {None, Root} /\ s.vdev = DeviceList /\ s.lost \in Demand
  BY GoodFacts DEF Good
<1>2. CASE ~IsOpen(s, p, i)
  <2>1. t = Ret(s, "E_INVAL")
    BY <1>2 DEF file_dup
  <2>2. Held(t, R, O) /\ SameRest(s, t)
    BY <1>1, <2>1, RetHeld
  <2> HIDE DEF t
  <2>3. Good(t, W) /\ t.files = s.files /\ t.boot = s.boot
    BY <2>2, GoodSame DEF SameRest, SameBut
  <2>4. ~(i \in Fds /\ OpenFd(s.files[p].fd[i]))
    BY <1>2 DEF IsOpen, File, OpenFd
  <2> QED
    BY <2>3, <2>4 DEF t
<1>3. CASE IsOpen(s, p, i)
  <2>1. i \in Fds /\ OpenFd(F[p].fd[i]) /\ File(s, p, i) = F[p].fd[i]
    BY <1>1, <1>3, CleanFree DEF IsOpen, File
  <2>2. t = IF Failed(a) THEN a ELSE Store(d, a.out)
    BY <1>3 DEF file_dup
  <2> HIDE DEF R, O, F
  <2>3. /\ Held(a, R, O) /\ SameBut(s, a)
        /\ \/ a.ret # "0" /\ a.files = s.files
           \/ /\ a.ret = "0" /\ a.out \in Fds /\ F[p].fd[a.out] = FreeFd
              /\ a.files = SetFd(F, p, a.out, InitFd)
        /\ want \in Fds => a.ret = (IF F[p].fd[want] = FreeFd THEN "0" ELSE "E_BUSY")
        /\ want # NO_FD /\ a.ret = "0" => a.out = want
    <3>1. Held(s, R, O) /\ Clean(s.files)
      BY <1>1 DEF F
    <3>2. /\ Held(a, R, O) /\ SameBut(s, a)
          /\ \/ a.ret # "0" /\ a.files = s.files
             \/ /\ a.ret = "0" /\ a.out \in Fds /\ s.files[p].fd[a.out] = FreeFd
                /\ a.files = SetFd(s.files, p, a.out, InitFd)
          /\ want \in Fds =>
                a.ret = (IF s.files[p].fd[want] = FreeFd THEN "0" ELSE "E_BUSY")
          /\ want # NO_FD /\ a.ret = "0" => a.out = want
      BY <3>1, AllocFd
    <3> QED
      BY <3>2 DEF F
  <2> HIDE DEF a, t
  <2>4. CASE a.ret # "0"
    <3>1. t = a /\ a.files = s.files
      BY <2>2, <2>3, <2>4 DEF Failed
    <3>2. Good(t, W) /\ t.files = s.files /\ t.boot = s.boot
      BY <2>3, <3>1, GoodSame DEF SameBut, R, O
    <3>3. ~(want \in Fds /\ F[p].fd[want] = FreeFd)
      BY <2>3, <2>4
    <3> QED
      BY <3>2, <3>3 DEF t, F
  <2>5. CASE a.ret = "0"
    <3>1. t = Store(d, a.out)
      BY <2>2, <2>5 DEF Failed
    <3>2. a.out \in Fds /\ F[p].fd[a.out] = FreeFd /\ a.files = SetFd(F, p, a.out, InitFd)
      BY <2>3, <2>5
    <3>3. OpenOf(F)[F[p].fd[i].node] > 0
      BY <1>1, <2>1, OpenPositive
    <3>4. /\ a.boot \in {None, Root} /\ a.vdev = DeviceList /\ a.lost \in Demand
          /\ a.boot = s.boot /\ a.lost = s.lost
      BY <1>1, <2>3 DEF SameBut
    <3>5. Held(a, RefOf(F, W, a.boot, a.lost), OpenOf(F))
      BY <2>3, <3>4 DEF R, O, F
    <3>6. Good(d, W) /\ d.files = SetFd(F, p, a.out, F[p].fd[i]) /\ SameBut(a, d)
      BY <1>1, <2>1, <3>2, <3>3, <3>4, <3>5, FdDup, InitFdType
    <3> HIDE DEF d
    <3>7. Held(d, RefOf(d.files, W, d.boot, d.lost), OpenOf(d.files))
      BY <3>6 DEF Good
    <3>8. /\ Held(t, RefOf(d.files, W, d.boot, d.lost), OpenOf(d.files)) /\ SameRest(d, t)
          /\ t.out = a.out
      BY <3>1, <3>7, StoreHeld
    <3>9. t.files = d.files /\ SameBut(d, t)
      BY <3>8 DEF SameRest, SameBut
    <3>10. Good(t, W)
      BY <3>6, <3>8, <3>9, GoodSame
    <3>11. t.boot = s.boot
      BY <3>4, <3>6, <3>9 DEF SameBut
    <3>12. want \in Fds => want # NO_FD
      BY FdsFinite DEF NO_FD
    <3>13. want \in Fds => t.out = want
      BY <2>3, <2>5, <3>8, <3>12
    <3> QED
      BY <2>1, <3>2, <3>6, <3>8, <3>9, <3>10, <3>11, <3>13 DEF t, F
  <2> QED
    BY <2>4, <2>5
<1> QED
  BY <1>2, <1>3

(* The calls that hold a descriptor around an operation of its inode.      *)
LEMMA FileOp ==
    ASSUME NEW s, NEW W, NEW p \in Procs, NEW i, NEW op, NEW changes, Good(s, W)
    PROVE  LET t == file_op(s, p, i, op, changes)
           IN  Stuck(t) \/ (Good(t, W) /\ t.files = s.files /\ t.boot = s.boot)
<1> DEFINE t == file_op(s, p, i, op, changes)
           R == RefOf(s.files, W, s.boot, s.lost)
           O == OpenOf(s.files)
           F == s.files
<1>1. Held(s, R, O) /\ Clean(F) /\ F \in Tables
  BY GoodFacts DEF Good
<1>2. CASE ~file_testfd(s, p, i, op)
  <2>1. t = Ret(s, "E_INVAL")
    BY <1>2 DEF file_op
  <2>2. Held(t, R, O) /\ SameRest(s, t)
    BY <1>1, <2>1, RetHeld
  <2> HIDE DEF t
  <2>3. Good(t, W) /\ t.files = s.files /\ t.boot = s.boot
    BY <2>2, GoodSame DEF SameRest, SameBut
  <2> QED
    BY <2>3 DEF t
<1>3. CASE file_testfd(s, p, i, op)
  <2> DEFINE e == File(s, p, i)
             n == e.node
             e1 == [e EXCEPT !.open_count = @ + 1]
             a == SetFile(s, p, i, e1)
             v == vop(a, n, op)
             w == IF changes /\ n \in Inodes /\ op \in {"write", "tryseek"}
                  THEN sfs_truncfile(v, n)
                  ELSE IF op = "fsync" THEN sfs_fsync(v, n) ELSE v
  <2>1. i \in Fds /\ e.status = "FD_OPENED"
    BY <1>3 DEF file_testfd, IsOpen
  <2>2. e = F[p].fd[i] /\ OpenFd(e) /\ e \in Fd /\ n \in Nodes /\ e.open_count = 1
    BY <1>1, <2>1, CleanFree DEF File, OpenFd
  <2>3. t = IF v.panic # None THEN v ELSE fd_array_release(w, p, i)
    BY <1>3, <2>1 DEF file_op, fd_array_acquire, Asserted
  <2>4. Fit(R, O) /\ R[n] > 0
    <3>1. Fit(R, O)
      BY <1>1, HeldFits
    <3>2. O[n] > 0
      BY <1>1, <2>1, <2>2, OpenPositive
    <3>3. O[n] \in Nat /\ R[n] \in Nat /\ R[n] >= O[n]
      BY <2>2, <3>1 DEF Fit, Demand
    <3> QED
      BY <3>1, <3>2, <3>3
  <2> HIDE DEF R, O, F, e
  <2>5. /\ e1 \in Fd /\ e1.status = "FD_OPENED" /\ e1.open_count = 2 /\ e1.node = n
        /\ e1.readable = e.readable /\ e1.writable = e.writable
    <3>1. e1 = [e EXCEPT !.open_count = 2]
      BY <2>2
    <3> HIDE DEF e1
    <3> QED
      BY <2>1, <2>2, <3>1 DEF Fd
  <2> HIDE DEF n, e1
  <2>6. Held(a, R, O) /\ a.files = SetFd(F, p, i, e1) /\ SameBut(s, a)
    BY <1>1, SetFileHeld DEF F
  <2> HIDE DEF a
  <2>7. CASE op \notin Ops(n)
    <3>1. Stuck(v)
      BY <2>2, <2>4, <2>6, <2>7, VopStuck
    <3>2. v.panic # None
      BY <3>1 DEF Stuck, None
    <3> QED
      BY <2>3, <3>1, <3>2
  <2>8. CASE op \in Ops(n)
    <3>1. Held(v, R, O) /\ v.panic = None /\ SameRest(a, v)
      BY <2>2, <2>4, <2>6, <2>8, VopHeld
    <3> HIDE DEF v
    <3>2. Held(w, R, O) /\ SameRest(a, w)
      <4>1. CASE changes /\ n \in Inodes /\ op \in {"write", "tryseek"}
        BY <2>2, <2>4, <3>1, <4>1, TruncHeld, RestSame
      <4>2. CASE ~(changes /\ n \in Inodes /\ op \in {"write", "tryseek"}) /\ op = "fsync"
        BY <2>2, <2>4, <3>1, <4>2, FsyncHeld, RestSame
      <4>3. CASE ~(changes /\ n \in Inodes /\ op \in {"write", "tryseek"}) /\ op # "fsync"
        BY <3>1, <4>3
      <4> QED
        BY <4>1, <4>2, <4>3
    <3> HIDE DEF w
    <3> DEFINE h == File(w, p, i)
               k == [h EXCEPT !.open_count = @ - 1]
               x == SetFile(w, p, i, k)
    <3>3. w.files = SetFd(F, p, i, e1)
      BY <2>6, <3>2 DEF SameRest
    <3>4. h = e1
      BY <1>1, <2>1, <2>5, <3>3, SetFdValue DEF File, F
    <3>5. fd_array_release(w, p, i)
            = IF File(x, p, i).open_count = 0 THEN fd_array_free(x, p, i) ELSE x
      BY DEF fd_array_release
    <3> HIDE DEF h
    <3>6. k = e
      <4>1. h.open_count - 1 = 1
        BY <2>5, <3>4
      <4>2. k = [e1 EXCEPT !.open_count = 1]
        BY <3>4, <4>1
      <4> HIDE DEF k
      <4>3. /\ k \in Fd /\ k.status = e1.status /\ k.open_count = 1 /\ k.node = e1.node
            /\ k.readable = e1.readable /\ k.writable = e1.writable
        BY <2>5, <4>2 DEF Fd
      <4> QED
        BY <2>1, <2>2, <2>5, <4>3, FdEqual DEF n
    <3> HIDE DEF k
    <3>7. Held(x, R, O) /\ x.files = SetFd(w.files, p, i, e) /\ SameBut(w, x)
      BY <3>2, <3>6, SetFileHeld
    <3>8. x.files = F
      BY <1>1, <2>1, <2>2, <2>5, <3>3, <3>7, SetFdTwice DEF F
    <3> HIDE DEF x
    <3>9. fd_array_release(w, p, i) = x
      BY <2>2, <3>5, <3>8 DEF File
    <3>10. t = x
      BY <2>3, <3>1, <3>9
    <3>11. SameBut(s, x)
      BY <2>6, <3>2, <3>7 DEF SameBut, SameRest
    <3>12. Good(x, W)
      BY <3>7, <3>8, <3>11, GoodSame DEF R, O, F
    <3> QED
      BY <3>8, <3>10, <3>11, <3>12 DEF F, SameBut
  <2> QED
    BY <2>7, <2>8
<1> QED
  BY <1>2, <1>3

LEMMA RetStuck ==
    ASSUME NEW s, NEW x, Stuck(s)
    PROVE  Stuck(Ret(s, x))
<1>1. Ret(s, x) = [s EXCEPT !.ret = x]
  BY DEF Ret
<1> QED
  BY <1>1 DEF Stuck, IsKernel

LEMMA FileOpStuck ==
    ASSUME NEW s, NEW p, NEW i, NEW op, NEW changes, Stuck(s)
    PROVE  Stuck(file_op(s, p, i, op, changes))
<1> DEFINE a == fd_array_acquire(s, p, i)
<1>1. Stuck(a)
  BY SetFileStuck, AssertedStuck DEF fd_array_acquire
<1>2. a.panic # None
  BY <1>1 DEF Stuck, None
<1> HIDE DEF a
<1>3. vop(a, File(s, p, i).node, op) = a
  BY <1>2 DEF vop
<1>4. file_op(s, p, i, op, changes) \in {Ret(s, "E_INVAL"), a}
  BY <1>2, <1>3 DEF file_op, a
<1> QED
  BY <1>1, <1>4, RetStuck

LEMMA FileCloseStuck ==
    ASSUME NEW s, NEW p, NEW i, Stuck(s)
    PROVE  Stuck(file_close(s, p, i))
<1> DEFINE a == SetFile(s, p, i, [File(s, p, i) EXCEPT !.status = "FD_CLOSED"])
           b == SetFile(a, p, i, [File(a, p, i) EXCEPT !.open_count = @ - 1])
<1>1. Stuck(a)
  BY SetFileStuck
<1>2. file_close(s, p, i) \in {Ret(s, "E_INVAL"), b, fd_array_free(b, p, i)}
  BY DEF file_close, fd_array_close, fd_array_release
<1> HIDE DEF a
<1>3. Stuck(b)
  BY <1>1, SetFileStuck
<1> HIDE DEF b
<1>4. Stuck(fd_array_free(b, p, i)) /\ Stuck(Ret(s, "E_INVAL"))
  BY <1>3, FreeStuck, RetStuck
<1> QED
  BY <1>2, <1>3, <1>4

-----------------------------------------------------------------------------
(* Loops over the descriptors.                                             *)

(* One turn of CloseFrom, and the values of its loop.                      *)
CloseOne(s, p, k) == IF IsOpen(s, p, k) THEN fd_array_close(s, p, k) ELSE s

CloseLoop(g, s, p, i, m) ==
    g = [j \in i .. m |-> IF j = i THEN s ELSE CloseOne(g[j - 1], p, j - 1)]

LEMMA CloseLoopExists ==
    ASSUME NEW s, NEW p, NEW i \in Nat, i <= NENTRY
    PROVE  \E g : CloseLoop(g, s, p, i, NENTRY)
<1> DEFINE M == {m \in i .. NENTRY : \E g : CloseLoop(g, s, p, i, m)}
           N == (i .. NENTRY) \ M
<1>1. NENTRY \in Nat
  BY FdsFinite
<1>2. i \in M
  <2> DEFINE g == [j \in i .. i |-> s]
  <2>1. CloseLoop(g, s, p, i, i)
    BY DEF CloseLoop
  <2> QED
    BY <1>1, <2>1
<1>3. ASSUME NEW m \in M, m # NENTRY PROVE m + 1 \in M
  <2>1. PICK g : CloseLoop(g, s, p, i, m)
    OBVIOUS
  <2>2. m \in Nat /\ m \in i .. NENTRY /\ m + 1 \in i .. NENTRY
    BY <1>1, <1>3
  <2> DEFINE h == [j \in i .. m + 1 |-> IF j = m + 1 THEN CloseOne(g[m], p, m) ELSE g[j]]
  <2>3. ASSUME NEW j \in i .. m
        PROVE  g[j] = IF j = i THEN s ELSE CloseOne(g[j - 1], p, j - 1)
    BY <2>1, <2>2 DEF CloseLoop
  <2>4. h[m + 1] = CloseOne(g[m], p, m) /\ \A j \in i .. m : h[j] = g[j]
    BY <2>2
  <2>5. ASSUME NEW j \in i .. m + 1
        PROVE  h[j] = IF j = i THEN s ELSE CloseOne(h[j - 1], p, j - 1)
    <3> HIDE DEF h
    <3>1. CASE j = m + 1
      <4>1. j # i /\ j - 1 = m /\ m \in i .. m
        BY <2>2, <3>1
      <4> QED
        BY <2>4, <3>1, <4>1
    <3>2. CASE j # m + 1 /\ j = i
      <4>1. j \in i .. m
        BY <2>2, <3>2
      <4> QED
        BY <2>3, <2>4, <3>2, <4>1
    <3>3. CASE j # m + 1 /\ j # i
      <4>1. j \in i .. m /\ j - 1 \in i .. m
        BY <2>2, <3>3
      <4> QED
        BY <2>3, <2>4, <3>3, <4>1
    <3> QED
      BY <3>1, <3>2, <3>3
  <2>6. h = [j \in i .. m + 1 |-> h[j]]
    OBVIOUS
  <2> HIDE DEF h
  <2>7. CloseLoop(h, s, p, i, m + 1)
    BY <2>5, <2>6 DEF CloseLoop
  <2> QED
    BY <2>2, <2>7
<1>4. N = {}
  <2> SUFFICES ASSUME N # {} PROVE FALSE
    OBVIOUS
  <2>1. N \subseteq Nat
    BY <1>1
  <2>2. PICK k \in N : \A y \in N : k <= y
    BY <2>1, Least
  <2> HIDE DEF M
  <2>3. k \in Nat /\ k \in i .. NENTRY /\ k # i
    BY <1>1, <1>2
  <2>4. k - 1 \in i .. NENTRY /\ k - 1 # NENTRY /\ ~(k <= k - 1) /\ (k - 1) + 1 = k
    BY <1>1, <2>3
  <2>5. k - 1 \in M
    BY <2>2, <2>4
  <2>6. k \in M
    BY <1>3, <2>4, <2>5
  <2> QED
    BY <2>6
<1> QED
  BY <1>1, <1>4

LEMMA CloseFromLoop ==
    ASSUME NEW s, NEW p, NEW i \in Nat, i <= NENTRY
    PROVE  \E g : CloseLoop(g, s, p, i, NENTRY) /\ CloseFrom(s, p, i) = g[NENTRY]
<1> DEFINE g == CHOOSE f : CloseLoop(f, s, p, i, NENTRY)
<1>1. CloseLoop(g, s, p, i, NENTRY)
  BY CloseLoopExists
<1>2. CloseFrom(s, p, i) = g[NENTRY]
  BY DEF CloseFrom, CloseLoop, CloseOne
<1> QED
  BY <1>1, <1>2

LEMMA CloseOneGood ==
    ASSUME NEW s, NEW W, NEW p \in Procs, NEW k \in Fds, Good(s, W)
    PROVE  LET t == CloseOne(s, p, k)
           IN  Good(t, W) /\ t.files = SetFd(s.files, p, k, FreeFd) /\ SameBut(s, t)
<1> DEFINE t == CloseOne(s, p, k)
<1>1. Clean(s.files) /\ s.files \in Tables
  BY GoodFacts
<1>2. CASE IsOpen(s, p, k)
  <2>1. OpenFd(s.files[p].fd[k])
    BY <1>1, <1>2, CleanFree DEF IsOpen, File
  <2>2. t = fd_array_close(s, p, k)
    BY <1>2 DEF CloseOne
  <2>3. Good(t, W) /\ t.files = SetFd(s.files, p, k, FreeFd) /\ SameBut(s, t)
    BY <2>1, <2>2, FdClose
  <2> QED
    BY <2>3
<1>3. CASE ~IsOpen(s, p, k)
  <2>1. s.files[p].fd[k] = FreeFd
    BY <1>1, <1>3, CleanFree DEF IsOpen, File, OpenFd
  <2>2. t = s
    BY <1>3 DEF CloseOne
  <2>3. SetFd(s.files, p, k, FreeFd) = s.files
    BY <1>1, <2>1, SetFdTwice, FreeFdType
  <2> QED
    BY <2>2, <2>3 DEF SameBut
<1> QED
  BY <1>2, <1>3

(* The tables of t are those of s, but p's descriptors from i to m - 1 are *)
(* free.                                                                   *)
ClosedIn(s, t, p, i, m) ==
    /\ SameBut(s, t)
    /\ \A q \in Procs \ {p} : t.files[q] = s.files[q]
    /\ t.files[p].pwd = s.files[p].pwd
    /\ \A j \in Fds : t.files[p].fd[j] = IF i <= j /\ j < m THEN FreeFd ELSE s.files[p].fd[j]

LEMMA CloseFromGood ==
    ASSUME NEW s, NEW W, NEW p \in Procs, NEW i \in Nat, i <= NENTRY, Good(s, W)
    PROVE  LET t == CloseFrom(s, p, i)
           IN  Good(t, W) /\ ClosedIn(s, t, p, i, NENTRY)
<1>1. PICK g : CloseLoop(g, s, p, i, NENTRY) /\ CloseFrom(s, p, i) = g[NENTRY]
  BY CloseFromLoop
<1>2. NENTRY \in Nat /\ Fds = 0 .. NENTRY - 1 /\ Fds \subseteq Nat
  BY FdsFinite
<1>3. ASSUME NEW j \in i .. NENTRY
      PROVE  g[j] = IF j = i THEN s ELSE CloseOne(g[j - 1], p, j - 1)
  BY <1>1, <1>2 DEF CloseLoop
<1> DEFINE Ok(m) == Good(g[m], W) /\ ClosedIn(s, g[m], p, i, m)
           N == {m \in i .. NENTRY : ~Ok(m)}
<1>4. Ok(i)
  <2>1. i \in i .. NENTRY
    BY <1>2
  <2>2. g[i] = s
    BY <1>3, <2>1
  <2>3. \A j \in Fds : ~(i <= j /\ j < i)
    BY <1>2
  <2> QED
    BY <2>2, <2>3 DEF ClosedIn, SameBut
<1>5. ASSUME NEW m \in i .. NENTRY, m # NENTRY, Ok(m) PROVE Ok(m + 1)
  <2>1. m \in Nat /\ m \in Fds /\ m + 1 \in i .. NENTRY /\ m + 1 # i /\ (m + 1) - 1 = m
    BY <1>2, <1>5
  <2>2. g[m + 1] = CloseOne(g[m], p, m)
    BY <1>3, <2>1
  <2> DEFINE a == g[m]
             b == g[m + 1]
  <2>3. Good(a, W) /\ ClosedIn(s, a, p, i, m)
    BY <1>5
  <2> HIDE DEF a, b
  <2>4. Good(b, W) /\ b.files = SetFd(a.files, p, m, FreeFd) /\ SameBut(a, b)
    BY <2>1, <2>2, <2>3, CloseOneGood DEF a, b
  <2>5. a.files \in Tables
    BY <2>3, GoodFacts
  <2>6. /\ \A q \in Procs : b.files[q].pwd = a.files[q].pwd
        /\ \A j \in Fds : b.files[p].fd[j] = IF j = m THEN FreeFd ELSE a.files[p].fd[j]
        /\ \A q \in Procs : q # p => b.files[q] = a.files[q]
    BY <2>1, <2>4, <2>5, SetFdValue, FreeFdType
  <2>7. i <= m /\ \A j \in Fds : j # m => (j < m + 1 <=> j < m)
    BY <1>2, <2>1
  <2>8. ASSUME NEW j \in Fds
        PROVE  b.files[p].fd[j] = IF i <= j /\ j < m + 1 THEN FreeFd ELSE s.files[p].fd[j]
    <3>1. a.files[p].fd[j] = IF i <= j /\ j < m THEN FreeFd ELSE s.files[p].fd[j]
      BY <2>3 DEF ClosedIn
    <3>2. CASE j = m
      <4>1. i <= j /\ j < m + 1
        BY <2>1, <2>7, <3>2
      <4> QED
        BY <2>6, <3>2, <4>1
    <3>3. CASE j # m
      BY <2>6, <2>7, <3>1, <3>3
    <3> QED
      BY <3>2, <3>3
  <2>9. ClosedIn(s, b, p, i, m + 1)
    BY <2>3, <2>4, <2>6, <2>8 DEF ClosedIn, SameBut
  <2> QED
    BY <2>4, <2>9 DEF b
<1> HIDE DEF Ok
<1>6. N = {}
  <2> SUFFICES ASSUME N # {} PROVE FALSE
    OBVIOUS
  <2>1. N \subseteq Nat
    BY <1>2
  <2>2. PICK k \in N : \A y \in N : k <= y
    BY <2>1, Least
  <2>3. k \in Nat /\ k \in i .. NENTRY /\ k # i /\ ~Ok(k)
    BY <1>2, <1>4
  <2>4. k - 1 \in i .. NENTRY /\ k - 1 # NENTRY /\ ~(k <= k - 1) /\ (k - 1) + 1 = k
    BY <1>2, <2>3
  <2>5. Ok(k - 1)
    BY <2>2, <2>4
  <2> QED
    BY <1>5, <2>3, <2>4, <2>5
<1>7. Ok(NENTRY)
  <2>1. NENTRY \in i .. NENTRY
    BY <1>2
  <2> QED
    BY <1>6, <2>1
<1> QED
  BY <1>1, <1>7 DEF Ok

(* One turn of dup_files, and the values of its loop.                      *)
DupOne(t, s, c, p, k) ==
    IF IsOpen(s, p, k) THEN fd_array_dup(t, c, k, File(s, p, k)) ELSE t

DupLoop(g, t, s, c, p, m) ==
    g = [j \in 0 .. m |-> IF j = 0 THEN t ELSE DupOne(g[j - 1], s, c, p, j - 1)]

LEMMA DupLoopExists ==
    ASSUME NEW t, NEW s, NEW c, NEW p
    PROVE  \E g : DupLoop(g, t, s, c, p, NENTRY)
<1> DEFINE M == {m \in 0 .. NENTRY : \E g : DupLoop(g, t, s, c, p, m)}
           N == (0 .. NENTRY) \ M
<1>1. NENTRY \in Nat
  BY FdsFinite
<1>2. 0 \in M
  <2> DEFINE g == [j \in 0 .. 0 |-> t]
  <2>1. DupLoop(g, t, s, c, p, 0)
    BY DEF DupLoop
  <2> QED
    BY <1>1, <2>1
<1>3. ASSUME NEW m \in M, m # NENTRY PROVE m + 1 \in M
  <2>1. PICK g : DupLoop(g, t, s, c, p, m)
    OBVIOUS
  <2>2. m \in Nat /\ m \in 0 .. NENTRY /\ m + 1 \in 0 .. NENTRY
    BY <1>1, <1>3
  <2> DEFINE h == [j \in 0 .. m + 1 |-> IF j = m + 1 THEN DupOne(g[m], s, c, p, m) ELSE g[j]]
  <2>3. ASSUME NEW j \in 0 .. m
        PROVE  g[j] = IF j = 0 THEN t ELSE DupOne(g[j - 1], s, c, p, j - 1)
    BY <2>1, <2>2 DEF DupLoop
  <2>4. h[m + 1] = DupOne(g[m], s, c, p, m) /\ \A j \in 0 .. m : h[j] = g[j]
    BY <2>2
  <2>5. ASSUME NEW j \in 0 .. m + 1
        PROVE  h[j] = IF j = 0 THEN t ELSE DupOne(h[j - 1], s, c, p, j - 1)
    <3> HIDE DEF h
    <3>1. CASE j = m + 1
      <4>1. j # 0 /\ j - 1 = m /\ m \in 0 .. m
        BY <2>2, <3>1
      <4> QED
        BY <2>4, <3>1, <4>1
    <3>2. CASE j # m + 1 /\ j = 0
      <4>1. j \in 0 .. m
        BY <2>2, <3>2
      <4> QED
        BY <2>3, <2>4, <3>2, <4>1
    <3>3. CASE j # m + 1 /\ j # 0
      <4>1. j \in 0 .. m /\ j - 1 \in 0 .. m
        BY <2>2, <3>3
      <4> QED
        BY <2>3, <2>4, <3>3, <4>1
    <3> QED
      BY <3>1, <3>2, <3>3
  <2>6. h = [j \in 0 .. m + 1 |-> h[j]]
    OBVIOUS
  <2> HIDE DEF h
  <2>7. DupLoop(h, t, s, c, p, m + 1)
    BY <2>5, <2>6 DEF DupLoop
  <2> QED
    BY <2>2, <2>7
<1>4. N = {}
  <2> SUFFICES ASSUME N # {} PROVE FALSE
    OBVIOUS
  <2>1. N \subseteq Nat
    BY <1>1
  <2>2. PICK k \in N : \A y \in N : k <= y
    BY <2>1, Least
  <2> HIDE DEF M
  <2>3. k \in Nat /\ k \in 0 .. NENTRY /\ k # 0
    BY <1>1, <1>2
  <2>4. k - 1 \in 0 .. NENTRY /\ k - 1 # NENTRY /\ ~(k <= k - 1) /\ (k - 1) + 1 = k
    BY <1>1, <2>3
  <2>5. k - 1 \in M
    BY <2>2, <2>4
  <2>6. k \in M
    BY <1>3, <2>4, <2>5
  <2> QED
    BY <2>6
<1> QED
  BY <1>1, <1>4

(* The table of c with the current directory of p and no open descriptor.  *)
Started(s, c, p) ==
    LET pwd == s.files[p].pwd
        t   == IF pwd = None THEN s ELSE inode_ref_inc(s, pwd)
    IN  [t EXCEPT !.files[c] = [files_create EXCEPT !.pwd = pwd]]

LEMMA DupFilesLoop ==
    ASSUME NEW s, NEW c, NEW p
    PROVE  \E g : DupLoop(g, Started(s, c, p), s, c, p, NENTRY) /\ dup_files(s, c, p) = g[NENTRY]
<1> DEFINE g == CHOOSE f : DupLoop(f, Started(s, c, p), s, c, p, NENTRY)
<1>1. DupLoop(g, Started(s, c, p), s, c, p, NENTRY)
  BY DupLoopExists
<1>2. dup_files(s, c, p) = g[NENTRY]
  BY DEF dup_files, DupLoop, DupOne, Started
<1> QED
  BY <1>1, <1>2

LEMMA OpenOfSame ==
    ASSUME NEW F, NEW G, \A q \in Procs, j \in Fds : G[q].fd[j] = F[q].fd[j]
    PROVE  OpenOf(G) = OpenOf(F)
<1>1. ASSUME NEW n PROVE OpenSet(G, n) = OpenSet(F, n)
  <2>1. ASSUME NEW x \in Procs \X Fds PROVE G[x[1]].fd[x[2]] = F[x[1]].fd[x[2]]
    OBVIOUS
  <2> QED
    BY <2>1 DEF OpenSet
<1> QED
  BY <1>1 DEF OpenOf

(* A table with its current directory.                                     *)
SetPwd(F, p, d) == [F EXCEPT ![p].pwd = d]

LEMMA SetPwdValue ==
    ASSUME NEW F, NEW p \in Procs, NEW d \in {None, Root}, Clean(F)
    PROVE  LET G == SetPwd(F, p, d)
           IN  /\ Clean(G) /\ OpenOf(G) = OpenOf(F)
               /\ \A q \in Procs : G[q].fd = F[q].fd
               /\ \A q \in Procs : G[q].pwd = IF q = p THEN d ELSE F[q].pwd
               /\ \A q \in Procs : q # p => G[q] = F[q]
<1> DEFINE G == SetPwd(F, p, d)
           T == [pwd : {None, Root}, fd : [Fds -> Fd]]
           e == [F[p] EXCEPT !.pwd = d]
<1>1. F \in [Procs -> T]
  BY DEF Clean, Tables
<1>2. F[p] \in T
  BY <1>1
<1>3. e \in T /\ e.pwd = d /\ e.fd = F[p].fd
  BY <1>2
<1>4. G = [F EXCEPT ![p] = e]
  BY DEF SetPwd
<1> HIDE DEF e, T
<1>5. G \in [Procs -> T] /\ \A q \in Procs : G[q] = IF q = p THEN e ELSE F[q]
  BY <1>1, <1>3, <1>4
<1> HIDE DEF G
<1>6. \A q \in Procs : G[q].fd = F[q].fd /\ G[q].pwd = IF q = p THEN d ELSE F[q].pwd
  BY <1>3, <1>5
<1>7. Clean(G)
  BY <1>5, <1>6 DEF Clean, Tables, T
<1>8. OpenOf(G) = OpenOf(F)
  BY <1>6, OpenOfSame
<1> QED
  BY <1>5, <1>6, <1>7, <1>8 DEF G

(* dup_files takes a reference to the current directory first.             *)
LEMMA StartedGood ==
    ASSUME NEW s, NEW W, NEW c \in Procs, NEW p \in Procs, Good(s, W),
           W[p] = s.files[p].pwd, W[c] = None, s.files[c] = files_create
    PROVE  LET t == Started(s, c, p)
               pwd == s.files[p].pwd
           IN  /\ Good(t, [W EXCEPT ![c] = pwd]) /\ t.files = SetPwd(s.files, c, pwd)
               /\ SameBut(s, t)
<1> DEFINE F == s.files
           d == F[p].pwd
           V == [W EXCEPT ![c] = d]
           R == RefOf(F, W, s.boot, s.lost)
           u == IF d = None THEN s ELSE inode_ref_inc(s, d)
           G == SetPwd(F, c, d)
           t == Started(s, c, p)
<1>1. /\ Held(s, R, OpenOf(F)) /\ Clean(F) /\ F \in Tables /\ W \in Pwds
      /\ s.boot \in {None, Root} /\ s.vdev = DeviceList /\ s.lost \in Demand
      /\ Starts(s, p, R)
  BY GoodFacts DEF Good
<1>2. d \in {None, Root}
  BY <1>1 DEF Tables
<1>3. G = [F EXCEPT ![c] = [files_create EXCEPT !.pwd = d]]
  BY DEF SetPwd
<1>4. /\ V \in Pwds /\ SameRest(s, u)
      /\ Held(u, RefOf(F, V, s.boot, s.lost), OpenOf(F))
  <2>1. CASE d = None
    <3>1. V = W /\ u = s
      BY <1>1, <2>1 DEF Pwds
    <3> HIDE DEF V, u
    <3> QED
      BY <1>1, <3>1 DEF SameRest
  <2>2. CASE d = Root
    <3>1. R[Root] > 0 /\ u = inode_ref_inc(s, Root)
      BY <1>1, <2>2, NodesApart DEF Starts
    <3>2. V \in Pwds /\ PwdOf(V) = Plus(PwdOf(W), Root)
      <4>1. V = [W EXCEPT ![c] = Root]
        BY <2>2
      <4> HIDE DEF V
      <4> QED
        BY <1>1, <4>1, PwdSet
    <3> HIDE DEF V, u
    <3>3. OpenOf(F) \in Demand /\ PwdOf(W) \in Demand
      BY OpenOfType, PwdOfType, NodesApart
    <3>4. RefOf(F, V, s.boot, s.lost) = Plus(R, Root)
      BY <1>1, <3>2, <3>3, RefSumPwd, NodesApart DEF RefOf
    <3> HIDE DEF R
    <3>5. Held(u, Plus(R, Root), OpenOf(F)) /\ SameRest(s, u)
      BY <1>1, <3>1, RefIncHeld, NodesApart
    <3> QED
      BY <3>2, <3>4, <3>5
  <2> QED
    BY <1>2, <2>1, <2>2
<1>5. t = [u EXCEPT !.files[c] = [files_create EXCEPT !.pwd = d]]
  BY DEF Started
<1> HIDE DEF u, V, t
<1>6. t = [u EXCEPT !.files = G]
  <2>1. u.files = F /\ IsKernel(u)
    BY <1>4, HeldFits DEF SameRest
  <2>2. t = [u EXCEPT !.files = [u.files EXCEPT ![c] = [files_create EXCEPT !.pwd = d]]]
    BY <1>5, <2>1 DEF IsKernel
  <2> QED
    BY <1>3, <2>1, <2>2
<1> DEFINE D == RefOf(F, V, s.boot, s.lost)
           O == OpenOf(F)
<1>7. Clean(G) /\ OpenOf(G) = O
  BY <1>1, <1>2, SetPwdValue
<1>8. Held(u, D, O)
  BY <1>4
<1>9. RefOf(G, V, s.boot, s.lost) = D
  BY <1>7 DEF RefOf
<1> HIDE DEF G, D, O
<1>10. Held(t, D, O) /\ t.files = G /\ SameBut(u, t)
  BY <1>6, <1>8, FilesHeld
<1>11. SameBut(s, t)
  BY <1>4, <1>10 DEF SameBut, SameRest
<1>12. Good(t, V)
  BY <1>1, <1>4, <1>7, <1>9, <1>10, <1>11 DEF Good, SameBut
<1> QED
  BY <1>10, <1>11, <1>12 DEF t, G, V

(* The first m descriptors of c are those of p.                            *)
CopiedTo(s, t, c, p, m) ==
    /\ SameBut(s, t)
    /\ \A q \in Procs \ {c} : t.files[q] = s.files[q]
    /\ t.files[c].pwd = s.files[p].pwd
    /\ \A j \in Fds : t.files[c].fd[j] = IF j < m THEN s.files[p].fd[j] ELSE FreeFd

LEMMA DupFilesGood ==
    ASSUME NEW s, NEW W, NEW c \in Procs, NEW p \in Procs, c # p, Good(s, W),
           W[p] = s.files[p].pwd, W[c] = None, s.files[c] = files_create
    PROVE  LET t == dup_files(s, c, p)
           IN  Good(t, [W EXCEPT ![c] = s.files[p].pwd]) /\ CopiedTo(s, t, c, p, NENTRY)
<1> DEFINE u == Started(s, c, p)
           d == s.files[p].pwd
           V == [W EXCEPT ![c] = d]
<1>1. PICK g : DupLoop(g, u, s, c, p, NENTRY) /\ dup_files(s, c, p) = g[NENTRY]
  BY DupFilesLoop
<1>2. NENTRY \in Nat /\ Fds = 0 .. NENTRY - 1 /\ Fds \subseteq Nat
  BY FdsFinite
<1>3. ASSUME NEW j \in 0 .. NENTRY
      PROVE  g[j] = IF j = 0 THEN u ELSE DupOne(g[j - 1], s, c, p, j - 1)
  BY <1>1, <1>2 DEF DupLoop
<1>4. Good(u, V) /\ u.files = SetPwd(s.files, c, d) /\ SameBut(s, u)
  BY StartedGood
<1>5. Clean(s.files) /\ s.files \in Tables /\ d \in {None, Root} /\ s.files[p].fd \in [Fds -> Fd]
  BY GoodFacts DEF Tables
<1> HIDE DEF u, V, d
<1> DEFINE Ok(m) == Good(g[m], V) /\ CopiedTo(s, g[m], c, p, m)
           N == {m \in 0 .. NENTRY : ~Ok(m)}
<1>6. Ok(0)
  <2>1. 0 \in 0 .. NENTRY
    BY <1>2
  <2>2. g[0] = u
    BY <1>3, <2>1
  <2>3. /\ \A q \in Procs : u.files[q].pwd = IF q = c THEN d ELSE s.files[q].pwd
        /\ \A q \in Procs : q # c => u.files[q] = s.files[q]
        /\ \A q \in Procs : u.files[q].fd = s.files[q].fd
    BY <1>4, <1>5, SetPwdValue
  <2>4. \A j \in Fds : u.files[c].fd[j] = FreeFd /\ ~(j < 0)
    BY <1>2, <2>3 DEF files_create
  <2>5. CopiedTo(s, u, c, p, 0)
    BY <1>4, <2>3, <2>4 DEF CopiedTo, d
  <2> QED
    BY <1>4, <2>2, <2>5
<1>7. ASSUME NEW m \in 0 .. NENTRY, m # NENTRY, Ok(m) PROVE Ok(m + 1)
  <2>1. m \in Nat /\ m \in Fds /\ m + 1 \in 0 .. NENTRY /\ m + 1 # 0 /\ (m + 1) - 1 = m
    BY <1>2, <1>7
  <2>2. g[m + 1] = DupOne(g[m], s, c, p, m)
    BY <1>3, <2>1
  <2> DEFINE a == g[m]
             b == g[m + 1]
             e == s.files[p].fd[m]
  <2>3. Good(a, V) /\ CopiedTo(s, a, c, p, m)
    BY <1>7
  <2> HIDE DEF a, b, e
  <2>4. e \in Fd
    BY <1>5, <2>1 DEF e
  <2>5. /\ a.files \in Tables /\ Clean(a.files) /\ V \in Pwds
        /\ a.boot \in {None, Root} /\ a.vdev = DeviceList /\ a.lost \in Demand
        /\ Held(a, RefOf(a.files, V, a.boot, a.lost), OpenOf(a.files))
    BY <2>3, GoodFacts DEF Good
  <2>6. a.files[c].fd[m] = FreeFd /\ a.files[p] = s.files[p]
    <3>1. ~(m < m)
      BY <2>1
    <3> QED
      BY <2>1, <2>3, <3>1 DEF CopiedTo
  <2>7. Good(b, V) /\ b.files = SetFd(a.files, c, m, e) /\ SameBut(a, b)
    <3>1. CASE IsOpen(s, p, m)
      <4>1. OpenFd(e) /\ File(s, p, m) = e
        BY <1>5, <2>1, <3>1, CleanFree DEF IsOpen, File, e
      <4>2. b = fd_array_dup(a, c, m, e)
        BY <2>2, <3>1, <4>1 DEF DupOne, a, b
      <4>3. OpenOf(a.files)[e.node] > 0
        BY <2>1, <2>5, <2>6, <4>1, OpenPositive DEF e
      <4>4. a.files = SetFd(a.files, c, m, FreeFd)
        BY <2>1, <2>5, <2>6, SetFdTwice, FreeFdType
      <4> QED
        BY <2>1, <2>5, <2>6, <4>1, <4>2, <4>3, <4>4, FdDup, FreeFdType
    <3>2. CASE ~IsOpen(s, p, m)
      <4>1. e = FreeFd
        BY <1>5, <2>1, <3>2, CleanFree DEF IsOpen, File, e, OpenFd
      <4>2. b = a
        BY <2>2, <3>2 DEF DupOne, a, b
      <4>3. a.files = SetFd(a.files, c, m, FreeFd)
        BY <2>1, <2>5, <2>6, SetFdTwice, FreeFdType
      <4> QED
        BY <2>3, <4>1, <4>2, <4>3 DEF SameBut
    <3> QED
      BY <3>1, <3>2
  <2>8. /\ \A q \in Procs : b.files[q].pwd = a.files[q].pwd
        /\ \A j \in Fds : b.files[c].fd[j] = IF j = m THEN e ELSE a.files[c].fd[j]
        /\ \A q \in Procs : q # c => b.files[q] = a.files[q]
    BY <2>1, <2>4, <2>5, <2>7, SetFdValue
  <2>9. m < m + 1 /\ \A j \in Fds : j # m => (j < m + 1 <=> j < m)
    BY <1>2, <2>1
  <2>10. ASSUME NEW j \in Fds
         PROVE  b.files[c].fd[j] = IF j < m + 1 THEN s.files[p].fd[j] ELSE FreeFd
    <3>1. a.files[c].fd[j] = IF j < m THEN s.files[p].fd[j] ELSE FreeFd
      BY <2>3 DEF CopiedTo
    <3>2. CASE j = m
      BY <2>8, <2>9, <3>2 DEF e
    <3>3. CASE j # m
      BY <2>8, <2>9, <3>1, <3>3
    <3> QED
      BY <3>2, <3>3
  <2>11. CopiedTo(s, b, c, p, m + 1)
    BY <2>3, <2>7, <2>8, <2>10 DEF CopiedTo, SameBut
  <2> QED
    BY <2>7, <2>11 DEF b
<1> HIDE DEF Ok
<1>8. N = {}
  <2> SUFFICES ASSUME N # {} PROVE FALSE
    OBVIOUS
  <2>1. N \subseteq Nat
    BY <1>2
  <2>2. PICK k \in N : \A y \in N : k <= y
    BY <2>1, Least
  <2>3. k \in Nat /\ k \in 0 .. NENTRY /\ k # 0 /\ ~Ok(k)
    BY <1>2, <1>6
  <2>4. k - 1 \in 0 .. NENTRY /\ k - 1 # NENTRY /\ ~(k <= k - 1) /\ (k - 1) + 1 = k
    BY <1>2, <2>3
  <2>5. Ok(k - 1)
    BY <2>2, <2>4
  <2> QED
    BY <1>7, <2>3, <2>4, <2>5
<1>9. Ok(NENTRY)
  <2>1. NENTRY \in 0 .. NENTRY
    BY <1>2
  <2> QED
    BY <1>8, <2>1
<1> QED
  BY <1>1, <1>9 DEF Ok, V, d

(* files_destroy drops the current directory, closes the descriptors and   *)
(* leaves an empty table.                                                  *)
LEMMA DestroyGood ==
    ASSUME NEW s, NEW W, NEW p \in Procs, Good(s, W), W[p] = s.files[p].pwd
    PROVE  LET t == files_destroy(s, p)
           IN  /\ Good(t, [W EXCEPT ![p] = None]) /\ SameBut(s, t)
               /\ t.files[p] = files_create
               /\ \A q \in Procs : q # p => t.files[q] = s.files[q]
<1> DEFINE F == s.files
           pwd == F[p].pwd
           V == [W EXCEPT ![p] = None]
           R == RefOf(F, W, s.boot, s.lost)
           d == IF pwd = None THEN s ELSE inode_ref_dec(s, pwd)
           u == CloseFrom(d, p, 0)
           t == files_destroy(s, p)
<1>1. /\ Held(s, R, OpenOf(F)) /\ Clean(F) /\ F \in Tables /\ W \in Pwds
      /\ s.boot \in {None, Root} /\ s.vdev = DeviceList /\ s.lost \in Demand
  BY GoodFacts DEF Good
<1>2. pwd \in {None, Root} /\ NENTRY \in Nat /\ 0 \in Nat /\ 0 <= NENTRY
  BY <1>1, FdsFinite DEF Tables
<1>3. /\ V \in Pwds /\ V[p] = None
      /\ \A q \in Procs : q # p => V[q] = W[q]
  BY <1>1 DEF Pwds
<1>4. t = [Asserted(u, \A i \in Fds : File(u, p, i).status = "FD_NONE")
             EXCEPT !.files[p] = files_create]
  BY DEF files_destroy
<1>5. SameRest(s, d) /\ Held(d, RefOf(F, V, s.boot, s.lost), OpenOf(F))
  <2>1. CASE pwd = None
    <3>1. V = W /\ d = s
      BY <1>1, <2>1 DEF Pwds
    <3> HIDE DEF V, d
    <3> QED
      BY <1>1, <3>1 DEF SameRest
  <2>2. CASE pwd = Root
    <3>1. d = inode_ref_dec(s, Root)
      BY <2>2, NodesApart
    <3>2. W = [V EXCEPT ![p] = Root]
      BY <1>1, <2>2 DEF Pwds
    <3> HIDE DEF V, d
    <3>3. PwdOf(W) = Plus(PwdOf(V), Root)
      BY <1>3, <3>2, PwdSet
    <3>4. OpenOf(F) \in Demand /\ PwdOf(V) \in Demand
      BY OpenOfType, PwdOfType, NodesApart
    <3> DEFINE D == RefOf(F, V, s.boot, s.lost)
               O == OpenOf(F)
    <3>5. R = Plus(D, Root)
      BY <1>1, <3>3, <3>4, RefSumPwd, NodesApart DEF RefOf
    <3>6. Fit(D, O)
      <4> DEFINE a == OpenOf(F)
                 w == PwdOf(V)
      <4>1. D = RefSum(a, w, s.boot, s.lost) /\ O = a
        BY DEF RefOf
      <4> HIDE DEF a, w, D, O
      <4>2. a \in Demand /\ w \in Demand /\ s.lost \in Demand
        BY <1>1, <3>4 DEF a, w
      <4>3. /\ D \in Demand
            /\ \A n \in Nodes : D[n] >= a[n] + w[n]
            /\ \A n \in Nodes : n \in Devices => D[n] > a[n]
        BY <4>1, <4>2, RefSumValue
      <4>4. \A n \in Nodes : D[n] >= a[n]
        BY <4>2, <4>3 DEF Demand
      <4>5. Devices \subseteq Nodes
        BY NodesApart
      <4> QED
        BY <4>1, <4>2, <4>3, <4>4, <4>5 DEF Fit
    <3> HIDE DEF D, O, R
    <3>7. Held(s, Plus(D, Root), O)
      BY <1>1, <3>5 DEF O
    <3>8. Held(d, D, O) /\ SameRest(s, d)
      BY <3>1, <3>6, <3>7, DropHeld, NodesApart
    <3> QED
      BY <3>8 DEF D, O
  <2> QED
    BY <1>2, <2>1, <2>2
<1> HIDE DEF V, d
<1>6. Good(d, V) /\ d.files = F /\ SameBut(s, d)
  BY <1>1, <1>3, <1>5 DEF Good, SameRest, SameBut
<1>7. Good(u, V) /\ ClosedIn(d, u, p, 0, NENTRY)
  BY <1>2, <1>6, CloseFromGood
<1> HIDE DEF u, t
<1>8. /\ SameBut(s, u) /\ \A q \in Procs : q # p => u.files[q] = F[q]
      /\ \A j \in Fds : u.files[p].fd[j] = FreeFd
  <2>1. \A j \in Fds : 0 <= j /\ j < NENTRY
    BY FdsFinite
  <2> QED
    BY <1>6, <1>7, <2>1 DEF ClosedIn, SameBut
<1>9. Asserted(u, \A i \in Fds : File(u, p, i).status = "FD_NONE") = u
  BY <1>8, FreeFdType DEF Asserted, File
<1> DEFINE G == [u.files EXCEPT ![p] = files_create]
           H == SetPwd(u.files, p, None)
<1>10. u.files \in Tables /\ Clean(u.files) /\ IsKernel(u)
  BY <1>7, GoodFacts
<1>11. t = [u EXCEPT !.files = G]
  BY <1>4, <1>9, <1>10 DEF IsKernel
<1>12. G = H
  <2>1. u.files[p] \in [pwd : {None, Root}, fd : [Fds -> Fd]]
    BY <1>10 DEF Tables
  <2>2. u.files[p].fd = [i \in Fds |-> FreeFd]
    BY <1>8, <2>1
  <2>3. [u.files[p] EXCEPT !.pwd = None] = files_create
    BY <2>1, <2>2 DEF files_create
  <2> QED
    BY <2>3 DEF SetPwd
<1>13. Clean(H) /\ OpenOf(H) = OpenOf(u.files)
  BY <1>10, SetPwdValue
<1>14. G[p] = files_create /\ \A q \in Procs : q # p => G[q] = u.files[q]
  BY <1>10 DEF Tables
<1> HIDE DEF G, H
<1> DEFINE D == RefOf(u.files, V, u.boot, u.lost)
           O == OpenOf(u.files)
<1>15. /\ Held(u, D, O) /\ u.boot \in {None, Root} /\ u.vdev = DeviceList /\ u.lost \in Demand
  BY <1>7 DEF Good
<1>16. RefOf(G, V, u.boot, u.lost) = D /\ OpenOf(G) = O
  BY <1>12, <1>13 DEF RefOf
<1> HIDE DEF D, O
<1>17. Held(t, D, O) /\ t.files = G /\ SameBut(u, t)
  BY <1>11, <1>15, FilesHeld
<1>18. Good(t, V)
  BY <1>3, <1>12, <1>13, <1>15, <1>16, <1>17 DEF Good, SameBut
<1>19. SameBut(s, t)
  BY <1>8, <1>17 DEF SameBut
<1> QED
  BY <1>8, <1>14, <1>17, <1>18, <1>19 DEF t, V

(* vfs_getcwd leaves everything as it was.                                 *)
LEMMA GetcwdGood ==
    ASSUME NEW s, NEW W, NEW p \in Procs, NEW short, Good(s, W), W[p] = s.files[p].pwd
    PROVE  LET t == vfs_getcwd(s, p, short)
           IN  Good(t, W) /\ t.files = s.files /\ SameBut(s, t)
<1> DEFINE R == RefOf(s.files, W, s.boot, s.lost)
           O == OpenOf(s.files)
           n == vfs_get_curdir(s, p)
           t == vfs_getcwd(s, p, short)
<1>1. Held(s, R, O) /\ Places(s) /\ Starts(s, p, R)
  BY GoodFacts DEF Good
<1> SUFFICES Held(t, R, O) /\ SameRest(s, t)
  <2> HIDE DEF t
  <2> QED
    BY GoodSame DEF SameRest, SameBut, t
<1> HIDE DEF R, O
<1>2. Fit(R, O) /\ R \in Demand
  BY <1>1, HeldFits DEF Fit
<1>3. Found(s, n, R, O) /\ (n.ret = "0" => n.out = Root)
  BY <1>1, CurdirFound DEF Starts
<1>4. t = IF Failed(n) THEN n
          ELSE IF vop(n, n.out, "namefile").panic # None THEN vop(n, n.out, "namefile")
          ELSE inode_ref_dec(sfs_namefile(vop(n, n.out, "namefile"), n.out, short), n.out)
  BY DEF vfs_getcwd
<1> HIDE DEF n, t
<1>5. CASE n.ret # "0"
  BY <1>3, <1>4, <1>5 DEF Found, Failed
<1>6. CASE n.ret = "0"
  <2> DEFINE R1 == Plus(R, Root)
             R2 == Plus(R1, Root)
             R3 == Plus(R2, Root)
             v == vop(n, Root, "namefile")
             i == inode_ref_inc(v, Root)
             up == sfs_lookup_once(i, Root, "..")
             a == inode_ref_dec(up, Root)
             b == inode_ref_dec(a, Root)
             f == sfs_namefile(v, Root, short)
  <2>1. Held(n, R1, O) /\ n.out = Root /\ SameRest(s, n) /\ Root \in Nodes
    BY <1>3, <1>6, NodesApart DEF Found
  <2>2. Fit(R1, O) /\ R1[Root] > 0
    BY <1>2, FitPlus, NodesApart
  <2>3. "namefile" \in Ops(Root)
    BY FilesAssumption, NodesApart DEF Ops
  <2> HIDE DEF R1
  <2>4. Held(v, R1, O) /\ v.panic = None /\ SameRest(n, v)
    BY <2>1, <2>2, <2>3, VopHeld
  <2>5. t = inode_ref_dec(f, Root)
    BY <1>4, <1>6, <2>1, <2>4 DEF Failed
  <2> HIDE DEF v
  <2>6. Held(f, R1, O) /\ SameRest(v, f)
    <3>1. CASE short
      <4>1. f = Ret(v, "E_NO_MEM")
        BY <3>1 DEF sfs_namefile
      <4> HIDE DEF f
      <4> QED
        BY <2>4, <4>1, RetHeld
    <3>2. CASE ~short
      <4>1. f = IF Failed(up) THEN inode_ref_dec(up, Root) ELSE inode_ref_dec(inode_ref_dec(up, Root), Root)
        BY <3>2 DEF sfs_namefile
      <4>2. Held(i, R2, O) /\ SameRest(v, i)
        BY <2>1, <2>2, <2>4, RefIncHeld
      <4>3. Fit(R2, O)
        BY <2>1, <2>2, FitPlus
      <4>4. up = sfs_load_inode(i, Root)
        BY FilesAssumption DEF sfs_lookup_once
      <4> HIDE DEF i, R2, f
      <4>5. Held(up, R3, O) /\ SameRest(i, up) /\ up.ret = "0"
        BY <4>2, <4>4, LoadHeld, NodesApart
      <4> HIDE DEF up
      <4>6. Held(a, R2, O) /\ SameRest(up, a)
        BY <2>1, <4>3, <4>5, DropHeld
      <4> HIDE DEF a
      <4>7. Held(b, R1, O) /\ SameRest(a, b)
        BY <2>1, <2>2, <4>6, DropHeld DEF R2
      <4>8. f = b
        BY <4>1, <4>5 DEF Failed, a
      <4> QED
        BY <4>2, <4>5, <4>6, <4>7, <4>8, RestSame
    <3> QED
      BY <3>1, <3>2
  <2> HIDE DEF f
  <2>7. Held(t, R, O) /\ SameRest(f, t)
    BY <1>2, <2>1, <2>5, <2>6, DropHeld DEF R1
  <2> QED
    BY <2>1, <2>4, <2>6, <2>7, RestSame
<1> QED
  BY <1>5, <1>6

(* A record that differs in the boot file system.                          *)
LEMMA BootHeld ==
    ASSUME NEW s, NEW r, NEW o, NEW b, Held(s, r, o)
    PROVE  LET t == [s EXCEPT !.boot = b]
           IN  /\ Held(t, r, o) /\ t.boot = b /\ t.files = s.files /\ t.lost = s.lost
               /\ t.vdev = s.vdev
<1> DEFINE t == [s EXCEPT !.boot = b]
<1>1. IsKernel(s)
  BY HeldFits
<1>2. /\ IsKernel(t) /\ t.node = s.node /\ t.stale = s.stale /\ t.panic = s.panic
      /\ t.boot = b /\ t.files = s.files /\ t.lost = s.lost /\ t.vdev = s.vdev
  BY <1>1 DEF IsKernel
<1> HIDE DEF t
<1>3. Held(t, r, o)
  BY <1>2 DEF Held
<1> QED
  BY <1>2, <1>3 DEF t

(* vfs_chdir to the root of the disk, the first time.                      *)
LEMMA ChdirHeld ==
    ASSUME NEW s, NEW r, NEW o, NEW p \in Procs, NEW path, Held(s, r, o), Places(s),
           Starts(s, p, r), s.files[p].pwd = None, path.at = "disk0", path.name = None
    PROVE  LET t == vfs_chdir(s, p, path)
           IN  /\ Held(t, Plus(r, Root), o) /\ t.files = SetPwd(s.files, p, Root)
               /\ SameBut(s, t) /\ t.ret = "0"
<1> DEFINE l == vfs_lookup(s, p, path)
           v == vop(l, Root, "gettype")
           i == inode_ref_inc(v, Root)
           j == [i EXCEPT !.files[p].pwd = Root]
           G == SetPwd(s.files, p, Root)
           k == Ret(j, "0")
           t == inode_ref_dec(k, Root)
           r1 == Plus(r, Root)
           r2 == Plus(r1, Root)
<1>1. Fit(r, o) /\ r \in Demand /\ Root \in Nodes /\ Root \notin Devices /\ Type[Root] = "dir"
  BY HeldFits, NodesApart, FilesAssumption DEF Fit
<1>2. Held(l, r1, o) /\ SameRest(s, l) /\ l.ret = "0" /\ l.out = Root
  <2>1. l = get_device(s, p, path)
    BY LookupFound
  <2>2. get_device(s, p, path) = vfs_get_root(s, "disk0")
    BY DEF get_device
  <2> DEFINE g == vfs_get_root(s, "disk0")
  <2>3. Found(s, g, r, o) /\ g.ret = "0" /\ g.out = Root
    BY RootFound
  <2> HIDE DEF g, l
  <2>4. l = g
    BY <2>1, <2>2 DEF g
  <2> QED
    BY <2>3, <2>4 DEF Found
<1>3. vfs_chdir(s, p, path) = inode_ref_dec(vfs_set_curdir(l, p, Root), Root)
  BY <1>2 DEF vfs_chdir, chdir_to, Failed
<1> HIDE DEF l
<1>4. l.files[p].pwd = None /\ None # Root
  BY <1>1, <1>2, NodesApart DEF SameRest
<1>6. Fit(r1, o) /\ r1[Root] > 0
  BY <1>1, FitPlus
<1> HIDE DEF r1
<1>13. Held(v, r1, o) /\ v.panic = None /\ SameRest(l, v)
  <2>1. "gettype" \in Ops(Root)
    BY DEF Ops
  <2> QED
    BY <1>1, <1>2, <1>6, <2>1, VopHeld
<1>5. vfs_set_curdir(l, p, Root) = k
  BY <1>1, <1>4, <1>13 DEF vfs_set_curdir
<1> HIDE DEF v
<1>7. Held(i, r2, o) /\ SameRest(l, i)
  BY <1>1, <1>6, <1>13, RefIncHeld, RestSame
<1> HIDE DEF i, r2
<1>8. j = [i EXCEPT !.files = G]
  <2>1. i.files = s.files /\ IsKernel(i)
    BY <1>2, <1>7, HeldFits DEF SameRest
  <2>2. j = [i EXCEPT !.files = SetPwd(i.files, p, Root)]
    BY <2>1 DEF IsKernel, SetPwd
  <2> QED
    BY <2>1, <2>2
<1> HIDE DEF G, j
<1>9. Held(j, r2, o) /\ j.files = G /\ SameBut(i, j)
  BY <1>7, <1>8, FilesHeld
<1>10. Held(k, r2, o) /\ SameRest(j, k) /\ k.ret = "0"
  BY <1>9, RetHeld
<1> HIDE DEF k
<1>11. Held(t, r1, o) /\ SameRest(k, t) /\ SameResult(k, t)
  BY <1>1, <1>6, <1>10, DropHeld DEF r2
<1> HIDE DEF t
<1>12. t.files = G /\ SameBut(s, t) /\ t.ret = "0"
  BY <1>2, <1>7, <1>9, <1>10, <1>11 DEF SameRest, SameBut, SameResult
<1> QED
  BY <1>3, <1>5, <1>11, <1>12 DEF t, r1, G

(* vfs_set_bootfs succeeds.                                                *)
LEMMA BootGood ==
    ASSUME NEW s, NEW W, NEW p \in Procs, Good(s, W), W[p] = None, s.files[p].pwd = None,
           s.boot = None
    PROVE  LET t == vfs_set_bootfs(s, p, "disk0")
           IN  /\ Good(t, [W EXCEPT ![p] = Root]) /\ t.files = SetPwd(s.files, p, Root)
               /\ t.ret = "0"
<1> DEFINE F == s.files
           V == [W EXCEPT ![p] = Root]
           R == RefOf(F, W, s.boot, s.lost)
           O == OpenOf(F)
           G == SetPwd(F, p, Root)
           path == [at |-> "disk0", name |-> None]
           c == vfs_chdir(s, p, path)
           n == vfs_get_curdir(c, p)
           b == [n EXCEPT !.boot = n.out]
           u == Ret(b, "0")
           t == vfs_set_bootfs(s, p, "disk0")
<1>1. /\ Held(s, R, O) /\ Clean(F) /\ F \in Tables /\ W \in Pwds /\ Places(s)
      /\ s.vdev = DeviceList /\ s.lost \in Demand /\ Starts(s, p, R)
  BY GoodFacts DEF Good
<1>2. V \in Pwds /\ PwdOf(V) = Plus(PwdOf(W), Root)
  BY <1>1, PwdSet
<1>3. Clean(G) /\ OpenOf(G) = O /\ \A q \in Procs : G[q].pwd = IF q = p THEN Root ELSE F[q].pwd
  BY <1>1, SetPwdValue
<1> HIDE DEF V, G
<1> DEFINE r1 == Plus(R, Root)
           r2 == Plus(r1, Root)
<1>4. RefOf(G, V, Root, s.lost) = r2
  <2> DEFINE a == OpenOf(F)
             w == PwdOf(W)
             w1 == Plus(w, Root)
  <2>1. a \in Demand /\ w \in Demand /\ Root \in Nodes
    BY OpenOfType, PwdOfType, NodesApart
  <2>2. RefOf(G, V, Root, s.lost) = RefSum(a, w1, Root, s.lost)
    BY <1>2, <1>3 DEF RefOf
  <2>3. R = RefSum(a, w, None, s.lost)
    BY DEF RefOf
  <2> HIDE DEF a, w, R
  <2>4. w1 \in Demand
    BY <2>1, PlusValue
  <2>5. RefSum(a, w1, None, s.lost) = r1
    BY <1>1, <2>1, <2>3, RefSumPwd
  <2> HIDE DEF w1, r1
  <2>6. RefSum(a, w1, Root, s.lost) = Plus(RefSum(a, w1, None, s.lost), Root)
    BY <1>1, <2>1, <2>4, RefSumBoot
  <2> QED
    BY <2>2, <2>5, <2>6
<1> HIDE DEF R, O
<1>5. Fit(R, O) /\ Root \in Nodes /\ None # Root
  BY <1>1, HeldFits, NodesApart
<1>6. r1[Root] > 0
  BY <1>5, FitPlus
<1>7. path.at = "disk0" /\ path.name = None
  OBVIOUS
<1>8. t = bootfs_here(c, p)
  BY DEF vfs_set_bootfs
<1> HIDE DEF path
<1>9. Held(c, r1, O) /\ c.files = G /\ SameBut(s, c) /\ c.ret = "0"
  BY <1>1, <1>7, ChdirHeld DEF G
<1> HIDE DEF c, r1
<1>10. Places(c) /\ c.files[p].pwd = Root /\ c.boot = None
  BY <1>1, <1>3, <1>9 DEF Places, SameBut
<1>11. Found(c, n, r1, O) /\ n.ret = "0" /\ n.out = Root
  BY <1>5, <1>6, <1>9, <1>10, CurdirFound
<1>12. t = change_bootfs(n)
  BY <1>8, <1>9 DEF bootfs_here, Failed
<1> HIDE DEF n, r2
<1>13. Held(n, r2, O) /\ SameRest(c, n) /\ n.boot = None
  BY <1>10, <1>11 DEF Found, r2, SameRest
<1>14. t = u
  BY <1>11, <1>12, <1>13 DEF change_bootfs, Failed
<1>15. /\ Held(b, r2, O) /\ b.boot = Root /\ b.files = n.files /\ b.lost = n.lost
       /\ b.vdev = n.vdev
  BY <1>11, <1>13, BootHeld
<1> HIDE DEF b, t
<1>16. Held(u, r2, O) /\ SameRest(b, u) /\ u.ret = "0"
  BY <1>15, RetHeld
<1> HIDE DEF u
<1>17. u.files = G /\ u.lost = s.lost /\ u.boot = Root /\ u.vdev = s.vdev
  BY <1>9, <1>13, <1>15, <1>16 DEF SameRest, SameBut
<1>18. Good(u, V)
  BY <1>1, <1>2, <1>3, <1>4, <1>16, <1>17 DEF Good, O
<1> QED
  BY <1>14, <1>16, <1>17, <1>18 DEF V, t, G

-----------------------------------------------------------------------------
(* The calls.                                                              *)

(* Between calls the current directories that count are those of the       *)
(* tables.                                                                 *)
Dirs(F) == [q \in Procs |-> F[q].pwd]

Settled(s) == Good(s, Dirs(s.files))

(* A call of p leaves the other tables alone, and p in its directory.      *)
Alone(s, t, p) == t.boot = s.boot /\ \A q \in Procs : q # p => t.files[q] = s.files[q]

Tame(s, t, p) == Settled(t) /\ Alone(s, t, p) /\ t.files[p].pwd = s.files[p].pwd

LEMMA DirsSame ==
    ASSUME NEW F, NEW G, \A q \in Procs : G[q].pwd = F[q].pwd
    PROVE  Dirs(G) = Dirs(F)
  BY DEF Dirs

LEMMA SettledFacts ==
    ASSUME NEW s, Settled(s)
    PROVE  /\ s.files \in Tables /\ Clean(s.files) /\ IsKernel(s) /\ s.panic = None
           /\ Dirs(s.files) \in Pwds /\ Good(s, Dirs(s.files))
           /\ \A q \in Procs : Dirs(s.files)[q] = s.files[q].pwd
  BY GoodFacts DEF Settled, Dirs, Good

LEMMA TameSame ==
    ASSUME NEW s, NEW t, NEW p \in Procs, Good(t, Dirs(s.files)), t.files = s.files,
           t.boot = s.boot
    PROVE  Tame(s, t, p)
  BY DEF Tame, Settled, Alone

LEMMA TameFd ==
    ASSUME NEW s, NEW t, NEW p \in Procs, NEW i \in Fds, NEW f \in Fd, Settled(s),
           Good(t, Dirs(s.files)), t.files = SetFd(s.files, p, i, f), t.boot = s.boot
    PROVE  /\ Tame(s, t, p)
           /\ \A j \in Fds : t.files[p].fd[j] = IF j = i THEN f ELSE s.files[p].fd[j]
<1>1. s.files \in Tables
  BY SettledFacts
<1>2. /\ \A q \in Procs : t.files[q].pwd = s.files[q].pwd
      /\ \A q \in Procs : q # p => t.files[q] = s.files[q]
      /\ \A j \in Fds : t.files[p].fd[j] = IF j = i THEN f ELSE s.files[p].fd[j]
  BY <1>1, SetFdValue
<1>3. Dirs(t.files) = Dirs(s.files)
  BY <1>2, DirsSame
<1> QED
  BY <1>2, <1>3 DEF Tame, Settled, Alone

LEMMA TameTwice ==
    ASSUME NEW s, NEW t, NEW u, NEW p \in Procs, Tame(s, t, p), Tame(t, u, p)
    PROVE  Tame(s, u, p)
  BY DEF Tame, Alone

LEMMA OpenTame ==
    ASSUME NEW s, NEW p \in Procs, NEW path, NEW fl, Settled(s)
    PROVE  LET t == file_open(s, p, path, fl)
           IN  /\ Stuck(t) \/ Tame(s, t, p)
               /\ ~(fl.trunc \/ fl.creat) => Tame(s, t, p)
               /\ ~(fl.trunc \/ fl.creat) /\ t.ret = "0" =>
                     /\ t.out \in Fds /\ s.files[p].fd[t.out] = FreeFd
                     /\ OpenFd(t.files[p].fd[t.out])
                     /\ \A j \in Fds : j # t.out => t.files[p].fd[j] = s.files[p].fd[j]
<1> DEFINE t == file_open(s, p, path, fl)
           W == Dirs(s.files)
<1>1. Good(s, W) /\ W[p] = s.files[p].pwd
  BY SettledFacts
<1>2. /\ Stuck(t) \/ OpenKept(s, t, W) \/ OpenGiven(s, t, W, p)
      /\ ~(fl.trunc \/ fl.creat) => OpenKept(s, t, W) \/ OpenGiven(s, t, W, p)
  BY <1>1, FileOpen
<1> HIDE DEF t
<1>3. OpenKept(s, t, W) => Tame(s, t, p) /\ t.ret # "0"
  BY TameSame DEF OpenKept
<1>4. ASSUME OpenGiven(s, t, W, p)
      PROVE  /\ Tame(s, t, p) /\ t.out \in Fds /\ s.files[p].fd[t.out] = FreeFd
             /\ OpenFd(t.files[p].fd[t.out])
             /\ \A j \in Fds : j # t.out => t.files[p].fd[j] = s.files[p].fd[j]
  <2>1. PICK f \in Fd : OpenFd(f) /\ t.files = SetFd(s.files, p, t.out, f)
    BY <1>4 DEF OpenGiven
  <2>2. /\ t.out \in Fds /\ s.files[p].fd[t.out] = FreeFd /\ Good(t, W) /\ t.boot = s.boot
    BY <1>4 DEF OpenGiven
  <2>3. /\ Tame(s, t, p)
        /\ \A j \in Fds : t.files[p].fd[j] = IF j = t.out THEN f ELSE s.files[p].fd[j]
    BY <2>1, <2>2, TameFd
  <2> QED
    BY <2>1, <2>2, <2>3
<1> QED
  BY <1>2, <1>3, <1>4 DEF t

LEMMA CloseTame ==
    ASSUME NEW s, NEW p \in Procs, NEW i \in Fds, Settled(s)
    PROVE  LET t == file_close(s, p, i)
           IN  /\ Tame(s, t, p) /\ t.out = s.out
               /\ \A j \in Fds : t.files[p].fd[j] = IF j = i THEN FreeFd ELSE s.files[p].fd[j]
<1> DEFINE t == file_close(s, p, i)
           W == Dirs(s.files)
<1>1. Good(t, W) /\ t.files = SetFd(s.files, p, i, FreeFd) /\ SameBut(s, t) /\ t.out = s.out
  BY SettledFacts, FileClose
<1> HIDE DEF t
<1> QED
  BY <1>1, TameFd, FreeFdType DEF SameBut, t

LEMMA OpTame ==
    ASSUME NEW s, NEW p \in Procs, NEW i, NEW op, NEW changes, Settled(s)
    PROVE  LET t == file_op(s, p, i, op, changes)
           IN  Stuck(t) \/ (Tame(s, t, p) /\ t.files = s.files)
<1> DEFINE t == file_op(s, p, i, op, changes)
           W == Dirs(s.files)
<1>1. Stuck(t) \/ (Good(t, W) /\ t.files = s.files /\ t.boot = s.boot)
  BY SettledFacts, FileOp
<1> HIDE DEF t
<1> QED
  BY <1>1, TameSame DEF t

LEMMA GetcwdTame ==
    ASSUME NEW s, NEW p \in Procs, NEW short, Settled(s)
    PROVE  Tame(s, vfs_getcwd(s, p, short), p)
<1> DEFINE t == vfs_getcwd(s, p, short)
           W == Dirs(s.files)
<1>1. Good(s, W) /\ W[p] = s.files[p].pwd
  BY SettledFacts
<1>2. Good(t, W) /\ t.files = s.files /\ SameBut(s, t)
  BY <1>1, GetcwdGood
<1> HIDE DEF t
<1> QED
  BY <1>2, TameSame DEF SameBut, t

LEMMA DupTame ==
    ASSUME NEW s, NEW p \in Procs, NEW i, NEW want, Settled(s)
    PROVE  LET t == file_dup(s, p, i, want)
           IN  /\ Tame(s, t, p)
               /\ /\ i \in Fds /\ want \in Fds /\ OpenFd(s.files[p].fd[i])
                  /\ s.files[p].fd[want] = FreeFd
                  => \A j \in Fds :
                        t.files[p].fd[j] = s.files[p].fd[IF j = want THEN i ELSE j]
<1> DEFINE t == file_dup(s, p, i, want)
           W == Dirs(s.files)
<1>1. Good(s, W) /\ s.files \in Tables
  BY SettledFacts
<1>2. /\ Good(t, W) /\ t.boot = s.boot
      /\ \/ t.files = s.files
         \/ /\ i \in Fds /\ t.out \in Fds /\ s.files[p].fd[t.out] = FreeFd
            /\ OpenFd(s.files[p].fd[i])
            /\ t.files = SetFd(s.files, p, t.out, s.files[p].fd[i])
      /\ /\ i \in Fds /\ want \in Fds /\ OpenFd(s.files[p].fd[i])
         /\ s.files[p].fd[want] = FreeFd
         => /\ t.out = want
            /\ t.files = SetFd(s.files, p, want, s.files[p].fd[i])
  BY <1>1, FileDup
<1> HIDE DEF t
<1>3. CASE t.files = s.files
  <2>1. Tame(s, t, p)
    BY <1>2, <1>3, TameSame
  <2>2. ASSUME i \in Fds, want \in Fds, OpenFd(s.files[p].fd[i]), s.files[p].fd[want] = FreeFd
        PROVE  \A j \in Fds : t.files[p].fd[j] = s.files[p].fd[IF j = want THEN i ELSE j]
    <3>1. t.files = SetFd(s.files, p, want, s.files[p].fd[i]) /\ s.files[p].fd[i] \in Fd
      BY <1>2, <2>2 DEF OpenFd
    <3>2. \A j \in Fds :
             t.files[p].fd[j] = IF j = want THEN s.files[p].fd[i] ELSE s.files[p].fd[j]
      BY <1>1, <2>2, <3>1, SetFdValue
    <3> QED
      BY <3>2
  <2> QED
    BY <2>1, <2>2 DEF t
<1>4. CASE /\ i \in Fds /\ t.out \in Fds /\ OpenFd(s.files[p].fd[i])
           /\ t.files = SetFd(s.files, p, t.out, s.files[p].fd[i])
  <2>1. s.files[p].fd[i] \in Fd
    BY <1>4 DEF OpenFd
  <2>2. /\ Tame(s, t, p)
        /\ \A j \in Fds : t.files[p].fd[j] = IF j = t.out THEN s.files[p].fd[i] ELSE s.files[p].fd[j]
    BY <1>2, <1>4, <2>1, TameFd
  <2> QED
    BY <1>2, <2>2 DEF t
<1> QED
  BY <1>2, <1>3, <1>4

LEMMA CloseallTame ==
    ASSUME NEW s, NEW p \in Procs, Settled(s)
    PROVE  LET t == files_closeall(s, p)
           IN  /\ Tame(s, t, p)
               /\ \A j \in Fds : j >= 2 => t.files[p].fd[j] = FreeFd
<1> DEFINE t == files_closeall(s, p)
           W == Dirs(s.files)
<1>1. 2 \in Nat /\ 2 <= NENTRY /\ NENTRY \in Nat /\ Fds = 0 .. NENTRY - 1
  BY FilesAssumption DEF Fds
<1>2. Good(t, W) /\ ClosedIn(s, t, p, 2, NENTRY)
  BY <1>1, SettledFacts, CloseFromGood DEF files_closeall
<1> HIDE DEF t
<1>3. \A q \in Procs : t.files[q].pwd = s.files[q].pwd
  BY <1>2 DEF ClosedIn
<1>4. Dirs(t.files) = W
  BY <1>3, DirsSame
<1>5. Tame(s, t, p)
  BY <1>2, <1>4 DEF Tame, Settled, Alone, ClosedIn, SameBut
<1>6. \A j \in Fds : j >= 2 => 2 <= j /\ j < NENTRY
  BY <1>1
<1>7. \A j \in Fds : j >= 2 => t.files[p].fd[j] = FreeFd
  BY <1>2, <1>6 DEF ClosedIn
<1> QED
  BY <1>5, <1>7 DEF t

LEMMA ExitSettled ==
    ASSUME NEW s, NEW p \in Procs, Settled(s)
    PROVE  LET t == files_destroy(s, p)
           IN  Settled(t) /\ Alone(s, t, p) /\ t.files[p] = files_create
<1> DEFINE t == files_destroy(s, p)
           W == Dirs(s.files)
<1>1. Good(s, W) /\ W[p] = s.files[p].pwd
  BY SettledFacts
<1>2. /\ Good(t, [W EXCEPT ![p] = None]) /\ SameBut(s, t) /\ t.files[p] = files_create
      /\ \A q \in Procs : q # p => t.files[q] = s.files[q]
  BY <1>1, DestroyGood
<1> HIDE DEF t
<1>3. t.files[p].pwd = None /\ \A q \in Procs : q # p => t.files[q].pwd = s.files[q].pwd
  BY <1>2 DEF files_create
<1>4. Dirs(t.files) = [W EXCEPT ![p] = None]
  BY <1>3 DEF Dirs
<1> QED
  BY <1>2, <1>4 DEF Settled, Alone, SameBut, t

LEMMA ForkSettled ==
    ASSUME NEW s, NEW c \in Procs, NEW p \in Procs, c # p, Settled(s),
           s.files[c] = files_create
    PROVE  LET t == dup_files(s, c, p)
           IN  Settled(t) /\ Alone(s, t, c)
<1> DEFINE t == dup_files(s, c, p)
           W == Dirs(s.files)
           d == s.files[p].pwd
<1>1. Good(s, W) /\ W[p] = d /\ W[c] = None
  BY SettledFacts DEF files_create
<1>2. Good(t, [W EXCEPT ![c] = d]) /\ CopiedTo(s, t, c, p, NENTRY)
  BY <1>1, DupFilesGood
<1> HIDE DEF t
<1>3. /\ t.boot = s.boot /\ t.files[c].pwd = d
      /\ \A q \in Procs : q # c => t.files[q] = s.files[q]
  BY <1>2 DEF CopiedTo, SameBut
<1>4. Dirs(t.files) = [W EXCEPT ![c] = d]
  BY <1>3 DEF Dirs
<1> QED
  BY <1>2, <1>3, <1>4 DEF Settled, Alone, t

(* The descriptors that files_closeall frees are free.                     *)
Spare(s, p) == \A j \in Fds : j >= 2 => s.files[p].fd[j] = FreeFd

LEMMA AccessFlags ==
    ASSUME NEW acc
    PROVE  LET fl == Access(acc)
           IN  Plain(fl) /\ ~(fl.trunc \/ fl.creat) /\ fl.acc = acc
  BY DEF Access, Plain

(* initfd: the device is what descriptor k names then.                     *)
LEMMA InitfdTame ==
    ASSUME NEW s, NEW p \in Procs, NEW k \in Fds, NEW path, NEW acc, k \in {0, 1},
           Settled(s), Spare(s, p),
           path.name = None,
           (path.at = "stdin" /\ acc = "r") \/ (path.at = "stdout" /\ acc = "w"),
           k = 1 => s.files[p].fd[0] # FreeFd
    PROVE  LET t == initfd(s, p, k, path, acc)
           IN  /\ Tame(s, t, p) /\ Spare(t, p)
               /\ OpenFd(t.files[p].fd[k])
               /\ t.files[p].fd[k].node = path.at
               /\ t.files[p].fd[k].readable = (acc \in {"r", "rw"})
               /\ t.files[p].fd[k].writable = (acc \in {"w", "rw"})
               /\ k = 1 => t.files[p].fd[0] = s.files[p].fd[0]
<1> DEFINE fl == Access(acc)
           W == Dirs(s.files)
           o == file_open(s, p, path, fl)
           i == o.out
           e == o.files[p].fd[i]
           c == file_close(o, p, k)
           d == file_dup(c, p, i, k)
           u == file_close(d, p, i)
           t == initfd(s, p, k, path, acc)
<1>1. 0 \in Fds /\ 1 \in Fds /\ 2 \in Fds /\ k \in Fds /\ ~(k >= 2) /\ Fds \subseteq Nat
  BY FilesAssumption DEF Fds
<1>2. Plain(fl) /\ ~(fl.trunc \/ fl.creat) /\ fl.acc = acc
  BY AccessFlags
<1>3. t = IF Failed(o) \/ i = k THEN o ELSE u
  BY DEF initfd, move_fd
<1>4. s.files[p].fd[2] = FreeFd
  BY <1>1 DEF Spare
<1>5. Good(s, W) /\ W[p] = s.files[p].pwd
  BY SettledFacts
<1> HIDE DEF fl
<1>6. /\ o.ret = "0" /\ e.node = path.at
      /\ e.readable = (acc \in {"r", "rw"}) /\ e.writable = (acc \in {"w", "rw"})
  <2>1. /\ path.name = None /\ Plain(fl)
        /\ (path.at = "stdin" /\ fl.acc = "r") \/ (path.at = "stdout" /\ fl.acc = "w")
        /\ \E j \in Fds : s.files[p].fd[j] = FreeFd
    BY <1>1, <1>2, <1>4
  <2>2. /\ o.ret = "0" /\ e.node = path.at
        /\ e.readable = (fl.acc \in {"r", "rw"}) /\ e.writable = (fl.acc \in {"w", "rw"})
    BY <1>5, <2>1, FileOpen
  <2> HIDE DEF e, o
  <2> QED
    BY <1>2, <2>2
<1>7. /\ Tame(s, o, p) /\ i \in Fds /\ s.files[p].fd[i] = FreeFd /\ OpenFd(e)
      /\ \A j \in Fds : j # i => o.files[p].fd[j] = s.files[p].fd[j]
  BY <1>2, <1>6, OpenTame
<1> HIDE DEF o
<1>8. k = 1 => i # 0
  BY <1>7
<1>9. \A j \in Fds : j >= 2 => s.files[p].fd[j] = FreeFd
  BY DEF Spare
<1> DEFINE a == e.readable
           b == e.writable
<1>10. a = (acc \in {"r", "rw"}) /\ b = (acc \in {"w", "rw"}) /\ e.node = path.at
  BY <1>6
<1> HIDE DEF e, i
<1>11. CASE i = k
  <2>1. t = o
    BY <1>3, <1>11
  <2>2. Spare(o, p)
    <3>1. ASSUME NEW j \in Fds, j >= 2 PROVE o.files[p].fd[j] = FreeFd
      <4>1. j # i
        BY <1>1, <1>11, <3>1
      <4> QED
        BY <1>7, <1>9, <3>1, <4>1
    <3> QED
      BY <3>1 DEF Spare
  <2>3. o.files[p].fd[k] = e
    BY <1>11 DEF e
  <2>4. k = 1 => o.files[p].fd[0] = s.files[p].fd[0]
    BY <1>1, <1>7, <1>8
  <2> HIDE DEF t
  <2> QED
    BY <1>7, <1>10, <2>1, <2>2, <2>3, <2>4 DEF t
<1>12. CASE i # k
  <2>1. t = u
    BY <1>3, <1>6, <1>12 DEF Failed
  <2>2. Settled(o) /\ k \in Fds
    BY <1>7 DEF Tame
  <2>3. /\ Tame(o, c, p) /\ c.out = o.out
        /\ \A j \in Fds : c.files[p].fd[j] = IF j = k THEN FreeFd ELSE o.files[p].fd[j]
    BY <2>2, CloseTame
  <2> HIDE DEF c
  <2>4. Settled(c) /\ c.files[p].fd[i] = e /\ c.files[p].fd[k] = FreeFd
    BY <1>1, <1>7, <1>12, <2>3 DEF Tame, e
  <2>5. /\ Tame(c, d, p)
        /\ \A j \in Fds : d.files[p].fd[j] = c.files[p].fd[IF j = k THEN i ELSE j]
    BY <1>1, <1>7, <2>4, DupTame
  <2> HIDE DEF d
  <2>6. Settled(d) /\ i \in Fds
    BY <1>7, <2>5 DEF Tame
  <2>7. /\ Tame(d, u, p) /\ u.out = d.out
        /\ \A j \in Fds : u.files[p].fd[j] = IF j = i THEN FreeFd ELSE d.files[p].fd[j]
    BY <2>6, CloseTame
  <2> HIDE DEF u
  <2>8. Tame(s, u, p)
    BY <1>7, <2>3, <2>5, <2>7, TameTwice
  <2>9. u.files[p].fd[k] = e
    BY <1>1, <1>12, <2>4, <2>5, <2>7
  <2>10. ASSUME NEW j \in Fds, j # k, j # i PROVE u.files[p].fd[j] = s.files[p].fd[j]
    BY <1>7, <2>3, <2>5, <2>7, <2>10
  <2>11. u.files[p].fd[i] = FreeFd
    BY <1>7, <2>7
  <2>12. Spare(u, p)
    <3>1. ASSUME NEW j \in Fds, j >= 2 PROVE u.files[p].fd[j] = FreeFd
      <4>1. j # k
        BY <1>1, <3>1
      <4>2. CASE j = i
        BY <2>11, <4>2
      <4>3. CASE j # i
        BY <1>9, <2>10, <3>1, <4>1, <4>3
      <4> QED
        BY <4>2, <4>3
    <3> QED
      BY <3>1 DEF Spare
  <2>13. k = 1 => u.files[p].fd[0] = s.files[p].fd[0]
    <3>1. k = 1 => 0 # k
      OBVIOUS
    <3> QED
      BY <1>1, <1>8, <2>10, <3>1
  <2> HIDE DEF t
  <2> QED
    BY <1>7, <1>10, <2>1, <2>8, <2>9, <2>12, <2>13 DEF t
<1> QED
  BY <1>11, <1>12

(* do_execve: the program is opened, read and closed.                      *)
LEMMA ExecTame ==
    ASSUME NEW s, NEW p \in Procs, NEW path, Settled(s)
    PROVE  LET o == file_open(files_closeall(s, p), p, path, Access("r"))
               r == file_op(file_op(o, p, o.out, "tryseek", FALSE), p, o.out, "read", FALSE)
               u == file_close(r, p, o.out)
           IN  /\ Tame(s, o, p)
               /\ o.ret = "0" =>
                     \/ Stuck(r) /\ Stuck(u)
                     \/ Tame(s, r, p) /\ Tame(s, u, p) /\ Spare(u, p)
<1> DEFINE a == files_closeall(s, p)
           fl == Access("r")
           o == file_open(a, p, path, fl)
           i == o.out
           no == FALSE
           v == file_op(o, p, i, "tryseek", no)
           r == file_op(v, p, i, "read", no)
           u == file_close(r, p, i)
<1>1. ~(fl.trunc \/ fl.creat)
  BY AccessFlags
<1>2. Tame(s, a, p) /\ \A j \in Fds : j >= 2 => a.files[p].fd[j] = FreeFd
  BY CloseallTame
<1> HIDE DEF a, fl
<1>3. Settled(a)
  BY <1>2 DEF Tame
<1>4. /\ Tame(a, o, p)
      /\ o.ret = "0" =>
            /\ i \in Fds /\ a.files[p].fd[i] = FreeFd
            /\ \A j \in Fds : j # i => o.files[p].fd[j] = a.files[p].fd[j]
  BY <1>1, <1>3, OpenTame
<1> HIDE DEF o, i, no
<1>5. Tame(s, o, p) /\ Settled(o)
  BY <1>2, <1>4, TameTwice DEF Tame
<1>6. ASSUME o.ret = "0"
      PROVE  \/ Stuck(r) /\ Stuck(u)
             \/ Tame(s, r, p) /\ Tame(s, u, p) /\ Spare(u, p)
  <2>1. Stuck(v) \/ (Tame(o, v, p) /\ v.files = o.files)
    BY <1>5, OpTame
  <2> HIDE DEF v
  <2>2. CASE Stuck(v)
    <3>1. Stuck(r)
      BY <2>2, FileOpStuck
    <3> HIDE DEF r
    <3> QED
      BY <3>1, FileCloseStuck
  <2>3. CASE Tame(o, v, p) /\ v.files = o.files
    <3>1. Settled(v)
      BY <2>3 DEF Tame
    <3>2. Stuck(r) \/ (Tame(v, r, p) /\ r.files = v.files)
      BY <3>1, OpTame
    <3> HIDE DEF r
    <3>3. CASE Stuck(r)
      BY <3>3, FileCloseStuck
    <3>4. CASE Tame(v, r, p) /\ r.files = v.files
      <4>1. Settled(r) /\ i \in Fds
        BY <1>4, <1>6, <3>4 DEF Tame
      <4>2. /\ Tame(r, u, p) /\ u.out = r.out
            /\ \A j \in Fds : u.files[p].fd[j] = IF j = i THEN FreeFd ELSE r.files[p].fd[j]
        BY <4>1, CloseTame
      <4> HIDE DEF u
      <4>3. Tame(s, r, p)
        BY <1>5, <2>3, <3>4, TameTwice
      <4>4. Tame(s, u, p)
        BY <4>2, <4>3, TameTwice
      <4>5. Spare(u, p)
        BY <1>2, <1>4, <1>6, <2>3, <3>4, <4>2 DEF Spare
      <4> QED
        BY <4>3, <4>4, <4>5
    <3> QED
      BY <3>2, <3>3, <3>4
  <2> QED
    BY <2>1, <2>2, <2>3
<1> QED
  BY <1>5, <1>6 DEF o, i, a, fl, no

LEMMA BootSettled ==
    ASSUME NEW s, NEW p \in Procs, Settled(s), s.files[p].pwd = None, s.boot = None
    PROVE  LET t == vfs_set_bootfs(s, p, "disk0")
           IN  /\ Settled(t) /\ t.ret = "0"
               /\ \A q \in Procs : q # p => t.files[q] = s.files[q]
<1> DEFINE t == vfs_set_bootfs(s, p, "disk0")
           W == Dirs(s.files)
<1>1. Good(s, W) /\ W[p] = None /\ Clean(s.files)
  BY SettledFacts
<1>2. Good(t, [W EXCEPT ![p] = Root]) /\ t.files = SetPwd(s.files, p, Root) /\ t.ret = "0"
  BY <1>1, BootGood
<1> HIDE DEF t
<1>3. /\ \A q \in Procs : t.files[q].pwd = IF q = p THEN Root ELSE s.files[q].pwd
      /\ \A q \in Procs : q # p => t.files[q] = s.files[q]
  BY <1>1, <1>2, SetPwdValue
<1>4. Dirs(t.files) = [W EXCEPT ![p] = Root]
  BY <1>3 DEF Dirs
<1> QED
  BY <1>2, <1>3, <1>4 DEF Settled, t

-----------------------------------------------------------------------------
(* inode_check's limit.                                                    *)

CalmNode == [ref : Nat, open : Int, reclaim : Int, dirty : BOOLEAN]

(* When the call began inode n had b[n] references.  So far it has at most *)
(* k more, and inode_check has found a count at its limit only if b was    *)
(* within k of it.                                                         *)
Calm(s, b, k) ==
    /\ IsKernel(s)
    /\ s.full \in BOOLEAN
    /\ b \in Demand
    /\ k \in Nat
    /\ s.full => \E n \in Nodes : b[n] + k >= MAX_INODE_COUNT
    /\ s.panic = None =>
          /\ s.node \in [DOMAIN s.node -> CalmNode]
          /\ \A n \in DOMAIN s.node : n \in Nodes /\ s.node[n].ref <= b[n] + k

LEMMA CalmMore ==
    ASSUME NEW s, NEW b, NEW k, NEW j \in Nat, Calm(s, b, k), j >= k
    PROVE  Calm(s, b, j)
<1>1. k \in Nat /\ \A n \in Nodes : b[n] \in Nat
  BY DEF Calm, Demand
<1>2. s.full => \E n \in Nodes : b[n] + j >= MAX_INODE_COUNT
  BY <1>1, FilesAssumption DEF Calm
<1>3. s.panic = None => \A n \in DOMAIN s.node : n \in Nodes /\ s.node[n].ref <= b[n] + j
  <2> SUFFICES ASSUME s.panic = None, NEW n \in DOMAIN s.node
               PROVE  n \in Nodes /\ s.node[n].ref <= b[n] + j
    OBVIOUS
  <2>1. n \in Nodes /\ s.node[n] \in CalmNode /\ s.node[n].ref <= b[n] + k
    BY DEF Calm
  <2>2. s.node[n].ref \in Nat /\ b[n] \in Nat
    BY <1>1, <2>1 DEF CalmNode
  <2> QED
    BY <1>1, <2>1, <2>2
<1> QED
  BY <1>2, <1>3 DEF Calm

(* A record with the same inodes.                                          *)
LEMMA CalmSame ==
    ASSUME NEW s, NEW b, NEW k, NEW t, Calm(s, b, k), IsKernel(t), t.full = s.full,
           t.panic = None => s.panic = None /\ t.node = s.node
    PROVE  Calm(t, b, k)
  BY DEF Calm

(* A record that has stopped.                                              *)
LEMMA CalmStopped ==
    ASSUME NEW s, NEW b, NEW k, NEW t, Calm(s, b, k), IsKernel(t), t.full = s.full,
           t.panic # None
    PROVE  Calm(t, b, k)
  BY DEF Calm

(* A record with other inodes.                                             *)
LEMMA CalmNodes ==
    ASSUME NEW s, NEW b, NEW k, NEW j \in Nat, NEW N, Calm(s, b, k), j >= k,
           s.panic = None => /\ N \in [DOMAIN N -> CalmNode]
                             /\ \A n \in DOMAIN N : n \in Nodes /\ N[n].ref <= b[n] + j
    PROVE  LET t == [s EXCEPT !.node = N]
           IN  Calm(t, b, j) /\ t.full = s.full /\ t.panic = s.panic /\ t.ret = s.ret
<1> DEFINE t == [s EXCEPT !.node = N]
<1>1. IsKernel(s)
  BY DEF Calm
<1>2. /\ IsKernel(t) /\ t.node = N /\ t.full = s.full /\ t.panic = s.panic
      /\ t.ret = s.ret
  BY <1>1 DEF IsKernel
<1> HIDE DEF t
<1>3. Calm(s, b, j)
  BY CalmMore
<1>4. Calm(t, b, j)
  BY <1>2, <1>3 DEF Calm
<1> QED
  BY <1>2, <1>4 DEF t

LEMMA CalmRet ==
    ASSUME NEW s, NEW b, NEW k, NEW x, Calm(s, b, k)
    PROVE  Calm(Ret(s, x), b, k) /\ Ret(s, x).full = s.full /\ Ret(s, x).ret = x
<1> DEFINE t == [s EXCEPT !.ret = x]
<1>1. IsKernel(s)
  BY DEF Calm
<1>2. IsKernel(t) /\ t.node = s.node /\ t.full = s.full /\ t.panic = s.panic /\ t.ret = x
  BY <1>1 DEF IsKernel
<1> HIDE DEF t
<1> QED
  BY <1>2, CalmSame DEF Ret, t

LEMMA CalmStore ==
    ASSUME NEW s, NEW b, NEW k, NEW x, Calm(s, b, k)
    PROVE  Calm(Store(s, x), b, k) /\ Store(s, x).full = s.full /\ Store(s, x).ret = "0"
<1> DEFINE t == Store(s, x)
<1>1. IsKernel(s) /\ t = [s EXCEPT !.ret = "0", !.out = x]
  BY DEF Calm, Store
<1> HIDE DEF t
<1>2. /\ IsKernel(t) /\ t.node = s.node /\ t.full = s.full /\ t.panic = s.panic
      /\ t.ret = "0"
  BY <1>1 DEF IsKernel
<1> QED
  BY <1>2, CalmSame DEF t

LEMMA CalmPanic ==
    ASSUME NEW s, NEW b, NEW k, NEW why \in {"assert", "freed", "no_operation"}, Calm(s, b, k)
    PROVE  /\ Calm(Panic(s, why), b, k) /\ Panic(s, why).full = s.full
           /\ Panic(s, why).panic # None
<1> DEFINE y == IF s.panic = None THEN why ELSE s.panic
           t == Panic(s, why)
<1>1. IsKernel(s)
  BY DEF Calm
<1>2. t = [s EXCEPT !.panic = y, !.ret = "panic"]
  BY <1>1 DEF Panic, IsKernel
<1>3. y # None
  BY DEF None
<1> HIDE DEF y, t
<1>4. IsKernel(t) /\ t.panic = y /\ t.full = s.full
  BY <1>1, <1>2 DEF IsKernel
<1> QED
  BY <1>3, <1>4, CalmStopped DEF t

LEMMA CalmAsserted ==
    ASSUME NEW s, NEW b, NEW k, NEW cond, Calm(s, b, k)
    PROVE  Calm(Asserted(s, cond), b, k) /\ Asserted(s, cond).full = s.full
  BY CalmPanic DEF Asserted

LEMMA CalmFiles ==
    ASSUME NEW s, NEW b, NEW k, NEW F, Calm(s, b, k)
    PROVE  LET t == [s EXCEPT !.files = F] IN Calm(t, b, k) /\ t.full = s.full
<1> DEFINE t == [s EXCEPT !.files = F]
<1>1. IsKernel(s)
  BY DEF Calm
<1>2. IsKernel(t) /\ t.node = s.node /\ t.full = s.full /\ t.panic = s.panic
  BY <1>1 DEF IsKernel
<1> HIDE DEF t
<1> QED
  BY <1>2, CalmSame DEF t

LEMMA CalmFile ==
    ASSUME NEW s, NEW b, NEW k, NEW p, NEW i, NEW f, Calm(s, b, k)
    PROVE  Calm(SetFile(s, p, i, f), b, k)
<1> DEFINE F == [s.files EXCEPT ![p].fd[i] = f]
<1>1. IsKernel(s)
  BY DEF Calm
<1>2. SetFile(s, p, i, f) = [s EXCEPT !.files = F]
  BY <1>1 DEF SetFile, IsKernel
<1> HIDE DEF F
<1> QED
  BY <1>2, CalmFiles

(* inode_check sets the flag for an inode that is at the limit.            *)
LEMMA CalmVop ==
    ASSUME NEW s, NEW b, NEW k, NEW n, NEW op, Calm(s, b, k)
    PROVE  /\ Calm(vop(s, n, op), b, k)
           /\ vop(s, n, op).panic = None =>
                 s.panic = None /\ n \in Nodes /\ n \in DOMAIN s.node /\ op \in Ops(n)
<1> DEFINE v == vop(s, n, op)
           c == inode_check(s, n)
<1>1. CASE s.panic # None
  BY <1>1 DEF vop
<1>2. CASE s.panic = None /\ (n \notin DOMAIN s.node \/ op \notin Ops(n)
                              \/ ~(s.node[n].ref >= s.node[n].open))
  <2>1. \E why \in {"assert", "freed", "no_operation"} : v = Panic(s, why)
    BY <1>2 DEF vop
  <2> QED
    BY <2>1, CalmPanic
<1>3. CASE s.panic = None /\ n \in DOMAIN s.node /\ op \in Ops(n)
           /\ s.node[n].ref >= s.node[n].open
  <2>1. v = c
    BY <1>3 DEF vop
  <2>2. /\ IsKernel(s) /\ n \in Nodes /\ s.node[n] \in CalmNode /\ s.node[n].ref <= b[n] + k
        /\ b[n] \in Nat /\ k \in Nat
    BY <1>3 DEF Calm, Demand
  <2>3. CASE c = s
    BY <1>3, <2>1, <2>2, <2>3
  <2>4. CASE c # s
    <3> DEFINE x == s.node[n]
    <3>1. c = [s EXCEPT !.full = TRUE] /\ ~(x.ref < MAX_INODE_COUNT /\ x.open < MAX_INODE_COUNT)
      BY <2>4 DEF inode_check
    <3>2. x.ref \in Nat /\ x.open \in Int
      BY <2>2 DEF CalmNode
    <3>3. x.ref >= x.open /\ x.ref <= b[n] + k
      BY <1>3, <2>2
    <3> HIDE DEF x, c
    <3>4. b[n] + k >= MAX_INODE_COUNT
      BY <2>2, <3>1, <3>2, <3>3, FilesAssumption
    <3>5. IsKernel(c) /\ c.node = s.node /\ c.panic = s.panic /\ c.full \in BOOLEAN
      BY <2>2, <3>1 DEF IsKernel
    <3>6. Calm(c, b, k)
      BY <2>2, <3>4, <3>5 DEF Calm
    <3> QED
      BY <1>3, <2>1, <2>2, <3>6
  <2> QED
    BY <2>3, <2>4
<1> QED
  BY <1>1, <1>2, <1>3

LEMMA CalmRefInc ==
    ASSUME NEW s, NEW b, NEW k, NEW n, Calm(s, b, k)
    PROVE  Calm(inode_ref_inc(s, n), b, k + 1) /\ inode_ref_inc(s, n).full = s.full
<1>1. k \in Nat /\ k + 1 \in Nat /\ k + 1 >= k /\ IsKernel(s)
  BY DEF Calm
<1>2. CASE n \notin DOMAIN s.node
  BY <1>1, <1>2, CalmPanic, CalmMore DEF inode_ref_inc
<1>3. CASE n \in DOMAIN s.node
  <2> DEFINE N == [s.node EXCEPT ![n].ref = @ + 1]
  <2>1. inode_ref_inc(s, n) = [s EXCEPT !.node = N]
    BY <1>1, <1>3 DEF inode_ref_inc, IsKernel
  <2>2. ASSUME s.panic = None
        PROVE  /\ N \in [DOMAIN N -> CalmNode]
               /\ \A m \in DOMAIN N : m \in Nodes /\ N[m].ref <= b[m] + (k + 1)
    <3>1. s.node \in [DOMAIN s.node -> CalmNode]
      BY <2>2 DEF Calm
    <3>2. /\ b \in [Nodes -> Nat]
          /\ \A m \in DOMAIN s.node : m \in Nodes /\ s.node[m].ref <= b[m] + k
      BY <2>2 DEF Calm, Demand
    <3>3. /\ DOMAIN N = DOMAIN s.node /\ N \in [DOMAIN N -> CalmNode]
          /\ \A m \in DOMAIN N :
                N[m].ref = IF m = n THEN s.node[m].ref + 1 ELSE s.node[m].ref
      BY <1>3, <3>1 DEF CalmNode
    <3>4. \A m \in DOMAIN N : s.node[m].ref \in Nat /\ b[m] \in Nat /\ m \in Nodes
      BY <3>1, <3>3, <3>2 DEF CalmNode
    <3> HIDE DEF N
    <3> QED
      BY <1>1, <3>3, <3>4, <3>2
  <2> HIDE DEF N
  <2> QED
    BY <1>1, <2>1, <2>2, CalmNodes
<1> QED
  BY <1>2, <1>3

(* Inodes that change in other fields than ref, or go.                     *)
LEMMA CalmShrunk ==
    ASSUME NEW s, NEW b, NEW k, NEW N, Calm(s, b, k),
           s.panic = None =>
              /\ DOMAIN N \subseteq DOMAIN s.node /\ N \in [DOMAIN N -> CalmNode]
              /\ \A m \in DOMAIN N : N[m].ref <= s.node[m].ref
    PROVE  LET t == [s EXCEPT !.node = N]
           IN  Calm(t, b, k) /\ t.full = s.full /\ t.panic = s.panic /\ t.ret = s.ret
<1>1. ASSUME s.panic = None
      PROVE  \A m \in DOMAIN N : m \in Nodes /\ N[m].ref <= b[m] + k
  <2>1. /\ s.node \in [DOMAIN s.node -> CalmNode] /\ b \in [Nodes -> Nat] /\ k \in Nat
        /\ \A m \in DOMAIN s.node : m \in Nodes /\ s.node[m].ref <= b[m] + k
    BY <1>1 DEF Calm, Demand
  <2>2. ASSUME NEW m \in DOMAIN N PROVE m \in Nodes /\ N[m].ref <= b[m] + k
    <3>1. m \in DOMAIN s.node /\ N[m].ref <= s.node[m].ref
      BY <1>1
    <3>2. /\ N[m].ref \in Nat /\ s.node[m].ref \in Nat /\ b[m] \in Nat /\ m \in Nodes
          /\ s.node[m].ref <= b[m] + k
      BY <1>1, <2>1, <3>1 DEF CalmNode
    <3> QED
      BY <2>1, <3>1, <3>2
  <2> QED
    BY <2>2
<1>2. k \in Nat
  BY DEF Calm
<1> QED
  BY <1>1, <1>2, CalmNodes

LEMMA CalmFsync ==
    ASSUME NEW s, NEW b, NEW k, NEW n, Calm(s, b, k)
    PROVE  /\ Calm(sfs_fsync(s, n), b, k) /\ sfs_fsync(s, n).full = s.full
           /\ sfs_fsync(s, n).ret = s.ret
<1> DEFINE N == [s.node EXCEPT ![n].dirty = FALSE]
           u == [s EXCEPT !.node = N]
           t == sfs_fsync(s, n)
<1>1. IsKernel(s)
  BY DEF Calm
<1>2. CASE ~s.node[n].dirty
  BY <1>2 DEF sfs_fsync
<1>3. CASE s.node[n].dirty
  <2>1. ASSUME s.panic = None
        PROVE  /\ DOMAIN N \subseteq DOMAIN s.node /\ N \in [DOMAIN N -> CalmNode]
               /\ \A m \in DOMAIN N : N[m].ref <= s.node[m].ref
    <3>1. s.node \in [DOMAIN s.node -> CalmNode]
      BY <2>1 DEF Calm
    <3>2. /\ DOMAIN N = DOMAIN s.node /\ N \in [DOMAIN N -> CalmNode]
          /\ \A m \in DOMAIN N : N[m].ref = s.node[m].ref
      BY <3>1 DEF CalmNode
    <3>3. \A m \in DOMAIN s.node : s.node[m].ref \in Nat
      BY <3>1 DEF CalmNode
    <3> HIDE DEF N
    <3> QED
      BY <3>2, <3>3
  <2>2. t = [s EXCEPT !.node = N, !.stale = s.stale \ {n}]
    BY <1>1, <1>3 DEF sfs_fsync, IsKernel
  <2> HIDE DEF N
  <2>3. Calm(u, b, k) /\ u.full = s.full /\ u.panic = s.panic
    BY <2>1, CalmShrunk
  <2> HIDE DEF t
  <2>4. /\ IsKernel(t) /\ t.node = N /\ t.full = s.full /\ t.panic = s.panic
        /\ t.ret = s.ret
    BY <1>1, <2>2 DEF IsKernel
  <2>5. u.node = N
    BY <1>1 DEF IsKernel
  <2> HIDE DEF u
  <2> QED
    BY <2>3, <2>4, <2>5, CalmSame DEF t
<1> QED
  BY <1>2, <1>3

LEMMA CalmTrunc ==
    ASSUME NEW s, NEW b, NEW k, NEW n, Calm(s, b, k)
    PROVE  Calm(sfs_truncfile(s, n), b, k)
<1> DEFINE N == [s.node EXCEPT ![n].dirty = TRUE]
           u == [s EXCEPT !.node = N]
           t == sfs_truncfile(s, n)
<1>1. IsKernel(s)
  BY DEF Calm
<1>2. ASSUME s.panic = None
      PROVE  /\ DOMAIN N \subseteq DOMAIN s.node /\ N \in [DOMAIN N -> CalmNode]
             /\ \A m \in DOMAIN N : N[m].ref <= s.node[m].ref
  <2>1. s.node \in [DOMAIN s.node -> CalmNode]
    BY <1>2 DEF Calm
  <2>2. /\ DOMAIN N = DOMAIN s.node /\ N \in [DOMAIN N -> CalmNode]
        /\ \A m \in DOMAIN N : N[m].ref = s.node[m].ref
    BY <2>1 DEF CalmNode
  <2>3. \A m \in DOMAIN s.node : s.node[m].ref \in Nat
    BY <2>1 DEF CalmNode
  <2> HIDE DEF N
  <2> QED
    BY <2>2, <2>3
<1>3. t = [s EXCEPT !.node = N, !.stale = s.stale \cup {n}]
  BY <1>1 DEF sfs_truncfile, IsKernel
<1> HIDE DEF N
<1>4. Calm(u, b, k) /\ u.full = s.full /\ u.panic = s.panic
  BY <1>2, CalmShrunk
<1> HIDE DEF t
<1>5. IsKernel(t) /\ t.node = N /\ t.full = s.full /\ t.panic = s.panic
  BY <1>1, <1>3 DEF IsKernel
<1>6. u.node = N
  BY <1>1 DEF IsKernel
<1> HIDE DEF u
<1> QED
  BY <1>4, <1>5, <1>6, CalmSame DEF t

LEMMA CalmKill ==
    ASSUME NEW s, NEW b, NEW k, NEW n, Calm(s, b, k)
    PROVE  /\ Calm(inode_kill(s, n), b, k) /\ inode_kill(s, n).full = s.full
           /\ inode_kill(s, n).ret = s.ret \/ inode_kill(s, n).panic # None
<1>1. CASE s.node[n].open # 0
  BY <1>1, CalmPanic DEF inode_kill
<1>2. CASE s.node[n].open = 0
  <2> DEFINE N == [m \in DOMAIN s.node \ {n} |-> s.node[m]]
  <2>1. inode_kill(s, n) = [s EXCEPT !.node = N]
    BY <1>2 DEF inode_kill
  <2>2. ASSUME s.panic = None
        PROVE  /\ DOMAIN N \subseteq DOMAIN s.node /\ N \in [DOMAIN N -> CalmNode]
               /\ \A m \in DOMAIN N : N[m].ref <= s.node[m].ref
    <3>1. s.node \in [DOMAIN s.node -> CalmNode]
      BY <2>2 DEF Calm
    <3> QED
      BY <3>1 DEF CalmNode
  <2> HIDE DEF N
  <2> QED
    BY <2>1, <2>2, CalmShrunk
<1> QED
  BY <1>1, <1>2

LEMMA CalmReclaim ==
    ASSUME NEW s, NEW b, NEW k, NEW n, Calm(s, b, k)
    PROVE  /\ Calm(sfs_reclaim(s, n), b, k) /\ sfs_reclaim(s, n).full = s.full
           /\ sfs_reclaim(s, n).ret = s.ret \/ sfs_reclaim(s, n).panic # None
<1> DEFINE N == [s.node EXCEPT ![n].reclaim = @ - 1]
           t == [s EXCEPT !.node = N]
           f == sfs_fsync(t, n)
<1>1. IsKernel(s)
  BY DEF Calm
<1>2. sfs_reclaim(s, n) \in {t, inode_kill(f, n)}
  BY <1>1 DEF sfs_reclaim, IsKernel
<1>3. ASSUME s.panic = None
      PROVE  /\ DOMAIN N \subseteq DOMAIN s.node /\ N \in [DOMAIN N -> CalmNode]
             /\ \A m \in DOMAIN N : N[m].ref <= s.node[m].ref
  <2>1. s.node \in [DOMAIN s.node -> CalmNode]
    BY <1>3 DEF Calm
  <2>2. /\ DOMAIN N = DOMAIN s.node /\ N \in [DOMAIN N -> CalmNode]
        /\ \A m \in DOMAIN N : N[m].ref = s.node[m].ref
    <3>1. CASE n \notin DOMAIN s.node
      <4>1. N = s.node
        BY <2>1, <3>1
      <4> HIDE DEF N
      <4> QED
        BY <2>1, <4>1
    <3>2. CASE n \in DOMAIN s.node
      <4>1. s.node[n].reclaim - 1 \in Int
        BY <2>1, <3>2 DEF CalmNode
      <4> QED
        BY <2>1, <3>2, <4>1 DEF CalmNode
    <3> QED
      BY <3>1, <3>2
  <2>3. \A m \in DOMAIN s.node : s.node[m].ref \in Nat
    BY <2>1 DEF CalmNode
  <2> HIDE DEF N
  <2> QED
    BY <2>2, <2>3
<1> HIDE DEF N
<1>4. Calm(t, b, k) /\ t.full = s.full /\ t.ret = s.ret
  BY <1>3, CalmShrunk
<1> HIDE DEF t
<1>5. Calm(f, b, k) /\ f.full = t.full /\ f.ret = t.ret
  BY <1>4, CalmFsync
<1> HIDE DEF f
<1>6. /\ Calm(inode_kill(f, n), b, k) /\ inode_kill(f, n).full = f.full
      /\ inode_kill(f, n).ret = f.ret \/ inode_kill(f, n).panic # None
  BY <1>5, CalmKill
<1> QED
  BY <1>2, <1>4, <1>5, <1>6

(* The last reference is below any limit.                                  *)
LEMMA CalmRefDec ==
    ASSUME NEW s, NEW b, NEW k, NEW n, Calm(s, b, k)
    PROVE  /\ Calm(inode_ref_dec(s, n), b, k) /\ inode_ref_dec(s, n).full = s.full
           /\ inode_ref_dec(s, n).ret = s.ret \/ inode_ref_dec(s, n).panic # None
<1> DEFINE N == [s.node EXCEPT ![n].ref = @ - 1]
           t == [s EXCEPT !.node = N]
           v == vop(t, n, "reclaim")
           r == sfs_reclaim(v, n)
           d == inode_ref_dec(s, n)
<1>1. IsKernel(s)
  BY DEF Calm
<1>2. CASE s.panic # None
  BY <1>2 DEF inode_ref_dec
<1>3. CASE s.panic = None /\ (n \notin DOMAIN s.node \/ s.node[n].ref = 0)
  <2>1. \E why \in {"assert", "freed"} : d = Panic(s, why)
    BY <1>3 DEF inode_ref_dec
  <2> QED
    BY <2>1, CalmPanic
<1>4. CASE s.panic = None /\ n \in DOMAIN s.node /\ s.node[n].ref # 0
  <2>1. d = IF t.node[n].ref # 0 THEN t ELSE IF v.panic # None THEN v ELSE r
    BY <1>1, <1>4 DEF inode_ref_dec, IsKernel
  <2>2. /\ DOMAIN N = DOMAIN s.node /\ N \in [DOMAIN N -> CalmNode]
        /\ \A m \in DOMAIN N : N[m].ref <= s.node[m].ref
    <3>1. s.node \in [DOMAIN s.node -> CalmNode]
      BY <1>4 DEF Calm
    <3> QED
      BY <1>4, <3>1 DEF CalmNode
  <2>3. N[n] \in CalmNode
    BY <1>4, <2>2
  <2> HIDE DEF N
  <2>4. Calm(t, b, k) /\ t.full = s.full /\ t.panic = None
    BY <1>4, <2>2, CalmShrunk
  <2>5. t.node = N /\ t.ret = s.ret
    BY <1>1 DEF IsKernel
  <2> HIDE DEF t, d
  <2>6. CASE t.node[n].ref # 0
    BY <2>1, <2>4, <2>5, <2>6 DEF d
  <2>7. CASE t.node[n].ref = 0
    <3>1. v = t \/ \E why \in {"assert", "freed", "no_operation"} : v = Panic(t, why)
      <4>1. N[n].ref = 0 /\ N[n].open \in Int
        BY <2>3, <2>5, <2>7 DEF CalmNode
      <4>2. N[n].ref >= N[n].open => inode_check(t, n) = t
        BY <2>5, <4>1, FilesAssumption DEF inode_check
      <4> QED
        BY <2>4, <2>5, <4>2 DEF vop
    <3> HIDE DEF v
    <3>2. CASE v = t
      <4>1. d = r
        BY <2>1, <2>4, <2>7, <3>2
      <4>2. Calm(r, b, k) /\ r.full = s.full /\ (r.ret = s.ret \/ r.panic # None)
        BY <2>4, <2>5, <3>2, CalmReclaim
      <4> QED
        BY <4>1, <4>2 DEF d
    <3>3. CASE v # t
      <4>1. Calm(v, b, k) /\ v.full = t.full /\ v.panic # None
        BY <2>4, <3>1, <3>3, CalmPanic
      <4>2. d = v
        BY <2>1, <2>7, <4>1
      <4> QED
        BY <2>4, <4>1, <4>2 DEF d
    <3> QED
      BY <3>2, <3>3
  <2> QED
    BY <2>6, <2>7
<1> QED
  BY <1>2, <1>3, <1>4

LEMMA CalmOpenField ==
    ASSUME NEW s, NEW b, NEW k, NEW n, NEW i \in {1, -1}, Calm(s, b, k)
    PROVE  LET t == [s EXCEPT !.node = [s.node EXCEPT ![n].open = @ + i]]
           IN  Calm(t, b, k) /\ t.full = s.full /\ t.panic = s.panic
<1> DEFINE N == [s.node EXCEPT ![n].open = @ + i]
<1>1. ASSUME s.panic = None
      PROVE  /\ DOMAIN N \subseteq DOMAIN s.node /\ N \in [DOMAIN N -> CalmNode]
             /\ \A m \in DOMAIN N : N[m].ref <= s.node[m].ref
  <2>1. s.node \in [DOMAIN s.node -> CalmNode]
    BY <1>1 DEF Calm
  <2>2. /\ DOMAIN N = DOMAIN s.node /\ N \in [DOMAIN N -> CalmNode]
        /\ \A m \in DOMAIN N : N[m].ref = s.node[m].ref
    <3>1. CASE n \notin DOMAIN s.node
      <4>1. N = s.node
        BY <2>1, <3>1
      <4> HIDE DEF N
      <4> QED
        BY <2>1, <4>1
    <3>2. CASE n \in DOMAIN s.node
      <4>1. s.node[n].open + i \in Int
        BY <2>1, <3>2 DEF CalmNode
      <4> QED
        BY <2>1, <3>2, <4>1 DEF CalmNode
    <3> QED
      BY <3>1, <3>2
  <2>3. \A m \in DOMAIN s.node : s.node[m].ref \in Nat
    BY <2>1 DEF CalmNode
  <2> HIDE DEF N
  <2> QED
    BY <2>2, <2>3
<1> HIDE DEF N
<1>2. LET t == [s EXCEPT !.node = N] IN Calm(t, b, k) /\ t.full = s.full /\ t.panic = s.panic
  BY <1>1, CalmShrunk
<1> QED
  BY <1>2 DEF N

LEMMA CalmOpenInc ==
    ASSUME NEW s, NEW b, NEW k, NEW n, Calm(s, b, k)
    PROVE  Calm(inode_open_inc(s, n), b, k)
<1> DEFINE t == [s EXCEPT !.node = [s.node EXCEPT ![n].open = @ + 1]]
<1>1. IsKernel(s)
  BY DEF Calm
<1>2. inode_open_inc(s, n) = t
  BY <1>1 DEF inode_open_inc, IsKernel
<1>3. Calm(t, b, k)
  BY CalmOpenField
<1> QED
  BY <1>2, <1>3

LEMMA CalmOpenDec ==
    ASSUME NEW s, NEW b, NEW k, NEW n, Calm(s, b, k)
    PROVE  Calm(inode_open_dec(s, n), b, k)
<1> DEFINE t == [s EXCEPT !.node = [s.node EXCEPT ![n].open = @ + (-1)]]
           v == vop(t, n, "close")
           d == inode_open_dec(s, n)
<1>1. IsKernel(s)
  BY DEF Calm
<1>2. CASE s.panic # None
  BY <1>2 DEF inode_open_dec
<1>3. CASE s.panic = None /\ (n \notin DOMAIN s.node \/ s.node[n].open = 0)
  <2>1. \E why \in {"assert", "freed"} : d = Panic(s, why)
    BY <1>3 DEF inode_open_dec
  <2> QED
    BY <2>1, CalmPanic
<1>4. CASE s.panic = None /\ n \in DOMAIN s.node /\ s.node[n].open # 0
  <2> DEFINE u == [s EXCEPT !.node[n].open = @ - 1]
  <2>1. u = t
    <3>1. s.node[n].open \in Int
      BY <1>4 DEF Calm, CalmNode
    <3>2. s.node[n].open - 1 = s.node[n].open + (-1)
      BY <3>1
    <3> QED
      BY <1>1, <3>2 DEF IsKernel
  <2>2. d \in {u, vop(u, n, "close"), sfs_fsync(vop(u, n, "close"), n)}
    BY <1>4 DEF inode_open_dec
  <2>3. d \in {t, v, sfs_fsync(v, n)}
    BY <2>1, <2>2
  <2>4. Calm(t, b, k)
    BY CalmOpenField
  <2> HIDE DEF t
  <2>5. Calm(v, b, k)
    BY <2>4, CalmVop
  <2> HIDE DEF v
  <2> QED
    BY <2>3, <2>4, <2>5, CalmFsync
<1> QED
  BY <1>2, <1>3, <1>4

LEMMA CalmVfsClose ==
    ASSUME NEW s, NEW b, NEW k, NEW n, Calm(s, b, k)
    PROVE  Calm(vfs_close(s, n), b, k)
  BY CalmOpenDec, CalmRefDec DEF vfs_close

LEMMA CalmLoad ==
    ASSUME NEW s, NEW b, NEW k, NEW n \in Inodes, Calm(s, b, k)
    PROVE  LET t == sfs_load_inode(s, n)
           IN  Calm(t, b, k + 1) /\ t.full = s.full /\ t.ret = "0"
<1> DEFINE u == inode_ref_inc(s, n)
           N == [u.node EXCEPT ![n].reclaim = @ + 1]
           M == [m \in DOMAIN s.node \cup {n} |-> IF m = n THEN inode_init ELSE s.node[m]]
           x == IF n \in DOMAIN s.node
                THEN IF u.node[n].ref = 1 THEN [u EXCEPT !.node[n].reclaim = @ + 1] ELSE u
                ELSE [s EXCEPT !.node = M]
<1>1. k \in Nat /\ k + 1 \in Nat /\ k + 1 >= k /\ IsKernel(s) /\ b \in [Nodes -> Nat]
  BY DEF Calm, Demand
<1>2. sfs_load_inode(s, n) = Store(x, n)
  BY <1>1 DEF sfs_load_inode, IsKernel
<1>3. Calm(u, b, k + 1) /\ u.full = s.full /\ IsKernel(u)
  BY CalmRefInc DEF Calm
<1>4. CASE n \in DOMAIN s.node
  <2> HIDE DEF u
  <2>1. Calm(x, b, k + 1) /\ x.full = s.full
    <3>1. CASE u.node[n].ref # 1
      <4>1. x = u
        BY <1>4, <3>1
      <4> HIDE DEF x
      <4> QED
        BY <1>3, <4>1
    <3>2. CASE u.node[n].ref = 1
      <4>1. x = [u EXCEPT !.node = N]
        BY <1>3, <1>4, <3>2 DEF IsKernel
      <4>2. ASSUME u.panic = None
            PROVE  /\ DOMAIN N \subseteq DOMAIN u.node /\ N \in [DOMAIN N -> CalmNode]
                   /\ \A m \in DOMAIN N : N[m].ref <= u.node[m].ref
        <5>1. u.node \in [DOMAIN u.node -> CalmNode]
          BY <1>3, <4>2 DEF Calm
        <5>2. /\ DOMAIN N = DOMAIN u.node /\ N \in [DOMAIN N -> CalmNode]
              /\ \A m \in DOMAIN N : N[m].ref = u.node[m].ref
          <6>1. CASE n \notin DOMAIN u.node
            <7>1. N = u.node
              BY <5>1, <6>1
            <7> HIDE DEF N
            <7> QED
              BY <5>1, <7>1
          <6>2. CASE n \in DOMAIN u.node
            <7>1. u.node[n].reclaim + 1 \in Int
              BY <5>1, <6>2 DEF CalmNode
            <7> QED
              BY <5>1, <6>2, <7>1 DEF CalmNode
          <6> QED
            BY <6>1, <6>2
        <5>3. \A m \in DOMAIN u.node : u.node[m].ref \in Nat
          BY <5>1 DEF CalmNode
        <5> HIDE DEF N
        <5> QED
          BY <5>2, <5>3
      <4> HIDE DEF N, x
      <4>3. Calm(x, b, k + 1) /\ x.full = u.full
        BY <1>3, <4>1, <4>2, CalmShrunk
      <4> QED
        BY <1>3, <4>3
    <3> QED
      BY <3>1, <3>2
  <2> HIDE DEF x
  <2> QED
    BY <1>2, <2>1, CalmStore
<1>5. CASE n \notin DOMAIN s.node
  <2>1. x = [s EXCEPT !.node = M]
    BY <1>5
  <2>2. ASSUME s.panic = None
        PROVE  /\ M \in [DOMAIN M -> CalmNode]
               /\ \A m \in DOMAIN M : m \in Nodes /\ M[m].ref <= b[m] + (k + 1)
    <3>1. /\ s.node \in [DOMAIN s.node -> CalmNode]
          /\ \A m \in DOMAIN s.node : m \in Nodes /\ s.node[m].ref <= b[m] + k
      BY <2>2 DEF Calm
    <3>2. inode_init \in CalmNode /\ inode_init.ref = 1 /\ n \in Nodes
      BY DEF inode_init, CalmNode, Nodes
    <3>3. /\ DOMAIN M = DOMAIN s.node \cup {n} /\ M[n] = inode_init
          /\ \A m \in DOMAIN s.node : m # n => M[m] = s.node[m]
      OBVIOUS
    <3>4. M = [m \in DOMAIN M |-> M[m]]
      OBVIOUS
    <3> HIDE DEF M
    <3>5. M \in [DOMAIN M -> CalmNode]
      BY <3>1, <3>2, <3>3, <3>4
    <3>6. ASSUME NEW m \in DOMAIN M PROVE m \in Nodes /\ M[m].ref <= b[m] + (k + 1)
      <4>1. CASE m = n
        <5>1. b[n] \in Nat
          BY <1>1, <3>2
        <5> QED
          BY <1>1, <3>2, <3>3, <4>1, <5>1
      <4>2. CASE m # n
        <5>1. /\ m \in DOMAIN s.node /\ M[m] = s.node[m] /\ m \in Nodes
              /\ s.node[m].ref <= b[m] + k
          BY <3>1, <3>3, <4>2
        <5>2. s.node[m].ref \in Nat /\ b[m] \in Nat
          BY <1>1, <3>1, <5>1 DEF CalmNode
        <5> QED
          BY <1>1, <5>1, <5>2
      <4> QED
        BY <4>1, <4>2
    <3> QED
      BY <3>5, <3>6
  <2> HIDE DEF M, x
  <2>3. Calm(x, b, k + 1) /\ x.full = s.full
    BY <1>1, <2>1, <2>2, CalmNodes
  <2> QED
    BY <1>2, <2>3, CalmStore
<1> QED
  BY <1>4, <1>5

LEMMA CalmLookupOnce ==
    ASSUME NEW s, NEW b, NEW k, NEW d \in Inodes, NEW name, Type[d] = "dir", Calm(s, b, k)
    PROVE  LET t == sfs_lookup_once(s, d, name) IN Calm(t, b, k + 1) /\ t.full = s.full
<1>1. k + 1 \in Nat /\ k + 1 >= k
  BY DEF Calm
<1>2. CASE name \in DOMAIN Entry[d]
  <2>1. Entry[d][name] \in Inodes
    BY <1>2, FilesAssumption
  <2> QED
    BY <1>2, <2>1, CalmLoad DEF sfs_lookup_once
<1>3. CASE name \notin DOMAIN Entry[d]
  <2> DEFINE t == Ret(s, "E_NOENT")
  <2>1. Calm(t, b, k) /\ t.full = s.full /\ sfs_lookup_once(s, d, name) = t
    BY <1>3, CalmRet DEF sfs_lookup_once
  <2> HIDE DEF t
  <2> QED
    BY <1>1, <2>1, CalmMore
<1> QED
  BY <1>2, <1>3

LEMMA CalmLookup ==
    ASSUME NEW s, NEW b, NEW k, NEW d \in Inodes, NEW name, Calm(s, b, k)
    PROVE  Calm(sfs_lookup(s, d, name), b, k + 2)
<1> DEFINE u == inode_ref_inc(s, d)
           x == inode_ref_dec(u, d)
           y == sfs_lookup_once(u, d, name)
<1>1. /\ k + 1 \in Nat /\ k + 2 \in Nat /\ k + 2 >= k + 1 /\ (k + 1) + 1 = k + 2
  BY DEF Calm
<1>2. Calm(u, b, k + 1)
  BY CalmRefInc
<1> HIDE DEF u
<1>3. CASE Type[d] # "dir"
  <2>1. Calm(x, b, k + 1)
    BY <1>2, CalmRefDec
  <2> HIDE DEF x
  <2>2. Calm(Ret(x, "E_NOTDIR"), b, k + 1)
    BY <2>1, CalmRet
  <2>3. sfs_lookup(s, d, name) = Ret(x, "E_NOTDIR")
    BY <1>3 DEF sfs_lookup, x, u
  <2> QED
    BY <1>1, <2>2, <2>3, CalmMore
<1>4. CASE Type[d] = "dir"
  <2>1. Calm(y, b, k + 2)
    BY <1>1, <1>2, <1>4, CalmLookupOnce
  <2> HIDE DEF y
  <2>2. Calm(inode_ref_dec(y, d), b, k + 2)
    BY <2>1, CalmRefDec
  <2>3. sfs_lookup(s, d, name) = inode_ref_dec(y, d)
    BY <1>4 DEF sfs_lookup, y, u
  <2> QED
    BY <2>2, <2>3
<1> QED
  BY <1>3, <1>4

LEMMA CalmVopLookup ==
    ASSUME NEW s, NEW b, NEW k, NEW n, NEW name, Calm(s, b, k)
    PROVE  Calm(vop_lookup(s, n, name), b, k + 2)
<1> DEFINE v == vop(s, n, "lookup")
           t == vop_lookup(s, n, name)
<1>1. k + 2 \in Nat /\ k + 2 >= k
  BY DEF Calm
<1>2. Calm(v, b, k) /\ (v.panic = None => n \in Nodes)
  BY CalmVop
<1>3. t = IF v.panic # None THEN v
          ELSE IF n \in Devices THEN Ret(v, "E_NOENT") ELSE sfs_lookup(v, n, name)
  BY DEF vop_lookup
<1> HIDE DEF v, t
<1>4. CASE v.panic # None \/ n \in Devices
  <2>1. Calm(t, b, k)
    BY <1>2, <1>3, <1>4, CalmRet
  <2> QED
    BY <1>1, <2>1, CalmMore DEF t
<1>5. CASE v.panic = None /\ n \notin Devices
  <2>1. n \in Inodes
    BY <1>2, <1>5 DEF Nodes
  <2> QED
    BY <1>2, <1>3, <1>5, <2>1, CalmLookup DEF t
<1> QED
  BY <1>4, <1>5

(* The start of a lookup takes at most j references, none when it fails.   *)
StartedAt(s, t, b, k, j) ==
    Calm(t, b, k + j) /\ t.full = s.full /\ (t.ret # "0" => Calm(t, b, k))

LEMMA CalmFailed ==
    ASSUME NEW s, NEW b, NEW k, NEW x, NEW j \in Nat, Calm(s, b, k)
    PROVE  StartedAt(s, Ret(s, x), b, k, j)
<1> DEFINE t == Ret(s, x)
<1>1. k + j \in Nat /\ k + j >= k
  BY DEF Calm
<1>2. Calm(t, b, k) /\ t.full = s.full
  BY CalmRet
<1> HIDE DEF t
<1> QED
  BY <1>1, <1>2, CalmMore DEF StartedAt, t

LEMMA CalmTaken ==
    ASSUME NEW s, NEW b, NEW k, NEW n, Calm(s, b, k)
    PROVE  StartedAt(s, Store(inode_ref_inc(s, n), n), b, k, 1)
<1> DEFINE u == inode_ref_inc(s, n)
           t == Store(u, n)
<1>1. Calm(u, b, k + 1) /\ u.full = s.full
  BY CalmRefInc
<1> HIDE DEF u
<1>2. Calm(t, b, k + 1) /\ t.full = u.full /\ t.ret = "0"
  BY <1>1, CalmStore
<1> HIDE DEF t
<1> QED
  BY <1>1, <1>2 DEF StartedAt, t, u

LEMMA CalmCurdir ==
    ASSUME NEW s, NEW b, NEW k, NEW p, Calm(s, b, k)
    PROVE  StartedAt(s, vfs_get_curdir(s, p), b, k, 1)
  BY CalmFailed, CalmTaken DEF vfs_get_curdir

LEMMA CalmBootfs ==
    ASSUME NEW s, NEW b, NEW k, Calm(s, b, k)
    PROVE  StartedAt(s, vfs_get_bootfs(s), b, k, 1)
  BY CalmFailed, CalmTaken DEF vfs_get_bootfs

LEMMA CalmRoot ==
    ASSUME NEW s, NEW b, NEW k, NEW dev, Calm(s, b, k)
    PROVE  StartedAt(s, vfs_get_root(s, dev), b, k, 1)
<1> DEFINE l == sfs_load_inode(s, Root)
<1>1. Calm(l, b, k + 1) /\ l.full = s.full /\ l.ret = "0"
  BY CalmLoad, FilesAssumption
<1> HIDE DEF l
<1>2. StartedAt(s, l, b, k, 1)
  BY <1>1 DEF StartedAt
<1> QED
  BY <1>2, CalmFailed, CalmTaken DEF vfs_get_root, l

LEMMA CalmDevice ==
    ASSUME NEW s, NEW b, NEW k, NEW p, NEW path, Calm(s, b, k)
    PROVE  StartedAt(s, get_device(s, p, path), b, k, 2)
<1>1. k + 1 \in Nat /\ k + 2 \in Nat /\ k + 2 >= k + 1 /\ (k + 1) + 1 = k + 2 /\ k + 2 >= k
  BY DEF Calm
<1>2. ASSUME NEW t, StartedAt(s, t, b, k, 1) PROVE StartedAt(s, t, b, k, 2)
  BY <1>1, <1>2, CalmMore DEF StartedAt
<1>3. CASE path.at = ":"
  <2> DEFINE c == vfs_get_curdir(s, p)
             l == sfs_load_inode(c, Root)
             n == c.out
             t == inode_ref_dec(l, n)
  <2>1. StartedAt(s, c, b, k, 1)
    BY CalmCurdir
  <2>2. get_device(s, p, path) = IF Failed(c) THEN c ELSE t
    BY <1>3 DEF get_device
  <2> HIDE DEF c, n
  <2>3. CASE Failed(c)
    BY <1>2, <2>1, <2>2, <2>3
  <2>4. CASE ~Failed(c)
    <3>1. Calm(l, b, k + 2) /\ l.full = s.full /\ l.ret = "0"
      BY <1>1, <2>1, CalmLoad, FilesAssumption DEF StartedAt
    <3> HIDE DEF l
    <3>2. Calm(t, b, k + 2) /\ t.full = s.full /\ (t.ret = "0" \/ t.panic # None)
      BY <3>1, CalmRefDec
    <3> HIDE DEF t
    <3>3. IsKernel(t)
      BY <3>2 DEF Calm
    <3>4. StartedAt(s, t, b, k, 2)
      BY <3>2, <3>3, CalmStopped DEF StartedAt
    <3> QED
      BY <2>2, <2>4, <3>4
  <2> QED
    BY <2>3, <2>4
<1>4. CASE path.at # ":"
  <2>1. StartedAt(s, get_device(s, p, path), b, k, 1)
    BY <1>4, CalmCurdir, CalmBootfs, CalmRoot DEF get_device
  <2> QED
    BY <1>2, <2>1
<1> QED
  BY <1>3, <1>4

LEMMA CalmVfsLookup ==
    ASSUME NEW s, NEW b, NEW k, NEW p, NEW path, Calm(s, b, k)
    PROVE  LET t == vfs_lookup(s, p, path)
           IN  Calm(t, b, k + 4) /\ (path.name = None => Calm(t, b, k + 2))
<1> DEFINE d == get_device(s, p, path)
           n == d.out
           l == vop_lookup(d, n, path.name)
           t == vfs_lookup(s, p, path)
<1>1. /\ k + 2 \in Nat /\ k + 4 \in Nat /\ (k + 2) + 2 = k + 4 /\ k + 4 >= k + 2
  BY DEF Calm
<1>2. Calm(d, b, k + 2)
  BY CalmDevice DEF StartedAt
<1>3. t = IF Failed(d) \/ path.name = None THEN d ELSE inode_ref_dec(l, n)
  BY DEF vfs_lookup, lookup_in
<1> HIDE DEF d, n, t
<1>4. CASE Failed(d) \/ path.name = None
  BY <1>1, <1>2, <1>3, <1>4, CalmMore DEF t
<1>5. CASE ~(Failed(d) \/ path.name = None)
  <2>1. Calm(l, b, k + 4)
    BY <1>1, <1>2, CalmVopLookup
  <2> HIDE DEF l
  <2>2. Calm(inode_ref_dec(l, n), b, k + 4)
    BY <2>1, CalmRefDec
  <2> QED
    BY <1>3, <1>5, <2>2 DEF t
<1> QED
  BY <1>4, <1>5

(* vop_create stops before its inode_check: no file system has it.         *)
LEMMA CalmCreate ==
    ASSUME NEW s, NEW b, NEW k, NEW p, NEW path, Calm(s, b, k)
    PROVE  Calm(vfs_create(get_device(s, p, path)), b, k)
<1> DEFINE d == get_device(s, p, path)
           n == d.out
           t == vop(d, n, "create")
<1>1. StartedAt(s, d, b, k, 2)
  BY CalmDevice
<1> HIDE DEF d, n
<1>2. CASE Failed(d)
  BY <1>1, <1>2 DEF StartedAt, Failed, vfs_create, d
<1>3. CASE ~Failed(d)
  <2>1. \/ t = d /\ d.panic # None
        \/ \E why \in {"assert", "freed", "no_operation"} : t = Panic(d, why)
    <3>1. d.panic = None /\ n \in DOMAIN d.node => n \in Nodes
      BY <1>1 DEF StartedAt, Calm
    <3> QED
      BY <3>1, OpenOps DEF vop
  <2> HIDE DEF t
  <2>2. Calm(t, b, k + 2) /\ t.full = d.full /\ t.panic # None
    BY <1>1, <2>1, CalmPanic DEF StartedAt
  <2>3. IsKernel(t) /\ t.full = s.full
    BY <1>1, <2>2 DEF Calm, StartedAt
  <2>4. Calm(t, b, k)
    BY <2>2, <2>3, CalmStopped
  <2> QED
    BY <1>3, <2>4 DEF vfs_create, d, n, t
<1> QED
  BY <1>2, <1>3

LEMMA CalmVopOpen ==
    ASSUME NEW s, NEW b, NEW k, NEW n, NEW fl, Calm(s, b, k)
    PROVE  Calm(vop_open(s, n, fl), b, k)
<1> DEFINE v == vop(s, n, "open")
<1>1. Calm(v, b, k)
  BY CalmVop
<1>2. vop_open(s, n, fl) = v \/ \E x : vop_open(s, n, fl) = Ret(v, x)
  BY DEF vop_open
<1> HIDE DEF v
<1> QED
  BY <1>1, <1>2, CalmRet

LEMMA CalmOpened ==
    ASSUME NEW o, NEW b, NEW k, NEW n, NEW fl, Calm(o, b, k)
    PROVE  Calm(vfs_opened(o, n, fl), b, k)
<1> DEFINE d == inode_ref_dec(o, n)
           u == inode_open_inc(o, n)
           v == vop(u, n, "truncate")
           w == sfs_truncfile(v, n)
<1>1. vfs_opened(o, n, fl) \in {o, Ret(d, o.ret), v, Store(w, n), Store(u, n)}
  BY DEF vfs_opened, truncated
<1>2. Calm(d, b, k) /\ Calm(u, b, k)
  BY CalmRefDec, CalmOpenInc
<1> HIDE DEF d, u
<1>3. Calm(v, b, k)
  BY <1>2, CalmVop
<1> HIDE DEF v
<1>4. Calm(w, b, k)
  BY <1>3, CalmTrunc
<1> HIDE DEF w
<1>5. Calm(Ret(d, o.ret), b, k) /\ Calm(Store(w, n), b, k) /\ Calm(Store(u, n), b, k)
  BY <1>2, <1>4, CalmRet, CalmStore
<1> QED
  BY <1>1, <1>3, <1>5

LEMMA CalmLost ==
    ASSUME NEW s, NEW b, NEW k, NEW n, Calm(s, b, k)
    PROVE  Calm([s EXCEPT !.lost[n] = @ + 1], b, k)
<1> DEFINE L == [s.lost EXCEPT ![n] = @ + 1]
           t == [s EXCEPT !.lost = L]
<1>1. IsKernel(s)
  BY DEF Calm
<1>2. [s EXCEPT !.lost[n] = @ + 1] = t
  BY <1>1 DEF IsKernel
<1> HIDE DEF L
<1>3. IsKernel(t) /\ t.node = s.node /\ t.full = s.full /\ t.panic = s.panic
  BY <1>1 DEF IsKernel
<1> HIDE DEF t
<1>4. Calm(t, b, k)
  BY <1>3, CalmSame
<1> QED
  BY <1>2, <1>4

LEMMA CalmVfsOpen ==
    ASSUME NEW s, NEW b, NEW k, NEW p, NEW path, NEW fl, Calm(s, b, k)
    PROVE  Calm(vfs_open(s, p, path, fl), b, k + 4)
<1> DEFINE l == vfs_lookup(s, p, path)
           r == Ret(l, "0")
           c == vfs_create(get_device(r, p, path))
           n == l.out
           x == [l EXCEPT !.lost[n] = @ + 1]
           o == vop_open(l, n, fl)
           t == vfs_open(s, p, path, fl)
<1>1. k + 4 \in Nat /\ k + 4 >= k
  BY DEF Calm
<1>2. t \in {Ret(s, "E_INVAL"), c, l, Ret(x, "E_EXISTS"), vfs_opened(o, n, fl)}
  BY DEF vfs_open, open_found
<1>3. Calm(l, b, k + 4)
  BY CalmVfsLookup
<1> HIDE DEF l, t, n
<1>4. Calm(r, b, k + 4) /\ Calm(o, b, k + 4) /\ Calm(x, b, k + 4)
  BY <1>3, CalmRet, CalmVopOpen, CalmLost
<1> HIDE DEF r, o, x
<1>5. /\ Calm(c, b, k + 4) /\ Calm(Ret(x, "E_EXISTS"), b, k + 4)
      /\ Calm(vfs_opened(o, n, fl), b, k + 4)
  BY <1>4, CalmCreate, CalmRet, CalmOpened
<1>6. Calm(Ret(s, "E_INVAL"), b, k + 4)
  BY <1>1, CalmRet, CalmMore
<1> QED
  BY <1>2, <1>3, <1>5, <1>6 DEF t

LEMMA CalmAlloc ==
    ASSUME NEW s, NEW b, NEW k, NEW p, NEW want, Calm(s, b, k)
    PROVE  Calm(fd_array_alloc(s, p, want), b, k)
<1>1. ASSUME NEW i, NEW f, NEW cond
      PROVE  Calm(Store(Asserted(SetFile(s, p, i, f), cond), i), b, k)
  <2> DEFINE t == SetFile(s, p, i, f)
             u == Asserted(t, cond)
  <2>1. Calm(t, b, k)
    BY CalmFile
  <2> HIDE DEF t
  <2>2. Calm(u, b, k)
    BY <2>1, CalmAsserted
  <2> HIDE DEF u
  <2>3. Calm(Store(u, i), b, k)
    BY <2>2, CalmStore
  <2> QED
    BY <2>3 DEF u, t
<1>2. \A x : Calm(Ret(s, x), b, k)
  BY CalmRet
<1>3. \/ \E x : fd_array_alloc(s, p, want) = Ret(s, x)
      \/ \E i, f, cond : fd_array_alloc(s, p, want)
                           = Store(Asserted(SetFile(s, p, i, f), cond), i)
  <2> DEFINE i == IF want # NO_FD THEN want
                  ELSE CHOOSE x \in FreeFds(s, p) : \A y \in FreeFds(s, p) : x <= y
             f == [File(s, p, i) EXCEPT !.status = "FD_INIT", !.node = None]
             cond == File(s, p, i).open_count = 0
  <2>1. fd_array_alloc(s, p, want) =
          IF want = NO_FD /\ FreeFds(s, p) = {} THEN Ret(s, "E_MAX_OPEN")
          ELSE IF i \notin Fds THEN Ret(s, "E_INVAL")
          ELSE IF i \notin FreeFds(s, p) THEN Ret(s, "E_BUSY")
          ELSE Store(Asserted(SetFile(s, p, i, f), cond), i)
    BY DEF fd_array_alloc
  <2> HIDE DEF i, f, cond
  <2> QED
    BY <2>1
<1> QED
  BY <1>1, <1>2, <1>3

LEMMA CalmFdFree ==
    ASSUME NEW s, NEW b, NEW k, NEW p, NEW i, Calm(s, b, k)
    PROVE  Calm(fd_array_free(s, p, i), b, k)
<1> DEFINE f == File(s, p, i)
           c == IF f.status = "FD_CLOSED" THEN vfs_close(s, f.node) ELSE s
           cond == f.status \in {"FD_INIT", "FD_CLOSED"} /\ f.open_count = 0
           t == Asserted(c, cond)
<1>1. fd_array_free(s, p, i) = SetFile(t, p, i, FreeFd)
  BY DEF fd_array_free
<1>2. Calm(c, b, k)
  BY CalmVfsClose
<1> HIDE DEF c, cond
<1>3. Calm(t, b, k)
  BY <1>2, CalmAsserted
<1> HIDE DEF t
<1> QED
  BY <1>1, <1>3, CalmFile

LEMMA CalmAcquire ==
    ASSUME NEW s, NEW b, NEW k, NEW p, NEW i, Calm(s, b, k)
    PROVE  Calm(fd_array_acquire(s, p, i), b, k)
<1> DEFINE t == SetFile(s, p, i, [File(s, p, i) EXCEPT !.open_count = @ + 1])
<1>1. Calm(t, b, k)
  BY CalmFile
<1> HIDE DEF t
<1> QED
  BY <1>1, CalmAsserted DEF fd_array_acquire, t

LEMMA CalmRelease ==
    ASSUME NEW s, NEW b, NEW k, NEW p, NEW i, Calm(s, b, k)
    PROVE  Calm(fd_array_release(s, p, i), b, k)
<1> DEFINE t == SetFile(s, p, i, [File(s, p, i) EXCEPT !.open_count = @ - 1])
<1>1. Calm(t, b, k)
  BY CalmFile
<1>2. fd_array_release(s, p, i) \in {t, fd_array_free(t, p, i)}
  BY DEF fd_array_release
<1> HIDE DEF t
<1> QED
  BY <1>1, <1>2, CalmFdFree

LEMMA CalmFdOpen ==
    ASSUME NEW s, NEW b, NEW k, NEW p, NEW i, Calm(s, b, k)
    PROVE  Calm(fd_array_open(s, p, i), b, k)
<1> DEFINE t == SetFile(s, p, i, [File(s, p, i) EXCEPT !.status = "FD_OPENED",
                                                       !.open_count = @ + 1])
<1>1. Calm(t, b, k)
  BY CalmFile
<1> HIDE DEF t
<1> QED
  BY <1>1, CalmAsserted DEF fd_array_open, t

LEMMA CalmFdClose ==
    ASSUME NEW s, NEW b, NEW k, NEW p, NEW i, Calm(s, b, k)
    PROVE  Calm(fd_array_close(s, p, i), b, k)
<1> DEFINE t == SetFile(s, p, i, [File(s, p, i) EXCEPT !.status = "FD_CLOSED"])
<1>1. Calm(t, b, k)
  BY CalmFile
<1> HIDE DEF t
<1> QED
  BY <1>1, CalmRelease DEF fd_array_close, t

LEMMA CalmFdDup ==
    ASSUME NEW s, NEW b, NEW k, NEW p, NEW i, NEW from, Calm(s, b, k)
    PROVE  Calm(fd_array_dup(s, p, i, from), b, k + 1)
<1> DEFINE n == from.node
           r == inode_ref_inc(s, n)
           t == inode_open_inc(r, n)
           u == SetFile(t, p, i, [from EXCEPT !.status = "FD_INIT", !.open_count = 0])
<1>1. Calm(r, b, k + 1)
  BY CalmRefInc
<1> HIDE DEF r
<1>2. Calm(t, b, k + 1)
  BY <1>1, CalmOpenInc
<1> HIDE DEF t
<1>3. Calm(u, b, k + 1)
  BY <1>2, CalmFile
<1> HIDE DEF u
<1> QED
  BY <1>3, CalmFdOpen DEF fd_array_dup, u, t, r

LEMMA CalmFileOpen ==
    ASSUME NEW s, NEW b, NEW k, NEW p, NEW path, NEW fl, Calm(s, b, k)
    PROVE  Calm(file_open(s, p, path, fl), b, k + 4)
<1> DEFINE a == fd_array_alloc(s, p, NO_FD)
           i == a.out
           acc == fl.acc
           v == vfs_open(a, p, path, fl)
           f == fd_array_free(v, p, i)
           t == SetFile(v, p, i, [File(v, p, i) EXCEPT !.node = v.out,
                                                       !.readable = acc \in {"r", "rw"},
                                                       !.writable = acc \in {"w", "rw"}])
           o == fd_array_open(t, p, i)
<1>1. k + 4 \in Nat /\ k + 4 >= k
  BY DEF Calm
<1>2. file_open(s, p, path, fl) \in {a, f, Store(o, i)}
  BY DEF file_open, open_in, file_opened
<1>3. Calm(a, b, k)
  BY CalmAlloc
<1> HIDE DEF a, i
<1>4. Calm(a, b, k + 4) /\ Calm(v, b, k + 4)
  BY <1>1, <1>3, CalmMore, CalmVfsOpen
<1> HIDE DEF v, acc
<1>5. Calm(f, b, k + 4) /\ Calm(t, b, k + 4)
  BY <1>4, CalmFdFree, CalmFile
<1> HIDE DEF f, t
<1>6. Calm(o, b, k + 4)
  BY <1>5, CalmFdOpen
<1> HIDE DEF o
<1> QED
  BY <1>2, <1>4, <1>5, <1>6, CalmStore

LEMMA CalmFileClose ==
    ASSUME NEW s, NEW b, NEW k, NEW p, NEW i, Calm(s, b, k)
    PROVE  Calm(file_close(s, p, i), b, k)
  BY CalmFdClose, CalmRet DEF file_close

LEMMA CalmFileOp ==
    ASSUME NEW s, NEW b, NEW k, NEW p, NEW i, NEW op, NEW changes, Calm(s, b, k)
    PROVE  Calm(file_op(s, p, i, op, changes), b, k)
<1> DEFINE a == fd_array_acquire(s, p, i)
           n == File(s, p, i).node
           v == vop(a, n, op)
           x == sfs_truncfile(v, n)
           y == sfs_fsync(v, n)
           t == file_op(s, p, i, op, changes)
<1>1. t \in {Ret(s, "E_INVAL"), v, fd_array_release(x, p, i), fd_array_release(y, p, i),
             fd_array_release(v, p, i)}
  BY DEF file_op
<1>2. Calm(a, b, k)
  BY CalmAcquire
<1> HIDE DEF a, n, t
<1>3. Calm(v, b, k)
  BY <1>2, CalmVop
<1> HIDE DEF v
<1>4. Calm(x, b, k) /\ Calm(y, b, k)
  BY <1>3, CalmTrunc, CalmFsync
<1> HIDE DEF x, y
<1> QED
  BY <1>1, <1>3, <1>4, CalmRelease, CalmRet DEF t

LEMMA CalmFileDup ==
    ASSUME NEW s, NEW b, NEW k, NEW p, NEW i, NEW j, Calm(s, b, k)
    PROVE  Calm(file_dup(s, p, i, j), b, k + 1)
<1> DEFINE a == fd_array_alloc(s, p, j)
           n == a.out
           d == fd_array_dup(a, p, n, File(s, p, i))
           t == file_dup(s, p, i, j)
<1>1. k + 1 \in Nat /\ k + 1 >= k
  BY DEF Calm
<1>2. t \in {Ret(s, "E_INVAL"), a, Store(d, n)}
  BY DEF file_dup
<1>3. Calm(a, b, k)
  BY CalmAlloc
<1> HIDE DEF a, n, t
<1>4. Calm(d, b, k + 1)
  BY <1>3, CalmFdDup
<1> HIDE DEF d
<1>5. Calm(Ret(s, "E_INVAL"), b, k) /\ Calm(Store(d, n), b, k + 1)
  BY <1>4, CalmRet, CalmStore
<1> QED
  BY <1>1, <1>2, <1>3, <1>5, CalmMore DEF t

LEMMA CalmCloseFrom ==
    ASSUME NEW s, NEW b, NEW k, NEW p, NEW i \in Nat, i <= NENTRY, Calm(s, b, k)
    PROVE  Calm(CloseFrom(s, p, i), b, k)
<1>1. PICK g : CloseLoop(g, s, p, i, NENTRY) /\ CloseFrom(s, p, i) = g[NENTRY]
  BY CloseFromLoop
<1>2. NENTRY \in Nat
  BY FdsFinite
<1>3. ASSUME NEW j \in i .. NENTRY
      PROVE  g[j] = IF j = i THEN s ELSE CloseOne(g[j - 1], p, j - 1)
  BY <1>1, <1>2 DEF CloseLoop
<1> DEFINE N == {m \in i .. NENTRY : ~Calm(g[m], b, k)}
<1>4. N = {}
  <2> SUFFICES ASSUME N # {} PROVE FALSE
    OBVIOUS
  <2>1. N \subseteq Nat
    BY <1>2
  <2>2. PICK m \in N : \A y \in N : m <= y
    BY <2>1, Least
  <2>3. i \in i .. NENTRY
    BY <1>2
  <2>4. m \in i .. NENTRY /\ m # i
    BY <1>3, <2>3
  <2>5. m - 1 \in i .. NENTRY /\ ~(m <= m - 1)
    BY <1>2, <2>4
  <2>6. Calm(g[m - 1], b, k)
    BY <2>2, <2>5
  <2> DEFINE x == g[m - 1]
             j == m - 1
  <2>7. g[m] = CloseOne(x, p, j)
    BY <1>3, <2>4
  <2> HIDE DEF x, j
  <2>8. Calm(CloseOne(x, p, j), b, k)
    BY <2>6, CalmFdClose DEF CloseOne, x
  <2> QED
    BY <2>2, <2>7, <2>8
<1>5. NENTRY \in i .. NENTRY
  BY <1>2
<1> QED
  BY <1>1, <1>4, <1>5

LEMMA CalmStarted ==
    ASSUME NEW s, NEW b, NEW k, NEW c, NEW p, Calm(s, b, k)
    PROVE  Calm(Started(s, c, p), b, k + 1)
<1> DEFINE pwd == s.files[p].pwd
           t == IF pwd = None THEN s ELSE inode_ref_inc(s, pwd)
           F == [t.files EXCEPT ![c] = [files_create EXCEPT !.pwd = pwd]]
<1>1. k + 1 \in Nat /\ k + 1 >= k
  BY DEF Calm
<1>2. Calm(t, b, k + 1)
  BY <1>1, CalmMore, CalmRefInc
<1>3. IsKernel(t)
  BY <1>2 DEF Calm
<1>4. Started(s, c, p) = [t EXCEPT !.files = F]
  BY <1>3 DEF Started, IsKernel
<1> HIDE DEF t, F
<1> QED
  BY <1>2, <1>4, CalmFiles

LEMMA CalmDupFiles ==
    ASSUME NEW s, NEW b, NEW k, NEW c, NEW p, Calm(s, b, k)
    PROVE  Calm(dup_files(s, c, p), b, k + NENTRY + 1)
<1> DEFINE u == Started(s, c, p)
<1>1. PICK g : DupLoop(g, u, s, c, p, NENTRY) /\ dup_files(s, c, p) = g[NENTRY]
  BY DupFilesLoop
<1>2. NENTRY \in Nat /\ k \in Nat
  BY FdsFinite DEF Calm
<1>3. ASSUME NEW j \in 0 .. NENTRY
      PROVE  g[j] = IF j = 0 THEN u ELSE DupOne(g[j - 1], s, c, p, j - 1)
  BY <1>1, <1>2 DEF DupLoop
<1>4. Calm(u, b, k + 1)
  BY CalmStarted
<1> HIDE DEF u
<1> DEFINE N == {m \in 0 .. NENTRY : ~Calm(g[m], b, k + m + 1)}
<1>5. N = {}
  <2> SUFFICES ASSUME N # {} PROVE FALSE
    OBVIOUS
  <2>1. N \subseteq Nat
    BY <1>2
  <2>2. PICK m \in N : \A y \in N : m <= y
    BY <2>1, Least
  <2>3. 0 \in 0 .. NENTRY /\ k + 0 + 1 = k + 1
    BY <1>2
  <2>4. m \in 0 .. NENTRY /\ m # 0
    <3>1. g[0] = u
      BY <1>3, <2>3
    <3> QED
      BY <1>4, <2>3, <3>1
  <2>5. m - 1 \in 0 .. NENTRY /\ ~(m <= m - 1)
    BY <1>2, <2>4
  <2>6. Calm(g[m - 1], b, k + (m - 1) + 1)
    BY <2>2, <2>5
  <2> DEFINE x == g[m - 1]
             j == m - 1
  <2>7. g[m] = DupOne(x, s, c, p, j)
    BY <1>3, <2>4
  <2>8. /\ k + (m - 1) + 1 = k + m /\ (k + m) + 1 = k + m + 1 /\ k + m \in Nat
        /\ k + m + 1 \in Nat /\ k + m + 1 >= k + m
    BY <1>2, <2>4
  <2>9. Calm(x, b, k + m)
    BY <2>6, <2>8
  <2> HIDE DEF x, j
  <2>10. Calm(DupOne(x, s, c, p, j), b, k + m + 1)
    BY <2>8, <2>9, CalmFdDup, CalmMore DEF DupOne
  <2> QED
    BY <2>2, <2>7, <2>10
<1>6. NENTRY \in 0 .. NENTRY
  BY <1>2
<1> QED
  BY <1>1, <1>5, <1>6

LEMMA CalmDestroy ==
    ASSUME NEW s, NEW b, NEW k, NEW p, Calm(s, b, k)
    PROVE  Calm(files_destroy(s, p), b, k)
<1> DEFINE d == IF s.files[p].pwd = None THEN s ELSE inode_ref_dec(s, s.files[p].pwd)
           t == CloseFrom(d, p, 0)
           cond == \A i \in Fds : File(t, p, i).status = "FD_NONE"
           u == Asserted(t, cond)
           F == [u.files EXCEPT ![p] = files_create]
<1>1. Calm(d, b, k)
  BY CalmRefDec
<1> HIDE DEF d
<1>2. Calm(t, b, k)
  BY <1>1, CalmCloseFrom, FdsFinite
<1>3. files_destroy(s, p) = [u EXCEPT !.files[p] = files_create]
  BY DEF files_destroy, d
<1> HIDE DEF t, cond
<1>4. Calm(u, b, k)
  BY <1>2, CalmAsserted
<1>5. IsKernel(u)
  BY <1>4 DEF Calm
<1>6. files_destroy(s, p) = [u EXCEPT !.files = F]
  BY <1>3, <1>5 DEF IsKernel
<1> HIDE DEF u, F
<1> QED
  BY <1>4, <1>6, CalmFiles

LEMMA CalmGetcwd ==
    ASSUME NEW s, NEW b, NEW k, NEW p, NEW short, Calm(s, b, k)
    PROVE  Calm(vfs_getcwd(s, p, short), b, k + 3)
<1> DEFINE c == vfs_get_curdir(s, p)
           n == c.out
           v == vop(c, n, "namefile")
           r == inode_ref_inc(v, n)
           u == sfs_lookup_once(r, n, "..")
           x == inode_ref_dec(u, n)
           f == sfs_namefile(v, n, short)
           t == vfs_getcwd(s, p, short)
<1>1. /\ k + 1 \in Nat /\ k + 2 \in Nat /\ k + 3 \in Nat /\ (k + 1) + 1 = k + 2
      /\ (k + 2) + 1 = k + 3 /\ k + 3 >= k + 1
  BY DEF Calm
<1>2. Calm(c, b, k + 1)
  BY CalmCurdir DEF StartedAt
<1>3. t = IF Failed(c) THEN c ELSE IF v.panic # None THEN v ELSE inode_ref_dec(f, n)
  BY DEF vfs_getcwd
<1> HIDE DEF c, n, t
<1>4. /\ Calm(v, b, k + 1)
      /\ v.panic = None => n \in Nodes /\ "namefile" \in Ops(n)
  BY <1>2, CalmVop
<1> HIDE DEF v
<1>5. CASE Failed(c) \/ v.panic # None
  <2>1. Calm(t, b, k + 1)
    BY <1>2, <1>3, <1>4, <1>5
  <2> QED
    BY <1>1, <2>1, CalmMore DEF t
<1>6. CASE ~Failed(c) /\ v.panic = None
  <2>1. n \in Inodes /\ Type[n] = "dir"
    BY <1>4, <1>6 DEF Ops, Nodes
  <2>2. Calm(r, b, k + 2)
    BY <1>1, <1>4, CalmRefInc
  <2>3. f \in {Ret(v, "E_NO_MEM"), x, inode_ref_dec(x, n)}
    BY DEF sfs_namefile
  <2> HIDE DEF r, f
  <2>4. Calm(u, b, k + 3)
    BY <1>1, <2>1, <2>2, CalmLookupOnce
  <2> HIDE DEF u
  <2>5. Calm(x, b, k + 3)
    BY <2>4, CalmRefDec
  <2> HIDE DEF x
  <2>6. Calm(Ret(v, "E_NO_MEM"), b, k + 3)
    BY <1>1, <1>4, CalmMore, CalmRet
  <2>7. Calm(f, b, k + 3)
    BY <2>3, <2>5, <2>6, CalmRefDec
  <2> QED
    BY <1>3, <1>6, <2>7, CalmRefDec DEF t
<1> QED
  BY <1>5, <1>6

LEMMA CalmSetCurdir ==
    ASSUME NEW s, NEW b, NEW k, NEW p, NEW dir, Calm(s, b, k)
    PROVE  Calm(vfs_set_curdir(s, p, dir), b, k + 1)
<1> DEFINE old == s.files[p].pwd
           v == vop(s, dir, "gettype")
           r == inode_ref_inc(v, dir)
           F == [r.files EXCEPT ![p].pwd = dir]
           t == [r EXCEPT !.files = F]
           d == inode_ref_dec(t, old)
           z == vfs_set_curdir(s, p, dir)
<1>1. k + 1 \in Nat /\ k + 1 >= k
  BY DEF Calm
<1>2. Calm(v, b, k)
  BY CalmVop
<1>3. Calm(r, b, k + 1)
  BY <1>2, CalmRefInc
<1>4. [r EXCEPT !.files[p].pwd = dir] = t
  <2>1. IsKernel(r)
    BY <1>3 DEF Calm
  <2> HIDE DEF r
  <2> QED
    BY <2>1 DEF IsKernel
<1>5. z \in {Ret(s, "0"), v, Ret(v, "E_NOTDIR"),
             Ret([r EXCEPT !.files[p].pwd = dir], "0"),
             Ret(inode_ref_dec([r EXCEPT !.files[p].pwd = dir], old), "0")}
  BY DEF vfs_set_curdir
<1>6. z \in {Ret(s, "0"), v, Ret(v, "E_NOTDIR"), Ret(t, "0"), Ret(d, "0")}
  BY <1>4, <1>5
<1> HIDE DEF v, r, F, old, z
<1>7. Calm(t, b, k + 1)
  BY <1>3, CalmFiles
<1> HIDE DEF t
<1>8. Calm(d, b, k + 1)
  BY <1>7, CalmRefDec
<1> HIDE DEF d
<1>9. Calm(Ret(s, "0"), b, k) /\ Calm(Ret(v, "E_NOTDIR"), b, k)
  BY <1>2, CalmRet
<1>10. Calm(Ret(t, "0"), b, k + 1) /\ Calm(Ret(d, "0"), b, k + 1)
  BY <1>7, <1>8, CalmRet
<1> QED
  BY <1>1, <1>2, <1>6, <1>9, <1>10, CalmMore DEF z

LEMMA CalmSetBootfs ==
    ASSUME NEW s, NEW b, NEW k, NEW p, NEW dev, Calm(s, b, k)
    PROVE  Calm(vfs_set_bootfs(s, p, dev), b, k + 4)
<1> DEFINE path == [at |-> dev, name |-> None]
           l == vfs_lookup(s, p, path)
           n == l.out
           e == vfs_set_curdir(l, p, n)
           c == vfs_chdir(s, p, path)
           g == vfs_get_curdir(c, p)
           t == [g EXCEPT !.boot = g.out]
           z == vfs_set_bootfs(s, p, dev)
<1>1. /\ k + 2 \in Nat /\ k + 3 \in Nat /\ k + 4 \in Nat /\ (k + 2) + 1 = k + 3
      /\ (k + 3) + 1 = k + 4 /\ k + 4 >= k + 3 /\ k + 3 >= k + 2
  BY DEF Calm
<1>2. Calm(l, b, k + 2)
  BY CalmVfsLookup
<1>3. c = IF Failed(l) THEN l ELSE inode_ref_dec(e, n)
  BY DEF vfs_chdir, chdir_to
<1>4. z = IF Failed(c) THEN c ELSE change_bootfs(g)
  BY DEF vfs_set_bootfs, bootfs_here
<1> HIDE DEF l, n, c, z
<1>5. Calm(e, b, k + 3)
  BY <1>1, <1>2, CalmSetCurdir
<1> HIDE DEF e
<1>6. Calm(c, b, k + 3)
  BY <1>1, <1>2, <1>3, <1>5, CalmMore, CalmRefDec
<1>7. Calm(g, b, k + 4)
  BY <1>1, <1>6, CalmCurdir DEF StartedAt
<1> HIDE DEF g
<1>8. Calm(t, b, k + 4)
  <2>1. IsKernel(g)
    BY <1>7 DEF Calm
  <2>2. IsKernel(t) /\ t.node = g.node /\ t.full = g.full /\ t.panic = g.panic
    BY <2>1 DEF IsKernel
  <2> HIDE DEF t
  <2> QED
    BY <1>7, <2>2, CalmSame
<1>9. change_bootfs(g) \in {g, Ret(t, "0"), Ret(inode_ref_dec(t, g.boot), "0")}
  BY DEF change_bootfs
<1> HIDE DEF t
<1>10. Calm(inode_ref_dec(t, g.boot), b, k + 4)
  BY <1>8, CalmRefDec
<1>11. Calm(Ret(t, "0"), b, k + 4) /\ Calm(Ret(inode_ref_dec(t, g.boot), "0"), b, k + 4)
  BY <1>8, <1>10, CalmRet
<1> QED
  BY <1>1, <1>4, <1>6, <1>7, <1>9, <1>11, CalmMore DEF z

LEMMA CalmInitfd ==
    ASSUME NEW s, NEW b, NEW k, NEW p, NEW i, NEW path, NEW acc, Calm(s, b, k)
    PROVE  Calm(initfd(s, p, i, path, acc), b, k + 5)
<1> DEFINE o == file_open(s, p, path, Access(acc))
           n == o.out
           c == file_close(o, p, i)
           d == file_dup(c, p, n, i)
           e == file_close(d, p, n)
           t == initfd(s, p, i, path, acc)
<1>1. k + 4 \in Nat /\ k + 5 \in Nat /\ (k + 4) + 1 = k + 5 /\ k + 5 >= k + 4
  BY DEF Calm
<1>2. t \in {o, e}
  BY DEF initfd, move_fd
<1>3. Calm(o, b, k + 4)
  BY CalmFileOpen
<1> HIDE DEF o, n, t
<1>4. Calm(c, b, k + 4)
  BY <1>3, CalmFileClose
<1> HIDE DEF c
<1>5. Calm(d, b, k + 5)
  BY <1>1, <1>4, CalmFileDup
<1> HIDE DEF d
<1>6. Calm(e, b, k + 5)
  BY <1>5, CalmFileClose
<1> QED
  BY <1>1, <1>2, <1>3, <1>6, CalmMore DEF t

LEMMA CalmExec ==
    ASSUME NEW s, NEW b, NEW k, NEW p, NEW path, Calm(s, b, k)
    PROVE  LET o == file_open(files_closeall(s, p), p, path, Access("r"))
               r == file_op(file_op(o, p, o.out, "tryseek", FALSE), p, o.out, "read", FALSE)
               u == file_close(r, p, o.out)
           IN  Calm(o, b, k + 4) /\ Calm(r, b, k + 4) /\ Calm(u, b, k + 4)
<1> DEFINE c == files_closeall(s, p)
           fl == Access("r")
           o == file_open(c, p, path, fl)
           i == o.out
           no == FALSE
           v == file_op(o, p, i, "tryseek", no)
           r == file_op(v, p, i, "read", no)
           u == file_close(r, p, i)
<1>1. 2 \in Nat /\ 2 <= NENTRY
  BY FilesAssumption
<1>2. Calm(c, b, k)
  BY <1>1, CalmCloseFrom DEF files_closeall
<1> HIDE DEF c, fl, no
<1>3. Calm(o, b, k + 4)
  BY <1>2, CalmFileOpen
<1> HIDE DEF o, i
<1>4. Calm(v, b, k + 4)
  BY <1>3, CalmFileOp
<1> HIDE DEF v
<1>5. Calm(r, b, k + 4)
  BY <1>4, CalmFileOp
<1> HIDE DEF r
<1>6. Calm(u, b, k + 4)
  BY <1>5, CalmFileClose
<1> QED
  BY <1>3, <1>5, <1>6 DEF o, i, v, r, u, c, fl, no

(* The references that the tables, the boot file system, the device list   *)
(* and the lost ones make: those of the inodes between calls.              *)
Refs(s) == RefOf(s.files, Dirs(s.files), s.boot, s.lost)

LEMMA CalmSettled ==
    ASSUME NEW s, Settled(s), s.full = FALSE
    PROVE  Calm(s, Refs(s), 0)
<1> DEFINE R == Refs(s)
           O == OpenOf(s.files)
<1>1. Held(s, R, O)
  BY SettledFacts DEF Good, Refs
<1> HIDE DEF R, O
<1>2. s.node \in [DOMAIN s.node -> CalmNode]
  BY <1>1 DEF Held, NodeT, CalmNode
<1>3. ASSUME NEW n \in DOMAIN s.node PROVE n \in Nodes /\ s.node[n].ref <= R[n] + 0
  <2>1. n \in Nodes /\ s.node[n].ref = R[n] /\ R[n] \in Nat
    BY <1>1 DEF Held, Demand
  <2> QED
    BY <2>1
<1>4. Calm(s, R, 0)
  BY <1>1, <1>2, <1>3 DEF Calm, Held
<1> QED
  BY <1>4 DEF R

LEMMA CalmEnough ==
    ASSUME NEW t, NEW b, NEW k, Calm(t, b, 0 + k), k \in {0, 1, 3, 4, 5, NENTRY + 1}
    PROVE  Calm(t, b, Slack)
<1>1. NENTRY \in Nat /\ NENTRY >= 3
  BY FilesAssumption
<1>2. k \in Nat /\ Slack \in Nat /\ Slack >= k /\ 0 + k = k
  BY <1>1 DEF Slack
<1> QED
  BY <1>2, CalmMore

-----------------------------------------------------------------------------
(* fs_cleanup: nothing is behind on the disk then.                         *)
Cleaned(s, D, f) ==
    [s EXCEPT !.node = [n \in DOMAIN @ |->
                          IF n \in D THEN [@[n] EXCEPT !.dirty = FALSE] ELSE @[n]],
              !.stale = @ \ D,
              !.full = f]

LEMMA CleanupSettled ==
    ASSUME NEW s, NEW D, NEW f \in BOOLEAN, Settled(s), s.full = FALSE,
           D = {n \in DOMAIN s.node \cap Inodes : s.node[n].dirty},
           f => \E n \in DOMAIN s.node : inode_check(s, n).full
    PROVE  LET t == Cleaned(s, D, f)
           IN  /\ Settled(t) /\ t.stale = {} /\ t.files = s.files /\ t.boot = s.boot
               /\ Calm(t, Refs(s), 0)
<1> DEFINE N == [n \in DOMAIN s.node |->
                   IF n \in D THEN [s.node[n] EXCEPT !.dirty = FALSE] ELSE s.node[n]]
           t == Cleaned(s, D, f)
           R == RefOf(s.files, Dirs(s.files), s.boot, s.lost)
           O == OpenOf(s.files)
<1>1. Held(s, R, O) /\ IsKernel(s)
  BY SettledFacts DEF Good
<1>2. t = [s EXCEPT !.node = N, !.stale = s.stale \ D, !.full = f]
  BY <1>1 DEF IsKernel, Cleaned
<1>3. s.stale \ D = {}
  BY <1>1 DEF Held
<1>4. /\ DOMAIN N = DOMAIN s.node
      /\ N \in [DOMAIN N -> NodeT]
      /\ \A m \in DOMAIN N :
            N[m].ref = s.node[m].ref /\ N[m].open = s.node[m].open
            /\ N[m].reclaim = s.node[m].reclaim
  <2>1. s.node \in [DOMAIN s.node -> NodeT]
    BY <1>1 DEF Held
  <2>2. ASSUME NEW m \in DOMAIN s.node
        PROVE  /\ N[m] \in NodeT /\ N[m].ref = s.node[m].ref /\ N[m].open = s.node[m].open
               /\ N[m].reclaim = s.node[m].reclaim
    <3>1. s.node[m] \in NodeT
      BY <2>1
    <3>2. N[m] = IF m \in D THEN [s.node[m] EXCEPT !.dirty = FALSE] ELSE s.node[m]
      OBVIOUS
    <3> HIDE DEF N
    <3> QED
      BY <3>1, <3>2 DEF NodeT
  <2>3. N = [m \in DOMAIN s.node |-> N[m]]
    OBVIOUS
  <2> HIDE DEF N
  <2> QED
    BY <2>2, <2>3
<1> HIDE DEF N, t
<1>5. /\ IsKernel(t) /\ t.node = N /\ t.stale = {} /\ t.panic = s.panic
      /\ t.full = f /\ SameRest(s, t)
  BY <1>1, <1>2, <1>3 DEF IsKernel, SameRest
<1> HIDE DEF R, O
<1>6. Held(t, R, O)
  BY <1>1, <1>4, <1>5 DEF Held
<1>7. Good(t, Dirs(s.files))
  BY <1>5, <1>6, GoodSame, SettledFacts DEF R, O, SameRest, SameBut
<1>8. ASSUME f PROVE \E n \in Nodes : R[n] + 0 >= MAX_INODE_COUNT
  <2>1. PICK n \in DOMAIN s.node : inode_check(s, n).full
    BY <1>8
  <2>2. ~(s.node[n].ref < MAX_INODE_COUNT /\ s.node[n].open < MAX_INODE_COUNT)
    BY <2>1 DEF inode_check
  <2>3. /\ n \in Nodes /\ s.node[n].ref = R[n] /\ s.node[n].open = O[n]
        /\ R[n] >= O[n] /\ R[n] \in Nat /\ O[n] \in Nat
    BY <1>1 DEF Held, Demand
  <2> QED
    BY <2>2, <2>3, FilesAssumption
<1>9. Calm(t, R, 0)
  <2>1. Calm(s, R, 0)
    BY CalmSettled DEF R, Refs
  <2>2. N \in [DOMAIN N -> CalmNode]
    BY <1>4 DEF NodeT, CalmNode
  <2> QED
    BY <1>4, <1>5, <1>8, <2>1, <2>2 DEF Calm, Held
<1> QED
  BY <1>5, <1>7, <1>9 DEF Settled, SameRest, t, R, Refs

-----------------------------------------------------------------------------
(* The inductive invariant.                                                *)

Pcs == {None, "boot", "thread", "waiting", "exec", "umain0", "umain1", "main", "done"}

(* Descriptor 0 of p is "stdin:".                                          *)
StdinAt(s, p) ==
    /\ OpenFd(s.files[p].fd[0]) /\ s.files[p].fd[0].node = "stdin"
    /\ s.files[p].fd[0].readable

(* What holds of the kernel's variables s when the processes are at c.     *)
Sound(s, c) ==
    /\ Settled(s)
    /\ \A p \in Procs : c[p] = None => s.files[p] = files_create
    /\ \A p \in Procs : c[p] = "boot" =>
          p = InitProc /\ s.boot = None /\ s.files[p].pwd = None
    /\ \A p \in Procs : c[p] = "done" =>
          s.stale = {} /\ \A q \in Procs : q # p => c[q] = None
    /\ \A p \in Procs : c[p] \in {"umain0", "umain1"} => Spare(s, p)
    /\ \A p \in Procs : c[p] = "umain1" => StdinAt(s, p)

IInv ==
    /\ pc \in [Procs -> Pcs]
    /\ panic \in {None, "no_operation", "inode_check"}
    /\ panic = None => Sound(Kernel, pc)
    /\ panic = "inode_check" => NearLimit

LEMMA NobodyDone ==
    ASSUME NEW s, NEW c \in [Procs -> Pcs], NEW p \in Procs, Sound(s, c),
           c[p] \notin {None, "done"}
    PROVE  \A q \in Procs : c[q] # "done"
  BY DEF Sound

(* Process p goes to x, in a call that changes at most its table.          *)
At(c, p, x) == [c EXCEPT ![p] = x]

LEMMA SoundStep ==
    ASSUME NEW s, NEW c \in [Procs -> Pcs], NEW p \in Procs, NEW t, NEW x \in Pcs, Sound(s, c),
           \A q \in Procs : c[q] # "done", x \notin {"boot", "done"}, Settled(t),
           t.boot = s.boot \/ p = InitProc,
           \A q \in Procs : q # p => t.files[q] = s.files[q],
           x = None => t.files[p] = files_create,
           x \in {"umain0", "umain1"} => Spare(t, p),
           x = "umain1" => StdinAt(t, p)
    PROVE  /\ Sound(t, At(c, p, x))
           /\ At(c, p, x) \in [Procs -> Pcs]
           /\ \A q \in Procs : At(c, p, x)[q] # "done"
<1> DEFINE d == At(c, p, x)
<1>1. d \in [Procs -> Pcs] /\ \A q \in Procs : d[q] = IF q = p THEN x ELSE c[q]
  BY DEF At
<1> HIDE DEF d
<1>2. \A q \in Procs : d[q] # "done"
  BY <1>1
<1>3. \A q \in Procs : d[q] = None => t.files[q] = files_create
  BY <1>1 DEF Sound
<1>4. ASSUME NEW q \in Procs, d[q] = "boot"
      PROVE  q = InitProc /\ t.boot = None /\ t.files[q].pwd = None
  <2>1. q # p /\ c[q] = "boot"
    BY <1>1, <1>4
  <2> QED
    BY <2>1 DEF Sound
<1>5. ASSUME NEW q \in Procs, d[q] \in {"umain0", "umain1"}
      PROVE  Spare(t, q) /\ (d[q] = "umain1" => StdinAt(t, q))
  <2>1. CASE q = p
    BY <1>1, <1>5, <2>1
  <2>2. CASE q # p
    <3>1. d[q] = c[q] /\ t.files[q] = s.files[q]
      BY <1>1, <2>2
    <3>2. Spare(s, q) /\ (c[q] = "umain1" => StdinAt(s, q))
      BY <1>5, <3>1 DEF Sound
    <3> QED
      BY <3>1, <3>2 DEF Spare, StdinAt
  <2> QED
    BY <2>1, <2>2
<1>6. Sound(t, d)
  BY <1>2, <1>3, <1>4, <1>5 DEF Sound
<1> QED
  BY <1>1, <1>2, <1>6 DEF d

(* The references of the model are those that the properties count.        *)
LEMMA RefsHolders ==
    ASSUME NEW n \in Nodes, lost \in Demand
    PROVE  /\ OpenOf(files)[n] = Cardinality(OpenIn(n)) /\ OpenOf(files)[n] \in Nat
           /\ Refs(Kernel)[n] = Holders(n) + lost[n]
<1> DEFINE F == files
           W == Dirs(F)
           a == OpenOf(F)
           w == PwdOf(W)
           R == RefSum(a, w, boot, lost)
<1>1. OpenIn(n) = OpenSet(F, n)
  BY DEF OpenIn, OpenSet
<1>2. a[n] = Cardinality(OpenIn(n)) /\ a \in Demand
  BY <1>1, OpenOfType
<1>3. w[n] = Cardinality({p \in Procs : files[p].pwd = n}) /\ w \in Demand
  <2>1. w[n] = Cardinality({p \in Procs : W[p] = n}) /\ w \in Demand
    BY PwdOfType
  <2>2. {p \in Procs : W[p] = n} = {p \in Procs : files[p].pwd = n}
    BY DEF Dirs
  <2> QED
    BY <2>1, <2>2
<1>4. a[n] \in Nat /\ w[n] \in Nat /\ lost[n] \in Nat
  BY <1>2, <1>3 DEF Demand
<1>5. R[n] = a[n] + w[n] + (IF boot = n THEN 1 ELSE 0)
             + (IF n \in Devices THEN 1 ELSE 0) + lost[n]
  BY DEF RefSum
<1>6. Holders(n) = a[n] + w[n] + (IF boot = n THEN 1 ELSE 0)
                   + (IF n \in Devices THEN 1 ELSE 0)
  BY <1>2, <1>3 DEF Holders
<1>7. Refs(Kernel) = R
  BY DEF Refs, RefOf, Kernel
<1> HIDE DEF a, w, R
<1> QED
  BY <1>2, <1>4, <1>5, <1>6, <1>7 DEF a

(* A call that runs into inode_check's limit did so from a state near it.  *)
LEMMA StoppedNear ==
    ASSUME NEW t, Settled(Kernel), Calm(t, Refs(Kernel), Slack), t.full
    PROVE  NearLimit
<1>1. lost \in Demand
  BY DEF Settled, Good, Kernel
<1>2. PICK n \in Nodes : Refs(Kernel)[n] + Slack >= MAX_INODE_COUNT
  BY DEF Calm
<1>3. Holders(n) + lost[n] + Slack >= MAX_INODE_COUNT
  BY <1>1, <1>2, RefsHolders
<1> QED
  BY <1>3 DEF NearLimit

LEMMA Committed ==
    ASSUME NEW t, NEW d \in [Procs -> Pcs], IInv, panic = None, Commit(t, d),
           Stuck(t) \/ Sound(t, d), Calm(t, Refs(Kernel), Slack)
    PROVE  IInv'
<1>1. CASE t.full
  <2>1. Settled(Kernel)
    BY DEF IInv, Sound
  <2>2. NearLimit
    BY <1>1, <2>1, StoppedNear
  <2>3. panic' = "inode_check" /\ "inode_check" # None
    BY <1>1 DEF Commit, Stopped, None
  <2>4. UNCHANGED <<node, stale, lost, files, boot, vdev, pc>>
    BY <1>1 DEF Commit, Stopped, None
  <2>5. NearLimit'
    BY <2>2, <2>4 DEF NearLimit, Holders, OpenIn
  <2> QED
    BY <2>3, <2>4, <2>5 DEF IInv
<1>2. ASSUME ~t.full PROVE Stopped(t) = t.panic /\ t.full = FALSE
  BY <1>2 DEF Stopped, Calm
<1>3. CASE ~t.full /\ Stuck(t)
  <2>1. panic' = "no_operation" /\ "no_operation" # None /\ pc' = pc
    BY <1>3, <1>2 DEF Commit, Stuck, None
  <2> QED
    BY <2>1 DEF IInv, None
<1>4. CASE ~t.full /\ Sound(t, d)
  <2>1. Settled(t) /\ IsKernel(t) /\ t.panic = None
    BY <1>4, SettledFacts DEF Sound
  <2> DEFINE u == Store(t, None)
             W == Dirs(t.files)
             R == RefOf(t.files, W, t.boot, t.lost)
             O == OpenOf(t.files)
  <2>2. Held(t, R, O) /\ Good(t, W)
    BY <2>1, SettledFacts DEF Good
  <2>3. Held(u, R, O) /\ SameRest(t, u)
    BY <2>2, StoreHeld
  <2>4. u = [node |-> t.node, stale |-> t.stale, lost |-> t.lost, files |-> t.files,
             boot |-> t.boot, vdev |-> t.vdev, panic |-> t.panic, full |-> FALSE,
             ret |-> "0", out |-> None]
    <3>1. u = [t EXCEPT !.ret = "0", !.out = None]
      BY DEF Store
    <3>2. /\ IsKernel(u) /\ u.node = t.node /\ u.stale = t.stale /\ u.lost = t.lost
          /\ u.files = t.files /\ u.boot = t.boot /\ u.vdev = t.vdev
          /\ u.panic = t.panic /\ u.full = t.full /\ u.ret = "0" /\ u.out = None
      BY <2>1, <3>1 DEF IsKernel
    <3> HIDE DEF u
    <3>3. u.full = FALSE
      BY <1>4, <1>2, <3>2
    <3> QED
      BY <3>2, <3>3 DEF IsKernel
  <2>5. Stopped(t) = None
    BY <1>4, <1>2, <2>1
  <2>6. Kernel' = u
    <3> HIDE DEF u
    <3> QED
      BY <2>1, <2>4, <2>5 DEF Commit, Kernel
  <2>7. u.files = t.files /\ u.stale = t.stale /\ u.boot = t.boot
    BY <2>4
  <2> HIDE DEF u
  <2>8. Good(u, W)
    BY <2>2, <2>3, GoodSame DEF SameRest, SameBut
  <2>9. Sound(u, d)
    <3>1. Settled(u)
      BY <2>7, <2>8 DEF Settled
    <3> QED
      BY <1>4, <2>7, <3>1 DEF Sound, Spare, StdinAt
  <2>10. panic' = None /\ pc' = d
    BY <2>5 DEF Commit
  <2>11. Sound(Kernel', pc')
    BY <2>6, <2>9, <2>10
  <2> QED
    BY <2>10, <2>11 DEF IInv, None
<1> QED
  BY <1>3, <1>4, <1>1

(* An entry of the device list, and what vfs_do_add adds.                  *)
DeviceOf(d, f, m) == [devnode |-> d, fs |-> f, mountable |-> m]

WithDevice(V, dev, m) ==
    [d \in DOMAIN V \cup {dev} |-> IF d # dev THEN V[d] ELSE DeviceOf(dev, FALSE, m)]

WithNode(N, dev) == [n \in DOMAIN N \cup {dev} |-> IF n = dev THEN inode_init ELSE N[n]]

LEMMA Added ==
    ASSUME NEW s, NEW dev, NEW m, IsKernel(s)
    PROVE  LET t == vfs_do_add(s, dev, m)
           IN  /\ IsKernel(t) /\ t.lost = s.lost /\ t.files = s.files
               /\ t.vdev = WithDevice(s.vdev, dev, m) /\ t.node = WithNode(s.node, dev)
<1> DEFINE V == WithDevice(s.vdev, dev, m)
           N == WithNode(s.node, dev)
           t == vfs_do_add(s, dev, m)
<1>1. t = [s EXCEPT !.vdev = V, !.node = N]
  BY DEF vfs_do_add, IsKernel, WithDevice, WithNode, DeviceOf
<1> HIDE DEF V, N, t
<1>2. IsKernel(t) /\ t.lost = s.lost /\ t.files = s.files /\ t.vdev = V /\ t.node = N
  BY <1>1 DEF IsKernel
<1> QED
  BY <1>2 DEF V, N, t

(* The three devices, and the file system on one of them.                  *)
LEMMA FsInit ==
    /\ fs_init.node = [n \in Devices |-> inode_init]
    /\ fs_init.lost = [n \in Nodes |-> 0]
    /\ fs_init.files = [p \in Procs |-> files_create]
    /\ fs_init.vdev = DeviceList
<1> DEFINE s == [node |-> Empty, stale |-> {}, lost |-> [n \in Nodes |-> 0],
                 files |-> [p \in Procs |-> files_create],
                 boot |-> None, vdev |-> Empty, panic |-> None, full |-> FALSE,
                 ret |-> "0", out |-> None]
           no == FALSE
           yes == TRUE
           a == vfs_do_add(s, "stdin", no)
           b == vfs_do_add(a, "stdout", no)
           c == vfs_do_add(b, "disk0", yes)
           t == vfs_mount(c, "disk0")
<1>1. fs_init = t
  BY DEF fs_init
<1> HIDE DEF no, yes
<1>2. /\ IsKernel(s) /\ DOMAIN s.node = {} /\ DOMAIN s.vdev = {}
      /\ s.lost = [n \in Nodes |-> 0] /\ s.files = [p \in Procs |-> files_create]
  BY DEF IsKernel, Empty
<1> HIDE DEF s
<1>3. /\ IsKernel(a) /\ a.lost = s.lost /\ a.files = s.files
      /\ a.vdev = WithDevice(s.vdev, "stdin", no) /\ a.node = WithNode(s.node, "stdin")
  BY <1>2, Added
<1> HIDE DEF a
<1>4. /\ IsKernel(b) /\ b.lost = a.lost /\ b.files = a.files
      /\ b.vdev = WithDevice(a.vdev, "stdout", no) /\ b.node = WithNode(a.node, "stdout")
  BY <1>3, Added
<1> HIDE DEF b
<1>5. /\ IsKernel(c) /\ c.lost = b.lost /\ c.files = b.files
      /\ c.vdev = WithDevice(b.vdev, "disk0", yes) /\ c.node = WithNode(b.node, "disk0")
  BY <1>4, Added
<1> HIDE DEF c
<1>6. /\ DOMAIN c.vdev = Devices
      /\ c.vdev["stdin"] = DeviceOf("stdin", FALSE, no)
      /\ c.vdev["stdout"] = DeviceOf("stdout", FALSE, no)
      /\ c.vdev["disk0"] = DeviceOf("disk0", FALSE, yes)
  BY <1>2, <1>3, <1>4, <1>5 DEF Devices, WithDevice
<1>7. c.node = [n \in Devices |-> inode_init]
  <2>1. DOMAIN c.node = Devices
    BY <1>2, <1>3, <1>4, <1>5 DEF Devices, WithNode
  <2>2. \A n \in Devices : c.node[n] = inode_init
    BY <1>2, <1>3, <1>4, <1>5 DEF Devices, WithNode
  <2>3. c.node = [n \in DOMAIN c.node |-> c.node[n]]
    BY <1>5 DEF WithNode
  <2> QED
    BY <2>1, <2>2, <2>3
<1>8. c.vdev = [d \in DOMAIN c.vdev |-> c.vdev[d]]
  BY <1>5 DEF WithDevice
<1> DEFINE V == [c.vdev EXCEPT !["disk0"].fs = yes]
<1>9. t = Ret([c EXCEPT !.vdev["disk0"].fs = TRUE], "0")
  BY <1>6 DEF vfs_mount, Devices, DeviceOf, yes
<1>10. t = [c EXCEPT !.vdev = V, !.ret = "0"]
  BY <1>5, <1>9 DEF Ret, IsKernel, yes
<1>11. V = DeviceList
  <2>1. V = [c.vdev EXCEPT !["disk0"] = [c.vdev["disk0"] EXCEPT !.fs = yes]]
    OBVIOUS
  <2>2. [c.vdev["disk0"] EXCEPT !.fs = yes] = DeviceOf("disk0", yes, yes)
    <3>1. [DeviceOf("disk0", no, yes) EXCEPT !.fs = yes] = DeviceOf("disk0", yes, yes)
      BY DEF DeviceOf
    <3>2. c.vdev["disk0"] = DeviceOf("disk0", no, yes)
      BY <1>6 DEF no
    <3> QED
      BY <3>1, <3>2
  <2>3. \A d \in Devices : V[d] = IF d = "disk0" THEN DeviceOf("disk0", yes, yes) ELSE c.vdev[d]
    BY <1>6, <1>8, <2>1, <2>2
  <2>4. DOMAIN V = Devices /\ V = [d \in DOMAIN V |-> V[d]]
    BY <1>6, <1>8
  <2> HIDE DEF V
  <2>5. ASSUME NEW d \in Devices PROVE V[d] = DeviceOf(d, d = "disk0", d = "disk0")
    <3>1. CASE d = "disk0"
      BY <2>3, <3>1 DEF yes
    <3>2. CASE d # "disk0"
      <4>1. c.vdev[d] = DeviceOf(d, FALSE, FALSE)
        BY <1>6, <3>2 DEF Devices, no
      <4> QED
        BY <2>3, <3>2, <4>1
    <3> QED
      BY <3>1, <3>2
  <2> QED
    BY <2>4, <2>5 DEF DeviceList, DeviceOf
<1> HIDE DEF V, t
<1>12. t.vdev = V /\ t.node = c.node /\ t.lost = c.lost /\ t.files = c.files
  BY <1>5, <1>10 DEF IsKernel
<1> QED
  BY <1>1, <1>2, <1>3, <1>4, <1>5, <1>7, <1>11, <1>12

(* A kernel where nothing is open.                                         *)
LEMMA FreshSettled ==
    ASSUME NEW s, IsKernel(s), s.node = [n \in Devices |-> inode_init], s.stale = {},
           s.lost = [n \in Nodes |-> 0], s.files = [p \in Procs |-> files_create],
           s.boot = None, s.vdev = DeviceList, s.panic = None
    PROVE  Settled(s)
<1> DEFINE F == s.files
           W == Dirs(F)
           a == OpenOf(F)
           w == PwdOf(W)
           R == RefSum(a, w, s.boot, s.lost)
<1>1. \A p \in Procs : F[p] = files_create
  OBVIOUS
<1>2. files_create \in [pwd : {None, Root}, fd : [Fds -> Fd]]
  BY FreeFdType DEF files_create
<1>3. files_create.pwd = None /\ \A i \in Fds : files_create.fd[i] = FreeFd
  BY DEF files_create
<1>4. Clean(F)
  BY <1>1, <1>2, <1>3 DEF Clean, Tables
<1> HIDE DEF F
<1>5. W \in Pwds /\ \A p \in Procs : W[p] = None
  BY <1>1, <1>3 DEF Dirs, Pwds
<1>6. a \in Demand /\ \A n \in Nodes : a[n] = 0
  <2>1. \A n \in Nodes : OpenSet(F, n) = {}
    BY <1>1, <1>3, FreeFdType DEF OpenSet
  <2>2. \A n \in Nodes : a[n] = 0
    BY <2>1, FS_EmptySet DEF OpenOf
  <2> QED
    BY <2>2, OpenOfType, NodesApart
<1>7. w \in Demand /\ \A n \in Nodes : w[n] = 0
  <2>1. \A n \in Nodes : {p \in Procs : W[p] = n} = {}
    BY <1>5, NodesApart
  <2>2. \A n \in Nodes : w[n] = 0
    BY <2>1, FS_EmptySet DEF PwdOf
  <2> QED
    BY <2>2, PwdOfType, NodesApart
<1>8. s.lost \in Demand /\ \A n \in Nodes : s.lost[n] = 0
  BY DEF Demand
<1> HIDE DEF a, w, W
<1>9. R \in Demand /\ \A n \in Nodes : R[n] = IF n \in Devices THEN 1 ELSE 0
  <2>1. \A n \in Nodes : s.boot # n
    BY NodesApart
  <2> QED
    BY <1>6, <1>7, <1>8, <2>1 DEF RefSum, Demand
<1> HIDE DEF R
<1>10. /\ inode_init \in NodeT /\ inode_init.ref = 1 /\ inode_init.open = 0
       /\ inode_init.reclaim = 1
  BY DEF inode_init, NodeT
<1>11. Held(s, R, a)
  <2>1. Devices \subseteq Nodes
    BY NodesApart
  <2>2. DOMAIN s.node = Devices /\ \A n \in Devices : s.node[n] = inode_init
    OBVIOUS
  <2>3. s.node \in [DOMAIN s.node -> NodeT]
    BY <1>10
  <2>4. {n \in Nodes : R[n] > 0} = Devices
    BY <1>9, <2>1
  <2> QED
    BY <1>6, <1>9, <1>10, <2>1, <2>2, <2>3, <2>4 DEF Held
<1> QED
  BY <1>4, <1>5, <1>8, <1>11 DEF Settled, Good, RefOf, R, a, w, W, F

LEMMA InitIInv ==
    ASSUME Init
    PROVE  IInv
<1>1. /\ IsKernel(Kernel) /\ Kernel.node = node /\ Kernel.stale = stale /\ Kernel.lost = lost
      /\ Kernel.files = files /\ Kernel.boot = boot /\ Kernel.vdev = vdev
      /\ Kernel.panic = panic
  BY DEF Kernel, IsKernel
<1>2. Settled(Kernel)
  BY <1>1, FsInit, FreshSettled DEF Init
<1>3. pc = [p \in Procs |-> IF p = InitProc THEN "boot" ELSE None]
  BY DEF Init
<1>4. \A p \in Procs : files[p] = files_create
  BY FsInit DEF Init
<1>5. pc \in [Procs -> Pcs] /\ \A p \in Procs : pc[p] = IF p = InitProc THEN "boot" ELSE None
  BY <1>3 DEF Pcs
<1>6. files_create.pwd = None /\ boot = None /\ panic = None
  BY DEF files_create, Init
<1>7. Sound(Kernel, pc)
  BY <1>1, <1>2, <1>4, <1>5, <1>6 DEF Sound, None
<1> QED
  BY <1>5, <1>6, <1>7 DEF IInv, None

-----------------------------------------------------------------------------
(* Every step keeps the invariant.                                         *)

LEMMA KernelFacts ==
    ASSUME IInv, panic = None
    PROVE  /\ Sound(Kernel, pc) /\ Settled(Kernel) /\ pc \in [Procs -> Pcs]
           /\ Kernel.files = files /\ Kernel.boot = boot /\ Kernel.node = node
           /\ Kernel.stale = stale /\ Kernel.full = FALSE
           /\ Calm(Kernel, Refs(Kernel), 0)
<1>1. /\ Kernel.files = files /\ Kernel.boot = boot /\ Kernel.node = node
      /\ Kernel.stale = stale /\ Kernel.full = FALSE
  BY DEF Kernel
<1>2. Sound(Kernel, pc) /\ Settled(Kernel) /\ pc \in [Procs -> Pcs]
  BY DEF IInv, Sound
<1> QED
  BY <1>1, <1>2, CalmSettled

(* The running process r makes a call that sends p to x.                   *)
LEMMA CallKept ==
    ASSUME NEW r \in Procs, NEW p \in Procs, NEW t, NEW x \in Pcs, IInv, panic = None,
           pc[r] \notin {None, "done"}, x \notin {"boot", "done"},
           Commit(t, [pc EXCEPT ![p] = x]), Calm(t, Refs(Kernel), Slack),
           \/ Stuck(t)
           \/ /\ Settled(t) /\ (t.boot = Kernel.boot \/ p = InitProc)
              /\ \A q \in Procs : q # p => t.files[q] = Kernel.files[q]
              /\ x = None => t.files[p] = files_create
              /\ x \in {"umain0", "umain1"} => Spare(t, p)
              /\ x = "umain1" => StdinAt(t, p)
    PROVE  IInv'
<1>1. Sound(Kernel, pc) /\ pc \in [Procs -> Pcs]
  BY KernelFacts
<1>2. \A q \in Procs : pc[q] # "done"
  BY <1>1, NobodyDone
<1> DEFINE d == At(pc, p, x)
<1>3. d \in [Procs -> Pcs] /\ Commit(t, d)
  BY <1>1 DEF At
<1>4. Stuck(t) \/ Sound(t, d)
  <2>1. CASE Stuck(t)
    BY <2>1
  <2>2. CASE ~Stuck(t)
    BY <1>1, <1>2, <2>2, SoundStep
  <2> QED
    BY <2>1, <2>2
<1> HIDE DEF d
<1>5. PICK e \in [Procs -> Pcs] : e = d
  BY <1>3
<1>6. Stuck(t) \/ Sound(t, e)
  BY <1>4, <1>5
<1>7. Commit(t, e)
  BY <1>3, <1>5
<1> QED
  BY <1>6, <1>7, Committed

(* Such a call of p itself, where p goes on.                               *)
LEMMA TameKept ==
    ASSUME NEW p \in Procs, NEW t, NEW x \in Pcs, IInv, panic = None,
           pc[p] \notin {None, "done"}, x \notin {None, "boot", "done"},
           Commit(t, [pc EXCEPT ![p] = x]), Calm(t, Refs(Kernel), Slack),
           \/ Stuck(t)
           \/ /\ Tame(Kernel, t, p)
              /\ x \in {"umain0", "umain1"} => Spare(t, p)
              /\ x = "umain1" => StdinAt(t, p)
    PROVE  IInv'
<1>1. \/ Stuck(t)
      \/ /\ Settled(t) /\ (t.boot = Kernel.boot \/ p = InitProc)
         /\ \A q \in Procs : q # p => t.files[q] = Kernel.files[q]
         /\ x = None => t.files[p] = files_create
         /\ x \in {"umain0", "umain1"} => Spare(t, p)
         /\ x = "umain1" => StdinAt(t, p)
  BY DEF Tame, Alone
<1> QED
  BY <1>1, CallKept

(* p quits.                                                                *)
LEMMA ExitKept ==
    ASSUME NEW p \in Procs, NEW s, IInv, panic = None, pc[p] \notin {None, "done"},
           Tame(Kernel, s, p), Calm(s, Refs(Kernel), Slack),
           Commit(Exit(s, p), [pc EXCEPT ![p] = None])
    PROVE  IInv'
<1> DEFINE t == files_destroy(s, p)
<1>1. Settled(s)
  BY DEF Tame
<1>2. Settled(t) /\ Alone(s, t, p) /\ t.files[p] = files_create
  BY <1>1, ExitSettled
<1>3. Commit(t, [pc EXCEPT ![p] = None]) /\ Calm(t, Refs(Kernel), Slack)
  BY CalmDestroy DEF Exit
<1> HIDE DEF t
<1>4. /\ Settled(t) /\ t.boot = Kernel.boot
      /\ \A q \in Procs : q # p => t.files[q] = Kernel.files[q]
      /\ t.files[p] = files_create
  BY <1>2 DEF Tame, Alone
<1>5. None \in Pcs /\ None \notin {"boot", "done", "umain0", "umain1"}
  BY DEF Pcs, None
<1> QED
  BY <1>3, <1>4, <1>5, CallKept

LEMMA SelfTame ==
    ASSUME NEW s, NEW p \in Procs, Settled(s)
    PROVE  Tame(s, s, p)
  BY DEF Tame, Alone

(* A fork takes NENTRY references and one for the working directory.       *)
LEMMA ForkCalm ==
    ASSUME NEW c, NEW p, Calm(Kernel, Refs(Kernel), 0)
    PROVE  Calm(dup_files(Kernel, c, p), Refs(Kernel), Slack)
<1> DEFINE t == dup_files(Kernel, c, p)
           k == NENTRY + 1
<1>1. Calm(t, Refs(Kernel), 0 + NENTRY + 1)
  BY CalmDupFiles
<1> HIDE DEF t
<1>2. 0 + NENTRY + 1 = 0 + k
  BY FilesAssumption
<1>3. Calm(t, Refs(Kernel), 0 + k) /\ k \in {0, 1, 3, 4, 5, NENTRY + 1}
  BY <1>1, <1>2
<1> QED
  BY <1>3, CalmEnough DEF t

LEMMA BootStep ==
    ASSUME IInv, NEW p \in Procs, init_main(p)
    PROVE  IInv'
<1> DEFINE t == vfs_set_bootfs(Kernel, p, "disk0")
<1>1. /\ panic = None /\ pc[p] = "boot"
      /\ Commit(IF Failed(t) THEN Panic(t, "assert") ELSE t, [pc EXCEPT ![p] = "thread"])
  BY DEF init_main
<1>2. Settled(Kernel) /\ p = InitProc /\ Kernel.boot = None /\ Kernel.files[p].pwd = None
  BY <1>1, KernelFacts DEF Sound
<1>3. /\ Settled(t) /\ t.ret = "0"
      /\ \A q \in Procs : q # p => t.files[q] = Kernel.files[q]
  BY <1>2, BootSettled
<1>4. Calm(t, Refs(Kernel), Slack)
  BY <1>1, KernelFacts, CalmSetBootfs, CalmEnough
<1> HIDE DEF t
<1>5. Commit(t, [pc EXCEPT ![p] = "thread"])
  BY <1>1, <1>3 DEF Failed
<1>6. "thread" \in Pcs /\ "thread" \notin {None, "boot", "done", "umain0", "umain1"}
      /\ "boot" \notin {None, "done"}
  BY DEF Pcs, None
<1> QED
  BY <1>1, <1>2, <1>3, <1>5, <1>6, <1>4, CallKept

LEMMA UserMainStep ==
    ASSUME IInv, NEW p \in Procs, user_main(p)
    PROVE  IInv'
<1>1. PICK c \in Procs : /\ panic = None /\ pc[p] = "thread" /\ pc[c] = None
                         /\ Commit(dup_files(Kernel, c, p),
                                   [pc EXCEPT ![p] = "waiting", ![c] = "exec"])
  BY DEF user_main
<1> DEFINE t == dup_files(Kernel, c, p)
           d == At(pc, p, "waiting")
           e == At(d, c, "exec")
<1>2. Sound(Kernel, pc) /\ Settled(Kernel) /\ pc \in [Procs -> Pcs]
  BY <1>1, KernelFacts
<1>3. Kernel.files[c] = files_create /\ c # p
  BY <1>1, <1>2 DEF Sound, None
<1>4. Settled(t) /\ Alone(Kernel, t, c)
  BY <1>2, <1>3, ForkSettled
<1>5. Calm(t, Refs(Kernel), Slack)
  BY <1>1, KernelFacts, ForkCalm
<1>6. Commit(t, [pc EXCEPT ![p] = "waiting", ![c] = "exec"])
  BY <1>1
<1> HIDE DEF t
<1>7. \A q \in Procs : pc[q] # "done"
  BY <1>1, <1>2, NobodyDone DEF None
<1>8. /\ "waiting" \in Pcs /\ "waiting" \notin {None, "boot", "done", "umain0", "umain1"}
      /\ "exec" \in Pcs /\ "exec" \notin {None, "boot", "done", "umain0", "umain1"}
  BY DEF Pcs, None
<1>9. Sound(Kernel, d) /\ d \in [Procs -> Pcs] /\ \A q \in Procs : d[q] # "done"
  BY <1>2, <1>7, <1>8, SoundStep
<1>10. Commit(t, e)
  BY <1>6 DEF At
<1> HIDE DEF d
<1>11. Sound(t, e) /\ e \in [Procs -> Pcs]
  BY <1>4, <1>8, <1>9, SoundStep DEF Alone
<1> HIDE DEF e
<1>12. PICK f \in [Procs -> Pcs] : f = e
  BY <1>11
<1>13. Sound(t, f) /\ Commit(t, f)
  BY <1>10, <1>11, <1>12
<1> QED
  BY <1>1, <1>13, <1>5, Committed

LEMMA CleanupStep ==
    ASSUME IInv, NEW p \in Procs, fs_cleanup(p)
    PROVE  IInv'
<1> DEFINE D == {n \in DOMAIN node \cap Inodes : node[n].dirty}
           f == \E n \in DOMAIN node \cap Inodes : inode_check(Kernel, n).full
           t == Cleaned(Kernel, D, f)
           d == [pc EXCEPT ![p] = "done"]
<1>1. /\ panic = None /\ pc[p] = "waiting" /\ \A q \in Procs \ {p} : pc[q] = None
      /\ Commit(t, d)
  BY DEF fs_cleanup, Cleaned
<1>2. Sound(Kernel, pc) /\ Settled(Kernel) /\ pc \in [Procs -> Pcs] /\ Kernel.node = node
  BY <1>1, KernelFacts
<1>3. D = {n \in DOMAIN Kernel.node \cap Inodes : Kernel.node[n].dirty}
  BY <1>2
<1>4. /\ f \in BOOLEAN /\ Kernel.full = FALSE
      /\ f => \E n \in DOMAIN Kernel.node : inode_check(Kernel, n).full
  BY <1>1, <1>2, KernelFacts
<1> HIDE DEF D, f
<1>5. /\ Settled(t) /\ t.stale = {} /\ t.files = Kernel.files /\ t.boot = Kernel.boot
      /\ Calm(t, Refs(Kernel), 0)
  BY <1>2, <1>3, <1>4, CleanupSettled
<1> HIDE DEF t
<1>6. Calm(t, Refs(Kernel), Slack)
  BY <1>5, CalmEnough
<1>7. d \in [Procs -> Pcs] /\ \A q \in Procs : d[q] = IF q = p THEN "done" ELSE None
  BY <1>1, <1>2 DEF Pcs
<1> HIDE DEF d
<1>8. Sound(t, d)
  BY <1>1, <1>2, <1>5, <1>7 DEF Sound, None
<1>9. PICK e \in [Procs -> Pcs] : e = d
  BY <1>7
<1> QED
  BY <1>1, <1>8, <1>9, <1>6, Committed

LEMMA ForkStep ==
    ASSUME IInv, NEW p \in Procs, sys_fork(p)
    PROVE  IInv'
<1>1. PICK c \in Procs : panic = None /\ pc[p] = "main" /\ (do_fork(p, c) \/ fork_undo(p, c))
  BY DEF sys_fork, Running
<1>2. pc[c] = None
  BY <1>1 DEF do_fork, fork_undo
<1>3. Sound(Kernel, pc) /\ Settled(Kernel) /\ pc \in [Procs -> Pcs]
  BY <1>1, KernelFacts
<1>4. Kernel.files[c] = files_create /\ c # p
  BY <1>1, <1>2, <1>3 DEF Sound, None
<1> DEFINE t == dup_files(Kernel, c, p)
           u == files_destroy(t, c)
<1>5. Settled(t) /\ Alone(Kernel, t, c)
  BY <1>3, <1>4, ForkSettled
<1>6. /\ "main" \in Pcs /\ "main" \notin {None, "boot", "done", "umain0", "umain1"}
      /\ None \in Pcs /\ None \notin {"boot", "done", "umain0", "umain1"}
  BY DEF Pcs, None
<1>7. Calm(t, Refs(Kernel), Slack)
  BY <1>1, KernelFacts, ForkCalm
<1>8. CASE do_fork(p, c)
  <2>1. Commit(t, [pc EXCEPT ![c] = "main"])
    BY <1>1, <1>8 DEF do_fork
  <2> HIDE DEF t
  <2>2. \A q \in Procs : q # c => t.files[q] = Kernel.files[q]
    BY <1>5 DEF Alone
  <2>3. t.boot = Kernel.boot
    BY <1>5 DEF Alone
  <2> QED
    BY <1>1, <1>5, <1>6, <1>7, <2>1, <2>2, <2>3, CallKept
<1>9. CASE fork_undo(p, c)
  <2>1. Commit(u, pc)
    BY <1>9 DEF fork_undo
  <2> HIDE DEF t
  <2>2. Calm(u, Refs(Kernel), Slack)
    BY <1>7, CalmDestroy
  <2>3. Settled(u) /\ Alone(t, u, c) /\ u.files[c] = files_create
    BY <1>5, ExitSettled
  <2> HIDE DEF u
  <2>4. pc = [pc EXCEPT ![c] = None]
    BY <1>2, <1>3
  <2>5. Commit(u, [pc EXCEPT ![c] = None])
    BY <2>1, <2>4
  <2>6. \A q \in Procs : q # c => u.files[q] = Kernel.files[q]
    BY <1>5, <2>3 DEF Alone
  <2>7. u.boot = Kernel.boot
    BY <1>5, <2>3 DEF Alone
  <2> QED
    BY <1>1, <1>6, <2>3, <2>5, <2>6, <2>7, <2>2, CallKept
<1> QED
  BY <1>1, <1>8, <1>9

LEMMA ExitStep ==
    ASSUME IInv, NEW p \in Procs, do_exit(p)
    PROVE  IInv'
<1>1. /\ panic = None /\ pc[p] \notin {None, "done"}
      /\ Commit(Exit(Kernel, p), [pc EXCEPT ![p] = None])
  BY DEF do_exit, None
<1>2. Tame(Kernel, Kernel, p)
  BY <1>1, KernelFacts, SelfTame
<1>3. Calm(Kernel, Refs(Kernel), Slack)
  BY <1>1, KernelFacts, CalmEnough
<1> QED
  BY <1>1, <1>2, <1>3, ExitKept

LEMMA ExecStep ==
    ASSUME IInv, NEW p \in Procs, NEW path, do_execve(p, path)
    PROVE  IInv'
<1> DEFINE o == file_open(files_closeall(Kernel, p), p, path, Access("r"))
           r == file_op(file_op(o, p, o.out, "tryseek", FALSE), p, o.out, "read", FALSE)
           u == file_close(r, p, o.out)
<1>1. /\ panic = None /\ pc[p] \notin {None, "done"}
      /\ IF Failed(o) THEN Commit(Exit(o, p), [pc EXCEPT ![p] = None])
         ELSE \/ Commit(u, [pc EXCEPT ![p] = "umain0"])
              \/ r.panic = None /\ Commit(Exit(r, p), [pc EXCEPT ![p] = None])
  BY DEF do_execve, None
<1>2. Settled(Kernel)
  BY <1>1, KernelFacts
<1>3. /\ Tame(Kernel, o, p)
      /\ o.ret = "0" =>
            \/ Stuck(r) /\ Stuck(u)
            \/ Tame(Kernel, r, p) /\ Tame(Kernel, u, p) /\ Spare(u, p)
  BY <1>2, ExecTame
<1>4. Calm(o, Refs(Kernel), 0 + 4) /\ Calm(r, Refs(Kernel), 0 + 4) /\ Calm(u, Refs(Kernel), 0 + 4)
  BY <1>1, KernelFacts, CalmExec
<1> HIDE DEF o, r, u
<1>5. Calm(o, Refs(Kernel), Slack) /\ Calm(r, Refs(Kernel), Slack) /\ Calm(u, Refs(Kernel), Slack)
  BY <1>4, CalmEnough
<1>6. "umain0" \in Pcs /\ "umain0" \notin {None, "boot", "done", "umain1"}
  BY DEF Pcs, None
<1>7. CASE o.ret # "0"
  BY <1>1, <1>3, <1>7, <1>5, ExitKept DEF Failed
<1>8. CASE o.ret = "0" /\ Stuck(r) /\ Stuck(u)
  <2>1. r.panic # None
    BY <1>8 DEF Stuck, None
  <2>2. Commit(u, [pc EXCEPT ![p] = "umain0"])
    BY <1>1, <1>8, <2>1 DEF Failed
  <2> QED
    BY <1>1, <1>8, <1>5, <1>6, <2>2, CallKept
<1>9. CASE o.ret = "0" /\ Tame(Kernel, r, p) /\ Tame(Kernel, u, p) /\ Spare(u, p)
  <2>1. r.panic = None
    BY <1>9, SettledFacts DEF Tame
  <2>2. CASE Commit(Exit(r, p), [pc EXCEPT ![p] = None])
    BY <1>1, <1>9, <1>5, <2>2, ExitKept
  <2>3. CASE Commit(u, [pc EXCEPT ![p] = "umain0"])
    BY <1>1, <1>9, <1>5, <1>6, <2>3, TameKept
  <2> QED
    BY <1>1, <1>9, <2>1, <2>2, <2>3 DEF Failed
<1> QED
  BY <1>3, <1>7, <1>8, <1>9

(* The second call of initfd: descriptor 0 stays.                          *)
LEMMA StdoutTame ==
    ASSUME NEW s, NEW p \in Procs, Settled(s), Spare(s, p), StdinAt(s, p)
    PROVE  LET t == initfd(s, p, 1, [at |-> "stdout", name |-> None], "w")
           IN  /\ Tame(s, t, p) /\ StdinAt(t, p)
               /\ OpenFd(t.files[p].fd[1]) /\ t.files[p].fd[1].node = "stdout"
               /\ t.files[p].fd[1].writable
<1> DEFINE path == [at |-> "stdout", name |-> None]
           k == 1
           t == initfd(s, p, k, path, "w")
<1>1. path.name = None /\ path.at = "stdout"
  OBVIOUS
<1>2. s.files[p].fd[0] # FreeFd
  BY FreeFdType DEF StdinAt, OpenFd
<1>3. k \in Fds /\ k \in {0, 1} /\ k = 1
  BY FilesAssumption DEF Fds
<1> HIDE DEF path, k
<1>4. /\ Tame(s, t, p)
      /\ OpenFd(t.files[p].fd[k])
      /\ t.files[p].fd[k].node = path.at
      /\ t.files[p].fd[k].writable = ("w" \in {"w", "rw"})
      /\ k = 1 => t.files[p].fd[0] = s.files[p].fd[0]
  BY <1>1, <1>2, <1>3, InitfdTame
<1> HIDE DEF t
<1>5. t.files[p].fd[1].writable
  BY <1>3, <1>4
<1>6. StdinAt(t, p)
  BY <1>3, <1>4 DEF StdinAt
<1> QED
  BY <1>1, <1>3, <1>4, <1>5, <1>6 DEF t, path, k

LEMMA StdinTame ==
    ASSUME NEW s, NEW p \in Procs, Settled(s), Spare(s, p)
    PROVE  LET t == initfd(s, p, 0, [at |-> "stdin", name |-> None], "r")
           IN  Tame(s, t, p) /\ Spare(t, p) /\ StdinAt(t, p)
<1> DEFINE path == [at |-> "stdin", name |-> None]
           k == 0
           t == initfd(s, p, k, path, "r")
<1>1. path.name = None /\ path.at = "stdin"
  OBVIOUS
<1>2. k \in Fds /\ k \in {0, 1} /\ k = 0 /\ k # 1
  BY FilesAssumption DEF Fds
<1> HIDE DEF path, k
<1>3. /\ Tame(s, t, p) /\ Spare(t, p)
      /\ OpenFd(t.files[p].fd[k])
      /\ t.files[p].fd[k].node = path.at
      /\ t.files[p].fd[k].readable = ("r" \in {"r", "rw"})
  BY <1>1, <1>2, InitfdTame
<1> HIDE DEF t
<1>4. StdinAt(t, p)
  BY <1>1, <1>2, <1>3 DEF StdinAt
<1> QED
  BY <1>3, <1>4 DEF t, path, k

LEMMA UmainStep ==
    ASSUME IInv, NEW p \in Procs, umain(p)
    PROVE  IInv'
<1>1. panic = None
  BY DEF umain
<1>2. Sound(Kernel, pc) /\ Settled(Kernel)
  BY <1>1, KernelFacts
<1>3. /\ {"umain1", "main"} \subseteq Pcs /\ {"umain0", "umain1", "main"} \cap {None, "boot", "done"} = {}
  BY DEF Pcs, None
<1> DEFINE t == initfd(Kernel, p, 0, [at |-> "stdin", name |-> None], "r")
           u == initfd(Kernel, p, 1, [at |-> "stdout", name |-> None], "w")
<1>4. Calm(t, Refs(Kernel), Slack) /\ Calm(u, Refs(Kernel), Slack)
  <2>1. Calm(t, Refs(Kernel), 0 + 5) /\ Calm(u, Refs(Kernel), 0 + 5)
    BY <1>1, KernelFacts, CalmInitfd
  <2> HIDE DEF t, u
  <2> QED
    BY <2>1, CalmEnough
<1>5. CASE pc[p] = "umain0" /\ Commit(t, [pc EXCEPT ![p] = "umain1"])
  <2>1. Spare(Kernel, p)
    BY <1>2, <1>5 DEF Sound
  <2>2. Tame(Kernel, t, p) /\ Spare(t, p) /\ StdinAt(t, p)
    BY <1>2, <2>1, StdinTame
  <2> HIDE DEF t
  <2> QED
    BY <1>1, <1>3, <1>5, <1>4, <2>2, TameKept
<1>6. CASE pc[p] = "umain1" /\ Commit(u, [pc EXCEPT ![p] = "main"])
  <2>1. Spare(Kernel, p) /\ StdinAt(Kernel, p)
    BY <1>2, <1>6 DEF Sound
  <2>2. Tame(Kernel, u, p)
    BY <1>2, <2>1, StdoutTame
  <2> HIDE DEF u
  <2> QED
    BY <1>1, <1>3, <1>6, <1>4, <2>2, TameKept
<1> QED
  BY <1>5, <1>6 DEF umain

LEMMA SysfileStep ==
    ASSUME IInv, NEW p \in Procs, sysfile(p)
    PROVE  IInv'
<1>1. panic = None /\ pc[p] = "main"
  BY DEF sysfile, Running
<1>2. Settled(Kernel) /\ pc \in [Procs -> Pcs] /\ Calm(Kernel, Refs(Kernel), 0)
  BY <1>1, KernelFacts
<1>3. pc = [pc EXCEPT ![p] = "main"]
  BY <1>1, <1>2
<1>4. "main" \in Pcs /\ "main" \notin {None, "boot", "done", "umain0", "umain1"}
  BY DEF Pcs, None
<1>5. ASSUME NEW t, NEW k \in {0, 1, 3, 4}, Commit(t, pc), Calm(t, Refs(Kernel), 0 + k),
             Stuck(t) \/ Tame(Kernel, t, p)
      PROVE  IInv'
  <2>1. Calm(t, Refs(Kernel), Slack)
    BY <1>5, CalmEnough
  <2>2. Commit(t, [pc EXCEPT ![p] = "main"])
    BY <1>3, <1>5
  <2> QED
    BY <1>1, <1>4, <1>5, <2>1, <2>2, TameKept
<1>6. CASE sysfile_open(p)
  <2>1. PICK x \in Opens : Commit(file_open(Kernel, p, x.path, x.flags), pc)
    BY <1>6 DEF sysfile_open
  <2> DEFINE t == file_open(Kernel, p, x.path, x.flags)
  <2>2. Stuck(t) \/ Tame(Kernel, t, p)
    BY <1>2, OpenTame
  <2>3. Calm(t, Refs(Kernel), 0 + 4)
    BY <1>2, CalmFileOpen
  <2> QED
    BY <1>5, <2>1, <2>2, <2>3
<1>7. CASE sysfile_close(p)
  <2>1. PICK i \in Fds : Commit(file_close(Kernel, p, i), pc)
    BY <1>7 DEF sysfile_close
  <2> DEFINE t == file_close(Kernel, p, i)
  <2>2. Tame(Kernel, t, p)
    BY <1>2, CloseTame
  <2>3. Calm(t, Refs(Kernel), 0)
    BY <1>2, CalmFileClose
  <2>4. Calm(t, Refs(Kernel), 0 + 0)
    <3> HIDE DEF t
    <3> QED
      BY <2>3
  <2> QED
    BY <1>5, <2>1, <2>2, <2>4
<1>8. CASE sysfile_op(p)
  <2>1. PICK i, changes, op : Commit(file_op(Kernel, p, i, op, changes), pc)
    BY <1>8 DEF sysfile_op
  <2> DEFINE t == file_op(Kernel, p, i, op, changes)
  <2>2. Stuck(t) \/ Tame(Kernel, t, p)
    BY <1>2, OpTame
  <2>3. Calm(t, Refs(Kernel), 0)
    BY <1>2, CalmFileOp
  <2>4. Calm(t, Refs(Kernel), 0 + 0)
    <3> HIDE DEF t
    <3> QED
      BY <2>3
  <2> QED
    BY <1>5, <2>1, <2>2, <2>4
<1>9. CASE sysfile_getcwd(p)
  <2>1. PICK short : Commit(vfs_getcwd(Kernel, p, short), pc)
    BY <1>9 DEF sysfile_getcwd
  <2> DEFINE t == vfs_getcwd(Kernel, p, short)
  <2>2. Tame(Kernel, t, p)
    BY <1>2, GetcwdTame
  <2>3. Calm(t, Refs(Kernel), 0 + 3)
    BY <1>2, CalmGetcwd
  <2> QED
    BY <1>5, <2>1, <2>2, <2>3
<1>10. CASE sysfile_dup(p)
  <2>1. PICK i, j : Commit(file_dup(Kernel, p, i, j), pc)
    BY <1>10 DEF sysfile_dup
  <2> DEFINE t == file_dup(Kernel, p, i, j)
  <2>2. Tame(Kernel, t, p)
    BY <1>2, DupTame
  <2>3. Calm(t, Refs(Kernel), 0 + 1)
    BY <1>2, CalmFileDup
  <2> QED
    BY <1>5, <2>1, <2>2, <2>3
<1> QED
  BY <1>6, <1>7, <1>8, <1>9, <1>10 DEF sysfile

LEMMA NextIInv ==
    ASSUME IInv, [Next]_vars
    PROVE  IInv'
<1>1. CASE UNCHANGED vars
  <2>1. Kernel' = Kernel /\ pc' = pc /\ panic' = panic
    BY <1>1 DEF Kernel, vars
  <2>2. NearLimit' = NearLimit
    BY <1>1 DEF vars, NearLimit, Holders, OpenIn
  <2> QED
    BY <2>1, <2>2 DEF IInv
<1>2. ASSUME NEW p \in Procs,
             \/ init_main(p) \/ user_main(p) \/ fs_cleanup(p)
             \/ sys_fork(p) \/ do_exit(p) \/ umain(p) \/ sysfile(p)
             \/ \E path \in Execs : do_execve(p, path)
      PROVE  IInv'
  BY <1>2, BootStep, UserMainStep, CleanupStep, ForkStep, ExitStep, UmainStep, SysfileStep,
     ExecStep
<1> QED
  BY <1>1, <1>2 DEF Next

-----------------------------------------------------------------------------
(* What the invariant says.                                                *)

LEMMA CountsExact ==
    ASSUME IInv, panic = None
    PROVE  Counted
<1> DEFINE F == files
           W == Dirs(F)
           a == OpenOf(F)
           w == PwdOf(W)
           R == RefSum(a, w, boot, lost)
<1>1. Good(Kernel, W)
  BY KernelFacts DEF Settled
<1>2. Held(Kernel, R, a) /\ lost \in Demand
  <2>1. Kernel.files = files /\ Kernel.boot = boot /\ Kernel.lost = lost
    BY DEF Kernel
  <2> QED
    BY <1>1, <2>1 DEF Good, RefOf
<1>3. /\ DOMAIN node = {n \in Nodes : R[n] > 0}
      /\ \A n \in DOMAIN node : /\ node[n].ref = R[n] /\ node[n].open = a[n]
                                /\ n \in Inodes => node[n].reclaim = 1
      /\ R \in Demand
  <2>1. Kernel.node = node
    BY DEF Kernel
  <2> HIDE DEF R, a
  <2> QED
    BY <1>2, <2>1 DEF Held
<1>4. ASSUME NEW n \in Nodes
      PROVE  /\ a[n] = Cardinality(OpenIn(n)) /\ a[n] \in Nat
             /\ R[n] = Holders(n) + lost[n]
  <2>1. Refs(Kernel) = R
    BY DEF Refs, RefOf, Kernel
  <2> QED
    BY <1>2, <2>1, RefsHolders
<1> HIDE DEF R, a
<1>5. ASSUME NEW n \in Nodes
      PROVE  IF n \in DOMAIN node
             THEN /\ node[n].open = Cardinality(OpenIn(n))
                  /\ node[n].ref = Holders(n) + lost[n] /\ node[n].ref > 0
                  /\ n \in Inodes => node[n].reclaim = 1
             ELSE Holders(n) + lost[n] = 0
  <2>1. R[n] \in Nat
    BY <1>3 DEF Demand
  <2>2. CASE n \in DOMAIN node
    BY <1>3, <1>4, <2>2
  <2>3. CASE n \notin DOMAIN node
    <3>1. R[n] = 0
      BY <1>3, <2>1, <2>3
    <3> QED
      BY <1>4, <2>3, <3>1
  <2> QED
    BY <2>2, <2>3
<1> QED
  BY <1>5 DEF Counted

LEMMA TablesConsistent ==
    ASSUME IInv, panic = None
    PROVE  TableOK
<1>1. Sound(Kernel, pc) /\ Kernel.files = files /\ Clean(files)
  BY KernelFacts, SettledFacts
<1>2. \A p \in Procs : pc[p] = None => files[p] = files_create
  BY <1>1 DEF Sound
<1>3. \A p \in Procs, i \in Fds : \/ files[p].fd[i] = FreeFd
                                  \/ /\ files[p].fd[i].status = "FD_OPENED"
                                     /\ files[p].fd[i].open_count = 1
  BY <1>1 DEF Clean, OpenFd
<1> QED
  BY <1>2, <1>3 DEF TableOK

LEMMA ChangesSaved ==
    ASSUME IInv, panic = None
    PROVE  Saved
<1>1. Sound(Kernel, pc) /\ Kernel.stale = stale /\ Kernel.node = node
  BY KernelFacts
<1>2. \A n \in stale : n \in DOMAIN node /\ node[n].dirty
  BY <1>1 DEF Sound, Settled, Good, Held
<1>3. (\E p \in Procs : pc[p] = "done") => stale = {}
  BY <1>1 DEF Sound
<1> QED
  BY <1>2, <1>3 DEF Saved

(* FilesCorrect: in every behaviour of the processes' calls on open files, *)
(* for any processes, table size and directory tree, the reference and     *)
(* open counts of the inodes are those of the descriptors, current         *)
(* directories, device list and lost references (inode.c, vfsfile.c), the  *)
(* tables of file.c are consistent between calls, no change to a file is   *)
(* dropped with its inode, and two assertions only can stop the kernel:    *)
(* __vop_op's when the inode lacks the operation, and inode_check's bound  *)
(* MAX_INODE_COUNT (inode.c:117), which fails only in a call that began    *)
(* with the references of an inode, the lost ones of O_CREAT|O_EXCL        *)
(* included, within NENTRY + 2 of it.                                      *)
THEOREM FilesCorrect == Spec => []FilesOK
<1>1. Init => IInv
  BY InitIInv
<1>2. IInv /\ [Next]_vars => IInv'
  BY NextIInv
<1>3. IInv => FilesOK
  BY CountsExact, TablesConsistent, ChangesSaved DEF FilesOK, IInv
<1> QED
  BY <1>1, <1>2, <1>3, PTL DEF Spec

(* The step that brings a program to its main.                             *)
LEMMA StdioStep ==
    ASSUME IInv, Next, NEW p \in Procs, pc[p] = "umain1", pc'[p] = "main"
    PROVE  /\ files'[p].fd[0].status = "FD_OPENED" /\ files'[p].fd[0].node = "stdin"
           /\ files'[p].fd[0].readable
           /\ files'[p].fd[1].status = "FD_OPENED" /\ files'[p].fd[1].node = "stdout"
           /\ files'[p].fd[1].writable
<1>1. pc \in [Procs -> Pcs]
  BY DEF IInv
<1>2. PICK q \in Procs : \/ init_main(q) \/ user_main(q) \/ fs_cleanup(q)
                         \/ sys_fork(q) \/ do_exit(q) \/ umain(q) \/ sysfile(q)
                         \/ \E path \in Execs : do_execve(q, path)
  BY DEF Next
<1>3. ~(init_main(q) \/ fs_cleanup(q) \/ do_exit(q))
  BY <1>1 DEF init_main, fs_cleanup, do_exit, None, Commit
<1>4. ~user_main(q)
  BY <1>1 DEF user_main, Commit
<1>5. ~sysfile(q)
  <2>1. sysfile(q) => pc' = pc
    BY DEF sysfile, sysfile_open, sysfile_close, sysfile_op, sysfile_getcwd, sysfile_dup, Commit
  <2> QED
    BY <2>1
<1>6. ~sys_fork(q)
  <2> SUFFICES ASSUME NEW c \in Procs, pc[c] = None, pc' = [pc EXCEPT ![c] = pc[q]] \/ pc' = pc
               PROVE  FALSE
    BY DEF sys_fork, do_fork, fork_undo, Commit
  <2> QED
    BY <1>1 DEF None
<1>7. ASSUME NEW path, do_execve(q, path) PROVE FALSE
  <2>1. pc' = pc \/ \E x \in {None, "umain0"} : pc' = [pc EXCEPT ![q] = x]
    BY <1>7 DEF do_execve, Commit
  <2> QED
    BY <1>1, <2>1 DEF None
<1> DEFINE u == initfd(Kernel, p, 1, [at |-> "stdout", name |-> None], "w")
<1>8. panic = None /\ Commit(u, [pc EXCEPT ![p] = "main"]) /\ pc' # pc
  <2>1. umain(q)
    BY <1>2, <1>3, <1>4, <1>5, <1>6, <1>7
  <2>2. q = p
    BY <1>1, <2>1 DEF umain, Commit
  <2> QED
    BY <2>1, <2>2 DEF umain
<1>9. Sound(Kernel, pc) /\ Settled(Kernel)
  BY <1>8, KernelFacts
<1>10. Spare(Kernel, p) /\ StdinAt(Kernel, p)
  BY <1>9 DEF Sound
<1>11. /\ Tame(Kernel, u, p) /\ StdinAt(u, p)
       /\ OpenFd(u.files[p].fd[1]) /\ u.files[p].fd[1].node = "stdout"
       /\ u.files[p].fd[1].writable
  BY <1>9, <1>10, StdoutTame
<1> HIDE DEF u
<1>12. files' = u.files
  BY <1>8 DEF Commit
<1> QED
  BY <1>11, <1>12 DEF StdinAt, OpenFd

(* StdioCorrect: a program reaches its main with "stdin:" readable at      *)
(* descriptor 0 and "stdout:" writable at 1, whatever it inherited.        *)
THEOREM StdioCorrect == Spec => StdioOK
<1> DEFINE Std == \A p \in Procs : pc[p] = "umain1" /\ pc'[p] = "main" =>
                    /\ files'[p].fd[0].status = "FD_OPENED" /\ files'[p].fd[0].node = "stdin"
                    /\ files'[p].fd[0].readable
                    /\ files'[p].fd[1].status = "FD_OPENED" /\ files'[p].fd[1].node = "stdout"
                    /\ files'[p].fd[1].writable
<1>1. Init => IInv
  BY InitIInv
<1>2. IInv /\ [Next]_vars => IInv'
  BY NextIInv
<1>3. IInv /\ [Next]_vars => [Std]_vars
  BY StdioStep
<1> QED
  BY <1>1, <1>2, <1>3, PTL DEF Spec, StdioOK
=============================================================================
