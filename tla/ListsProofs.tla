----------------------------- MODULE ListsProofs -----------------------------
(***************************************************************************)
(* Proofs about two of the kernel's lists: get_pid never returns a pid     *)
(* that is in use, for any MAX_PID and MAX_PROCESS (GetPid), and the timer *)
(* list, whose timers count from each other, does what Timers promises,    *)
(* for any processes and times (DeltaTimers).                              *)
(***************************************************************************)
EXTENDS GetPid, DeltaTimers, SequenceTheorems, WellFoundedInduction,
        NaturalsInduction, TLAPS

(* The inductive invariant of get_pid: the promise of the cached interval, *)
(* and what the loop has established halfway through the list.             *)
PidInv ==
    /\ PidTypeOK
    /\ CacheSafe
    /\ ScanSafe
    /\ ReturnsUnused
    /\ PidsUnique

(* Linking a process puts its pid in front and shifts the others.          *)
LEMMA Pushed ==
    ASSUME NEW S, NEW q \in Seq(S), NEW x \in S
    PROVE  /\ <<x>> \o q \in Seq(S)
           /\ Len(<<x>> \o q) = Len(q) + 1
           /\ (<<x>> \o q)[1] = x
           /\ \A k \in 2..(Len(q) + 1) : (<<x>> \o q)[k] = q[k - 1]
OBVIOUS

(* Unlinking the k-th process closes the gap.                              *)
LEMMA Removed ==
    ASSUME NEW S, NEW q \in Seq(S), NEW k \in 1..Len(q)
    PROVE  LET r == SubSeq(q, 1, k - 1) \o SubSeq(q, k + 1, Len(q))
           IN  /\ r \in Seq(S)
               /\ Len(r) = Len(q) - 1
               /\ \A j \in 1..(k - 1) : r[j] = q[j]
               /\ \A j \in k..(Len(q) - 1) : r[j] = q[j + 1]
<1> DEFINE a == SubSeq(q, 1, k - 1)
           b == SubSeq(q, k + 1, Len(q))
<1>1. /\ a \in Seq(S)
      /\ Len(a) = k - 1
      /\ \A j \in 1..(k - 1) : a[j] = q[j]
  OBVIOUS
<1>2. /\ b \in Seq(S)
      /\ Len(b) = Len(q) - k
      /\ \A j \in 1..(Len(q) - k) : b[j] = q[k + j]
  OBVIOUS
<1> HIDE DEF a, b
<1>3. /\ a \o b \in Seq(S)
      /\ Len(a \o b) = Len(q) - 1
      /\ \A j \in 1..(k - 1) : (a \o b)[j] = a[j]
      /\ \A j \in k..(Len(q) - 1) : (a \o b)[j] = b[j - (k - 1)]
  <2>1. /\ a \o b \in Seq(S)
        /\ Len(a \o b) = Len(a) + Len(b)
        /\ \A j \in 1..(Len(a) + Len(b)) :
              (a \o b)[j] = IF j <= Len(a) THEN a[j] ELSE b[j - Len(a)]
    BY <1>1, <1>2, ConcatProperties
  <2>2. Len(q) \in Nat /\ Len(a) + Len(b) = Len(q) - 1
    BY <1>1, <1>2
  <2> QED
    BY <1>1, <2>1, <2>2
<1>4. ASSUME NEW j \in k..(Len(q) - 1) PROVE (a \o b)[j] = q[j + 1]
  <2>1. /\ j - (k - 1) \in 1..(Len(q) - k)
        /\ k + (j - (k - 1)) = j + 1
    OBVIOUS
  <2> QED
    BY <1>2, <1>3, <2>1
<1> QED
  BY <1>1, <1>3, <1>4 DEF a, b

(* The initial cache claims nothing.                                       *)
LEMMA PidInvInit == ASSUME PidInit PROVE PidInv
<1>1. Len(<<>>) = 0 /\ <<>> \in Seq(Pids)
  OBVIOUS
<1> QED
  BY <1>1, GetPidAssumption
     DEF PidInit, PidInv, PidTypeOK, CacheSafe, ScanSafe, ReturnsUnused, PidsUnique,
         Used, Pids

(* The call establishes the invariant of the loop, or returns from the     *)
(* cached interval.                                                        *)
LEMMA CallStep == ASSUME PidInv, get_pid PROVE PidInv'
<1>1. PidTypeOK'
  BY GetPidAssumption DEF PidInv, PidTypeOK, get_pid, inside
<1>2. ScanSafe' /\ PidsUnique'
  BY GetPidAssumption
     DEF PidInv, PidTypeOK, get_pid, inside, ScanSafe, PidsUnique
<1>3. CacheSafe' /\ ReturnsUnused'
  BY GetPidAssumption
     DEF PidInv, PidTypeOK, get_pid, inside, CacheSafe, ReturnsUnused, Used, Pids
<1> QED
  BY <1>1, <1>2, <1>3 DEF PidInv

(* An iteration extends what is known by one process, also when last_pid   *)
(* moves on: the pids behind the scan are not below next_safe.             *)
LEMMA ScanStep == ASSUME PidInv, scan PROVE PidInv'
<1>0. /\ Len(proc_list) \in Nat
      /\ i \in 1..Len(proc_list)
      /\ proc_list[i] \in Pids
  BY DEF PidInv, PidTypeOK, scan
<1>1. PidTypeOK'
  BY <1>0, GetPidAssumption, SMTT(30) DEF PidInv, PidTypeOK, scan, inside, Pids, ScanSafe
<1>2. ScanSafe'
  <2>0. /\ \A k \in 1..(i - 1) :
             /\ proc_list[k] \in Pids
             /\ proc_list[k] # last_pid
             /\ proc_list[k] > last_pid => proc_list[k] >= next_safe
        /\ last_pid < next_safe
        /\ last_pid \in Nat /\ next_safe \in Nat /\ next_safe <= MAX_PID
        /\ i \in Nat /\ UNCHANGED proc_list
    BY <1>0, GetPidAssumption DEF PidInv, PidTypeOK, scan, ScanSafe
  <2>1. CASE \E n \in {1, last_pid + 1} : inside(n) /\ n < MAX_PID
    BY <2>0, <2>1, GetPidAssumption DEF ScanSafe, inside
  <2>2. CASE /\ proc_list[i] = last_pid
             /\ last_pid + 1 < next_safe
             /\ last_pid' = last_pid + 1
             /\ i' = i + 1
             /\ UNCHANGED next_safe
    BY <1>0, <2>0, <2>2 DEF ScanSafe, Pids
  <2>3. CASE /\ proc_list[i] # last_pid
             /\ next_safe' = IF proc_list[i] > last_pid /\ next_safe > proc_list[i]
                             THEN proc_list[i] ELSE next_safe
             /\ i' = i + 1
             /\ UNCHANGED last_pid
    BY <1>0, <2>0, <2>3 DEF ScanSafe, Pids
  <2> QED
    BY <2>0, <2>1, <2>2, <2>3, GetPidAssumption DEF scan
<1>3. CacheSafe' /\ ReturnsUnused' /\ PidsUnique'
  BY DEF PidInv, scan, inside, CacheSafe, ReturnsUnused, PidsUnique
<1> QED
  BY <1>1, <1>2, <1>3 DEF PidInv

(* At the end of the list the loop's knowledge is the promise.             *)
LEMMA ScanEndStep == ASSUME PidInv, scan_end PROVE PidInv'
<1>0. Len(proc_list) \in Nat /\ last_pid \in Nat /\ next_safe \in Nat
  BY GetPidAssumption DEF PidInv, PidTypeOK
<1>1. PidTypeOK' /\ ScanSafe' /\ PidsUnique'
  BY DEF PidInv, PidTypeOK, scan_end, ScanSafe, PidsUnique
<1>2. CacheSafe'
  BY <1>0 DEF PidInv, scan_end, ScanSafe, CacheSafe, Used
<1>3. ReturnsUnused'
  BY <1>0, GetPidAssumption
     DEF PidInv, PidTypeOK, scan_end, ScanSafe, ReturnsUnused, Used, Pids
<1> QED
  BY <1>1, <1>2, <1>3 DEF PidInv

(* The new process has a pid of its own, at the lower end of the interval. *)
LEMMA LinkStep == ASSUME PidInv, set_links PROVE PidInv'
<1>1. /\ last_pid \in Pids
      /\ proc_list \in Seq(Pids)
      /\ Len(proc_list) \in Nat
      /\ ~Used(last_pid)
  BY DEF PidInv, PidTypeOK, set_links, ReturnsUnused
<1>2. /\ proc_list' \in Seq(Pids)
      /\ Len(proc_list') = Len(proc_list) + 1
      /\ proc_list'[1] = last_pid
      /\ \A k \in 2..(Len(proc_list) + 1) : proc_list'[k] = proc_list[k - 1]
  BY <1>1, Pushed DEF set_links
<1>3. PidTypeOK' /\ ScanSafe' /\ ReturnsUnused'
  BY <1>1, <1>2 DEF PidInv, PidTypeOK, set_links, ScanSafe, ReturnsUnused
<1>4. PidsUnique'
  BY <1>1, <1>2 DEF PidInv, PidsUnique, Used
<1>5. \A pid \in Pids : Used(pid)' => Used(pid) \/ pid = last_pid
  BY <1>1, <1>2, SMTT(30) DEF Used
<1>6. CacheSafe'
  BY <1>1, <1>5 DEF PidInv, CacheSafe, set_links, Pids
<1> QED
  BY <1>3, <1>4, <1>6 DEF PidInv

(* A process that leaves only takes a pid out of use.                      *)
LEMMA UnlinkPidStep ==
    ASSUME PidInv, NEW k \in 1..Len(proc_list), remove_links(k)
    PROVE  PidInv'
<1>1. proc_list \in Seq(Pids) /\ Len(proc_list) \in Nat /\ Len(proc_list) >= 1
  BY DEF PidInv, PidTypeOK
<1>2. /\ proc_list' \in Seq(Pids)
      /\ Len(proc_list') = Len(proc_list) - 1
      /\ \A j \in 1..(k - 1) : proc_list'[j] = proc_list[j]
      /\ \A j \in k..(Len(proc_list) - 1) : proc_list'[j] = proc_list[j + 1]
  BY <1>1, Removed DEF remove_links
<1>3. 1 \in 1..(Len(proc_list') + 1)
  BY <1>1, <1>2
<1>7. PidTypeOK' /\ ScanSafe' /\ ReturnsUnused'
  BY <1>2, <1>3 DEF PidInv, PidTypeOK, remove_links, ScanSafe, ReturnsUnused
<1>4. PidsUnique'
  BY <1>1, <1>2 DEF PidInv, PidsUnique
<1>5. \A pid \in Pids : Used(pid)' => Used(pid)
  BY <1>1, <1>2 DEF Used
<1>6. CacheSafe'
  BY <1>5 DEF PidInv, CacheSafe, remove_links
<1> QED
  BY <1>4, <1>6, <1>7 DEF PidInv

(* get_pid's invariant holds in every reachable state.                     *)
THEOREM Invariance == PidSpec => []PidInv
<1>1. PidInit => PidInv
  BY PidInvInit
<1>2. PidInv /\ [PidNext]_pid_vars => PidInv'
  <2> SUFFICES ASSUME PidInv, [PidNext]_pid_vars PROVE PidInv'
    OBVIOUS
  <2>1. CASE UNCHANGED pid_vars
    BY <2>1 DEF pid_vars, PidInv, PidTypeOK, CacheSafe, ScanSafe, ReturnsUnused,
                PidsUnique, Used
  <2> QED
    BY <2>1, CallStep, ScanStep, ScanEndStep, LinkStep, UnlinkPidStep DEF PidNext
<1> QED
  BY <1>1, <1>2, PTL DEF PidSpec

(* The cached interval and the interval of a running scan hold no pid in   *)
(* use, and the pid that get_pid returns is valid and not in use.          *)
THEOREM PidUnused == PidSpec => []SearchOK
<1>1. PidInv => SearchOK
  BY DEF PidInv, SearchOK
<1> QED
  BY <1>1, Invariance, PTL

(* No two processes have the same pid.                                     *)
THEOREM PidUnique == PidSpec => []PidsUnique
<1>1. PidInv => PidsUnique
  BY DEF PidInv
<1> QED
  BY <1>1, Invariance, PTL

-----------------------------------------------------------------------------
(* The timer list.                                                         *)
TimerLists == Seq([proc : TimerProcs, expires : Nat])

(* A set of numbers has a least one; with it facts about all timers of a   *)
(* list are proved from the first to the last.                             *)
LEMMA Least ==
    ASSUME NEW S, S \subseteq Nat, S # {}
    PROVE  \E x \in S : \A y \in S : x <= y
<1> DEFINE R == OpToRel(<, Nat)
<1>1. \E x \in S : \A y \in S : ~(<<y, x>> \in R)
  BY WFMin, NatLessThanWellFounded
<1>2. \A x, y \in S : <<y, x>> \in R <=> y < x
  BY DEF OpToRel
<1> HIDE DEF R
<1>3. PICK x \in S : \A y \in S : ~(<<y, x>> \in R)
  BY <1>1
<1>4. ASSUME NEW y \in S PROVE x <= y
  <2>1. ~(y < x)
    BY <1>2, <1>3
  <2>2. x \in Nat /\ y \in Nat
    OBVIOUS
  <2> QED
    BY <2>1, <2>2
<1> QED
  BY <1>4

LEMMA TimerRecord ==
    ASSUME NEW q \in TimerLists, NEW k \in 1..Len(q)
    PROVE  q[k].expires \in Nat /\ q[k].proc \in TimerProcs
<1>1. PICK R : R = [proc : TimerProcs, expires : Nat]
  OBVIOUS
<1>2. q[k] \in R
  BY <1>1, ElementOfSeq DEF TimerLists
<1> QED
  BY <1>1, <1>2

(* r holds the times of expiry of q's first n timers.                      *)
Sums(q, n, r) ==
    /\ r \in [0..n -> Nat]
    /\ r[0] = 0
    /\ \A k \in 1..n : r[k] = r[k - 1] + q[k].expires

(* They exist,                                                             *)
LEMMA SumsExist ==
    ASSUME NEW q \in TimerLists
    PROVE  \E r : Sums(q, Len(q), r)
<1> DEFINE B == {n \in 0..Len(q) : ~\E r : Sums(q, n, r)}
<1>1. SUFFICES ASSUME B # {} PROVE FALSE
  <2>1. Len(q) \in 0..Len(q)
    BY DEF TimerLists
  <2> QED
    BY <2>1
<1>2. B \subseteq Nat
  OBVIOUS
<1>3. PICK n \in B : \A m \in B : n <= m
  BY <1>1, <1>2, Least
<1>4. n \in 0..Len(q) /\ Len(q) \in Nat /\ ~\E r : Sums(q, n, r)
  BY DEF TimerLists
<1>5. n # 0
  <2>1. Sums(q, 0, [k \in 0..0 |-> 0])
    BY DEF Sums
  <2> QED
    BY <1>4, <2>1
<1>6. PICK m \in 0..Len(q) : m = n - 1 /\ m \notin B
  BY <1>3, <1>4, <1>5
<1>7. PICK r : Sums(q, m, r)
  BY <1>6
<1> HIDE DEF B
<1>8. q[n].expires \in Nat
  <2>1. n \in 1..Len(q)
    BY <1>4, <1>5
  <2> QED
    BY <2>1, TimerRecord
<1> DEFINE t == [k \in 0..n |-> IF k = n THEN r[m] + q[n].expires ELSE r[k]]
<1>9. r \in [0..m -> Nat] /\ r[0] = 0 /\ \A k \in 1..m : r[k] = r[k - 1] + q[k].expires
  BY <1>7 DEF Sums
<1>10. t \in [0..n -> Nat] /\ t[0] = 0
  BY <1>4, <1>5, <1>6, <1>8, <1>9
<1>11. ASSUME NEW k \in 1..n PROVE t[k] = t[k - 1] + q[k].expires
  <2>1. CASE k = n
    BY <1>4, <1>6, <2>1
  <2>2. CASE k # n
    BY <1>4, <1>6, <1>9, <2>2
  <2> QED
    BY <2>1, <2>2
<1> HIDE DEF t
<1>12. Sums(q, n, t)
  BY <1>10, <1>11 DEF Sums
<1> QED
  BY <1>4, <1>12

(* there is only one such function,                                        *)
LEMMA SumsUnique ==
    ASSUME NEW q \in TimerLists, NEW n \in Nat,
           NEW r, NEW t, Sums(q, n, r), Sums(q, n, t)
    PROVE  r = t
<1> DEFINE B == {k \in 0..n : r[k] # t[k]}
<1>1. r \in [0..n -> Nat] /\ t \in [0..n -> Nat]
  BY DEF Sums
<1>2. SUFFICES ASSUME B # {} PROVE FALSE
  <2>1. SUFFICES ASSUME \A k \in 0..n : r[k] = t[k] PROVE r = t
    OBVIOUS
  <2>2. r = [k \in 0..n |-> r[k]] /\ t = [k \in 0..n |-> t[k]]
    BY <1>1
  <2>3. [k \in 0..n |-> r[k]] = [k \in 0..n |-> t[k]]
    BY <2>1
  <2> QED
    BY <2>2, <2>3
<1>3. PICK k \in B : \A m \in B : k <= m
  <2>1. B \subseteq Nat
    OBVIOUS
  <2> HIDE DEF B
  <2> QED
    BY <1>2, <2>1, Least
<1>4. k \in 0..n /\ r[k] # t[k]
  OBVIOUS
<1>5. k # 0
  BY <1>4 DEF Sums
<1>6. r[k - 1] = t[k - 1]
  BY <1>3, <1>4, <1>5
<1>7. /\ r[k] = r[k - 1] + q[k].expires
      /\ t[k] = t[k - 1] + q[k].expires
  BY <1>4, <1>5 DEF Sums
<1> QED
  BY <1>4, <1>6, <1>7

(* and it is what DueOf computes.                                          *)
LEMMA DueSums ==
    ASSUME NEW q \in TimerLists
    PROVE  Sums(q, Len(q), DueOf(q))
<1> DEFINE Rec(f) == [k \in 0..Len(q) |-> IF k = 0 THEN 0 ELSE f[k - 1] + q[k].expires]
<1>1. Len(q) \in Nat
  BY DEF TimerLists
<1>2. PICK r : Sums(q, Len(q), r)
  BY SumsExist
<1>3. r = Rec(r)
  BY <1>1, <1>2 DEF Sums
<1>4. DueOf(q) = CHOOSE f : f = Rec(f)
  BY DEF DueOf
<1>5. PICK d : d = DueOf(q)
  OBVIOUS
<1>6. d = Rec(d)
  BY <1>3, <1>4, <1>5
<1> DEFINE B == {k \in 0..Len(q) : d[k] \notin Nat}
<1>7. d[0] = 0 /\ \A k \in 1..Len(q) : d[k] = d[k - 1] + q[k].expires
  BY <1>1, <1>6
<1>8. DOMAIN d = 0..Len(q) /\ d = [k \in 0..Len(q) |-> d[k]]
  BY <1>6
<1>9. B = {}
  <2> SUFFICES ASSUME B # {} PROVE FALSE
    OBVIOUS
  <2>1. PICK k \in B : \A m \in B : k <= m
    <3>1. B \subseteq Nat
      OBVIOUS
    <3> HIDE DEF B
    <3> QED
      BY <3>1, Least
  <2>2. k \in 1..Len(q)
    BY <1>1, <1>7
  <2>3. d[k - 1] \in Nat
    BY <1>1, <2>1, <2>2
  <2>4. q[k].expires \in Nat
    BY <2>2, TimerRecord
  <2> QED
    BY <1>7, <2>2, <2>3, <2>4
<1>10. d \in [0..Len(q) -> Nat]
  BY <1>8, <1>9
<1> QED
  BY <1>5, <1>7, <1>10 DEF Sums

(* A timer further back is not due before one further to the front.        *)
LEMMA DueMonotone ==
    ASSUME NEW q \in TimerLists, NEW h \in 0..Len(q), NEW j \in 0..Len(q), h <= j
    PROVE  DueOf(q)[h] <= DueOf(q)[j]
<1>1. PICK d : d = DueOf(q) /\ Sums(q, Len(q), d)
  BY DueSums
<1>2. Len(q) \in Nat /\ d \in [0..Len(q) -> Nat]
  BY <1>1 DEF TimerLists, Sums
<1> DEFINE B == {k \in h..Len(q) : ~(d[h] <= d[k])}
<1>3. SUFFICES B = {}
  <2>1. j \in h..Len(q)
    BY <1>2
  <2> QED
    BY <1>1, <2>1
<1>4. SUFFICES ASSUME B # {} PROVE FALSE
  OBVIOUS
<1>5. PICK k \in B : \A m \in B : k <= m
  <2>1. B \subseteq Nat
    BY <1>2
  <2> HIDE DEF B
  <2> QED
    BY <1>4, <2>1, Least
<1>6. k \in h..Len(q) /\ k # h
  BY <1>2
<1>7. PICK m \in h..Len(q) : m = k - 1 /\ m \notin B
  BY <1>2, <1>5, <1>6
<1>8. d[h] <= d[m]
  BY <1>7
<1>9. k \in 1..Len(q) /\ q[k].expires \in Nat
  <2>1. k \in 1..Len(q)
    BY <1>2, <1>6
  <2> QED
    BY <2>1, TimerRecord
<1>10. d[k] = d[m] + q[k].expires
  BY <1>1, <1>7, <1>9 DEF Sums
<1>11. d[h] \in Nat /\ d[m] \in Nat
  BY <1>2, <1>7
<1> QED
  BY <1>8, <1>9, <1>10, <1>11

-----------------------------------------------------------------------------
(* A list whose first element is replaced.                                 *)
LEMMA HeadReplaced ==
    ASSUME NEW S, NEW t \in Seq(S), t # <<>>, NEW x \in S
    PROVE  /\ <<x>> \o Tail(t) \in Seq(S)
           /\ Len(<<x>> \o Tail(t)) = Len(t)
           /\ (<<x>> \o Tail(t))[1] = x
           /\ \A j \in 2..Len(t) : (<<x>> \o Tail(t))[j] = t[j]
<1>1. PICK z \in Seq(S) : z = Tail(t) /\ Len(z) = Len(t) - 1
                          /\ \A j \in 1..Len(z) : z[j] = t[j + 1]
  <2>1. Tail(t) \in Seq(S)
    BY HeadTailProperties
  <2>2. /\ Len(Tail(t)) = Len(t) - 1
        /\ \A j \in 1..Len(Tail(t)) : Tail(t)[j] = t[j + 1]
    BY HeadTailProperties
  <2> QED
    BY <2>1, <2>2
<1>2. /\ <<x>> \o z \in Seq(S)
      /\ Len(<<x>> \o z) = Len(z) + 1
      /\ (<<x>> \o z)[1] = x
      /\ \A j \in 2..(Len(z) + 1) : (<<x>> \o z)[j] = z[j - 1]
  BY Pushed
<1>3. ASSUME NEW j \in 2..Len(t) PROVE (<<x>> \o z)[j] = t[j]
  <2>1. PICK m \in 1..Len(z) : m = j - 1
    BY <1>1
  <2>2. (<<x>> \o z)[j] = z[m] /\ z[m] = t[m + 1]
    BY <1>1, <1>2, <2>1
  <2> QED
    BY <2>1, <2>2
<1> QED
  BY <1>1, <1>2, <1>3

(* Two lists in a row.                                                     *)
LEMMA Joined ==
    ASSUME NEW S, NEW a \in Seq(S), NEW z \in Seq(S)
    PROVE  /\ a \o z \in Seq(S)
           /\ Len(a \o z) = Len(a) + Len(z)
           /\ \A j \in 1..Len(a) : (a \o z)[j] = a[j]
           /\ \A j \in 1..Len(z) : (a \o z)[Len(a) + j] = z[j]
<1>1. /\ a \o z \in Seq(S)
      /\ Len(a \o z) = Len(a) + Len(z)
      /\ \A j \in 1..(Len(a) + Len(z)) :
            (a \o z)[j] = IF j <= Len(a) THEN a[j] ELSE z[j - Len(a)]
  BY ConcatProperties
<1>2. PICK m \in Nat, n \in Nat : m = Len(a) /\ n = Len(z)
  OBVIOUS
<1>3. ASSUME NEW j \in 1..n PROVE (a \o z)[m + j] = z[j]
  <2>1. m + j \in 1..(m + n) /\ ~(m + j <= m) /\ (m + j) - m = j
    OBVIOUS
  <2> QED
    BY <1>1, <1>2, <2>1
<1> QED
  BY <1>1, <1>2, <1>3

(* Timer k has left the list q, its time has gone to the next one.         *)
Dropped(q, k, r) ==
    /\ r \in TimerLists
    /\ Len(r) = Len(q) - 1
    /\ \A j \in 1..Len(r) :
          /\ r[j].proc = IF j < k THEN q[j].proc ELSE q[j + 1].proc
          /\ r[j].expires = IF j < k THEN q[j].expires
                            ELSE IF j = k THEN q[k + 1].expires + q[k].expires
                            ELSE q[j + 1].expires

LEMMA UnlinkedDrops ==
    ASSUME timer_list \in TimerLists, NEW k \in 1..Len(timer_list)
    PROVE  Dropped(timer_list, k, Unlinked(k))
<1> DEFINE R == [proc : TimerProcs, expires : Nat]
           q == timer_list
           a == SubSeq(q, 1, k - 1)
           t == SubSeq(q, k + 1, Len(q))
<1>0. q \in Seq(R)
  BY DEF TimerLists
<1> HIDE DEF q, R
<1>1. PICK n \in Nat : n = Len(q) /\ k \in 1..n
  BY <1>0 DEF q
<1>2. /\ a \in Seq(R)
      /\ Len(a) = k - 1
      /\ \A j \in 1..(k - 1) : a[j] = q[j]
  BY <1>0, <1>1
<1>3. /\ t \in Seq(R)
      /\ Len(t) = n - k
      /\ \A j \in 1..(n - k) : t[j] = q[k + j]
  BY <1>0, <1>1
<1>4. t = <<>> <=> n = k
  <2>1. t = <<>> <=> Len(t) = 0
    BY <1>3, EmptySeq
  <2> HIDE DEF t
  <2> QED
    BY <1>1, <1>3, <2>1
<1>5. \A j \in 1..n : q[j].expires \in Nat /\ q[j].proc \in TimerProcs
  BY <1>0, <1>1, TimerRecord DEF TimerLists, R
<1>6. CASE n = k
  <2>1. Unlinked(k) = a \o <<>>
    BY <1>4, <1>6 DEF Unlinked, q
  <2> HIDE DEF a, R
  <2>2. a \o <<>> = a
    BY <1>2
  <2> QED
    BY <1>1, <1>2, <1>6, <2>1, <2>2 DEF Dropped, TimerLists, R, q
<1>7. CASE n # k
  <2> DEFINE x == [q[k + 1] EXCEPT !.expires = @ + q[k].expires]
             y == <<x>> \o Tail(t)
  <2>1. /\ k + 1 \in 1..n
        /\ Head(t) = q[k + 1]
    BY <1>1, <1>3, <1>7
  <2>2. x \in R /\ x.proc = q[k + 1].proc /\ x.expires = q[k + 1].expires + q[k].expires
    <3>1. q[k + 1] \in R
      BY <1>0, <1>1, <2>1, ElementOfSeq
    <3>2. q[k].expires \in Nat
      BY <1>1, <1>5
    <3> QED
      BY <3>1, <3>2 DEF R
  <2>3. Unlinked(k) = a \o y
    BY <1>1, <1>4, <1>7, <2>1 DEF Unlinked, q
  <2> HIDE DEF x, a, t
  <2>4. /\ y \in Seq(R) /\ Len(y) = n - k
        /\ y[1] = x
        /\ \A j \in 2..(n - k) : y[j] = t[j]
    BY <1>3, <1>4, <1>7, <2>2, HeadReplaced
  <2> HIDE DEF y
  <2>5. PICK r : r = a \o y
    OBVIOUS
  <2>6. /\ r \in Seq(R)
        /\ Len(r) = (k - 1) + (n - k)
        /\ \A j \in 1..(k - 1) : r[j] = a[j]
        /\ \A j \in 1..(n - k) : r[(k - 1) + j] = y[j]
    <3>1. /\ a \o y \in Seq(R)
          /\ Len(a \o y) = Len(a) + Len(y)
          /\ \A j \in 1..Len(a) : (a \o y)[j] = a[j]
          /\ \A j \in 1..Len(y) : (a \o y)[Len(a) + j] = y[j]
      <4>1. a \in Seq(R) /\ y \in Seq(R)
        BY <1>2, <2>4
      <4> QED
        BY <4>1, Joined
    <3> QED
      BY <1>2, <2>4, <2>5, <3>1
  <2>7. Len(r) = n - 1
    BY <1>1, <2>6
  <2>8. ASSUME NEW j \in 1..(n - 1)
        PROVE  /\ r[j].proc = IF j < k THEN q[j].proc ELSE q[j + 1].proc
               /\ r[j].expires = IF j < k THEN q[j].expires
                                 ELSE IF j = k THEN q[k + 1].expires + q[k].expires
                                 ELSE q[j + 1].expires
    <3>1. CASE j < k
      <4>1. r[j] = q[j]
        BY <1>1, <1>2, <2>6, <3>1
      <4> QED
        BY <3>1, <4>1
    <3>2. CASE j = k
      <4>1. 1 \in 1..(n - k) /\ (k - 1) + 1 = j
        BY <1>1, <1>7, <3>2
      <4>2. r[j] = x
        BY <2>4, <2>6, <4>1
      <4> QED
        BY <2>2, <3>2, <4>2
    <3>3. CASE j > k
      <4>1. PICK m \in 2..(n - k) : (k - 1) + m = j /\ k + m = j + 1 /\ m \in 1..(n - k)
        BY <1>1, <3>3
      <4>2. r[(k - 1) + m] = y[m]
        BY <2>6, <4>1
      <4>3. y[m] = t[m]
        BY <2>4
      <4>4. t[m] = q[k + m]
        BY <1>3, <4>1
      <4>5. r[j] = q[j + 1]
        BY <4>1, <4>2, <4>3, <4>4
      <4> QED
        BY <1>1, <3>3, <4>5
    <3> QED
      BY <1>1, <3>1, <3>2, <3>3
  <2>9. Dropped(q, k, r)
    BY <1>1, <2>6, <2>7, <2>8 DEF Dropped, TimerLists, R
  <2> QED
    BY <2>3, <2>5, <2>9 DEF q
<1> QED
  BY <1>6, <1>7

(* The timers behind it are due when they were.                            *)
LEMMA DroppedDue ==
    ASSUME NEW q \in TimerLists, NEW k \in 1..Len(q), NEW r, Dropped(q, k, r),
           NEW j \in 1..Len(r)
    PROVE  DueOf(r)[j] = IF j < k THEN DueOf(q)[j] ELSE DueOf(q)[j + 1]
<1>1. PICK d : d = DueOf(q) /\ Sums(q, Len(q), d)
  BY DueSums
<1>2. PICK n \in Nat : n = Len(q) /\ k \in 1..n /\ Len(r) = n - 1
  BY DEF TimerLists, Dropped
<1>3. /\ d \in [0..n -> Nat] /\ d[0] = 0
      /\ \A m \in 1..n : d[m] = d[m - 1] + q[m].expires
  BY <1>1, <1>2 DEF Sums
<1>4. \A m \in 1..n : q[m].expires \in Nat
  BY <1>2, TimerRecord
<1> DEFINE e == [m \in 0..(n - 1) |-> IF m < k THEN d[m] ELSE d[m + 1]]
<1>5. e \in [0..(n - 1) -> Nat] /\ e[0] = 0
  BY <1>2, <1>3
<1>6. ASSUME NEW m \in 1..(n - 1) PROVE e[m] = e[m - 1] + r[m].expires
  <2>1. r[m].expires = IF m < k THEN q[m].expires
                       ELSE IF m = k THEN q[k + 1].expires + q[k].expires
                       ELSE q[m + 1].expires
    BY <1>2 DEF Dropped
  <2>2. CASE m < k
    BY <1>2, <1>3, <2>1, <2>2
  <2>3. CASE m = k
    <3>1. /\ d[k + 1] = d[k] + q[k + 1].expires
          /\ d[k] = d[k - 1] + q[k].expires
      BY <1>2, <1>3, <2>3, SMTT(30)
    <3>2. d[k - 1] \in Nat /\ q[k + 1].expires \in Nat /\ q[k].expires \in Nat
      <4>1. k - 1 \in 0..n /\ k + 1 \in 1..n
        BY <1>2, <2>3
      <4> QED
        BY <1>2, <1>3, <1>4, <4>1
    <3>3. e[m] = d[k + 1] /\ e[m - 1] = d[k - 1]
      BY <1>2, <2>3
    <3>4. r[m].expires = q[k + 1].expires + q[k].expires
      BY <1>2, <2>1, <2>3
    <3> HIDE DEF e
    <3>5. PICK u \in Nat, v \in Nat, w \in Nat :
             u = d[k - 1] /\ v = q[k + 1].expires /\ w = q[k].expires
      BY <3>2
    <3>6. d[k + 1] = u + w + v /\ r[m].expires = v + w
      BY <3>1, <3>4, <3>5
    <3>7. e[m] = u + w + v /\ e[m - 1] = u
      BY <3>3, <3>5, <3>6
    <3> QED
      BY <3>6, <3>7
  <2>4. CASE m > k
    BY <1>2, <1>3, <2>1, <2>4
  <2> QED
    BY <1>2, <2>2, <2>3, <2>4
<1> HIDE DEF e
<1>7. Sums(r, Len(r), e)
  BY <1>2, <1>5, <1>6 DEF Sums
<1>8. DueOf(r) = e
  <2>1. r \in TimerLists /\ Len(r) \in Nat
    BY <1>2 DEF Dropped
  <2>2. Sums(r, Len(r), DueOf(r))
    BY <2>1, DueSums
  <2> QED
    BY <1>7, <2>1, <2>2, SumsUnique
<1> QED
  BY <1>1, <1>2, <1>8 DEF e

-----------------------------------------------------------------------------
(* The loop of add_timer stops behind the timers that are due by then.     *)
LEMMA PlaceFound ==
    ASSUME timer_list \in TimerLists, NEW n \in Nat
    PROVE  /\ Place(n) \in 1..(Len(timer_list) + 1)
           /\ Due(Place(n) - 1) <= n
           /\ Place(n) <= Len(timer_list) => n < Due(Place(n))
<1>1. PICK q \in TimerLists : q = timer_list
  OBVIOUS
<1>2. PICK m \in Nat : m = Len(q) /\ DOMAIN q = 1..m
  BY DEF TimerLists
<1>3. PICK d : /\ d = DueOf(q) /\ d \in [0..m -> Nat] /\ d[0] = 0
               /\ \A j : Due(j) = d[j]
  BY <1>1, <1>2, DueSums DEF Sums, Due
<1> DEFINE S == {j \in 1..m : n < d[j]} \cup {m + 1}
<1>4. Place(n) = Min(S)
  BY <1>1, <1>2, <1>3 DEF Place
<1>5. S \subseteq Nat /\ S # {}
  OBVIOUS
<1>6. \E x \in S : \A y \in S : x <= y
  <2> HIDE DEF S
  <2> QED
    BY <1>5, Least
<1>7. Min(S) \in S /\ \A y \in S : Min(S) <= y
  <2> HIDE DEF S
  <2> QED
    BY <1>6 DEF Min
<1>8. PICK a : a = Min(S)
  OBVIOUS
<1>9. a \in 1..(m + 1) /\ (a <= m => n < d[a])
  BY <1>7, <1>8
<1>10. d[a - 1] <= n
  <2>1. CASE a = 1
    BY <1>3, <2>1
  <2>2. CASE a # 1
    <3>1. PICK b \in 1..m : b = a - 1
      BY <1>9, <2>2
    <3>2. b \notin S
      BY <1>7, <1>8, <1>9, <3>1
    <3>3. d[b] \in Nat /\ ~(n < d[b])
      BY <1>3, <3>2
    <3> QED
      BY <3>1, <3>3
  <2> QED
    BY <2>1, <2>2
<1> HIDE DEF S
<1> QED
  BY <1>1, <1>2, <1>3, <1>4, <1>8, <1>9, <1>10

(* A timer of p, due in n ticks, has been put at place k of the list q.    *)
Inserted(q, k, p, n, r) ==
    /\ r \in TimerLists
    /\ Len(r) = Len(q) + 1
    /\ \A j \in 1..Len(r) :
          /\ r[j].proc = IF j < k THEN q[j].proc ELSE IF j = k THEN p ELSE q[j - 1].proc
          /\ r[j].expires = IF j < k THEN q[j].expires
                            ELSE IF j = k THEN n - DueOf(q)[k - 1]
                            ELSE IF j = k + 1 THEN q[k].expires - (n - DueOf(q)[k - 1])
                            ELSE q[j - 1].expires

LEMMA AddInserts ==
    ASSUME timer_list \in TimerLists, NEW p \in TimerProcs, NEW n \in Nat, add_timer(p, n)
    PROVE  Inserted(timer_list, Place(n), p, n, timer_list')
<1> DEFINE R == [proc : TimerProcs, expires : Nat]
<1>1. PICK q : q = timer_list /\ q \in TimerLists /\ q \in Seq(R)
  BY DEF TimerLists
<1>2. PICK m \in Nat : m = Len(q)
  BY <1>1
<1>3. PICK d : /\ d = DueOf(q) /\ d \in [0..m -> Nat] /\ \A j : Due(j) = d[j]
               /\ \A j \in 1..m : d[j] = d[j - 1] + q[j].expires
  BY <1>1, <1>2, DueSums DEF Sums, Due
<1>4. PICK k : k = Place(n)
  OBVIOUS
<1>5. k \in 1..(m + 1) /\ d[k - 1] <= n /\ (k <= m => n < d[k])
  BY <1>1, <1>2, <1>3, <1>4, PlaceFound
<1>6. PICK rest \in Nat : rest = n - d[k - 1]
  <2>1. d[k - 1] \in Nat
    BY <1>3, <1>5
  <2> QED
    BY <1>5, <2>1
<1>7. PICK new \in R : new = [proc |-> p, expires |-> rest]
  OBVIOUS
<1> DEFINE a == SubSeq(q, 1, k - 1)
           t == SubSeq(q, k, Len(q))
           y == IF t = <<>> THEN <<>>
                ELSE <<[Head(t) EXCEPT !.expires = @ - rest]>> \o Tail(t)
<1>8. timer_list' = a \o <<new>> \o y
  BY <1>1, <1>3, <1>4, <1>6, <1>7 DEF add_timer
<1>9. \A j \in 1..m : q[j] \in R /\ q[j].expires \in Nat
  <2>1. \A j \in 1..m : q[j].expires \in Nat
    BY <1>1, <1>2, TimerRecord
  <2> HIDE DEF R
  <2>2. \A j \in 1..m : q[j] \in R
    BY <1>1, <1>2, ElementOfSeq
  <2> QED
    BY <2>1, <2>2
<1> HIDE DEF R
<1>10. /\ a \in Seq(R)
       /\ Len(a) = k - 1
       /\ \A j \in 1..(k - 1) : a[j] = q[j]
  BY <1>1, <1>2, <1>5
<1>11. /\ t \in Seq(R)
       /\ Len(t) = m - k + 1
       /\ \A j \in 1..(m - k + 1) : t[j] = q[k + j - 1]
  BY <1>1, <1>2, <1>5
<1>12. /\ y \in Seq(R)
       /\ Len(y) = m - k + 1
       /\ \A j \in 1..(m - k + 1) :
             /\ y[j].proc = q[k + j - 1].proc
             /\ y[j].expires = IF j = 1 THEN q[k].expires - rest ELSE q[k + j - 1].expires
  <2>1. CASE k = m + 1
    <3>1. t = <<>>
      BY <1>11, <2>1
    <3> HIDE DEF t
    <3>2. y = <<>>
      BY <3>1
    <3> QED
      BY <2>1, <3>2
  <2>2. CASE k # m + 1
    <3>1. k \in 1..m /\ m - k + 1 \in Nat /\ 1 \in 1..(m - k + 1) /\ k + 1 - 1 = k
      BY <1>5, <2>2
    <3>2. t # <<>> /\ Head(t) = q[k]
      <4>1. Len(t) # 0 /\ t[1] = q[k]
        BY <1>11, <3>1
      <4> HIDE DEF t
      <4> QED
        BY <1>11, <4>1
    <3>3. PICK x : x = [q[k] EXCEPT !.expires = @ - rest]
      OBVIOUS
    <3>4. x \in R /\ x.proc = q[k].proc /\ x.expires = q[k].expires - rest
      <4>1. q[k] \in R /\ q[k].expires \in Nat
        BY <1>9, <3>1
      <4>2. d[k] = d[k - 1] + q[k].expires /\ n < d[k] /\ d[k - 1] \in Nat
        BY <1>3, <1>5, <3>1
      <4>3. q[k].expires - rest \in Nat
        BY <1>6, <4>1, <4>2
      <4> QED
        BY <3>3, <4>1, <4>3 DEF R
    <3>5. y = <<x>> \o Tail(t)
      BY <3>2, <3>3
    <3> HIDE DEF t, y
    <3>6. PICK z \in Seq(R) : z = t /\ z # <<>>
      BY <1>11, <3>2
    <3>7. /\ <<x>> \o Tail(z) \in Seq(R)
          /\ Len(<<x>> \o Tail(z)) = Len(z)
          /\ (<<x>> \o Tail(z))[1] = x
          /\ \A j \in 2..Len(z) : (<<x>> \o Tail(z))[j] = z[j]
      BY <3>4, <3>6, HeadReplaced
    <3>8. /\ y \in Seq(R) /\ Len(y) = m - k + 1 /\ y[1] = x
          /\ \A j \in 2..(m - k + 1) : y[j] = q[k + j - 1]
      BY <1>11, <3>5, <3>6, <3>7
    <3>9. ASSUME NEW j \in 1..(m - k + 1)
          PROVE  /\ y[j].proc = q[k + j - 1].proc
                 /\ y[j].expires = IF j = 1 THEN q[k].expires - rest
                                   ELSE q[k + j - 1].expires
      <4>1. CASE j = 1
        BY <3>1, <3>4, <3>8, <4>1
      <4>2. CASE j # 1
        <5>1. j \in 2..(m - k + 1)
          BY <3>1, <4>2
        <5> QED
          BY <3>8, <4>2, <5>1
      <4> QED
        BY <4>1, <4>2
    <3> QED
      BY <3>8, <3>9
  <2> QED
    BY <2>1, <2>2
<1> HIDE DEF a, t, y
<1>13. PICK b : b = a \o <<new>>
  OBVIOUS
<1>14. /\ b \in Seq(R)
       /\ Len(b) = k
       /\ \A j \in 1..(k - 1) : b[j] = q[j]
       /\ b[k] = new
  <2>1. /\ a \o <<new>> \in Seq(R)
        /\ Len(a \o <<new>>) = Len(a) + Len(<<new>>)
        /\ \A j \in 1..Len(a) : (a \o <<new>>)[j] = a[j]
        /\ \A j \in 1..Len(<<new>>) : (a \o <<new>>)[Len(a) + j] = <<new>>[j]
    <3>1. a \in Seq(R) /\ <<new>> \in Seq(R)
      BY <1>10
    <3> QED
      BY <3>1, Joined
  <2>2. Len(<<new>>) = 1 /\ 1 \in 1..1 /\ <<new>>[1] = new
    OBVIOUS
  <2>3. (k - 1) + 1 = k /\ k \in Nat
    BY <1>5
  <2>4. b[k] = new
    BY <1>10, <1>13, <2>1, <2>2, <2>3
  <2> QED
    BY <1>10, <1>13, <2>1, <2>2, <2>3, <2>4
<1>15. PICK r : r = b \o y
  OBVIOUS
<1>16. /\ r \in Seq(R)
       /\ Len(r) = m + 1
       /\ \A j \in 1..k : r[j] = b[j]
       /\ \A j \in 1..(m - k + 1) : r[k + j] = y[j]
  <2>1. /\ b \o y \in Seq(R)
        /\ Len(b \o y) = Len(b) + Len(y)
        /\ \A j \in 1..Len(b) : (b \o y)[j] = b[j]
        /\ \A j \in 1..Len(y) : (b \o y)[Len(b) + j] = y[j]
    <3>1. b \in Seq(R) /\ y \in Seq(R)
      BY <1>12, <1>14
    <3> QED
      BY <3>1, Joined
  <2>2. k + (m - k + 1) = m + 1
    BY <1>5
  <2> QED
    BY <1>12, <1>14, <1>15, <2>1, <2>2
<1>17. ASSUME NEW j \in 1..(m + 1)
       PROVE  /\ r[j].proc = IF j < k THEN q[j].proc ELSE IF j = k THEN p ELSE q[j - 1].proc
              /\ r[j].expires = IF j < k THEN q[j].expires
                                ELSE IF j = k THEN n - d[k - 1]
                                ELSE IF j = k + 1 THEN q[k].expires - (n - d[k - 1])
                                ELSE q[j - 1].expires
  <2>1. CASE j < k
    <3>1. r[j] = q[j]
      BY <1>5, <1>14, <1>16, <2>1
    <3> QED
      BY <2>1, <3>1
  <2>2. CASE j = k
    <3>1. r[j] = new
      BY <1>5, <1>14, <1>16, <2>2
    <3> QED
      BY <1>6, <1>7, <2>2, <3>1
  <2>3. CASE j > k
    <3>1. PICK h \in 1..(m - k + 1) : /\ k + h = j /\ k + h - 1 = j - 1
                                      /\ h = 1 <=> j = k + 1
      BY <1>5, <2>3
    <3>2. r[j] = y[h]
      BY <1>16, <3>1
    <3>3. r[j].proc = q[j - 1].proc
      BY <1>12, <3>1, <3>2
    <3>4. r[j].expires = IF h = 1 THEN q[k].expires - rest ELSE q[j - 1].expires
      BY <1>12, <3>1, <3>2
    <3> QED
      BY <1>5, <1>6, <2>3, <3>1, <3>3, <3>4
  <2> QED
    BY <1>5, <2>1, <2>2, <2>3
<1>18. Inserted(q, k, p, n, r)
  BY <1>2, <1>3, <1>16, <1>17 DEF Inserted, TimerLists, R
<1> QED
  BY <1>1, <1>4, <1>8, <1>13, <1>15, <1>18

(* It is due in n ticks and the others when they were.                     *)
DueAsBefore(q, k, n, r) ==
    \A j \in 1..Len(r) :
        DueOf(r)[j] = IF j < k THEN DueOf(q)[j] ELSE IF j = k THEN n ELSE DueOf(q)[j - 1]

LEMMA InsertedDue ==
    ASSUME NEW q \in TimerLists, NEW k \in 1..(Len(q) + 1), NEW p, NEW n \in Nat, NEW r,
           Inserted(q, k, p, n, r)
    PROVE  DueAsBefore(q, k, n, r)
<1>1. PICK d : d = DueOf(q) /\ Sums(q, Len(q), d)
  BY DueSums
<1>2. PICK m \in Nat : m = Len(q) /\ k \in 1..(m + 1) /\ Len(r) = m + 1
  <2>1. Len(q) \in Nat
    BY DEF TimerLists
  <2>2. Len(r) = Len(q) + 1
    BY DEF Inserted
  <2> QED
    BY <2>1, <2>2
<1>3. /\ d \in [0..m -> Nat] /\ d[0] = 0
      /\ \A h \in 1..m : d[h] = d[h - 1] + q[h].expires
  BY <1>1, <1>2 DEF Sums
<1>4. \A h \in 1..m : q[h].expires \in Nat
  BY <1>2, TimerRecord
<1> DEFINE e == [h \in 0..(m + 1) |-> IF h < k THEN d[h] ELSE IF h = k THEN n ELSE d[h - 1]]
<1>5. e \in [0..(m + 1) -> Nat] /\ e[0] = 0
  BY <1>2, <1>3
<1>6. ASSUME NEW h \in 1..(m + 1) PROVE e[h] = e[h - 1] + r[h].expires
  <2>1. r[h].expires = IF h < k THEN q[h].expires
                       ELSE IF h = k THEN n - d[k - 1]
                       ELSE IF h = k + 1 THEN q[k].expires - (n - d[k - 1])
                       ELSE q[h - 1].expires
    BY <1>1, <1>2 DEF Inserted
  <2>2. CASE h < k
    BY <1>2, <1>3, <2>1, <2>2
  <2>3. CASE h = k
    <3>1. e[h] = n /\ e[h - 1] = d[k - 1] /\ r[h].expires = n - d[k - 1]
      BY <1>2, <2>1, <2>3
    <3>2. PICK u \in Nat : u = d[k - 1]
      BY <1>2, <1>3
    <3> HIDE DEF e
    <3> QED
      BY <3>1, <3>2
  <2>4. CASE h = k + 1
    <3>1. e[h] = d[k] /\ e[h - 1] = n /\ r[h].expires = q[k].expires - (n - d[k - 1])
      BY <1>2, <2>1, <2>4
    <3>2. k \in 1..m
      BY <1>2, <2>4
    <3>3. PICK u \in Nat, w \in Nat : u = d[k - 1] /\ w = q[k].expires /\ d[k] = u + w
      <4>1. d[k - 1] \in Nat /\ q[k].expires \in Nat
        BY <1>3, <1>4, <3>2
      <4>2. d[k] = d[k - 1] + q[k].expires
        BY <1>3, <3>2
      <4> QED
        BY <4>1, <4>2
    <3> HIDE DEF e
    <3> QED
      BY <3>1, <3>3, SMTT(30)
  <2>5. CASE h > k + 1
    <3>1. e[h] = d[h - 1] /\ e[h - 1] = d[(h - 1) - 1] /\ r[h].expires = q[h - 1].expires
      BY <1>2, <2>1, <2>5
    <3>2. PICK g \in 1..m : g = h - 1
      BY <1>2, <2>5
    <3>3. d[g] = d[g - 1] + q[g].expires
      BY <1>3
    <3> HIDE DEF e
    <3> QED
      BY <3>1, <3>2, <3>3
  <2> QED
    BY <1>2, <2>2, <2>3, <2>4, <2>5
<1> HIDE DEF e
<1>7. Sums(r, Len(r), e)
  BY <1>2, <1>5, <1>6 DEF Sums
<1>8. DueOf(r) = e
  <2>1. r \in TimerLists /\ Len(r) \in Nat
    BY <1>2 DEF Inserted
  <2>2. Sums(r, Len(r), DueOf(r))
    BY <2>1, DueSums
  <2> QED
    BY <1>7, <2>1, <2>2, SumsUnique
<1> QED
  BY <1>1, <1>2, <1>8 DEF e, DueAsBefore

-----------------------------------------------------------------------------
(* A process has one timer.                                                *)
Once(q) == \A h, j \in 1..Len(q) : q[h].proc = q[j].proc => h = j

(* The inductive invariant: besides, the head has time left between ticks. *)
TimerInv ==
    /\ timer_list \in TimerLists
    /\ in_tick \in BOOLEAN
    /\ Once(timer_list)
    /\ ~in_tick /\ timer_list # <<>> => timer_list[1].expires > 0

(* Ticks left for each process, as Timers has them.                        *)
Left == [p \in TimerProcs |-> IF TimerLinked(p) THEN Due(Position(p)) ELSE 0 - 1]

(* f is what the list q means.                                             *)
Shows(q, f) ==
    /\ f = [p \in TimerProcs |-> f[p]]
    /\ \A j \in 1..Len(q) : q[j].proc \in TimerProcs /\ f[q[j].proc] = DueOf(q)[j]
    /\ \A p \in TimerProcs : (\A j \in 1..Len(q) : q[j].proc # p) => f[p] = 0 - 1

LeftOf(q) ==
    [p \in TimerProcs |-> IF \E j \in DOMAIN q : q[j].proc = p
                          THEN DueOf(q)[CHOOSE j \in DOMAIN q : q[j].proc = p] ELSE 0 - 1]

LEMMA LeftShown ==
    ASSUME NEW q \in TimerLists, Once(q)
    PROVE  Shows(q, LeftOf(q))
<1>1. DOMAIN q = 1..Len(q)
  BY DEF TimerLists
<1>2. ASSUME NEW j \in 1..Len(q)
      PROVE  /\ q[j].proc \in TimerProcs
             /\ LeftOf(q)[q[j].proc] = DueOf(q)[j]
  <2>1. PICK p \in TimerProcs : p = q[j].proc
    BY TimerRecord
  <2>2. PICK k : k = CHOOSE h \in DOMAIN q : q[h].proc = p
    OBVIOUS
  <2>3. k \in DOMAIN q /\ q[k].proc = p
    BY <1>1, <2>1, <2>2
  <2>4. k = j
    BY <1>1, <2>1, <2>3 DEF Once
  <2> QED
    BY <1>1, <2>1, <2>2, <2>4 DEF LeftOf
<1>3. ASSUME NEW p \in TimerProcs, \A j \in 1..Len(q) : q[j].proc # p
      PROVE  LeftOf(q)[p] = 0 - 1
  BY <1>1, <1>3 DEF LeftOf
<1>4. LeftOf(q) = [p \in TimerProcs |-> LeftOf(q)[p]]
  BY DEF LeftOf
<1> QED
  BY <1>2, <1>3, <1>4 DEF Shows

LEMMA LeftIs == Left = LeftOf(timer_list) /\ Left' = LeftOf(timer_list')
BY DEF Left, LeftOf, TimerLinked, Due, Position

(* The time left of a timer is not negative.                               *)
LEMMA DueNat ==
    ASSUME NEW q \in TimerLists, NEW j \in 1..Len(q)
    PROVE  DueOf(q)[j] \in Nat
<1>1. DueOf(q) \in [0..Len(q) -> Nat]
  BY DueSums DEF Sums
<1>2. j \in 0..Len(q)
  BY DEF TimerLists
<1> QED
  BY <1>1, <1>2

LEMMA DropOnce ==
    ASSUME NEW q \in TimerLists, Once(q), NEW k \in 1..Len(q), NEW r, Dropped(q, k, r)
    PROVE  Once(r)
<1>1. PICK n \in Nat : n = Len(q) /\ k \in 1..n /\ Len(r) = n - 1
  BY DEF TimerLists, Dropped
<1>2. \A j \in 1..(n - 1) : r[j].proc = IF j < k THEN q[j].proc ELSE q[j + 1].proc
  BY <1>1 DEF Dropped
<1>3. \A h, j \in 1..n : q[h].proc = q[j].proc => h = j
  BY <1>1 DEF Once
<1>11. ASSUME NEW h \in 1..(n - 1), NEW j \in 1..(n - 1), r[h].proc = r[j].proc
      PROVE  h = j
  <2>1. PICK a \in 1..n : r[h].proc = q[a].proc /\ a = IF h < k THEN h ELSE h + 1
    BY <1>1, <1>2
  <2>2. PICK b \in 1..n : r[j].proc = q[b].proc /\ b = IF j < k THEN j ELSE j + 1
    BY <1>1, <1>2
  <2>3. a = b
    BY <1>3, <1>11, <2>1, <2>2
  <2> QED
    BY <1>1, <2>1, <2>2, <2>3
<1> QED
  BY <1>1, <1>11 DEF Once

LEMMA DropShown ==
    ASSUME NEW q \in TimerLists, Once(q), NEW k \in 1..Len(q), NEW r, Dropped(q, k, r),
           NEW f, Shows(q, f), NEW g, Shows(r, g)
    PROVE  g = [f EXCEPT ![q[k].proc] = 0 - 1]
<1>1. PICK n \in Nat : n = Len(q) /\ k \in 1..n /\ Len(r) = n - 1
  BY DEF TimerLists, Dropped
<1>2. \A j \in 1..(n - 1) : r[j].proc = IF j < k THEN q[j].proc ELSE q[j + 1].proc
  BY <1>1 DEF Dropped
<1>3. \A h, j \in 1..n : q[h].proc = q[j].proc => h = j
  BY <1>1 DEF Once
<1>5. ASSUME NEW p \in TimerProcs
      PROVE  g[p] = IF p = q[k].proc THEN 0 - 1 ELSE f[p]
  <2>1. CASE p = q[k].proc
    <3>1. ASSUME NEW j \in 1..(n - 1) PROVE r[j].proc # p
      <4>1. PICK a \in 1..n : r[j].proc = q[a].proc /\ a = IF j < k THEN j ELSE j + 1
        BY <1>1, <1>2
      <4>2. a # k
        BY <1>1, <4>1
      <4> QED
        BY <1>1, <1>3, <2>1, <4>1, <4>2
    <3> QED
      BY <1>1, <2>1, <3>1 DEF Shows
  <2>2. ASSUME NEW h \in 1..n, p = q[h].proc, h # k
        PROVE  g[p] = f[p]
    <3>1. f[p] = DueOf(q)[h]
      BY <1>1, <2>2 DEF Shows
    <3>2. PICK j \in 1..(n - 1) : h = IF j < k THEN j ELSE j + 1
      <4>1. CASE h < k
        BY <1>1, <4>1
      <4>2. CASE h > k
        <5>1. h - 1 \in 1..(n - 1) /\ h = (h - 1) + 1 /\ ~(h - 1 < k)
          BY <1>1, <4>2
        <5> QED
          BY <5>1
      <4> QED
        BY <1>1, <2>2, <4>1, <4>2
    <3>3. r[j].proc = p
      BY <1>2, <2>2, <3>2
    <3>4. DueOf(r)[j] = DueOf(q)[h]
      BY <1>1, <3>2, DroppedDue
    <3>5. g[p] = DueOf(r)[j]
      BY <1>1, <3>3 DEF Shows
    <3> QED
      BY <3>1, <3>4, <3>5
  <2>3. CASE \A h \in 1..n : q[h].proc # p
    <3>1. \A j \in 1..(n - 1) : r[j].proc # p
      BY <1>1, <1>2, <2>3
    <3>2. g[p] = 0 - 1 /\ f[p] = 0 - 1
      BY <1>1, <2>3, <3>1 DEF Shows
    <3> QED
      BY <1>1, <2>3, <3>2
  <2> QED
    BY <1>1, <2>1, <2>2, <2>3
<1>6. g = [p \in TimerProcs |-> g[p]] /\ f = [p \in TimerProcs |-> f[p]]
  BY DEF Shows
<1>7. q[k].proc \in TimerProcs
  BY <1>1 DEF Shows
<1> QED
  BY <1>5, <1>6, <1>7

LEMMA InsertOnce ==
    ASSUME NEW q \in TimerLists, Once(q), NEW k \in 1..(Len(q) + 1),
           NEW x, \A j \in 1..Len(q) : q[j].proc # x,
           NEW n, NEW r, Inserted(q, k, x, n, r)
    PROVE  Once(r)
<1>1. PICK m \in Nat : m = Len(q) /\ k \in 1..(m + 1) /\ Len(r) = m + 1
  BY DEF TimerLists, Inserted
<1>2. \A j \in 1..(m + 1) :
         r[j].proc = IF j < k THEN q[j].proc ELSE IF j = k THEN x ELSE q[j - 1].proc
  BY <1>1 DEF Inserted
<1>3. /\ \A h, j \in 1..m : q[h].proc = q[j].proc => h = j
      /\ \A h \in 1..m : q[h].proc # x
  BY <1>1 DEF Once
<1>4. ASSUME NEW j \in 1..(m + 1), j # k
      PROVE  \E a \in 1..m : r[j].proc = q[a].proc /\ a = IF j < k THEN j ELSE j - 1
  BY <1>1, <1>2, <1>4
<1>5. r[k].proc = x
  BY <1>1, <1>2
<1>11. ASSUME NEW h \in 1..(m + 1), NEW j \in 1..(m + 1), r[h].proc = r[j].proc
      PROVE  h = j
  <2>1. CASE h = k \/ j = k
    BY <1>3, <1>4, <1>5, <1>11, <2>1
  <2>2. CASE h # k /\ j # k
    <3>1. PICK a \in 1..m : r[h].proc = q[a].proc /\ a = IF h < k THEN h ELSE h - 1
      BY <1>4, <2>2
    <3>2. PICK b \in 1..m : r[j].proc = q[b].proc /\ b = IF j < k THEN j ELSE j - 1
      BY <1>4, <2>2
    <3>3. a = b
      BY <1>3, <1>11, <3>1, <3>2
    <3> QED
      BY <1>1, <2>2, <3>1, <3>2, <3>3
  <2> QED
    BY <2>1, <2>2
<1> QED
  BY <1>1, <1>11 DEF Once

LEMMA InsertShown ==
    ASSUME NEW q \in TimerLists, Once(q), NEW k \in 1..(Len(q) + 1),
           NEW x \in TimerProcs, \A j \in 1..Len(q) : q[j].proc # x,
           NEW n \in Nat, NEW r, Inserted(q, k, x, n, r),
           NEW f, Shows(q, f), NEW g, Shows(r, g)
    PROVE  g = [f EXCEPT ![x] = n]
<1>1. PICK m \in Nat : m = Len(q) /\ k \in 1..(m + 1) /\ Len(r) = m + 1
  BY DEF TimerLists, Inserted
<1>2. \A j \in 1..(m + 1) :
         r[j].proc = IF j < k THEN q[j].proc ELSE IF j = k THEN x ELSE q[j - 1].proc
  BY <1>1 DEF Inserted
<1>3. /\ \A h, j \in 1..m : q[h].proc = q[j].proc => h = j
      /\ \A h \in 1..m : q[h].proc # x
  BY <1>1 DEF Once
<1>4. ASSUME NEW j \in 1..(m + 1), j # k
      PROVE  \E a \in 1..m : r[j].proc = q[a].proc /\ a = IF j < k THEN j ELSE j - 1
  BY <1>1, <1>2, <1>4
<1>5. r[k].proc = x
  BY <1>1, <1>2
<1>6. \A j \in 1..(m + 1) : DueOf(r)[j] = IF j < k THEN DueOf(q)[j]
                                           ELSE IF j = k THEN n ELSE DueOf(q)[j - 1]
  <2>1. DueAsBefore(q, k, n, r)
    BY InsertedDue
  <2> QED
    BY <1>1, <2>1 DEF DueAsBefore
<1>7. ASSUME NEW p \in TimerProcs PROVE g[p] = IF p = x THEN n ELSE f[p]
  <2>1. CASE p = x
    <3>1. g[p] = DueOf(r)[k]
      BY <1>1, <1>5, <2>1 DEF Shows
    <3>2. DueOf(r)[k] = n
      BY <1>1, <1>6
    <3> QED
      BY <2>1, <3>1, <3>2
  <2>2. ASSUME NEW h \in 1..m, p = q[h].proc
        PROVE  g[p] = f[p] /\ p # x
    <3>1. f[p] = DueOf(q)[h]
      BY <1>1, <2>2 DEF Shows
    <3>2. PICK j \in 1..(m + 1) : j # k /\ h = IF j < k THEN j ELSE j - 1
      <4>1. CASE h < k
        BY <1>1, <4>1
      <4>2. CASE h >= k
        <5>1. h + 1 \in 1..(m + 1) /\ h = (h + 1) - 1 /\ ~(h + 1 < k) /\ h + 1 # k
          BY <1>1, <4>2
        <5> QED
          BY <5>1
      <4> QED
        BY <1>1, <4>1, <4>2
    <3>3. r[j].proc = p
      BY <1>1, <1>2, <2>2, <3>2
    <3>4. DueOf(r)[j] = DueOf(q)[h]
      BY <1>1, <1>6, <3>2
    <3>5. g[p] = DueOf(r)[j]
      BY <1>1, <3>3 DEF Shows
    <3> QED
      BY <1>3, <2>2, <3>1, <3>4, <3>5
  <2>3. CASE p # x /\ \A h \in 1..m : q[h].proc # p
    <3>1. \A j \in 1..(m + 1) : r[j].proc # p
      BY <1>4, <1>5, <2>3
    <3>2. g[p] = 0 - 1 /\ f[p] = 0 - 1
      BY <1>1, <2>3, <3>1 DEF Shows
    <3> QED
      BY <2>3, <3>2
  <2> QED
    BY <2>1, <2>2, <2>3
<1>8. g = [p \in TimerProcs |-> g[p]] /\ f = [p \in TimerProcs |-> f[p]]
  BY DEF Shows
<1> QED
  BY <1>7, <1>8

(* A tick: only the head is touched, every timer is one tick nearer.       *)
LEMMA TickShown ==
    ASSUME NEW q \in TimerLists, Once(q), q # <<>>, q[1].expires > 0,
           NEW r, r = [q EXCEPT ![1].expires = @ - 1]
    PROVE  /\ r \in TimerLists /\ Once(r)
           /\ \A f, g : Shows(q, f) /\ Shows(r, g) =>
                 g = [p \in TimerProcs |-> IF f[p] = 0 - 1 THEN 0 - 1 ELSE f[p] - 1]
<1> DEFINE R == [proc : TimerProcs, expires : Nat]
<1>0. q \in Seq(R)
  BY DEF TimerLists
<1>1. PICK n \in Nat : n = Len(q) /\ DOMAIN q = 1..n /\ n > 0
  <2> HIDE DEF R
  <2>1. Len(q) \in Nat \ {0} /\ DOMAIN q = 1..Len(q)
    BY <1>0, EmptySeq, LenProperties
  <2> QED
    BY <2>1
<1>2. \A j \in 1..n : q[j] \in R /\ q[j].expires \in Nat
  <2>1. \A j \in 1..n : q[j].expires \in Nat
    BY <1>1, TimerRecord
  <2> HIDE DEF R
  <2>3. \A j \in 1..n : q[j] \in R
    BY <1>0, <1>1, ElementOfSeq
  <2> QED
    BY <2>1, <2>3
<1>3. PICK x \in R : /\ x = [q[1] EXCEPT !.expires = @ - 1]
                     /\ x.proc = q[1].proc /\ x.expires = q[1].expires - 1
  <2>1. q[1] \in R /\ q[1].expires \in Nat
    BY <1>1, <1>2
  <2>2. PICK y \in Nat : y = q[1].expires - 1
    BY <2>1
  <2>3. [q[1] EXCEPT !.expires = @ - 1] = [proc |-> q[1].proc, expires |-> y]
    BY <2>1, <2>2
  <2>4. q[1].proc \in TimerProcs
    BY <2>1
  <2> QED
    BY <2>2, <2>3, <2>4
<1>4. r = [q EXCEPT ![1] = x]
  BY <1>3
<1> HIDE DEF R
<1>5. q = [j \in 1..n |-> q[j]]
  BY <1>1, SeqDef DEF TimerLists
<1>6. r = [j \in 1..n |-> IF j = 1 THEN x ELSE q[j]]
  BY <1>4, <1>5
<1>7. r \in [1..n -> R]
  BY <1>2, <1>6
<1>8. r \in Seq(R) /\ Len(r) = n
  <2>1. r \in Seq(R)
    BY <1>7, SeqDef
  <2> QED
    BY <1>1, <1>7, <2>1, LenProperties
<1>9. r \in TimerLists
  BY <1>8 DEF TimerLists, R
<1>10. \A j \in 1..n : r[j].proc = q[j].proc
  BY <1>3, <1>6
<1>11. Once(r)
  BY <1>1, <1>8, <1>10 DEF Once
<1>12. PICK d : d = DueOf(q) /\ Sums(q, n, d)
  BY <1>1, DueSums
<1>13. /\ d \in [0..n -> Nat] /\ d[0] = 0
       /\ \A j \in 1..n : d[j] = d[j - 1] + q[j].expires
  BY <1>12 DEF Sums
<1> DEFINE e == [j \in 0..n |-> IF j = 0 THEN 0 ELSE d[j] - 1]
<1>14. \A j \in 1..n : d[j] > 0 /\ d[j] \in Nat
  <2>1. d[1] = d[0] + q[1].expires /\ q[1].expires \in Nat
    BY <1>1, <1>2, <1>13
  <2>2. d[1] > 0
    BY <1>13, <2>1
  <2>3. ASSUME NEW j \in 1..n PROVE d[1] <= d[j]
    <3>1. 1 \in 0..Len(q) /\ j \in 0..Len(q) /\ 1 <= j
      BY <1>1
    <3> QED
      BY <1>12, <3>1, DueMonotone
  <2>4. \A j \in 1..n : d[j] \in Nat
    BY <1>13
  <2> QED
    BY <1>1, <2>2, <2>3, <2>4
<1>15. e \in [0..n -> Nat] /\ e[0] = 0
  BY <1>14
<1>16. ASSUME NEW j \in 1..n PROVE e[j] = e[j - 1] + r[j].expires
  <2>1. e[j] = d[j] - 1 /\ d[j] \in Nat /\ d[j] = d[j - 1] + q[j].expires
    BY <1>13
  <2>2. CASE j = 1
    <3>1. e[j - 1] = 0 /\ d[j - 1] = 0 /\ r[j].expires = q[1].expires - 1
      BY <1>3, <1>6, <1>13, <2>2
    <3>2. q[1].expires \in Nat
      BY <1>1, <1>2
    <3> HIDE DEF e
    <3> QED
      BY <2>1, <2>2, <3>1, <3>2
  <2>3. CASE j # 1
    <3>1. e[j - 1] = d[j - 1] - 1 /\ d[j - 1] \in Nat /\ r[j].expires = q[j].expires
      BY <1>6, <1>13, <2>3
    <3>2. q[j].expires \in Nat
      BY <1>2
    <3> HIDE DEF e
    <3> QED
      BY <2>1, <3>1, <3>2
  <2> QED
    BY <2>2, <2>3
<1> HIDE DEF e
<1>17. DueOf(r) = e
  <2>1. Sums(r, n, e)
    BY <1>15, <1>16 DEF Sums
  <2>2. Sums(r, n, DueOf(r))
    BY <1>8, <1>9, DueSums
  <2> QED
    BY <1>9, <2>1, <2>2, SumsUnique
<1>18. ASSUME NEW f, NEW g, Shows(q, f), Shows(r, g)
       PROVE  g = [p \in TimerProcs |-> IF f[p] = 0 - 1 THEN 0 - 1 ELSE f[p] - 1]
  <2>1. ASSUME NEW p \in TimerProcs
        PROVE  g[p] = IF f[p] = 0 - 1 THEN 0 - 1 ELSE f[p] - 1
    <3>1. ASSUME NEW j \in 1..n, q[j].proc = p
          PROVE  g[p] = f[p] - 1 /\ f[p] # 0 - 1
      <4>1. f[p] = d[j] /\ g[p] = e[j]
        BY <1>1, <1>8, <1>10, <1>12, <1>17, <1>18, <3>1 DEF Shows
      <4>2. e[j] = d[j] - 1
        BY DEF e
      <4>3. d[j] \in Nat
        BY <1>14
      <4> QED
        BY <4>1, <4>2, <4>3
    <3>2. CASE \A j \in 1..n : q[j].proc # p
      <4>1. f[p] = 0 - 1 /\ g[p] = 0 - 1
        BY <1>1, <1>8, <1>10, <1>18, <3>2 DEF Shows
      <4> QED
        BY <4>1
    <3> QED
      BY <3>1, <3>2
  <2>2. g = [p \in TimerProcs |-> g[p]]
    BY <1>18 DEF Shows
  <2>3. [p \in TimerProcs |-> g[p]]
          = [p \in TimerProcs |-> IF f[p] = 0 - 1 THEN 0 - 1 ELSE f[p] - 1]
    BY <2>1
  <2> QED
    BY <2>2, <2>3
<1> QED
  BY <1>9, <1>11, <1>18

-----------------------------------------------------------------------------
(* One step of the list: the invariant is kept, and Left changes as Timers *)
(* says.                                                                   *)
LEMMA AddTimerStep ==
    ASSUME DeltaTimersAssumption, TimerInv, NEW p \in TimerProcs, NEW n \in Times,
           add_timer(p, n)
    PROVE  TimerInv' /\ Left[p] = 0 - 1 /\ Left' = [Left EXCEPT ![p] = n]
<1>1. n \in Nat /\ n > 0
  BY DEF DeltaTimersAssumption
<1>2. PICK q \in TimerLists : q = timer_list /\ Once(q)
  BY DEF TimerInv
<1>3. PICK k \in 1..(Len(q) + 1) : k = Place(n)
  BY <1>1, <1>2, PlaceFound
<1>4. PICK r : r = timer_list' /\ Inserted(q, k, p, n, r)
  BY <1>1, <1>2, <1>3, AddInserts
<1>5. ~in_tick /\ in_tick' = in_tick /\ ~TimerLinked(p)
  BY DEF add_timer
<1>6. \A j \in 1..Len(q) : q[j].proc # p
  BY <1>2, <1>5 DEF TimerLinked, TimerLists
<1>7. PICK f : f = Left /\ Shows(q, f)
  BY <1>2, LeftShown, LeftIs
<1>8. r \in TimerLists /\ Len(q) \in Nat /\ Len(r) = Len(q) + 1
  BY <1>4 DEF Inserted, TimerLists
<1>9. Once(r)
  BY <1>2, <1>3, <1>4, <1>6, InsertOnce
<1>10. PICK g : g = Left' /\ Shows(r, g)
  BY <1>4, <1>8, <1>9, LeftShown, LeftIs
<1>11. g = [f EXCEPT ![p] = n]
  BY <1>1, <1>2, <1>4, <1>6, <1>7, <1>10, InsertShown
<1>12. f[p] = 0 - 1
  BY <1>6, <1>7 DEF Shows
<1>13. timer_list'[1].expires > 0
  <2>1. r[1].expires = IF 1 < k THEN q[1].expires
                       ELSE IF 1 = k THEN n - DueOf(q)[k - 1]
                       ELSE IF 1 = k + 1 THEN q[k].expires - (n - DueOf(q)[k - 1])
                       ELSE q[1 - 1].expires
    BY <1>4, <1>8 DEF Inserted
  <2>2. CASE k = 1
    <3>1. DueOf(q)[0] = 0
      BY DueSums DEF Sums
    <3> QED
      BY <1>1, <1>4, <2>1, <2>2, <3>1
  <2>3. CASE k # 1
    <3>1. r[1].expires = q[1].expires /\ q # <<>>
      BY <1>8, <2>1, <2>3
    <3> QED
      BY <1>2, <1>4, <1>5, <3>1 DEF TimerInv
  <2> QED
    BY <2>2, <2>3
<1> QED
  BY <1>4, <1>5, <1>7, <1>8, <1>9, <1>10, <1>11, <1>12, <1>13 DEF TimerInv, Once

(* A timer leaves the list, in del_timer or because it has expired.        *)
LEMMA UnlinkStep ==
    ASSUME TimerInv, NEW k \in 1..Len(timer_list), timer_list' = Unlinked(k),
           in_tick' = in_tick
    PROVE  TimerInv' /\ Left' = [Left EXCEPT ![timer_list[k].proc] = 0 - 1]
<1>1. PICK q \in TimerLists : q = timer_list /\ Once(q) /\ k \in 1..Len(q)
  BY DEF TimerInv
<1>2. PICK r : r = timer_list' /\ Dropped(q, k, r)
  BY <1>1, UnlinkedDrops
<1>3. PICK f : f = Left /\ Shows(q, f)
  BY <1>1, LeftShown, LeftIs
<1>4. r \in TimerLists /\ Len(q) \in Nat /\ Len(r) = Len(q) - 1
  BY <1>1, <1>2 DEF Dropped, TimerLists
<1>5. Once(r)
  BY <1>1, <1>2, DropOnce
<1>6. PICK g : g = Left' /\ Shows(r, g)
  BY <1>2, <1>4, <1>5, LeftShown, LeftIs
<1>7. g = [f EXCEPT ![q[k].proc] = 0 - 1]
  BY <1>1, <1>2, <1>3, <1>6, DropShown
<1>8. ASSUME ~in_tick, timer_list' # <<>> PROVE timer_list'[1].expires > 0
  <2>1. Len(r) > 0
    BY <1>2, <1>4, <1>8 DEF TimerLists
  <2>2. r[1].expires = IF 1 < k THEN q[1].expires
                       ELSE IF 1 = k THEN q[k + 1].expires + q[k].expires
                       ELSE q[1 + 1].expires
    BY <1>2, <1>4, <2>1 DEF Dropped
  <2>3. q[1].expires > 0
    <3>1. q # <<>>
      BY <1>4, <2>1
    <3> QED
      BY <1>1, <1>8, <3>1 DEF TimerInv
  <2>4. q[2].expires \in Nat /\ q[1].expires \in Nat
    <3>1. 1 \in 1..Len(q) /\ 2 \in 1..Len(q)
      BY <1>4, <2>1
    <3> QED
      BY <3>1, TimerRecord
  <2>5. r[1].expires > 0
    <3>1. CASE k = 1
      BY <2>2, <2>3, <2>4, <3>1
    <3>2. CASE k # 1
      BY <1>1, <2>2, <2>3, <3>2
    <3> QED
      BY <3>1, <3>2
  <2> QED
    BY <1>2, <2>5
<1> QED
  BY <1>1, <1>2, <1>3, <1>4, <1>5, <1>6, <1>7, <1>8 DEF TimerInv, Once

LEMMA DelTimerStep ==
    ASSUME TimerInv, NEW p \in TimerProcs, del_timer(p)
    PROVE  TimerInv' /\ Left' = [Left EXCEPT ![p] = 0 - 1]
<1>1. CASE TimerLinked(p)
  <2>1. PICK k : k = Position(p)
    OBVIOUS
  <2>2. k \in DOMAIN timer_list /\ timer_list[k].proc = p
    BY <1>1, <2>1 DEF TimerLinked, Position
  <2>3. k \in 1..Len(timer_list)
    BY <2>2 DEF TimerInv, TimerLists
  <2>4. timer_list' = Unlinked(k) /\ in_tick' = in_tick
    BY <1>1, <2>1 DEF del_timer
  <2> QED
    BY <2>2, <2>3, <2>4, UnlinkStep
<1>2. CASE ~TimerLinked(p)
  <2>1. timer_list' = timer_list /\ in_tick' = in_tick
    BY <1>2 DEF del_timer
  <2>2. Left' = Left
    BY <2>1 DEF Left, TimerLinked, Due, Position
  <2>3. Left[p] = 0 - 1
    BY <1>2 DEF Left
  <2>4. [Left EXCEPT ![p] = 0 - 1] = Left
    BY <2>3 DEF Left
  <2> QED
    BY <2>1, <2>2, <2>4 DEF TimerInv, Once
<1> QED
  BY <1>1, <1>2

LEMMA TickBeginStep ==
    ASSUME TimerInv, tick_begin
    PROVE  /\ TimerInv' /\ ~in_tick /\ in_tick'
           /\ Left' = [p \in TimerProcs |-> IF Left[p] = 0 - 1 THEN 0 - 1 ELSE Left[p] - 1]
<1>1. ~in_tick /\ in_tick' = TRUE
  BY DEF tick_begin
<1>2. PICK q \in TimerLists : q = timer_list /\ Once(q)
  BY DEF TimerInv
<1>3. PICK f : f = Left /\ Shows(q, f)
  BY <1>2, LeftShown, LeftIs
<1>4. CASE q = <<>>
  <2>1. timer_list' = timer_list
    BY <1>2, <1>4 DEF tick_begin
  <2>2. Left' = Left
    BY <2>1 DEF Left, TimerLinked, Due, Position
  <2>3. \A p \in TimerProcs : f[p] = 0 - 1
    BY <1>3, <1>4 DEF Shows
  <2>4. f = [p \in TimerProcs |-> f[p]]
    BY <1>3 DEF Shows
  <2>5. f = [p \in TimerProcs |-> IF f[p] = 0 - 1 THEN 0 - 1 ELSE f[p] - 1]
    BY <2>3, <2>4
  <2> QED
    BY <1>1, <1>2, <1>3, <2>1, <2>2, <2>5 DEF TimerInv, Once
<1>5. CASE q # <<>>
  <2>1. q[1].expires > 0
    BY <1>1, <1>2, <1>5 DEF TimerInv
  <2>2. PICK r : r = timer_list' /\ r = [q EXCEPT ![1].expires = @ - 1]
    BY <1>2, <1>5 DEF tick_begin
  <2>3. /\ r \in TimerLists /\ Once(r)
        /\ \A ff, gg : Shows(q, ff) /\ Shows(r, gg) =>
              gg = [p \in TimerProcs |-> IF ff[p] = 0 - 1 THEN 0 - 1 ELSE ff[p] - 1]
    BY <1>2, <1>5, <2>1, <2>2, TickShown
  <2>4. Shows(r, Left')
    BY <2>2, <2>3, LeftShown, LeftIs
  <2>5. Left' = [p \in TimerProcs |-> IF f[p] = 0 - 1 THEN 0 - 1 ELSE f[p] - 1]
    BY <1>3, <2>3, <2>4
  <2>6. TimerInv'
    BY <1>1, <2>2, <2>3 DEF TimerInv, Once
  <2> QED
    BY <1>1, <1>3, <2>5, <2>6
<1> QED
  BY <1>4, <1>5

LEMMA TickFireStep ==
    ASSUME TimerInv, tick_fire
    PROVE  /\ TimerInv' /\ in_tick /\ in_tick' = in_tick
           /\ \E p \in TimerProcs : Left[p] = 0 /\ Left' = [Left EXCEPT ![p] = 0 - 1]
<1>1. /\ in_tick /\ in_tick' = in_tick /\ timer_list' = Unlinked(1)
      /\ timer_list # <<>> /\ Head(timer_list).expires = 0
  BY DEF tick_fire, HeadExpired
<1>2. PICK q \in TimerLists : q = timer_list /\ Once(q)
  BY DEF TimerInv
<1>3. 1 \in 1..Len(q) /\ Head(q) = q[1]
  BY <1>1, <1>2 DEF TimerLists
<1>4. DueOf(q)[1] = 0
  <2>1. DueOf(q)[0] = 0 /\ DueOf(q)[1] = DueOf(q)[1 - 1] + q[1].expires
    BY <1>3, DueSums DEF Sums
  <2> QED
    BY <1>1, <1>2, <1>3, <2>1
<1>5. PICK p \in TimerProcs : p = timer_list[1].proc
  BY <1>2, <1>3, TimerRecord
<1>6. Left[p] = 0
  BY <1>2, <1>3, <1>4, <1>5, LeftShown, LeftIs DEF Shows
<1>7. TimerInv' /\ Left' = [Left EXCEPT ![p] = 0 - 1]
  BY <1>1, <1>2, <1>3, <1>5, UnlinkStep
<1> QED
  BY <1>1, <1>6, <1>7

LEMMA TickEndStep ==
    ASSUME TimerInv, tick_end
    PROVE  /\ TimerInv' /\ in_tick /\ in_tick' = FALSE /\ Left' = Left
           /\ \A p \in TimerProcs : Left[p] # 0
<1>1. in_tick /\ in_tick' = FALSE /\ timer_list' = timer_list /\ ~HeadExpired
  BY DEF tick_end
<1>2. PICK q \in TimerLists : q = timer_list /\ Once(q)
  BY DEF TimerInv
<1>3. Left' = Left
  BY <1>1 DEF Left, TimerLinked, Due, Position
<1>4. Shows(q, Left)
  BY <1>2, LeftShown, LeftIs
<1>5. ASSUME q # <<>> PROVE q[1].expires > 0
  <2>1. Len(q) > 0 /\ 1 \in 1..Len(q) /\ Head(q) = q[1]
    BY <1>5 DEF TimerLists
  <2>2. q[1].expires \in Nat
    BY <2>1, TimerRecord
  <2> QED
    BY <1>1, <1>2, <1>5, <2>1, <2>2 DEF HeadExpired
<1>6. ASSUME NEW j \in 1..Len(q) PROVE DueOf(q)[j] # 0
  <2>1. 1 \in 0..Len(q) /\ j \in 0..Len(q) /\ 1 <= j /\ 1 \in 1..Len(q) /\ q # <<>>
    BY DEF TimerLists
  <2>2. DueOf(q)[0] = 0 /\ DueOf(q)[1] = DueOf(q)[1 - 1] + q[1].expires
    BY <2>1, DueSums DEF Sums
  <2>3. DueOf(q)[1] <= DueOf(q)[j]
    BY <2>1, DueMonotone
  <2>4. q[1].expires \in Nat /\ q[1].expires > 0
    BY <1>5, <2>1, TimerRecord
  <2>5. DueOf(q)[j] \in Nat
    BY DueNat
  <2> QED
    BY <2>2, <2>3, <2>4, <2>5
<1>7. ASSUME NEW p \in TimerProcs PROVE Left[p] # 0
  <2>1. CASE \E j \in 1..Len(q) : q[j].proc = p
    BY <1>4, <1>6, <2>1 DEF Shows
  <2>2. CASE \A j \in 1..Len(q) : q[j].proc # p
    <3>1. Left[p] = 0 - 1
      BY <1>4, <2>2 DEF Shows
    <3> QED
      BY <3>1
  <2> QED
    BY <2>1, <2>2
<1>8. TimerInv'
  BY <1>1, <1>2, <1>5 DEF TimerInv, Once
<1> QED
  BY <1>1, <1>3, <1>7, <1>8

-----------------------------------------------------------------------------
(* The timer list of kern/schedule/sched.c does what Timers promises, for  *)
(* any processes and times: whatever add_timer and del_timer do before or  *)
(* after it, a timer expires at the run_timer_list of its own time, and    *)
(* the head has time left at the start of each (the assertion there).      *)
THEOREM TimersRefined ==
    ASSUME DeltaTimersAssumption PROVE TimerListSpec => TimersPromise
<1>1. TimerListInit => TimerInv /\ Promise!TimersInit
  <2> SUFFICES ASSUME TimerListInit PROVE TimerInv /\ Promise!TimersInit
    OBVIOUS
  <2>1. timer_list = <<>> /\ in_tick = FALSE
    BY DEF TimerListInit
  <2>2. TimerInv
    <3>1. <<>> \in TimerLists /\ Len(timer_list) = 0
      BY <2>1, EmptySeq DEF TimerLists
    <3>2. Once(timer_list)
      BY <3>1 DEF Once
    <3> QED
      BY <2>1, <3>1, <3>2 DEF TimerInv
  <2>3. \A p \in TimerProcs : ~TimerLinked(p)
    BY <2>1 DEF TimerLinked
  <2> QED
    BY <2>1, <2>2, <2>3 DEF Promise!TimersInit, Promise!NoTimer
<1>2. TimerInv /\ [TimerListNext]_timer_list_vars
        => TimerInv' /\ [Promise!TimersNext]_<<Left, in_tick>>
  <2> SUFFICES ASSUME TimerInv, [TimerListNext]_timer_list_vars
               PROVE  TimerInv' /\ [Promise!TimersNext]_<<Left, in_tick>>
    OBVIOUS
  <2> USE DEF Promise!NoTimer
  <2>1. ASSUME NEW p \in TimerProcs, del_timer(p)
        PROVE  TimerInv' /\ Promise!TimersNext
    <3>1. TimerInv' /\ Left' = [Left EXCEPT ![p] = 0 - 1] /\ ~in_tick /\ in_tick' = in_tick
      BY <2>1, DelTimerStep DEF del_timer
    <3>2. Promise!del_timer(p)
      BY <3>1 DEF Promise!del_timer, Left
    <3> QED
      BY <3>1, <3>2 DEF Promise!TimersNext
  <2>2. ASSUME NEW p \in TimerProcs, NEW n \in Times, add_timer(p, n)
        PROVE  TimerInv' /\ Promise!TimersNext
    <3>1. /\ TimerInv' /\ Left[p] = 0 - 1 /\ Left' = [Left EXCEPT ![p] = n]
          /\ ~in_tick /\ in_tick' = in_tick
      BY <2>2, AddTimerStep DEF add_timer
    <3>2. Promise!add_timer(p, n)
      BY <3>1 DEF Promise!add_timer, Left
    <3> QED
      BY <3>1, <3>2 DEF Promise!TimersNext, Left
  <2>3. CASE tick_begin
    <3>1. Promise!tick_begin
      BY <2>3, TickBeginStep DEF Promise!tick_begin, Left
    <3> QED
      BY <2>3, <3>1, TickBeginStep DEF Promise!TimersNext
  <2>4. CASE tick_fire
    <3>1. PICK p \in TimerProcs : Left[p] = 0 /\ Left' = [Left EXCEPT ![p] = 0 - 1]
      BY <2>4, TickFireStep
    <3>2. Promise!tick_fire(p)
      BY <2>4, <3>1, TickFireStep DEF Promise!tick_fire, Promise!Expired, Left
    <3> QED
      BY <2>4, <3>2, TickFireStep DEF Promise!TimersNext
  <2>5. CASE tick_end
    <3>1. Promise!tick_end
      BY <2>5, TickEndStep DEF Promise!tick_end, Promise!Expired, Left
    <3> QED
      BY <2>5, <3>1, TickEndStep DEF Promise!TimersNext
  <2>6. CASE UNCHANGED timer_list_vars
    <3>1. timer_list' = timer_list /\ in_tick' = in_tick
      BY <2>6 DEF timer_list_vars
    <3>2. Left' = Left
      BY <3>1 DEF Left, TimerLinked, Due, Position
    <3> QED
      BY <3>1, <3>2 DEF TimerInv, Once
  <2> QED
    BY <2>1, <2>2, <2>3, <2>4, <2>5, <2>6 DEF TimerListNext
<1> QED
  BY <1>1, <1>2, PTL DEF TimerListSpec, TimersPromise, Promise!TimersSpec, Left
=============================================================================
