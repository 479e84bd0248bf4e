----------------------------- MODULE SchedProofs -----------------------------
(***************************************************************************)
(* What the operators of Sched do to the run queue, for any processes and  *)
(* any slice length.  The proofs about the modules that call the scheduler *)
(* cite these lemmas.                                                      *)
(***************************************************************************)
EXTENDS Sched, Wait, SequenceTheorems, FiniteSetTheorems, TLAPS

Distinct(q) == \A i, j \in DOMAIN q : q[i] = q[j] => i = j

(* Queueing a process that is not queued adds it and keeps entries apart.  *)
LEMMA AppendLinked ==
    ASSUME NEW S, NEW q \in Seq(S), NEW x \in S, ~Linked(q, x), Distinct(q)
    PROVE  /\ Append(q, x) \in Seq(S)
           /\ Append(q, x) # <<>>
           /\ Distinct(Append(q, x))
           /\ \A p : Linked(Append(q, x), p) <=> Linked(q, p) \/ p = x
<1> DEFINE r == Append(q, x)
<1>1. /\ r \in Seq(S)
      /\ Len(r) = Len(q) + 1
      /\ Len(q) \in Nat
      /\ DOMAIN r = 1..(Len(q) + 1)
      /\ DOMAIN q = 1..Len(q)
      /\ \A i \in 1..Len(q) : r[i] = q[i]
      /\ r[Len(q) + 1] = x
  OBVIOUS
<1>2. r # <<>>
  BY <1>1
<1>3. Distinct(r)
  BY <1>1 DEF Distinct, Linked
<1>4. ASSUME NEW p PROVE Linked(r, p) <=> Linked(q, p) \/ p = x
  BY <1>1 DEF Linked
<1> QED
  BY <1>1, <1>2, <1>3, <1>4

(* Taking the head of a queue removes that entry and no other.             *)
LEMMA TailLinked ==
    ASSUME NEW S, NEW q \in Seq(S), q # <<>>, Distinct(q)
    PROVE  /\ Tail(q) \in Seq(S)
           /\ Head(q) \in S
           /\ Linked(q, Head(q))
           /\ Distinct(Tail(q))
           /\ \A p : Linked(Tail(q), p) <=> Linked(q, p) /\ p # Head(q)
<1> DEFINE r == Tail(q)
<1>1. /\ r \in Seq(S)
      /\ Head(q) = q[1]
      /\ Head(q) \in S
      /\ Len(q) \in Nat \ {0}
      /\ Len(r) = Len(q) - 1
      /\ DOMAIN q = 1..Len(q)
      /\ DOMAIN r = 1..(Len(q) - 1)
      /\ \A i \in 1..(Len(q) - 1) : r[i] = q[i + 1]
  OBVIOUS
<1>2. Linked(q, Head(q))
  BY <1>1 DEF Linked
<1>3. Distinct(r)
  BY <1>1 DEF Distinct
<1>4. ASSUME NEW p PROVE Linked(r, p) <=> Linked(q, p) /\ p # Head(q)
  <2>1. ASSUME Linked(r, p) PROVE Linked(q, p) /\ p # Head(q)
    BY <1>1, <2>1 DEF Linked, Distinct
  <2>2. ASSUME Linked(q, p), p # Head(q) PROVE Linked(r, p)
    <3>1. PICK i \in DOMAIN q : q[i] = p
      BY <2>2 DEF Linked
    <3>2. i - 1 \in DOMAIN r /\ r[i - 1] = p
      BY <1>1, <2>2, <3>1
    <3> QED
      BY <3>2 DEF Linked
  <2> QED
    BY <2>1, <2>2
<1> QED
  BY <1>1, <1>2, <1>3, <1>4

(* Two queues without common members, one behind the other.                *)
LEMMA ConcatLinked ==
    ASSUME NEW S, NEW q \in Seq(S), NEW r \in Seq(S), Distinct(q), Distinct(r),
           \A p : ~(Linked(q, p) /\ Linked(r, p))
    PROVE  /\ q \o r \in Seq(S)
           /\ Distinct(q \o r)
           /\ \A p : Linked(q \o r, p) <=> Linked(q, p) \/ Linked(r, p)
<1> DEFINE c == q \o r
           n == Len(q)
<1>1. /\ c \in Seq(S)
      /\ n \in Nat /\ Len(r) \in Nat
      /\ DOMAIN c = 1..(n + Len(r))
      /\ DOMAIN q = 1..n
      /\ DOMAIN r = 1..Len(r)
      /\ \A i \in 1..n : c[i] = q[i]
      /\ \A i \in (n + 1)..(n + Len(r)) : c[i] = r[i - n]
  BY ConcatProperties
<1> HIDE DEF c, n
<1>2. \A i \in 1..(n + Len(r)) :
         \/ i \in 1..n
         \/ i \in (n + 1)..(n + Len(r)) /\ i - n \in 1..Len(r)
  BY <1>1
<1>3. ASSUME NEW i \in DOMAIN c, NEW j \in DOMAIN c, c[i] = c[j] PROVE i = j
  <2>1. CASE i \in 1..n /\ j \in 1..n
    BY <1>1, <1>3, <2>1 DEF Distinct
  <2>2. CASE i \in (n + 1)..(n + Len(r)) /\ j \in (n + 1)..(n + Len(r))
    <3>1. i - n \in 1..Len(r) /\ j - n \in 1..Len(r) /\ r[i - n] = r[j - n]
      BY <1>1, <1>3, <2>2
    <3>2. i - n = j - n
      BY <1>1, <3>1 DEF Distinct
    <3> QED
      BY <1>1, <2>2, <3>2
  <2>3. CASE i \in 1..n /\ j \in (n + 1)..(n + Len(r))
    <3>1. Linked(q, c[i]) /\ Linked(r, c[i])
      BY <1>1, <1>2, <1>3, <2>3 DEF Linked
    <3> QED
      BY <3>1
  <2>4. CASE j \in 1..n /\ i \in (n + 1)..(n + Len(r))
    <3>1. Linked(q, c[j]) /\ Linked(r, c[j])
      BY <1>1, <1>2, <1>3, <2>4, SMTT(30) DEF Linked
    <3> QED
      BY <3>1
  <2> QED
    BY <1>1, <1>2, <2>1, <2>2, <2>3, <2>4
<1>4. ASSUME NEW p PROVE Linked(c, p) <=> Linked(q, p) \/ Linked(r, p)
  <2>1. ASSUME Linked(c, p) PROVE Linked(q, p) \/ Linked(r, p)
    BY <1>1, <1>2, <2>1 DEF Linked
  <2>2. ASSUME Linked(q, p) PROVE Linked(c, p)
    BY <1>1, <2>2 DEF Linked
  <2>3. ASSUME Linked(r, p) PROVE Linked(c, p)
    <3>1. PICK j \in 1..Len(r) : r[j] = p
      BY <1>1, <2>3 DEF Linked
    <3>2. n + j \in (n + 1)..(n + Len(r)) /\ (n + j) - n = j
      BY <1>1, <3>1
    <3>3. n + j \in DOMAIN c /\ c[n + j] = p
      BY <1>1, <3>1, <3>2
    <3> QED
      BY <3>3 DEF Linked
  <2> QED
    BY <2>1, <2>2, <2>3
<1> QED
  BY <1>1, <1>3, <1>4 DEF Distinct, c

(* wait_current_del removes one process and keeps the order of the others; *)
(* a process that is not queued any more is not missed.                    *)
LEMMA DelLinked ==
    ASSUME NEW S, NEW q \in Seq(S), NEW x, Distinct(q)
    PROVE  /\ wait_current_del(q, x) \in Seq(S)
           /\ Distinct(wait_current_del(q, x))
           /\ \A p : Linked(wait_current_del(q, x), p) <=> Linked(q, p) /\ p # x
           /\ ~Linked(q, x) => wait_current_del(q, x) = q
<1>1. CASE ~Linked(q, x)
  BY <1>1 DEF wait_current_del, Linked
<1>2. CASE Linked(q, x)
  <2> DEFINE i == CHOOSE i \in DOMAIN q : q[i] = x
             r == [k \in 1..(Len(q) - 1) |-> IF k < i THEN q[k] ELSE q[k + 1]]
  <2>1. /\ wait_current_del(q, x) = r
        /\ i \in DOMAIN q
        /\ q[i] = x
    BY <1>2 DEF wait_current_del, Linked
  <2>2. /\ Len(q) \in Nat \ {0}
        /\ DOMAIN q = 1..Len(q)
        /\ i \in 1..Len(q)
    BY <2>1
  <2> HIDE DEF i
  <2>3. r \in Seq(S)
    <3>1. Len(q) - 1 \in Nat
      BY <2>2
    <3>2. r \in [1..(Len(q) - 1) -> S]
      BY <2>2
    <3> QED
      BY <3>1, <3>2, SeqDef
  <2>4. /\ DOMAIN r = 1..(Len(q) - 1)
        /\ \A k \in 1..(Len(q) - 1) : r[k] = IF k < i THEN q[k] ELSE q[k + 1]
    OBVIOUS
  <2> HIDE DEF r
  <2>5. Distinct(r)
    BY <2>2, <2>4, SMTT(30) DEF Distinct
  <2>6. ASSUME NEW p PROVE Linked(r, p) <=> Linked(q, p) /\ p # x
    <3>1. ASSUME Linked(r, p) PROVE Linked(q, p) /\ p # x
      BY <2>1, <2>2, <2>4, <3>1 DEF Linked, Distinct
    <3>2. ASSUME Linked(q, p), p # x PROVE Linked(r, p)
      <4>1. PICK k \in 1..Len(q) : q[k] = p
        BY <2>2, <3>2 DEF Linked
      <4>2. k # i
        BY <2>1, <3>2, <4>1
      <4>3. CASE k < i
        <5>1. k \in DOMAIN r /\ r[k] = p
          BY <2>2, <2>4, <4>1, <4>3
        <5> QED
          BY <5>1 DEF Linked
      <4>4. CASE k > i
        <5>1. k - 1 \in DOMAIN r /\ r[k - 1] = p
          BY <2>2, <2>4, <4>1, <4>4
        <5> QED
          BY <5>1 DEF Linked
      <4> QED
        BY <2>2, <4>1, <4>2, <4>3, <4>4
    <3> QED
      BY <3>1, <3>2
  <2> QED
    BY <1>2, <2>1, <2>3, <2>5, <2>6
<1> QED
  BY <1>1, <1>2

(* A queue of distinct members as long as the set is large holds them all. *)
LEMMA FullQueue ==
    ASSUME NEW S, IsFiniteSet(S), NEW q \in [1..Cardinality(S) -> S], Distinct(q)
    PROVE  /\ q \in Seq(S)
           /\ \A p : Linked(q, p) <=> p \in S
<1> DEFINE n == Cardinality(S)
<1>1. n \in Nat
  BY FS_CardinalityType
<1>2. IsFiniteSet(1..n) /\ Cardinality(1..n) = n
  BY <1>1, FS_Interval
<1>3. q \in Injection(1..n, S)
  BY DEF Distinct, Injection, IsInjective
<1>4. q \in Surjection(1..n, S)
  BY <1>2, <1>3, FS_Injection
<1>5. q \in Seq(S)
  BY <1>1, SeqDef
<1> QED
  BY <1>4, <1>5 DEF Surjection, Linked

-----------------------------------------------------------------------------
(* RunQueueOK in terms of Linked and Distinct.                             *)
LEMMA RunQueueLinked ==
    RunQueueOK <=> /\ state[idleproc] = "RUNNABLE"
                   /\ Distinct(run_list)
                   /\ \A p \in Procs :
                        Linked(run_list, p)
                            <=> state[p] = "RUNNABLE" /\ p \notin {current, idleproc}
BY DEF RunQueueOK, RunListDistinct, RunListExact, Distinct, Linked

(* RR_enqueue leaves a slice in its range.                                 *)
LEMMA RefillType ==
    ASSUME NEW n \in 0..MaxTimeSlice
    PROVE  Refill(n) \in 0..MaxTimeSlice
BY SchedAssumption DEF Refill

(* The processes other than current and idleproc are as runnable in st as  *)
(* they are now: what a caller of wakeup_proc may have changed before.     *)
SameOthers(st) ==
    /\ st \in [Procs -> States]
    /\ st[idleproc] = "RUNNABLE"
    /\ \A q \in Procs \ {current, idleproc} :
          st[q] = "RUNNABLE" <=> state[q] = "RUNNABLE"

(* wakeup_proc keeps the types and the run queue, whoever calls it for     *)
(* whatever process, woken already or not.                                 *)
LEMMA WakeupKeeps ==
    ASSUME SchedTypeOK, RunQueueOK, NEW p \in Procs, NEW st, SameOthers(st),
           wakeup_proc(st, p), UNCHANGED <<need_resched, current>>
    PROVE  SchedTypeOK' /\ RunQueueOK'
<1>1. CASE st[p] = "RUNNABLE"
  <2>1. SchedTypeOK'
    BY <1>1 DEF SchedTypeOK, wakeup_proc, SameOthers
  <2>2. RunQueueOK'
    BY <1>1 DEF SchedTypeOK, wakeup_proc, SameOthers, RunQueueOK,
                RunListDistinct, RunListExact
  <2> QED
    BY <2>1, <2>2
<1>2. CASE st[p] # "RUNNABLE" /\ p = current
  <2>1. SchedTypeOK'
    BY <1>2 DEF SchedTypeOK, wakeup_proc, SameOthers, States, WaitStates
  <2>2. RunQueueOK'
    BY <1>2, SchedAssumption
       DEF SchedTypeOK, wakeup_proc, SameOthers, RunQueueOK, States,
           RunListDistinct, RunListExact
  <2> QED
    BY <2>1, <2>2
<1>3. CASE st[p] # "RUNNABLE" /\ p # current
  <2>1. p # idleproc
    BY <1>3 DEF SameOthers
  <2>2. ~Linked(run_list, p)
    BY <1>3, <2>1, RunQueueLinked DEF SameOthers
  <2>3. /\ run_list' = Append(run_list, p)
        /\ state' = [st EXCEPT ![p] = "RUNNABLE"]
        /\ wait_state' = [wait_state EXCEPT ![p] = "NONE"]
        /\ time_slice' = [time_slice EXCEPT ![p] = Refill(@)]
    BY <1>3, <2>1 DEF wakeup_proc
  <2>4. /\ Append(run_list, p) \in Seq(Procs)
        /\ Distinct(run_list')
        /\ \A q : Linked(run_list', q) <=> Linked(run_list, q) \/ q = p
    BY <2>2, <2>3, AppendLinked, RunQueueLinked DEF SchedTypeOK
  <2>5. SchedTypeOK'
    BY <2>3, <2>4, RefillType DEF SchedTypeOK, SameOthers, States, WaitStates
  <2>6. /\ state'[idleproc] = "RUNNABLE"
        /\ \A q \in Procs :
              Linked(run_list', q)
                  <=> state'[q] = "RUNNABLE" /\ q \notin {current', idleproc}
    BY <1>3, <2>1, <2>3, <2>4, RunQueueLinked, SchedAssumption DEF SameOthers
  <2>7. RunQueueOK'
    BY <2>4, <2>6
       DEF RunQueueOK, RunListDistinct, RunListExact, Linked, Distinct
  <2> QED
    BY <2>5, <2>7
<1> QED
  BY <1>1, <1>2, <1>3

(* Whether p was asleep or not, it is runnable afterwards and waits for    *)
(* nothing.                                                                *)
LEMMA WakeupEffect ==
    ASSUME SchedTypeOK, NEW p \in Procs, NEW st \in [Procs -> States],
           wakeup_proc(st, p), st[p] = "RUNNABLE" => wait_state[p] = "NONE"
    PROVE  /\ state' = [st EXCEPT ![p] = "RUNNABLE"]
           /\ wait_state' = [wait_state EXCEPT ![p] = "NONE"]
BY DEF SchedTypeOK, wakeup_proc

(* schedule() keeps them too: current is queued if and only if it can      *)
(* still run, and whoever gets the CPU can run and leaves the queue.       *)
LEMMA ScheduleKeeps ==
    ASSUME SchedTypeOK, RunQueueOK, schedule
    PROVE  /\ SchedTypeOK' /\ RunQueueOK'
           /\ UNCHANGED <<state, wait_state>>
           /\ state[current'] = "RUNNABLE"
<1> DEFINE again == state[current] = "RUNNABLE" /\ current # idleproc
           queue == IF again THEN Append(run_list, current) ELSE run_list
<1>1. /\ time_slice' = IF again
                       THEN [time_slice EXCEPT ![current] = Refill(@)]
                       ELSE time_slice
      /\ need_resched' = [need_resched EXCEPT ![current] = FALSE]
      /\ current' = IF queue = <<>> THEN idleproc ELSE Head(queue)
      /\ run_list' = IF queue = <<>> THEN <<>> ELSE Tail(queue)
      /\ UNCHANGED <<state, wait_state>>
  BY DEF schedule
<1>2. /\ queue \in Seq(Procs)
      /\ Distinct(queue)
      /\ \A p \in Procs : Linked(queue, p)
                             <=> state[p] = "RUNNABLE" /\ p # idleproc
  <2>1. CASE again
    <3>1. ~Linked(run_list, current)
      BY RunQueueLinked DEF SchedTypeOK
    <3> QED
      BY <2>1, <3>1, AppendLinked, RunQueueLinked DEF SchedTypeOK
  <2>2. CASE ~again
    BY <2>2, RunQueueLinked DEF SchedTypeOK
  <2> QED
    BY <2>1, <2>2
<1> HIDE DEF queue
<1>3. /\ run_list' \in Seq(Procs)
      /\ current' \in Procs
      /\ state[current'] = "RUNNABLE"
      /\ Distinct(run_list')
      /\ \A p \in Procs : Linked(run_list', p)
            <=> state[p] = "RUNNABLE" /\ p \notin {current', idleproc}
  <2>1. CASE queue = <<>>
    <3>1. run_list' = <<>> /\ current' = idleproc
      BY <1>1, <2>1
    <3>2. \A p : ~Linked(<<>>, p)
      BY DEF Linked
    <3> QED
      BY <1>2, <2>1, <3>1, <3>2, SchedAssumption DEF Linked, Distinct, RunQueueOK
  <2>2. CASE queue # <<>>
    <3>1. run_list' = Tail(queue) /\ current' = Head(queue)
      BY <1>1, <2>2
    <3>2. /\ Tail(queue) \in Seq(Procs)
          /\ Head(queue) \in Procs
          /\ Linked(queue, Head(queue))
          /\ Distinct(Tail(queue))
          /\ \A p : Linked(Tail(queue), p)
                        <=> Linked(queue, p) /\ p # Head(queue)
      BY <1>2, <2>2, TailLinked
    <3> QED
      BY <1>2, <3>1, <3>2
  <2> QED
    BY <2>1, <2>2
<1>4. SchedTypeOK'
  BY <1>1, <1>3, RefillType DEF SchedTypeOK
<1>5. RunQueueOK'
  BY <1>1, <1>3
     DEF RunQueueOK, RunListDistinct, RunListExact, Linked, Distinct
<1> QED
  BY <1>1, <1>3, <1>4, <1>5

(* A tick changes only current's slice and its need_resched.               *)
LEMMA TickKeeps ==
    ASSUME SchedTypeOK, RunQueueOK, sched_class_proc_tick
    PROVE  SchedTypeOK' /\ RunQueueOK'
<1>1. SchedTypeOK'
  BY SchedAssumption DEF SchedTypeOK, sched_class_proc_tick
<1>2. RunQueueOK'
  BY DEF sched_class_proc_tick, RunQueueOK, RunListDistinct, RunListExact
<1> QED
  BY <1>1, <1>2

(* Going to sleep keeps the queue: current is not in it.                   *)
LEMMA SetWaitingKeeps ==
    ASSUME SchedTypeOK, RunQueueOK, NEW ws \in WaitStates, set_waiting(ws),
           current # idleproc,
           UNCHANGED <<need_resched, time_slice, current, run_list>>
    PROVE  SchedTypeOK' /\ RunQueueOK'
<1>1. SchedTypeOK'
  BY DEF SchedTypeOK, set_waiting, States
<1>2. RunQueueOK'
  BY DEF SchedTypeOK, set_waiting, RunQueueOK, RunListDistinct, RunListExact
<1> QED
  BY <1>1, <1>2

(* So does anything that leaves the scheduler's variables alone.           *)
LEMMA StutterKeeps ==
    ASSUME SchedTypeOK, RunQueueOK, UNCHANGED sched_vars
    PROVE  SchedTypeOK' /\ RunQueueOK'
BY DEF SchedTypeOK, RunQueueOK, RunListDistinct, RunListExact, sched_vars
=============================================================================
