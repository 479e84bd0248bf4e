---------------------------- MODULE DeviceProofs ----------------------------
(***************************************************************************)
(* Proofs about two devices.  The standard input loses no wakeup and       *)
(* delivers no key twice, for any ring size and any number of readers and  *)
(* keys (Stdin); the text screen shows the last rows of what was written,  *)
(* for any number of rows and columns (Cga).                               *)
(***************************************************************************)
EXTENDS Stdin, Cga, SchedProofs

Slot(k) == stdin_buffer[k % STDIN_BUFSIZE]

Window == p_rpos..(p_wpos - 1)

(* What the ring holds between the two positions: keys that nobody has got *)
(* yet, each in one place.  When the ring is full a key takes the place of *)
(* the oldest, so the order is that of the presses only as long as no key  *)
(* was dropped (p_wpos = keys).                                            *)
RingContents ==
    /\ Len(delivered) = p_rpos
    /\ p_wpos <= keys
    /\ \A i \in 1..p_rpos : delivered[i] <= keys
    /\ \A k \in Window :
          /\ Slot(k) \in 1..keys
          /\ \A l \in Window : Slot(k) = Slot(l) => k = l
          /\ \A i \in 1..p_rpos : delivered[i] # Slot(k)
          /\ p_wpos = keys => Slot(k) = k + 1

(* Where a process is in dev_stdin_read, what it sleeps for and who has    *)
(* woken it agree: a reader that runs again was woken by a key, or has     *)
(* been killed.                                                            *)
ReadOK ==
    /\ pc[idleproc] = "idle"
    /\ state[current] # "RUNNABLE" => pc[current] \in {"read_sched", "exit_sched"}
    /\ \A p \in Procs :
          /\ wait_state[p] = "WT_KBD" => state[p] = "SLEEPING"
          /\ pc[p] = "kill_wake" => victim[p] # NULL /\ exiting[victim[p]]
          /\ pc[p] \in {"read_sched", "read_woken"} /\ state[p] = "RUNNABLE"
                => wakeup_flags[p] = "WT_KBD" \/ exiting[p]
          /\ pc[p] \in {"user", "ret", "kill_wake"} /\ ret[p] < len[p] => exiting[p]

(* The inductive invariant.                                                *)
IInv == StdinOK /\ RingContents /\ ReadOK

-----------------------------------------------------------------------------
(* Two positions less than the ring's length apart have different places.  *)
LEMMA ModApart ==
    ASSUME NEW n \in Nat \ {0}, NEW a \in Nat, NEW b \in Nat, a < b, b < a + n
    PROVE  a % n # b % n
<1> SUFFICES ASSUME a % n = b % n PROVE FALSE
  OBVIOUS
<1> DEFINE p == a \div n
           q == b \div n
<1>1. p \in Int /\ q \in Int
  OBVIOUS
<1>2. a = n * p + (a % n) /\ b = n * q + (b % n)
  OBVIOUS
<1> HIDE DEF p, q
<1>3. b - a = n * (q - p)
  BY <1>1, <1>2
<1>4. q - p >= 1 \/ q - p <= 0
  BY <1>1
<1>5. q - p >= 1 => n * (q - p) >= n
  BY <1>1
<1>6. q - p <= 0 => n * (q - p) <= 0
  BY <1>1
<1> QED
  BY <1>3, <1>4, <1>5, <1>6

LEMMA ModRange ==
    ASSUME NEW n \in Nat \ {0}, NEW a \in Nat
    PROVE  a % n \in 0..(n - 1)
OBVIOUS

-----------------------------------------------------------------------------
(* The invariant in two halves that share no variable but the positions:   *)
(* the ring and what was delivered from it ...                             *)
RingTypeOK ==
    /\ stdin_buffer \in [0..(STDIN_BUFSIZE - 1) -> 0..MaxKeys]
    /\ p_rpos \in Nat
    /\ p_wpos \in Nat
    /\ keys \in 0..MaxKeys
    /\ delivered \in Seq(1..MaxKeys)

RingInv == RingTypeOK /\ RingOK /\ DeliveredOnce /\ RingContents

(* ... and the processes.                                                  *)
CallTypeOK ==
    /\ wait_queue \in Seq(Procs)
    /\ wakeup_flags \in [Procs -> Flags]
    /\ len \in [Procs -> Nat]
    /\ ret \in [Procs -> Nat]
    /\ exiting \in [Procs -> BOOLEAN]
    /\ victim \in [Procs -> Procs \cup {NULL}]
    /\ pc \in [Procs -> Labels]

QueueInv ==
    /\ Distinct(wait_queue)
    /\ \A p \in Procs :
          /\ Linked(wait_queue, p) => pc[p] \in {"read_sched", "read_woken"}
          /\ wait_state[p] = "WT_KBD" => Linked(wait_queue, p)

LEMMA Halves ==
    IInv <=> /\ RingInv
             /\ SchedTypeOK /\ RunQueueOK
             /\ CallTypeOK
             /\ QueueInv
             /\ NoLostKey
             /\ ReadOK
<1>1. TypeOK <=> SchedTypeOK /\ RingTypeOK /\ CallTypeOK
  BY DEF TypeOK, RingTypeOK, CallTypeOK
<1>2. ReadersQueued <=> QueueInv
  BY DEF ReadersQueued, QueueInv, InQueue, Distinct
<1>3. ReadOK => ShortReadKilled
  BY DEF ReadOK, ShortReadKilled, Users
<1> QED
  BY <1>1, <1>2, <1>3 DEF IInv, StdinOK, KeysDelivered, ReadersOK, RingInv

LEMMA NextHalves ==
    ASSUME RingInv', SchedTypeOK', RunQueueOK', CallTypeOK', QueueInv', NoLostKey', ReadOK'
    PROVE  IInv'
<1>1. TypeOK'
  BY DEF TypeOK, RingInv, RingTypeOK, CallTypeOK
<1>2. ReadersQueued'
  BY DEF ReadersQueued, QueueInv, InQueue, Distinct
<1>3. ShortReadKilled'
  BY DEF ReadOK, ShortReadKilled, Users
<1> QED
  BY <1>1, <1>2, <1>3 DEF IInv, StdinOK, KeysDelivered, ReadersOK, RingInv

LEMMA RingStutter == ASSUME RingInv, UNCHANGED ring_vars PROVE RingInv'
BY DEF RingInv, RingTypeOK, RingOK, DeliveredOnce, RingContents, Window, Slot, ring_vars

(* A key press: the new key is in the ring, in one place, and none of the  *)
(* places that hold other keys has changed, except the oldest's if the     *)
(* ring is full.                                                           *)
LEMMA RingWrite ==
    ASSUME StdinAssumption, RingInv, keys < MaxKeys,
           keys' = keys + 1,
           stdin_buffer' = [stdin_buffer EXCEPT ![p_wpos % STDIN_BUFSIZE] = keys + 1],
           p_wpos' = IF p_wpos - p_rpos < STDIN_BUFSIZE THEN p_wpos + 1 ELSE p_wpos,
           UNCHANGED <<p_rpos, delivered>>
    PROVE  RingInv'
<1> DEFINE S == STDIN_BUFSIZE
           at == p_wpos % S
<1>0. /\ S \in Nat \ {0} /\ MaxKeys \in Nat
      /\ p_rpos \in Nat /\ p_wpos \in Nat /\ keys \in Nat /\ MaxKeys \in Nat
      /\ p_rpos <= p_wpos /\ p_wpos <= p_rpos + S /\ p_wpos <= keys
  BY DEF StdinAssumption, RingInv, RingTypeOK, RingOK, RingContents
<1>1. RingTypeOK' /\ RingOK'
  <2>1. at \in 0..(S - 1)
    BY <1>0, ModRange
  <2>2. stdin_buffer' \in [0..(S - 1) -> 0..MaxKeys]
    BY <1>0, <2>1 DEF RingInv, RingTypeOK
  <2> QED
    BY <1>0, <2>2 DEF RingInv, RingTypeOK, RingOK
<1>2. ASSUME NEW k \in Nat
      PROVE  Slot(k)' = IF k % S = at THEN keys + 1 ELSE Slot(k)
  <2>1. k % S \in 0..(S - 1)
    BY <1>0, ModRange
  <2> QED
    BY <2>1 DEF Slot, RingInv, RingTypeOK
<1>3. ASSUME NEW k \in Window', NEW l \in Window', k # l
      PROVE  k % S # l % S
  <2>1. k \in Nat /\ l \in Nat /\ k < l + S /\ l < k + S
    BY <1>0, <1>3 DEF Window
  <2>2. CASE k < l
    BY <1>0, <2>1, <2>2, ModApart
  <2>3. CASE l < k
    BY <1>0, <2>1, <2>3, ModApart
  <2> QED
    BY <1>3, <2>1, <2>2, <2>3
<1>4. ASSUME NEW k \in Window'
      PROVE  /\ k \in Nat
             /\ Slot(k)' = keys + 1 \/ (k \in Window /\ Slot(k)' = Slot(k) /\ k % S # at)
  <2>1. k \in Nat
    BY <1>0 DEF Window
  <2>2. CASE k \in Window
    BY <1>2, <2>1, <2>2
  <2>3. CASE k \notin Window
    <3>1. k = p_wpos
      BY <1>0, <2>3 DEF Window
    <3> QED
      BY <1>2, <2>1, <3>1
  <2> QED
    BY <2>1, <2>2, <2>3
<1>5. \A i \in 1..p_rpos : delivered[i] \in Nat /\ delivered[i] <= keys
  BY <1>0 DEF RingInv, RingTypeOK, RingContents
<1>6. \A k \in Window : Slot(k) \in 1..keys
  BY DEF RingInv, RingContents
<1>7. ASSUME NEW k \in Window'
      PROVE  /\ Slot(k)' \in 1..(keys + 1)
             /\ \A i \in 1..p_rpos : delivered[i] # Slot(k)'
             /\ p_wpos' = keys + 1 => Slot(k)' = k + 1
  <2>1. CASE Slot(k)' = keys + 1
    <3>1. p_wpos' = keys + 1 => k = keys
      <4>1. SUFFICES ASSUME p_wpos' = keys + 1 PROVE k = keys
        OBVIOUS
      <4>2. p_wpos = keys /\ p_wpos - p_rpos < S
        BY <1>0, <4>1
      <4>3. SUFFICES ASSUME k # p_wpos PROVE FALSE
        BY <4>2
      <4>4. p_wpos \in Window' /\ k \in Window
        BY <1>0, <4>2, <4>3 DEF Window
      <4>5. k % S # at
        BY <1>3, <4>3, <4>4
      <4> QED
        BY <1>0, <1>2, <1>4, <1>6, <2>1, <4>4, <4>5
    <3> QED
      BY <1>0, <1>5, <2>1, <3>1
  <2>2. CASE k \in Window /\ Slot(k)' = Slot(k)
    <3>1. p_wpos' = keys + 1 => p_wpos = keys
      BY <1>0
    <3> QED
      BY <1>0, <2>2, <3>1 DEF RingInv, RingContents
  <2> QED
    BY <1>4, <2>1, <2>2
<1>8. ASSUME NEW k \in Window', NEW l \in Window', Slot(k)' = Slot(l)'
      PROVE  k = l
  <2>1. SUFFICES ASSUME k # l PROVE FALSE
    OBVIOUS
  <2>2. k % S # l % S
    BY <1>3, <2>1
  <2>3. CASE k % S # at /\ l % S # at
    <3>1. /\ Slot(k)' = Slot(k) /\ Slot(l)' = Slot(l)
      BY <1>2, <1>4, <2>3
    <3>2. k \in Window /\ l \in Window
      <4>1. k # p_wpos /\ l # p_wpos
        BY <2>3
      <4> QED
        BY <1>0, <4>1 DEF Window
    <3> QED
      BY <1>8, <2>1, <3>1, <3>2 DEF RingInv, RingContents
  <2>4. CASE k % S = at
    <3>1. l % S # at /\ Slot(k)' = keys + 1
      BY <1>2, <1>4, <2>2, <2>4
    <3>2. l \in Window
      <4>1. l # p_wpos
        BY <3>1
      <4> QED
        BY <1>0, <4>1 DEF Window
    <3>3. Slot(l) = keys + 1
      BY <1>2, <1>4, <1>8, <3>1
    <3>4. Slot(l) \in 1..keys
      BY <1>6, <3>2
    <3> QED
      BY <1>0, <3>3, <3>4
  <2>5. CASE l % S = at
    <3>1. k % S # at /\ Slot(l)' = keys + 1
      BY <1>2, <1>4, <2>2, <2>5
    <3>2. k \in Window
      <4>1. k # p_wpos
        BY <3>1
      <4> QED
        BY <1>0, <4>1 DEF Window
    <3>3. Slot(k) = keys + 1
      BY <1>2, <1>4, <1>8, <3>1
    <3>4. Slot(k) \in 1..keys
      BY <1>6, <3>2
    <3> QED
      BY <1>0, <3>3, <3>4
  <2> QED
    BY <2>3, <2>4, <2>5
<1>9. RingContents'
  <2>1. Len(delivered') = p_rpos' /\ p_wpos' <= keys'
    BY <1>0 DEF RingInv, RingContents
  <2>2. \A i \in 1..p_rpos' : delivered'[i] <= keys'
    BY <1>0, <1>5
  <2> QED
    BY <1>7, <1>8, <2>1, <2>2 DEF RingContents
<1>10. DeliveredOnce'
  <2>1. p_wpos' = keys' => p_wpos = keys
    BY <1>0
  <2> QED
    BY <2>1 DEF RingInv, DeliveredOnce
<1> QED
  BY <1>1, <1>9, <1>10 DEF RingInv

(* A reader takes the oldest key.                                          *)
LEMMA RingRead ==
    ASSUME StdinAssumption, RingInv, p_rpos < p_wpos,
           delivered' = Append(delivered, stdin_buffer[p_rpos % STDIN_BUFSIZE]),
           p_rpos' = p_rpos + 1,
           UNCHANGED <<stdin_buffer, p_wpos, keys>>
    PROVE  RingInv'
<1>0. /\ STDIN_BUFSIZE \in Nat \ {0} /\ MaxKeys \in Nat
      /\ p_rpos \in Nat /\ p_wpos \in Nat /\ keys \in Nat /\ keys <= MaxKeys
      /\ p_rpos <= p_wpos /\ p_wpos <= p_rpos + STDIN_BUFSIZE /\ p_wpos <= keys
      /\ delivered \in Seq(1..MaxKeys) /\ Len(delivered) = p_rpos
  BY DEF StdinAssumption, RingInv, RingTypeOK, RingOK, RingContents
<1>1. /\ p_rpos \in Window
      /\ Slot(p_rpos) \in 1..keys
      /\ delivered' = Append(delivered, Slot(p_rpos))
  BY <1>0 DEF Window, Slot, RingInv, RingContents
<1>2. /\ delivered' \in Seq(1..MaxKeys)
      /\ Len(delivered') = p_rpos + 1
      /\ DOMAIN delivered' = 1..(p_rpos + 1)
      /\ DOMAIN delivered = 1..p_rpos
      /\ \A i \in 1..p_rpos : delivered'[i] = delivered[i]
      /\ delivered'[p_rpos + 1] = Slot(p_rpos)
  BY <1>0, <1>1
<1>3. RingTypeOK' /\ RingOK'
  BY <1>0, <1>2 DEF RingInv, RingTypeOK, RingOK
<1>4. Window' = Window \ {p_rpos} /\ \A k : Slot(k)' = Slot(k)
  BY <1>0 DEF Window, Slot
<1>5. \A i \in 1..p_rpos : delivered[i] # Slot(p_rpos) /\ delivered[i] <= keys
  BY <1>1 DEF RingInv, RingContents
<1>6. \A i \in 1..(p_rpos + 1) : i \in 1..p_rpos \/ i = p_rpos + 1
  BY <1>0
<1>7. RingContents'
  <2>1. \A i \in 1..p_rpos' : delivered'[i] <= keys'
    BY <1>0, <1>1, <1>2, <1>5, <1>6
  <2>2. ASSUME NEW k \in Window'
        PROVE  /\ Slot(k)' \in 1..keys'
               /\ \A l \in Window' : Slot(k)' = Slot(l)' => k = l
               /\ p_wpos' = keys' => Slot(k)' = k + 1
    BY <1>4 DEF RingInv, RingContents
  <2>3. ASSUME NEW k \in Window', NEW i \in 1..(p_rpos + 1)
        PROVE  delivered'[i] # Slot(k)'
    <3>1. k \in Window /\ k # p_rpos /\ Slot(k)' = Slot(k)
      BY <1>4
    <3>2. Slot(k) # Slot(p_rpos)
      BY <1>1, <3>1 DEF RingInv, RingContents
    <3>3. \A j \in 1..p_rpos : delivered[j] # Slot(k)
      BY <3>1 DEF RingInv, RingContents
    <3> QED
      BY <1>2, <1>6, <3>1, <3>2, <3>3
  <2> QED
    BY <1>0, <1>2, <2>1, <2>2, <2>3 DEF RingContents
<1>8. DeliveredOnce'
  <2>1. ASSUME NEW i \in DOMAIN delivered', NEW j \in DOMAIN delivered',
               delivered'[i] = delivered'[j]
        PROVE  i = j
    BY <1>2, <1>5, <1>6, <2>1 DEF RingInv, DeliveredOnce
  <2>2. ASSUME p_wpos' = keys' PROVE delivered' = [i \in 1..p_rpos' |-> i]
    <3>1. p_wpos = keys /\ delivered = [i \in 1..p_rpos |-> i]
      BY <2>2 DEF RingInv, DeliveredOnce
    <3>2. Slot(p_rpos) = p_rpos + 1
      BY <1>1, <3>1 DEF RingInv, RingContents
    <3>3. \A i \in 1..(p_rpos + 1) : delivered'[i] = i
      BY <1>0, <1>2, <1>6, <3>1, <3>2
    <3>4. delivered' = [i \in 1..(p_rpos + 1) |-> delivered'[i]]
      BY <1>2
    <3> QED
      BY <3>3, <3>4
  <2> QED
    BY <2>1, <2>2 DEF DeliveredOnce
<1> QED
  BY <1>3, <1>7, <1>8 DEF RingInv

-----------------------------------------------------------------------------
(* Waking all readers: those that sleep are put behind the run queue, each *)
(* once, and nobody sleeps for a key any more.                             *)
LEMMA WakeupQueueKeeps ==
    ASSUME StdinAssumption, SchedTypeOK, RunQueueOK, CallTypeOK, QueueInv,
           wakeup_queue, UNCHANGED <<need_resched, current>>
    PROVE  SchedTypeOK' /\ RunQueueOK'
<1> DEFINE sleepers == {p \in Procs : InQueue(p) /\ state[p] # "RUNNABLE"}
           others   == sleepers \ {current}
<1>1. PICK woken \in [1..Cardinality(others) -> others] :
          /\ \A i, j \in DOMAIN woken : i < j => Before(wait_queue, woken[i], woken[j])
          /\ run_list' = run_list \o woken
  BY DEF wakeup_queue
<1>2. /\ state' = [p \in Procs |-> IF p \in sleepers THEN "RUNNABLE" ELSE state[p]]
      /\ wait_state' = [p \in Procs |-> IF p \in sleepers THEN "NONE" ELSE wait_state[p]]
      /\ time_slice' = [p \in Procs |-> IF p \in others THEN Refill(time_slice[p])
                                        ELSE time_slice[p]]
  BY DEF wakeup_queue
<1>3. IsFiniteSet(others) /\ Cardinality(others) \in Nat
  <2>1. others \in SUBSET Procs
    OBVIOUS
  <2> QED
    BY <2>1, FS_Subset, FS_CardinalityType DEF StdinAssumption
<1>4. idleproc \notin sleepers
  BY DEF RunQueueOK
<1> HIDE DEF others
<1>5. Distinct(woken)
  <2>1. \A p : ~Before(wait_queue, p, p)
    BY DEF Before, QueueInv, Distinct, CallTypeOK
  <2>2. ASSUME NEW i \in DOMAIN woken, NEW j \in DOMAIN woken, woken[i] = woken[j]
        PROVE  i = j
    <3>1. i \in Nat /\ j \in Nat
      BY <1>1, <1>3
    <3>2. ~(i < j) /\ ~(j < i)
      BY <1>1, <2>1, <2>2
    <3> QED
      BY <3>1, <3>2
  <2> QED
    BY <2>2 DEF Distinct
<1>6. woken \in Seq(others) /\ \A p : Linked(woken, p) <=> p \in others
  BY <1>3, <1>5, FullQueue
<1>7. others \subseteq Procs /\ woken \in Seq(Procs)
  <2>1. others \subseteq Procs
    BY DEF others
  <2> QED
    BY <1>6, <2>1, SeqMonotonic
<1>8. /\ run_list \in Seq(Procs)
      /\ Distinct(run_list)
      /\ \A p \in Procs : Linked(run_list, p)
                             <=> state[p] = "RUNNABLE" /\ p \notin {current, idleproc}
  BY RunQueueLinked DEF SchedTypeOK
<1>9. \A p : ~(Linked(run_list, p) /\ Linked(woken, p))
  BY <1>6, <1>7, <1>8 DEF others
<1>10. /\ run_list' \in Seq(Procs)
       /\ Distinct(run_list')
       /\ \A p : Linked(run_list', p) <=> Linked(run_list, p) \/ p \in others
  BY <1>1, <1>5, <1>6, <1>7, <1>8, <1>9, ConcatLinked
<1>11. SchedTypeOK'
  BY <1>2, <1>10, RefillType DEF SchedTypeOK, States, WaitStates
<1>12. /\ state'[idleproc] = "RUNNABLE"
       /\ \A p \in Procs : Linked(run_list', p)
                              <=> state'[p] = "RUNNABLE" /\ p \notin {current', idleproc}
  BY <1>2, <1>4, <1>8, <1>10, SchedAssumption DEF RunQueueOK, others
<1>13. RunQueueOK'
  BY <1>10, <1>12 DEF RunQueueOK, RunListDistinct, RunListExact, Linked, Distinct
<1> QED
  BY <1>11, <1>13

-----------------------------------------------------------------------------
(* What every step below starts from.                                      *)
LEMMA Types ==
    ASSUME IInv
    PROVE  /\ RingInv /\ SchedTypeOK /\ RunQueueOK /\ CallTypeOK
           /\ QueueInv /\ NoLostKey /\ ReadOK
           /\ current \in Procs
           /\ state \in [Procs -> States]
           /\ wait_state \in [Procs -> WaitStates]
           /\ wait_queue \in Seq(Procs)
           /\ wakeup_flags \in [Procs -> Flags]
           /\ len \in [Procs -> Nat]
           /\ ret \in [Procs -> Nat]
           /\ exiting \in [Procs -> BOOLEAN]
           /\ victim \in [Procs -> Procs \cup {NULL}]
           /\ pc \in [Procs -> Labels]
BY Halves DEF SchedTypeOK, CallTypeOK

(* Outside of the two calls of schedule() by a process that waits or has   *)
(* exited, current can run, so it does not wait for a key.                 *)
LEMMA CurrentRuns ==
    ASSUME IInv, pc[current] \notin {"read_sched", "exit_sched"}
    PROVE  /\ state[current] = "RUNNABLE"
           /\ wait_state[current] # "WT_KBD"
           /\ pc[current] # "idle" => current # idleproc
BY Types DEF ReadOK

LEMMA SysReadStep ==
    ASSUME StdinAssumption, IInv, NEW n \in Lens, sys_read(n)
    PROVE  IInv'
<1>1. /\ pc[current] = "user"
      /\ len' = [len EXCEPT ![current] = n]
      /\ ret' = [ret EXCEPT ![current] = 0]
      /\ pc' = [pc EXCEPT ![current] = "read_loop"]
      /\ n \in Nat
      /\ UNCHANGED <<sched_vars, ring_vars, wait_queue, wakeup_flags, exiting, victim>>
  BY DEF sys_read, At, Goto, kill_vars, StdinAssumption
<1>2. RingInv' /\ SchedTypeOK' /\ RunQueueOK'
  BY <1>1, Types, RingStutter, StutterKeeps
<1>3. CallTypeOK'
  BY <1>1, Types DEF CallTypeOK, Labels
<1>4. QueueInv' /\ NoLostKey'
  BY <1>1, Types DEF QueueInv, NoLostKey, sched_vars, ring_vars
<1>5. ReadOK'
  BY <1>1, Types DEF ReadOK, sched_vars
<1> QED
  BY <1>2, <1>3, <1>4, <1>5, NextHalves

LEMMA ReadCharStep == ASSUME StdinAssumption, IInv, read_char PROVE IInv'
<1>1. /\ pc[current] = "read_loop"
      /\ p_rpos < p_wpos
      /\ ret' = [ret EXCEPT ![current] = @ + 1]
      /\ UNCHANGED <<sched_vars, wait_queue, wakeup_flags, len, exiting, victim, pc>>
  BY DEF read_char, At, kill_vars
<1>2. RingInv'
  BY Types, RingRead DEF read_char
<1>3. SchedTypeOK' /\ RunQueueOK'
  BY <1>1, Types, StutterKeeps
<1>4. CallTypeOK'
  BY <1>1, Types DEF CallTypeOK
<1>5. QueueInv'
  BY <1>1, Types DEF QueueInv, sched_vars
<1>6. NoLostKey'
  <2>1. \A p \in Procs : wait_state[p] # "WT_KBD"
    BY <1>1, Types DEF NoLostKey, RingInv, RingTypeOK
  <2> QED
    BY <1>1, <2>1 DEF NoLostKey, sched_vars
<1>7. ReadOK'
  BY <1>1, Types DEF ReadOK, sched_vars
<1> QED
  BY <1>2, <1>3, <1>4, <1>5, <1>6, <1>7, NextHalves

(* The reader that finds the ring empty is queued before it sleeps.        *)
LEMMA ReadBlockStep == ASSUME StdinAssumption, IInv, read_block PROVE IInv'
<1>1. /\ pc[current] = "read_loop"
      /\ p_rpos >= p_wpos
      /\ set_waiting("WT_KBD")
      /\ wait_queue' = Append(wait_queue, current)
      /\ wakeup_flags' = [wakeup_flags EXCEPT ![current] = "WT_INTERRUPTED"]
      /\ pc' = [pc EXCEPT ![current] = "read_sched"]
      /\ UNCHANGED <<need_resched, time_slice, current, run_list, ring_vars, len, ret,
                     exiting, victim>>
  BY DEF read_block, At, Goto, kill_vars
<1>2. /\ state' = [state EXCEPT ![current] = "SLEEPING"]
      /\ wait_state' = [wait_state EXCEPT ![current] = "WT_KBD"]
  BY <1>1 DEF set_waiting
<1>3. current # idleproc /\ ~Linked(wait_queue, current)
  BY <1>1, Types DEF ReadOK, QueueInv
<1>4. /\ Append(wait_queue, current) \in Seq(Procs)
      /\ Distinct(Append(wait_queue, current))
      /\ \A p : Linked(Append(wait_queue, current), p) <=> Linked(wait_queue, p) \/ p = current
  BY <1>3, Types, AppendLinked DEF QueueInv
<1>5. RingInv' /\ SchedTypeOK' /\ RunQueueOK'
  BY <1>1, <1>3, Types, RingStutter, SetWaitingKeeps DEF WaitStates
<1>6. CallTypeOK'
  BY <1>1, <1>4, Types DEF CallTypeOK, Labels, Flags
<1>7. QueueInv'
  BY <1>1, <1>2, <1>4, Types DEF QueueInv
<1>8. NoLostKey'
  <2>1. p_rpos = p_wpos
    BY <1>1, Types DEF RingInv, RingTypeOK, RingOK
  <2> QED
    BY <1>1, <2>1 DEF NoLostKey, ring_vars
<1>9. ReadOK'
  BY <1>1, <1>2, <1>3, Types, SchedAssumption DEF ReadOK
<1> QED
  BY <1>5, <1>6, <1>7, <1>8, <1>9, NextHalves

LEMMA ReadDoneStep == ASSUME StdinAssumption, IInv, read_done PROVE IInv'
<1>1. /\ pc[current] = "read_loop"
      /\ ret[current] >= len[current]
      /\ pc' = [pc EXCEPT ![current] = "ret"]
      /\ UNCHANGED <<sched_vars, ring_vars, wait_queue, wakeup_flags, len, ret,
                     exiting, victim>>
  BY DEF read_done, At, Goto, call_vars, kill_vars
<1>2. RingInv' /\ SchedTypeOK' /\ RunQueueOK'
  BY <1>1, Types, RingStutter, StutterKeeps
<1>3. CallTypeOK'
  BY <1>1, Types DEF CallTypeOK, Labels
<1>4. QueueInv' /\ NoLostKey'
  BY <1>1, Types DEF QueueInv, NoLostKey, sched_vars, ring_vars
<1>5. ReadOK'
  BY <1>1, Types DEF ReadOK, sched_vars
<1> QED
  BY <1>2, <1>3, <1>4, <1>5, NextHalves

(* A call of schedule() by which current gets to l.                        *)
LEMMA ScheduleStep ==
    ASSUME StdinAssumption, IInv, schedule, NEW l \in Labels,
           pc' = [pc EXCEPT ![current] = l] \/ (UNCHANGED pc /\ l = pc[current]),
           UNCHANGED <<ring_vars, call_vars, kill_vars>>,
           Linked(wait_queue, current) => l \in {"read_sched", "read_woken"},
           current = idleproc => l = "idle",
           l = "kill_wake" => pc[current] = "kill_wake",
           l \in {"read_sched", "read_woken"}
              => pc[current] \in {"read_sched", "read_woken"},
           l \in {"user", "ret", "kill_wake"} /\ ret[current] < len[current] => exiting[current]
    PROVE  IInv'
<1>1. /\ SchedTypeOK' /\ RunQueueOK'
      /\ UNCHANGED <<state, wait_state>>
      /\ state[current'] = "RUNNABLE"
  BY Types, ScheduleKeeps
<1>2. /\ UNCHANGED <<ring_vars, wait_queue, wakeup_flags, len, ret, exiting, victim>>
      /\ \A p \in Procs : pc'[p] = IF p = current THEN l ELSE pc[p]
      /\ pc' \in [Procs -> Labels]
  BY Types DEF call_vars, kill_vars
<1>3. RingInv' /\ CallTypeOK'
  BY <1>2, Types, RingStutter DEF CallTypeOK
<1>4. QueueInv' /\ NoLostKey'
  BY <1>1, <1>2, Types DEF QueueInv, NoLostKey, ring_vars
<1>5. ReadOK'
  BY <1>1, <1>2, Types, SchedAssumption DEF ReadOK
<1> QED
  BY <1>1, <1>3, <1>4, <1>5, NextHalves

LEMMA ReadSchedStep == ASSUME StdinAssumption, IInv, read_sched PROVE IInv'
<1>1. /\ pc[current] = "read_sched"
      /\ schedule
      /\ pc' = [pc EXCEPT ![current] = "read_woken"]
      /\ UNCHANGED <<ring_vars, call_vars, kill_vars>>
  BY DEF read_sched, At, Goto
<1>2. current # idleproc
  BY <1>1, Types DEF ReadOK
<1> QED
  BY <1>1, <1>2, ScheduleStep DEF Labels

LEMMA ExitSchedStep == ASSUME StdinAssumption, IInv, exit_sched PROVE IInv'
<1>1. /\ pc[current] = "exit_sched"
      /\ schedule
      /\ pc' = [pc EXCEPT ![current] = "dead"]
      /\ UNCHANGED <<ring_vars, call_vars, kill_vars>>
  BY DEF exit_sched, At, Goto
<1>2. current # idleproc /\ ~Linked(wait_queue, current)
  BY <1>1, Types DEF ReadOK, QueueInv
<1> QED
  BY <1>1, <1>2, ScheduleStep DEF Labels

LEMMA CpuIdleStep == ASSUME StdinAssumption, IInv, cpu_idle PROVE IInv'
<1>1. /\ pc[current] = "idle"
      /\ schedule
      /\ UNCHANGED pc
      /\ UNCHANGED <<ring_vars, call_vars, kill_vars>>
  BY DEF cpu_idle, At
<1>2. ~Linked(wait_queue, current)
  BY <1>1, Types DEF QueueInv
<1> QED
  BY <1>1, <1>2, ScheduleStep DEF Labels

(* After schedule(): the reader leaves the queue if a kill has woken it,   *)
(* and then returns; otherwise it goes on.                                 *)
LEMMA ReadWokenStep == ASSUME StdinAssumption, IInv, read_woken PROVE IInv'
<1>1. /\ pc[current] = "read_woken"
      /\ wait_queue' = wait_current_del(wait_queue, current)
      /\ wakeup_flags' = [wakeup_flags EXCEPT ![current] = "NONE"]
      /\ pc' = [pc EXCEPT ![current] = IF wakeup_flags[current] = "WT_KBD"
                                       THEN "read_loop" ELSE "ret"]
      /\ UNCHANGED <<sched_vars, ring_vars, len, ret, exiting, victim>>
  BY DEF read_woken, At, Goto, kill_vars
<1>2. /\ wait_current_del(wait_queue, current) \in Seq(Procs)
      /\ Distinct(wait_current_del(wait_queue, current))
      /\ \A p : Linked(wait_current_del(wait_queue, current), p)
                   <=> Linked(wait_queue, p) /\ p # current
  BY Types, DelLinked DEF QueueInv
<1>3. /\ state[current] = "RUNNABLE"
      /\ wait_state[current] # "WT_KBD"
      /\ current # idleproc
      /\ wakeup_flags[current] = "WT_KBD" \/ exiting[current]
  BY <1>1, Types, CurrentRuns DEF ReadOK
<1>4. RingInv' /\ SchedTypeOK' /\ RunQueueOK'
  BY <1>1, Types, RingStutter, StutterKeeps
<1>5. CallTypeOK'
  BY <1>1, <1>2, Types DEF CallTypeOK, Labels, Flags
<1>6. QueueInv'
  BY <1>1, <1>2, <1>3, Types DEF QueueInv, sched_vars
<1>7. NoLostKey'
  BY <1>1, Types DEF NoLostKey, sched_vars, ring_vars
<1>8. ReadOK'
  BY <1>1, <1>3, Types DEF ReadOK, sched_vars
<1> QED
  BY <1>4, <1>5, <1>6, <1>7, <1>8, NextHalves

(* do_kill marks t; if t waits for a key, current wakes it next.           *)
LEMMA DoKillStep ==
    ASSUME StdinAssumption, IInv, NEW t \in Users, do_kill(t)
    PROVE  IInv'
<1>1. /\ pc[current] = "user"
      /\ exiting' = [exiting EXCEPT ![t] = TRUE]
      /\ \/ victim' = [victim EXCEPT ![current] = t] /\ pc' = [pc EXCEPT ![current] = "kill_wake"]
         \/ UNCHANGED victim /\ pc' = [pc EXCEPT ![current] = "ret"]
      /\ UNCHANGED <<sched_vars, ring_vars, wait_queue, wakeup_flags, len, ret>>
      /\ t \in Procs
  BY DEF do_kill, At, Goto, call_vars, Users
<1>2. RingInv' /\ SchedTypeOK' /\ RunQueueOK'
  BY <1>1, Types, RingStutter, StutterKeeps
<1>3. CallTypeOK'
  BY <1>1, Types, ZenonT(40) DEF CallTypeOK, Labels
<1>4. QueueInv' /\ NoLostKey'
  BY <1>1, Types DEF QueueInv, NoLostKey, sched_vars, ring_vars
<1>5. \A p \in Procs : exiting[p] => exiting'[p]
  BY <1>1, Types
<1>6. ASSUME NEW p \in Procs, pc'[p] = "kill_wake"
      PROVE  victim'[p] # NULL /\ exiting'[victim'[p]]
  <2>1. CASE p = current
    BY <1>1, <1>6, <2>1, Types DEF StdinAssumption
  <2>2. CASE p # current
    <3>1. pc[p] = "kill_wake" /\ victim'[p] = victim[p]
      BY <1>1, <1>6, <2>2, Types
    <3>2. victim[p] \in Procs /\ victim[p] # NULL /\ exiting[victim[p]]
      BY <3>1, Types DEF ReadOK
    <3> QED
      BY <1>5, <3>1, <3>2
  <2> QED
    BY <2>1, <2>2
<1>7. ReadOK'
  BY <1>1, <1>5, <1>6, Types, SchedAssumption DEF ReadOK, sched_vars
<1> QED
  BY <1>2, <1>3, <1>4, <1>7, NextHalves

(* The second half of do_kill: a reader that it wakes stays in the queue,  *)
(* and will find that it is exiting.                                       *)
LEMMA KillWakeStep == ASSUME StdinAssumption, IInv, kill_wake PROVE IInv'
<1> DEFINE t == victim[current]
<1>1. /\ pc[current] = "kill_wake"
      /\ wakeup_proc(state, t)
      /\ victim' = [victim EXCEPT ![current] = NULL]
      /\ pc' = [pc EXCEPT ![current] = "ret"]
      /\ UNCHANGED <<need_resched, current>>
      /\ UNCHANGED <<ring_vars, wait_queue, wakeup_flags, len, ret, exiting>>
  BY DEF kill_wake, At, Goto, call_vars
<1>2. t \in Procs /\ exiting[t]
  BY <1>1, Types DEF ReadOK
<1>3. /\ state' = [state EXCEPT ![t] = "RUNNABLE"]
      /\ wait_state' \in [Procs -> WaitStates]
      /\ wait_state'[t] # "WT_KBD"
      /\ \A p \in Procs \ {t} : wait_state'[p] = wait_state[p]
  <2>1. CASE state[t] = "RUNNABLE"
    <3>1. state' = state /\ wait_state' = wait_state
      BY <1>1, <2>1 DEF wakeup_proc
    <3>2. state = [state EXCEPT ![t] = "RUNNABLE"]
      BY <1>2, <2>1, Types
    <3>3. wait_state[t] # "WT_KBD"
      BY <1>2, <2>1, Types DEF ReadOK
    <3> QED
      BY <3>1, <3>2, <3>3, Types
  <2>2. CASE state[t] # "RUNNABLE"
    <3>1. /\ state' = [state EXCEPT ![t] = "RUNNABLE"]
          /\ wait_state' = [wait_state EXCEPT ![t] = "NONE"]
      BY <1>1, <2>2 DEF wakeup_proc
    <3> QED
      BY <1>2, <3>1, Types DEF WaitStates
  <2> QED
    BY <2>1, <2>2
<1> HIDE DEF t
<1>4. SchedTypeOK' /\ RunQueueOK'
  <2>1. SameOthers(state)
    BY Types DEF SameOthers, RunQueueOK
  <2> QED
    BY <1>1, <1>2, <2>1, Types, WakeupKeeps
<1>5. RingInv' /\ CallTypeOK'
  BY <1>1, Types, RingStutter DEF CallTypeOK, Labels
<1>6. QueueInv' /\ NoLostKey'
  BY <1>1, <1>3, Types DEF QueueInv, NoLostKey, ring_vars
<1>7. ReadOK'
  BY <1>1, <1>2, <1>3, Types, SchedAssumption DEF ReadOK
<1> QED
  BY <1>4, <1>5, <1>6, <1>7, NextHalves

(* The end of a trap: current exits, gives up the CPU or goes on.          *)
LEMMA TrapReturnStep == ASSUME StdinAssumption, IInv, trap_return PROVE IInv'
<1>1. pc[current] = "ret" /\ UNCHANGED <<ring_vars, call_vars, kill_vars>>
  BY DEF trap_return, At
<1>2. /\ current # idleproc
      /\ ~Linked(wait_queue, current)
      /\ wait_state[current] # "WT_KBD"
  BY <1>1, Types, CurrentRuns DEF ReadOK, QueueInv
<1>3. CASE exiting[current]
  <2>1. /\ state' = [state EXCEPT ![current] = "ZOMBIE"]
        /\ pc' = [pc EXCEPT ![current] = "exit_sched"]
        /\ UNCHANGED <<wait_state, need_resched, time_slice, current, run_list>>
        /\ UNCHANGED <<ring_vars, wait_queue, wakeup_flags, len, ret, exiting, victim>>
    BY <1>1, <1>3 DEF trap_return, Goto, call_vars, kill_vars
  <2>2. SchedTypeOK'
    BY <2>1, Types DEF SchedTypeOK, States
  <2>3. RunQueueOK'
    BY <1>2, <2>1, Types DEF RunQueueOK, RunListDistinct, RunListExact
  <2>4. RingInv' /\ CallTypeOK'
    BY <2>1, Types, RingStutter DEF CallTypeOK, Labels
  <2>5. QueueInv' /\ NoLostKey'
    BY <1>1, <1>2, <2>1, Types DEF QueueInv, NoLostKey, ring_vars
  <2>6. ReadOK'
    BY <1>1, <1>2, <2>1, Types, SchedAssumption DEF ReadOK
  <2> QED
    BY <2>2, <2>3, <2>4, <2>5, <2>6, NextHalves
<1>4. CASE ~exiting[current] /\ need_resched[current]
  <2>1. schedule /\ pc' = [pc EXCEPT ![current] = "user"]
    BY <1>4 DEF trap_return, Goto
  <2>2. ~(ret[current] < len[current])
    BY <1>1, <1>4, Types DEF ReadOK
  <2> QED
    BY <1>1, <1>2, <2>1, <2>2, ScheduleStep DEF Labels
<1>5. CASE ~exiting[current] /\ ~need_resched[current]
  <2>1. /\ pc' = [pc EXCEPT ![current] = "user"]
        /\ UNCHANGED <<sched_vars, ring_vars, wait_queue, wakeup_flags, len, ret,
                       exiting, victim>>
    BY <1>1, <1>5 DEF trap_return, Goto, call_vars, kill_vars
  <2>2. RingInv' /\ SchedTypeOK' /\ RunQueueOK'
    BY <2>1, Types, RingStutter, StutterKeeps
  <2>3. CallTypeOK'
    BY <2>1, Types DEF CallTypeOK, Labels
  <2>4. QueueInv' /\ NoLostKey'
    BY <1>2, <2>1, Types DEF QueueInv, NoLostKey, sched_vars, ring_vars
  <2>5. ReadOK'
    BY <1>1, <1>2, <2>1, Types, SchedAssumption DEF ReadOK, sched_vars
  <2> QED
    BY <2>2, <2>3, <2>4, <2>5, NextHalves
<1> QED
  BY <1>3, <1>4, <1>5

(* An interrupt in user mode continues at the end of trap().               *)
LEMMA TickStep == ASSUME StdinAssumption, IInv, timer_tick PROVE IInv'
<1>1. /\ sched_class_proc_tick
      /\ UNCHANGED <<state, wait_state, current>>
      /\ \/ pc[current] = "user" /\ pc' = [pc EXCEPT ![current] = "ret"]
         \/ UNCHANGED pc
      /\ UNCHANGED <<ring_vars, wait_queue, wakeup_flags, len, ret, exiting, victim>>
  BY DEF timer_tick, sched_class_proc_tick, At, call_vars, kill_vars
<1>2. RingInv' /\ SchedTypeOK' /\ RunQueueOK'
  BY <1>1, Types, RingStutter, TickKeeps
<1>3. CallTypeOK'
  BY <1>1, Types DEF CallTypeOK, Labels
<1>4. QueueInv' /\ NoLostKey'
  BY <1>1, Types DEF QueueInv, NoLostKey, ring_vars
<1>5. ReadOK'
  BY <1>1, Types, SchedAssumption DEF ReadOK
<1> QED
  BY <1>2, <1>3, <1>4, <1>5, NextHalves

(* A key wakes every reader that sleeps, so none sleeps while the ring     *)
(* holds a key.                                                            *)
LEMMA WriteStep == ASSUME StdinAssumption, IInv, dev_stdin_write PROVE IInv'
<1> DEFINE sleepers == {p \in Procs : InQueue(p) /\ state[p] # "RUNNABLE"}
<1>1. /\ wakeup_queue
      /\ wait_queue' = <<>>
      /\ wakeup_flags' = [p \in Procs |-> IF InQueue(p) THEN "WT_KBD" ELSE wakeup_flags[p]]
      /\ state' = [p \in Procs |-> IF p \in sleepers THEN "RUNNABLE" ELSE state[p]]
      /\ wait_state' = [p \in Procs |-> IF p \in sleepers THEN "NONE" ELSE wait_state[p]]
      /\ \/ pc[current] = "user" /\ pc' = [pc EXCEPT ![current] = "ret"]
         \/ UNCHANGED pc
      /\ UNCHANGED <<need_resched, current>>
      /\ UNCHANGED <<len, ret, exiting, victim>>
  BY DEF dev_stdin_write, wakeup_queue, At, kill_vars
<1>2. RingInv'
  BY Types, RingWrite DEF dev_stdin_write
<1>3. SchedTypeOK' /\ RunQueueOK'
  BY <1>1, Types, WakeupQueueKeeps
<1>4. CallTypeOK'
  <2>1. wait_queue' \in Seq(Procs)
    BY <1>1, EmptySeq
  <2>2. wakeup_flags' \in [Procs -> Flags]
    BY <1>1, Types DEF Flags
  <2>3. pc' \in [Procs -> Labels]
    BY <1>1, Types DEF Labels
  <2> QED
    BY <1>1, <2>1, <2>2, <2>3, Types DEF CallTypeOK
<1>5. \A p \in Procs : wait_state'[p] # "WT_KBD"
  BY <1>1, Types DEF QueueInv, ReadOK, InQueue
<1>6. \A p : ~Linked(wait_queue', p)
  BY <1>1 DEF Linked
<1>7. QueueInv' /\ NoLostKey'
  BY <1>1, <1>5, <1>6 DEF QueueInv, NoLostKey, Distinct
<1>8. ReadOK'
  BY <1>1, <1>5, Types, SchedAssumption DEF ReadOK, InQueue
<1> QED
  BY <1>2, <1>3, <1>4, <1>7, <1>8, NextHalves

-----------------------------------------------------------------------------
LEMMA InitIInv == ASSUME StdinAssumption, Init PROVE IInv
<1> DEFINE others == Users \ {current}
<1>1. IsFiniteSet(others) /\ Cardinality(others) = Cardinality(Users) - 1
  <2>1. IsFiniteSet(Users)
    BY SchedAssumption, FS_RemoveElement DEF StdinAssumption, Users
  <2> QED
    BY <2>1, FS_RemoveElement DEF Init
<1>2. Distinct(run_list)
  BY DEF Init, RunListDistinct, Distinct
<1>3. run_list \in Seq(others) /\ \A p : Linked(run_list, p) <=> p \in others
  <2>1. run_list \in [1..Cardinality(others) -> others]
    BY <1>1 DEF Init
  <2> QED
    BY <1>1, <1>2, <2>1, FullQueue
<1>4. run_list \in Seq(Procs)
  <2>1. others \subseteq Procs
    BY DEF Users
  <2> QED
    BY <1>3, <2>1, SeqMonotonic
<1>5. SchedTypeOK
  BY <1>4, SchedAssumption DEF Init, SchedTypeOK, States, WaitStates, Users
<1>6. RunQueueOK
  BY <1>2, <1>3, SchedAssumption, RunQueueLinked DEF Init, Users
<1>7. CallTypeOK
  BY DEF Init, CallTypeOK, Flags, Labels
<1>8. RingInv
  <2>1. RingTypeOK /\ RingOK
    BY DEF Init, RingTypeOK, RingOK, StdinAssumption
  <2>2. /\ delivered = <<>> /\ p_rpos = 0 /\ p_wpos = 0 /\ keys = 0
        /\ DOMAIN delivered = {} /\ Len(delivered) = 0
        /\ 1..p_rpos = {} /\ Window = {}
    BY DEF Init, Window
  <2>3. DeliveredOnce
    BY <2>2 DEF DeliveredOnce
  <2>4. RingContents
    BY <2>2 DEF RingContents
  <2> QED
    BY <2>1, <2>3, <2>4 DEF RingInv
<1>9. \A p : ~Linked(wait_queue, p)
  BY DEF Init, Linked
<1>10. QueueInv /\ NoLostKey
  BY <1>9 DEF Init, QueueInv, NoLostKey, Distinct
<1>11. ReadOK
  BY SchedAssumption DEF Init, ReadOK, Users
<1> QED
  BY <1>5, <1>6, <1>7, <1>8, <1>10, <1>11, Halves

LEMMA StutterStep == ASSUME IInv, UNCHANGED vars PROVE IInv'
<1>1. UNCHANGED <<sched_vars, ring_vars, wait_queue, wakeup_flags, len, ret, exiting,
                  victim, pc>>
  BY DEF vars, call_vars, kill_vars
<1>2. RingInv' /\ SchedTypeOK' /\ RunQueueOK'
  BY <1>1, Types, RingStutter, StutterKeeps
<1>3. CallTypeOK'
  BY <1>1, Types DEF CallTypeOK
<1>4. QueueInv' /\ NoLostKey' /\ ReadOK'
  BY <1>1, Types DEF QueueInv, NoLostKey, ReadOK, sched_vars, ring_vars
<1> QED
  BY <1>2, <1>3, <1>4, NextHalves

LEMMA NextIInv == ASSUME StdinAssumption, IInv, [Next]_vars PROVE IInv'
<1>1. CASE KernelStep
  BY <1>1, ReadCharStep, ReadBlockStep, ReadDoneStep, ReadSchedStep, ReadWokenStep,
     KillWakeStep, TrapReturnStep, ExitSchedStep, CpuIdleStep DEF KernelStep
<1>2. CASE dev_stdin_write
  BY <1>2, WriteStep
<1>3. CASE timer_tick
  BY <1>3, TickStep
<1>4. ASSUME NEW n \in Lens, sys_read(n) PROVE IInv'
  BY <1>4, SysReadStep
<1>5. ASSUME NEW t \in Users, do_kill(t) PROVE IInv'
  BY <1>5, DoKillStep
<1>6. CASE UNCHANGED vars
  BY <1>6, StutterStep
<1> QED
  BY <1>1, <1>2, <1>3, <1>4, <1>5, <1>6 DEF Next

LEMMA Invariance == ASSUME StdinAssumption PROVE Spec => []IInv
<1>1. Init => IInv
  BY InitIInv
<1>2. IInv /\ [Next]_vars => IInv'
  BY NextIInv
<1> QED
  BY <1>1, <1>2, PTL DEF Spec

(* However key presses, reads, kills and preemptions interleave, no key is *)
(* delivered twice or, while none was dropped, out of order, no reader     *)
(* sleeps while the ring holds a key, the readers in the queue are exactly *)
(* those that wait, and a read comes back short only after a kill          *)
(* (dev_stdin.c), for any length of the ring, any readers and any number   *)
(* of keys.                                                                *)
THEOREM StdinCorrect == ASSUME StdinAssumption PROVE Spec => []StdinOK
<1>1. IInv => StdinOK
  BY DEF IInv
<1> QED
  BY <1>1, Invariance, PTL

-----------------------------------------------------------------------------
(* The text screen.                                                        *)

(* The cells of video memory are those of the sheet from position o on;    *)
(* what follows them on the sheet is blank, which the row that scrolling   *)
(* brings in depends on, and the cell behind video memory is untouched.    *)
Shows(buf, sheet, o) ==
    /\ buf = [k \in 0..CRT_SIZE |-> buf[k]]
    /\ sheet = [k \in Sheet |-> sheet[k]]
    /\ \A k \in 0..(CRT_SIZE - 1) : buf[k] = sheet[o + k]
    /\ \A k \in Sheet : k >= o + CRT_SIZE => sheet[k] = "blank"
    /\ buf[CRT_SIZE] = "beyond"

(* The inductive invariant: the screen scrolls at most once for each       *)
(* character, so the sheet is long enough.                                 *)
ScreenInv ==
    /\ crt_pos \in 0..(CRT_SIZE - 1)
    /\ cursor = crt_pos
    /\ Shows(crt_buf, paper, top * CRT_COLS)
    /\ top \in Nat
    /\ puts \in Nat
    /\ top <= puts
    /\ puts <= MaxPuts

LEMMA ProductGrows ==
    ASSUME NEW m \in Nat, NEW n \in Nat, NEW c \in Nat, m <= n
    PROVE  m * c \in Nat /\ m * c <= n * c
<1>1. PICK d \in Nat : n = m + d
  <2>1. n - m \in Nat /\ n = m + (n - m)
    OBVIOUS
  <2> QED
    BY <2>1
<1>2. n * c = m * c + d * c
  BY <1>1
<1>3. d * c \in Nat /\ m * c \in Nat
  OBVIOUS
<1> QED
  BY <1>2, <1>3

LEMMA ScreenSize ==
    ASSUME CgaAssumption
    PROVE  /\ CRT_SIZE \in Nat
           /\ CRT_COLS \in Nat
           /\ 0 < CRT_COLS
           /\ CRT_COLS <= CRT_SIZE
<1>1. CRT_COLS \in Nat /\ CRT_ROWS \in Nat /\ 0 < CRT_COLS /\ 1 <= CRT_ROWS
  BY DEF CgaAssumption
<1>2. 1 * CRT_COLS <= CRT_ROWS * CRT_COLS /\ CRT_ROWS * CRT_COLS \in Nat
  BY <1>1, ProductGrows
<1> QED
  BY <1>1, <1>2 DEF CRT_SIZE

(* The screen lies on the sheet, whatever row it starts with.              *)
LEMMA ScreenOnSheet ==
    ASSUME CgaAssumption, NEW t \in Nat, t <= MaxPuts
    PROVE  /\ t * CRT_COLS \in Nat
           /\ (t + 1) * CRT_COLS = t * CRT_COLS + CRT_COLS
           /\ \A k \in 0..(CRT_SIZE + CRT_COLS - 1) : t * CRT_COLS + k \in Sheet
<1>1. CRT_COLS \in Nat /\ CRT_SIZE \in Nat /\ MaxPuts \in Nat
  BY ScreenSize DEF CgaAssumption
<1>2. t * CRT_COLS \in Nat /\ t * CRT_COLS <= MaxPuts * CRT_COLS
  BY <1>1, ProductGrows
<1>3. CRT_COLS * (MaxPuts + 1) = MaxPuts * CRT_COLS + CRT_COLS
  BY <1>1
<1>4. (t + 1) * CRT_COLS = t * CRT_COLS + CRT_COLS
  BY <1>1
<1>5. MaxPuts * CRT_COLS \in Nat
  BY <1>1
<1>6. ASSUME NEW k \in 0..(CRT_SIZE + CRT_COLS - 1)
      PROVE  t * CRT_COLS + k \in Sheet
  <2>1. Sheet = 0..(CRT_SIZE + (MaxPuts * CRT_COLS + CRT_COLS))
    BY <1>3 DEF Sheet
  <2> QED
    BY <2>1, <1>1, <1>2, <1>5
<1> QED
  BY <1>2, <1>4, <1>6

(* A character in a cell of the screen and in the same cell of the sheet.  *)
LEMMA ShowsCell ==
    ASSUME CgaAssumption, NEW buf, NEW sheet, NEW o \in Nat, NEW x,
           NEW k \in 0..(CRT_SIZE - 1),
           \A j \in 0..(CRT_SIZE - 1) : o + j \in Sheet,
           Shows(buf, sheet, o)
    PROVE  Shows([buf EXCEPT ![k] = x], [sheet EXCEPT ![o + k] = x], o)
<1> DEFINE b == [buf EXCEPT ![k] = x]
           p == [sheet EXCEPT ![o + k] = x]
<1>1. CRT_SIZE \in Nat
  BY ScreenSize
<1>2. /\ buf = [j \in 0..CRT_SIZE |-> buf[j]]
      /\ sheet = [j \in Sheet |-> sheet[j]]
  BY DEF Shows
<1>3. /\ b = [j \in 0..CRT_SIZE |-> IF j = k THEN x ELSE buf[j]]
      /\ p = [j \in Sheet |-> IF j = o + k THEN x ELSE sheet[j]]
  BY <1>2
<1> HIDE DEF b, p
<1>4. b = [j \in 0..CRT_SIZE |-> b[j]] /\ p = [j \in Sheet |-> p[j]]
  BY <1>3
<1>5. ASSUME NEW j \in 0..(CRT_SIZE - 1) PROVE b[j] = p[o + j]
  <2>1. buf[j] = sheet[o + j]
    BY DEF Shows
  <2>2. b[j] = IF j = k THEN x ELSE buf[j]
    BY <1>1, <1>3
  <2>3. p[o + j] = IF o + j = o + k THEN x ELSE sheet[o + j]
    BY <1>3
  <2>4. o + j = o + k <=> j = k
    BY <1>1
  <2> QED
    BY <2>1, <2>2, <2>3, <2>4
<1>6. ASSUME NEW j \in Sheet, j >= o + CRT_SIZE PROVE p[j] = "blank"
  <2>1. j # o + k
    BY <1>1, <1>6 DEF Sheet
  <2> QED
    BY <2>1, <1>3, <1>6 DEF Shows
<1>7. b[CRT_SIZE] = "beyond"
  <2>1. CRT_SIZE # k /\ CRT_SIZE \in 0..CRT_SIZE
    BY <1>1
  <2> QED
    BY <2>1, <1>3 DEF Shows
<1>8. Shows(b, p, o)
  BY <1>4, <1>5, <1>6, <1>7 DEF Shows
<1> QED
  BY <1>8 DEF b, p

(* Scrolling moves the screen down the sheet by one row.                   *)
LEMMA ShowsScrolled ==
    ASSUME CgaAssumption, NEW s, NEW sheet, NEW o \in Nat,
           \A j \in 0..(CRT_SIZE + CRT_COLS - 1) : o + j \in Sheet,
           Shows(s.buf, sheet, o), ~(s.pos < CRT_SIZE)
    PROVE  Shows(cga_scroll(s).buf, sheet, o + CRT_COLS)
<1> DEFINE b == cga_scroll(s).buf
           C == CRT_COLS
           S == CRT_SIZE
<1>1. S \in Nat /\ C \in Nat /\ 0 < C /\ C <= S
  BY ScreenSize
<1>2. b = [k \in 0..S |-> IF k < S - C THEN s.buf[k + C]
                          ELSE IF k < S THEN "blank" ELSE s.buf[k]]
  BY DEF cga_scroll
<1> HIDE DEF b
<1>3. b = [k \in 0..S |-> b[k]]
  BY <1>2
<1>4. ASSUME NEW k \in 0..(S - 1) PROVE b[k] = sheet[o + C + k]
  <2>1. k \in 0..S /\ k < S /\ k \in Nat
    BY <1>1
  <2>2. CASE k < S - C
    <3>1. k + C \in 0..(S - 1) /\ o + (k + C) = o + C + k
      BY <1>1, <2>1, <2>2
    <3>2. b[k] = s.buf[k + C]
      BY <1>2, <2>1, <2>2
    <3>3. s.buf[k + C] = sheet[o + (k + C)]
      BY <3>1 DEF Shows
    <3> QED
      BY <3>1, <3>2, <3>3
  <2>3. CASE ~(k < S - C)
    <3>1. b[k] = "blank"
      BY <1>2, <2>1, <2>3
    <3>2. C + k \in 0..(S + C - 1) /\ o + (C + k) = o + C + k /\ o + C + k >= o + S
      BY <1>1, <2>1, <2>3
    <3>3. o + C + k \in Sheet
      BY <3>2
    <3> QED
      BY <3>1, <3>2, <3>3 DEF Shows
  <2> QED
    BY <2>2, <2>3
<1>5. ASSUME NEW k \in Sheet, k >= o + C + S PROVE sheet[k] = "blank"
  <2>1. k >= o + S
    <3>1. k \in Int
      BY <1>1 DEF Sheet
    <3> QED
      BY <1>1, <1>5, <3>1
  <2> QED
    BY <2>1 DEF Shows
<1>6. b[S] = "beyond"
  <2>1. S \in 0..S /\ ~(S < S - C) /\ ~(S < S)
    BY <1>1
  <2>2. b[S] = s.buf[S]
    BY <1>2, <2>1
  <2> QED
    BY <2>2 DEF Shows
<1>7. sheet = [k \in Sheet |-> sheet[k]]
  BY DEF Shows
<1>8. Shows(b, sheet, o + C)
  BY <1>3, <1>4, <1>5, <1>6, <1>7 DEF Shows
<1> QED
  BY <1>8 DEF b

(* What the switch does to the screen it does to the sheet, and the        *)
(* position is on the screen or in the row below it.                       *)
LEMMA WriteShows ==
    ASSUME CgaAssumption, ScreenInv, NEW c \in Glyphs \cup {"BS", "LF", "CR"}
    PROVE  /\ Shows(cga_write(c).buf, Typeset(c), top * CRT_COLS)
           /\ cga_write(c).pos \in 0..(CRT_SIZE + CRT_COLS - 1)
<1> DEFINE o == top * CRT_COLS
           S == CRT_SIZE
           C == CRT_COLS
<1>1. S \in Nat /\ C \in Nat /\ 0 < C /\ C <= S
  BY ScreenSize
<1>2. /\ o \in Nat
      /\ \A k \in 0..(S + C - 1) : o + k \in Sheet
  <2>1. top \in Nat /\ top <= MaxPuts
    BY DEF ScreenInv, CgaAssumption
  <2> QED
    BY <2>1, ScreenOnSheet
<1>3. \A k \in 0..(S - 1) : o + k \in Sheet
  BY <1>1, <1>2
<1>4. crt_pos \in 0..(S - 1) /\ Shows(crt_buf, paper, o)
  BY DEF ScreenInv
<1>5. SheetPos = o + crt_pos
  BY DEF SheetPos
<1>6. crt_pos % C \in 0..(C - 1) /\ crt_pos % C <= crt_pos
  <2>1. crt_pos \in Nat
    BY <1>1, <1>4
  <2> QED
    BY <1>1, <2>1
<1> HIDE DEF o, S, C
<1>7. CASE c \in Glyphs
  <2>1. c # "BS" /\ c # "LF" /\ c # "CR"
    BY <1>7 DEF CgaAssumption
  <2>2. cga_write(c) = [buf |-> [crt_buf EXCEPT ![crt_pos] = c], pos |-> crt_pos + 1]
    BY <2>1 DEF cga_write
  <2>3. Typeset(c) = [paper EXCEPT ![o + crt_pos] = c]
    BY <2>1, <1>5, <1>7 DEF Typeset
  <2>4. Shows([crt_buf EXCEPT ![crt_pos] = c], [paper EXCEPT ![o + crt_pos] = c], o)
    BY <1>2, <1>3, <1>4, ShowsCell DEF S
  <2>5. crt_pos + 1 \in 0..(S + C - 1)
    BY <1>1, <1>4
  <2> QED
    BY <2>2, <2>3, <2>4, <2>5 DEF o, S, C
<1>8. CASE c = "BS" /\ crt_pos > 0
  <2>1. cga_write(c) = [buf |-> [crt_buf EXCEPT ![crt_pos - 1] = "blank"],
                        pos |-> crt_pos - 1]
    BY <1>8 DEF cga_write
  <2>2. crt_pos - 1 \in 0..(S - 1) /\ crt_pos - 1 \in 0..(S + C - 1)
    BY <1>1, <1>4, <1>8
  <2>3. SheetPos - 1 = o + (crt_pos - 1)
    BY <1>1, <1>2, <1>4, <1>5
  <2>4. Typeset(c) = [paper EXCEPT ![o + (crt_pos - 1)] = "blank"]
    <3>1. c \notin Glyphs
      BY <1>8 DEF CgaAssumption
    <3> QED
      BY <1>8, <2>3, <3>1 DEF Typeset
  <2>5. Shows([crt_buf EXCEPT ![crt_pos - 1] = "blank"],
              [paper EXCEPT ![o + (crt_pos - 1)] = "blank"], o)
    BY <1>2, <1>3, <1>4, <2>2, ShowsCell DEF S
  <2> QED
    BY <2>1, <2>2, <2>4, <2>5 DEF o, S, C
<1>9. CASE c \in {"BS", "LF", "CR"} /\ ~(c = "BS" /\ crt_pos > 0)
  <2>1. c \notin Glyphs
    BY <1>9 DEF CgaAssumption
  <2>2. Typeset(c) = paper
    BY <1>9, <2>1 DEF Typeset
  <2>3. cga_write(c).buf = crt_buf
    BY <1>9 DEF cga_write
  <2>4. cga_write(c).pos
          \in {crt_pos, crt_pos + C - (crt_pos % C), crt_pos - (crt_pos % C)}
    BY <1>9 DEF cga_write, C
  <2>5. {crt_pos, crt_pos + C - (crt_pos % C), crt_pos - (crt_pos % C)}
          \subseteq 0..(S + C - 1)
    <3>1. PICK r \in 0..(C - 1) : r = crt_pos % C /\ r <= crt_pos
      BY <1>6
    <3>2. {crt_pos, crt_pos + C - r, crt_pos - r} \subseteq 0..(S + C - 1)
      BY <1>1, <1>4, <3>1
    <3> QED
      BY <3>1, <3>2
  <2> QED
    BY <1>4, <2>2, <2>3, <2>4, <2>5 DEF o, S, C
<1> QED
  BY <1>7, <1>8, <1>9

LEMMA PutcStep ==
    ASSUME CgaAssumption, ScreenInv, NEW c \in Glyphs \cup {"BS", "LF", "CR"},
           cga_putc(c)
    PROVE  ScreenInv'
<1> DEFINE s == cga_write(c)
           o == top * CRT_COLS
<1>1. /\ CRT_SIZE \in Nat /\ CRT_COLS \in Nat
      /\ 0 < CRT_COLS /\ CRT_COLS <= CRT_SIZE
      /\ MaxPuts \in Nat
  BY ScreenSize DEF CgaAssumption
<1>2. top \in Nat /\ puts \in Nat /\ top <= puts /\ puts < MaxPuts
  BY DEF ScreenInv, cga_putc
<1>3. /\ o \in Nat
      /\ (top + 1) * CRT_COLS = o + CRT_COLS
      /\ \A k \in 0..(CRT_SIZE + CRT_COLS - 1) : o + k \in Sheet
  <2>1. top <= MaxPuts
    BY <1>1, <1>2
  <2> QED
    BY <1>2, <2>1, ScreenOnSheet
<1>4. Shows(s.buf, Typeset(c), o) /\ s.pos \in 0..(CRT_SIZE + CRT_COLS - 1)
  BY WriteShows
<1>5. /\ puts' = puts + 1
      /\ crt_buf' = cga_scroll(s).buf
      /\ crt_pos' = cga_scroll(s).pos
      /\ cursor' = cga_scroll(s).pos
      /\ paper' = Typeset(c)
      /\ top' = IF s.pos >= CRT_SIZE THEN top + 1 ELSE top
  BY DEF cga_putc
<1> HIDE DEF s
<1>6. /\ puts' \in Nat /\ puts' <= MaxPuts
      /\ top' \in Nat /\ top' <= puts'
  BY <1>1, <1>2, <1>5
<1>7. CASE s.pos < CRT_SIZE
  <2>1. cga_scroll(s) = s
    BY <1>7 DEF cga_scroll
  <2>2. top' = top /\ s.pos \in 0..(CRT_SIZE - 1)
    BY <1>1, <1>4, <1>5, <1>7
  <2>3. Shows(crt_buf', paper', top' * CRT_COLS)
    BY <1>4, <1>5, <2>1, <2>2
  <2> QED
    BY <1>5, <1>6, <2>1, <2>2, <2>3 DEF ScreenInv, Shows, CRT_SIZE, Sheet
<1>8. CASE ~(s.pos < CRT_SIZE)
  <2>1. cga_scroll(s).pos = s.pos - CRT_COLS
    BY <1>8 DEF cga_scroll
  <2>2. top' = top + 1 /\ s.pos - CRT_COLS \in 0..(CRT_SIZE - 1)
    BY <1>1, <1>4, <1>5, <1>8
  <2>3. Shows(cga_scroll(s).buf, Typeset(c), o + CRT_COLS)
    <3> HIDE DEF o
    <3> QED
      BY <1>3, <1>4, <1>8, ShowsScrolled
  <2>4. Shows(crt_buf', paper', top' * CRT_COLS)
    BY <1>3, <1>5, <2>2, <2>3
  <2> QED
    BY <1>5, <1>6, <2>1, <2>2, <2>4 DEF ScreenInv, Shows, CRT_SIZE, Sheet
<1> QED
  BY <1>7, <1>8

LEMMA ScreenInitInv == ASSUME CgaAssumption, ScreenInit PROVE ScreenInv
<1>1. CRT_SIZE \in Nat /\ CRT_COLS \in Nat /\ MaxPuts \in Nat
  BY ScreenSize DEF CgaAssumption
<1>2. 0 * CRT_COLS = 0
  BY <1>1
<1>3. \A k \in 0..(CRT_SIZE - 1) : k \in Sheet
  <2>1. \A k \in 0..(CRT_SIZE + CRT_COLS - 1) : 0 * CRT_COLS + k \in Sheet
    BY <1>1, ScreenOnSheet
  <2> QED
    BY <1>1, <1>2, <2>1
<1>4. Shows(crt_buf, paper, 0)
  <2>1. /\ crt_buf = [k \in 0..CRT_SIZE |-> crt_buf[k]]
        /\ paper = [k \in Sheet |-> paper[k]]
    BY DEF ScreenInit
  <2>2. \A k \in 0..(CRT_SIZE - 1) : crt_buf[k] = paper[0 + k]
    BY <1>1, <1>3 DEF ScreenInit
  <2>3. ASSUME NEW k \in Sheet, k >= 0 + CRT_SIZE PROVE paper[k] = "blank"
    <3>1. k \in Int
      BY <1>1 DEF Sheet
    <3>2. ~(k < CRT_SIZE)
      BY <1>1, <2>3, <3>1
    <3> QED
      BY <3>2 DEF ScreenInit
  <2>4. crt_buf[CRT_SIZE] = "beyond"
    BY <1>1 DEF ScreenInit
  <2> QED
    BY <2>1, <2>2, <2>3, <2>4 DEF Shows
<1> QED
  BY <1>1, <1>2, <1>4 DEF ScreenInv, ScreenInit

(* Whatever is written, the screen shows the last CRT_ROWS rows of it, the *)
(* cursor is on the screen and is where the next character goes, and       *)
(* nothing is written behind video memory (cga_putc), for any number of    *)
(* rows and columns, any characters and any cursor left by the firmware.   *)
THEOREM ScreenCorrect == ASSUME CgaAssumption PROVE ScreenSpec => []ScreenOK
<1>1. ScreenInit => ScreenInv
  BY ScreenInitInv
<1>2. ScreenInv /\ [ScreenStep]_screen_vars => ScreenInv'
  <2>1. ASSUME ScreenInv, UNCHANGED screen_vars PROVE ScreenInv'
    BY <2>1 DEF ScreenInv, Shows, screen_vars, CRT_SIZE, Sheet
  <2> QED
    BY <2>1, PutcStep DEF ScreenStep
<1>3. ScreenInv => ScreenOK
  BY DEF ScreenInv, Shows, ScreenOK
<1> QED
  BY <1>1, <1>2, <1>3, PTL DEF ScreenSpec
=============================================================================
