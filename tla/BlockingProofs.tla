--------------------------- MODULE BlockingProofs ---------------------------
(***************************************************************************)
(* Semaphores keep their queues exact and count their permits, for any     *)
(* processes, semaphores and initial values (SemClients), and the dining   *)
(* philosophers that use them, alone or under a monitor, eat without       *)
(* conflict, however many they are (Philosophers).                         *)
(***************************************************************************)
EXTENDS SemClients, Philosophers, SchedProofs

(* Where a process is in down(), what it sleeps for and the flags of its   *)
(* wait_t agree: NoPermitPastWaiters and WaitersQueued alone are not       *)
(* inductive, because they would let a process in down() sleep for         *)
(* something else and be woken by that.                                    *)
DownState ==
    /\ \A p \in Procs : state[p] = "RUNNABLE" => wait_state[p] = "NONE"
    /\ \A p \in Procs : down_pc[p] = "out" =>
          wait_state[p] # "WT_KSEM" /\ wakeup_flags[p] = "NONE"
    /\ \A p \in Procs : down_pc[p] # "out" =>
          \/ wait_state[p] = "WT_KSEM" /\ wakeup_flags[p] = "WT_INTERRUPTED"
          \/ state[p] = "RUNNABLE" /\ wakeup_flags[p] = "WT_KSEM"
    /\ down_pc[current] = "woken" => state[current] = "RUNNABLE"

(* What every user of semaphores relies on and keeps.                      *)
QueueInv ==
    /\ SchedTypeOK
    /\ SemTypeOK
    /\ RunQueueOK
    /\ NoPermitPastWaiters
    /\ WaitersQueued
    /\ DownState

(* WaitersQueued part by part.                                             *)
LEMMA WaitersQueuedParts ==
    WaitersQueued <=>
        /\ \A s \in Sems : Distinct(wait_queue[s])
        /\ \A p \in Procs :
              /\ wait_state[p] = "WT_KSEM" <=> \E s \in Sems : Queued(s, p)
              /\ \A s, t \in Sems : Queued(s, p) /\ Queued(t, p) => s = t
              /\ wait_state[p] = "WT_KSEM" => state[p] = "SLEEPING"
BY DEF WaitersQueued, Distinct

(* The types that the steps below need, once.                              *)
LEMMA QueueTypes ==
    ASSUME QueueInv
    PROVE  /\ value \in [Sems -> Nat]
           /\ wait_queue \in [Sems -> Seq(Procs)]
           /\ wakeup_flags \in [Procs -> Flags]
           /\ down_pc \in [Procs -> DownLabels]
           /\ current \in Procs
           /\ state \in [Procs -> States]
           /\ wait_state \in [Procs -> WaitStates]
           /\ SchedTypeOK /\ RunQueueOK
BY DEF QueueInv, SemTypeOK, SchedTypeOK

(* down() returns only with a permit, as the code asserts.                 *)
LEMMA GrantedWhenWoken == ASSUME QueueInv PROVE DownGranted
BY DEF QueueInv, DownState, DownGranted

(* Initially every process that there is can run and no queue has members. *)
LEMMA QueueInvInit ==
    ASSUME SchedTypeOK, RunQueueOK, NEW v \in [Sems -> Nat], SemInit(v),
           wait_state = [p \in Procs |-> "NONE"]
    PROVE  QueueInv
<1>1. SemTypeOK
  BY DEF SemInit, SemTypeOK, Flags, DownLabels
<1>2. \A s \in Sems : \A p : ~Queued(s, p)
  BY DEF SemInit, Queued, Linked
<1>3. NoPermitPastWaiters /\ WaitersQueued
  BY <1>2, WaitersQueuedParts DEF SemInit, NoPermitPastWaiters, Distinct
<1>4. DownState
  BY DEF SemInit, DownState, SchedTypeOK
<1> QED
  BY <1>1, <1>3, <1>4 DEF QueueInv

(* up() without waiters adds a permit; nobody is queued that could be      *)
(* passed over.                                                            *)
LEMMA UpFree ==
    ASSUME QueueInv, NEW s \in Sems, up(s), wait_queue[s] = <<>>
    PROVE  /\ QueueInv'
           /\ value' = [value EXCEPT ![s] = @ + 1]
           /\ UNCHANGED <<wait_queue, wakeup_flags, sched_vars, down_pc>>
<1>1. /\ value' = [value EXCEPT ![s] = @ + 1]
      /\ UNCHANGED <<wait_queue, wakeup_flags, sched_vars, down_pc>>
  BY DEF up
<1>2. SchedTypeOK' /\ RunQueueOK'
  BY <1>1, QueueTypes, StutterKeeps
<1>3. SemTypeOK'
  BY <1>1, QueueTypes DEF SemTypeOK
<1>4. NoPermitPastWaiters'
  BY <1>1, QueueTypes DEF QueueInv, NoPermitPastWaiters
<1>5. WaitersQueued' /\ DownState'
  BY <1>1 DEF QueueInv, WaitersQueued, DownState, Queued, sched_vars
<1> QED
  BY <1>1, <1>2, <1>3, <1>4, <1>5 DEF QueueInv

(* up() when processes wait: the first of them, and only that one, leaves  *)
(* its queue, has the permit and can run.                                  *)
LEMMA UpHandsOver ==
    ASSUME QueueInv, NEW s \in Sems, up(s), wait_queue[s] # <<>>
    PROVE  \E p \in Procs :
              /\ Queued(s, p)
              /\ state[p] = "SLEEPING"
              /\ down_pc[p] # "out"
              /\ wakeup_proc(state, p)
              /\ wait_queue' = [wait_queue EXCEPT ![s] = Tail(@)]
              /\ wakeup_flags' = [wakeup_flags EXCEPT ![p] = "WT_KSEM"]
              /\ state' = [state EXCEPT ![p] = "RUNNABLE"]
              /\ wait_state' = [wait_state EXCEPT ![p] = "NONE"]
              /\ UNCHANGED <<value, need_resched, current, down_pc>>
              /\ Distinct(Tail(wait_queue[s]))
              /\ Tail(wait_queue[s]) \in Seq(Procs)
              /\ \A t \in Sems, q \in Procs :
                    Queued(t, q)' <=> Queued(t, q) /\ q # p
<1> DEFINE p == Head(wait_queue[s])
<1>1. /\ wait_queue' = [wait_queue EXCEPT ![s] = Tail(@)]
      /\ wakeup_flags' = [wakeup_flags EXCEPT ![p] = "WT_KSEM"]
      /\ wakeup_proc(state, p)
      /\ UNCHANGED <<value, need_resched, current, down_pc>>
  BY DEF up
<1>2. wait_queue[s] \in Seq(Procs) /\ Distinct(wait_queue[s])
  BY QueueTypes, WaitersQueuedParts DEF QueueInv
<1>3. /\ p \in Procs
      /\ Linked(wait_queue[s], p)
      /\ Tail(wait_queue[s]) \in Seq(Procs)
      /\ Distinct(Tail(wait_queue[s]))
      /\ \A q : Linked(Tail(wait_queue[s]), q) <=> Linked(wait_queue[s], q) /\ q # p
  BY <1>2, TailLinked
<1> HIDE DEF p
<1>4. /\ Queued(s, p) /\ wait_state[p] = "WT_KSEM" /\ state[p] = "SLEEPING"
      /\ down_pc[p] # "out"
  BY <1>3, WaitersQueuedParts DEF QueueInv, DownState, Queued
<1>5. /\ state' = [state EXCEPT ![p] = "RUNNABLE"]
      /\ wait_state' = [wait_state EXCEPT ![p] = "NONE"]
  BY <1>1, <1>3, <1>4, QueueTypes, WakeupEffect
<1>6. ASSUME NEW t \in Sems, NEW q \in Procs
      PROVE  Queued(t, q)' <=> Queued(t, q) /\ q # p
  <2>1. CASE t = s
    BY <1>1, <1>3, <2>1, QueueTypes DEF Queued
  <2>2. CASE t # s
    <3>1. wait_queue'[t] = wait_queue[t]
      BY <1>1, <2>2, QueueTypes
    <3>2. q = p => ~Queued(t, q)
      BY <1>3, <1>4, <2>2, WaitersQueuedParts DEF QueueInv
    <3> QED
      BY <3>1, <3>2 DEF Queued
  <2> QED
    BY <2>1, <2>2
<1> QED
  BY <1>1, <1>3, <1>4, <1>5, <1>6

LEMMA UpWake ==
    ASSUME QueueInv, NEW s \in Sems, up(s), wait_queue[s] # <<>>
    PROVE  QueueInv'
<1>1. PICK p \in Procs :
          /\ Queued(s, p)
          /\ state[p] = "SLEEPING"
          /\ down_pc[p] # "out"
          /\ wakeup_proc(state, p)
          /\ wait_queue' = [wait_queue EXCEPT ![s] = Tail(@)]
          /\ wakeup_flags' = [wakeup_flags EXCEPT ![p] = "WT_KSEM"]
          /\ state' = [state EXCEPT ![p] = "RUNNABLE"]
          /\ wait_state' = [wait_state EXCEPT ![p] = "NONE"]
          /\ UNCHANGED <<value, need_resched, current, down_pc>>
          /\ Distinct(Tail(wait_queue[s]))
          /\ Tail(wait_queue[s]) \in Seq(Procs)
          /\ \A t \in Sems, q \in Procs : Queued(t, q)' <=> Queued(t, q) /\ q # p
  BY UpHandsOver
<1>2. SchedTypeOK' /\ RunQueueOK'
  <2>1. SameOthers(state)
    BY QueueTypes DEF SameOthers, RunQueueOK
  <2> QED
    BY <1>1, <2>1, QueueTypes, WakeupKeeps
<1>3. SemTypeOK'
  BY <1>1, QueueTypes DEF SemTypeOK, Flags
<1>4. NoPermitPastWaiters'
  BY <1>1, QueueTypes DEF QueueInv, NoPermitPastWaiters
<1>5. WaitersQueued'
  <2>1. \A t \in Sems : Distinct(wait_queue[t])'
    BY <1>1, QueueTypes, WaitersQueuedParts DEF QueueInv, Distinct
  <2>2. \A q \in Procs :
           /\ wait_state'[q] = "WT_KSEM" <=> \E t \in Sems : Queued(t, q)'
           /\ \A t, u \in Sems : Queued(t, q)' /\ Queued(u, q)' => t = u
           /\ wait_state'[q] = "WT_KSEM" => state'[q] = "SLEEPING"
    BY <1>1, QueueTypes, WaitersQueuedParts DEF QueueInv
  <2> QED
    BY <2>1, <2>2 DEF WaitersQueued, Distinct
<1>6. DownState'
  BY <1>1, QueueTypes DEF QueueInv, DownState
<1> QED
  BY <1>2, <1>3, <1>4, <1>5, <1>6 DEF QueueInv

(* down() takes a permit at once.                                          *)
LEMMA TakePermit ==
    ASSUME QueueInv, NEW s \in Sems, down_take(s), UNCHANGED sched_vars
    PROVE  /\ QueueInv'
           /\ value[s] > 0
           /\ value' = [value EXCEPT ![s] = @ - 1]
           /\ down_pc[current] = "out"
           /\ UNCHANGED <<wait_queue, wakeup_flags, down_pc>>
<1>1. /\ value[s] > 0
      /\ value' = [value EXCEPT ![s] = @ - 1]
      /\ UNCHANGED <<wait_queue, wakeup_flags, sched_vars, down_pc>>
      /\ down_pc[current] = "out"
  BY DEF down_take
<1>2. SchedTypeOK' /\ RunQueueOK'
  BY <1>1, QueueTypes, StutterKeeps
<1>3. SemTypeOK'
  BY <1>1, QueueTypes DEF SemTypeOK
<1>4. NoPermitPastWaiters'
  BY <1>1, QueueTypes DEF QueueInv, NoPermitPastWaiters
<1>5. WaitersQueued' /\ DownState'
  BY <1>1 DEF QueueInv, WaitersQueued, DownState, Queued, sched_vars
<1> QED
  BY <1>1, <1>2, <1>3, <1>4, <1>5 DEF QueueInv

(* down() finds no permit: current is queued, once and in this queue only. *)
LEMMA BlockQueues ==
    ASSUME QueueInv, NEW s \in Sems, down_block(s)
    PROVE  /\ Append(wait_queue[s], current) \in Seq(Procs)
           /\ Distinct(Append(wait_queue[s], current))
           /\ \A t \in Sems : ~Queued(t, current)
           /\ \A t \in Sems, q \in Procs :
                 Queued(t, q)' <=> Queued(t, q) \/ (t = s /\ q = current)
<1>1. \A t \in Sems : ~Queued(t, current)
  BY QueueTypes, WaitersQueuedParts DEF QueueInv, DownState, down_block
<1>2. wait_queue[s] \in Seq(Procs) /\ Distinct(wait_queue[s])
  BY QueueTypes, WaitersQueuedParts DEF QueueInv
<1>3. /\ Append(wait_queue[s], current) \in Seq(Procs)
      /\ Distinct(Append(wait_queue[s], current))
      /\ \A q : Linked(Append(wait_queue[s], current), q)
                   <=> Linked(wait_queue[s], q) \/ q = current
  BY <1>1, <1>2, QueueTypes, AppendLinked DEF Queued
<1>4. wait_queue' = [wait_queue EXCEPT ![s] = Append(@, current)]
  BY DEF down_block
<1>5. ASSUME NEW t \in Sems, NEW q \in Procs
      PROVE  Queued(t, q)' <=> Queued(t, q) \/ (t = s /\ q = current)
  <2>1. wait_queue'[t] = IF t = s THEN Append(wait_queue[s], current) ELSE wait_queue[t]
    BY <1>4, QueueTypes
  <2> QED
    BY <1>3, <2>1 DEF Queued
<1> QED
  BY <1>1, <1>3, <1>5

LEMMA BlockInDown ==
    ASSUME QueueInv, NEW s \in Sems, current # idleproc, down_block(s)
    PROVE  /\ QueueInv'
           /\ wakeup_flags' = [wakeup_flags EXCEPT ![current] = "WT_INTERRUPTED"]
           /\ wait_state' = [wait_state EXCEPT ![current] = "WT_KSEM"]
           /\ down_pc' = [down_pc EXCEPT ![current] = "sched"]
           /\ UNCHANGED <<value, current>>
<1>1. /\ value[s] = 0
      /\ set_waiting("WT_KSEM")
      /\ wait_queue' = [wait_queue EXCEPT ![s] = Append(@, current)]
      /\ wakeup_flags' = [wakeup_flags EXCEPT ![current] = "WT_INTERRUPTED"]
      /\ down_pc[current] = "out"
      /\ down_pc' = [down_pc EXCEPT ![current] = "sched"]
      /\ state' = [state EXCEPT ![current] = "SLEEPING"]
      /\ wait_state' = [wait_state EXCEPT ![current] = "WT_KSEM"]
      /\ UNCHANGED <<value, need_resched, time_slice, current, run_list>>
  BY DEF down_block, set_waiting
<1>2. current \in Procs
  BY QueueTypes
<1>3. /\ Append(wait_queue[s], current) \in Seq(Procs)
      /\ Distinct(Append(wait_queue[s], current))
      /\ \A t \in Sems : ~Queued(t, current)
      /\ \A t \in Sems, q \in Procs :
            Queued(t, q)' <=> Queued(t, q) \/ (t = s /\ q = current)
  BY BlockQueues
<1>4. SchedTypeOK' /\ RunQueueOK'
  BY <1>1, <1>2, QueueTypes, SetWaitingKeeps DEF WaitStates
<1>5. SemTypeOK'
  BY <1>1, <1>2, <1>3, QueueTypes DEF SemTypeOK, Flags, DownLabels
<1>6. NoPermitPastWaiters'
  BY <1>1, QueueTypes DEF QueueInv, NoPermitPastWaiters
<1>7. WaitersQueued'
  <2>1. \A t \in Sems : Distinct(wait_queue[t])'
    BY <1>1, <1>3, QueueTypes, WaitersQueuedParts DEF QueueInv, Distinct
  <2>2. \A q \in Procs :
           /\ wait_state'[q] = "WT_KSEM" <=> \E t \in Sems : Queued(t, q)'
           /\ \A t, u \in Sems : Queued(t, q)' /\ Queued(u, q)' => t = u
           /\ wait_state'[q] = "WT_KSEM" => state'[q] = "SLEEPING"
    BY <1>1, <1>2, <1>3, QueueTypes, WaitersQueuedParts DEF QueueInv
  <2> QED
    BY <2>1, <2>2 DEF WaitersQueued, Distinct
<1>8. DownState'
  BY <1>1, <1>2, QueueTypes DEF QueueInv, DownState
<1> QED
  BY <1>1, <1>4, <1>5, <1>6, <1>7, <1>8 DEF QueueInv

(* down() goes on after a wakeup: current has been taken off the queue by  *)
(* up(), and wait_current_del finds nothing to do.                         *)
LEMMA ReturnFromDown ==
    ASSUME QueueInv, NEW s \in Sems, down_return(s), UNCHANGED sched_vars
    PROVE  /\ QueueInv'
           /\ UNCHANGED <<wait_queue, value>>
           /\ \A t \in Sems : ~Queued(t, current)
           /\ wakeup_flags[current] = "WT_KSEM"
           /\ wakeup_flags' = [wakeup_flags EXCEPT ![current] = "NONE"]
           /\ down_pc[current] = "woken"
           /\ down_pc' = [down_pc EXCEPT ![current] = "out"]
<1>1. /\ down_pc[current] = "woken"
      /\ state[current] = "RUNNABLE"
      /\ wait_state[current] = "NONE"
  BY QueueTypes DEF down_return, QueueInv, DownState
<1>2. \A t \in Sems : ~Queued(t, current)
  BY <1>1, QueueTypes, WaitersQueuedParts DEF QueueInv
<1>3. wait_queue[s] \in Seq(Procs) /\ Distinct(wait_queue[s])
  BY QueueTypes, WaitersQueuedParts DEF QueueInv
<1>4. wait_current_del(wait_queue[s], current) = wait_queue[s]
  BY <1>2, <1>3, DelLinked DEF Queued
<1>5. UNCHANGED <<wait_queue, value, sched_vars>>
  BY <1>4, QueueTypes DEF down_return
<1>6. /\ wakeup_flags[current] = "WT_KSEM"
      /\ wakeup_flags' = [wakeup_flags EXCEPT ![current] = "NONE"]
      /\ down_pc' = [down_pc EXCEPT ![current] = "out"]
  BY <1>1, QueueTypes DEF QueueInv, DownState, down_return
<1>7. SchedTypeOK' /\ RunQueueOK'
  BY <1>5, QueueTypes, StutterKeeps
<1>8. SemTypeOK'
  BY <1>5, <1>6, QueueTypes DEF SemTypeOK, Flags, DownLabels
<1>9. NoPermitPastWaiters' /\ WaitersQueued'
  BY <1>5 DEF QueueInv, NoPermitPastWaiters, WaitersQueued, Queued, sched_vars
<1>10. DownState'
  BY <1>1, <1>5, <1>6, QueueTypes DEF QueueInv, DownState, sched_vars
<1> QED
  BY <1>1, <1>2, <1>5, <1>6, <1>7, <1>8, <1>9, <1>10 DEF QueueInv

(* Steps that leave the semaphores alone, and the state of the processes   *)
(* in down() too.                                                          *)
LEMMA Elsewhere ==
    ASSUME QueueInv, SchedTypeOK', RunQueueOK',
           UNCHANGED <<value, wait_queue, wakeup_flags>>,
           down_pc' \in [Procs -> DownLabels],
           \A p \in Procs :
              /\ down_pc'[p] = "out" <=> down_pc[p] = "out"
              /\ down_pc[p] # "out" => UNCHANGED <<state[p], wait_state[p]>>
              /\ state'[p] = "RUNNABLE" => wait_state'[p] = "NONE"
              /\ wait_state'[p] = "WT_KSEM" <=> wait_state[p] = "WT_KSEM",
           down_pc'[current'] = "woken" => state'[current'] = "RUNNABLE"
    PROVE  QueueInv'
<1>1. SemTypeOK'
  BY QueueTypes DEF SemTypeOK
<1>2. \A t \in Sems, q \in Procs : Queued(t, q)' <=> Queued(t, q)
  BY DEF Queued
<1>3. \A p \in Procs : wait_state[p] = "WT_KSEM" => down_pc[p] # "out"
  BY DEF QueueInv, DownState
<1>4. NoPermitPastWaiters'
  BY DEF QueueInv, NoPermitPastWaiters
<1>5. WaitersQueued'
  BY <1>2, <1>3, QueueTypes DEF QueueInv, WaitersQueued
<1>6. DownState'
  BY QueueTypes DEF QueueInv, DownState
<1> QED
  BY <1>1, <1>4, <1>5, <1>6 DEF QueueInv

(* The schedule() in down(), and any other.                                *)
LEMMA SchedInDown ==
    ASSUME QueueInv, down_sched
    PROVE  /\ QueueInv'
           /\ UNCHANGED <<value, wait_queue, wakeup_flags, wait_state>>
           /\ down_pc[current] = "sched"
           /\ down_pc' = [down_pc EXCEPT ![current] = "woken"]
<1>1. /\ schedule
      /\ down_pc[current] = "sched"
      /\ down_pc' = [down_pc EXCEPT ![current] = "woken"]
      /\ UNCHANGED <<value, wait_queue, wakeup_flags>>
  BY DEF down_sched
<1>2. /\ SchedTypeOK' /\ RunQueueOK'
      /\ UNCHANGED <<state, wait_state>>
      /\ state[current'] = "RUNNABLE"
  BY <1>1, QueueTypes, ScheduleKeeps
<1>3. down_pc' \in [Procs -> DownLabels]
  BY <1>1, QueueTypes DEF DownLabels
<1>4. \A p \in Procs : state'[p] = "RUNNABLE" => wait_state'[p] = "NONE"
  BY <1>2 DEF QueueInv, DownState
<1>5. QueueInv'
  BY <1>1, <1>2, <1>3, <1>4, QueueTypes, Elsewhere
<1> QED
  BY <1>1, <1>2, <1>5

LEMMA SchedElsewhere ==
    ASSUME QueueInv, schedule, UNCHANGED sem_vars
    PROVE  QueueInv' /\ UNCHANGED <<state, wait_state>>
<1>1. UNCHANGED <<value, wait_queue, wakeup_flags, down_pc>>
  BY DEF sem_vars
<1>2. /\ SchedTypeOK' /\ RunQueueOK'
      /\ UNCHANGED <<state, wait_state>>
      /\ state[current'] = "RUNNABLE"
  BY QueueTypes, ScheduleKeeps
<1>3. \A p \in Procs : state'[p] = "RUNNABLE" => wait_state'[p] = "NONE"
  BY <1>2 DEF QueueInv, DownState
<1>4. QueueInv'
  BY <1>1, <1>2, <1>3, QueueTypes, Elsewhere
<1> QED
  BY <1>2, <1>4

(* A process that is not in down() goes to sleep for something else ...    *)
LEMMA SleepElsewhere ==
    ASSUME QueueInv, set_waiting("WT_TIMER"), current # idleproc,
           down_pc[current] = "out",
           UNCHANGED <<need_resched, time_slice, current, run_list, sem_vars>>
    PROVE  QueueInv'
<1>1. UNCHANGED <<value, wait_queue, wakeup_flags, down_pc>>
  BY DEF sem_vars
<1>2. SchedTypeOK' /\ RunQueueOK'
  BY QueueTypes, SetWaitingKeeps DEF WaitStates
<1>3. ASSUME NEW p \in Procs
      PROVE  /\ down_pc[p] # "out" => UNCHANGED <<state[p], wait_state[p]>>
             /\ state'[p] = "RUNNABLE" => wait_state'[p] = "NONE"
             /\ wait_state'[p] = "WT_KSEM" <=> wait_state[p] = "WT_KSEM"
  BY QueueTypes DEF set_waiting, QueueInv, DownState
<1> QED
  BY <1>1, <1>2, <1>3, QueueTypes, Elsewhere

(* ... and is woken: nobody in down() is.                                  *)
LEMMA WakeElsewhere ==
    ASSUME QueueInv, NEW p \in Procs, wait_state[p] \in WT_INTERRUPTED,
           wakeup_proc(state, p), UNCHANGED <<need_resched, current, sem_vars>>
    PROVE  /\ QueueInv'
           /\ wait_state' = [wait_state EXCEPT ![p] = "NONE"]
<1>1. UNCHANGED <<need_resched, current, value, wait_queue, wakeup_flags, down_pc>>
  BY DEF sem_vars
<1>2. SameOthers(state)
  BY QueueTypes DEF SameOthers, RunQueueOK
<1>3. SchedTypeOK' /\ RunQueueOK'
  BY <1>1, <1>2, QueueTypes, WakeupKeeps
<1>4. down_pc[p] = "out" /\ state[p] # "RUNNABLE" /\ wait_state[p] # "WT_KSEM"
  BY QueueTypes DEF WT_INTERRUPTED, QueueInv, DownState
<1>5. /\ state' = [state EXCEPT ![p] = "RUNNABLE"]
      /\ wait_state' = [wait_state EXCEPT ![p] = "NONE"]
  BY <1>4 DEF wakeup_proc
<1>6. ASSUME NEW q \in Procs
      PROVE  /\ down_pc[q] # "out" => UNCHANGED <<state[q], wait_state[q]>>
             /\ state'[q] = "RUNNABLE" => wait_state'[q] = "NONE"
             /\ wait_state'[q] = "WT_KSEM" <=> wait_state[q] = "WT_KSEM"
  BY <1>4, <1>5, QueueTypes DEF QueueInv, DownState
<1>7. down_pc'[current'] = "woken" => state'[current'] = "RUNNABLE"
  BY <1>1, <1>5, QueueTypes DEF QueueInv, DownState
<1>8. QueueInv'
  BY <1>1, <1>3, <1>6, <1>7, QueueTypes, Elsewhere
<1> QED
  BY <1>5, <1>8

LEMMA QueueStutter ==
    ASSUME QueueInv, UNCHANGED <<sched_vars, sem_vars>> PROVE QueueInv'
<1>1. UNCHANGED <<sched_vars, value, wait_queue, wakeup_flags, down_pc>>
  BY DEF sem_vars
<1>2. SchedTypeOK' /\ RunQueueOK'
  BY <1>1, QueueTypes, StutterKeeps
<1>3. SemTypeOK'
  BY <1>1, QueueTypes DEF SemTypeOK
<1>4. NoPermitPastWaiters' /\ WaitersQueued' /\ DownState'
  BY <1>1 DEF QueueInv, NoPermitPastWaiters, WaitersQueued, DownState, Queued, sched_vars
<1> QED
  BY <1>2, <1>3, <1>4 DEF QueueInv

-----------------------------------------------------------------------------
(* The processes of SemClients: which semaphore a process in down() waits  *)
(* for is the one in whose queue it is.  up() hands the permit of this     *)
(* semaphore to a process that still waits for it.                         *)
TargetOK ==
    /\ target \in [Procs -> Sems \cup {NULL}]
    /\ \A p \in Procs : down_pc[p] = "out" <=> target[p] = NULL
    /\ \A p \in Procs, s \in Sems : Queued(s, p) => target[p] = s

ClientInv == QueueInv /\ TargetOK

LEMMA ClientInvInit == ASSUME SemClientsAssumption, Init PROVE ClientInv
<1> DEFINE others == Procs \ {idleproc, current}
<1>1. IsFiniteSet(others) /\ Cardinality(others) = Cardinality(Procs) - 2
  <2>1. /\ IsFiniteSet(Procs \ {idleproc})
        /\ Cardinality(Procs \ {idleproc}) = Cardinality(Procs) - 1
    BY SchedAssumption, FS_RemoveElement DEF SemClientsAssumption
  <2>2. /\ IsFiniteSet((Procs \ {idleproc}) \ {current})
        /\ Cardinality((Procs \ {idleproc}) \ {current})
             = Cardinality(Procs \ {idleproc}) - 1
    BY <2>1, FS_RemoveElement DEF Init
  <2>3. others = (Procs \ {idleproc}) \ {current}
    OBVIOUS
  <2>4. Cardinality(Procs) \in Nat
    BY FS_CardinalityType DEF SemClientsAssumption
  <2> QED
    BY <2>1, <2>2, <2>3, <2>4
<1>2. Distinct(run_list)
  BY DEF Init, RunListDistinct, Distinct
<1>3. run_list \in Seq(others) /\ \A p : Linked(run_list, p) <=> p \in others
  <2>1. run_list \in [1..Cardinality(others) -> others]
    BY <1>1 DEF Init
  <2> QED
    BY <1>1, <1>2, <2>1, FullQueue
<1>4. run_list \in Seq(Procs)
  BY <1>3, SeqMonotonic
<1>5. SchedTypeOK
  BY <1>4, SchedAssumption DEF Init, SchedTypeOK, States, WaitStates
<1>6. RunQueueOK
  BY <1>2, <1>3, SchedAssumption, RunQueueLinked DEF Init
<1>7. QueueInv
  BY <1>5, <1>6, QueueInvInit DEF Init, SemClientsAssumption
<1>8. TargetOK
  BY DEF Init, SemInit, TargetOK, Queued, Linked
<1> QED
  BY <1>7, <1>8 DEF ClientInv

LEMMA UpStep ==
    ASSUME SemClientsAssumption, ClientInv, NEW s \in Sems, client_up(s)
    PROVE  ClientInv'
<1>1. up(s) /\ UNCHANGED target
  BY DEF client_up
<1>2. QueueInv'
  BY <1>1, UpFree, UpWake DEF ClientInv
<1>3. CASE wait_queue[s] = <<>>
  <2>1. UNCHANGED <<wait_queue, down_pc, target>>
    BY <1>1, <1>3 DEF up
  <2>2. TargetOK'
    BY <2>1 DEF ClientInv, TargetOK, Queued
  <2> QED
    BY <1>2, <2>2 DEF ClientInv
<1>4. CASE wait_queue[s] # <<>>
  <2>1. PICK p \in Procs :
            /\ UNCHANGED down_pc
            /\ \A t \in Sems, q \in Procs : Queued(t, q)' <=> Queued(t, q) /\ q # p
    BY <1>1, <1>4, UpHandsOver DEF ClientInv
  <2>2. TargetOK'
    BY <1>1, <2>1 DEF ClientInv, TargetOK
  <2> QED
    BY <1>2, <2>2 DEF ClientInv
<1> QED
  BY <1>3, <1>4

LEMMA TakeStep ==
    ASSUME SemClientsAssumption, ClientInv, NEW s \in Sems,
           down_take(s), UNCHANGED <<sched_vars, target>>
    PROVE  ClientInv'
<1>1. QueueInv' /\ UNCHANGED <<wait_queue, down_pc>>
  BY TakePermit DEF ClientInv
<1>2. TargetOK'
  BY <1>1 DEF ClientInv, TargetOK, Queued
<1> QED
  BY <1>1, <1>2 DEF ClientInv

LEMMA BlockStep ==
    ASSUME SemClientsAssumption, ClientInv, NEW s \in Sems, Free, down_block(s), Aim(s)
    PROVE  ClientInv'
<1>1. /\ target' = [target EXCEPT ![current] = s]
      /\ current # idleproc
  BY DEF Aim, Free
<1>2. QueueInv' /\ down_pc' = [down_pc EXCEPT ![current] = "sched"]
  BY <1>1, BlockInDown DEF ClientInv
<1>3. \A t \in Sems, q \in Procs :
          Queued(t, q)' <=> Queued(t, q) \/ (t = s /\ q = current)
  BY BlockQueues DEF ClientInv
<1>4. \A t \in Sems : ~Queued(t, current)
  BY BlockQueues DEF ClientInv
<1>5. TargetOK'
  BY <1>1, <1>2, <1>3, <1>4, QueueTypes DEF ClientInv, TargetOK, SemClientsAssumption
<1> QED
  BY <1>2, <1>5 DEF ClientInv

LEMMA ReturnStep ==
    ASSUME SemClientsAssumption, ClientInv, NEW s \in Sems,
           down_return(s), UNCHANGED sched_vars, Aim(NULL)
    PROVE  ClientInv'
<1>1. /\ QueueInv'
      /\ down_pc' = [down_pc EXCEPT ![current] = "out"]
      /\ UNCHANGED wait_queue
      /\ \A t \in Sems : ~Queued(t, current)
  BY ReturnFromDown DEF ClientInv
<1>2. target' = [target EXCEPT ![current] = NULL]
  BY DEF Aim
<1>3. TargetOK'
  BY <1>1, <1>2, QueueTypes DEF ClientInv, TargetOK, Queued
<1> QED
  BY <1>1, <1>3 DEF ClientInv

(* The cases of client_down that can happen: outside of down() nobody has  *)
(* a target.                                                               *)
LEMMA DownCases ==
    ASSUME SemClientsAssumption, ClientInv, NEW s \in Sems, client_down(s)
    PROVE  \/ down_take(s) /\ UNCHANGED <<sched_vars, target>>
           \/ Free /\ down_block(s) /\ Aim(s)
           \/ target[current] = s /\ down_return(s) /\ UNCHANGED sched_vars /\ Aim(NULL)
BY QueueTypes DEF client_down, Free, down_done, down_take, down_return, ClientInv,
                  TargetOK, SemClientsAssumption

(* Scheduling, and waiting for other things.                               *)
LEMMA OtherStep ==
    ASSUME SemClientsAssumption, ClientInv,
           \/ client_sched \/ preempt \/ other_wait
           \/ \E p \in Procs : other_wakeup(p)
           \/ UNCHANGED vars
    PROVE  ClientInv'
<1>1. CASE client_sched
  <2>1. /\ QueueInv' /\ UNCHANGED <<wait_queue, target>>
        /\ down_pc[current] = "sched"
        /\ down_pc' = [down_pc EXCEPT ![current] = "woken"]
    BY <1>1, SchedInDown DEF client_sched, ClientInv
  <2>2. TargetOK'
    BY <2>1, QueueTypes DEF ClientInv, TargetOK, Queued
  <2> QED
    BY <2>1, <2>2 DEF ClientInv
<1>2. CASE UNCHANGED <<sem_vars, target>> /\ QueueInv'
  BY <1>2 DEF ClientInv, TargetOK, Queued, sem_vars
<1>3. preempt => QueueInv' /\ UNCHANGED <<sem_vars, target>>
  BY SchedElsewhere DEF preempt, ClientInv
<1>4. other_wait => QueueInv' /\ UNCHANGED <<sem_vars, target>>
  BY SleepElsewhere DEF other_wait, Free, ClientInv
<1>5. ASSUME NEW p \in Procs, other_wakeup(p)
      PROVE  QueueInv' /\ UNCHANGED <<sem_vars, target>>
  BY <1>5, WakeElsewhere DEF other_wakeup, ClientInv
<1>6. UNCHANGED vars => QueueInv' /\ UNCHANGED <<sem_vars, target>>
  BY QueueStutter DEF vars, ClientInv
<1> QED
  BY <1>1, <1>2, <1>3, <1>4, <1>5, <1>6

LEMMA ClientInvNext == ASSUME SemClientsAssumption, ClientInv, [Next]_vars PROVE ClientInv'
<1>1. ASSUME NEW s \in ClientSems, client_up(s) PROVE ClientInv'
  BY <1>1, UpStep DEF SemClientsAssumption
<1>2. ASSUME NEW s \in ClientSems, client_down(s) PROVE ClientInv'
  <2>1. s \in Sems
    BY DEF SemClientsAssumption
  <2> QED
    BY <1>2, <2>1, DownCases, TakeStep, BlockStep, ReturnStep
<1> QED
  BY <1>1, <1>2, OtherStep DEF Next

(* The inductive invariant holds of every behaviour.                       *)
LEMMA ClientInvariance == ASSUME SemClientsAssumption PROVE Spec => []ClientInv
<1>1. Init => ClientInv
  BY ClientInvInit
<1>2. ClientInv /\ [Next]_vars => ClientInv'
  BY ClientInvNext
<1> QED
  BY <1>1, <1>2, PTL DEF Spec

(* Every process that sleeps for a semaphore is in the queue where up()    *)
(* will find it, none is while there is a permit to take, and down()       *)
(* returns only with a permit that up() handed over (kern/sync/sem.c), for *)
(* any processes, semaphores and initial values.                           *)
THEOREM QueuesCorrect == ASSUME SemClientsAssumption PROVE Spec => []QueuesOK
<1>1. ClientInv => QueuesOK
  BY GrantedWhenWoken DEF ClientInv, QueueInv, TargetOK, QueuesOK, TypeOK
<1> QED
  BY <1>1, ClientInvariance, PTL

-----------------------------------------------------------------------------
(* The types that counting needs.                                          *)
LEMMA ClientTypes ==
    ASSUME ClientInv
    PROVE  /\ QueueInv
           /\ value \in [Sems -> Nat]
           /\ wait_queue \in [Sems -> Seq(Procs)]
           /\ down_pc \in [Procs -> DownLabels]
           /\ target \in [Procs -> Sems \cup {NULL}]
           /\ current \in Procs
BY QueueTypes DEF ClientInv, TargetOK

(* The permits in flight can be counted.                                   *)
LEMMA GrantedFinite ==
    ASSUME SemClientsAssumption, NEW s \in Sems
    PROVE  IsFiniteSet(Granted(s)) /\ Cardinality(Granted(s)) \in Nat
<1>1. Granted(s) \in SUBSET Procs
  BY DEF Granted
<1> QED
  BY <1>1, FS_Subset, FS_CardinalityType DEF SemClientsAssumption

LEMMA PermitsAt ==
    ASSUME NEW s \in Sems
    PROVE  /\ Permits[s] = value[s] + Cardinality(Granted(s))
           /\ Permits'[s] = value'[s] + Cardinality(Granted(s)')
BY DEF Permits

(* A step that changes only the permits of s.                              *)
LEMMA PermitsChange ==
    ASSUME NEW s \in Sems, NEW n, Permits'[s] = n,
           \A t \in Sems \ {s} : value'[t] = value[t] /\ Granted(t)' = Granted(t)
    PROVE  Permits' = [Permits EXCEPT ![s] = n]
<1>1. Permits = [t \in Sems |-> Permits[t]] /\ Permits' = [t \in Sems |-> Permits'[t]]
  BY DEF Permits
<1>2. \A t \in Sems \ {s} : Permits'[t] = Permits[t]
  BY PermitsAt
<1> QED
  BY <1>1, <1>2

(* up() adds one permit, in value or in flight.                            *)
LEMMA UpCounts ==
    ASSUME SemClientsAssumption, ClientInv, NEW s \in Sems, client_up(s)
    PROVE  Counting!Up(s)
<1>1. CASE wait_queue[s] = <<>>
  <2>1. /\ value' = [value EXCEPT ![s] = @ + 1]
        /\ UNCHANGED <<wait_queue, target>>
    BY <1>1 DEF client_up, up
  <2>2. \A t \in Sems : Granted(t)' = Granted(t)
    BY <2>1 DEF Granted, Queued
  <2>3. Permits'[s] = Permits[s] + 1
    BY <2>1, <2>2, GrantedFinite, ClientTypes, PermitsAt
  <2> QED
    BY <2>1, <2>2, <2>3, ClientTypes, PermitsChange DEF Counting!Up
<1>2. CASE wait_queue[s] # <<>>
  <2>1. PICK p \in Procs :
            /\ Queued(s, p)
            /\ UNCHANGED value
            /\ \A t \in Sems, q \in Procs : Queued(t, q)' <=> Queued(t, q) /\ q # p
    BY <1>2, UpHandsOver DEF client_up, ClientInv
  <2>2. target[p] = s /\ UNCHANGED target
    BY <2>1 DEF client_up, ClientInv, TargetOK
  <2>3. p \notin Granted(s) /\ Granted(s)' = Granted(s) \cup {p}
    BY <2>1, <2>2 DEF Granted
  <2>4. Cardinality(Granted(s)') = Cardinality(Granted(s)) + 1
    BY <2>3, GrantedFinite, FS_AddElement
  <2>5. \A t \in Sems \ {s} : Granted(t)' = Granted(t)
    BY <2>1, <2>2 DEF Granted
  <2>6. Permits'[s] = Permits[s] + 1
    BY <2>1, <2>4, GrantedFinite, ClientTypes, PermitsAt
  <2> QED
    BY <2>1, <2>5, <2>6, PermitsChange DEF Counting!Up
<1> QED
  BY <1>1, <1>2

(* down() takes one when it returns, at once or after a wakeup, and none   *)
(* when it blocks.                                                         *)
LEMMA DownCounts ==
    ASSUME SemClientsAssumption, ClientInv, NEW s \in Sems, client_down(s)
    PROVE  Counting!Down(s) \/ UNCHANGED Permits
<1>1. CASE down_take(s) /\ UNCHANGED <<sched_vars, target>>
  <2>1. /\ value[s] > 0
        /\ value' = [value EXCEPT ![s] = @ - 1]
        /\ UNCHANGED <<wait_queue, target>>
    BY <1>1 DEF down_take
  <2>2. \A t \in Sems : Granted(t)' = Granted(t)
    BY <2>1 DEF Granted, Queued
  <2>3. Permits'[s] = Permits[s] - 1 /\ Permits[s] > 0
    BY <2>1, <2>2, GrantedFinite, ClientTypes, PermitsAt
  <2> QED
    BY <2>1, <2>2, <2>3, ClientTypes, PermitsChange DEF Counting!Down
<1>2. CASE Free /\ down_block(s) /\ Aim(s)
  <2>1. target' = [target EXCEPT ![current] = s] /\ UNCHANGED value
    BY <1>2 DEF Aim, down_block
  <2>2. \A t \in Sems, q \in Procs :
            Queued(t, q)' <=> Queued(t, q) \/ (t = s /\ q = current)
    BY <1>2, BlockQueues DEF ClientInv
  <2>3. target[current] = NULL
    BY <1>2, ClientTypes DEF Free, ClientInv, TargetOK
  <2>4. \A t \in Sems : Granted(t)' = Granted(t)
    BY <2>1, <2>2, <2>3, ClientTypes DEF Granted, SemClientsAssumption
  <2> QED
    BY <2>1, <2>4 DEF Permits
<1>3. CASE target[current] = s /\ down_return(s) /\ UNCHANGED sched_vars /\ Aim(NULL)
  <2>1. /\ target' = [target EXCEPT ![current] = NULL]
        /\ UNCHANGED <<wait_queue, value>>
        /\ \A t \in Sems : ~Queued(t, current)
    BY <1>3, ReturnFromDown DEF Aim, ClientInv
  <2>2. current \in Granted(s) /\ Granted(s)' = Granted(s) \ {current}
    BY <1>3, <2>1, ClientTypes DEF Granted, Queued, SemClientsAssumption
  <2>3. /\ Cardinality(Granted(s)') = Cardinality(Granted(s)) - 1
        /\ Cardinality(Granted(s)) > 0
    BY <2>2, GrantedFinite, FS_RemoveElement, FS_EmptySet
  <2>4. \A t \in Sems \ {s} : Granted(t)' = Granted(t)
    BY <1>3, <2>1, ClientTypes DEF Granted, Queued, SemClientsAssumption
  <2>5. Permits'[s] = Permits[s] - 1 /\ Permits[s] > 0
    BY <2>1, <2>3, GrantedFinite, ClientTypes, PermitsAt
  <2> QED
    BY <2>1, <2>4, <2>5, PermitsChange DEF Counting!Down
<1> QED
  BY <1>1, <1>2, <1>3, DownCases

(* Scheduling and sleeping for other things move no permit.                *)
LEMMA ElsewhereCounts ==
    ASSUME UNCHANGED <<value, wait_queue, target>>
    PROVE  UNCHANGED Permits
BY DEF Permits, Granted, Queued

(* The kernel's semaphores implement counting semaphores: every down()     *)
(* that returns has used up one permit of the initial ones and of those    *)
(* that up() made, although up() hands most of them over without touching  *)
(* value (kern/sync/sem.c).  The permits are value and those in flight.    *)
THEOREM SemaphoreRefined ==
    ASSUME SemClientsAssumption PROVE Spec => CountingSemaphore
<1>1. Init => Counting!Init
  <2> SUFFICES ASSUME Init PROVE Permits = InitialValue
    BY DEF Counting!Init
  <2>1. \A s \in Sems : Granted(s) = {}
    BY DEF Init, Granted, SemClientsAssumption
  <2>2. \A s \in Sems : Cardinality(Granted(s)) = 0
    BY <2>1, FS_EmptySet
  <2> QED
    BY <2>2 DEF Init, SemInit, Permits, SemClientsAssumption
<1>2. ClientInv /\ [Next]_vars => [Counting!Next]_Permits
  <2> SUFFICES ASSUME ClientInv, [Next]_vars
               PROVE  Counting!Next \/ UNCHANGED Permits
    OBVIOUS
  <2>1. ASSUME NEW s \in ClientSems, client_up(s) PROVE Counting!Next
    BY <2>1, UpCounts DEF Counting!Next, SemClientsAssumption
  <2>2. ASSUME NEW s \in ClientSems, client_down(s)
        PROVE  Counting!Next \/ UNCHANGED Permits
    BY <2>2, DownCounts DEF Counting!Next, SemClientsAssumption
  <2>3. CASE client_sched \/ preempt \/ other_wait \/ \E p \in Procs : other_wakeup(p)
    BY <2>3, ElsewhereCounts
       DEF client_sched, down_sched, preempt, other_wait, other_wakeup, sem_vars
  <2>4. CASE UNCHANGED vars
    BY <2>4, ElsewhereCounts DEF vars, sem_vars
  <2> QED
    BY <2>1, <2>2, <2>3, <2>4 DEF Next
<1> QED
  BY <1>1, <1>2, ClientInvariance, PTL DEF Spec, CountingSemaphore, Counting!Spec

-----------------------------------------------------------------------------
(* The philosophers of either version: what both rest on.                  *)

(* The neighbours of a philosopher, once around the table.                 *)
LEMMA Neighbours ==
    ASSUME PhilAssumption, NEW i \in Phils
    PROVE  /\ LEFT(i) \in Phils /\ RIGHT(i) \in Phils
           /\ LEFT(i) # i /\ RIGHT(i) # i
           /\ RIGHT(LEFT(i)) = i /\ LEFT(RIGHT(i)) = i
<1>1. N \in Nat /\ N > 1 /\ i \in Int /\ 0 <= i /\ i < N
  BY DEF PhilAssumption, Phils
<1>2. ASSUME NEW n \in Int, 0 <= n, n < N PROVE n % N = n
  BY <1>1, <1>2
<1>3. N % N = 0
  BY <1>1
<1>4. ASSUME NEW n \in Int, N <= n, n < 2 * N PROVE n % N = n - N
  BY <1>1, <1>4
<1>5. ASSUME NEW j \in Phils
      PROVE  /\ LEFT(j) = IF j = 0 THEN N - 1 ELSE j - 1
             /\ RIGHT(j) = IF j = N - 1 THEN 0 ELSE j + 1
  <2>1. j \in Int /\ 0 <= j /\ j < N
    BY <1>1 DEF Phils
  <2>2. CASE j = 0
    BY <1>1, <1>2, <2>1, <2>2 DEF LEFT, RIGHT
  <2>3. CASE j # 0
    BY <1>1, <1>2, <1>3, <1>4, <2>1, <2>3 DEF LEFT, RIGHT
  <2> QED
    BY <2>2, <2>3
<1>6. LEFT(i) \in Phils /\ RIGHT(i) \in Phils
  BY <1>1, <1>5 DEF Phils
<1> QED
  BY <1>1, <1>5, <1>6

(* The moves of ThreadNext, which touch neither forks nor semaphores.      *)
QuietMoves ==
    { <<"loop", "think_sched">>, <<"loop", "done">>, <<"think_sched", "think">>,
      <<"dine", "eat_sched">>, <<"eat_sched", "eat">> }

(* Whoever runs at a label is a philosopher.                               *)
LEMMA CurrentPhil ==
    ASSUME PhilAssumption, QueueInv, NEW l, At(l)
    PROVE  current \in Phils /\ pc[current] = l /\ current # idleproc
BY QueueTypes DEF PhilAssumption, At

(* Thinking, eating, leaving and the clock: no permit and no fork moves,   *)
(* and a thread gives the CPU up only in its schedule().                   *)
LEMMA ThreadStep ==
    ASSUME PhilAssumption, QueueInv, NEW L, PhilTypeOK(L), ThreadNext,
           \A i \in Phils : pc[i] \in {"loop", "think_sched", "dine", "eat_sched", "done"}
                                => down_pc[i] = "out"
    PROVE  /\ QueueInv' /\ PhilTypeOK(L)'
           /\ UNCHANGED <<value, wait_queue, wakeup_flags, phil>>
           /\ \A i \in Phils :
                 \/ pc'[i] = pc[i]
                 \/ down_pc[i] = "out" /\ <<pc[i], pc'[i]>> \in QuietMoves
           /\ \A p \in Procs : down_pc'[p] = "out" <=> down_pc[p] = "out"
           /\ \/ current' = current
              \/ current = idleproc
              \/ pc[current] \in {"think_sched", "eat_sched", "done"}
              \/ down_pc[current] # "out"
<1> DEFINE Quiet ==
             /\ QueueInv' /\ PhilTypeOK(L)'
             /\ UNCHANGED <<value, wait_queue, wakeup_flags, phil>>
             /\ \A i \in Phils :
                   \/ pc'[i] = pc[i]
                   \/ down_pc[i] = "out" /\ <<pc[i], pc'[i]>> \in QuietMoves
             /\ \A p \in Procs : down_pc'[p] = "out" <=> down_pc[p] = "out"
             /\ \/ current' = current
                \/ current = idleproc
                \/ pc[current] \in {"think_sched", "eat_sched", "done"}
                \/ down_pc[current] # "out"
<1>1. /\ phil \in [Phils -> PhilStates]
      /\ iter \in [Phils -> 0..TIMES]
      /\ pc \in [Phils -> ThreadLabels \cup L]
      /\ down_pc \in [Procs -> DownLabels]
      /\ TIMES \in Nat
  BY QueueTypes DEF PhilTypeOK, PhilAssumption
<1>2. QueueInv' => SchedTypeOK' /\ SemTypeOK'
  BY DEF QueueInv
<1>3. CASE phil_sched
  <2>1. /\ QueueInv'
        /\ UNCHANGED <<value, wait_queue, wakeup_flags, phil, iter, pc>>
        /\ down_pc[current] = "sched"
        /\ down_pc' = [down_pc EXCEPT ![current] = "woken"]
    BY <1>3, SchedInDown DEF phil_sched, phil_vars
  <2>2. PhilTypeOK(L)'
    BY <1>1, <1>2, <2>1 DEF PhilTypeOK
  <2> QED
    BY <1>1, <2>1, <2>2, QueueTypes
<1>4. CASE think \/ eat \/ leave
  <2>1. /\ current \in Phils /\ current # idleproc
        /\ UNCHANGED <<sem_vars, phil, current>>
        /\ \E m \in ThreadLabels :
              /\ pc' = [pc EXCEPT ![current] = m]
              /\ <<pc[current], m>> \in QuietMoves
              /\ pc[current] \in {"loop", "dine"}
    BY <1>4, CurrentPhil
       DEF think, eat, leave, fall_asleep, At, Goto, ThreadLabels, QuietMoves
  <2>2. iter' \in [Phils -> 0..TIMES]
    BY <1>1, <1>4, <2>1 DEF think, eat, leave
  <2>3. down_pc[current] = "out"
    BY <2>1
  <2>4. QueueInv'
    <3>1. CASE think \/ eat
      BY <2>1, <2>3, <3>1, SleepElsewhere DEF think, eat, fall_asleep
    <3>2. CASE leave
      <4>1. /\ state' = [state EXCEPT ![current] = "ZOMBIE"]
            /\ UNCHANGED <<wait_state, need_resched, time_slice, current, run_list>>
            /\ UNCHANGED <<value, wait_queue, wakeup_flags, down_pc>>
        BY <3>2 DEF leave, sem_vars
      <4>2. SchedTypeOK'
        BY <4>1, QueueTypes DEF SchedTypeOK, States
      <4>3. RunQueueOK'
        BY <2>1, <4>1, QueueTypes
           DEF SchedTypeOK, RunQueueOK, RunListDistinct, RunListExact
      <4>4. ASSUME NEW p \in Procs
            PROVE  /\ down_pc[p] # "out" => UNCHANGED <<state[p], wait_state[p]>>
                   /\ state'[p] = "RUNNABLE" => wait_state'[p] = "NONE"
        BY <2>3, <4>1, QueueTypes DEF QueueInv, DownState
      <4> QED
        BY <2>3, <4>1, <4>2, <4>3, <4>4, QueueTypes, Elsewhere
    <3> QED
      BY <1>4, <3>1, <3>2
  <2>5. PhilTypeOK(L)'
    BY <1>1, <1>2, <2>1, <2>2, <2>4 DEF PhilTypeOK
  <2> QED
    BY <1>1, <2>1, <2>3, <2>4, <2>5 DEF sem_vars
<1>5. CASE sleep_sched \/ leave_sched \/ cpu_idle
  <2>1. schedule /\ UNCHANGED <<sem_vars, phil, iter>>
    BY <1>5 DEF sleep_sched, leave_sched, cpu_idle, phil_vars
  <2>2. QueueInv'
    BY <2>1, SchedElsewhere
  <2>3. CASE UNCHANGED pc /\ (At("done") \/ current = idleproc)
    <3>1. PhilTypeOK(L)'
      BY <1>1, <1>2, <2>1, <2>2, <2>3 DEF PhilTypeOK
    <3> QED
      BY <2>1, <2>2, <2>3, <3>1 DEF sem_vars, At
  <2>4. CASE sleep_sched
    <3>1. /\ current \in Phils
          /\ \E m \in ThreadLabels :
                /\ pc' = [pc EXCEPT ![current] = m]
                /\ <<pc[current], m>> \in QuietMoves
                /\ pc[current] \in {"think_sched", "eat_sched"}
      BY <2>4, CurrentPhil DEF sleep_sched, At, Goto, ThreadLabels, QuietMoves
    <3>2. PhilTypeOK(L)'
      BY <1>1, <1>2, <2>1, <2>2, <3>1 DEF PhilTypeOK
    <3> QED
      BY <1>1, <2>1, <2>2, <3>1, <3>2 DEF sem_vars
  <2> QED
    BY <1>5, <2>3, <2>4 DEF leave_sched, cpu_idle, phil_vars
<1>6. CASE idle_tick
  <2>1. /\ sched_class_proc_tick
        /\ UNCHANGED <<value, wait_queue, wakeup_flags, down_pc, phil, iter, pc>>
        /\ UNCHANGED <<state, wait_state, current>>
    BY <1>6 DEF idle_tick, sem_vars, phil_vars, sched_class_proc_tick
  <2>2. SchedTypeOK' /\ RunQueueOK'
    BY <2>1, QueueTypes, TickKeeps
  <2>3. QueueInv'
    BY <2>1, <2>2, QueueTypes, Elsewhere DEF QueueInv, DownState
  <2>4. PhilTypeOK(L)'
    BY <1>1, <1>2, <2>1, <2>3 DEF PhilTypeOK
  <2> QED
    BY <2>1, <2>3, <2>4
<1>7. ASSUME NEW i \in Phils, timer_fire(i) PROVE Quiet
  <2>1. /\ i \in Procs
        /\ wait_state[i] \in WT_INTERRUPTED
        /\ wakeup_proc(state, i)
        /\ UNCHANGED <<need_resched, current, sem_vars, phil, iter, pc>>
    BY <1>7 DEF timer_fire, WT_INTERRUPTED, PhilAssumption, phil_vars
  <2>2. QueueInv'
    BY <2>1, WakeElsewhere
  <2>3. PhilTypeOK(L)'
    BY <1>1, <1>2, <2>1, <2>2 DEF PhilTypeOK
  <2> QED
    BY <2>1, <2>2, <2>3 DEF sem_vars
<1> QED
  BY <1>3, <1>4, <1>5, <1>6, <1>7 DEF ThreadNext

(* The threads that check_sync has made are all in the run queue, but for  *)
(* the one that runs.                                                      *)
LEMMA PhilQueueInit ==
    ASSUME PhilAssumption, PhilInit, SemInit([s \in Sems |-> IF s = mutex THEN 1 ELSE 0])
    PROVE  QueueInv
<1>1. /\ N \in Nat /\ N > 1
      /\ Procs = Phils \cup {idleproc}
      /\ idleproc \notin Phils
      /\ 0 \in Phils
      /\ \A i \in Phils : i \in Int /\ 0 <= i /\ i <= N - 1
  BY DEF PhilAssumption, Phils
<1>2. /\ run_list = [k \in 1..(N - 1) |-> k]
      /\ current = 0
      /\ state = [p \in Procs |-> "RUNNABLE"]
      /\ wait_state = [p \in Procs |-> "NONE"]
  BY DEF PhilInit
<1>3. \A k \in 1..(N - 1) : k \in Phils /\ k # 0
  BY <1>1 DEF Phils
<1>4. run_list \in Seq(Procs)
  <2>1. run_list \in [1..(N - 1) -> Procs] /\ N - 1 \in Nat
    BY <1>1, <1>2, <1>3
  <2> QED
    BY <2>1, SeqDef
<1>5. DOMAIN run_list = 1..(N - 1) /\ \A k \in 1..(N - 1) : run_list[k] = k
  BY <1>2
<1>6. SchedTypeOK
  BY <1>1, <1>4, SchedAssumption DEF PhilInit, SchedTypeOK, States, WaitStates
<1>7. RunQueueOK
  <2>1. RunListDistinct
    BY <1>5 DEF RunListDistinct
  <2>2. ASSUME NEW p \in Procs
        PROVE  (\E k \in DOMAIN run_list : run_list[k] = p) <=> p \notin {0, idleproc}
    <3>1. CASE p = idleproc
      BY <1>1, <1>3, <1>5, <3>1
    <3>2. CASE p # idleproc
      <4>1. p \in Int /\ 0 <= p /\ p <= N - 1
        BY <1>1, <3>2
      <4>2. p # 0 => p \in 1..(N - 1) /\ run_list[p] = p
        BY <1>1, <1>5, <4>1
      <4> QED
        BY <1>3, <1>5, <3>2, <4>2
    <3> QED
      BY <3>1, <3>2
  <2>3. RunListExact
    BY <1>2, <2>2 DEF RunListExact
  <2> QED
    BY <1>1, <1>2, <2>1, <2>3 DEF RunQueueOK
<1> QED
  BY <1>2, <1>6, <1>7, QueueInvInit

-----------------------------------------------------------------------------
(* The philosophers with semaphores.                                       *)

(* Where a thread of the version with semaphores may be in down(), and on  *)
(* which semaphore it then waits.                                          *)
SemaOf(i) == IF pc[i] = "take_wait" THEN i ELSE mutex

SemaPlaces ==
    /\ down_pc[idleproc] = "out"
    /\ \A i \in Phils : down_pc[i] # "out" => pc[i] \in {"think", "eat", "take_wait"}
    /\ \A i \in Phils, s \in Sems : Queued(s, i) => s = SemaOf(i)

(* What a philosopher's place says about its state, and both about its     *)
(* semaphore: the permit is there until down(&s[i]) has taken it, and if   *)
(* i sleeps in there, up() has handed it over.                             *)
SemaStates ==
    \A i \in Phils :
        /\ pc[i] \in {"loop", "think_sched", "think", "put_left", "put_right",
                      "put_leave", "done"} => phil[i] = "THINKING"
        /\ pc[i] = "take_test" => phil[i] = "HUNGRY"
        /\ pc[i] \in {"take_leave", "take_wait"} => phil[i] # "THINKING"
        /\ pc[i] \in {"dine", "eat_sched", "eat"} => phil[i] = "EATING"
        /\ pc[i] = "take_wait" /\ down_pc[i] # "out" =>
              (phil[i] = "EATING" <=> wakeup_flags[i] = "WT_KSEM")
        /\ value[i] = IF /\ phil[i] = "EATING"
                         /\ pc[i] \in {"take_leave", "take_wait"}
                         /\ down_pc[i] = "out"
                      THEN 1 ELSE 0

(* The mutex is free, or one philosopher has it.                           *)
SemaMutex ==
    \/ value[mutex] = 1 /\ \A i \in Phils : ~HasMutex(i)
    \/ value[mutex] = 0 /\ \E h \in Phils : \A i \in Phils : HasMutex(i) <=> i = h

NeighboursApart == \A i \in Phils : phil[i] = "EATING" => phil[RIGHT(i)] # "EATING"

(* SemaHungryHasCause, with the test that is still to come: put_left of    *)
(* the right neighbour, put_right of the left one.                         *)
SemaCause ==
    \A i \in Phils :
        phil[i] = "HUNGRY" /\ pc[i] \in {"take_leave", "take_wait"} =>
            \/ phil[LEFT(i)] = "EATING"
            \/ phil[RIGHT(i)] = "EATING"
            \/ pc[LEFT(i)] \in {"put_left", "put_right"}
            \/ pc[RIGHT(i)] = "put_left"

SemaInv ==
    /\ QueueInv
    /\ SemaTypeOK
    /\ SemaPlaces
    /\ SemaStates
    /\ SemaMutex
    /\ NeighboursApart
    /\ SemaCause

LEMMA SemaInvInit == ASSUME PhilAssumption, SemaInit PROVE SemaInv
<1>1. QueueInv
  BY PhilQueueInit DEF SemaInit
<1>2. /\ phil = [i \in Phils |-> "THINKING"]
      /\ iter = [i \in Phils |-> 0]
      /\ pc = [i \in Phils |-> "loop"]
      /\ value = [s \in Sems |-> IF s = mutex THEN 1 ELSE 0]
      /\ down_pc = [p \in Procs |-> "out"]
      /\ \A s \in Sems : \A p : ~Queued(s, p)
  BY DEF SemaInit, PhilInit, SemInit, Queued, Linked
<1>3. /\ Phils \subseteq Sems /\ mutex \in Sems /\ mutex \notin Phils
      /\ Phils \subseteq Procs /\ idleproc \in Procs
      /\ TIMES \in Nat
  BY DEF PhilAssumption
<1>4. SemaTypeOK
  BY <1>1, <1>2, <1>3 DEF SemaTypeOK, PhilTypeOK, QueueInv, PhilStates, ThreadLabels
<1>5. SemaPlaces /\ SemaStates
  BY <1>2, <1>3 DEF SemaPlaces, SemaStates
<1>6. SemaMutex
  BY <1>2, <1>3 DEF SemaMutex, HasMutex, Inside
<1>7. NeighboursApart /\ SemaCause
  BY <1>2 DEF NeighboursApart, SemaCause
<1> QED
  BY <1>1, <1>4, <1>5, <1>6, <1>7 DEF SemaInv

(* The types and what is known of a philosopher's wait_t.                  *)
LEMMA SemaTypes ==
    ASSUME PhilAssumption, SemaInv
    PROVE  /\ QueueInv
           /\ value \in [Sems -> Nat]
           /\ wakeup_flags \in [Procs -> Flags]
           /\ down_pc \in [Procs -> DownLabels]
           /\ phil \in [Phils -> PhilStates]
           /\ iter \in [Phils -> 0..TIMES]
           /\ pc \in [Phils -> ThreadLabels \cup SemaLabels]
           /\ Phils \subseteq Procs
           /\ Phils \subseteq Sems /\ mutex \in Sems /\ mutex \notin Phils
           /\ \A i \in Phils : wakeup_flags[i] = "NONE" <=> down_pc[i] = "out"
           /\ \A i \in Phils, s \in Sems : Queued(s, i) => wakeup_flags[i] = "WT_INTERRUPTED"
<1>1. /\ QueueInv
      /\ Phils \subseteq Procs
      /\ Phils \subseteq Sems /\ mutex \in Sems /\ mutex \notin Phils
  BY DEF SemaInv, PhilAssumption
<1>2. \A i \in Phils : wakeup_flags[i] = "NONE" <=> down_pc[i] = "out"
  BY <1>1 DEF QueueInv, DownState
<1>3. \A i \in Phils, s \in Sems : Queued(s, i) => wakeup_flags[i] = "WT_INTERRUPTED"
  BY <1>1, WaitersQueuedParts DEF QueueInv, DownState
<1> QED
  BY <1>1, <1>2, <1>3, QueueTypes DEF SemaInv, SemaTypeOK, PhilTypeOK

(* Who sleeps in down() is in a queue.                                     *)
LEMMA SleeperQueued ==
    ASSUME PhilAssumption, QueueInv, NEW i \in Phils, wakeup_flags[i] = "WT_INTERRUPTED"
    PROVE  \E s \in Sems : Queued(s, i) /\ wait_queue[s] # <<>>
<1>1. i \in Procs
  BY DEF PhilAssumption
<1>2. wait_state[i] = "WT_KSEM"
  BY <1>1 DEF QueueInv, DownState
<1>3. PICK s \in Sems : Queued(s, i)
  BY <1>1, <1>2, WaitersQueuedParts DEF QueueInv
<1>4. wait_queue[s] # <<>>
  BY <1>3 DEF Queued, Linked
<1> QED
  BY <1>3, <1>4

(* A thread that only thinks, eats or leaves keeps the invariant.          *)
LEMMA SemaQuiet ==
    ASSUME PhilAssumption, SemaInv, QueueInv', SemaTypeOK',
           UNCHANGED <<value, wait_queue, wakeup_flags, phil>>,
           \A i \in Phils :
              \/ pc'[i] = pc[i]
              \/ down_pc[i] = "out" /\ <<pc[i], pc'[i]>> \in QuietMoves,
           \A p \in Procs : down_pc'[p] = "out" <=> down_pc[p] = "out"
    PROVE  SemaInv'
<1>1. SemaPlaces'
  <2>1. \A i \in Phils, s \in Sems : Queued(s, i)' => Queued(s, i) /\ pc'[i] = pc[i]
    BY SemaTypes DEF Queued
  <2>2. down_pc'[idleproc] = "out"
    BY DEF SemaInv, SemaPlaces, PhilAssumption
  <2>3. \A i \in Phils : down_pc'[i] # "out" => pc'[i] \in {"think", "eat", "take_wait"}
    BY SemaTypes DEF SemaInv, SemaPlaces
  <2> QED
    BY <2>1, <2>2, <2>3 DEF SemaInv, SemaPlaces, SemaOf
<1>2. SemaStates'
  BY SemaTypes DEF SemaInv, SemaStates, QuietMoves
<1>3. \A i \in Phils : HasMutex(i)' <=> HasMutex(i)
  BY SemaTypes DEF HasMutex, Inside, QuietMoves
<1>4. SemaMutex'
  BY <1>3 DEF SemaInv, SemaMutex
<1>5. NeighboursApart'
  BY DEF SemaInv, NeighboursApart
<1>6. SemaCause'
  BY Neighbours DEF SemaInv, SemaCause, QuietMoves
<1> QED
  BY <1>1, <1>2, <1>4, <1>5, <1>6 DEF SemaInv

(* One philosopher has the mutex.                                          *)
LEMMA SemaHolder ==
    ASSUME SemaInv, NEW h \in Phils, HasMutex(h)
    PROVE  value[mutex] = 0 /\ \A i \in Phils : HasMutex(i) <=> i = h
BY DEF SemaInv, SemaMutex

(* down(&mutex) has returned, at once or with a permit handed over: the    *)
(* philosopher is inside, alone, and begins or ends its meal.              *)
LEMMA SemaEnter ==
    ASSUME PhilAssumption, SemaInv, NEW l, NEW m, NEW st,
           \/ l = "think" /\ m = "take_test" /\ st = "HUNGRY"
           \/ l = "eat" /\ m = "put_left" /\ st = "THINKING",
           Downed(mutex, l), phil' = [phil EXCEPT ![current] = st], Goto(m),
           UNCHANGED iter
    PROVE  SemaInv'
<1>1. /\ current \in Phils /\ pc[current] = l
      /\ pc' = [pc EXCEPT ![current] = m]
      /\ UNCHANGED sched_vars
      /\ down_take(mutex) \/ down_return(mutex)
  BY SemaTypes, CurrentPhil DEF Downed, down_done, Goto
<1>2. /\ QueueInv'
      /\ UNCHANGED wait_queue
      /\ \A s \in Sems : ~Queued(s, current)
      /\ \/ /\ value[mutex] > 0
            /\ value' = [value EXCEPT ![mutex] = @ - 1]
            /\ UNCHANGED <<wakeup_flags, down_pc>>
            /\ down_pc[current] = "out"
         \/ /\ wakeup_flags[current] = "WT_KSEM"
            /\ wakeup_flags' = [wakeup_flags EXCEPT ![current] = "NONE"]
            /\ down_pc' = [down_pc EXCEPT ![current] = "out"]
            /\ UNCHANGED value
  <2>1. CASE down_take(mutex)
    <3>1. \A s \in Sems : ~Queued(s, current)
      BY <1>1, <2>1, SemaTypes, TakePermit
    <3> QED
      BY <1>1, <2>1, <3>1, SemaTypes, TakePermit
  <2>2. CASE down_return(mutex)
    BY <1>1, <2>2, SemaTypes, ReturnFromDown
  <2> QED
    BY <1>1, <2>1, <2>2
<1>3. down_pc'[current] = "out" /\ \A i \in Phils \ {current} : UNCHANGED <<down_pc[i], wakeup_flags[i], pc[i], phil[i]>>
  BY <1>1, <1>2, SemaTypes
<1>4. pc'[current] = m /\ phil'[current] = st /\ \A i \in Phils : UNCHANGED value[i]
  BY <1>1, <1>2, SemaTypes
<1>5. SemaTypeOK'
  BY <1>1, <1>2, SemaTypes
     DEF SemaTypeOK, PhilTypeOK, QueueInv, PhilStates, SemaLabels
<1>6. SemaPlaces'
  <2>1. down_pc'[idleproc] = "out"
    BY <1>1, <1>2, SemaTypes DEF SemaInv, SemaPlaces, PhilAssumption
  <2>2. \A i \in Phils, s \in Sems : Queued(s, i)' => Queued(s, i) /\ i # current
    BY <1>2 DEF Queued
  <2> QED
    BY <1>3, <2>1, <2>2 DEF SemaInv, SemaPlaces, SemaOf
<1>7. SemaStates'
  BY <1>1, <1>3, <1>4 DEF SemaInv, SemaStates
<1>8. SemaMutex'
  <2>1. value'[mutex] = 0 /\ \A i \in Phils : ~(HasMutex(i) /\ i # current)
    BY <1>1, <1>2, SemaTypes DEF SemaInv, SemaMutex, HasMutex
  <2>2. \A i \in Phils : HasMutex(i)' <=> i = current
    BY <1>1, <1>3, <1>4, <2>1 DEF HasMutex, Inside
  <2> QED
    BY <1>1, <2>1, <2>2 DEF SemaMutex
<1>9. NeighboursApart'
  BY <1>1, <1>3, <1>4, Neighbours DEF SemaInv, NeighboursApart
<1>10. SemaCause'
  <2> SUFFICES ASSUME NEW i \in Phils, phil'[i] = "HUNGRY",
                      pc'[i] \in {"take_leave", "take_wait"}
               PROVE  \/ phil'[LEFT(i)] = "EATING"
                      \/ phil'[RIGHT(i)] = "EATING"
                      \/ pc'[LEFT(i)] \in {"put_left", "put_right"}
                      \/ pc'[RIGHT(i)] = "put_left"
    BY DEF SemaCause
  <2>1. i # current /\ phil[i] = "HUNGRY" /\ pc[i] \in {"take_leave", "take_wait"}
    BY <1>1, <1>3, <1>4
  <2>2. \/ phil[LEFT(i)] = "EATING"
        \/ phil[RIGHT(i)] = "EATING"
        \/ pc[LEFT(i)] \in {"put_left", "put_right"}
        \/ pc[RIGHT(i)] = "put_left"
    BY <2>1 DEF SemaInv, SemaCause
  <2>3. LEFT(i) \in Phils /\ RIGHT(i) \in Phils
    BY Neighbours
  <2>4. \A j \in Phils :
           /\ pc[j] \in {"put_left", "put_right"} => pc'[j] = pc[j]
           /\ phil[j] = "EATING" => phil'[j] = "EATING" \/ pc'[j] = "put_left"
    <3>1. l = "think" => phil[current] # "EATING"
      BY <1>1 DEF SemaInv, SemaStates
    <3> QED
      BY <1>1, <1>3, <1>4, <3>1
  <2> QED
    BY <2>2, <2>3, <2>4
<1> QED
  BY <1>2, <1>5, <1>6, <1>7, <1>8, <1>9, <1>10 DEF SemaInv

(* phi_test_sema allows j to eat: its permit is counted if it has not      *)
(* called down(&s[j]) yet, and handed over if it sleeps there.  Nobody     *)
(* else can wait on s[j].                                                  *)
LEMMA SemaGrant ==
    ASSUME PhilAssumption, SemaInv, NEW j \in Phils, phil[j] = "HUNGRY", up(j),
           pc[j] \in {"take_test", "take_wait"}
    PROVE  /\ QueueInv'
           /\ UNCHANGED <<down_pc, current>>
           /\ \A i \in Phils, s \in Sems : Queued(s, i)' => Queued(s, i)
           /\ value'[mutex] = value[mutex]
           /\ \A i \in Phils \ {j} : UNCHANGED <<value[i], wakeup_flags[i]>>
           /\ IF down_pc[j] = "out"
              THEN value'[j] = 1 /\ wakeup_flags'[j] = "NONE"
              ELSE value'[j] = 0 /\ wakeup_flags'[j] = "WT_KSEM" /\ pc[j] = "take_wait"
<1>1. value[j] = 0 /\ j \in Sems
  BY SemaTypes DEF SemaInv, SemaStates
<1>2. \A p \in Procs : Queued(j, p) => p = j
  <2>1. Queued(j, idleproc) => FALSE
    <3>1. wait_state[idleproc] # "WT_KSEM"
      BY QueueTypes, SchedAssumption DEF SemaInv, QueueInv, DownState, SemaPlaces
    <3> QED
      BY <1>1, <3>1, SchedAssumption, WaitersQueuedParts DEF SemaInv, QueueInv
  <2>2. \A i \in Phils : Queued(j, i) => i = j
    BY <1>1, SemaTypes DEF SemaInv, SemaPlaces, SemaOf
  <2> QED
    BY <2>1, <2>2 DEF PhilAssumption
<1>3. CASE down_pc[j] = "out"
  <2>1. wait_queue[j] = <<>>
    <3>1. ~Queued(j, j)
      BY <1>1, <1>3, SemaTypes
    <3>2. ASSUME wait_queue[j] # <<>> PROVE \E p \in Procs : Queued(j, p)
      BY <1>1, <3>2, SemaTypes, UpHandsOver
    <3> QED
      BY <1>2, <3>1, <3>2
  <2>2. /\ QueueInv'
        /\ value' = [value EXCEPT ![j] = @ + 1]
        /\ UNCHANGED <<wait_queue, wakeup_flags, sched_vars, down_pc>>
    BY <1>1, <2>1, SemaTypes, UpFree
  <2>3. \A i \in Phils, s \in Sems : Queued(s, i)' => Queued(s, i)
    BY <2>2 DEF Queued
  <2>4. value'[j] = 1 /\ value'[mutex] = value[mutex] /\ wakeup_flags'[j] = "NONE"
    BY <1>1, <1>3, <2>2, SemaTypes
  <2>5. current' = current
    BY <2>2 DEF sched_vars
  <2> QED
    BY <1>3, <2>2, <2>3, <2>4, <2>5, SemaTypes
<1>4. CASE down_pc[j] # "out"
  <2>1. pc[j] = "take_wait" /\ wakeup_flags[j] = "WT_INTERRUPTED"
    BY <1>4, SemaTypes DEF SemaInv, SemaPlaces, SemaStates, Flags
  <2>2. wait_queue[j] # <<>>
    <3>1. PICK s \in Sems : Queued(s, j) /\ wait_queue[s] # <<>>
      BY <2>1, SleeperQueued, SemaTypes
    <3> QED
      BY <2>1, <3>1 DEF SemaInv, SemaPlaces, SemaOf
  <2>3. QueueInv'
    BY <1>1, <2>2, SemaTypes, UpWake
  <2>4. PICK p \in Procs :
            /\ Queued(j, p)
            /\ wakeup_flags' = [wakeup_flags EXCEPT ![p] = "WT_KSEM"]
            /\ UNCHANGED <<value, current, down_pc>>
            /\ \A t \in Sems, q \in Procs : Queued(t, q)' <=> Queued(t, q) /\ q # p
    BY <1>1, <2>2, SemaTypes, UpHandsOver, SMTT(30)
  <2>5. p = j
    BY <1>2, <2>4
  <2> QED
    BY <1>1, <1>4, <2>1, <2>3, <2>4, <2>5, SemaTypes
<1> QED
  BY <1>3, <1>4

(* The three calls of phi_test_sema.                                       *)
LEMMA SemaTest ==
    ASSUME PhilAssumption, SemaInv, NEW l, NEW m, NEW j \in Phils,
           \/ l = "take_test" /\ m = "take_leave" /\ j = current
           \/ l = "put_left" /\ m = "put_right" /\ j = LEFT(current)
           \/ l = "put_right" /\ m = "put_leave" /\ j = RIGHT(current),
           At(l), phi_test_sema(j), Goto(m), UNCHANGED iter
    PROVE  SemaInv'
<1>1. /\ current \in Phils /\ pc[current] = l
      /\ pc' = [pc EXCEPT ![current] = m]
      /\ HasMutex(current) /\ HasMutex(current)'
      /\ \A i \in Phils \ {current} : ~HasMutex(i)
      /\ value[mutex] = 0
      /\ down_pc[current] = "out"
  <2>1. current \in Phils /\ pc[current] = l /\ pc' = [pc EXCEPT ![current] = m]
    BY SemaTypes, CurrentPhil DEF Goto
  <2>2. HasMutex(current)
    BY <2>1 DEF HasMutex, Inside
  <2>3. HasMutex(current)'
    <3>1. pc'[current] = m /\ current' = current
      BY <2>1, SemaTypes DEF phi_test_sema, up, sched_vars
    <3> QED
      BY <3>1 DEF HasMutex, Inside
  <2>4. down_pc[current] = "out"
    BY <2>1 DEF SemaInv, SemaPlaces
  <2> QED
    BY <2>1, <2>2, <2>3, <2>4, SemaHolder
<1>2. \A i \in Phils \ {current} : pc'[i] = pc[i] /\ pc[i] \notin Inside
  BY <1>1, SemaTypes DEF HasMutex
<1>3. pc'[current] = m
  BY <1>1, SemaTypes
<1>4. CASE ~MayEat(j)
  <2>1. UNCHANGED <<phil, sched_vars, sem_vars>>
    BY <1>4 DEF phi_test_sema
  <2>2. QueueInv' /\ UNCHANGED <<value, wait_queue, wakeup_flags, down_pc>>
    BY <2>1, SemaTypes, QueueStutter DEF sem_vars
  <2>3. SemaTypeOK'
    BY <1>1, <2>1, <2>2, SemaTypes DEF SemaTypeOK, PhilTypeOK, QueueInv, SemaLabels
  <2>4. SemaPlaces'
    <3>1. \A i \in Phils, s \in Sems : Queued(s, i)' => Queued(s, i) /\ i # current
      BY <1>1, <2>2, SemaTypes DEF Queued
    <3> QED
      BY <1>1, <1>2, <2>2, <3>1 DEF SemaInv, SemaPlaces, SemaOf
  <2>5. SemaStates'
    BY <1>1, <1>2, <1>3, <2>1, <2>2 DEF SemaInv, SemaStates
  <2>6. SemaMutex'
    <3>1. \A i \in Phils \ {current} : ~HasMutex(i)'
      BY <1>1, <1>2, <2>2 DEF HasMutex
    <3> QED
      BY <1>1, <2>1, <2>2, <3>1 DEF SemaMutex, sched_vars
  <2>7. NeighboursApart'
    BY <2>1 DEF SemaInv, NeighboursApart
  <2>8. SemaCause'
    <3> SUFFICES ASSUME NEW i \in Phils, phil[i] = "HUNGRY",
                        pc'[i] \in {"take_leave", "take_wait"}
                 PROVE  \/ phil[LEFT(i)] = "EATING"
                        \/ phil[RIGHT(i)] = "EATING"
                        \/ pc'[LEFT(i)] \in {"put_left", "put_right"}
                        \/ pc'[RIGHT(i)] = "put_left"
      BY <2>1 DEF SemaCause
    <3>1. CASE i = j
      BY <1>4, <3>1 DEF MayEat
    <3>2. CASE i # j
      <4>1. i # current /\ pc[i] \in {"take_leave", "take_wait"}
        BY <1>1, <1>2, <1>3, <3>2
      <4>2. \/ phil[LEFT(i)] = "EATING"
            \/ phil[RIGHT(i)] = "EATING"
            \/ pc[LEFT(i)] \in {"put_left", "put_right"}
            \/ pc[RIGHT(i)] = "put_left"
        BY <4>1 DEF SemaInv, SemaCause
      <4>3. /\ LEFT(i) \in Phils /\ RIGHT(i) \in Phils
            /\ LEFT(RIGHT(i)) = i /\ RIGHT(LEFT(i)) = i
        BY Neighbours
      <4>4. CASE pc[LEFT(i)] \in {"put_left", "put_right"}
        <5>1. LEFT(i) = current
          BY <1>2, <4>3, <4>4 DEF Inside
        <5> QED
          BY <1>1, <1>3, <3>2, <4>3, <4>4, <5>1
      <4>5. CASE pc[RIGHT(i)] = "put_left"
        <5>1. RIGHT(i) = current
          BY <1>2, <4>3, <4>5 DEF Inside
        <5> QED
          BY <1>1, <3>2, <4>3, <4>5, <5>1
      <4> QED
        BY <4>2, <4>4, <4>5
    <3> QED
      BY <3>1, <3>2
  <2> QED
    BY <2>2, <2>3, <2>4, <2>5, <2>6, <2>7, <2>8 DEF SemaInv
<1>5. CASE MayEat(j)
  <2>1. /\ phil' = [phil EXCEPT ![j] = "EATING"] /\ up(j)
        /\ phil[j] = "HUNGRY"
        /\ phil[LEFT(j)] # "EATING" /\ phil[RIGHT(j)] # "EATING"
    BY <1>5 DEF phi_test_sema, MayEat
  <2>2. pc[j] \in {"take_test", "take_wait"} /\ (j = current <=> pc[j] = "take_test")
    <3>1. j = current <=> l = "take_test"
      BY <1>1, Neighbours
    <3>2. pc[j] \in {"take_test", "take_leave", "take_wait"}
      BY <2>1, SemaTypes DEF SemaInv, SemaStates, ThreadLabels, SemaLabels
    <3> QED
      BY <1>1, <1>2, <3>1, <3>2 DEF Inside
  <2>3. /\ QueueInv'
        /\ UNCHANGED <<down_pc, current>>
        /\ \A i \in Phils, s \in Sems : Queued(s, i)' => Queued(s, i)
        /\ value'[mutex] = value[mutex]
        /\ \A i \in Phils \ {j} : UNCHANGED <<value[i], wakeup_flags[i]>>
        /\ IF down_pc[j] = "out"
           THEN value'[j] = 1 /\ wakeup_flags'[j] = "NONE"
           ELSE value'[j] = 0 /\ wakeup_flags'[j] = "WT_KSEM" /\ pc[j] = "take_wait"
    BY <2>1, <2>2, SemaGrant
  <2>4. phil'[j] = "EATING" /\ \A i \in Phils \ {j} : phil'[i] = phil[i]
    BY <2>1, SemaTypes
  <2>5. SemaTypeOK'
    BY <1>1, <2>1, <2>3, SemaTypes
       DEF SemaTypeOK, PhilTypeOK, QueueInv, SemaLabels, PhilStates
  <2>6. SemaPlaces'
    <3>1. \A i \in Phils, s \in Sems : Queued(s, i)' => Queued(s, i) /\ i # current
      BY <1>1, <2>3, SemaTypes
    <3> QED
      BY <1>1, <1>2, <2>3, <3>1 DEF SemaInv, SemaPlaces, SemaOf
  <2>7. SemaStates'
    <3>1. ASSUME NEW i \in Phils \ {j, current} PROVE UNCHANGED <<pc[i], phil[i], down_pc[i], value[i], wakeup_flags[i]>>
      BY <1>2, <2>3, <2>4
    <3>2. CASE j = current
      BY <1>1, <1>2, <1>3, <2>2, <2>3, <2>4, <3>1, <3>2 DEF SemaInv, SemaStates
    <3>3. CASE j # current
      BY <1>1, <1>2, <1>3, <2>2, <2>3, <2>4, <3>1, <3>3 DEF SemaInv, SemaStates
    <3> QED
      BY <3>2, <3>3
  <2>8. SemaMutex'
    <3>1. \A i \in Phils \ {current} : ~HasMutex(i)'
      BY <1>1, <1>2, <2>2, <2>3 DEF HasMutex
    <3> QED
      BY <1>1, <2>3, <3>1 DEF SemaMutex
  <2>9. NeighboursApart'
    <3>1. \A i \in Phils : RIGHT(i) = j => i = LEFT(j)
      BY Neighbours
    <3> QED
      BY <2>1, <2>4, <3>1, Neighbours DEF SemaInv, NeighboursApart
  <2>10. SemaCause'
    <3> SUFFICES ASSUME NEW i \in Phils, phil'[i] = "HUNGRY",
                        pc'[i] \in {"take_leave", "take_wait"}
                 PROVE  \/ phil'[LEFT(i)] = "EATING"
                        \/ phil'[RIGHT(i)] = "EATING"
                        \/ pc'[LEFT(i)] \in {"put_left", "put_right"}
                        \/ pc'[RIGHT(i)] = "put_left"
      BY DEF SemaCause
    <3>1. i # j /\ i # current
      BY <1>1, <1>3, <2>2, <2>4
    <3>2. phil[i] = "HUNGRY" /\ pc[i] \in {"take_leave", "take_wait"}
      BY <1>2, <2>4, <3>1
    <3>3. \/ phil[LEFT(i)] = "EATING"
          \/ phil[RIGHT(i)] = "EATING"
          \/ pc[LEFT(i)] \in {"put_left", "put_right"}
          \/ pc[RIGHT(i)] = "put_left"
      BY <3>2 DEF SemaInv, SemaCause
    <3>4. /\ LEFT(i) \in Phils /\ RIGHT(i) \in Phils
          /\ LEFT(RIGHT(i)) = i /\ RIGHT(LEFT(i)) = i
      BY Neighbours
    <3>5. CASE phil[LEFT(i)] = "EATING" \/ phil[RIGHT(i)] = "EATING"
      BY <2>4, <3>4, <3>5
    <3>6. CASE pc[LEFT(i)] \in {"put_left", "put_right"}
      <4>1. LEFT(i) = current
        BY <1>2, <3>4, <3>6 DEF Inside
      <4> QED
        BY <1>1, <1>3, <3>1, <3>4, <3>6, <4>1
    <3>7. CASE pc[RIGHT(i)] = "put_left"
      <4>1. RIGHT(i) = current
        BY <1>2, <3>4, <3>7 DEF Inside
      <4> QED
        BY <1>1, <3>1, <3>4, <3>7, <4>1
    <3> QED
      BY <3>3, <3>5, <3>6, <3>7
  <2> QED
    BY <2>3, <2>5, <2>6, <2>7, <2>8, <2>9, <2>10 DEF SemaInv
<1> QED
  BY <1>4, <1>5

(* up(&mutex): the philosopher leaves, and the mutex is free or handed to  *)
(* the first that waits for it.                                            *)
LEMMA SemaLeave ==
    ASSUME PhilAssumption, SemaInv, NEW l, NEW m,
           \/ l = "take_leave" /\ m = "take_wait"
           \/ l = "put_leave" /\ m = "loop",
           At(l), up(mutex), Goto(m), UNCHANGED <<phil, iter>>
    PROVE  SemaInv'
<1>1. /\ current \in Phils /\ pc[current] = l
      /\ pc' = [pc EXCEPT ![current] = m]
      /\ down_pc[current] = "out"
      /\ HasMutex(current)
  <2>1. current \in Phils /\ pc[current] = l /\ pc' = [pc EXCEPT ![current] = m]
    BY SemaTypes, CurrentPhil DEF Goto
  <2> QED
    BY <2>1 DEF SemaInv, SemaPlaces, HasMutex, Inside
<1>2. value[mutex] = 0 /\ \A i \in Phils \ {current} : ~HasMutex(i)
  BY <1>1, SemaHolder
<1>3. pc'[current] = m /\ \A i \in Phils \ {current} : pc'[i] = pc[i] /\ pc[i] \notin Inside
  BY <1>1, <1>2, SemaTypes DEF HasMutex
<1>4. /\ QueueInv'
      /\ UNCHANGED <<down_pc, current>>
      /\ \A i \in Phils : UNCHANGED value[i]
      /\ \A i \in Phils, s \in Sems : Queued(s, i)' => Queued(s, i)
      /\ \/ /\ value'[mutex] = 1
            /\ \A i \in Phils : UNCHANGED wakeup_flags[i]
         \/ /\ value'[mutex] = 0
            /\ \E h \in Phils \ {current} :
                  /\ pc[h] \in {"think", "eat"}
                  /\ wakeup_flags'[h] = "WT_KSEM"
                  /\ \A i \in Phils \ {h} : UNCHANGED wakeup_flags[i]
  <2>1. CASE wait_queue[mutex] = <<>>
    <3>1. /\ QueueInv'
          /\ value' = [value EXCEPT ![mutex] = @ + 1]
          /\ UNCHANGED <<wait_queue, wakeup_flags, sched_vars, down_pc>>
      BY <2>1, SemaTypes, UpFree
    <3>2. \A i \in Phils, s \in Sems : Queued(s, i)' => Queued(s, i)
      BY <3>1 DEF Queued
    <3>3. value'[mutex] = 1 /\ \A i \in Phils : UNCHANGED value[i]
      BY <1>2, <3>1, SemaTypes
    <3> QED
      BY <3>1, <3>2, <3>3 DEF sched_vars
  <2>2. CASE wait_queue[mutex] # <<>>
    <3>1. QueueInv'
      BY <2>2, SemaTypes, UpWake
    <3>2. PICK p \in Procs :
              /\ Queued(mutex, p)
              /\ down_pc[p] # "out"
              /\ wakeup_flags' = [wakeup_flags EXCEPT ![p] = "WT_KSEM"]
              /\ UNCHANGED <<value, current, down_pc>>
              /\ \A t \in Sems, q \in Procs : Queued(t, q)' <=> Queued(t, q) /\ q # p
      BY <2>2, SemaTypes, UpHandsOver
    <3>3. p \in Phils \ {current}
      BY <1>1, <3>2 DEF SemaInv, SemaPlaces, PhilAssumption
    <3>4. pc[p] \in {"think", "eat"}
      BY <3>2, <3>3, SemaTypes DEF SemaInv, SemaPlaces, SemaOf
    <3> QED
      BY <1>2, <3>1, <3>2, <3>3, <3>4, SemaTypes
  <2> QED
    BY <2>1, <2>2
<1>5. SemaTypeOK'
  BY <1>1, <1>4, SemaTypes DEF SemaTypeOK, PhilTypeOK, QueueInv, SemaLabels, ThreadLabels
<1>6. SemaPlaces'
  <2>1. \A i \in Phils, s \in Sems : Queued(s, i)' => Queued(s, i) /\ i # current
    BY <1>1, <1>4, SemaTypes
  <2> QED
    BY <1>1, <1>3, <1>4, <2>1 DEF SemaInv, SemaPlaces, SemaOf
<1>7. SemaStates'
  <2>1. \A i \in Phils : pc[i] = "take_wait" => UNCHANGED wakeup_flags[i]
    BY <1>4
  <2>2. \A i \in Phils : UNCHANGED <<down_pc[i], value[i], phil[i]>>
    BY <1>4
  <2> QED
    BY <1>1, <1>3, <2>1, <2>2 DEF SemaInv, SemaStates
<1>8. SemaMutex'
  <2>1. CASE value'[mutex] = 1 /\ \A i \in Phils : UNCHANGED wakeup_flags[i]
    <3>1. \A i \in Phils : ~HasMutex(i)'
      BY <1>1, <1>2, <1>3, <2>1 DEF HasMutex, Inside
    <3> QED
      BY <2>1, <3>1 DEF SemaMutex
  <2>2. ASSUME NEW h \in Phils \ {current}, value'[mutex] = 0,
               pc[h] \in {"think", "eat"}, wakeup_flags'[h] = "WT_KSEM",
               \A i \in Phils \ {h} : UNCHANGED wakeup_flags[i]
        PROVE  SemaMutex'
    <3>1. \A i \in Phils : HasMutex(i)' <=> i = h
      BY <1>1, <1>2, <1>3, <2>2 DEF HasMutex, Inside
    <3> QED
      BY <2>2, <3>1 DEF SemaMutex
  <2> QED
    BY <1>4, <2>1, <2>2
<1>9. NeighboursApart'
  BY DEF SemaInv, NeighboursApart
<1>10. SemaCause'
  <2>1. \A i \in Phils : pc'[i] \in {"take_leave", "take_wait"}
                            => pc[i] \in {"take_leave", "take_wait"}
    BY <1>1, <1>3
  <2>2. \A i \in Phils : pc[i] \in {"put_left", "put_right"} => pc'[i] = pc[i]
    BY <1>1, <1>3
  <2> QED
    BY <2>1, <2>2, Neighbours DEF SemaInv, SemaCause
<1> QED
  BY <1>4, <1>5, <1>6, <1>7, <1>8, <1>9, <1>10 DEF SemaInv

(* down(&s[i]) has returned: the philosopher has its forks.                *)
LEMMA SemaDone == ASSUME PhilAssumption, SemaInv, sema_take_done PROVE SemaInv'
<1>1. /\ current \in Phils /\ pc[current] = "take_wait"
      /\ pc' = [pc EXCEPT ![current] = "dine"]
      /\ UNCHANGED <<sched_vars, phil, iter>>
      /\ down_take(current) \/ down_return(current)
  BY SemaTypes, CurrentPhil DEF sema_take_done, Downed, down_done, Goto
<1>2. /\ QueueInv'
      /\ UNCHANGED wait_queue
      /\ \A s \in Sems : ~Queued(s, current)
      /\ down_pc'[current] = "out" /\ value'[current] = 0
      /\ \A i \in Phils \ {current} : UNCHANGED <<down_pc[i], wakeup_flags[i], value[i]>>
      /\ UNCHANGED <<down_pc[idleproc], value[mutex]>>
      /\ phil[current] = "EATING"
  <2>1. CASE down_take(current)
    <3>1. /\ QueueInv'
          /\ value[current] > 0
          /\ value' = [value EXCEPT ![current] = @ - 1]
          /\ down_pc[current] = "out"
          /\ UNCHANGED <<wait_queue, wakeup_flags, down_pc>>
      BY <1>1, <2>1, SemaTypes, TakePermit
    <3>2. value[current] = 1 /\ phil[current] = "EATING"
      BY <1>1, <3>1 DEF SemaInv, SemaStates
    <3>3. \A s \in Sems : ~Queued(s, current)
      BY <1>1, <3>1, SemaTypes
    <3>4. value'[current] = 0 /\ value'[mutex] = value[mutex]
      BY <1>1, <3>1, <3>2, SemaTypes
    <3> QED
      BY <1>1, <3>1, <3>2, <3>3, <3>4, SemaTypes
  <2>2. CASE down_return(current)
    <3>1. /\ QueueInv'
          /\ UNCHANGED <<wait_queue, value>>
          /\ \A t \in Sems : ~Queued(t, current)
          /\ wakeup_flags[current] = "WT_KSEM"
          /\ wakeup_flags' = [wakeup_flags EXCEPT ![current] = "NONE"]
          /\ down_pc[current] = "woken"
          /\ down_pc' = [down_pc EXCEPT ![current] = "out"]
      BY <1>1, <2>2, SemaTypes, ReturnFromDown
    <3>2. value[current] = 0 /\ phil[current] = "EATING"
      BY <1>1, <3>1 DEF SemaInv, SemaStates
    <3> QED
      BY <1>1, <3>1, <3>2, SemaTypes DEF PhilAssumption
  <2> QED
    BY <1>1, <2>1, <2>2
<1>3. pc'[current] = "dine" /\ \A i \in Phils \ {current} : pc'[i] = pc[i]
  BY <1>1, SemaTypes
<1>4. SemaTypeOK'
  BY <1>1, <1>2, SemaTypes DEF SemaTypeOK, PhilTypeOK, QueueInv, ThreadLabels
<1>5. SemaPlaces'
  <2>1. \A i \in Phils, s \in Sems : Queued(s, i)' => Queued(s, i) /\ i # current
    BY <1>2 DEF Queued
  <2> QED
    BY <1>2, <1>3, <2>1 DEF SemaInv, SemaPlaces, SemaOf
<1>6. SemaStates'
  BY <1>1, <1>2, <1>3 DEF SemaInv, SemaStates
<1>7. SemaMutex'
  <2>1. \A i \in Phils : HasMutex(i)' <=> HasMutex(i)
    BY <1>1, <1>2, <1>3 DEF HasMutex, Inside
  <2> QED
    BY <1>2, <2>1 DEF SemaInv, SemaMutex
<1>8. NeighboursApart'
  BY <1>1 DEF SemaInv, NeighboursApart
<1>9. SemaCause'
  BY <1>1, <1>3, Neighbours DEF SemaInv, SemaCause
<1> QED
  BY <1>2, <1>4, <1>5, <1>6, <1>7, <1>8, <1>9 DEF SemaInv

(* A down() blocks.                                                        *)
LEMMA SemaBlock == ASSUME PhilAssumption, SemaInv, sema_block PROVE SemaInv'
<1>1. PICK l \in {"think", "eat", "take_wait"} :
          down_wait(IF l = "take_wait" THEN current ELSE mutex, l)
  BY DEF sema_block
<1>2. /\ current \in Phils /\ pc[current] = l /\ current # idleproc
      /\ UNCHANGED <<phil, iter, pc>>
      /\ down_block(SemaOf(current))
      /\ SemaOf(current) \in Sems
  BY <1>1, SemaTypes, CurrentPhil DEF down_wait, phil_vars, SemaOf
<1>3. PICK s \in Sems : s = SemaOf(current)
  BY <1>2
<1>4. /\ QueueInv'
      /\ wakeup_flags' = [wakeup_flags EXCEPT ![current] = "WT_INTERRUPTED"]
      /\ down_pc' = [down_pc EXCEPT ![current] = "sched"]
      /\ UNCHANGED <<value, current>>
  BY <1>2, <1>3, SemaTypes, BlockInDown
<1>5. /\ value[s] = 0 /\ down_pc[current] = "out"
      /\ \A t \in Sems, q \in Procs :
            Queued(t, q)' <=> Queued(t, q) \/ (t = s /\ q = current)
  BY <1>2, <1>3, SemaTypes, BlockQueues DEF down_block
<1>6. /\ wakeup_flags[current] = "NONE" /\ wakeup_flags'[current] = "WT_INTERRUPTED"
      /\ \A i \in Phils \ {current} : UNCHANGED <<wakeup_flags[i], down_pc[i]>>
      /\ down_pc'[current] = "sched"
      /\ UNCHANGED down_pc[idleproc]
  BY <1>2, <1>4, <1>5, SemaTypes DEF PhilAssumption
<1>7. SemaTypeOK'
  BY <1>2, <1>4, SemaTypes DEF SemaTypeOK, PhilTypeOK, QueueInv
<1>8. SemaPlaces'
  <2>1. \A i \in Phils : SemaOf(i)' = SemaOf(i)
    BY <1>2 DEF SemaOf
  <2>2. \A i \in Phils, t \in Sems : Queued(t, i)' => t = SemaOf(i)
    BY <1>3, <1>5, SemaTypes DEF SemaInv, SemaPlaces
  <2>3. \A i \in Phils : down_pc'[i] # "out" => pc'[i] \in {"think", "eat", "take_wait"}
    BY <1>2, <1>6 DEF SemaInv, SemaPlaces
  <2> QED
    BY <1>6, <2>1, <2>2, <2>3 DEF SemaInv, SemaPlaces
<1>9. SemaStates'
  <2>1. pc[current] = "take_wait" => phil[current] # "EATING"
    BY <1>2, <1>3, <1>5 DEF SemaInv, SemaStates, SemaOf
  <2> QED
    BY <1>2, <1>4, <1>6, <2>1 DEF SemaInv, SemaStates
<1>10. SemaMutex'
  <2>1. \A i \in Phils : HasMutex(i)' <=> HasMutex(i)
    BY <1>2, <1>6 DEF HasMutex, Inside
  <2> QED
    BY <1>4, <2>1 DEF SemaInv, SemaMutex
<1>11. NeighboursApart' /\ SemaCause'
  BY <1>2 DEF SemaInv, NeighboursApart, SemaCause
<1> QED
  BY <1>4, <1>7, <1>8, <1>9, <1>10, <1>11 DEF SemaInv

(* Every step of the version with semaphores.                              *)
LEMMA SemaInvNext ==
    ASSUME PhilAssumption, SemaInv, SemaNext \/ UNCHANGED thread_vars PROVE SemaInv'
<1>1. CASE ThreadNext
  <2>1. \A i \in Phils : pc[i] \in {"loop", "think_sched", "dine", "eat_sched", "done"}
                            => down_pc[i] = "out"
    BY DEF SemaInv, SemaPlaces
  <2>2. PhilTypeOK(SemaLabels) /\ QueueInv
    BY DEF SemaInv, SemaTypeOK
  <2> QED
    BY <1>1, <2>1, <2>2, ThreadStep, SemaQuiet DEF SemaTypeOK
<1>2. CASE sema_take_forks
  BY <1>2, SemaEnter DEF sema_take_forks
<1>3. CASE sema_put_forks
  BY <1>3, SemaEnter DEF sema_put_forks
<1>4. CASE sema_take_test \/ sema_put_left \/ sema_put_right
  <2>1. current \in Phils
    BY <1>4, SemaTypes, CurrentPhil DEF sema_take_test, sema_put_left, sema_put_right
  <2>2. LEFT(current) \in Phils /\ RIGHT(current) \in Phils
    BY <2>1, Neighbours
  <2> QED
    BY <1>4, <2>1, <2>2, SemaTest DEF sema_take_test, sema_put_left, sema_put_right
<1>5. CASE sema_take_leave \/ sema_put_leave
  BY <1>5, SemaLeave DEF sema_take_leave, sema_put_leave
<1>6. CASE sema_take_done
  BY <1>6, SemaDone
<1>7. CASE sema_block
  BY <1>7, SemaBlock
<1>8. CASE UNCHANGED thread_vars
  <2>1. UNCHANGED <<sched_vars, sem_vars, phil, iter, pc>>
    BY <1>8 DEF thread_vars, phil_vars
  <2>2. QueueInv'
    BY <2>1, SemaTypes, QueueStutter
  <2>3. SemaTypeOK'
    BY <2>1, <2>2, SemaTypes DEF SemaTypeOK, PhilTypeOK, QueueInv
  <2> QED
    BY <2>1, <2>2, <2>3, SemaQuiet DEF sem_vars
<1> QED
  BY <1>1, <1>2, <1>3, <1>4, <1>5, <1>6, <1>7, <1>8 DEF SemaNext

(* What the invariant says of the semaphores, in numbers.                  *)
LEMMA SemaInvOK == ASSUME PhilAssumption, SemaInv PROVE SemaOK
<1>1. ForksExclusive
  BY DEF SemaInv, SemaStates, NeighboursApart, ForksExclusive
<1>2. Cardinality({i \in Phils : HasMutex(i)}) + value[mutex] = 1
  <2>1. CASE value[mutex] = 1 /\ \A i \in Phils : ~HasMutex(i)
    <3>1. {i \in Phils : HasMutex(i)} = {}
      BY <2>1
    <3> QED
      BY <2>1, <3>1, FS_EmptySet
  <2>2. CASE value[mutex] = 0 /\ \E h \in Phils : \A i \in Phils : HasMutex(i) <=> i = h
    <3>1. PICK h \in Phils : {i \in Phils : HasMutex(i)} = {h}
      BY <2>2
    <3>2. Cardinality({h}) = 1
      BY FS_Singleton
    <3> QED
      BY <2>2, <3>1, <3>2
  <2> QED
    BY <2>1, <2>2 DEF SemaInv, SemaMutex
<1>3. PermitsMatch
  BY <1>2 DEF SemaInv, SemaStates, PermitsMatch
<1>4. SemaHungryHasCause
  BY DEF SemaInv, SemaCause, SemaHungryHasCause
<1> QED
  BY <1>1, <1>3, <1>4 DEF SemaInv, SemaOK

-----------------------------------------------------------------------------
(* The philosophers with a monitor.                                        *)

(* Where a thread of the version with the monitor may be in down(), and on *)
(* which semaphore it then waits.  Once it has given the monitor up it is  *)
(* in down() before any other thread runs.                                 *)
Signallers == {"left_next", "right_next"}

MonOf(i) ==
    IF pc[i] = "cv_wait" THEN i ELSE IF pc[i] \in Signallers THEN next ELSE mutex

MonPlaces ==
    /\ down_pc[idleproc] = "out"
    /\ \A i \in Phils : pc[i] # "take_next"
    /\ \A i \in Phils : down_pc[i] # "out" =>
          pc[i] \in {"think", "eat", "cv_wait"} \cup Signallers
    /\ \A i \in Phils, s \in Sems : Queued(s, i) => s = MonOf(i)
    /\ \A i \in Phils :
          pc[i] \in {"cv_wait"} \cup Signallers /\ down_pc[i] = "out" => i = current

(* What a philosopher's place says about its state and its condition: who  *)
(* waits there is hungry until it is signalled, and eats from then on.     *)
MonStates ==
    \A i \in Phils :
        /\ pc[i] \in {"loop", "think_sched", "think", "put_left", "put_right",
                      "put_leave", "done"} \cup Signallers => phil[i] = "THINKING"
        /\ pc[i] = "take_test" => phil[i] = "HUNGRY"
        /\ pc[i] = "take_check" => phil[i] # "THINKING"
        /\ pc[i] = "cv_wait" =>
              phil[i] = IF wakeup_flags[i] = "WT_KSEM" THEN "EATING" ELSE "HUNGRY"
        /\ pc[i] \in {"take_leave", "dine", "eat_sched", "eat"} => phil[i] = "EATING"
        /\ value[i] = 0
        /\ count[i] = IF pc[i] = "cv_wait" THEN 1 ELSE 0

OnlyActive(a) == \A i \in Phils : Active(i) <=> i = a

(* The monitor is free, or one philosopher is active in it; if another one *)
(* has signalled it and waits for the monitor's return, it is on its way   *)
(* out, or has returned the monitor already.                               *)
MonOwner ==
    /\ value[next] = 0
    /\ \/ /\ value[mutex] = 1
          /\ next_count = 0
          /\ \A i \in Phils : ~Active(i) /\ pc[i] \notin Signallers
       \/ /\ value[mutex] = 0
          /\ next_count = 0
          /\ \E a \in Phils : OnlyActive(a)
          /\ \A i \in Phils : pc[i] \notin Signallers
       \/ /\ value[mutex] = 0
          /\ next_count = 1
          /\ \E a, k \in Phils :
                /\ OnlyActive(a)
                /\ \A i \in Phils : pc[i] \in Signallers <=> i = k
                /\ a = k \/ pc[a] \in {"cv_wait", "take_leave"}

(* MonHungryHasCause, with the test that is still to come.                 *)
MonCause ==
    \A i \in Phils :
        phil[i] = "HUNGRY" /\ pc[i] \in {"take_check", "cv_wait"} =>
            \/ phil[LEFT(i)] = "EATING"
            \/ phil[RIGHT(i)] = "EATING"
            \/ pc[LEFT(i)] \in {"put_left", "left_next", "put_right"}
            \/ pc[RIGHT(i)] = "put_left"

MonInv ==
    /\ QueueInv
    /\ MonTypeOK
    /\ MonPlaces
    /\ MonStates
    /\ MonOwner
    /\ NeighboursApart
    /\ MonCause

(* Active in terms of a place and the flags of a wait_t.                   *)
Entered ==
    {"take_test", "take_check", "take_leave", "put_left", "put_right", "put_leave"}

MonWaits == {"think", "eat", "cv_wait", "take_next"} \cup Signallers

ActiveAt(l, f) == l \in Entered \/ (l \in MonWaits /\ f = "WT_KSEM")

LEMMA ActiveMeans ==
    \A i : /\ Active(i) <=> ActiveAt(pc[i], wakeup_flags[i])
           /\ Active(i)' <=> ActiveAt(pc'[i], wakeup_flags'[i])
<1>1. DOMAIN DownAt = MonWaits /\ (DOMAIN DownAt)' = MonWaits
  BY DEF DownAt, MonWaits, Signallers
<1> QED
  BY <1>1 DEF Active, ActiveAt, Entered

LEMMA MonInvInit == ASSUME PhilAssumption, PhilMonAssumption, MonInit PROVE MonInv
<1>1. QueueInv
  BY PhilQueueInit DEF MonInit
<1>2. /\ phil = [i \in Phils |-> "THINKING"]
      /\ iter = [i \in Phils |-> 0]
      /\ pc = [i \in Phils |-> "loop"]
      /\ value = [s \in Sems |-> IF s = mutex THEN 1 ELSE 0]
      /\ down_pc = [p \in Procs |-> "out"]
      /\ \A s \in Sems : \A p : ~Queued(s, p)
      /\ next_count = 0
      /\ count = [i \in Phils |-> 0]
  BY DEF MonInit, PhilInit, SemInit, NoMonitor, Queued, Linked
<1>3. /\ Phils \subseteq Sems /\ mutex \in Sems /\ mutex \notin Phils
      /\ next \in Sems /\ next \notin Phils /\ next # mutex
      /\ Phils \subseteq Procs /\ idleproc \in Procs
      /\ TIMES \in Nat
  BY DEF PhilAssumption, PhilMonAssumption
<1>4. MonTypeOK
  BY <1>1, <1>2, <1>3 DEF MonTypeOK, PhilTypeOK, QueueInv, PhilStates, ThreadLabels
<1>5. MonPlaces /\ MonStates
  BY <1>2, <1>3 DEF MonPlaces, MonStates, Signallers
<1>6. MonOwner
  <2>1. \A i \in Phils : ~Active(i) /\ pc[i] \notin Signallers
    BY <1>2, ActiveMeans DEF ActiveAt, Entered, MonWaits, Signallers
  <2> QED
    BY <1>2, <1>3, <2>1 DEF MonOwner
<1>7. NeighboursApart /\ MonCause
  BY <1>2 DEF NeighboursApart, MonCause
<1> QED
  BY <1>1, <1>4, <1>5, <1>6, <1>7 DEF MonInv

(* The types and what is known of a philosopher's wait_t.                  *)
LEMMA MonTypes ==
    ASSUME PhilAssumption, PhilMonAssumption, MonInv
    PROVE  /\ QueueInv
           /\ value \in [Sems -> Nat]
           /\ wakeup_flags \in [Procs -> Flags]
           /\ down_pc \in [Procs -> DownLabels]
           /\ phil \in [Phils -> PhilStates]
           /\ iter \in [Phils -> 0..TIMES]
           /\ pc \in [Phils -> ThreadLabels \cup MonLabels]
           /\ count \in [Phils -> Nat]
           /\ next_count \in Nat
           /\ Phils \subseteq Procs /\ idleproc \in Procs /\ idleproc \notin Phils
           /\ Phils \subseteq Sems /\ mutex \in Sems /\ mutex \notin Phils
           /\ next \in Sems /\ next \notin Phils /\ next # mutex
           /\ \A i \in Phils : wakeup_flags[i] = "NONE" <=> down_pc[i] = "out"
           /\ \A i \in Phils, s \in Sems : Queued(s, i) => wakeup_flags[i] = "WT_INTERRUPTED"
<1>1. /\ QueueInv
      /\ Phils \subseteq Procs /\ idleproc \in Procs /\ idleproc \notin Phils
      /\ Phils \subseteq Sems /\ mutex \in Sems /\ mutex \notin Phils
      /\ next \in Sems /\ next \notin Phils /\ next # mutex
  BY DEF MonInv, PhilAssumption, PhilMonAssumption
<1>2. \A i \in Phils : wakeup_flags[i] = "NONE" <=> down_pc[i] = "out"
  BY <1>1 DEF QueueInv, DownState
<1>3. \A i \in Phils, s \in Sems : Queued(s, i) => wakeup_flags[i] = "WT_INTERRUPTED"
  BY <1>1, WaitersQueuedParts DEF QueueInv, DownState
<1> QED
  BY <1>1, <1>2, <1>3, QueueTypes DEF MonInv, MonTypeOK, PhilTypeOK

(* A thread that only thinks, eats or leaves keeps the invariant.          *)
LEMMA MonQuiet ==
    ASSUME PhilAssumption, PhilMonAssumption, MonInv, QueueInv', MonTypeOK',
           UNCHANGED <<value, wait_queue, wakeup_flags, phil, mon_vars>>,
           \A i \in Phils :
              \/ pc'[i] = pc[i]
              \/ down_pc[i] = "out" /\ <<pc[i], pc'[i]>> \in QuietMoves,
           \A p \in Procs : down_pc'[p] = "out" <=> down_pc[p] = "out",
           \/ current' = current
           \/ current = idleproc
           \/ pc[current] \in {"think_sched", "eat_sched", "done"}
           \/ down_pc[current] # "out"
    PROVE  MonInv'
<1>1. \A i \in Phils : <<pc[i], pc'[i]>> \in QuietMoves =>
         /\ pc'[i] \notin {"take_next", "cv_wait"} \cup Signallers
         /\ pc[i] \notin {"take_next", "cv_wait"} \cup Signallers
  BY DEF QuietMoves, Signallers
<1>2. MonPlaces'
  <2>1. \A i \in Phils, s \in Sems : Queued(s, i)' => Queued(s, i) /\ pc'[i] = pc[i]
    BY MonTypes DEF Queued
  <2>2. down_pc'[idleproc] = "out"
    BY MonTypes DEF MonInv, MonPlaces
  <2>3. \A i \in Phils : down_pc'[i] # "out" => pc'[i] \in {"think", "eat", "cv_wait"} \cup Signallers
    BY MonTypes DEF MonInv, MonPlaces
  <2>4. ASSUME NEW i \in Phils, pc'[i] \in {"cv_wait"} \cup Signallers, down_pc'[i] = "out"
        PROVE  i = current'
    <3>1. pc[i] = pc'[i] /\ down_pc[i] = "out"
      BY <1>1, <2>4, MonTypes
    <3>2. i = current
      BY <2>4, <3>1 DEF MonInv, MonPlaces
    <3> QED
      BY <2>4, <3>1, <3>2, MonTypes DEF Signallers
  <2>5. \A i \in Phils : pc'[i] # "take_next"
    BY <1>1 DEF MonInv, MonPlaces
  <2>6. \A i \in Phils, s \in Sems : Queued(s, i)' => s = MonOf(i)'
    BY <2>1 DEF MonInv, MonPlaces, MonOf
  <2> QED
    BY <2>2, <2>3, <2>4, <2>5, <2>6 DEF MonPlaces
<1>3. MonStates'
  BY MonTypes DEF MonInv, MonStates, QuietMoves, Signallers, mon_vars
<1>4. \A i \in Phils : (Active(i)' <=> Active(i)) /\ (pc'[i] \in Signallers <=> pc[i] \in Signallers)
  BY <1>1, MonTypes, ActiveMeans DEF ActiveAt, QuietMoves, Entered, MonWaits, Signallers
<1>5. MonOwner'
  <2>1. \A i \in Phils : pc[i] \in {"cv_wait", "take_leave"} => pc'[i] = pc[i]
    BY DEF QuietMoves
  <2> QED
    BY <1>4, <2>1 DEF MonInv, MonOwner, OnlyActive, mon_vars
<1>6. NeighboursApart'
  BY DEF MonInv, NeighboursApart
<1>7. MonCause'
  BY Neighbours DEF MonInv, MonCause, QuietMoves
<1> QED
  BY <1>2, <1>3, <1>5, <1>6, <1>7 DEF MonInv

(* If the philosopher that runs is active, nobody else is; a signaller     *)
(* can wait only for one that it has woken.                                *)
LEMMA MonInside ==
    ASSUME MonInv, NEW h \in Phils, Active(h)
    PROVE  /\ value[mutex] = 0
           /\ \A i \in Phils : Active(i) <=> i = h
           /\ \/ next_count = 0 /\ \A i \in Phils : pc[i] \notin Signallers
              \/ /\ next_count = 1
                 /\ \E k \in Phils :
                       /\ \A i \in Phils : pc[i] \in Signallers <=> i = k
                       /\ h = k \/ pc[h] \in {"cv_wait", "take_leave"}
BY DEF MonInv, MonOwner, OnlyActive

(* up(): the permit is counted, or handed to a philosopher that waits for  *)
(* this semaphore.                                                         *)
LEMMA MonUp ==
    ASSUME PhilAssumption, PhilMonAssumption, MonInv, NEW s \in Sems, up(s)
    PROVE  /\ QueueInv'
           /\ UNCHANGED <<down_pc, current>>
           /\ \A i \in Phils, t \in Sems : Queued(t, i)' => Queued(t, i)
           /\ \/ /\ wait_queue[s] = <<>>
                 /\ value' = [value EXCEPT ![s] = @ + 1]
                 /\ UNCHANGED wakeup_flags
              \/ /\ UNCHANGED value
                 /\ \E p \in Phils :
                       /\ MonOf(p) = s /\ down_pc[p] # "out"
                       /\ wakeup_flags[p] = "WT_INTERRUPTED"
                       /\ wakeup_flags' = [wakeup_flags EXCEPT ![p] = "WT_KSEM"]
<1>1. CASE wait_queue[s] = <<>>
  <2>1. /\ QueueInv'
        /\ value' = [value EXCEPT ![s] = @ + 1]
        /\ UNCHANGED <<wait_queue, wakeup_flags, sched_vars, down_pc>>
    BY <1>1, MonTypes, UpFree
  <2>2. \A i \in Phils, t \in Sems : Queued(t, i)' => Queued(t, i)
    BY <2>1 DEF Queued
  <2> QED
    BY <1>1, <2>1, <2>2 DEF sched_vars
<1>2. CASE wait_queue[s] # <<>>
  <2>1. QueueInv'
    BY <1>2, MonTypes, UpWake
  <2>2. PICK p \in Procs :
            /\ Queued(s, p)
            /\ down_pc[p] # "out"
            /\ wakeup_flags' = [wakeup_flags EXCEPT ![p] = "WT_KSEM"]
            /\ UNCHANGED <<value, current, down_pc>>
            /\ \A t \in Sems, q \in Procs : Queued(t, q)' <=> Queued(t, q) /\ q # p
    BY <1>2, MonTypes, UpHandsOver
  <2>3. p \in Phils
    BY <2>2 DEF MonInv, MonPlaces, PhilAssumption
  <2>4. MonOf(p) = s /\ wakeup_flags[p] = "WT_INTERRUPTED"
    BY <2>2, <2>3, MonTypes DEF MonInv, MonPlaces
  <2> QED
    BY <2>1, <2>2, <2>3, <2>4, MonTypes
<1> QED
  BY <1>1, <1>2

(* down(&mutex) has returned, at once or with a permit handed over: the    *)
(* philosopher is in the monitor, alone, and begins or ends its meal.      *)
LEMMA MonEnter ==
    ASSUME PhilAssumption, PhilMonAssumption, MonInv, NEW l, NEW m, NEW st,
           \/ l = "think" /\ m = "take_test" /\ st = "HUNGRY"
           \/ l = "eat" /\ m = "put_left" /\ st = "THINKING",
           Downed(mutex, l), phil' = [phil EXCEPT ![current] = st], Goto(m),
           UNCHANGED <<iter, mon_vars>>
    PROVE  MonInv'
<1>1. /\ current \in Phils /\ pc[current] = l
      /\ pc' = [pc EXCEPT ![current] = m]
      /\ UNCHANGED <<sched_vars, current, next_count, count>>
      /\ down_take(mutex) \/ down_return(mutex)
  BY MonTypes, CurrentPhil DEF Downed, down_done, Goto, sched_vars, mon_vars
<1>2. /\ QueueInv'
      /\ UNCHANGED wait_queue
      /\ \A s \in Sems : ~Queued(s, current)
      /\ \/ /\ value[mutex] > 0
            /\ value' = [value EXCEPT ![mutex] = @ - 1]
            /\ UNCHANGED <<wakeup_flags, down_pc>>
            /\ down_pc[current] = "out"
         \/ /\ wakeup_flags[current] = "WT_KSEM"
            /\ wakeup_flags' = [wakeup_flags EXCEPT ![current] = "NONE"]
            /\ down_pc' = [down_pc EXCEPT ![current] = "out"]
            /\ UNCHANGED value
  <2>1. CASE down_take(mutex)
    <3>1. \A s \in Sems : ~Queued(s, current)
      BY <1>1, <2>1, MonTypes, TakePermit
    <3> QED
      BY <1>1, <2>1, <3>1, MonTypes, TakePermit
  <2>2. CASE down_return(mutex)
    BY <1>1, <2>2, MonTypes, ReturnFromDown
  <2> QED
    BY <1>1, <2>1, <2>2
<1>3. /\ down_pc'[current] = "out"
      /\ \A i \in Phils \ {current} :
            UNCHANGED <<down_pc[i], wakeup_flags[i], pc[i], phil[i]>>
  BY <1>1, <1>2, MonTypes
<1>4. /\ pc'[current] = m /\ phil'[current] = st
      /\ \A i \in Phils : UNCHANGED value[i]
      /\ UNCHANGED value[next]
  BY <1>1, <1>2, MonTypes
<1>5. MonTypeOK'
  BY <1>1, <1>2, MonTypes DEF MonTypeOK, PhilTypeOK, QueueInv, PhilStates, MonLabels
<1>6. MonPlaces'
  <2>1. down_pc'[idleproc] = "out"
    BY <1>1, <1>2, MonTypes DEF MonInv, MonPlaces
  <2>2. \A i \in Phils, s \in Sems : Queued(s, i)' => Queued(s, i) /\ i # current
    BY <1>2 DEF Queued
  <2> QED
    BY <1>1, <1>3, <1>4, <2>1, <2>2 DEF MonInv, MonPlaces, MonOf, Signallers
<1>7. MonStates'
  BY <1>1, <1>3, <1>4 DEF MonInv, MonStates, Signallers
<1>8. MonOwner'
  <2>1. /\ value'[mutex] = 0
        /\ \A i \in Phils \ {current} : ~Active(i)
        /\ next_count = 0
        /\ \A i \in Phils : pc[i] \notin Signallers
    <3>1. CASE value[mutex] > 0 /\ value' = [value EXCEPT ![mutex] = @ - 1]
      BY <3>1, MonTypes DEF MonInv, MonOwner
    <3>2. CASE wakeup_flags[current] = "WT_KSEM" /\ UNCHANGED value
      <4>1. Active(current)
        BY <1>1, <3>2, ActiveMeans DEF ActiveAt, MonWaits
      <4> QED
        BY <1>1, <3>2, <4>1, MonInside DEF Signallers
    <3> QED
      BY <1>2, <3>1, <3>2
  <2>2. \A i \in Phils : Active(i)' <=> i = current
    BY <1>1, <1>3, <1>4, <2>1, ActiveMeans DEF ActiveAt, Entered
  <2>3. \A i \in Phils : pc'[i] \notin Signallers
    BY <1>1, <1>3, <1>4, <2>1 DEF Signallers
  <2>4. value'[next] = 0
    BY <1>4 DEF MonInv, MonOwner
  <2> QED
    BY <1>1, <2>1, <2>2, <2>3, <2>4 DEF MonOwner, OnlyActive
<1>9. NeighboursApart'
  BY <1>1, <1>3, <1>4, Neighbours DEF MonInv, NeighboursApart
<1>10. MonCause'
  <2> SUFFICES ASSUME NEW i \in Phils, phil'[i] = "HUNGRY",
                      pc'[i] \in {"take_check", "cv_wait"}
               PROVE  \/ phil'[LEFT(i)] = "EATING"
                      \/ phil'[RIGHT(i)] = "EATING"
                      \/ pc'[LEFT(i)] \in {"put_left", "left_next", "put_right"}
                      \/ pc'[RIGHT(i)] = "put_left"
    BY DEF MonCause
  <2>1. i # current /\ phil[i] = "HUNGRY" /\ pc[i] \in {"take_check", "cv_wait"}
    BY <1>1, <1>3, <1>4
  <2>2. \/ phil[LEFT(i)] = "EATING"
        \/ phil[RIGHT(i)] = "EATING"
        \/ pc[LEFT(i)] \in {"put_left", "left_next", "put_right"}
        \/ pc[RIGHT(i)] = "put_left"
    BY <2>1 DEF MonInv, MonCause
  <2>3. LEFT(i) \in Phils /\ RIGHT(i) \in Phils
    BY Neighbours
  <2>4. \A j \in Phils :
           /\ pc[j] \in {"put_left", "left_next", "put_right"} => pc'[j] = pc[j]
           /\ phil[j] = "EATING" => phil'[j] = "EATING" \/ pc'[j] = "put_left"
    <3>1. l = "think" => phil[current] # "EATING"
      BY <1>1 DEF MonInv, MonStates
    <3> QED
      BY <1>1, <1>3, <1>4, <3>1
  <2> QED
    BY <2>2, <2>3, <2>4
<1> QED
  BY <1>2, <1>5, <1>6, <1>7, <1>8, <1>9, <1>10 DEF MonInv

(* A step inside the monitor: the philosopher that runs is the active one. *)
LEMMA MonHere ==
    ASSUME PhilAssumption, PhilMonAssumption, MonInv, NEW l \in Entered, NEW m,
           At(l), Goto(m)
    PROVE  /\ current \in Phils /\ pc[current] = l
           /\ pc'[current] = m
           /\ \A i \in Phils \ {current} : pc'[i] = pc[i]
           /\ m \in ThreadLabels \cup MonLabels =>
                 pc' \in [Phils -> ThreadLabels \cup MonLabels]
           /\ down_pc[current] = "out" /\ wakeup_flags[current] = "NONE"
           /\ value[mutex] = 0
           /\ \A i \in Phils : Active(i) <=> i = current
           /\ l # "take_leave" =>
                 next_count = 0 /\ \A i \in Phils : pc[i] \notin Signallers
<1>1. current \in Phils /\ pc[current] = l /\ pc' = [pc EXCEPT ![current] = m]
  BY MonTypes, CurrentPhil DEF Goto
<1>2. /\ pc'[current] = m
      /\ \A i \in Phils \ {current} : pc'[i] = pc[i]
      /\ m \in ThreadLabels \cup MonLabels =>
            pc' \in [Phils -> ThreadLabels \cup MonLabels]
  BY <1>1, MonTypes
<1>3. Active(current)
  BY <1>1, ActiveMeans DEF ActiveAt
<1>4. down_pc[current] = "out" /\ wakeup_flags[current] = "NONE"
  BY <1>1, MonTypes DEF MonInv, MonPlaces, Entered, Signallers
<1>5. l \notin Signallers /\ l # "cv_wait"
  BY DEF Entered, Signallers
<1> QED
  BY <1>1, <1>2, <1>3, <1>4, <1>5, MonInside

(* phi_test_condvar signals nobody: either the philosopher may not eat, or *)
(* it tests for itself.                                                    *)
LEMMA MonTestQuiet ==
    ASSUME PhilAssumption, PhilMonAssumption, MonInv,
           NEW l \in {"take_test", "put_left", "put_right"}, NEW m, NEW j \in Phils,
           \/ l = "take_test" /\ m = "take_check" /\ j = current
           \/ l = "put_left" /\ m = "put_right" /\ j = LEFT(current) /\ ~MayEat(j)
           \/ l = "put_right" /\ m = "put_leave" /\ j = RIGHT(current) /\ ~MayEat(j),
           At(l), Goto(m), UNCHANGED <<iter, sched_vars, sem_vars, mon_vars>>,
           phil' = IF MayEat(j) THEN [phil EXCEPT ![j] = "EATING"] ELSE phil
    PROVE  MonInv'
<1>1. /\ current \in Phils /\ pc[current] = l
      /\ pc'[current] = m
      /\ \A i \in Phils \ {current} : pc'[i] = pc[i]
      /\ pc' \in [Phils -> ThreadLabels \cup MonLabels]
      /\ down_pc[current] = "out" /\ wakeup_flags[current] = "NONE"
      /\ value[mutex] = 0
      /\ \A i \in Phils : Active(i) <=> i = current
      /\ next_count = 0 /\ \A i \in Phils : pc[i] \notin Signallers
  <2>1. l \in Entered /\ l # "take_leave" /\ m \in ThreadLabels \cup MonLabels
    BY DEF Entered, MonLabels
  <2> QED
    BY <2>1, MonHere
<1>2. /\ QueueInv'
      /\ UNCHANGED <<value, wait_queue, wakeup_flags, down_pc, current, next_count, count>>
  BY MonTypes, QueueStutter DEF sem_vars, sched_vars, mon_vars
<1>3. /\ \A i \in Phils \ {current} : phil'[i] = phil[i]
      /\ phil'[current] = IF MayEat(j) THEN "EATING" ELSE phil[current]
      /\ phil' \in [Phils -> PhilStates]
  BY <1>1, MonTypes DEF PhilStates
<1>4. MonTypeOK'
  BY <1>1, <1>2, <1>3, MonTypes DEF MonTypeOK, PhilTypeOK, QueueInv
<1>5. MonPlaces'
  <2>1. \A i \in Phils, s \in Sems : Queued(s, i)' => Queued(s, i) /\ i # current
    BY <1>1, <1>2, MonTypes DEF Queued
  <2> QED
    BY <1>1, <1>2, <2>1 DEF MonInv, MonPlaces, MonOf, Signallers
<1>6. MonStates'
  <2>1. l # "take_test" => ~MayEat(j)
    OBVIOUS
  <2> QED
    BY <1>1, <1>2, <1>3, <2>1 DEF MonInv, MonStates, Signallers
<1>7. MonOwner'
  <2>1. \A i \in Phils : Active(i)' <=> i = current
    BY <1>1, <1>2, ActiveMeans DEF ActiveAt, Entered
  <2>2. \A i \in Phils : pc'[i] \notin Signallers
    BY <1>1 DEF Signallers
  <2> QED
    BY <1>1, <1>2, <2>1, <2>2 DEF MonInv, MonOwner, OnlyActive
<1>8. NeighboursApart'
  <2>1. CASE ~MayEat(j)
    BY <2>1 DEF MonInv, NeighboursApart
  <2>2. CASE MayEat(j)
    <3>1. j = current /\ phil[LEFT(j)] # "EATING" /\ phil[RIGHT(j)] # "EATING"
      BY <2>2 DEF MayEat
    <3>2. \A i \in Phils : RIGHT(i) = j => i = LEFT(j)
      BY Neighbours
    <3> QED
      BY <1>1, <1>3, <3>1, <3>2, Neighbours DEF MonInv, NeighboursApart
  <2> QED
    BY <2>1, <2>2
<1>9. MonCause'
  <2> SUFFICES ASSUME NEW i \in Phils, phil'[i] = "HUNGRY",
                      pc'[i] \in {"take_check", "cv_wait"}
               PROVE  \/ phil'[LEFT(i)] = "EATING"
                      \/ phil'[RIGHT(i)] = "EATING"
                      \/ pc'[LEFT(i)] \in {"put_left", "left_next", "put_right"}
                      \/ pc'[RIGHT(i)] = "put_left"
    BY DEF MonCause
  <2>1. /\ LEFT(i) \in Phils /\ RIGHT(i) \in Phils
        /\ LEFT(RIGHT(i)) = i /\ RIGHT(LEFT(i)) = i
    BY Neighbours
  <2>2. phil[i] = "HUNGRY" /\ \A k \in Phils : phil[k] = "EATING" => phil'[k] = "EATING"
    BY <1>1, <1>3
  <2>3. CASE i = j
    <3>1. ~MayEat(j)
      BY <1>1, <1>3, <2>3
    <3> QED
      BY <2>1, <2>2, <2>3, <3>1 DEF MayEat
  <2>4. CASE i # j
    <3>1. i # current /\ pc[i] \in {"take_check", "cv_wait"}
      <4>1. i = current => l # "take_test" /\ pc'[i] \notin {"take_check", "cv_wait"}
        BY <1>1, <2>4
      <4> QED
        BY <1>1, <4>1
    <3>2. \/ phil[LEFT(i)] = "EATING"
          \/ phil[RIGHT(i)] = "EATING"
          \/ pc[LEFT(i)] \in {"put_left", "left_next", "put_right"}
          \/ pc[RIGHT(i)] = "put_left"
      BY <2>2, <3>1 DEF MonInv, MonCause
    <3>3. CASE pc[LEFT(i)] \in {"put_left", "left_next", "put_right"}
      <4>1. CASE LEFT(i) = current
        BY <1>1, <2>1, <2>4, <3>3, <4>1 DEF Signallers
      <4> QED
        BY <1>1, <2>1, <3>3, <4>1
    <3>4. CASE pc[RIGHT(i)] = "put_left"
      <4>1. CASE RIGHT(i) = current
        BY <1>1, <2>1, <2>4, <3>4, <4>1
      <4> QED
        BY <1>1, <2>1, <3>4, <4>1
    <3> QED
      BY <2>1, <2>2, <3>2, <3>3, <3>4
  <2> QED
    BY <2>3, <2>4
<1> QED
  BY <1>2, <1>4, <1>5, <1>6, <1>7, <1>8, <1>9 DEF MonInv

(* Whoever may eat and has not been told so waits on its condition.        *)
LEMMA CondWaiter ==
    ASSUME PhilAssumption, PhilMonAssumption, MonInv, current \in Phils,
           NEW j \in Phils, j # current, phil[j] = "HUNGRY",
           \A i \in Phils : Active(i) <=> i = current
    PROVE  /\ pc[j] = "cv_wait" /\ count[j] = 1
           /\ wait_queue[j] # <<>>
           /\ \A i \in Phils : MonOf(i) = j => i = j
<1>1. ~Active(j)
  OBVIOUS
<1>2. pc[j] \in {"take_test", "take_check", "cv_wait"}
  BY MonTypes DEF MonInv, MonStates, ThreadLabels, MonLabels, MonPlaces, Signallers
<1>3. pc[j] = "cv_wait" /\ wakeup_flags[j] # "WT_KSEM"
  BY <1>1, <1>2, ActiveMeans DEF ActiveAt, Entered, MonWaits
<1>4. down_pc[j] # "out"
  BY <1>3 DEF MonInv, MonPlaces
<1>5. wakeup_flags[j] = "WT_INTERRUPTED"
  BY <1>3, <1>4, MonTypes DEF Flags
<1>6. PICK s \in Sems : Queued(s, j) /\ wait_queue[s] # <<>>
  BY <1>5, MonTypes, SleeperQueued
<1>7. s = j
  BY <1>3, <1>6 DEF MonInv, MonPlaces, MonOf
<1>8. \A i \in Phils : MonOf(i) = j => i = j
  BY MonTypes DEF MonOf
<1> QED
  BY <1>3, <1>6, <1>7, <1>8 DEF MonInv, MonStates

(* A philosopher that puts its forks down lets a neighbour eat: cond_signal *)
(* hands the monitor to it, and the signaller has yet to wait for it.      *)
LEMMA MonSignal ==
    ASSUME PhilAssumption, PhilMonAssumption, MonInv,
           NEW l \in {"put_left", "put_right"}, NEW m, NEW j \in Phils,
           \/ l = "put_left" /\ m = "left_next" /\ j = LEFT(current)
           \/ l = "put_right" /\ m = "right_next" /\ j = RIGHT(current),
           At(l), Goto(m), MayEat(j), cond_signal(j), UNCHANGED iter,
           phil' = [phil EXCEPT ![j] = "EATING"]
    PROVE  MonInv'
<1>1. /\ current \in Phils /\ pc[current] = l
      /\ pc'[current] = m
      /\ \A i \in Phils \ {current} : pc'[i] = pc[i]
      /\ pc' \in [Phils -> ThreadLabels \cup MonLabels]
      /\ down_pc[current] = "out" /\ wakeup_flags[current] = "NONE"
      /\ value[mutex] = 0
      /\ \A i \in Phils : Active(i) <=> i = current
      /\ next_count = 0 /\ \A i \in Phils : pc[i] \notin Signallers
  <2>1. l \in Entered /\ l # "take_leave" /\ m \in ThreadLabels \cup MonLabels
    BY DEF Entered, MonLabels
  <2> QED
    BY <2>1, MonHere
<1>2. /\ j # current /\ phil[j] = "HUNGRY"
      /\ phil[LEFT(j)] # "EATING" /\ phil[RIGHT(j)] # "EATING"
  BY <1>1, Neighbours DEF MayEat
<1>3. /\ pc[j] = "cv_wait"
      /\ wait_queue[j] # <<>>
      /\ \A i \in Phils : MonOf(i) = j => i = j
  BY <1>1, <1>2, CondWaiter
<1>4. up(j) /\ j \in Sems /\ next_count' = 1 /\ UNCHANGED count
  BY <1>1, MonTypes DEF cond_signal
<1>5. /\ QueueInv'
      /\ UNCHANGED <<down_pc, current, value>>
      /\ \A i \in Phils, t \in Sems : Queued(t, i)' => Queued(t, i)
      /\ down_pc[j] # "out"
      /\ wakeup_flags' = [wakeup_flags EXCEPT ![j] = "WT_KSEM"]
  BY <1>3, <1>4, MonUp
<1>6. /\ wakeup_flags'[j] = "WT_KSEM"
      /\ \A i \in Phils \ {j} : wakeup_flags'[i] = wakeup_flags[i]
      /\ phil'[j] = "EATING"
      /\ \A i \in Phils \ {j} : phil'[i] = phil[i]
      /\ phil' \in [Phils -> PhilStates]
  BY <1>5, MonTypes DEF PhilStates
<1>7. MonTypeOK'
  BY <1>1, <1>4, <1>5, <1>6, MonTypes DEF MonTypeOK, PhilTypeOK, QueueInv
<1>8. MonPlaces'
  <2>1. \A i \in Phils, s \in Sems : Queued(s, i)' => Queued(s, i) /\ i # current
    BY <1>1, <1>5, MonTypes
  <2> QED
    BY <1>1, <1>5, <2>1 DEF MonInv, MonPlaces, MonOf, Signallers
<1>9. MonStates'
  BY <1>1, <1>2, <1>3, <1>4, <1>5, <1>6 DEF MonInv, MonStates, Signallers
<1>10. MonOwner'
  <2>1. \A i \in Phils : Active(i)' <=> i = j
    BY <1>1, <1>2, <1>3, <1>6, ActiveMeans DEF ActiveAt, Entered, MonWaits, Signallers
  <2>2. \A i \in Phils : pc'[i] \in Signallers <=> i = current
    BY <1>1 DEF Signallers
  <2>3. pc'[j] = "cv_wait"
    BY <1>1, <1>2, <1>3
  <2> QED
    BY <1>1, <1>4, <1>5, <2>1, <2>2, <2>3 DEF MonInv, MonOwner, OnlyActive
<1>11. NeighboursApart'
  <2>1. \A i \in Phils : RIGHT(i) = j => i = LEFT(j)
    BY Neighbours
  <2> QED
    BY <1>2, <1>6, <2>1, Neighbours DEF MonInv, NeighboursApart
<1>12. MonCause'
  <2> SUFFICES ASSUME NEW i \in Phils, phil'[i] = "HUNGRY",
                      pc'[i] \in {"take_check", "cv_wait"}
               PROVE  \/ phil'[LEFT(i)] = "EATING"
                      \/ phil'[RIGHT(i)] = "EATING"
                      \/ pc'[LEFT(i)] \in {"put_left", "left_next", "put_right"}
                      \/ pc'[RIGHT(i)] = "put_left"
    BY DEF MonCause
  <2>1. /\ LEFT(i) \in Phils /\ RIGHT(i) \in Phils
        /\ LEFT(RIGHT(i)) = i /\ RIGHT(LEFT(i)) = i
    BY Neighbours
  <2>2. i # j /\ i # current /\ phil[i] = "HUNGRY" /\ pc[i] \in {"take_check", "cv_wait"}
    BY <1>1, <1>6
  <2>3. \/ phil[LEFT(i)] = "EATING"
        \/ phil[RIGHT(i)] = "EATING"
        \/ pc[LEFT(i)] \in {"put_left", "left_next", "put_right"}
        \/ pc[RIGHT(i)] = "put_left"
    BY <2>2 DEF MonInv, MonCause
  <2>4. CASE phil[LEFT(i)] = "EATING" \/ phil[RIGHT(i)] = "EATING"
    BY <1>6, <2>1, <2>4
  <2>5. CASE pc[LEFT(i)] \in {"put_left", "left_next", "put_right"}
    <3>1. CASE LEFT(i) = current
      BY <1>1, <2>1, <2>2, <2>5, <3>1
    <3> QED
      BY <1>1, <2>1, <2>5, <3>1
  <2>6. CASE pc[RIGHT(i)] = "put_left"
    <3>1. CASE RIGHT(i) = current
      BY <1>1, <2>1, <2>2, <2>6, <3>1
    <3> QED
      BY <1>1, <2>1, <2>6, <3>1
  <2> QED
    BY <2>3, <2>4, <2>5, <2>6
<1> QED
  BY <1>5, <1>7, <1>8, <1>9, <1>10, <1>11, <1>12 DEF MonInv

(* The three calls of phi_test_condvar.                                    *)
LEMMA MonTest ==
    ASSUME PhilAssumption, PhilMonAssumption, MonInv, phi_test_condvar PROVE MonInv'
<1>1. DOMAIN AfterTest = {"take_test", "put_left", "put_right"}
  BY DEF AfterTest
<1> DEFINE For(l) == CASE l = "take_test" -> current
                       [] l = "put_left"  -> LEFT(current)
                       [] l = "put_right" -> RIGHT(current)
           Test(l, i) ==
             /\ At(l)
             /\ phil' = IF MayEat(i) THEN [phil EXCEPT ![i] = "EATING"] ELSE phil
             /\ \/ MayEat(i) /\ cond_signal(i) /\ Goto(SignalAt[l])
                \/ /\ ~MayEat(i) \/ count[i] = 0
                   /\ Goto(AfterTest[l])
                   /\ UNCHANGED <<sched_vars, sem_vars, mon_vars>>
             /\ UNCHANGED iter
<1>2. PICK l \in {"take_test", "put_left", "put_right"} : Test(l, For(l))
  <2>1. \E l \in DOMAIN AfterTest : Test(l, For(l))
    BY DEF phi_test_condvar
  <2> QED
    BY <1>1, <2>1
<1> HIDE DEF Test
<1>3. PICK j \in {current, LEFT(current), RIGHT(current)} :
        /\ \/ l = "take_test" /\ j = current
           \/ l = "put_left" /\ j = LEFT(current)
           \/ l = "put_right" /\ j = RIGHT(current)
        /\ Test(l, j)
  <2>1. For(l) = IF l = "take_test" THEN current
                 ELSE IF l = "put_left" THEN LEFT(current) ELSE RIGHT(current)
    BY <1>1, <1>2
  <2> QED
    BY <1>1, <1>2, <2>1
<1> HIDE DEF For
<1> USE DEF Test
<1>4. current \in Phils /\ pc[current] = l
  BY <1>3, MonTypes, CurrentPhil
<1>5. j \in Phils /\ (j = current <=> l = "take_test")
  BY <1>3, <1>4, Neighbours
<1>6. Active(current)
  BY <1>4, ActiveMeans DEF ActiveAt, Entered
<1>7. \A i \in Phils : Active(i) <=> i = current
  BY <1>4, <1>6, MonInside
<1>8. MayEat(j) => (count[j] > 0 <=> l # "take_test")
  <2>1. CASE l = "take_test"
    BY <1>4, <1>5, <2>1 DEF MonInv, MonStates
  <2>2. CASE l # "take_test" /\ MayEat(j)
    BY <1>4, <1>5, <1>7, <2>2, CondWaiter DEF MayEat
  <2> QED
    BY <2>1, <2>2
<1>9. CASE MayEat(j) /\ cond_signal(j) /\ Goto(SignalAt[l])
  <2>1. l # "take_test"
    BY <1>8, <1>9 DEF cond_signal
  <2>2. \/ l = "put_left" /\ SignalAt[l] = "left_next"
        \/ l = "put_right" /\ SignalAt[l] = "right_next"
    BY <2>1 DEF SignalAt
  <2> QED
    BY <1>3, <1>5, <1>9, <2>1, <2>2, MonSignal
<1>10. CASE /\ ~MayEat(j) \/ count[j] = 0
            /\ Goto(AfterTest[l])
            /\ UNCHANGED <<sched_vars, sem_vars, mon_vars>>
  <2>1. l # "take_test" => ~MayEat(j)
    BY <1>8, <1>10
  <2>2. \/ l = "take_test" /\ AfterTest[l] = "take_check"
        \/ l = "put_left" /\ AfterTest[l] = "put_right"
        \/ l = "put_right" /\ AfterTest[l] = "put_leave"
    BY DEF AfterTest
  <2> QED
    BY <1>3, <1>5, <1>10, <2>1, <2>2, MonTestQuiet
<1> QED
  BY <1>3, <1>9, <1>10

(* down() has returned after a wakeup, in cond_wait with the monitor that  *)
(* the signaller gave, in cond_signal with the monitor that came back.     *)
LEMMA MonResume ==
    ASSUME PhilAssumption, PhilMonAssumption, MonInv, NEW l, NEW m, NEW s \in Sems,
           \/ l = "cv_wait" /\ m = "take_leave" /\ s = current
           \/ l = "left_next" /\ m = "put_right" /\ s = next
           \/ l = "right_next" /\ m = "put_leave" /\ s = next,
           Downed(s, l), Goto(m), UNCHANGED <<phil, iter>>,
           IF l = "cv_wait"
           THEN count' = [count EXCEPT ![current] = @ - 1] /\ UNCHANGED next_count
           ELSE next_count' = next_count - 1 /\ UNCHANGED count
    PROVE  MonInv'
<1>1. /\ current \in Phils /\ pc[current] = l
      /\ pc' = [pc EXCEPT ![current] = m]
      /\ UNCHANGED <<sched_vars, current>>
      /\ down_take(s) \/ down_return(s)
  BY MonTypes, CurrentPhil DEF Downed, down_done, Goto, sched_vars
<1>2. value[s] = 0
  BY <1>1 DEF MonInv, MonStates, MonOwner
<1>3. down_return(s)
  BY <1>1, <1>2 DEF down_take
<1>4. /\ QueueInv'
      /\ UNCHANGED <<wait_queue, value>>
      /\ \A t \in Sems : ~Queued(t, current)
      /\ wakeup_flags[current] = "WT_KSEM"
      /\ wakeup_flags' = [wakeup_flags EXCEPT ![current] = "NONE"]
      /\ down_pc' = [down_pc EXCEPT ![current] = "out"]
  BY <1>1, <1>3, MonTypes, ReturnFromDown
<1>5. /\ pc'[current] = m
      /\ down_pc'[current] = "out"
      /\ down_pc'[idleproc] = down_pc[idleproc]
      /\ \A i \in Phils \ {current} : UNCHANGED <<pc[i], down_pc[i], wakeup_flags[i]>>
  BY <1>1, <1>4, MonTypes
<1>6. Active(current)
  BY <1>1, <1>4, ActiveMeans DEF ActiveAt, MonWaits, Signallers
<1>7. /\ value[mutex] = 0
      /\ \A i \in Phils : Active(i) <=> i = current
      /\ \/ next_count = 0 /\ \A i \in Phils : pc[i] \notin Signallers
         \/ /\ next_count = 1
            /\ \E k \in Phils :
                  /\ \A i \in Phils : pc[i] \in Signallers <=> i = k
                  /\ current = k \/ pc[current] \in {"cv_wait", "take_leave"}
  BY <1>1, <1>6, MonInside
<1>8. /\ l = "cv_wait" => count[current] = 1 /\ phil[current] = "EATING"
      /\ l # "cv_wait" => next_count = 1 /\ phil[current] = "THINKING"
  <2>1. l = "cv_wait" => count[current] = 1 /\ phil[current] = "EATING"
    BY <1>1, <1>4 DEF MonInv, MonStates
  <2>2. l # "cv_wait" => next_count = 1 /\ phil[current] = "THINKING"
    BY <1>1, <1>7 DEF MonInv, MonStates, Signallers
  <2> QED
    BY <2>1, <2>2
<1>9. /\ count' \in [Phils -> Nat]
      /\ \A i \in Phils \ {current} : count'[i] = count[i]
      /\ l = "cv_wait" => count'[current] = 0
      /\ l # "cv_wait" => count'[current] = count[current]
      /\ next_count' = IF l = "cv_wait" THEN next_count ELSE 0
  BY <1>1, <1>8, MonTypes
<1>10. MonTypeOK'
  BY <1>1, <1>4, <1>9, MonTypes
     DEF MonTypeOK, PhilTypeOK, QueueInv, ThreadLabels, MonLabels
<1>11. MonPlaces'
  <2>1. \A i \in Phils, t \in Sems : Queued(t, i)' => Queued(t, i) /\ i # current
    BY <1>4 DEF Queued
  <2> QED
    BY <1>1, <1>5, <2>1 DEF MonInv, MonPlaces, MonOf, Signallers
<1>12. MonStates'
  BY <1>1, <1>4, <1>5, <1>8, <1>9 DEF MonInv, MonStates, Signallers
<1>13. MonOwner'
  <2>1. \A i \in Phils : Active(i)' <=> i = current
    BY <1>1, <1>5, <1>7, ActiveMeans DEF ActiveAt, Entered
  <2>2. CASE l = "cv_wait"
    <3>1. \A i \in Phils : pc'[i] \in Signallers <=> pc[i] \in Signallers
      BY <1>1, <1>5, <2>2 DEF Signallers
    <3>2. pc'[current] = "take_leave"
      BY <1>5, <2>2
    <3> QED
      BY <1>1, <1>4, <1>7, <1>9, <2>1, <2>2, <3>1, <3>2 DEF MonInv, MonOwner, OnlyActive
  <2>3. CASE l # "cv_wait"
    <3>1. \A i \in Phils : pc'[i] \notin Signallers
      BY <1>1, <1>5, <1>7, <1>8, <2>3 DEF Signallers
    <3> QED
      BY <1>1, <1>4, <1>7, <1>9, <2>1, <2>3, <3>1 DEF MonInv, MonOwner, OnlyActive
  <2> QED
    BY <2>2, <2>3
<1>14. NeighboursApart'
  BY DEF MonInv, NeighboursApart
<1>15. MonCause'
  <2>1. \A i \in Phils : pc'[i] \in {"take_check", "cv_wait"} => pc'[i] = pc[i]
    BY <1>1, <1>5
  <2>2. \A i \in Phils :
           /\ pc[i] \in {"put_left", "left_next", "put_right"} =>
                 pc'[i] \in {"put_left", "left_next", "put_right"}
           /\ pc[i] = "put_left" => pc'[i] = "put_left"
    BY <1>1, <1>5
  <2> QED
    BY <2>1, <2>2, Neighbours DEF MonInv, MonCause
<1> QED
  BY <1>4, <1>10, <1>11, <1>12, <1>13, <1>14, <1>15 DEF MonInv

(* phi_test_condvar has found the forks free.                              *)
LEMMA MonCheck ==
    ASSUME PhilAssumption, PhilMonAssumption, MonInv, mon_take_check PROVE MonInv'
<1>1. /\ phil[current] = "EATING"
      /\ UNCHANGED <<sched_vars, sem_vars, phil, iter>>
      /\ UNCHANGED <<value, wait_queue, wakeup_flags, down_pc, current, next_count, count>>
  BY DEF mon_take_check, sched_vars, sem_vars, mon_vars
<1>2. /\ current \in Phils /\ pc[current] = "take_check"
      /\ pc'[current] = "take_leave"
      /\ \A i \in Phils \ {current} : pc'[i] = pc[i]
      /\ pc' \in [Phils -> ThreadLabels \cup MonLabels]
      /\ down_pc[current] = "out" /\ wakeup_flags[current] = "NONE"
      /\ value[mutex] = 0
      /\ \A i \in Phils : Active(i) <=> i = current
      /\ next_count = 0 /\ \A i \in Phils : pc[i] \notin Signallers
  <2>1. "take_check" \in Entered /\ "take_leave" \in ThreadLabels \cup MonLabels
    BY DEF Entered, MonLabels
  <2> QED
    BY <2>1, MonHere DEF mon_take_check
<1>3. QueueInv'
  BY <1>1, MonTypes, QueueStutter
<1>4. MonTypeOK'
  BY <1>1, <1>2, <1>3, MonTypes DEF MonTypeOK, PhilTypeOK, QueueInv
<1>5. MonPlaces'
  <2>1. \A i \in Phils, s \in Sems : Queued(s, i)' => Queued(s, i) /\ i # current
    BY <1>1, <1>2, MonTypes DEF Queued
  <2> QED
    BY <1>1, <1>2, <2>1 DEF MonInv, MonPlaces, MonOf, Signallers
<1>6. MonStates'
  BY <1>1, <1>2 DEF MonInv, MonStates, Signallers
<1>7. MonOwner'
  <2>1. \A i \in Phils : Active(i)' <=> i = current
    BY <1>1, <1>2, ActiveMeans DEF ActiveAt, Entered
  <2>2. \A i \in Phils : pc'[i] \notin Signallers
    BY <1>2 DEF Signallers
  <2> QED
    BY <1>1, <1>2, <2>1, <2>2 DEF MonInv, MonOwner, OnlyActive
<1>8. NeighboursApart' /\ MonCause'
  BY <1>1, <1>2, Neighbours DEF MonInv, NeighboursApart, MonCause
<1> QED
  BY <1>3, <1>4, <1>5, <1>6, <1>7, <1>8 DEF MonInv

(* The philosopher gives the monitor up, to wait or to leave, and no       *)
(* signaller waits: the mutex is free, or the first in its queue is in.    *)
LEMMA MonRelease ==
    ASSUME PhilAssumption, PhilMonAssumption, MonInv, NEW l \in Entered, NEW m,
           \/ /\ l = "take_check" /\ m = "cv_wait" /\ phil[current] # "EATING"
              /\ count' = [count EXCEPT ![current] = @ + 1]
           \/ l = "take_leave" /\ m = "dine" /\ UNCHANGED count
           \/ l = "put_leave" /\ m = "loop" /\ UNCHANGED count,
           At(l), Goto(m), up(mutex), next_count = 0,
           UNCHANGED <<phil, iter, next_count>>
    PROVE  MonInv'
<1>1. /\ current \in Phils /\ pc[current] = l
      /\ pc'[current] = m
      /\ \A i \in Phils \ {current} : pc'[i] = pc[i]
      /\ pc' \in [Phils -> ThreadLabels \cup MonLabels]
      /\ down_pc[current] = "out" /\ wakeup_flags[current] = "NONE"
      /\ value[mutex] = 0
      /\ \A i \in Phils : Active(i) <=> i = current
  <2>1. m \in ThreadLabels \cup MonLabels
    BY DEF ThreadLabels, MonLabels
  <2> QED
    BY <2>1, MonHere
<1>2. \A i \in Phils : pc[i] \notin Signallers
  BY <1>1, MonInside
<1>3. /\ QueueInv'
      /\ UNCHANGED <<down_pc, current>>
      /\ \A i \in Phils : UNCHANGED value[i]
      /\ UNCHANGED value[next]
      /\ \A i \in Phils, t \in Sems : Queued(t, i)' => Queued(t, i)
      /\ \/ /\ value'[mutex] = 1
            /\ \A i \in Phils : UNCHANGED wakeup_flags[i]
         \/ /\ value'[mutex] = 0
            /\ \E h \in Phils \ {current} :
                  /\ pc[h] \in {"think", "eat"}
                  /\ wakeup_flags'[h] = "WT_KSEM"
                  /\ \A i \in Phils \ {h} : UNCHANGED wakeup_flags[i]
  <2>1. /\ QueueInv'
        /\ UNCHANGED <<down_pc, current>>
        /\ \A i \in Phils, t \in Sems : Queued(t, i)' => Queued(t, i)
        /\ \/ value' = [value EXCEPT ![mutex] = @ + 1] /\ UNCHANGED wakeup_flags
           \/ /\ UNCHANGED value
              /\ \E p \in Phils :
                    /\ MonOf(p) = mutex /\ down_pc[p] # "out"
                    /\ wakeup_flags' = [wakeup_flags EXCEPT ![p] = "WT_KSEM"]
    BY MonTypes, MonUp
  <2>2. CASE value' = [value EXCEPT ![mutex] = @ + 1] /\ UNCHANGED wakeup_flags
    BY <1>1, <2>1, <2>2, MonTypes
  <2>3. CASE /\ UNCHANGED value
             /\ \E p \in Phils :
                   /\ MonOf(p) = mutex /\ down_pc[p] # "out"
                   /\ wakeup_flags' = [wakeup_flags EXCEPT ![p] = "WT_KSEM"]
    <3>1. PICK p \in Phils :
              /\ MonOf(p) = mutex /\ down_pc[p] # "out"
              /\ wakeup_flags' = [wakeup_flags EXCEPT ![p] = "WT_KSEM"]
      BY <2>3
    <3>2. p # current
      BY <1>1, <3>1
    <3>3. pc[p] \in {"think", "eat"}
      BY <3>1, MonTypes DEF MonInv, MonPlaces, MonOf
    <3>4. wakeup_flags'[p] = "WT_KSEM" /\ \A i \in Phils \ {p} : UNCHANGED wakeup_flags[i]
      BY <3>1, MonTypes
    <3> QED
      BY <1>1, <2>1, <2>3, <3>2, <3>3, <3>4
  <2> QED
    BY <2>1, <2>2, <2>3
<1>4. /\ count' \in [Phils -> Nat]
      /\ \A i \in Phils : count'[i] = IF pc'[i] = "cv_wait" THEN 1 ELSE 0
  <2>1. \A i \in Phils : count[i] = IF pc[i] = "cv_wait" THEN 1 ELSE 0
    BY DEF MonInv, MonStates
  <2>2. l # "cv_wait" /\ (m = "cv_wait" <=> l = "take_check")
    OBVIOUS
  <2> QED
    BY <1>1, <2>1, <2>2, MonTypes
<1>5. MonTypeOK'
  BY <1>1, <1>3, <1>4, MonTypes DEF MonTypeOK, PhilTypeOK, QueueInv
<1>6. MonPlaces'
  <2>1. \A i \in Phils, s \in Sems : Queued(s, i)' => Queued(s, i) /\ i # current
    BY <1>1, <1>3, MonTypes
  <2> QED
    BY <1>1, <1>3, <2>1 DEF MonInv, MonPlaces, MonOf, Signallers
<1>7. MonStates'
  <2>1. \A i \in Phils : pc'[i] = "cv_wait" => UNCHANGED wakeup_flags[i]
    BY <1>1, <1>3
  <2>2. m = "cv_wait" => phil[current] = "HUNGRY"
    BY <1>1, MonTypes DEF MonInv, MonStates, PhilStates
  <2> QED
    BY <1>1, <1>3, <1>4, <2>1, <2>2 DEF MonInv, MonStates, Signallers
<1>8. MonOwner'
  <2>1. \A i \in Phils : pc'[i] \notin Signallers
    BY <1>1, <1>2 DEF Signallers
  <2>2. value'[next] = 0
    BY <1>3 DEF MonInv, MonOwner
  <2>3. CASE value'[mutex] = 1 /\ \A i \in Phils : UNCHANGED wakeup_flags[i]
    <3>1. \A i \in Phils : ~Active(i)'
      BY <1>1, <2>3, ActiveMeans DEF ActiveAt, Entered, MonWaits, Signallers
    <3> QED
      BY <2>1, <2>2, <2>3, <3>1 DEF MonOwner
  <2>4. ASSUME NEW h \in Phils \ {current}, value'[mutex] = 0,
               pc[h] \in {"think", "eat"}, wakeup_flags'[h] = "WT_KSEM",
               \A i \in Phils \ {h} : UNCHANGED wakeup_flags[i]
        PROVE  MonOwner'
    <3>1. \A i \in Phils : Active(i)' <=> i = h
      BY <1>1, <2>4, ActiveMeans DEF ActiveAt, Entered, MonWaits, Signallers
    <3> QED
      BY <2>1, <2>2, <2>4, <3>1 DEF MonOwner, OnlyActive
  <2> QED
    BY <1>3, <2>3, <2>4
<1>9. NeighboursApart'
  BY DEF MonInv, NeighboursApart
<1>10. MonCause'
  <2>1. \A i \in Phils : pc'[i] \in {"take_check", "cv_wait"}
                            => pc[i] \in {"take_check", "cv_wait"}
    BY <1>1
  <2>2. \A i \in Phils : pc[i] \in {"put_left", "left_next", "put_right"} => pc'[i] = pc[i]
    BY <1>1
  <2> QED
    BY <2>1, <2>2, Neighbours DEF MonInv, MonCause
<1> QED
  BY <1>3, <1>5, <1>6, <1>7, <1>8, <1>9, <1>10 DEF MonInv

(* The woken philosopher leaves and its signaller has the monitor again.   *)
LEMMA MonReturn ==
    ASSUME PhilAssumption, PhilMonAssumption, MonInv, At("take_leave"), Goto("dine"),
           up(next), next_count > 0, UNCHANGED <<phil, iter, mon_vars>>
    PROVE  MonInv'
<1>1. /\ current \in Phils /\ pc[current] = "take_leave"
      /\ pc'[current] = "dine"
      /\ \A i \in Phils \ {current} : pc'[i] = pc[i]
      /\ pc' \in [Phils -> ThreadLabels \cup MonLabels]
      /\ down_pc[current] = "out" /\ wakeup_flags[current] = "NONE"
      /\ value[mutex] = 0
      /\ \A i \in Phils : Active(i) <=> i = current
  <2>1. "take_leave" \in Entered /\ "dine" \in ThreadLabels \cup MonLabels
    BY DEF ThreadLabels, Entered
  <2> QED
    BY <2>1, MonHere
<1>2. UNCHANGED <<next_count, count>> /\ next_count = 1
  BY <1>1, MonInside DEF mon_vars
<1>3. PICK k \in Phils : \A i \in Phils : pc[i] \in Signallers <=> i = k
  BY <1>1, <1>2, MonInside
<1>4. k # current /\ pc[k] \in Signallers
  BY <1>1, <1>3 DEF Signallers
<1>5. wait_queue[next] # <<>>
  <2>1. down_pc[k] # "out"
    BY <1>4 DEF MonInv, MonPlaces
  <2>2. wakeup_flags[k] = "WT_INTERRUPTED"
    BY <1>1, <1>4, <2>1, MonTypes, ActiveMeans DEF ActiveAt, MonWaits, Flags
  <2>3. PICK s \in Sems : Queued(s, k) /\ wait_queue[s] # <<>>
    BY <2>2, MonTypes, SleeperQueued
  <2>4. MonOf(k) = next
    BY <1>4 DEF MonOf, Signallers
  <2> QED
    BY <2>3, <2>4 DEF MonInv, MonPlaces
<1>6. \A i \in Phils : MonOf(i) = next => i = k
  BY <1>3, MonTypes DEF MonOf
<1>7. /\ QueueInv'
      /\ UNCHANGED <<down_pc, current, value>>
      /\ \A i \in Phils, t \in Sems : Queued(t, i)' => Queued(t, i)
      /\ wakeup_flags' = [wakeup_flags EXCEPT ![k] = "WT_KSEM"]
  BY <1>5, <1>6, MonTypes, MonUp
<1>8. wakeup_flags'[k] = "WT_KSEM" /\ \A i \in Phils \ {k} : UNCHANGED wakeup_flags[i]
  BY <1>7, MonTypes
<1>9. MonTypeOK'
  BY <1>1, <1>2, <1>7, MonTypes DEF MonTypeOK, PhilTypeOK, QueueInv
<1>10. MonPlaces'
  <2>1. \A i \in Phils, s \in Sems : Queued(s, i)' => Queued(s, i) /\ i # current
    BY <1>1, <1>7, MonTypes
  <2> QED
    BY <1>1, <1>7, <2>1 DEF MonInv, MonPlaces, MonOf, Signallers
<1>11. MonStates'
  <2>1. \A i \in Phils : pc[i] = "cv_wait" => UNCHANGED wakeup_flags[i]
    BY <1>4, <1>8 DEF Signallers
  <2> QED
    BY <1>1, <1>2, <1>7, <2>1 DEF MonInv, MonStates, Signallers
<1>12. MonOwner'
  <2>1. \A i \in Phils : Active(i)' <=> i = k
    BY <1>1, <1>4, <1>8, ActiveMeans DEF ActiveAt, Entered, MonWaits, Signallers
  <2>2. \A i \in Phils : pc'[i] \in Signallers <=> i = k
    BY <1>1, <1>3, <1>4 DEF Signallers
  <2> QED
    BY <1>1, <1>2, <1>7, <2>1, <2>2 DEF MonInv, MonOwner, OnlyActive
<1>13. NeighboursApart' /\ MonCause'
  BY <1>1, Neighbours DEF MonInv, NeighboursApart, MonCause
<1> QED
  BY <1>7, <1>9, <1>10, <1>11, <1>12, <1>13 DEF MonInv

(* A down() blocks.                                                        *)
LEMMA MonBlock ==
    ASSUME PhilAssumption, PhilMonAssumption, MonInv, mon_block PROVE MonInv'
<1>1. PICK l \in MonWaits : down_wait(DownAt[l], l) /\ UNCHANGED mon_vars
  BY DEF mon_block, DownAt, MonWaits, Signallers
<1>2. /\ current \in Phils /\ pc[current] = l /\ current # idleproc
      /\ UNCHANGED <<phil, iter, pc, next_count, count>>
      /\ down_block(MonOf(current))
      /\ MonOf(current) \in Sems
  <2>1. /\ current \in Phils /\ pc[current] = l /\ current # idleproc
        /\ UNCHANGED <<phil, iter, pc, next_count, count>>
        /\ down_block(DownAt[l])
    BY <1>1, MonTypes, CurrentPhil DEF down_wait, phil_vars, mon_vars
  <2>2. l # "take_next"
    BY <2>1 DEF MonInv, MonPlaces
  <2>3. DownAt[l] = MonOf(current)
    BY <2>1, <2>2 DEF DownAt, MonOf, MonWaits, Signallers
  <2> QED
    BY <2>1, <2>3, MonTypes DEF MonOf
<1>3. PICK s \in Sems : s = MonOf(current)
  BY <1>2
<1>4. /\ QueueInv'
      /\ wakeup_flags' = [wakeup_flags EXCEPT ![current] = "WT_INTERRUPTED"]
      /\ down_pc' = [down_pc EXCEPT ![current] = "sched"]
      /\ UNCHANGED <<value, current>>
  BY <1>2, <1>3, MonTypes, BlockInDown
<1>5. /\ down_pc[current] = "out"
      /\ \A t \in Sems, q \in Procs :
            Queued(t, q)' <=> Queued(t, q) \/ (t = s /\ q = current)
  BY <1>2, <1>3, MonTypes, BlockQueues DEF down_block
<1>6. /\ wakeup_flags[current] = "NONE" /\ wakeup_flags'[current] = "WT_INTERRUPTED"
      /\ \A i \in Phils \ {current} : UNCHANGED <<wakeup_flags[i], down_pc[i]>>
      /\ down_pc'[current] = "sched"
      /\ UNCHANGED down_pc[idleproc]
  BY <1>2, <1>4, <1>5, MonTypes
<1>7. MonTypeOK'
  BY <1>2, <1>4, MonTypes DEF MonTypeOK, PhilTypeOK, QueueInv
<1>8. MonPlaces'
  <2>1. \A i \in Phils : MonOf(i)' = MonOf(i)
    BY <1>2 DEF MonOf
  <2>2. \A i \in Phils, t \in Sems : Queued(t, i)' => t = MonOf(i)
    BY <1>3, <1>5, MonTypes DEF MonInv, MonPlaces
  <2>3. \A i \in Phils : pc[i] # "take_next"
    BY DEF MonInv, MonPlaces
  <2>4. \A i \in Phils : down_pc'[i] # "out" =>
           pc'[i] \in {"think", "eat", "cv_wait"} \cup Signallers
    BY <1>2, <1>6, <2>3 DEF MonInv, MonPlaces, MonWaits
  <2>5. \A i \in Phils :
           pc'[i] \in {"cv_wait"} \cup Signallers /\ down_pc'[i] = "out" => i = current'
    BY <1>2, <1>4, <1>6 DEF MonInv, MonPlaces
  <2>6. down_pc'[idleproc] = "out"
    BY <1>6 DEF MonInv, MonPlaces
  <2> QED
    BY <1>2, <2>1, <2>2, <2>3, <2>4, <2>5, <2>6 DEF MonPlaces
<1>9. MonStates'
  BY <1>2, <1>4, <1>6 DEF MonInv, MonStates
<1>10. MonOwner'
  <2>1. \A i \in Phils : Active(i)' <=> Active(i)
    BY <1>2, <1>6, ActiveMeans DEF ActiveAt
  <2> QED
    BY <1>2, <1>4, <2>1 DEF MonInv, MonOwner, OnlyActive
<1>11. NeighboursApart' /\ MonCause'
  BY <1>2 DEF MonInv, NeighboursApart, MonCause
<1> QED
  BY <1>4, <1>7, <1>8, <1>9, <1>10, <1>11 DEF MonInv

(* Every step of the version with the monitor.                             *)
LEMMA MonInvNext ==
    ASSUME PhilAssumption, PhilMonAssumption, MonInv,
           MonNext \/ UNCHANGED <<thread_vars, mon_vars>>
    PROVE  MonInv'
<1>1. CASE ThreadNext /\ UNCHANGED mon_vars
  <2>1. \A i \in Phils : pc[i] \in {"loop", "think_sched", "dine", "eat_sched", "done"}
                            => down_pc[i] = "out"
    BY DEF MonInv, MonPlaces, Signallers
  <2>2. PhilTypeOK(MonLabels) /\ QueueInv
    BY DEF MonInv, MonTypeOK
  <2>3. next_count' \in Nat /\ count' \in [Phils -> Nat]
    BY <1>1, MonTypes DEF mon_vars
  <2>4. PhilTypeOK(MonLabels)' => MonTypeOK'
    BY <2>3 DEF MonTypeOK
  <2> QED
    BY <1>1, <2>1, <2>2, <2>4, ThreadStep, MonQuiet
<1>2. CASE mon_take_forks \/ mon_put_forks
  BY <1>2, MonEnter DEF mon_take_forks, mon_put_forks
<1>3. CASE phi_test_condvar
  BY <1>3, MonTest
<1>4. CASE mon_take_check
  BY <1>4, MonCheck
<1>5. CASE cond_wait
  <2>1. "take_check" \in Entered /\ "take_check" # "take_leave"
    BY DEF Entered
  <2>2. next_count = 0
    BY <1>5, <2>1, MonHere DEF cond_wait
  <2> QED
    BY <1>5, <2>1, <2>2, MonRelease DEF cond_wait, release_monitor
<1>6. CASE cond_woken
  <2>1. current \in Sems
    BY <1>6, MonTypes, CurrentPhil DEF cond_woken, Downed
  <2> QED
    BY <1>6, <2>1, MonResume DEF cond_woken
<1>7. CASE mon_take_leave
  <2>1. "take_leave" \in Entered /\ next_count \in Nat
    BY MonTypes DEF Entered
  <2>2. CASE next_count > 0
    BY <1>7, <2>2, MonReturn DEF mon_take_leave, release_monitor
  <2>3. CASE next_count = 0
    BY <1>7, <2>1, <2>3, MonRelease DEF mon_take_leave, release_monitor, mon_vars
  <2> QED
    BY <2>1, <2>2, <2>3
<1>8. CASE mon_put_leave
  <2>1. "put_leave" \in Entered /\ "put_leave" # "take_leave"
    BY DEF Entered
  <2>2. next_count = 0
    BY <1>8, <2>1, MonHere DEF mon_put_leave
  <2> QED
    BY <1>8, <2>1, <2>2, MonRelease DEF mon_put_leave, release_monitor, mon_vars
<1>9. CASE signal_done
  <2>1. PICK l \in {"take_test", "put_left", "put_right"} :
            /\ Downed(next, SignalAt[l])
            /\ next_count' = next_count - 1
            /\ Goto(AfterTest[l])
            /\ UNCHANGED <<phil, iter, count>>
    BY <1>9 DEF signal_done, AfterTest
  <2>2. l # "take_test"
    <3>1. pc[current] = SignalAt[l] /\ current \in Phils
      BY <2>1, MonTypes, CurrentPhil DEF Downed
    <3> QED
      BY <3>1 DEF MonInv, MonPlaces, SignalAt
  <2>3. \/ SignalAt[l] = "left_next" /\ AfterTest[l] = "put_right"
        \/ SignalAt[l] = "right_next" /\ AfterTest[l] = "put_leave"
    BY <2>2 DEF SignalAt, AfterTest
  <2> QED
    BY <2>1, <2>3, MonTypes, MonResume
<1>10. CASE mon_block
  BY <1>10, MonBlock
<1>11. CASE UNCHANGED <<thread_vars, mon_vars>>
  <2>1. UNCHANGED <<sched_vars, sem_vars, phil, iter, pc, next_count, count>>
    BY <1>11 DEF thread_vars, phil_vars, mon_vars
  <2>2. QueueInv'
    BY <2>1, MonTypes, QueueStutter
  <2>3. MonTypeOK'
    BY <2>1, <2>2, MonTypes DEF MonTypeOK, PhilTypeOK, QueueInv
  <2> QED
    BY <1>11, <2>1, <2>2, <2>3, MonQuiet DEF sem_vars, sched_vars
<1> QED
  BY <1>1, <1>2, <1>3, <1>4, <1>5, <1>6, <1>7, <1>8, <1>9, <1>10, <1>11 DEF MonNext

(* What the invariant says of the monitor, in numbers.                     *)
LEMMA MonInvOK == ASSUME PhilAssumption, PhilMonAssumption, MonInv PROVE MonitorOK
<1>1. ForksExclusive /\ WaitGranted
  BY DEF MonInv, MonStates, NeighboursApart, ForksExclusive, WaitGranted
<1>2. MonitorExclusive
  <2>1. CASE value[mutex] = 1 /\ \A i \in Phils : ~Active(i)
    <3>1. {i \in Phils : Active(i)} = {}
      BY <2>1
    <3> QED
      BY <2>1, <3>1, FS_EmptySet DEF MonitorExclusive
  <2>2. CASE value[mutex] = 0 /\ \E a \in Phils : OnlyActive(a)
    <3>1. PICK a \in Phils : {i \in Phils : Active(i)} = {a}
      BY <2>2 DEF OnlyActive
    <3>2. Cardinality({a}) = 1
      BY FS_Singleton
    <3> QED
      BY <2>2, <3>1, <3>2 DEF MonitorExclusive
  <2> QED
    BY <2>1, <2>2 DEF MonInv, MonOwner
<1>3. MonitorCounts
  <2> DEFINE W == {i \in Phils : pc[i] \in {"take_next", "left_next", "right_next"}}
  <2>1. \A i \in Phils : i \in W <=> pc[i] \in Signallers
    BY DEF MonInv, MonPlaces, Signallers
  <2> HIDE DEF W
  <2>2. W \subseteq Phils
    BY DEF W
  <2>3. next_count = Cardinality(W) /\ next_count <= 1
    <3>1. CASE next_count = 0 /\ \A i \in Phils : pc[i] \notin Signallers
      <4>1. W = {}
        BY <2>1, <2>2, <3>1
      <4> QED
        BY <3>1, <4>1, FS_EmptySet
    <3>2. CASE next_count = 1 /\ \E k \in Phils : \A i \in Phils : pc[i] \in Signallers <=> i = k
      <4>1. PICK k \in Phils : W = {k}
        BY <2>1, <2>2, <3>2
      <4>2. Cardinality({k}) = 1
        BY FS_Singleton
      <4> QED
        BY <3>2, <4>1, <4>2
    <3> QED
      BY <3>1, <3>2 DEF MonInv, MonOwner
  <2> QED
    BY <2>3 DEF MonInv, MonOwner, MonStates, MonitorCounts, W
<1>4. MonHungryHasCause
  BY DEF MonInv, MonCause, MonHungryHasCause
<1> QED
  BY <1>1, <1>2, <1>3, <1>4 DEF MonInv, MonitorOK

-----------------------------------------------------------------------------
PhilosophersInv ==
    /\ version = "semaphore" => SemaInv
    /\ version = "condvar" => MonInv

(* However many philosophers there are and however often they eat: in both *)
(* versions of check_sync.c neighbours never eat together and none waits   *)
(* for free forks.  The semaphores of the one count what they stand for;   *)
(* in the monitor of the other (monitor.c) one philosopher at a time is    *)
(* active, cond_wait returns with its condition true though it is not in a *)
(* loop, and the counters that choose whom to hand the monitor are exact.  *)
THEOREM PhilosophersCorrect ==
    ASSUME PhilAssumption, PhilMonAssumption
    PROVE  PhilosophersSpec => []PhilosophersOK
<1>1. PhilosophersInit => PhilosophersInv
  BY SemaInvInit, MonInvInit DEF PhilosophersInit, PhilosophersInv
<1>2. PhilosophersInv /\ [PhilosophersNext]_philosophers_vars => PhilosophersInv'
  <2> SUFFICES ASSUME PhilosophersInv, [PhilosophersNext]_philosophers_vars
               PROVE  PhilosophersInv'
    OBVIOUS
  <2>1. version' = version
    BY DEF PhilosophersNext, philosophers_vars
  <2>2. version = "semaphore" => SemaNext \/ UNCHANGED thread_vars
    BY DEF PhilosophersNext, philosophers_vars
  <2>3. version = "condvar" => MonNext \/ UNCHANGED <<thread_vars, mon_vars>>
    BY DEF PhilosophersNext, philosophers_vars
  <2> QED
    BY <2>1, <2>2, <2>3, SemaInvNext, MonInvNext DEF PhilosophersInv
<1>3. PhilosophersInv => PhilosophersOK
  BY SemaInvOK, MonInvOK DEF PhilosophersInv, PhilosophersOK
<1> QED
  BY <1>1, <1>2, <1>3, PTL DEF PhilosophersSpec
=============================================================================
