-------------------------------- MODULE Sched --------------------------------
(***************************************************************************)
(* The scheduler core of kern/schedule/sched.c with its default policy     *)
(* (_SCHED_RR_, kern/schedule/rr_sched.c): the per-process fields that     *)
(* scheduling reads and writes, the run queue, wakeup_proc, schedule and   *)
(* the per-tick accounting.  The modules that model the code which calls   *)
(* the scheduler (process life cycle, standard input, semaphores) EXTEND   *)
(* this one and conjoin its operators into their actions.                  *)
(*                                                                         *)
(* Every operator here runs between local_intr_save and                    *)
(* local_intr_restore in the code, on the only CPU, so it is one step.     *)
(***************************************************************************)
EXTENDS Integers, Sequences, FiniteSets

CONSTANTS
    Procs,         \* the proc_struct objects the kernel can hold
    idleproc,      \* the process that runs when no other can
    MaxTimeSlice   \* rq->max_time_slice

ASSUME SchedAssumption ==
    /\ idleproc \in Procs
    /\ MaxTimeSlice \in Nat \ {0}

VARIABLES
    state,         \* [Procs -> States]
    wait_state,    \* [Procs -> WaitStates]
    need_resched,  \* [Procs -> BOOLEAN]
    time_slice,    \* [Procs -> 0..MaxTimeSlice]
    current,       \* the process that owns the CPU
    run_list       \* rq->run_list, next process to run first

sched_vars == <<state, wait_state, need_resched, time_slice, current, run_list>>

(* PROC_UNINIT exists only between alloc_proc and wakeup_proc in do_fork;  *)
(* "UNUSED" is a proc_struct that is not allocated.                        *)
States == {"UNUSED", "UNINIT", "SLEEPING", "RUNNABLE", "ZOMBIE"}

(* "NONE" is wait_state 0.                                                 *)
WaitStates == {"NONE", "WT_CHILD", "WT_TIMER", "WT_KBD", "WT_KSEM"}

(* The wait states that contain the bit WT_INTERRUPTED: do_kill may end    *)
(* these waits, but not a wait for a semaphore.                            *)
WT_INTERRUPTED == {"WT_CHILD", "WT_TIMER", "WT_KBD"}

SchedTypeOK ==
    /\ state \in [Procs -> States]
    /\ wait_state \in [Procs -> WaitStates]
    /\ need_resched \in [Procs -> BOOLEAN]
    /\ time_slice \in [Procs -> 0..MaxTimeSlice]
    /\ current \in Procs
    /\ run_list \in Seq(Procs)

-----------------------------------------------------------------------------
(* RR_enqueue gives a process whose slice is used up (or that never had    *)
(* one) a full slice; a process that was interrupted keeps its remainder.  *)
Refill(n) == IF n = 0 \/ n > MaxTimeSlice THEN MaxTimeSlice ELSE n

(* Faulty variant of wakeup_proc: current is queued like any other.      *)
wakeup_proc_queues_current(st, p) ==
    IF st[p] = "RUNNABLE"
    THEN /\ state' = st
         /\ UNCHANGED <<wait_state, run_list, time_slice>>
    ELSE /\ state' = [st EXCEPT ![p] = "RUNNABLE"]
         /\ wait_state' = [wait_state EXCEPT ![p] = "NONE"]
         /\ run_list' = Append(run_list, p)
         /\ time_slice' = [time_slice EXCEPT ![p] = Refill(@)]

(* Faulty variant of wakeup_proc: wait_state is not cleared.             *)
wakeup_proc_keeps_wait(st, p) ==
    /\ state' = [st EXCEPT ![p] = "RUNNABLE"]
    /\ UNCHANGED wait_state
    /\ IF st[p] = "RUNNABLE" \/ p \in {current, idleproc}
       THEN UNCHANGED <<run_list, time_slice>>
       ELSE /\ run_list' = Append(run_list, p)
            /\ time_slice' = [time_slice EXCEPT ![p] = Refill(@)]

(* wakeup_proc(p), where st is the value of the state fields when it is    *)
(* called.  A process that is already runnable is left alone (the code     *)
(* warns), and current is not queued: it still has the CPU, and its own    *)
(* call of schedule() will queue it.                                       *)
wakeup_proc(st, p) ==
    IF st[p] = "RUNNABLE"
    THEN /\ state' = st
         /\ UNCHANGED <<wait_state, run_list, time_slice>>
    ELSE /\ state' = [st EXCEPT ![p] = "RUNNABLE"]
         /\ wait_state' = [wait_state EXCEPT ![p] = "NONE"]
         /\ IF p \in {current, idleproc}
            THEN UNCHANGED <<run_list, time_slice>>
            ELSE /\ run_list' = Append(run_list, p)
                 /\ time_slice' = [time_slice EXCEPT ![p] = Refill(@)]

(* schedule(): current goes to the tail of the run queue if it is still    *)
(* runnable, the head of the queue gets the CPU, idleproc if there is none.*)
schedule ==
    LET again == state[current] = "RUNNABLE" /\ current # idleproc
        queue == IF again THEN Append(run_list, current) ELSE run_list
    IN  /\ need_resched' = [need_resched EXCEPT ![current] = FALSE]
        /\ time_slice' = IF again
                         THEN [time_slice EXCEPT ![current] = Refill(@)]
                         ELSE time_slice
        /\ current' = IF queue = <<>> THEN idleproc ELSE Head(queue)
        /\ run_list' = IF queue = <<>> THEN <<>> ELSE Tail(queue)
        /\ UNCHANGED <<state, wait_state>>

(* Faulty variant of sched_class_proc_tick: a slice that is used up is   *)
(* counted down further.                                                   *)
sched_class_proc_tick_below_zero ==
    LET left == time_slice[current] - 1
    IN  /\ time_slice' = IF current = idleproc
                         THEN time_slice
                         ELSE [time_slice EXCEPT ![current] = left]
        /\ need_resched' = IF current = idleproc \/ left = 0
                           THEN [need_resched EXCEPT ![current] = TRUE]
                           ELSE need_resched
        /\ UNCHANGED <<state, wait_state, current, run_list>>

(* sched_class_proc_tick(current): one tick of current's slice is used.    *)
(* idleproc has no slice: each tick makes it look for work.                *)
sched_class_proc_tick ==
    LET left == IF time_slice[current] > 0 THEN time_slice[current] - 1 ELSE 0
    IN  /\ time_slice' = IF current = idleproc
                         THEN time_slice
                         ELSE [time_slice EXCEPT ![current] = left]
        /\ need_resched' = IF current = idleproc \/ left = 0
                           THEN [need_resched EXCEPT ![current] = TRUE]
                           ELSE need_resched
        /\ UNCHANGED <<state, wait_state, current, run_list>>

(* current starts to wait for an event: the first half of do_wait,         *)
(* do_sleep and wait_current_set.                                          *)
set_waiting(ws) ==
    /\ state' = [state EXCEPT ![current] = "SLEEPING"]
    /\ wait_state' = [wait_state EXCEPT ![current] = ws]

-----------------------------------------------------------------------------
(* No process is queued twice: the assertion list_empty(&proc->run_link)   *)
(* of RR_enqueue.                                                          *)
RunListDistinct ==
    \A i, j \in DOMAIN run_list : run_list[i] = run_list[j] => i = j

(* The run queue holds exactly the processes that can run and do not:      *)
(* neither a sleeping, dead or freed process, nor current, nor idleproc is *)
(* in it, and no runnable process is missing (it would never run again).   *)
RunListExact ==
    \A p \in Procs :
        (\E i \in DOMAIN run_list : run_list[i] = p)
            <=> state[p] = "RUNNABLE" /\ p \notin {current, idleproc}

(* The queue discipline that wakeup_proc and schedule rely on and keep,    *)
(* whatever order wakeups by timers, exits, kills and keys come in.        *)
RunQueueOK ==
    /\ state[idleproc] = "RUNNABLE"
    /\ RunListDistinct
    /\ RunListExact
=============================================================================
