--------------------------------- MODULE Sem ---------------------------------
(***************************************************************************)
(* Kernel semaphores: kern/sync/sem.c with the wait queues of              *)
(* kern/sync/wait.c, on top of the scheduler.  up() does not give the      *)
(* permit back when somebody waits: it hands it to the first waiter, which *)
(* leaves the queue and is woken with wakeup_flags WT_KSEM.                *)
(*                                                                         *)
(* down() is cut at its schedule(): down_done is a down() that completes   *)
(* (at once, or after the process was woken), down_block the part up to    *)
(* schedule() when there is no permit, down_sched the schedule() itself.   *)
(* Modules that model users of semaphores conjoin these with their own     *)
(* steps; which semaphore a blocked process waits for is known from the    *)
(* place in the user's code.                                               *)
(***************************************************************************)
EXTENDS Sched, Wait

CONSTANT Sems   \* the semaphore_t objects

VARIABLES
    value,         \* [Sems -> Nat]
    wait_queue,    \* [Sems -> Seq(Procs)], first waiter first
    wakeup_flags,  \* [Procs -> Flags]: of the wait_t on the stack of down()
    down_pc        \* [Procs -> DownLabels]: where the process is in down()

sem_vars == <<value, wait_queue, wakeup_flags, down_pc>>

Flags == {"NONE", "WT_INTERRUPTED", "WT_KSEM"}

DownLabels ==
    { "out",     \* not in down(), or at its start
      "sched",   \* wait_current_set is done, schedule() is next
      "woken" }  \* inside schedule() or after it

SemTypeOK ==
    /\ value \in [Sems -> Nat]
    /\ wait_queue \in [Sems -> Seq(Procs)]
    /\ wakeup_flags \in [Procs -> Flags]
    /\ down_pc \in [Procs -> DownLabels]

(* sem_init of every semaphore, with the values v.                         *)
SemInit(v) ==
    /\ value = v
    /\ wait_queue = [s \in Sems |-> <<>>]
    /\ wakeup_flags = [p \in Procs |-> "NONE"]
    /\ down_pc = [p \in Procs |-> "out"]

-----------------------------------------------------------------------------
(* Faulty variant of up: the permit is handed over and counted, too.     *)
up_twice(s) ==
    /\ value' = [value EXCEPT ![s] = @ + 1]
    /\ IF wait_queue[s] = <<>>
       THEN UNCHANGED <<wait_queue, wakeup_flags, sched_vars>>
       ELSE LET p == Head(wait_queue[s])
            IN  /\ wait_queue' = [wait_queue EXCEPT ![s] = Tail(@)]
                /\ wakeup_flags' = [wakeup_flags EXCEPT ![p] = "WT_KSEM"]
                /\ wakeup_proc(state, p)
                /\ UNCHANGED <<need_resched, current>>
    /\ UNCHANGED down_pc

(* Faulty variant of up: wakeup_wait with del 0.                         *)
up_undeleted(s) ==
    /\ IF wait_queue[s] = <<>>
       THEN /\ value' = [value EXCEPT ![s] = @ + 1]
            /\ UNCHANGED <<wait_queue, wakeup_flags, sched_vars>>
       ELSE LET p == Head(wait_queue[s])
            IN  /\ wakeup_flags' = [wakeup_flags EXCEPT ![p] = "WT_KSEM"]
                /\ wakeup_proc(state, p)
                /\ UNCHANGED <<value, wait_queue, need_resched, current>>
    /\ UNCHANGED down_pc

(* up(s).                                                                  *)
up(s) ==
    /\ IF wait_queue[s] = <<>>
       THEN /\ value' = [value EXCEPT ![s] = @ + 1]
            /\ UNCHANGED <<wait_queue, wakeup_flags, sched_vars>>
       ELSE LET p == Head(wait_queue[s])
            IN  /\ wait_queue' = [wait_queue EXCEPT ![s] = Tail(@)]
                /\ wakeup_flags' = [wakeup_flags EXCEPT ![p] = "WT_KSEM"]
                /\ wakeup_proc(state, p)
                /\ UNCHANGED <<value, need_resched, current>>
    /\ UNCHANGED down_pc

(* down(s) by current finds no permit: it queues up and is about to sleep. *)
down_block(s) ==
    /\ down_pc[current] = "out"
    /\ value[s] = 0
    /\ set_waiting("WT_KSEM")
    /\ wait_queue' = [wait_queue EXCEPT ![s] = Append(@, current)]
    /\ wakeup_flags' = [wakeup_flags EXCEPT ![current] = "WT_INTERRUPTED"]
    /\ down_pc' = [down_pc EXCEPT ![current] = "sched"]
    /\ UNCHANGED <<value, need_resched, time_slice, current, run_list>>

(* The schedule() in down().                                               *)
down_sched ==
    /\ down_pc[current] = "sched"
    /\ schedule
    /\ down_pc' = [down_pc EXCEPT ![current] = "woken"]
    /\ UNCHANGED <<value, wait_queue, wakeup_flags>>

(* down(s) by current takes a permit at once.                              *)
down_take(s) ==
    /\ down_pc[current] = "out"
    /\ value[s] > 0
    /\ value' = [value EXCEPT ![s] = @ - 1]
    /\ UNCHANGED <<wait_queue, wakeup_flags, down_pc>>

(* down(s) goes on after schedule(): wait_current_del, and the permit is   *)
(* current's if the wakeup came from up().  The code asserts that it did.  *)
down_return(s) ==
    /\ down_pc[current] = "woken"
    /\ wait_queue' = [wait_queue EXCEPT ![s] = wait_current_del(@, current)]
    /\ wakeup_flags' = [wakeup_flags EXCEPT ![current] = "NONE"]
    /\ down_pc' = [down_pc EXCEPT ![current] = "out"]
    /\ UNCHANGED value

down_done(s) == (down_take(s) \/ down_return(s)) /\ UNCHANGED sched_vars

-----------------------------------------------------------------------------
Queued(s, p) == Linked(wait_queue[s], p)

(* A semaphore with permits has no waiters: up() never frees a permit past *)
(* a process in the queue, so no down() overtakes a waiter.                *)
NoPermitPastWaiters == \A s \in Sems : value[s] > 0 => wait_queue[s] = <<>>

(* The processes in wait queues are those that sleep for a semaphore, each *)
(* in one queue and once: the assertion on wait_state in __up, and no      *)
(* sleeper that no up() can find.                                          *)
WaitersQueued ==
    /\ \A s \in Sems : \A i, j \in DOMAIN wait_queue[s] :
          wait_queue[s][i] = wait_queue[s][j] => i = j
    /\ \A p \in Procs :
          /\ wait_state[p] = "WT_KSEM" <=> \E s \in Sems : Queued(s, p)
          /\ \A s, t \in Sems : Queued(s, p) /\ Queued(t, p) => s = t
          /\ wait_state[p] = "WT_KSEM" => state[p] = "SLEEPING"

(* down() returns only with a permit that up() handed over: the assertion  *)
(* flags == 0 in down().  Neither kills nor timers wake a process there.   *)
DownGranted ==
    \A p \in Procs :
        down_pc[p] # "out" /\ state[p] = "RUNNABLE" => wakeup_flags[p] = "WT_KSEM"
=============================================================================
