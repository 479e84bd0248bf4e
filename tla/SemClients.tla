----------------------------- MODULE SemClients -----------------------------
(***************************************************************************)
(* Any use of semaphores by processes in the kernel (the locks of address  *)
(* spaces and of the file system, check_sync): each process calls up and   *)
(* down as it likes, is preempted between system calls and may be killed   *)
(* or wait for a timer.  The specification implements Semaphore.           *)
(***************************************************************************)
EXTENDS Sem

CONSTANTS
    NULL,
    ClientSems,    \* the semaphores that the processes use
    InitialValue,  \* argument of sem_init
    MaxValue       \* bound on value, for TLC

SemClientsAssumption ==
    /\ IsFiniteSet(Procs)
    /\ NULL \notin Sems
    /\ ClientSems \subseteq Sems
    /\ InitialValue \in [Sems -> Nat]
    /\ MaxValue \in Nat

VARIABLE target   \* [Procs -> Sems \cup {NULL}]: semaphore of the down() p is in

vars == <<sched_vars, sem_vars, target>>

TypeOK ==
    /\ SchedTypeOK
    /\ SemTypeOK
    /\ target \in [Procs -> Sems \cup {NULL}]

Init ==
    /\ state = [p \in Procs |-> "RUNNABLE"]
    /\ wait_state = [p \in Procs |-> "NONE"]
    /\ need_resched = [p \in Procs |-> FALSE]
    /\ time_slice = [p \in Procs |-> MaxTimeSlice]
    /\ current \in Procs \ {idleproc}
    /\ run_list \in [1..(Cardinality(Procs) - 2) -> Procs \ {idleproc, current}]
    /\ RunListDistinct
    /\ SemInit(InitialValue)
    /\ target = [p \in Procs |-> NULL]

Aim(s) == target' = [target EXCEPT ![current] = s]

(* current runs code outside of the waiting primitives.                    *)
Free == current # idleproc /\ down_pc[current] = "out" /\ state[current] = "RUNNABLE"

client_up(s) ==
    /\ Free
    /\ value[s] < MaxValue
    /\ up(s)
    /\ UNCHANGED target

client_down(s) ==
    \/ Free /\ down_done(s) /\ UNCHANGED target
    \/ Free /\ down_block(s) /\ Aim(s)
    \/ target[current] = s /\ down_done(s) /\ Aim(NULL)

client_sched == down_sched /\ UNCHANGED target

(* Back in user mode, or idle, with need_resched set: trap() schedules.    *)
preempt ==
    /\ down_pc[current] = "out"
    /\ schedule
    /\ UNCHANGED <<sem_vars, target>>

(* The process sleeps for something else (a timer, a child, a key) ...     *)
other_wait ==
    /\ Free
    /\ set_waiting("WT_TIMER")
    /\ UNCHANGED <<need_resched, time_slice, current, run_list, sem_vars, target>>

(* ... and do_kill, or the event it waits for, wakes it.  do_kill looks at *)
(* WT_INTERRUPTED in wait_state.                                           *)
other_wakeup(p) ==
    /\ wait_state[p] \in WT_INTERRUPTED
    /\ wakeup_proc(state, p)
    /\ UNCHANGED <<need_resched, current, sem_vars, target>>

Next ==
    \/ \E s \in ClientSems : client_up(s) \/ client_down(s)
    \/ client_sched
    \/ preempt
    \/ other_wait
    \/ \E p \in Procs : other_wakeup(p)

Spec == Init /\ [][Next]_vars

-----------------------------------------------------------------------------
(* The run queue and the wait queues stay exact together: every process    *)
(* that sleeps for a semaphore is in the queue where up() will find it,    *)
(* none is while there is a permit to take, and down() returns only with a *)
(* permit that up() handed over (kern/sync/sem.c, kern/sync/wait.c).       *)
QueuesOK ==
    /\ TypeOK
    /\ RunQueueOK
    /\ NoPermitPastWaiters
    /\ WaitersQueued
    /\ DownGranted

(* Permits in flight: handed to a process that has not returned from       *)
(* down() yet.                                                             *)
Granted(s) == {p \in Procs : target[p] = s /\ ~Queued(s, p)}

(* The permits that exist: up() hands most of them over without touching   *)
(* value.                                                                  *)
Permits == [s \in Sems |-> value[s] + Cardinality(Granted(s))]

Counting == INSTANCE Semaphore WITH permits <- Permits

(* up() and down() are those of a counting semaphore: every down() that    *)
(* returns has used up one permit of the initial ones and of those up()    *)
(* made, although up() hands most of them over without touching value.     *)
CountingSemaphore == Counting!Spec
=============================================================================
