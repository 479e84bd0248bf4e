---------------------------- MODULE PhilThreads ----------------------------
(***************************************************************************)
(* The threads of kern/sync/check_sync.c and what surrounds them: both     *)
(* versions of the dining philosophers (PhilSem with semaphores, PhilMon   *)
(* with a monitor) EXTEND this module.                                     *)
(*                                                                         *)
(* The philosophers are kernel threads: they leave the CPU only where they *)
(* block, in down() and do_sleep(), while the timer interrupt may come     *)
(* between any two steps.  A step is one call of up() or down() with the   *)
(* code next to it that only these threads look at.  A tick changes only   *)
(* need_resched and time_slice of a kernel thread, which nothing reads     *)
(* then, so ticks are modelled while idleproc runs.                        *)
(***************************************************************************)
EXTENDS Sem

CONSTANTS
    N,      \* number of philosophers
    TIMES,  \* meals of each
    mutex   \* semaphore of the critical section, or of the monitor

Phils == 0..(N - 1)

PhilAssumption ==
    /\ N \in Nat /\ N > 1
    /\ TIMES \in Nat
    /\ Procs = Phils \cup {idleproc}
    /\ idleproc \notin Phils
    /\ Phils \cup {mutex} \subseteq Sems
    /\ mutex \notin Phils

VARIABLES
    phil,   \* state_sema or state_condvar: [Phils -> PhilStates]
    iter,   \* [Phils -> 0..TIMES]: meals
    pc      \* [Phils -> labels of the version]

phil_vars == <<phil, iter, pc>>

thread_vars == <<sched_vars, sem_vars, phil_vars>>

PhilStates == {"THINKING", "HUNGRY", "EATING"}

LEFT(i) == (i - 1 + N) % N
RIGHT(i) == (i + 1) % N

ThreadLabels ==
    { "loop",         \* while (iter++ < TIMES)
      "think_sched",  \* do_sleep before the meal: schedule() is next
      "think",        \* asleep; then take_forks begins with down(&mutex)
      "dine",         \* take_forks has returned
      "eat_sched",    \* do_sleep during the meal: schedule() is next
      "eat",          \* asleep; then put_forks begins with down(&mutex)
      "done" }        \* do_exit

PhilTypeOK(labels) ==
    /\ SchedTypeOK
    /\ SemTypeOK
    /\ phil \in [Phils -> PhilStates]
    /\ iter \in [Phils -> 0..TIMES]
    /\ pc \in [Phils -> ThreadLabels \cup labels]

(* check_sync has created the threads and init_main has blocked.           *)
PhilInit ==
    /\ state = [p \in Procs |-> "RUNNABLE"]
    /\ wait_state = [p \in Procs |-> "NONE"]
    /\ need_resched = [p \in Procs |-> FALSE]
    /\ time_slice = [p \in Procs |-> IF p = idleproc THEN 0 ELSE MaxTimeSlice]
    /\ current = 0
    /\ run_list = [k \in 1..(N - 1) |-> k]
    /\ phil = [i \in Phils |-> "THINKING"]
    /\ iter = [i \in Phils |-> 0]
    /\ pc = [i \in Phils |-> "loop"]

-----------------------------------------------------------------------------
At(l) == current # idleproc /\ pc[current] = l

Goto(l) == pc' = [pc EXCEPT ![current] = l]

(* i is hungry and no neighbour eats: the condition of phi_test.           *)
MayEat(i) ==
    /\ phil[i] = "HUNGRY"
    /\ phil[LEFT(i)] # "EATING"
    /\ phil[RIGHT(i)] # "EATING"

(* The end of down(s) called at label l, or its part up to schedule().     *)
Downed(s, l) == At(l) /\ down_done(s)

down_wait(s, l) == At(l) /\ down_block(s) /\ UNCHANGED phil_vars

phil_sched == down_sched /\ UNCHANGED phil_vars

(* do_sleep(SLEEP_TIME) up to its schedule().                              *)
fall_asleep(l) ==
    /\ set_waiting("WT_TIMER")
    /\ Goto(l)
    /\ UNCHANGED <<need_resched, time_slice, current, run_list, sem_vars, phil>>

(* The head of the loop: think, or leave the table.                        *)
think ==
    /\ At("loop")
    /\ iter[current] < TIMES
    /\ iter' = [iter EXCEPT ![current] = @ + 1]
    /\ fall_asleep("think_sched")

eat ==
    /\ At("dine")
    /\ fall_asleep("eat_sched")
    /\ UNCHANGED iter

sleep_sched ==
    /\ \/ At("think_sched") /\ Goto("think")
       \/ At("eat_sched") /\ Goto("eat")
    /\ schedule
    /\ UNCHANGED <<sem_vars, phil, iter>>

(* The thread returns, and kernel_thread_entry calls do_exit.              *)
leave ==
    /\ At("loop")
    /\ iter[current] = TIMES
    /\ state' = [state EXCEPT ![current] = "ZOMBIE"]
    /\ Goto("done")
    /\ UNCHANGED <<wait_state, need_resched, time_slice, current, run_list,
                   sem_vars, phil, iter>>

(* The schedule() at the end of do_exit.                                   *)
leave_sched ==
    /\ At("done")
    /\ schedule
    /\ UNCHANGED <<sem_vars, phil_vars>>

(* The timer interrupt: a sleep is over.                                   *)
timer_fire(i) ==
    /\ wait_state[i] = "WT_TIMER"
    /\ wakeup_proc(state, i)
    /\ UNCHANGED <<need_resched, current, sem_vars, phil_vars>>

(* The timer interrupt in cpu_idle, and cpu_idle itself.                   *)
idle_tick ==
    /\ current = idleproc
    /\ sched_class_proc_tick
    /\ UNCHANGED <<sem_vars, phil_vars>>

cpu_idle ==
    /\ current = idleproc
    /\ need_resched[idleproc]
    /\ schedule
    /\ UNCHANGED <<sem_vars, phil_vars>>

ThreadNext ==
    \/ phil_sched
    \/ think
    \/ eat
    \/ sleep_sched
    \/ leave
    \/ leave_sched
    \/ idle_tick
    \/ cpu_idle
    \/ \E i \in Phils : timer_fire(i)

-----------------------------------------------------------------------------
(* Neighbours never eat at the same time, and whoever has come back from   *)
(* take_forks, blocked or not, has the forks until it puts them down.      *)
ForksExclusive ==
    \A i \in Phils :
        /\ pc[i] \in {"dine", "eat_sched", "eat"} => phil[i] = "EATING"
        /\ phil[i] = "EATING" => phil[RIGHT(i)] # "EATING"
=============================================================================
