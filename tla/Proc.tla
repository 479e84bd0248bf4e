-------------------------------- MODULE Proc --------------------------------
(***************************************************************************)
(* The life of processes in kern/process/proc.c: fork, exit, wait, kill,   *)
(* sleep and yield, init's reaping loop and the idle loop, on top of the   *)
(* scheduler (Sched) and the timer list (Timers), with the timer interrupt *)
(* and the return path of trap() in kern/trap/trap.c.                      *)
(*                                                                         *)
(* The kernel has one CPU and does not preempt itself: trap() calls        *)
(* schedule() only on the way back to user mode, so between two calls of   *)
(* schedule() only current and interrupt handlers take steps.  pc[p] is    *)
(* the place p's kernel stack has reached.  A handler is cut into several  *)
(* steps where interrupts are enabled and a handler could see or change    *)
(* what it works on, and at the iterations of loops that wake processes;   *)
(* in the latter interrupts are off (IntrOn).                              *)
(***************************************************************************)
EXTENDS Sched

CONSTANTS
    Slots,        \* proc_structs of user processes
    initproc,     \* the kernel thread that runs init_main
    NULL,         \* no process
    SleepTimes,   \* arguments of SYS_sleep, other than 0
    MAX_PROCESS   \* bound on nr_process

ASSUME ProcAssumption ==
    /\ Procs = Slots \cup {idleproc, initproc}
    /\ initproc # idleproc
    /\ {idleproc, initproc} \cap Slots = {}
    /\ NULL \notin Procs
    /\ IsFiniteSet(Slots)
    /\ SleepTimes \subseteq Nat \ {0}
    /\ MAX_PROCESS \in Nat

VARIABLES
    pc,          \* [Procs -> Labels]
    parent,      \* [Procs -> Procs \cup {NULL}]
    exiting,     \* [Procs -> BOOLEAN]: PF_EXITING is set
    arg,         \* [Procs -> Slots \cup {NULL}]: pid argument of the system call p is in
    nr_process,
    timer,
    in_tick

INSTANCE Timers WITH TimerProcs <- Procs, Times <- SleepTimes

clock_vars == <<timer, in_tick>>

life_vars == <<parent, exiting, arg, nr_process>>

vars == <<sched_vars, clock_vars, pc, life_vars>>

Labels ==
    { "user",           \* user mode
      "ret",            \* trap(): after trap_dispatch, a trap from user mode
      "wait_scan",      \* do_wait: repeat
      "wait_sleep",     \* do_wait: wait_state is set, schedule() is next
      "wait_woken",     \* do_wait: schedule() has returned
      "sleep_sleep",    \* do_sleep: timer added, schedule() is next
      "sleep_woken",    \* do_sleep: schedule() has returned
      "kill_wake",      \* do_kill: wakeup_proc is next
      "exit_reparent",  \* do_exit: loop over the children
      "exit_sched",     \* do_exit: the last schedule() is next
      "dead",           \* never runs again, or not allocated
      "idle",           \* cpu_idle
      "init_start",     \* init_main before user_main is created
      "init_yield",     \* init_main: schedule() between two do_wait
      "halt" }          \* init_main has seen its last child

TypeOK ==
    /\ SchedTypeOK
    /\ TimersTypeOK
    /\ pc \in [Procs -> Labels]
    /\ parent \in [Procs -> Procs \cup {NULL}]
    /\ exiting \in [Procs -> BOOLEAN]
    /\ arg \in [Procs -> Slots \cup {NULL}]
    /\ nr_process \in Int

(* proc_init and kern_init up to cpu_idle: idleproc runs and wants to give *)
(* up the CPU, initproc is queued.                                         *)
Init ==
    /\ state = [p \in Procs |-> IF p \in Slots THEN "UNUSED" ELSE "RUNNABLE"]
    /\ wait_state = [p \in Procs |-> "NONE"]
    /\ need_resched = [p \in Procs |-> p = idleproc]
    /\ time_slice = [p \in Procs |-> IF p = initproc THEN MaxTimeSlice ELSE 0]
    /\ current = idleproc
    /\ run_list = <<initproc>>
    /\ TimersInit
    /\ pc = [p \in Procs |-> CASE p = idleproc -> "idle"
                               [] p = initproc -> "init_start"
                               [] OTHER -> "dead"]
    /\ parent = [p \in Procs |-> IF p = initproc THEN idleproc ELSE NULL]
    /\ exiting = [p \in Procs |-> FALSE]
    /\ arg = [p \in Procs |-> NULL]
    /\ nr_process = 2

-----------------------------------------------------------------------------
(* current is at label l and no interrupt handler is running.              *)
At(l) == ~in_tick /\ pc[current] = l

Goto(l) == pc' = [pc EXCEPT ![current] = l]

Children(p) == {c \in Slots : parent[c] = p}

(* The places with interrupts off between two steps of the model.          *)
IntrOn == ~in_tick /\ pc[current] \notin {"exit_reparent", "halt"}

(* The part of do_fork that succeeds: child c is allocated, linked under   *)
(* current and made runnable.  It will start in user mode.                 *)
fork_child(c) ==
    /\ state[c] = "UNUSED"
    /\ nr_process < MAX_PROCESS
    /\ wakeup_proc([state EXCEPT ![c] = "UNINIT"], c)
    /\ parent' = [parent EXCEPT ![c] = current]
    /\ nr_process' = nr_process + 1
    /\ UNCHANGED <<need_resched, current, exiting, arg, clock_vars>>

(* SYS_fork.                                                               *)
do_fork(c) ==
    /\ At("user")
    /\ fork_child(c)
    /\ pc' = [pc EXCEPT ![c] = "user", ![current] = "ret"]

(* A system call that changes nothing modelled here: getpid and the like,  *)
(* do_fork out of processes or memory, do_kill with an unknown pid.        *)
sys_other ==
    /\ At("user")
    /\ Goto("ret")
    /\ UNCHANGED <<sched_vars, life_vars, clock_vars>>

(* SYS_yield.                                                              *)
do_yield ==
    /\ At("user")
    /\ need_resched' = [need_resched EXCEPT ![current] = TRUE]
    /\ Goto("ret")
    /\ UNCHANGED <<state, wait_state, time_slice, current, run_list,
                   life_vars, clock_vars>>

-----------------------------------------------------------------------------
(* Faulty variant of exit_self: the parent is not woken.                 *)
exit_self_silently ==
    /\ state' = [state EXCEPT ![current] = "ZOMBIE"]
    /\ arg' = [arg EXCEPT ![current] = NULL]
    /\ Goto("exit_reparent")
    /\ UNCHANGED <<wait_state, run_list, time_slice, need_resched, current,
                   parent, exiting, nr_process, clock_vars>>

(* do_exit up to its loop: current is dead, and a parent that waits for a  *)
(* child is woken.                                                         *)
exit_self ==
    LET dead == [state EXCEPT ![current] = "ZOMBIE"]
    IN  /\ IF wait_state[parent[current]] = "WT_CHILD"
           THEN wakeup_proc(dead, parent[current])
           ELSE /\ state' = dead
                /\ UNCHANGED <<wait_state, run_list, time_slice>>
        /\ arg' = [arg EXCEPT ![current] = NULL]
        /\ Goto("exit_reparent")
        /\ UNCHANGED <<need_resched, current, parent, exiting, nr_process,
                       clock_vars>>

(* SYS_exit.                                                               *)
do_exit == At("user") /\ exit_self

(* Faulty variant of exit_reparent: initproc is not woken.               *)
exit_reparent_silently(c) ==
    /\ At("exit_reparent")
    /\ c \in Children(current)
    /\ parent' = [parent EXCEPT ![c] = initproc]
    /\ UNCHANGED <<sched_vars, pc, exiting, arg, nr_process, clock_vars>>

(* do_exit, one child per step: c becomes a child of initproc, which is    *)
(* woken if c is dead and initproc waits.                                  *)
exit_reparent(c) ==
    /\ At("exit_reparent")
    /\ c \in Children(current)
    /\ parent' = [parent EXCEPT ![c] = initproc]
    /\ IF state[c] = "ZOMBIE" /\ wait_state[initproc] = "WT_CHILD"
       THEN wakeup_proc(state, initproc)
       ELSE UNCHANGED <<state, wait_state, run_list, time_slice>>
    /\ UNCHANGED <<need_resched, current, pc, exiting, arg, nr_process,
                   clock_vars>>

(* Faulty variant of exit_reparented: the loop stops before the last child. *)
exit_reparented_early ==
    /\ At("exit_reparent")
    /\ Cardinality(Children(current)) <= 1
    /\ Goto("exit_sched")
    /\ UNCHANGED <<sched_vars, life_vars, clock_vars>>

exit_reparented ==
    /\ At("exit_reparent")
    /\ Children(current) = {}
    /\ Goto("exit_sched")
    /\ UNCHANGED <<sched_vars, life_vars, clock_vars>>

(* The last schedule() of do_exit: the process has left the CPU for good.  *)
exit_sched ==
    /\ At("exit_sched")
    /\ schedule
    /\ Goto("dead")
    /\ UNCHANGED <<life_vars, clock_vars>>

-----------------------------------------------------------------------------
(* SYS_wait: for child a, or for any child if a is NULL (pid 0).           *)
sys_wait(a) ==
    /\ At("user")
    /\ arg' = [arg EXCEPT ![current] = a]
    /\ Goto("wait_scan")
    /\ UNCHANGED <<sched_vars, parent, exiting, nr_process, clock_vars>>

(* Faulty variant of Awaited: do_wait(pid) does not test who the parent is. *)
Awaited_any(p) ==
    {c \in Slots : IF arg[p] = NULL THEN parent[c] = p ELSE arg[p] = c}

(* The children do_wait looks at: arg's process if it is a child of        *)
(* current, all children if arg is NULL.                                   *)
Awaited(p) == {c \in Children(p) : arg[p] \in {NULL, c}}

DeadAwaited(p) == {c \in Awaited(p) : state[c] = "ZOMBIE"}

(* Where the caller of do_wait goes on: init_main or the return path.      *)
wait_return(init_label) ==
    /\ arg' = [arg EXCEPT ![current] = NULL]
    /\ Goto(IF current = initproc THEN init_label ELSE "ret")

(* Faulty variant of wait_found: a child that is alive is freed.         *)
wait_found_alive(z) ==
    /\ At("wait_scan")
    /\ z \in Awaited(current)
    /\ state' = [state EXCEPT ![z] = "UNUSED"]
    /\ parent' = [parent EXCEPT ![z] = NULL]
    /\ exiting' = [exiting EXCEPT ![z] = FALSE]
    /\ need_resched' = [need_resched EXCEPT ![z] = FALSE]
    /\ time_slice' = [time_slice EXCEPT ![z] = 0]
    /\ nr_process' = nr_process - 1
    /\ wait_return("init_yield")
    /\ UNCHANGED <<wait_state, current, run_list, clock_vars>>

(* Faulty variant of wait_found: nr_process is not decremented.          *)
wait_found_uncounted(z) ==
    /\ At("wait_scan")
    /\ z \in DeadAwaited(current)
    /\ state' = [state EXCEPT ![z] = "UNUSED"]
    /\ parent' = [parent EXCEPT ![z] = NULL]
    /\ exiting' = [exiting EXCEPT ![z] = FALSE]
    /\ need_resched' = [need_resched EXCEPT ![z] = FALSE]
    /\ time_slice' = [time_slice EXCEPT ![z] = 0]
    /\ wait_return("init_yield")
    /\ UNCHANGED <<wait_state, current, run_list, nr_process, clock_vars>>

(* do_wait, label found: the dead child z is unlinked and freed.           *)
wait_found(z) ==
    /\ At("wait_scan")
    /\ z \in DeadAwaited(current)
    /\ state' = [state EXCEPT ![z] = "UNUSED"]
    /\ parent' = [parent EXCEPT ![z] = NULL]
    /\ exiting' = [exiting EXCEPT ![z] = FALSE]
    /\ need_resched' = [need_resched EXCEPT ![z] = FALSE]
    /\ time_slice' = [time_slice EXCEPT ![z] = 0]
    /\ nr_process' = nr_process - 1
    /\ wait_return("init_yield")
    /\ UNCHANGED <<wait_state, current, run_list, clock_vars>>

(* do_wait: there is a child to wait for, but none is dead.                *)
wait_block ==
    /\ At("wait_scan")
    /\ Awaited(current) # {}
    /\ DeadAwaited(current) = {}
    /\ set_waiting("WT_CHILD")
    /\ Goto("wait_sleep")
    /\ UNCHANGED <<need_resched, time_slice, current, run_list, life_vars,
                   clock_vars>>

(* Faulty variant of wait_nochild: no dead child counts as no child.     *)
wait_nochild_dead ==
    /\ At("wait_scan")
    /\ DeadAwaited(current) = {}
    /\ wait_return("halt")
    /\ UNCHANGED <<sched_vars, parent, exiting, nr_process, clock_vars>>

(* do_wait returns -E_BAD_PROC; this ends init_main's loop.                *)
wait_nochild ==
    /\ At("wait_scan")
    /\ Awaited(current) = {}
    /\ wait_return("halt")
    /\ UNCHANGED <<sched_vars, parent, exiting, nr_process, clock_vars>>

wait_sleep ==
    /\ At("wait_sleep")
    /\ schedule
    /\ Goto("wait_woken")
    /\ UNCHANGED <<life_vars, clock_vars>>

(* Faulty variant of wait_woken: PF_EXITING is not looked at.            *)
wait_woken_deaf ==
    /\ At("wait_woken")
    /\ Goto("wait_scan")
    /\ UNCHANGED <<sched_vars, life_vars, clock_vars>>

(* do_wait after schedule(): exit if killed, else look at the children     *)
(* again.                                                                  *)
wait_woken ==
    /\ At("wait_woken")
    /\ IF exiting[current]
       THEN exit_self
       ELSE /\ Goto("wait_scan")
            /\ UNCHANGED <<sched_vars, life_vars, clock_vars>>

-----------------------------------------------------------------------------
(* do_kill(t) up to the call of wakeup_proc.                               *)
do_kill(t) ==
    /\ At("user")
    /\ state[t] # "UNUSED"
    /\ ~exiting[t]
    /\ exiting' = [exiting EXCEPT ![t] = TRUE]
    /\ IF wait_state[t] \in WT_INTERRUPTED
       THEN arg' = [arg EXCEPT ![current] = t] /\ Goto("kill_wake")
       ELSE UNCHANGED arg /\ Goto("ret")
    /\ UNCHANGED <<sched_vars, parent, nr_process, clock_vars>>

(* The wakeup_proc of do_kill; a timer may have woken the victim since     *)
(* its wait_state was read.                                                *)
kill_wake ==
    /\ At("kill_wake")
    /\ wakeup_proc(state, arg[current])
    /\ arg' = [arg EXCEPT ![current] = NULL]
    /\ Goto("ret")
    /\ UNCHANGED <<need_resched, current, parent, exiting, nr_process,
                   clock_vars>>

-----------------------------------------------------------------------------
(* Faulty variant of do_sleep: the timer is not added.                   *)
do_sleep_untimed(n) ==
    /\ At("user")
    /\ set_waiting("WT_TIMER")
    /\ Goto("sleep_sleep")
    /\ UNCHANGED <<need_resched, time_slice, current, run_list, life_vars, clock_vars>>

(* SYS_sleep with time n > 0, up to local_intr_restore.                    *)
do_sleep(n) ==
    /\ At("user")
    /\ set_waiting("WT_TIMER")
    /\ add_timer(current, n)
    /\ Goto("sleep_sleep")
    /\ UNCHANGED <<need_resched, time_slice, current, run_list, life_vars>>

sleep_sleep ==
    /\ At("sleep_sleep")
    /\ schedule
    /\ Goto("sleep_woken")
    /\ UNCHANGED <<life_vars, clock_vars>>

(* do_sleep after schedule(): the timer lives on this stack frame and must *)
(* leave the list even if the sleep was cut short.                         *)
sleep_woken ==
    /\ At("sleep_woken")
    /\ del_timer(current)
    /\ Goto("ret")
    /\ UNCHANGED <<sched_vars, life_vars>>

-----------------------------------------------------------------------------
(* Faulty variant of trap_return: need_resched is not looked at.         *)
trap_return_unscheduled ==
    /\ At("ret")
    /\ \/ /\ exiting[current]
          /\ exit_self
       \/ /\ ~exiting[current]
          /\ Goto("user")
          /\ UNCHANGED <<sched_vars, life_vars, clock_vars>>

(* The end of trap() for a trap from user mode.                            *)
trap_return ==
    /\ At("ret")
    /\ \/ /\ exiting[current]
          /\ exit_self
       \/ /\ ~exiting[current]
          /\ need_resched[current]
          /\ schedule
          /\ Goto("user")
          /\ UNCHANGED <<life_vars, clock_vars>>
       \/ /\ ~exiting[current]
          /\ ~need_resched[current]
          /\ Goto("user")
          /\ UNCHANGED <<sched_vars, life_vars, clock_vars>>

(* The timer interrupt calls run_timer_list (once in 100 interrupts).      *)
timer_intr ==
    /\ IntrOn
    /\ tick_begin
    /\ UNCHANGED <<sched_vars, pc, life_vars>>

(* run_timer_list: p's timer has expired.                                  *)
timer_fire(p) ==
    /\ tick_fire(p)
    /\ wakeup_proc(state, p)
    /\ UNCHANGED <<need_resched, current, pc, life_vars>>

(* The end of run_timer_list.  An interrupt of user mode goes through the  *)
(* return path of trap(), an interrupt of the kernel resumes it.           *)
timer_done ==
    /\ tick_end
    /\ sched_class_proc_tick
    /\ IF pc[current] = "user" THEN Goto("ret") ELSE UNCHANGED pc
    /\ UNCHANGED life_vars

-----------------------------------------------------------------------------
(* cpu_idle.                                                               *)
cpu_idle ==
    /\ At("idle")
    /\ need_resched[current]
    /\ schedule
    /\ UNCHANGED <<pc, life_vars, clock_vars>>

(* init_main creates user_main and starts to wait for its children.        *)
init_start(c) ==
    /\ At("init_start")
    /\ fork_child(c)
    /\ pc' = [pc EXCEPT ![c] = "user", ![current] = "wait_scan"]

(* init_main: while (do_wait(0, NULL) == 0) schedule();                    *)
init_yield ==
    /\ At("init_yield")
    /\ schedule
    /\ Goto("wait_scan")
    /\ UNCHANGED <<life_vars, clock_vars>>

(* init_main has returned: the kernel panics and stops.                    *)
Halted ==
    /\ At("halt")
    /\ UNCHANGED vars

-----------------------------------------------------------------------------
UserStep ==
    \/ \E c \in Slots : do_fork(c) \/ do_kill(c)
    \/ \E a \in Slots \cup {NULL} : sys_wait(a)
    \/ \E n \in SleepTimes : do_sleep(n)
    \/ sys_other
    \/ do_yield
    \/ do_exit

KernelStep ==
    \/ trap_return
    \/ wait_block
    \/ wait_nochild
    \/ wait_sleep
    \/ wait_woken
    \/ kill_wake
    \/ sleep_sleep
    \/ sleep_woken
    \/ exit_reparented
    \/ exit_sched
    \/ cpu_idle
    \/ init_yield
    \/ \E c \in Slots : wait_found(c) \/ exit_reparent(c) \/ init_start(c)

HandlerStep == timer_done \/ \E p \in Procs : timer_fire(p)

Next == UserStep \/ KernelStep \/ timer_intr \/ HandlerStep \/ Halted

(* A handler finishes; kernel code between two interrupts makes progress;  *)
(* and a timer interrupt that comes while interrupts are off stays pending *)
(* in the interrupt controller.  User code owes nothing.                   *)
Fairness ==
    /\ WF_vars(HandlerStep)
    /\ SF_vars(KernelStep)
    /\ SF_vars(timer_intr)

Spec == Init /\ [][Next]_vars

FairSpec == Spec /\ Fairness

-----------------------------------------------------------------------------
Alive(p) == state[p] \in {"SLEEPING", "RUNNABLE"}

(* Labels at which p has the CPU.                                          *)
RunningLabels ==
    {"ret", "wait_sleep", "sleep_sleep", "kill_wake", "exit_reparent",
     "exit_sched", "init_yield", "halt"}

(* Where a process is in the kernel, whether it has the CPU, its state and *)
(* its wait_state fit together: e.g. no process leaves do_exit alive, and  *)
(* none that waits is anywhere but in do_wait or do_sleep.                 *)
ControlOK ==
    \A p \in Procs :
        /\ (pc[p] = "idle") <=> (p = idleproc)
        /\ pc[p] \in {"init_start", "init_yield", "halt"} => p = initproc
        /\ p = initproc => /\ ~exiting[p]
                           /\ arg[p] = NULL
                           /\ parent[p] = idleproc
                           /\ pc[p] \in {"init_start", "init_yield", "halt",
                                         "wait_scan", "wait_sleep", "wait_woken"}
        /\ p = idleproc => parent[p] = NULL
        /\ pc[p] \in RunningLabels => p = current
        /\ pc[p] = "dead" => p # current
        /\ (state[p] \in {"UNUSED", "ZOMBIE"})
               <=> (pc[p] \in {"dead", "exit_reparent", "exit_sched"})
        /\ state[p] = "UNUSED" => pc[p] = "dead"
        /\ state[p] # "UNINIT"
        /\ (state[p] = "SLEEPING") <=> (wait_state[p] # "NONE")
        /\ wait_state[p] \in {"NONE", "WT_CHILD", "WT_TIMER"}
        /\ wait_state[p] = "WT_CHILD" => pc[p] \in {"wait_sleep", "wait_woken"}
        /\ wait_state[p] = "WT_TIMER" => pc[p] \in {"sleep_sleep", "sleep_woken"}
        /\ p = current /\ state[p] = "SLEEPING"
               => pc[p] \in {"wait_sleep", "sleep_sleep"}

(* A sleeping parent has no dead child it is waiting for: the check of the *)
(* children and the start of the sleep in do_wait, the wakeup in do_exit   *)
(* and the move of orphans to initproc leave no gap in which the wakeup is *)
(* lost.                                                                   *)
NoLostChildWakeup ==
    \A p \in Procs :
        wait_state[p] = "WT_CHILD" => DeadAwaited(p) = {}

(* What a sleeping process waits for can still wake it: a sleep has a      *)
(* timer, a wait has a child.                                              *)
SleepersCanWake ==
    \A p \in Procs :
        /\ wait_state[p] = "WT_TIMER" => timer[p] # NoTimer
        /\ wait_state[p] = "WT_CHILD" => Awaited(p) # {}

(* A timer is on the list only while its owner is inside do_sleep, on      *)
(* whose stack it lives, so run_timer_list never wakes a dead or freed     *)
(* process (the assertion of wakeup_proc), and none is overdue.            *)
TimersLive ==
    \A p \in Procs :
        /\ timer[p] # NoTimer => pc[p] \in {"sleep_sleep", "sleep_woken"}
        /\ timer[p] = 0 => in_tick

(* The process tree holds together while its members die and are freed in  *)
(* any order: a process's parent is allocated, and it is dead only while   *)
(* it hands its children over to initproc.                                 *)
TreeOK ==
    \A c \in Slots :
        IF state[c] = "UNUSED"
        THEN parent[c] = NULL
        ELSE /\ parent[c] \in Procs \ {c}
             /\ \/ Alive(parent[c])
                \/ parent[c] = current /\ pc[current] = "exit_reparent"

(* Nothing the kernel still uses is freed by do_wait: not the CPU's        *)
(* process, not one that is queued or has a timer, and no one's parent.    *)
NoUseAfterFree ==
    \A p \in Procs :
        state[p] = "UNUSED" =>
            /\ p # current
            /\ \A i \in DOMAIN run_list : run_list[i] # p
            /\ timer[p] = NoTimer
            /\ \A q \in Procs : parent[q] # p

(* Every call of wakeup_proc that can come next is for a living process    *)
(* (its assertion): the victim between the two halves of do_kill, the      *)
(* owners of timers, and the parent of a process that can call do_exit.    *)
WakeupsLiving ==
    /\ \A q \in Procs : pc[q] = "kill_wake" => arg[q] \in Slots /\ Alive(arg[q])
    /\ \A p \in Procs : timer[p] # NoTimer => Alive(p)
    /\ current \in Slots /\ Alive(current) => Alive(parent[current])

(* The protocol of waiting and waking as a whole: where each process is,   *)
(* what it waits for, who can still wake it and whom the next wakeups are  *)
(* for fit together in every interleaving of exits, kills and timers.      *)
WaitingOK ==
    /\ ControlOK
    /\ SleepersCanWake
    /\ TimersLive
    /\ WakeupsLiving

(* nr_process counts the allocated processes, so that do_fork's limit and  *)
(* the assertion nr_process == 2 at the end of init_main are right.        *)
CountOK == nr_process = Cardinality({p \in Procs : state[p] # "UNUSED"})

(* When init_main's loop ends no process is left but idleproc and initproc *)
(* (the assertions of init_main).                                          *)
HaltClean ==
    pc[initproc] = "halt" =>
        /\ nr_process = 2
        /\ \A c \in Slots : state[c] = "UNUSED"

-----------------------------------------------------------------------------
(* A process that dies stays dead until do_wait of its parent frees it, and*)
(* it is the parent at that moment, after any move to initproc.            *)
ZombieReapedByParent ==
    [][\A p \in Procs :
          state[p] = "ZOMBIE" /\ state'[p] # "ZOMBIE" =>
              /\ state'[p] = "UNUSED"
              /\ current = parent[p]
              /\ pc[current] = "wait_scan"]_vars

(* Every runnable process gets the CPU again: round robin with a bounded   *)
(* slice starves no one, although user code may loop for ever.             *)
RunnableRuns ==
    \A p \in Procs \ {idleproc} :
        state[p] = "RUNNABLE" ~> (current = p \/ pc[initproc] = "halt")

(* A sleep ends: the timer fires, or a kill cuts it short.                 *)
SleepEnds ==
    \A p \in Slots : pc[p] = "sleep_sleep" ~> pc[p] # "sleep_sleep" /\ current = p

(* A dead process whose parent has died, too, is freed by initproc.        *)
OrphansReaped ==
    \A c \in Slots :
        state[c] = "ZOMBIE" /\ parent[c] = initproc ~> state[c] = "UNUSED"

(* A process that is killed while it waits for a child or a timer exits.   *)
KilledWaiterExits ==
    \A p \in Slots :
        exiting[p] /\ state[p] = "RUNNABLE" /\ pc[p] \in {"wait_woken", "sleep_woken"}
            ~> ~Alive(p)

(* The comment on SYS_kill (proc.c): the killed process reaches do_exit.   *)
KilledExits == \A p \in Slots : exiting[p] ~> ~Alive(p)
=============================================================================
