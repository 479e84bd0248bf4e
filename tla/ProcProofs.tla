----------------------------- MODULE ProcProofs -----------------------------
(***************************************************************************)
(* The safety of the process life cycle for any number of processes, any   *)
(* sleep times and any slice length: proofs about Proc.                    *)
(***************************************************************************)
EXTENDS Proc, SchedProofs, FiniteSetTheorems, WellFoundedInduction

(* The inductive invariant.                                                *)
IInv ==
    /\ TypeOK
    /\ RunQueueOK
    /\ ControlOK
    /\ TreeOK
    /\ TimersLive
    /\ WakeupsLiving
    /\ SleepersCanWake
    /\ NoLostChildWakeup

(* In a state that satisfies the invariant the process tree gives every    *)
(* process that can call do_exit a parent that is allocated.               *)
LEMMA ParentIsProc ==
    ASSUME IInv, current \in Slots, Alive(current)
    PROVE  parent[current] \in Procs /\ Alive(parent[current])
BY DEF IInv, TypeOK, TreeOK, Alive, ControlOK, RunningLabels, SchedTypeOK, Labels, States


(* idleproc and initproc are always allocated and alive.                   *)
LEMMA KernelThreadsAlive ==
    ASSUME IInv
    PROVE  Alive(idleproc) /\ Alive(initproc) /\ initproc \in Procs
BY ProcAssumption, SchedAssumption
   DEF IInv, TypeOK, SchedTypeOK, ControlOK, Alive, States, RunningLabels

(* do_exit from a living user process.                                     *)
LEMMA ExitSched ==
    ASSUME IInv, current \in Slots, Alive(current), exit_self
    PROVE  SchedTypeOK' /\ RunQueueOK'
<1> DEFINE dead == [state EXCEPT ![current] = "ZOMBIE"]
<1>1. parent[current] \in Procs
  BY ParentIsProc
<1>2. SameOthers(dead)
  BY ProcAssumption DEF SameOthers, IInv, TypeOK, SchedTypeOK, States, RunQueueOK
<1>3. UNCHANGED <<need_resched, current>>
  BY DEF exit_self
<1>4. CASE wait_state[parent[current]] = "WT_CHILD"
  <2>1. wakeup_proc(dead, parent[current])
    BY <1>4 DEF exit_self
  <2> QED
    BY <1>1, <1>2, <1>3, <2>1, WakeupKeeps DEF IInv, TypeOK
<1>5. CASE wait_state[parent[current]] # "WT_CHILD"
  <2>1. /\ state' = dead
        /\ UNCHANGED <<wait_state, run_list, time_slice>>
    BY <1>5 DEF exit_self
  <2>2. SchedTypeOK'
    BY <1>3, <2>1 DEF IInv, TypeOK, SchedTypeOK, States
  <2>3. RunQueueOK'
    BY <1>2, <1>3, <2>1
       DEF SameOthers, IInv, RunQueueOK, RunListDistinct, RunListExact
  <2> QED
    BY <2>2, <2>3
<1> QED
  BY <1>4, <1>5

(* Who can be where: facts about current that the guards of actions give.  *)
LEMMA CurrentAt ==
    ASSUME IInv
    PROVE  /\ current \in Procs
           /\ pc[current] \in {"user", "ret", "kill_wake", "sleep_sleep", "sleep_woken"}
                => current \in Slots
           /\ pc[current] \in {"user", "ret", "kill_wake", "wait_scan", "wait_woken",
                               "sleep_woken", "init_start", "init_yield", "halt"}
                => state[current] = "RUNNABLE" /\ wait_state[current] = "NONE"
           /\ exiting[current] /\ pc[current] = "wait_woken" => current \in Slots
           /\ pc[current] # "idle" <=> current # idleproc
           /\ pc[current] \in {"exit_reparent", "exit_sched"} =>
                state[current] = "ZOMBIE" /\ current \in Slots
BY ProcAssumption, SchedAssumption
   DEF IInv, TypeOK, SchedTypeOK, ControlOK, States, RunningLabels

(* A new child is made runnable.                                           *)
LEMMA ForkSched ==
    ASSUME IInv, NEW c \in Slots, fork_child(c)
    PROVE  SchedTypeOK' /\ RunQueueOK'
<1> DEFINE st == [state EXCEPT ![c] = "UNINIT"]
<1>1. SameOthers(st)
  BY ProcAssumption
     DEF SameOthers, IInv, TypeOK, SchedTypeOK, States, RunQueueOK, fork_child
<1>2. c \in Procs
  BY ProcAssumption
<1> QED
  BY <1>1, <1>2, WakeupKeeps DEF fork_child, IInv, TypeOK

(* The types and the run queue survive every step.                         *)
LEMMA SchedStep ==
    ASSUME IInv, [Next]_vars
    PROVE  SchedTypeOK' /\ RunQueueOK'
<1> USE ProcAssumption, SchedAssumption
<1>0. SchedTypeOK /\ RunQueueOK /\ SameOthers(state)
  BY DEF IInv, TypeOK, SameOthers, RunQueueOK, SchedTypeOK
<1>1. CASE UNCHANGED sched_vars
  BY <1>0, <1>1, StutterKeeps
<1>2. CASE schedule
  BY <1>0, <1>2, ScheduleKeeps
<1>3. CASE \E c \in Slots : fork_child(c)
  BY <1>3, ForkSched
<1>4. CASE exit_self /\ current \in Slots /\ Alive(current)
  BY <1>4, ExitSched
<1>5. CASE do_yield
  BY <1>0, <1>5
     DEF do_yield, SchedTypeOK, RunQueueOK, RunListDistinct, RunListExact
<1>6. ASSUME NEW c \in Slots, exit_reparent(c)
      PROVE  SchedTypeOK' /\ RunQueueOK'
  <2>1. CASE wakeup_proc(state, initproc)
    BY <1>0, <1>6, <2>1, WakeupKeeps DEF exit_reparent
  <2>2. CASE UNCHANGED <<state, wait_state, run_list, time_slice>>
    BY <1>0, <1>6, <2>2, StutterKeeps DEF exit_reparent, sched_vars
  <2> QED
    BY <1>6, <2>1, <2>2 DEF exit_reparent
<1>7. ASSUME NEW z \in Slots, wait_found(z)
      PROVE  SchedTypeOK' /\ RunQueueOK'
  <2>1. z \in Procs /\ state[z] = "ZOMBIE"
    BY <1>7 DEF wait_found, DeadAwaited
  <2> QED
    BY <1>0, <1>7, <2>1
       DEF wait_found, SchedTypeOK, RunQueueOK, RunListDistinct, RunListExact, States
<1>8. CASE wait_block
  BY <1>0, <1>8, CurrentAt, SetWaitingKeeps DEF wait_block, At, WaitStates
<1>9. CASE kill_wake
  <2>1. arg[current] \in Procs
    BY <1>9, CurrentAt DEF kill_wake, At, IInv, WakeupsLiving
  <2> QED
    BY <1>0, <1>9, <2>1, WakeupKeeps DEF kill_wake
<1>10. ASSUME NEW n \in SleepTimes, do_sleep(n)
       PROVE  SchedTypeOK' /\ RunQueueOK'
  BY <1>0, <1>10, CurrentAt, SetWaitingKeeps DEF do_sleep, At, WaitStates
<1>11. ASSUME NEW p \in Procs, timer_fire(p)
       PROVE  SchedTypeOK' /\ RunQueueOK'
  BY <1>0, <1>11, WakeupKeeps DEF timer_fire
<1>12. CASE timer_done
  BY <1>0, <1>12, TickKeeps DEF timer_done
<1>13. CASE do_exit
  BY <1>4, <1>13, CurrentAt DEF do_exit, At, Alive
<1>14. CASE wait_woken
  BY <1>1, <1>4, <1>14, CurrentAt DEF wait_woken, At, Alive
<1>15. CASE trap_return
  BY <1>1, <1>2, <1>4, <1>15, CurrentAt DEF trap_return, At, Alive
<1>16. CASE UserStep
  BY <1>1, <1>3, <1>5, <1>10, <1>13, <1>16
     DEF UserStep, do_fork, do_kill, sys_wait, sys_other
<1>17. CASE KernelStep
  BY <1>1, <1>2, <1>3, <1>6, <1>7, <1>8, <1>9, <1>14, <1>15, <1>17
     DEF KernelStep, wait_nochild, wait_sleep, sleep_sleep, sleep_woken,
         exit_reparented, exit_sched, cpu_idle, init_yield, init_start
<1>18. CASE timer_intr \/ HandlerStep \/ Halted \/ UNCHANGED vars
  BY <1>1, <1>11, <1>12, <1>18 DEF timer_intr, HandlerStep, Halted, vars
<1> QED
  BY <1>16, <1>17, <1>18 DEF Next
-----------------------------------------------------------------------------
(* The steps of Next, sorted by what they do: actions that only move on,   *)
(* actions that end in schedule(), and the three ways into do_exit and two *)
(* into do_fork.                                                           *)
MoveStep(l) ==
    /\ <<pc[current], l>> \in {<<"user", "ret">>, <<"wait_woken", "wait_scan">>,
                               <<"ret", "user">>}
    /\ Goto(l)
    /\ UNCHANGED <<sched_vars, life_vars, clock_vars>>

SwitchStep(l) ==
    /\ <<pc[current], l>> \in {<<"wait_sleep", "wait_woken">>,
                               <<"sleep_sleep", "sleep_woken">>,
                               <<"ret", "user">>, <<"exit_sched", "dead">>,
                               <<"idle", "idle">>, <<"init_yield", "wait_scan">>}
    /\ schedule
    /\ Goto(l)
    /\ UNCHANGED <<life_vars, clock_vars>>

ExitStep ==
    /\ pc[current] \in {"user", "ret", "wait_woken"}
    /\ current \in Slots
    /\ exit_self

ForkStep(c, l) ==
    /\ <<pc[current], l>> \in {<<"user", "ret">>, <<"init_start", "wait_scan">>}
    /\ fork_child(c)
    /\ pc' = [pc EXCEPT ![c] = "user", ![current] = l]

OtherStep ==
    \/ do_yield \/ wait_block \/ wait_nochild \/ kill_wake \/ sleep_woken
    \/ exit_reparented \/ timer_intr \/ timer_done
    \/ \E a \in Slots \cup {NULL} : sys_wait(a)
    \/ \E n \in SleepTimes : do_sleep(n)
    \/ \E c \in Slots : do_kill(c) \/ wait_found(c) \/ exit_reparent(c)
    \/ \E p \in Procs : timer_fire(p)

(* Every step is one of the named ones or leaves most variables alone.     *)
LEMMA StepCases ==
    ASSUME IInv, [Next]_vars
    PROVE  \/ UNCHANGED vars
           \/ \E l \in Labels : MoveStep(l) \/ SwitchStep(l)
           \/ ExitStep
           \/ \E c \in Slots : \E l \in Labels : ForkStep(c, l)
           \/ OtherStep
<1>1. CASE UserStep
  <2>1. ASSUME NEW c \in Slots, do_fork(c) PROVE ForkStep(c, "ret")
    BY <2>1 DEF do_fork, ForkStep, At
  <2>2. CASE do_exit
    BY <2>2, CurrentAt DEF do_exit, ExitStep, At
  <2>3. CASE sys_other
    BY <2>3 DEF sys_other, MoveStep, At, Labels
  <2> QED
    BY <1>1, <2>1, <2>2, <2>3 DEF UserStep, OtherStep, Labels
<1>2. CASE KernelStep
  <2>1. ASSUME NEW c \in Slots, init_start(c) PROVE ForkStep(c, "wait_scan")
    BY <2>1 DEF init_start, ForkStep, At
  <2>2. CASE trap_return
    <3>1. CASE exiting[current] /\ exit_self
      BY <2>2, <3>1, CurrentAt DEF trap_return, ExitStep, At
    <3>2. CASE schedule /\ Goto("user") /\ UNCHANGED <<life_vars, clock_vars>>
      BY <2>2, <3>2 DEF trap_return, SwitchStep, At, Labels
    <3>3. CASE Goto("user") /\ UNCHANGED <<sched_vars, life_vars, clock_vars>>
      BY <2>2, <3>3 DEF trap_return, MoveStep, At, Labels
    <3> QED
      BY <2>2, <3>1, <3>2, <3>3 DEF trap_return
  <2>3. CASE wait_woken
    <3>1. CASE exiting[current] /\ exit_self
      BY <2>3, <3>1, CurrentAt DEF wait_woken, ExitStep, At
    <3>2. CASE ~exiting[current]
      BY <2>3, <3>2 DEF wait_woken, MoveStep, At, Labels
    <3> QED
      BY <2>3, <3>1, <3>2 DEF wait_woken
  <2>4. CASE wait_sleep
    BY <2>4 DEF wait_sleep, SwitchStep, At, Labels
  <2>5. CASE sleep_sleep
    BY <2>5 DEF sleep_sleep, SwitchStep, At, Labels
  <2>6. CASE exit_sched
    BY <2>6 DEF exit_sched, SwitchStep, At, Labels
  <2>7. CASE cpu_idle
    <3>1. pc' = [pc EXCEPT ![current] = "idle"]
      BY <2>7, CurrentAt DEF cpu_idle, At, IInv, TypeOK
    <3> QED
      BY <2>7, <3>1 DEF cpu_idle, SwitchStep, At, Labels, Goto
  <2>8. CASE init_yield
    BY <2>8 DEF init_yield, SwitchStep, At, Labels
  <2> QED
    BY <1>2, <2>1, <2>2, <2>3, <2>4, <2>5, <2>6, <2>7, <2>8
       DEF KernelStep, OtherStep, Labels
<1> QED
  BY <1>1, <1>2 DEF Next, HandlerStep, Halted, OtherStep
-----------------------------------------------------------------------------
(* What do_exit does to the states: current is dead, its parent runnable   *)
(* if it waited for a child, everyone else as before.                      *)
LEMMA ExitEffect ==
    ASSUME IInv, ExitStep
    PROVE  /\ parent[current] \in Procs \ {current}
           /\ Alive(parent[current])
           /\ state'[current] = "ZOMBIE"
           /\ wait_state'[current] = "NONE"
           /\ \A q \in Procs \ {current} :
                /\ state'[q] = IF q = parent[current] /\ wait_state[q] = "WT_CHILD"
                               THEN "RUNNABLE" ELSE state[q]
                /\ wait_state'[q] = IF q = parent[current] /\ wait_state[q] = "WT_CHILD"
                                    THEN "NONE" ELSE wait_state[q]
<1> DEFINE pp == parent[current]
           dead == [state EXCEPT ![current] = "ZOMBIE"]
<1>1. /\ pp \in Procs
      /\ Alive(pp)
      /\ current \in Procs
      /\ state[current] = "RUNNABLE"
      /\ wait_state[current] = "NONE"
  BY ParentIsProc, CurrentAt DEF ExitStep, Alive
<1>2. CASE wait_state[pp] = "WT_CHILD"
  <2>1. /\ wakeup_proc(dead, pp)
        /\ dead \in [Procs -> States]
        /\ pp # current
        /\ dead[pp] = state[pp]
    BY <1>1, <1>2 DEF ExitStep, exit_self, IInv, TypeOK, SchedTypeOK, States
  <2>2. dead[pp] # "RUNNABLE"
    BY <1>1, <1>2, <2>1 DEF IInv, ControlOK
  <2>3. /\ state' = [dead EXCEPT ![pp] = "RUNNABLE"]
        /\ wait_state' = [wait_state EXCEPT ![pp] = "NONE"]
    BY <2>2, <2>1 DEF wakeup_proc
  <2> QED
    BY <1>1, <1>2, <2>1, <2>3 DEF IInv, TypeOK, SchedTypeOK
<1>3. CASE wait_state[pp] # "WT_CHILD"
  <2>1. state' = dead /\ UNCHANGED wait_state
    BY <1>3 DEF ExitStep, exit_self
  <2>2. pp # current
    BY <1>1 DEF IInv, TreeOK, ExitStep
  <2> QED
    BY <1>1, <1>3, <2>1, <2>2 DEF IInv, TypeOK, SchedTypeOK
<1> QED
  BY <1>2, <1>3

(* What wakeup_proc does to the states in a reachable state: p does not    *)
(* wait afterwards, and it is runnable.                                    *)
LEMMA WakeEffect ==
    ASSUME IInv, NEW p \in Procs, wakeup_proc(state, p)
    PROVE  /\ state' = [state EXCEPT ![p] = "RUNNABLE"]
           /\ wait_state' = [wait_state EXCEPT ![p] = "NONE"]
BY WakeupEffect DEF IInv, TypeOK, SchedTypeOK, ControlOK

(* A new child is runnable and waits for nothing.                          *)
LEMMA ForkEffect ==
    ASSUME IInv, NEW c \in Slots, fork_child(c)
    PROVE  /\ state[c] = "UNUSED"
           /\ c # current
           /\ state' = [state EXCEPT ![c] = "RUNNABLE"]
           /\ wait_state' = [wait_state EXCEPT ![c] = "NONE"]
           /\ parent' = [parent EXCEPT ![c] = current]
           /\ UNCHANGED <<need_resched, current, exiting, arg, clock_vars>>
<1> DEFINE st == [state EXCEPT ![c] = "UNINIT"]
<1>1. /\ wakeup_proc(st, c)
      /\ st \in [Procs -> States]
      /\ c \in Procs
      /\ st[c] # "RUNNABLE"
  BY ProcAssumption DEF fork_child, IInv, TypeOK, SchedTypeOK, States
<1>2. /\ state' = [st EXCEPT ![c] = "RUNNABLE"]
      /\ wait_state' = [wait_state EXCEPT ![c] = "NONE"]
  BY <1>1, WakeupEffect DEF IInv, TypeOK
<1> QED
  BY <1>1, <1>2, CurrentAt
     DEF fork_child, IInv, TypeOK, SchedTypeOK, ControlOK

(* What schedule() leaves alone.                                           *)
LEMMA SwitchEffect ==
    ASSUME IInv, NEW l, SwitchStep(l)
    PROVE  /\ UNCHANGED <<state, wait_state, life_vars, clock_vars>>
           /\ current' \in Procs
           /\ state[current'] = "RUNNABLE"
           /\ pc' = [pc EXCEPT ![current] = l]
<1>1. SchedTypeOK' /\ UNCHANGED <<state, wait_state>> /\ state[current'] = "RUNNABLE"
  BY ScheduleKeeps DEF SwitchStep, IInv, TypeOK
<1> QED
  BY <1>1 DEF SwitchStep, Goto, SchedTypeOK

-----------------------------------------------------------------------------
(* The variables of Proc keep their types.                                 *)
LEMMA TypeStep ==
    ASSUME IInv, [Next]_vars
    PROVE  TypeOK'
<1> USE ProcAssumption, SchedAssumption
<1>0. /\ SchedTypeOK'
      /\ current \in Procs
      /\ TimersTypeOK
      /\ pc \in [Procs -> Labels]
      /\ parent \in [Procs -> Procs \cup {NULL}]
      /\ exiting \in [Procs -> BOOLEAN]
      /\ arg \in [Procs -> Slots \cup {NULL}]
      /\ nr_process \in Int
      /\ ~in_tick => \A p \in Procs : timer[p] # 0
  BY SchedStep DEF IInv, TypeOK, SchedTypeOK, TimersLive
<1>1. CASE UNCHANGED vars
  BY <1>0, <1>1 DEF TypeOK, TimersTypeOK, vars, clock_vars, life_vars
<1>2. ASSUME NEW l \in Labels, MoveStep(l) \/ SwitchStep(l)
      PROVE  TypeOK'
  BY <1>0, <1>2
     DEF TypeOK, TimersTypeOK, MoveStep, SwitchStep, Goto, clock_vars, life_vars
<1>3. CASE ExitStep
  BY <1>0, <1>3
     DEF TypeOK, TimersTypeOK, ExitStep, exit_self, Goto, clock_vars, Labels
<1>4. ASSUME NEW c \in Slots, NEW l \in Labels, ForkStep(c, l)
      PROVE  TypeOK'
  BY <1>0, <1>4
     DEF TypeOK, TimersTypeOK, ForkStep, fork_child, clock_vars, Labels
<1>5. CASE do_yield \/ wait_block \/ wait_nochild \/ kill_wake \/ exit_reparented
  BY <1>0, <1>5
     DEF TypeOK, TimersTypeOK, do_yield, wait_block, wait_nochild, wait_return,
         kill_wake, exit_reparented, Goto, clock_vars, life_vars, Labels
<1>6. CASE sleep_woken
  BY <1>0, <1>6
     DEF TypeOK, TimersTypeOK, sleep_woken, del_timer, Goto, life_vars, Labels
<1>7. CASE timer_intr
  BY <1>0, <1>7
     DEF TypeOK, TimersTypeOK, timer_intr, tick_begin, life_vars, NoTimer
<1>8. CASE timer_done
  BY <1>0, <1>8
     DEF TypeOK, TimersTypeOK, timer_done, tick_end, Goto, life_vars, Labels
<1>9. ASSUME NEW a \in Slots \cup {NULL}, sys_wait(a)
      PROVE  TypeOK'
  BY <1>0, <1>9 DEF TypeOK, TimersTypeOK, sys_wait, Goto, clock_vars, Labels
<1>10. ASSUME NEW n \in SleepTimes, do_sleep(n)
       PROVE  TypeOK'
  BY <1>0, <1>10
     DEF TypeOK, TimersTypeOK, do_sleep, add_timer, Goto, life_vars, Labels
<1>11. ASSUME NEW c \in Slots, do_kill(c)
       PROVE  TypeOK'
  BY <1>0, <1>11 DEF TypeOK, TimersTypeOK, do_kill, Goto, clock_vars, Labels
<1>12. ASSUME NEW c \in Slots, wait_found(c)
       PROVE  TypeOK'
  BY <1>0, <1>12
     DEF TypeOK, TimersTypeOK, wait_found, wait_return, Goto, clock_vars, Labels
<1>13. ASSUME NEW c \in Slots, exit_reparent(c)
       PROVE  TypeOK'
  BY <1>0, <1>13 DEF TypeOK, TimersTypeOK, exit_reparent, Goto, clock_vars
<1>14. ASSUME NEW p \in Procs, timer_fire(p)
       PROVE  TypeOK'
  BY <1>0, <1>14 DEF TypeOK, TimersTypeOK, timer_fire, tick_fire, life_vars
<1> QED
  BY <1>1, <1>2, <1>3, <1>4, <1>5, <1>6, <1>7, <1>8, <1>9, <1>10, <1>11, <1>12,
     <1>13, <1>14, StepCases DEF OtherStep

-----------------------------------------------------------------------------
(* Control, state and wait_state stay in step.                             *)
LEMMA ControlStep ==
    ASSUME IInv, [Next]_vars
    PROVE  ControlOK'
<1>0. /\ current \in Procs
      /\ state \in [Procs -> States]
      /\ wait_state \in [Procs -> WaitStates]
      /\ pc \in [Procs -> Labels]
      /\ parent \in [Procs -> Procs \cup {NULL}]
      /\ exiting \in [Procs -> BOOLEAN]
      /\ arg \in [Procs -> Slots \cup {NULL}]
      /\ TimersTypeOK
      /\ RunQueueOK /\ ControlOK /\ TreeOK /\ TimersLive
      /\ WakeupsLiving /\ SleepersCanWake /\ NoLostChildWakeup
  BY DEF IInv, TypeOK, SchedTypeOK
<1> USE ProcAssumption, SchedAssumption, <1>0 DEF ControlOK, RunningLabels,
       RunQueueOK, States, WaitStates, TimersLive, WakeupsLiving, Alive,
       Labels
<1>1. CASE UNCHANGED vars
  BY <1>1 DEF vars, sched_vars, clock_vars, life_vars
<1>2. ASSUME NEW l \in Labels, MoveStep(l) PROVE ControlOK'
  BY <1>2 DEF MoveStep, Goto, sched_vars, clock_vars, life_vars
<1>3. ASSUME NEW l \in Labels, SwitchStep(l) PROVE ControlOK'
  BY <1>3, SwitchEffect DEF SwitchStep, clock_vars, life_vars
<1>4. CASE ExitStep
  BY <1>4, ExitEffect, CurrentAt DEF ExitStep, exit_self, Goto, clock_vars
<1>5. ASSUME NEW c \in Slots, NEW l \in Labels, ForkStep(c, l)
      PROVE  ControlOK'
  BY <1>5, ForkEffect DEF ForkStep, clock_vars
<1>6. CASE do_yield \/ exit_reparented
  BY <1>6, CurrentAt DEF do_yield, exit_reparented, At, Goto, sched_vars,
     clock_vars, life_vars
<1>7. CASE wait_block
  BY <1>7, CurrentAt DEF wait_block, set_waiting, At, Goto, clock_vars,
     life_vars
<1>8. CASE wait_nochild
  BY <1>8, CurrentAt DEF wait_nochild, wait_return, At, Goto, sched_vars,
     clock_vars
<1>9. CASE kill_wake
  BY <1>9, WakeEffect, CurrentAt DEF kill_wake, At, Goto, clock_vars
<1>10. CASE sleep_woken
  BY <1>10, CurrentAt DEF sleep_woken, del_timer, At, Goto, sched_vars,
     life_vars
<1>11. CASE timer_intr
  BY <1>11 DEF timer_intr, tick_begin, sched_vars, life_vars
<1>12. CASE timer_done
  BY <1>12 DEF timer_done, tick_end, sched_class_proc_tick, Goto, life_vars
<1>13. ASSUME NEW a \in Slots \cup {NULL}, sys_wait(a) PROVE ControlOK'
  BY <1>13, CurrentAt DEF sys_wait, At, Goto, sched_vars, clock_vars
<1>14. ASSUME NEW n \in SleepTimes, do_sleep(n) PROVE ControlOK'
  BY <1>14, CurrentAt DEF do_sleep, set_waiting, add_timer, At, Goto,
     life_vars
<1>15. ASSUME NEW c \in Slots, do_kill(c) PROVE ControlOK'
  BY <1>15, CurrentAt DEF do_kill, At, Goto, sched_vars, clock_vars
<1>16. ASSUME NEW c \in Slots, wait_found(c) PROVE ControlOK'
  BY <1>16, CurrentAt DEF wait_found, wait_return, At, Goto, clock_vars,
     DeadAwaited, Awaited, Children
<1>17. ASSUME NEW c \in Slots, exit_reparent(c) PROVE ControlOK'
  BY <1>17, WakeEffect, CurrentAt DEF exit_reparent, At, Children, clock_vars
<1>18. ASSUME NEW p \in Procs, timer_fire(p) PROVE ControlOK'
  BY <1>18, WakeEffect DEF timer_fire, tick_fire, Expired, NoTimer, life_vars
<1> QED
  BY <1>1, <1>2, <1>3, <1>4, <1>5, <1>6, <1>7, <1>8, <1>9, <1>10, <1>11,
     <1>12, <1>13, <1>14, <1>15, <1>16, <1>17, <1>18, StepCases DEF OtherStep

(* No step leaves a process without a living parent.                       *)
LEMMA TreeStep ==
    ASSUME IInv, [Next]_vars
    PROVE  TreeOK'
<1>0. /\ current \in Procs
      /\ state \in [Procs -> States]
      /\ wait_state \in [Procs -> WaitStates]
      /\ pc \in [Procs -> Labels]
      /\ parent \in [Procs -> Procs \cup {NULL}]
      /\ exiting \in [Procs -> BOOLEAN]
      /\ arg \in [Procs -> Slots \cup {NULL}]
      /\ TimersTypeOK
      /\ RunQueueOK /\ ControlOK /\ TreeOK /\ TimersLive
      /\ WakeupsLiving /\ SleepersCanWake /\ NoLostChildWakeup
  BY DEF IInv, TypeOK, SchedTypeOK
<1> USE ProcAssumption, SchedAssumption, <1>0 DEF ControlOK, RunningLabels,
       States, WaitStates, TreeOK, WakeupsLiving, Alive, Labels, Children
<1>1. CASE UNCHANGED vars
  BY <1>1 DEF vars, sched_vars, clock_vars, life_vars
<1>2. ASSUME NEW l \in Labels, MoveStep(l) PROVE TreeOK'
  BY <1>2 DEF MoveStep, Goto, sched_vars, clock_vars, life_vars
<1>3. ASSUME NEW l \in Labels, SwitchStep(l) PROVE TreeOK'
  BY <1>3, SwitchEffect DEF SwitchStep, clock_vars, life_vars
<1>4. CASE ExitStep
  BY <1>4, ExitEffect, CurrentAt DEF ExitStep, exit_self, Goto, clock_vars
<1>5. ASSUME NEW c \in Slots, NEW l \in Labels, ForkStep(c, l)
      PROVE  TreeOK'
  BY <1>5, ForkEffect DEF ForkStep, clock_vars
<1>6. CASE do_yield \/ exit_reparented
  BY <1>6, CurrentAt DEF do_yield, exit_reparented, At, Goto, sched_vars,
     clock_vars, life_vars
<1>7. CASE wait_block
  BY <1>7, CurrentAt DEF wait_block, set_waiting, At, Goto, clock_vars,
     life_vars
<1>8. CASE wait_nochild
  BY <1>8, CurrentAt DEF wait_nochild, wait_return, At, Goto, sched_vars,
     clock_vars
<1>9. CASE kill_wake
  BY <1>9, WakeEffect, CurrentAt DEF kill_wake, At, Goto, clock_vars
<1>10. CASE sleep_woken
  BY <1>10, CurrentAt DEF sleep_woken, del_timer, At, Goto, sched_vars,
     life_vars
<1>11. CASE timer_intr
  BY <1>11 DEF timer_intr, tick_begin, sched_vars, life_vars
<1>12. CASE timer_done
  BY <1>12 DEF timer_done, tick_end, sched_class_proc_tick, Goto, life_vars
<1>13. ASSUME NEW a \in Slots \cup {NULL}, sys_wait(a) PROVE TreeOK'
  BY <1>13, CurrentAt DEF sys_wait, At, Goto, sched_vars, clock_vars
<1>14. ASSUME NEW n \in SleepTimes, do_sleep(n) PROVE TreeOK'
  BY <1>14, CurrentAt DEF do_sleep, set_waiting, add_timer, At, Goto,
     life_vars
<1>15. ASSUME NEW c \in Slots, do_kill(c) PROVE TreeOK'
  BY <1>15, CurrentAt DEF do_kill, At, Goto, sched_vars, clock_vars
<1>16. ASSUME NEW c \in Slots, wait_found(c) PROVE TreeOK'
  BY <1>16, CurrentAt DEF wait_found, wait_return, At, Goto, clock_vars,
     DeadAwaited, Awaited, Children
<1>17. ASSUME NEW c \in Slots, exit_reparent(c) PROVE TreeOK'
  BY <1>17, WakeEffect, CurrentAt DEF exit_reparent, At, Children, clock_vars
<1>18. ASSUME NEW p \in Procs, timer_fire(p) PROVE TreeOK'
  BY <1>18, WakeEffect DEF timer_fire, tick_fire, Expired, NoTimer, life_vars
<1> QED
  BY <1>1, <1>2, <1>3, <1>4, <1>5, <1>6, <1>7, <1>8, <1>9, <1>10, <1>11,
     <1>12, <1>13, <1>14, <1>15, <1>16, <1>17, <1>18, StepCases DEF OtherStep

(* A timer never outlives the call of do_sleep that owns it.               *)
LEMMA TimersStep ==
    ASSUME IInv, [Next]_vars
    PROVE  TimersLive'
<1>0. /\ current \in Procs
      /\ state \in [Procs -> States]
      /\ wait_state \in [Procs -> WaitStates]
      /\ pc \in [Procs -> Labels]
      /\ parent \in [Procs -> Procs \cup {NULL}]
      /\ exiting \in [Procs -> BOOLEAN]
      /\ arg \in [Procs -> Slots \cup {NULL}]
      /\ TimersTypeOK
      /\ RunQueueOK /\ ControlOK /\ TreeOK /\ TimersLive
      /\ WakeupsLiving /\ SleepersCanWake /\ NoLostChildWakeup
  BY DEF IInv, TypeOK, SchedTypeOK
<1> USE ProcAssumption, SchedAssumption, <1>0 DEF ControlOK, RunningLabels,
       States, WaitStates, TimersLive, TimersTypeOK, NoTimer, Expired
<1>1. CASE UNCHANGED vars
  BY <1>1 DEF vars, sched_vars, clock_vars, life_vars
<1>2. ASSUME NEW l \in Labels, MoveStep(l) PROVE TimersLive'
  BY <1>2 DEF MoveStep, Goto, sched_vars, clock_vars, life_vars
<1>3. ASSUME NEW l \in Labels, SwitchStep(l) PROVE TimersLive'
  BY <1>3, SwitchEffect DEF SwitchStep, clock_vars, life_vars
<1>4. CASE ExitStep
  BY <1>4, ExitEffect, CurrentAt DEF ExitStep, exit_self, Goto, clock_vars
<1>5. ASSUME NEW c \in Slots, NEW l \in Labels, ForkStep(c, l)
      PROVE  TimersLive'
  BY <1>5, ForkEffect DEF ForkStep, clock_vars
<1>6. CASE do_yield \/ exit_reparented
  BY <1>6, CurrentAt DEF do_yield, exit_reparented, At, Goto, sched_vars,
     clock_vars, life_vars
<1>7. CASE wait_block
  BY <1>7, CurrentAt DEF wait_block, set_waiting, At, Goto, clock_vars,
     life_vars
<1>8. CASE wait_nochild
  BY <1>8, CurrentAt DEF wait_nochild, wait_return, At, Goto, sched_vars,
     clock_vars
<1>9. CASE kill_wake
  BY <1>9, WakeEffect, CurrentAt DEF kill_wake, At, Goto, clock_vars
<1>10. CASE sleep_woken
  BY <1>10, CurrentAt DEF sleep_woken, del_timer, At, Goto, sched_vars,
     life_vars
<1>11. CASE timer_intr
  BY <1>11 DEF timer_intr, tick_begin, sched_vars, life_vars
<1>12. CASE timer_done
  BY <1>12 DEF timer_done, tick_end, sched_class_proc_tick, Goto, life_vars
<1>13. ASSUME NEW a \in Slots \cup {NULL}, sys_wait(a) PROVE TimersLive'
  BY <1>13, CurrentAt DEF sys_wait, At, Goto, sched_vars, clock_vars
<1>14. ASSUME NEW n \in SleepTimes, do_sleep(n) PROVE TimersLive'
  BY <1>14, CurrentAt DEF do_sleep, set_waiting, add_timer, At, Goto,
     life_vars
<1>15. ASSUME NEW c \in Slots, do_kill(c) PROVE TimersLive'
  BY <1>15, CurrentAt DEF do_kill, At, Goto, sched_vars, clock_vars
<1>16. ASSUME NEW c \in Slots, wait_found(c) PROVE TimersLive'
  BY <1>16, CurrentAt DEF wait_found, wait_return, At, Goto, clock_vars,
     DeadAwaited, Awaited, Children
<1>17. ASSUME NEW c \in Slots, exit_reparent(c) PROVE TimersLive'
  BY <1>17, WakeEffect, CurrentAt DEF exit_reparent, At, Children, clock_vars
<1>18. ASSUME NEW p \in Procs, timer_fire(p) PROVE TimersLive'
  BY <1>18, WakeEffect DEF timer_fire, tick_fire, Expired, NoTimer, life_vars
<1> QED
  BY <1>1, <1>2, <1>3, <1>4, <1>5, <1>6, <1>7, <1>8, <1>9, <1>10, <1>11,
     <1>12, <1>13, <1>14, <1>15, <1>16, <1>17, <1>18, StepCases DEF OtherStep

(* Whoever may be woken next is alive.                                     *)
LEMMA WakeupsStep ==
    ASSUME IInv, [Next]_vars
    PROVE  WakeupsLiving'
<1>0. /\ current \in Procs
      /\ state \in [Procs -> States]
      /\ wait_state \in [Procs -> WaitStates]
      /\ pc \in [Procs -> Labels]
      /\ parent \in [Procs -> Procs \cup {NULL}]
      /\ exiting \in [Procs -> BOOLEAN]
      /\ arg \in [Procs -> Slots \cup {NULL}]
      /\ TimersTypeOK
      /\ RunQueueOK /\ ControlOK /\ TreeOK /\ TimersLive
      /\ WakeupsLiving /\ SleepersCanWake /\ NoLostChildWakeup
  BY DEF IInv, TypeOK, SchedTypeOK
<1> USE ProcAssumption, SchedAssumption, <1>0 DEF ControlOK, RunningLabels,
       States, WaitStates, WT_INTERRUPTED, TreeOK, TimersLive, WakeupsLiving,
       Alive, Labels, NoTimer
<1>1. CASE UNCHANGED vars
  BY <1>1 DEF vars, sched_vars, clock_vars, life_vars
<1>2. ASSUME NEW l \in Labels, MoveStep(l) PROVE WakeupsLiving'
  BY <1>2 DEF MoveStep, Goto, sched_vars, clock_vars, life_vars
<1>3. ASSUME NEW l \in Labels, SwitchStep(l) PROVE WakeupsLiving'
  BY <1>3, SwitchEffect DEF SwitchStep, clock_vars, life_vars
<1>4. CASE ExitStep
  BY <1>4, ExitEffect, CurrentAt DEF ExitStep, exit_self, Goto, clock_vars
<1>5. ASSUME NEW c \in Slots, NEW l \in Labels, ForkStep(c, l)
      PROVE  WakeupsLiving'
  BY <1>5, ForkEffect DEF ForkStep, clock_vars
<1>6. CASE do_yield \/ exit_reparented
  BY <1>6, CurrentAt DEF do_yield, exit_reparented, At, Goto, sched_vars,
     clock_vars, life_vars
<1>7. CASE wait_block
  BY <1>7, CurrentAt DEF wait_block, set_waiting, At, Goto, clock_vars,
     life_vars
<1>8. CASE wait_nochild
  BY <1>8, CurrentAt DEF wait_nochild, wait_return, At, Goto, sched_vars,
     clock_vars
<1>9. CASE kill_wake
  BY <1>9, WakeEffect, CurrentAt DEF kill_wake, At, Goto, clock_vars
<1>10. CASE sleep_woken
  BY <1>10, CurrentAt DEF sleep_woken, del_timer, At, Goto, sched_vars,
     life_vars
<1>11. CASE timer_intr
  BY <1>11 DEF timer_intr, tick_begin, sched_vars, life_vars
<1>12. CASE timer_done
  BY <1>12 DEF timer_done, tick_end, sched_class_proc_tick, Goto, life_vars
<1>13. ASSUME NEW a \in Slots \cup {NULL}, sys_wait(a)
       PROVE  WakeupsLiving'
  BY <1>13, CurrentAt DEF sys_wait, At, Goto, sched_vars, clock_vars
<1>14. ASSUME NEW n \in SleepTimes, do_sleep(n) PROVE WakeupsLiving'
  BY <1>14, CurrentAt DEF do_sleep, set_waiting, add_timer, At, Goto,
     life_vars
<1>15. ASSUME NEW c \in Slots, do_kill(c) PROVE WakeupsLiving'
  BY <1>15, CurrentAt DEF do_kill, At, Goto, sched_vars, clock_vars
<1>16. ASSUME NEW c \in Slots, wait_found(c) PROVE WakeupsLiving'
  BY <1>16, CurrentAt DEF wait_found, wait_return, At, Goto, clock_vars,
     DeadAwaited, Awaited, Children
<1>17. ASSUME NEW c \in Slots, exit_reparent(c) PROVE WakeupsLiving'
  BY <1>17, WakeEffect, CurrentAt DEF exit_reparent, At, Children, clock_vars
<1>18. ASSUME NEW p \in Procs, timer_fire(p) PROVE WakeupsLiving'
  BY <1>18, WakeEffect DEF timer_fire, tick_fire, Expired, NoTimer, life_vars
<1> QED
  BY <1>1, <1>2, <1>3, <1>4, <1>5, <1>6, <1>7, <1>8, <1>9, <1>10, <1>11,
     <1>12, <1>13, <1>14, <1>15, <1>16, <1>17, <1>18, StepCases DEF OtherStep

(* Who sleeps can be woken.                                                *)
LEMMA SleepersStep ==
    ASSUME IInv, [Next]_vars
    PROVE  SleepersCanWake'
<1>0. /\ current \in Procs
      /\ state \in [Procs -> States]
      /\ wait_state \in [Procs -> WaitStates]
      /\ pc \in [Procs -> Labels]
      /\ parent \in [Procs -> Procs \cup {NULL}]
      /\ exiting \in [Procs -> BOOLEAN]
      /\ arg \in [Procs -> Slots \cup {NULL}]
      /\ TimersTypeOK
      /\ RunQueueOK /\ ControlOK /\ TreeOK /\ TimersLive
      /\ WakeupsLiving /\ SleepersCanWake /\ NoLostChildWakeup
  BY DEF IInv, TypeOK, SchedTypeOK
<1> USE ProcAssumption, SchedAssumption, <1>0 DEF ControlOK, RunningLabels,
       States, WaitStates, TreeOK, WakeupsLiving, TimersLive, TimersTypeOK,
       SleepersCanWake, Awaited, Children, NoTimer
<1>1. CASE UNCHANGED vars
  BY <1>1 DEF vars, sched_vars, clock_vars, life_vars
<1>2. ASSUME NEW l \in Labels, MoveStep(l) PROVE SleepersCanWake'
  BY <1>2 DEF MoveStep, Goto, sched_vars, clock_vars, life_vars
<1>3. ASSUME NEW l \in Labels, SwitchStep(l) PROVE SleepersCanWake'
  BY <1>3, SwitchEffect DEF SwitchStep, clock_vars, life_vars
<1>4. CASE ExitStep
  BY <1>4, ExitEffect, CurrentAt DEF ExitStep, exit_self, Goto, clock_vars
<1>5. ASSUME NEW c \in Slots, NEW l \in Labels, ForkStep(c, l)
      PROVE  SleepersCanWake'
  BY <1>5, ForkEffect DEF ForkStep, clock_vars
<1>6. CASE do_yield \/ exit_reparented
  BY <1>6, CurrentAt DEF do_yield, exit_reparented, At, Goto, sched_vars,
     clock_vars, life_vars
<1>7. CASE wait_block
  BY <1>7, CurrentAt DEF wait_block, set_waiting, At, Goto, clock_vars,
     life_vars
<1>8. CASE wait_nochild
  BY <1>8, CurrentAt DEF wait_nochild, wait_return, At, Goto, sched_vars,
     clock_vars
<1>9. CASE kill_wake
  BY <1>9, WakeEffect, CurrentAt DEF kill_wake, At, Goto, clock_vars
<1>10. CASE sleep_woken
  BY <1>10, CurrentAt DEF sleep_woken, del_timer, At, Goto, sched_vars,
     life_vars
<1>11. CASE timer_intr
  BY <1>11 DEF timer_intr, tick_begin, sched_vars, life_vars
<1>12. CASE timer_done
  BY <1>12 DEF timer_done, tick_end, sched_class_proc_tick, Goto, life_vars
<1>13. ASSUME NEW a \in Slots \cup {NULL}, sys_wait(a)
       PROVE  SleepersCanWake'
  BY <1>13, CurrentAt DEF sys_wait, At, Goto, sched_vars, clock_vars
<1>14. ASSUME NEW n \in SleepTimes, do_sleep(n) PROVE SleepersCanWake'
  BY <1>14, CurrentAt DEF do_sleep, set_waiting, add_timer, At, Goto,
     life_vars
<1>15. ASSUME NEW c \in Slots, do_kill(c) PROVE SleepersCanWake'
  BY <1>15, CurrentAt DEF do_kill, At, Goto, sched_vars, clock_vars
<1>16. ASSUME NEW c \in Slots, wait_found(c) PROVE SleepersCanWake'
  BY <1>16, CurrentAt DEF wait_found, wait_return, At, Goto, clock_vars,
     DeadAwaited, Awaited, Children
<1>17. ASSUME NEW c \in Slots, exit_reparent(c) PROVE SleepersCanWake'
  BY <1>17, WakeEffect, CurrentAt DEF exit_reparent, At, Children, clock_vars
<1>18. ASSUME NEW p \in Procs, timer_fire(p) PROVE SleepersCanWake'
  BY <1>18, WakeEffect DEF timer_fire, tick_fire, Expired, NoTimer, life_vars
<1> QED
  BY <1>1, <1>2, <1>3, <1>4, <1>5, <1>6, <1>7, <1>8, <1>9, <1>10, <1>11,
     <1>12, <1>13, <1>14, <1>15, <1>16, <1>17, <1>18, StepCases DEF OtherStep

(* No wakeup of a waiting parent is lost.                                  *)
LEMMA NoLostStep ==
    ASSUME IInv, [Next]_vars
    PROVE  NoLostChildWakeup'
<1>0. /\ current \in Procs
      /\ state \in [Procs -> States]
      /\ wait_state \in [Procs -> WaitStates]
      /\ pc \in [Procs -> Labels]
      /\ parent \in [Procs -> Procs \cup {NULL}]
      /\ exiting \in [Procs -> BOOLEAN]
      /\ arg \in [Procs -> Slots \cup {NULL}]
      /\ TimersTypeOK
      /\ RunQueueOK /\ ControlOK /\ TreeOK /\ TimersLive
      /\ WakeupsLiving /\ SleepersCanWake /\ NoLostChildWakeup
  BY DEF IInv, TypeOK, SchedTypeOK
<1> USE ProcAssumption, SchedAssumption, <1>0 DEF ControlOK, RunningLabels,
       States, WaitStates, TreeOK, WakeupsLiving, NoLostChildWakeup,
       DeadAwaited, Awaited, Children
<1>1. CASE UNCHANGED vars
  BY <1>1 DEF vars, sched_vars, clock_vars, life_vars
<1>2. ASSUME NEW l \in Labels, MoveStep(l) PROVE NoLostChildWakeup'
  BY <1>2 DEF MoveStep, Goto, sched_vars, clock_vars, life_vars
<1>3. ASSUME NEW l \in Labels, SwitchStep(l) PROVE NoLostChildWakeup'
  BY <1>3, SwitchEffect DEF SwitchStep, clock_vars, life_vars
<1>4. CASE ExitStep
  BY <1>4, ExitEffect, CurrentAt DEF ExitStep, exit_self, Goto, clock_vars
<1>5. ASSUME NEW c \in Slots, NEW l \in Labels, ForkStep(c, l)
      PROVE  NoLostChildWakeup'
  BY <1>5, ForkEffect DEF ForkStep, clock_vars
<1>6. CASE do_yield \/ exit_reparented
  BY <1>6, CurrentAt DEF do_yield, exit_reparented, At, Goto, sched_vars,
     clock_vars, life_vars
<1>7. CASE wait_block
  BY <1>7, CurrentAt DEF wait_block, set_waiting, At, Goto, clock_vars,
     life_vars
<1>8. CASE wait_nochild
  BY <1>8, CurrentAt DEF wait_nochild, wait_return, At, Goto, sched_vars,
     clock_vars
<1>9. CASE kill_wake
  BY <1>9, WakeEffect, CurrentAt DEF kill_wake, At, Goto, clock_vars
<1>10. CASE sleep_woken
  BY <1>10, CurrentAt DEF sleep_woken, del_timer, At, Goto, sched_vars,
     life_vars
<1>11. CASE timer_intr
  BY <1>11 DEF timer_intr, tick_begin, sched_vars, life_vars
<1>12. CASE timer_done
  BY <1>12 DEF timer_done, tick_end, sched_class_proc_tick, Goto, life_vars
<1>13. ASSUME NEW a \in Slots \cup {NULL}, sys_wait(a)
       PROVE  NoLostChildWakeup'
  BY <1>13, CurrentAt DEF sys_wait, At, Goto, sched_vars, clock_vars
<1>14. ASSUME NEW n \in SleepTimes, do_sleep(n) PROVE NoLostChildWakeup'
  BY <1>14, CurrentAt DEF do_sleep, set_waiting, add_timer, At, Goto,
     life_vars
<1>15. ASSUME NEW c \in Slots, do_kill(c) PROVE NoLostChildWakeup'
  BY <1>15, CurrentAt DEF do_kill, At, Goto, sched_vars, clock_vars
<1>16. ASSUME NEW c \in Slots, wait_found(c) PROVE NoLostChildWakeup'
  BY <1>16, CurrentAt DEF wait_found, wait_return, At, Goto, clock_vars,
     DeadAwaited, Awaited, Children
<1>17. ASSUME NEW c \in Slots, exit_reparent(c) PROVE NoLostChildWakeup'
  BY <1>17, WakeEffect, CurrentAt DEF exit_reparent, At, Children, clock_vars
<1>18. ASSUME NEW p \in Procs, timer_fire(p) PROVE NoLostChildWakeup'
  BY <1>18, WakeEffect DEF timer_fire, tick_fire, Expired, NoTimer, life_vars
<1> QED
  BY <1>1, <1>2, <1>3, <1>4, <1>5, <1>6, <1>7, <1>8, <1>9, <1>10, <1>11,
     <1>12, <1>13, <1>14, <1>15, <1>16, <1>17, <1>18, StepCases DEF OtherStep

-----------------------------------------------------------------------------
(* proc_init establishes the invariant.                                    *)
LEMMA InitIInv ==
    ASSUME Init PROVE IInv
<1> USE ProcAssumption, SchedAssumption DEF Init, TimersInit
<1>1. SchedTypeOK
  BY DEF SchedTypeOK, States, WaitStates
<1>2. TypeOK
  <2>1. pc \in [Procs -> Labels]
    BY DEF Labels
  <2>2. TimersTypeOK
    BY DEF TimersTypeOK, NoTimer
  <2>3. /\ parent \in [Procs -> Procs \cup {NULL}]
        /\ exiting \in [Procs -> BOOLEAN]
        /\ arg \in [Procs -> Slots \cup {NULL}]
        /\ nr_process \in Int
    OBVIOUS
  <2> QED
    BY <1>1, <2>1, <2>2, <2>3 DEF TypeOK
<1>3. RunQueueOK
  <2>1. DOMAIN run_list = {1} /\ run_list[1] = initproc
    OBVIOUS
  <2> QED
    BY <2>1 DEF RunQueueOK, RunListDistinct, RunListExact
<1>4. ControlOK
  BY DEF ControlOK, RunningLabels
<1>5. TreeOK
  BY DEF TreeOK
<1>6. TimersLive /\ WakeupsLiving
  BY DEF TimersLive, WakeupsLiving, NoTimer, Alive
<1>7. SleepersCanWake /\ NoLostChildWakeup
  BY DEF SleepersCanWake, NoLostChildWakeup
<1> QED
  BY <1>2, <1>3, <1>4, <1>5, <1>6, <1>7 DEF IInv

(* The invariant holds in every reachable state of the process life cycle, *)
(* for any set of processes.                                               *)
THEOREM Invariance == Spec => []IInv
<1>1. Init => IInv
  BY InitIInv
<1>2. IInv /\ [Next]_vars => IInv'
  <2> SUFFICES ASSUME IInv, [Next]_vars PROVE IInv'
    OBVIOUS
  <2>1. TypeOK' /\ RunQueueOK'
    BY TypeStep, SchedStep
  <2>2. ControlOK' /\ TreeOK'
    BY ControlStep, TreeStep
  <2>3. TimersLive' /\ WakeupsLiving'
    BY TimersStep, WakeupsStep
  <2>4. SleepersCanWake' /\ NoLostChildWakeup'
    BY SleepersStep, NoLostStep
  <2> QED
    BY <2>1, <2>2, <2>3, <2>4 DEF IInv
<1> QED
  BY <1>1, <1>2, PTL DEF Spec

(* The state of the process life cycle is always well typed.               *)
THEOREM TypeCorrect == Spec => []TypeOK
<1>1. IInv => TypeOK
  BY DEF IInv
<1> QED
  BY <1>1, Invariance, PTL

(* wakeup_proc and schedule keep the run queue exact in every interleaving *)
(* of system calls and timer interrupts.                                   *)
THEOREM RunQueueCorrect == Spec => []RunQueueOK
<1>1. IInv => RunQueueOK
  BY DEF IInv
<1> QED
  BY <1>1, Invariance, PTL

(* do_exit and do_wait never lose the wakeup of a waiting parent.          *)
THEOREM ChildWakeupCorrect == Spec => []NoLostChildWakeup
<1>1. IInv => NoLostChildWakeup
  BY DEF IInv
<1> QED
  BY <1>1, Invariance, PTL

(* The process tree holds together.                                        *)
THEOREM TreeCorrect == Spec => []TreeOK
<1>1. IInv => TreeOK
  BY DEF IInv
<1> QED
  BY <1>1, Invariance, PTL

(* do_wait, do_sleep, do_kill and the timer agree on who waits: state and  *)
(* wait_state match, who sleeps can be woken, no timer outlives its        *)
(* owner's call of do_sleep and only the living are woken.                 *)
THEOREM WaitingCorrect == Spec => []WaitingOK
<1>1. IInv => WaitingOK
  BY DEF IInv, WaitingOK
<1> QED
  BY <1>1, Invariance, PTL

(* do_wait frees nothing that the kernel still refers to.                  *)
THEOREM NoDangling == Spec => []NoUseAfterFree
<1>1. IInv => NoUseAfterFree
  <2> SUFFICES ASSUME IInv, NEW p \in Procs, state[p] = "UNUSED"
               PROVE  /\ p # current
                      /\ \A i \in DOMAIN run_list : run_list[i] # p
                      /\ timer[p] = NoTimer
                      /\ \A q \in Procs : parent[q] # p
    BY DEF NoUseAfterFree
  <2>1. p # current
    BY DEF IInv, ControlOK
  <2>2. \A i \in DOMAIN run_list : run_list[i] # p
    BY DEF IInv, RunQueueOK, RunListExact
  <2>3. timer[p] = NoTimer
    BY DEF IInv, WakeupsLiving, Alive
  <2>4. ASSUME NEW q \in Procs PROVE parent[q] # p
    <3>1. CASE q \in Slots
      BY <2>1, <3>1, ProcAssumption DEF IInv, TreeOK, Alive
    <3>2. CASE q \notin Slots
      BY <3>2, ProcAssumption DEF IInv, ControlOK, RunQueueOK
    <3> QED
      BY <3>1, <3>2
  <2> QED
    BY <2>1, <2>2, <2>3, <2>4
<1> QED
  BY <1>1, Invariance, PTL

(* A dead process is freed only by its parent, in do_wait.                 *)
THEOREM ReapedByParent == Spec => ZombieReapedByParent
<1> DEFINE Reaped ==
      \A p \in Procs :
          state[p] = "ZOMBIE" /\ state'[p] # "ZOMBIE" =>
              /\ state'[p] = "UNUSED"
              /\ current = parent[p]
              /\ pc[current] = "wait_scan"
<1>1. IInv /\ [Next]_vars => [Reaped]_vars
  <2> SUFFICES ASSUME IInv, [Next]_vars PROVE Reaped
    OBVIOUS
  <2>0. /\ state \in [Procs -> States]
        /\ current \in Procs
        /\ ControlOK
        /\ WakeupsLiving
    BY DEF IInv, TypeOK, SchedTypeOK
  <2> USE ProcAssumption, <2>0
  <2>1. CASE UNCHANGED state
    BY <2>1
  <2>2. ASSUME NEW l \in Labels, MoveStep(l) \/ SwitchStep(l) PROVE Reaped
    BY <2>2, SwitchEffect DEF MoveStep, sched_vars
  <2>3. CASE ExitStep
    BY <2>3, ExitEffect, CurrentAt DEF ExitStep, ControlOK
  <2>4. ASSUME NEW c \in Slots, NEW l \in Labels, ForkStep(c, l) PROVE Reaped
    BY <2>4, ForkEffect DEF ForkStep
  <2>5. CASE do_yield \/ wait_nochild \/ sleep_woken \/ exit_reparented
             \/ timer_intr \/ timer_done
    BY <2>1, <2>5
       DEF do_yield, wait_nochild, sleep_woken, exit_reparented, timer_intr,
           timer_done, sched_class_proc_tick, sched_vars
  <2>6. CASE wait_block
    BY <2>6, CurrentAt DEF wait_block, set_waiting, At
  <2>7. CASE kill_wake
    BY <2>7, WakeEffect, CurrentAt DEF kill_wake, At, WakeupsLiving, Alive
  <2>8. ASSUME NEW a \in Slots \cup {NULL}, sys_wait(a) PROVE Reaped
    BY <2>8 DEF sys_wait, sched_vars
  <2>9. ASSUME NEW n \in SleepTimes, do_sleep(n) PROVE Reaped
    BY <2>9, CurrentAt DEF do_sleep, set_waiting, At
  <2>10. ASSUME NEW c \in Slots, do_kill(c) PROVE Reaped
    BY <2>10 DEF do_kill, sched_vars
  <2>11. ASSUME NEW c \in Slots, wait_found(c) PROVE Reaped
    BY <2>11 DEF wait_found, At, DeadAwaited, Awaited, Children
  <2>12. ASSUME NEW c \in Slots, exit_reparent(c) PROVE Reaped
    BY <2>12, WakeEffect, KernelThreadsAlive DEF exit_reparent, Alive
  <2>13. ASSUME NEW p \in Procs, timer_fire(p) PROVE Reaped
    BY <2>13, WakeEffect DEF timer_fire, tick_fire, Expired, NoTimer,
                             WakeupsLiving, Alive
  <2> QED
    BY <2>1, <2>2, <2>3, <2>4, <2>5, <2>6, <2>7, <2>8, <2>9, <2>10, <2>11,
       <2>12, <2>13, StepCases DEF OtherStep, vars, sched_vars
<1> QED
  BY <1>1, Invariance, PTL DEF Spec, ZombieReapedByParent

-----------------------------------------------------------------------------
(***************************************************************************)
(* nr_process counts the processes, and the loop of init_main ends only    *)
(* when no process is left.  The second needs that the process tree has no *)
(* cycle: every process can be given a rank above its parent's, with       *)
(* initproc at the bottom.                                                 *)
(***************************************************************************)

(* The allocated processes.                                                *)
Used == {p \in Procs : state[p] # "UNUSED"}

(* r is a rank function for the process tree.                              *)
RankOK(r) ==
    /\ r \in [Procs -> Nat]
    /\ r[initproc] = 0
    /\ \A c \in Slots :
          state[c] # "UNUSED" => /\ parent[c] \in Slots \cup {initproc}
                                 /\ r[parent[c]] < r[c]

Ranked == \E r : RankOK(r)

(* How a step can change the tree: not at all, by a new child of current,  *)
(* by freeing a dead process, or by giving a child to initproc.            *)
LEMMA TreeEffect ==
    ASSUME IInv, [Next]_vars
    PROVE  \/ Used' = Used /\ UNCHANGED <<nr_process, parent>>
           \/ \E c \in Slots : /\ c \notin Used
                               /\ Used' = Used \cup {c}
                               /\ nr_process' = nr_process + 1
                               /\ parent' = [parent EXCEPT ![c] = current]
                               /\ current \in Slots \cup {initproc}
                               /\ current \in Used
           \/ \E c \in Slots : /\ c \in Used
                               /\ Used' = Used \ {c}
                               /\ nr_process' = nr_process - 1
                               /\ parent' = [parent EXCEPT ![c] = NULL]
           \/ \E c \in Slots : /\ Used' = Used
                               /\ UNCHANGED nr_process
                               /\ parent' = [parent EXCEPT ![c] = initproc]
<1> DEFINE Same == Used' = Used /\ UNCHANGED <<nr_process, parent>>
<1>0. /\ current \in Procs
      /\ state \in [Procs -> States]
      /\ parent \in [Procs -> Procs \cup {NULL}]
      /\ ControlOK
      /\ WakeupsLiving
  BY DEF IInv, TypeOK, SchedTypeOK
<1> USE ProcAssumption, SchedAssumption, <1>0
<1>1. CASE UNCHANGED <<state, nr_process, parent>>
  BY <1>1 DEF Used
<1>2. ASSUME NEW l \in Labels, MoveStep(l) \/ SwitchStep(l) PROVE Same
  BY <1>1, <1>2, SwitchEffect DEF MoveStep, SwitchStep, sched_vars, life_vars, Used
<1>3. CASE ExitStep
  <2>1. Used' = Used
    BY <1>3, ExitEffect, CurrentAt DEF ExitStep, ControlOK, Used
  <2> QED
    BY <1>3, <2>1 DEF ExitStep, exit_self
<1>4. ASSUME NEW c \in Slots, NEW l \in Labels, ForkStep(c, l)
      PROVE  /\ c \notin Used
             /\ Used' = Used \cup {c}
             /\ nr_process' = nr_process + 1
             /\ parent' = [parent EXCEPT ![c] = current]
             /\ current \in Slots \cup {initproc}
             /\ current \in Used
  <2>1. c \notin Used /\ Used' = Used \cup {c}
    BY <1>4, ForkEffect DEF ForkStep, Used
  <2>2. current \in Slots \cup {initproc} /\ current \in Used
    BY <1>4, CurrentAt DEF ForkStep, ControlOK, Used
  <2> QED
    BY <1>4, <2>1, <2>2 DEF ForkStep, fork_child
<1>5. CASE do_yield \/ wait_nochild \/ sleep_woken \/ exit_reparented
           \/ timer_intr \/ timer_done
  BY <1>1, <1>5
     DEF do_yield, wait_nochild, sleep_woken, exit_reparented, timer_intr,
         timer_done, sched_class_proc_tick, sched_vars, life_vars
<1>6. CASE wait_block
  BY <1>6, CurrentAt DEF wait_block, set_waiting, At, life_vars, Used
<1>7. CASE kill_wake
  <2>1. arg[current] \in Procs /\ state[arg[current]] # "UNUSED"
    BY <1>7 DEF kill_wake, At, WakeupsLiving, Alive
  <2> QED
    BY <1>7, <2>1, WakeEffect DEF kill_wake, Used
<1>8. ASSUME NEW a \in Slots \cup {NULL}, sys_wait(a) PROVE Same
  BY <1>8 DEF sys_wait, sched_vars, Used
<1>9. ASSUME NEW n \in SleepTimes, do_sleep(n) PROVE Same
  BY <1>9, CurrentAt DEF do_sleep, set_waiting, At, life_vars, Used
<1>10. ASSUME NEW c \in Slots, do_kill(c) PROVE Same
  BY <1>10 DEF do_kill, sched_vars, Used
<1>11. ASSUME NEW c \in Slots, wait_found(c)
       PROVE  /\ c \in Used
              /\ Used' = Used \ {c}
              /\ nr_process' = nr_process - 1
              /\ parent' = [parent EXCEPT ![c] = NULL]
  BY <1>11 DEF wait_found, DeadAwaited, Used
<1>12. ASSUME NEW c \in Slots, exit_reparent(c)
       PROVE  /\ Used' = Used
              /\ UNCHANGED nr_process
              /\ parent' = [parent EXCEPT ![c] = initproc]
  BY <1>12, WakeEffect, KernelThreadsAlive DEF exit_reparent, Alive, Used
<1>13. ASSUME NEW p \in Procs, timer_fire(p) PROVE Same
  <2>1. state[p] # "UNUSED"
    BY <1>13 DEF timer_fire, tick_fire, Expired, NoTimer, WakeupsLiving, Alive
  <2> QED
    BY <1>13, <2>1, WakeEffect DEF timer_fire, life_vars, Used
<1> QED
  BY <1>1, <1>2, <1>3, <1>4, <1>5, <1>6, <1>7, <1>8, <1>9, <1>10, <1>11,
     <1>12, <1>13, StepCases DEF OtherStep, vars, sched_vars, life_vars

(* idleproc and initproc are two processes.                                *)
LEMMA TwoThreads == Cardinality({idleproc} \cup {initproc}) = 2
<1>1. IsFiniteSet({idleproc}) /\ Cardinality({idleproc}) = 1
  BY FS_Singleton
<1>2. Cardinality({idleproc} \cup {initproc})
        = IF initproc \in {idleproc} THEN 1 ELSE 1 + 1
  BY <1>1, FS_AddElement
<1> QED
  BY <1>2, ProcAssumption

(* nr_process is the number of allocated processes.                        *)
THEOREM CountCorrect == Spec => []CountOK
<1>1. IsFiniteSet(Procs)
  <2>1. IsFiniteSet(Slots \cup {idleproc})
    BY ProcAssumption, FS_AddElement
  <2>2. IsFiniteSet((Slots \cup {idleproc}) \cup {initproc})
    BY <2>1, FS_AddElement
  <2>3. Procs = (Slots \cup {idleproc}) \cup {initproc}
    BY ProcAssumption
  <2> QED
    BY <2>2, <2>3
<1>2. IsFiniteSet(Used)
  BY <1>1, FS_Subset DEF Used
<1>3. Init => CountOK
  <2> SUFFICES ASSUME Init PROVE CountOK
    OBVIOUS
  <2>1. Used = {idleproc} \cup {initproc}
    BY ProcAssumption, SchedAssumption DEF Init, Used
  <2>2. Cardinality({idleproc} \cup {initproc}) = 2
    BY TwoThreads
  <2> QED
    BY <2>1, <2>2 DEF CountOK, Init, Used
<1>4. IInv /\ CountOK /\ [Next]_vars => CountOK'
  <2> SUFFICES ASSUME IInv, CountOK, [Next]_vars PROVE CountOK'
    OBVIOUS
  <2>1. nr_process = Cardinality(Used) /\ nr_process \in Int
    BY DEF CountOK, Used, IInv, TypeOK
  <2>2. nr_process' = Cardinality(Used')
    <3>1. CASE Used' = Used /\ UNCHANGED nr_process
      BY <2>1, <3>1
    <3>2. ASSUME NEW c \in Slots, c \notin Used, Used' = Used \cup {c},
                 nr_process' = nr_process + 1
          PROVE  nr_process' = Cardinality(Used')
      BY <1>2, <2>1, <3>2, FS_AddElement
    <3>3. ASSUME NEW c \in Slots, c \in Used, Used' = Used \ {c},
                 nr_process' = nr_process - 1
          PROVE  nr_process' = Cardinality(Used')
      BY <1>2, <2>1, <3>3, FS_RemoveElement
    <3> QED
      BY <3>1, <3>2, <3>3, TreeEffect
  <2> QED
    BY <2>2 DEF CountOK, Used
<1> QED
  BY <1>3, <1>4, Invariance, PTL DEF Spec

-----------------------------------------------------------------------------
(* The tree never gets a cycle.                                            *)
LEMMA RankedStep ==
    ASSUME IInv, Ranked, [Next]_vars
    PROVE  Ranked'
<1>1. PICK r : RankOK(r)
  BY DEF Ranked
<1>0. /\ parent \in [Procs -> Procs \cup {NULL}]
      /\ \A p \in Procs : p \in Used <=> state[p] # "UNUSED"
      /\ \A p \in Procs : p \in Used' <=> state'[p] # "UNUSED"
  BY DEF IInv, TypeOK, Used
<1> USE ProcAssumption, <1>0
<1>2. CASE Used' = Used /\ UNCHANGED parent
  BY <1>1, <1>2 DEF RankOK, Ranked
<1>3. ASSUME NEW c \in Slots, c \notin Used, Used' = Used \cup {c},
             parent' = [parent EXCEPT ![c] = current],
             current \in Slots \cup {initproc}, current \in Used
      PROVE  Ranked'
  <2>0. PICK n \in Nat : n = r[current]
    BY <1>1, <1>3 DEF RankOK
  <2> DEFINE s == [r EXCEPT ![c] = n + 1]
  <2>1. \A d \in Slots : d \in Used => parent[d] # c
    BY <1>3 DEF IInv, TreeOK, Alive
  <2>2. RankOK(s)'
    BY <1>1, <1>3, <2>0, <2>1 DEF RankOK
  <2> QED
    BY <2>2 DEF Ranked
<1>4. ASSUME NEW c \in Slots, Used' = Used \ {c},
             parent' = [parent EXCEPT ![c] = NULL]
      PROVE  Ranked'
  <2>1. RankOK(r)'
    BY <1>1, <1>4 DEF RankOK
  <2> QED
    BY <2>1 DEF Ranked
<1>5. ASSUME NEW c \in Slots, Used' = Used,
             parent' = [parent EXCEPT ![c] = initproc]
      PROVE  Ranked'
  <2>1. RankOK(r)'
    BY <1>1, <1>5 DEF RankOK
  <2> QED
    BY <2>1 DEF Ranked
<1> QED
  BY <1>2, <1>3, <1>4, <1>5, TreeEffect

(* Every set of natural numbers has a least element.                       *)
LEMMA LeastNat ==
    ASSUME NEW T \in SUBSET Nat, T # {}
    PROVE  \E m \in T : \A k \in T : m <= k
<1>1. PICK m \in T : \A k \in T : ~(<<k, m>> \in OpToRel(<, Nat))
  BY WFMin, NatLessThanWellFounded
<1>2. \A k \in T : ~(k < m)
  BY <1>1 DEF OpToRel
<1>3. \A k \in T : k \in Nat /\ m \in Nat
  OBVIOUS
<1>4. \A k \in T : m <= k
  BY <1>2, <1>3
<1> QED
  BY <1>4

(* If initproc has no child, there is no process but the kernel threads.   *)
LEMMA NoChildNoProcess ==
    ASSUME IInv, Ranked, current = initproc, Children(initproc) = {}
    PROVE  \A c \in Slots : state[c] = "UNUSED"
<1>1. PICK r : RankOK(r)
  BY DEF Ranked
<1> DEFINE Live == {c \in Slots : state[c] # "UNUSED"}
           Ranks == {r[c] : c \in Live}
<1>2. SUFFICES ASSUME Live # {} PROVE FALSE
  OBVIOUS
<1>3. Ranks \in SUBSET Nat /\ Ranks # {}
  BY <1>1, <1>2, ProcAssumption DEF RankOK
<1>4. PICK m \in Ranks : \A k \in Ranks : m <= k
  BY <1>3, LeastNat
<1>5. PICK c \in Live : r[c] = m
  BY <1>4
<1>6. parent[c] \in Live
  BY <1>1, <1>5, ProcAssumption
     DEF RankOK, Children, IInv, TreeOK, Alive, ControlOK
<1>7. r[parent[c]] < r[c] /\ r[parent[c]] \in Nat /\ r[c] \in Nat
  BY <1>1, <1>5, <1>6, ProcAssumption DEF RankOK
<1>8. r[c] <= r[parent[c]]
  BY <1>4, <1>5, <1>6
<1> QED
  BY <1>7, <1>8

(* init_main leaves its loop only where do_wait has found no child.        *)
LEMMA HaltEntered ==
    ASSUME IInv, [Next]_vars, pc[initproc] # "halt", pc'[initproc] = "halt"
    PROVE  wait_nochild /\ current = initproc
<1>0. /\ current \in Procs
      /\ pc \in [Procs -> Labels]
      /\ initproc \in Procs
  BY ProcAssumption DEF IInv, TypeOK, SchedTypeOK
<1> USE <1>0
<1>1. ~UNCHANGED pc
  OBVIOUS
<1>2. ASSUME NEW l \in Labels, MoveStep(l) \/ SwitchStep(l) PROVE FALSE
  BY <1>2 DEF MoveStep, SwitchStep, Goto
<1>3. ASSUME ExitStep PROVE FALSE
  BY <1>3 DEF ExitStep, exit_self, Goto
<1>4. ASSUME NEW c \in Slots, NEW l \in Labels, ForkStep(c, l) PROVE FALSE
  BY <1>4, ProcAssumption DEF ForkStep
<1>5. ASSUME OtherStep PROVE wait_nochild
  BY <1>5, ProcAssumption
     DEF OtherStep, do_yield, wait_block, kill_wake, sleep_woken, timer_intr,
         exit_reparented, timer_done, sys_wait, do_sleep, do_kill, wait_found,
         wait_return, exit_reparent, timer_fire, Goto
<1>6. wait_nochild
  BY <1>1, <1>2, <1>3, <1>4, <1>5, StepCases DEF vars
<1>7. current = initproc
  BY <1>6 DEF wait_nochild, wait_return, Goto
<1> QED
  BY <1>6, <1>7

(* Once it has, no process is created.                                     *)
LEMMA HaltedNoFork ==
    ASSUME IInv, [Next]_vars, pc[initproc] = "halt"
    PROVE  Used' \subseteq Used
<1>1. current = initproc /\ pc[current] = "halt"
  BY ProcAssumption DEF IInv, ControlOK, RunningLabels
<1>2. ASSUME NEW c \in Slots, NEW l \in Labels, ForkStep(c, l) PROVE FALSE
  BY <1>1, <1>2 DEF ForkStep
<1>3. UNCHANGED vars \/ OtherStep \/ ExitStep
      \/ \E l \in Labels : MoveStep(l) \/ SwitchStep(l)
  BY <1>2, StepCases
<1>4. ~(nr_process' = nr_process + 1)
  BY <1>1, <1>3
     DEF vars, life_vars, MoveStep, SwitchStep, ExitStep, exit_self, OtherStep,
         do_yield, wait_block, wait_nochild, kill_wake, sleep_woken, IInv,
         exit_reparented, timer_intr, timer_done, sys_wait, do_sleep, do_kill,
         wait_found, exit_reparent, timer_fire, TypeOK
<1> QED
  BY <1>4, TreeEffect

(* The loop of init_main ends only when every process has been freed, so   *)
(* that its assertions hold.                                               *)
THEOREM HaltCorrect == Spec => []HaltClean
<1> DEFINE Clean == pc[initproc] = "halt" => \A c \in Slots : state[c] = "UNUSED"
<1>1. Init => Ranked /\ Clean
  <2> SUFFICES ASSUME Init PROVE Ranked /\ Clean
    OBVIOUS
  <2>1. RankOK([p \in Procs |-> 0])
    BY ProcAssumption DEF RankOK, Init
  <2> QED
    BY <2>1, ProcAssumption DEF Ranked, Init
<1>2. IInv /\ Ranked /\ Clean /\ [Next]_vars => Ranked' /\ Clean'
  <2> SUFFICES ASSUME IInv, Ranked, Clean, [Next]_vars PROVE Clean'
    BY RankedStep
  <2>1. CASE pc[initproc] = "halt"
    <3>1. current = initproc /\ \A c \in Slots : c \notin Used
      BY <2>1, ProcAssumption DEF IInv, ControlOK, RunningLabels, Used
    <3>2. Used' \subseteq Used
      BY <2>1, HaltedNoFork
    <3> QED
      BY <3>1, <3>2, ProcAssumption DEF Used
  <2>2. CASE pc[initproc] # "halt"
    <3> SUFFICES ASSUME pc'[initproc] = "halt"
                 PROVE  \A c \in Slots : state'[c] = "UNUSED"
      OBVIOUS
    <3>1. wait_nochild /\ current = initproc
      BY <2>2, HaltEntered
    <3>2. Children(initproc) = {}
      BY <3>1, ProcAssumption
         DEF wait_nochild, Awaited, Children, IInv, ControlOK
    <3>3. \A c \in Slots : state[c] = "UNUSED"
      BY <3>1, <3>2, NoChildNoProcess
    <3> QED
      BY <3>1, <3>3 DEF wait_nochild, sched_vars
  <2> QED
    BY <2>1, <2>2
<1>3. IInv /\ CountOK /\ Clean => HaltClean
  <2> SUFFICES ASSUME IInv, CountOK, Clean, pc[initproc] = "halt"
               PROVE  nr_process = 2
    BY DEF HaltClean
  <2>0. \A p \in {idleproc, initproc} : state[p] # "UNUSED"
    BY KernelThreadsAlive DEF Alive
  <2>1. Used = {idleproc} \cup {initproc}
    BY <2>0, ProcAssumption DEF Used
  <2> QED
    BY <2>1, TwoThreads DEF CountOK, Used
<1> QED
  BY <1>1, <1>2, <1>3, Invariance, CountCorrect, PTL DEF Spec
=============================================================================
