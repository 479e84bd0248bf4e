------------------------------ MODULE PhilMon ------------------------------
(***************************************************************************)
(* The monitor of kern/sync/monitor.c and the dining philosophers of       *)
(* kern/sync/check_sync.c that use it.  A signal hands the monitor to the  *)
(* process it wakes: the signalling process waits on the semaphore next    *)
(* until the woken one leaves the monitor or waits again, and only if no   *)
(* signaller waits there the monitor's mutex is released.                  *)
(***************************************************************************)
EXTENDS PhilThreads

CONSTANT next   \* semaphore of the monitor; i is cv[i].sem

PhilMonAssumption == next \in Sems \ (Phils \cup {mutex})

VARIABLES
    next_count,  \* number of signallers that wait on next
    count        \* [Phils -> Nat]: cv[i].count

mon_vars == <<next_count, count>>

(* Where phi_test_condvar is called, and where the down(&next) of the      *)
(* cond_signal in it is.                                                   *)
SignalAt ==
    [take_test |-> "take_next", put_left |-> "left_next", put_right |-> "right_next"]

(* Where each call of phi_test_condvar returns to.                         *)
AfterTest ==
    [take_test |-> "take_check", put_left |-> "put_right", put_right |-> "put_leave"]

(* The calls of down() and their semaphores.                               *)
DownAt == [think |-> mutex, eat |-> mutex, cv_wait |-> current,
           take_next |-> next, left_next |-> next, right_next |-> next]

MonLabels == {"take_test", "take_next", "take_check", "cv_wait", "take_leave",
              "put_left", "left_next", "put_right", "right_next", "put_leave"}

MonTypeOK ==
    /\ PhilTypeOK(MonLabels)
    /\ next_count \in Nat
    /\ count \in [Phils -> Nat]

(* Nobody uses the monitor.                                                *)
NoMonitor == next_count = 0 /\ count = [i \in Phils |-> 0]

(* monitor_init.                                                           *)
MonInit ==
    /\ PhilInit
    /\ SemInit([s \in Sems |-> IF s = mutex THEN 1 ELSE 0])
    /\ NoMonitor

-----------------------------------------------------------------------------
(* Give the monitor up: to a signaller if there is one.                    *)
release_monitor == up(IF next_count > 0 THEN next ELSE mutex)

(* cond_signal(cv[i]) up to its down(&next), if anyone waits on cv[i].     *)
cond_signal(i) ==
    /\ count[i] > 0
    /\ next_count' = next_count + 1
    /\ up(i)
    /\ UNCHANGED count

(* phi_test_condvar for the philosopher that the caller is interested in.  *)
phi_test_condvar ==
    \E l \in DOMAIN AfterTest :
        LET i == CASE l = "take_test" -> current
                   [] l = "put_left"  -> LEFT(current)
                   [] l = "put_right" -> RIGHT(current)
        IN  /\ At(l)
            /\ phil' = IF MayEat(i) THEN [phil EXCEPT ![i] = "EATING"] ELSE phil
            /\ \/ MayEat(i) /\ cond_signal(i) /\ Goto(SignalAt[l])
               \/ /\ ~MayEat(i) \/ count[i] = 0
                  /\ Goto(AfterTest[l])
                  /\ UNCHANGED <<sched_vars, sem_vars, mon_vars>>
            /\ UNCHANGED iter

(* cond_signal after its down(&next).                                      *)
signal_done ==
    \E l \in DOMAIN AfterTest :
        /\ Downed(next, SignalAt[l])
        /\ next_count' = next_count - 1
        /\ Goto(AfterTest[l])
        /\ UNCHANGED <<phil, iter, count>>

(* down(&mutex) of phi_take_forks_condvar has returned.                    *)
mon_take_forks ==
    /\ Downed(mutex, "think")
    /\ phil' = [phil EXCEPT ![current] = "HUNGRY"]
    /\ Goto("take_test")
    /\ UNCHANGED <<iter, mon_vars>>

(* phi_test_condvar has found the forks free.                              *)
mon_take_check ==
    /\ At("take_check")
    /\ phil[current] = "EATING"
    /\ Goto("take_leave")
    /\ UNCHANGED <<sched_vars, sem_vars, phil, iter, mon_vars>>

(* cond_wait(cv[i]) up to its down().                                      *)
cond_wait ==
    /\ At("take_check")
    /\ phil[current] # "EATING"
    /\ count' = [count EXCEPT ![current] = @ + 1]
    /\ release_monitor
    /\ Goto("cv_wait")
    /\ UNCHANGED <<phil, iter, next_count>>

(* Faulty variant of cond_woken: count is not decremented.               *)
cond_woken_counted ==
    /\ Downed(current, "cv_wait")
    /\ Goto("take_leave")
    /\ UNCHANGED <<phil, iter, mon_vars>>

(* cond_wait after its down().                                             *)
cond_woken ==
    /\ Downed(current, "cv_wait")
    /\ count' = [count EXCEPT ![current] = @ - 1]
    /\ Goto("take_leave")
    /\ UNCHANGED <<phil, iter, next_count>>

mon_take_leave ==
    /\ At("take_leave")
    /\ release_monitor
    /\ Goto("dine")
    /\ UNCHANGED <<phil, iter, mon_vars>>

(* down(&mutex) of phi_put_forks_condvar has returned.                     *)
mon_put_forks ==
    /\ Downed(mutex, "eat")
    /\ phil' = [phil EXCEPT ![current] = "THINKING"]
    /\ Goto("put_left")
    /\ UNCHANGED <<iter, mon_vars>>

mon_put_leave ==
    /\ At("put_leave")
    /\ release_monitor
    /\ Goto("loop")
    /\ UNCHANGED <<phil, iter, mon_vars>>

mon_block == \E l \in DOMAIN DownAt : down_wait(DownAt[l], l) /\ UNCHANGED mon_vars

MonNext ==
    \/ ThreadNext /\ UNCHANGED mon_vars
    \/ mon_take_forks
    \/ phi_test_condvar
    \/ mon_take_check
    \/ cond_wait
    \/ cond_woken
    \/ mon_take_leave
    \/ mon_put_forks
    \/ signal_done
    \/ mon_put_leave
    \/ mon_block

-----------------------------------------------------------------------------
(* A philosopher is active in the monitor between its entry and its exit,  *)
(* except while it waits for a condition or, after a signal, for the       *)
(* return of the monitor.  Whoever was handed the monitor in down() counts *)
(* from that moment on.                                                    *)
Active(i) ==
    \/ pc[i] \in {"take_test", "take_check", "take_leave",
                  "put_left", "put_right", "put_leave"}
    \/ pc[i] \in DOMAIN DownAt /\ wakeup_flags[i] = "WT_KSEM"

(* "Only one process at a time may be be active in a monitor" (monitor.h), *)
(* through all the ways of handing it over, and if none is, the mutex is   *)
(* free: the monitor is never left locked.                                 *)
MonitorExclusive == Cardinality({i \in Phils : Active(i)}) + value[mutex] = 1

(* cond_wait is called in an if, not in a while: when it returns, what the *)
(* philosopher waited for must still hold.                                 *)
WaitGranted == \A i \in Phils : pc[i] = "take_leave" => phil[i] = "EATING"

(* The two counters, on which the choice between next and mutex rests,     *)
(* count the processes that wait, and no permit is left on next or on a    *)
(* condition for a later wait.                                             *)
MonitorCounts ==
    /\ next_count =
          Cardinality({i \in Phils : pc[i] \in {"take_next", "left_next", "right_next"}})
    /\ next_count <= 1
    /\ value[next] = 0
    /\ \A i \in Phils : value[i] = 0 /\ (count[i] = IF pc[i] = "cv_wait" THEN 1 ELSE 0)

(* A philosopher that waits for its forks has a neighbour that eats or is  *)
(* just putting its forks down.                                            *)
MonHungryHasCause ==
    \A i \in Phils :
        phil[i] = "HUNGRY" /\ pc[i] = "cv_wait" =>
            \E j \in {LEFT(i), RIGHT(i)} :
                \/ phil[j] = "EATING"
                \/ pc[j] \in {"put_left", "left_next", "put_right"}

(* One philosopher at a time is active in the monitor and neighbours never *)
(* eat together; the monitor's counters are exact, cond_wait returns with  *)
(* its condition true, and no philosopher waits for forks that are free.   *)
MonitorOK ==
    /\ MonTypeOK
    /\ ForksExclusive
    /\ MonitorExclusive
    /\ MonitorCounts
    /\ WaitGranted
    /\ MonHungryHasCause
=============================================================================
