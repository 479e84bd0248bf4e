---------------------------- MODULE Philosophers ----------------------------
(***************************************************************************)
(* check_sync of kern/sync/check_sync.c: the dining philosophers with      *)
(* semaphores (PhilSem) and with a monitor (PhilMon).  The two groups of   *)
(* threads share nothing but the scheduler; a behaviour follows one of     *)
(* them, which version names.                                              *)
(***************************************************************************)
EXTENDS PhilSem, PhilMon

VARIABLE version   \* "semaphore" or "condvar"

philosophers_vars == <<thread_vars, mon_vars, version>>

PhilosophersInit ==
    \/ version = "semaphore" /\ SemaInit /\ NoMonitor
    \/ version = "condvar" /\ MonInit

PhilosophersNext ==
    /\ \/ version = "semaphore" /\ SemaNext /\ UNCHANGED mon_vars
       \/ version = "condvar" /\ MonNext
    /\ UNCHANGED version

PhilosophersSpec == PhilosophersInit /\ [][PhilosophersNext]_philosophers_vars

-----------------------------------------------------------------------------
(* Neighbours never eat together and no philosopher waits for forks that   *)
(* are free.  With semaphores these count what they stand for; with the    *)
(* monitor one philosopher at a time is active in it, cond_wait returns    *)
(* with its condition true, and the counters are exact (check_sync.c,      *)
(* monitor.c).                                                             *)
PhilosophersOK ==
    /\ version = "semaphore" => SemaOK
    /\ version = "condvar" => MonitorOK

(* With either version every philosopher has its meals and leaves: nobody  *)
(* deadlocks, and no wakeup is lost between up(), down() and the timer.    *)
AllLeave ==
    <>(version \in {"semaphore", "condvar"} =>
           \A i \in Phils : pc[i] = "done" /\ current # i)
=============================================================================
