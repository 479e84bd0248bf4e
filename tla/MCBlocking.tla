----------------------------- MODULE MCBlocking -----------------------------
(***************************************************************************)
(* Semaphores and what is built on them: processes that call up and down   *)
(* as they like (SemClients) and the dining philosophers of check_sync     *)
(* (Philosophers), on the same scheduler and semaphores.  The first state  *)
(* of a behaviour chooses one of them; what the others keep besides stays  *)
(* as it was.                                                              *)
(***************************************************************************)
EXTENDS SemClients, Philosophers, TLC

MCProcs == Phils \cup {idleproc}

MCSems == Phils \cup {mutex, next}

MCInitialValue == [s \in Sems |-> IF s = mutex THEN 1 ELSE 0]

ASSUME BlockingAssumption ==
    /\ SemClientsAssumption
    /\ PhilAssumption
    /\ PhilMonAssumption

all_vars == <<vars, phil_vars, mon_vars, version>>

NoPhils == phil = <<>> /\ iter = <<>> /\ pc = <<>> /\ NoMonitor

AllInit ==
    \/ Init /\ NoPhils /\ version = "none"
    \/ PhilosophersInit /\ target = [p \in Procs |-> NULL]

ClientsNext ==
    /\ version = "none"
    /\ Next
    /\ UNCHANGED <<phil_vars, mon_vars, version>>

CheckSyncNext == PhilosophersNext /\ UNCHANGED target

(* A timer is due that a philosopher sleeps for.                           *)
PhilTimer(i) ==
    /\ version # "none"
    /\ timer_fire(i)
    /\ UNCHANGED <<target, mon_vars, version>>

(* Threads run, timers expire and the clock ticks.                         *)
FairSpec ==
    /\ AllInit
    /\ [][ClientsNext \/ CheckSyncNext]_all_vars
    /\ WF_all_vars(CheckSyncNext)
    /\ \A i \in Phils : WF_all_vars(PhilTimer(i))
=============================================================================
