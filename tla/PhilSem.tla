------------------------------ MODULE PhilSem ------------------------------
(***************************************************************************)
(* The dining philosophers of kern/sync/check_sync.c with semaphores: one  *)
(* for mutual exclusion and one per philosopher, named by its number, on   *)
(* which it waits for its forks.                                           *)
(***************************************************************************)
EXTENDS PhilThreads

SemaLabels ==
    { "take_test",   \* phi_take_forks_sema: phi_test_sema(i)
      "take_leave",  \* up(&mutex)
      "take_wait",   \* down(&s[i])
      "put_left",    \* phi_put_forks_sema: phi_test_sema(LEFT)
      "put_right",   \* phi_test_sema(RIGHT)
      "put_leave" }  \* up(&mutex)

SemaTypeOK == PhilTypeOK(SemaLabels)

SemaInit ==
    /\ PhilInit
    /\ SemInit([s \in Sems |-> IF s = mutex THEN 1 ELSE 0])

(* down(&mutex) of phi_take_forks_sema has returned.                       *)
sema_take_forks ==
    /\ Downed(mutex, "think")
    /\ phil' = [phil EXCEPT ![current] = "HUNGRY"]
    /\ Goto("take_test")
    /\ UNCHANGED iter

phi_test_sema(i) ==
    IF MayEat(i)
    THEN phil' = [phil EXCEPT ![i] = "EATING"] /\ up(i)
    ELSE UNCHANGED <<phil, sched_vars, sem_vars>>

sema_take_test ==
    /\ At("take_test")
    /\ phi_test_sema(current)
    /\ Goto("take_leave")
    /\ UNCHANGED iter

(* Faulty variant of sema_take_leave: mutex is kept.                       *)
sema_take_leave_locked ==
    /\ At("take_leave")
    /\ Goto("take_wait")
    /\ UNCHANGED <<sched_vars, sem_vars, phil, iter>>

sema_take_leave ==
    /\ At("take_leave")
    /\ up(mutex)
    /\ Goto("take_wait")
    /\ UNCHANGED <<phil, iter>>

(* down(&s[i]) has returned.                                               *)
sema_take_done ==
    /\ Downed(current, "take_wait")
    /\ Goto("dine")
    /\ UNCHANGED <<phil, iter>>

(* down(&mutex) of phi_put_forks_sema has returned.                        *)
sema_put_forks ==
    /\ Downed(mutex, "eat")
    /\ phil' = [phil EXCEPT ![current] = "THINKING"]
    /\ Goto("put_left")
    /\ UNCHANGED iter

sema_put_left ==
    /\ At("put_left")
    /\ phi_test_sema(LEFT(current))
    /\ Goto("put_right")
    /\ UNCHANGED iter

sema_put_right ==
    /\ At("put_right")
    /\ phi_test_sema(RIGHT(current))
    /\ Goto("put_leave")
    /\ UNCHANGED iter

sema_put_leave ==
    /\ At("put_leave")
    /\ up(mutex)
    /\ Goto("loop")
    /\ UNCHANGED <<phil, iter>>

(* The three calls of down() that may block, with their semaphore.         *)
sema_block ==
    \E l \in {"think", "eat", "take_wait"} :
        down_wait(IF l = "take_wait" THEN current ELSE mutex, l)

SemaNext ==
    \/ ThreadNext
    \/ sema_take_forks
    \/ sema_take_test
    \/ sema_take_leave
    \/ sema_take_done
    \/ sema_put_forks
    \/ sema_put_left
    \/ sema_put_right
    \/ sema_put_leave
    \/ sema_block

-----------------------------------------------------------------------------
(* The places between down(&mutex) and up(&mutex).                         *)
Inside == {"take_test", "take_leave", "put_left", "put_right", "put_leave"}

HasMutex(i) ==
    \/ pc[i] \in Inside
    \/ pc[i] \in {"think", "eat"} /\ wakeup_flags[i] = "WT_KSEM"

(* The semaphores count what they stand for: mutex has its one permit      *)
(* unless a philosopher is inside or about to enter with a permit handed   *)
(* over, and s[i] has one exactly from the moment i was allowed to eat     *)
(* until it comes back from down(&s[i]).                                   *)
PermitsMatch ==
    /\ Cardinality({i \in Phils : HasMutex(i)}) + value[mutex] = 1
    /\ \A i \in Phils :
          value[i] = 1 <=> /\ phil[i] = "EATING"
                           /\ pc[i] \in {"take_leave", "take_wait"}
                           /\ down_pc[i] = "out"

(* A philosopher that waits for its forks has a neighbour that eats: no    *)
(* one is passed over when forks are put down.                             *)
SemaHungryHasCause ==
    \A i \in Phils :
        phil[i] = "HUNGRY" /\ pc[i] = "take_wait" =>
            \E j \in {LEFT(i), RIGHT(i)} :
                phil[j] = "EATING" \/ pc[j] \in {"put_left", "put_right"}

(* Neighbours never eat together, the semaphores count what they stand     *)
(* for, and no philosopher waits for forks that are free.                  *)
SemaOK ==
    /\ SemaTypeOK
    /\ ForksExclusive
    /\ PermitsMatch
    /\ SemaHungryHasCause
=============================================================================
