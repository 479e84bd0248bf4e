-------------------------------- MODULE Wait --------------------------------
(***************************************************************************)
(* The wait queues of kern/sync/wait.c that semaphores and the standard    *)
(* input sleep on.  A queue is the sequence of the processes whose wait_t  *)
(* is linked in it, the one that came first at the head.                   *)
(***************************************************************************)
EXTENDS Integers, Sequences

(* wait_in_queue.                                                          *)
Linked(q, p) == \E i \in DOMAIN q : q[i] = p

(* wait_current_del: p's wait_t is unlinked unless somebody who woke p has *)
(* done that already.                                                      *)
wait_current_del(q, p) ==
    IF Linked(q, p)
    THEN LET i == CHOOSE i \in DOMAIN q : q[i] = p
         IN  [k \in 1..(Len(q) - 1) |-> IF k < i THEN q[k] ELSE q[k + 1]]
    ELSE q

(* p's wait_t comes before r's.                                            *)
Before(q, p, r) ==
    \E k, l \in DOMAIN q : k < l /\ q[k] = p /\ q[l] = r
=============================================================================
