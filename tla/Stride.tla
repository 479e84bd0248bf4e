-------------------------------- MODULE Stride --------------------------------
(***************************************************************************)
(* The stride scheduling class, kern/schedule/stride_sched.c, with its run *)
(* queue, the skew heap of libs/skew_heap.h.  A build chooses it instead   *)
(* of round robin.  Strides are words of w bits that wrap around and are   *)
(* compared by the sign of their difference, so that the order of two      *)
(* processes is right only while their true strides are within BIG_STRIDE; *)
(* the model keeps the true strides next to the words.  Time slices, which *)
(* this class counts as round robin does (Sched), are left out.            *)
(***************************************************************************)
EXTENDS Integers, FiniteSets, FiniteSetsExt

CONSTANTS
    Procs,
    NULL,             \* no node; as `current`, the idle process
    w,                \* width of lab6_stride, 32 in the code
    Priorities,       \* arguments of lab6_set_priority
    MaxWakeups        \* bound on calls of wakeup_proc

VARIABLES
    stride,           \* lab6_stride
    priority,         \* lab6_priority
    heap,             \* [parent, left, right]: the nodes' links
    run_pool,         \* rq->lab6_run_pool
    proc_num,
    current,
    ahead,            \* true stride less that of the last runnable process
    window,           \* no process came back further than BIG_STRIDE behind
    wakeups

rq_vars == <<stride, heap, run_pool, proc_num>>

vars == <<rq_vars, priority, current, ahead, window, wakeups>>

(* Faulty variant: one more than the comparison allows.                  *)
BIG_STRIDE_half == 2 ^ (w - 1)

BIG_STRIDE == 2 ^ (w - 1) - 1

(* The difference as an int32_t: negative, zero or positive.                *)
proc_stride_comp_f(s, a, b) ==
    LET d == (s[a] - s[b]) % (2 ^ w)
    IN  IF d = 0 THEN 0 ELSE IF d < 2 ^ (w - 1) THEN 1 ELSE -1

-----------------------------------------------------------------------------
RECURSIVE skew_heap_merge(_, _, _, _)

(* Merges the heaps with roots a and b by the strides s.                    *)
skew_heap_merge(h, s, a, b) ==
    IF a = NULL THEN [h |-> h, root |-> b]
    ELSE IF b = NULL THEN [h |-> h, root |-> a]
    ELSE LET first == proc_stride_comp_f(s, a, b) = -1
             top   == IF first THEN a ELSE b
             m     == IF first THEN skew_heap_merge(h, s, h.right[a], b)
                      ELSE skew_heap_merge(h, s, a, h.right[b])
         IN  [h |-> [m.h EXCEPT !.left[top] = m.root,
                                !.right[top] = h.left[top],
                                !.parent[m.root] = top],
              root |-> top]

skew_heap_insert(h, s, a, b) ==
    skew_heap_merge([h EXCEPT !.parent[b] = NULL, !.left[b] = NULL, !.right[b] = NULL],
                    s, a, b)

skew_heap_remove(h, s, a, b) ==
    LET p   == h.parent[b]
        m   == skew_heap_merge(h, s, h.left[b], h.right[b])
        rep == IF m.root = NULL THEN m.h ELSE [m.h EXCEPT !.parent[m.root] = p]
    IN  IF p = NULL THEN [h |-> rep, root |-> m.root]
        ELSE [h |-> IF rep.left[p] = b THEN [rep EXCEPT !.left[p] = m.root]
                    ELSE [rep EXCEPT !.right[p] = m.root],
              root |-> a]

-----------------------------------------------------------------------------
RunQueue == [heap |-> heap, pool |-> run_pool, num |-> proc_num,
             stride |-> stride]

stride_enqueue(rq, p) ==
    LET m == skew_heap_insert(rq.heap, rq.stride, rq.pool, p)
    IN  [rq EXCEPT !.heap = m.h, !.pool = m.root, !.num = @ + 1]

stride_dequeue(rq, p) ==
    LET m == skew_heap_remove(rq.heap, rq.stride, rq.pool, p)
    IN  [rq EXCEPT !.heap = m.h, !.pool = m.root, !.num = @ - 1]

Pass(p) == IF priority[p] = 0 THEN BIG_STRIDE ELSE BIG_STRIDE \div priority[p]

(* stride_pick_next advances the stride of the process it returns while     *)
(* that is still the root of the heap.                                      *)
stride_pick_next(rq) ==
    [rq EXCEPT !.stride[rq.pool] = (@ + Pass(rq.pool)) % (2 ^ w)]

SetRunQueue(rq) ==
    /\ heap' = rq.heap
    /\ run_pool' = rq.pool
    /\ proc_num' = rq.num
    /\ stride' = rq.stride

-----------------------------------------------------------------------------
Nodes == Procs \cup {NULL}

(* The processes of the run queue: the nodes below its root.                *)
Queued ==
    LET Below(S) == S \cup UNION {{heap.left[p], heap.right[p]} : p \in S \ {NULL}}
        Reach[n \in 0..Cardinality(Procs)] ==
            IF n = 0 THEN {run_pool} ELSE Below(Reach[n - 1])
    IN  Reach[Cardinality(Procs)] \ {NULL}

Runnable == Queued \cup ({current} \ {NULL})

Spread(a, S) == IF S = {} THEN 0 ELSE Max({a[p] : p \in S}) - Min({a[p] : p \in S})

Far == -(BIG_STRIDE + 1)

(* The true strides a, counted from the least among the processes S.  A     *)
(* sleeping process that falls BIG_STRIDE + 1 behind stays Far until it is  *)
(* woken; nothing is kept once the window is left.                          *)
Rebase(a, S, inside) ==
    LET base == Min({a[q] : q \in S})
    IN  [p \in Procs |-> IF ~inside THEN 0
                         ELSE IF S = {} \/ a[p] = Far THEN a[p]
                         ELSE Max({a[p] - base, Far})]

(* stride_init, and processes as alloc_proc leaves them.                    *)
Init ==
    /\ stride = [p \in Procs |-> 0]
    /\ priority = [p \in Procs |-> 0]
    /\ heap = [parent |-> [p \in Nodes |-> NULL], left |-> [p \in Nodes |-> NULL],
               right |-> [p \in Nodes |-> NULL]]
    /\ run_pool = NULL
    /\ proc_num = 0
    /\ current = NULL
    /\ ahead = [p \in Procs |-> 0]
    /\ window = TRUE
    /\ wakeups = 0

(* schedule(): the current process is queued if it can run on (the idle     *)
(* process never is), then the next one is picked and taken out.            *)
schedule(runs) ==
    LET rq1  == IF runs /\ current # NULL THEN stride_enqueue(RunQueue, current)
                ELSE RunQueue
        next == rq1.pool
        rq2  == stride_dequeue(stride_pick_next(rq1), next)
        left == Queued \cup (IF runs THEN {current} \ {NULL} ELSE {})
    IN  /\ current' = next
        /\ SetRunQueue(IF next = NULL THEN rq1 ELSE rq2)
        /\ ahead' = IF next = NULL THEN ahead
                    ELSE Rebase([ahead EXCEPT ![next] = @ + Pass(next)], left, window)
        /\ UNCHANGED <<priority, window, wakeups>>

(* The current process yields or its time slice is used up, which the       *)
(* bookkeeping shared with round robin lets happen at any time.             *)
resched == schedule(TRUE)

(* The current process goes to sleep.                                       *)
sleep == current # NULL /\ schedule(FALSE)

(* wakeup_proc of a process that sleeps or is new.                          *)
wakeup_proc(p) ==
    LET S    == Runnable \cup {p}
        near == window /\ ahead[p] # Far /\ Spread(ahead, S) <= BIG_STRIDE
    IN  /\ wakeups < MaxWakeups
        /\ p \notin Runnable
        /\ wakeups' = wakeups + 1
        /\ SetRunQueue(stride_enqueue(RunQueue, p))
        /\ window' = near
        /\ ahead' = Rebase(ahead, S, near)
        /\ UNCHANGED <<priority, current>>

lab6_set_priority(v) ==
    /\ current # NULL
    /\ priority' = [priority EXCEPT ![current] = IF v = 0 THEN 1 ELSE v]
    /\ UNCHANGED <<rq_vars, current, ahead, window, wakeups>>

Next ==
    \/ resched
    \/ sleep
    \/ \E p \in Procs : wakeup_proc(p)
    \/ \E v \in Priorities : lab6_set_priority(v)

Spec == Init /\ [][Next]_vars

-----------------------------------------------------------------------------
(***************************************************************************)
(* The run queue is one binary tree whatever order processes come and go   *)
(* in: every node below the root points back to its parent, no node is     *)
(* reached twice, the root has no parent, and proc_num counts the nodes    *)
(* (skew_heap_merge, skew_heap_remove, stride_enqueue, stride_dequeue).    *)
(***************************************************************************)
TreeOK ==
    /\ current \notin Queued
    /\ proc_num = Cardinality(Queued)
    /\ run_pool # NULL => heap.parent[run_pool] = NULL
    /\ \A p \in Queued :
          /\ \A c \in {heap.left[p], heap.right[p]} \ {NULL} : heap.parent[c] = p
          /\ heap.left[p] = heap.right[p] => heap.left[p] = NULL
          /\ run_pool \notin {heap.left[p], heap.right[p]}

(***************************************************************************)
(* Proportional sharing survives the wrap-around: as long as no process    *)
(* came into the queue more than BIG_STRIDE behind or ahead of another,    *)
(* the true strides of the processes that can run stay within BIG_STRIDE,  *)
(* and the process stride_pick_next returns, the root, is one with the     *)
(* least true stride (proc_stride_comp_f, BIG_STRIDE).                     *)
(***************************************************************************)
SharesOK ==
    window =>
        /\ Spread(ahead, Runnable) <= BIG_STRIDE
        /\ run_pool # NULL => \A p \in Queued : ahead[run_pool] <= ahead[p]

(* The run queue of the stride class is a heap by true strides.            *)
StrideOK == TreeOK /\ SharesOK

==============================================================================
