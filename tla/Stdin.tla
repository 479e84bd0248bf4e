-------------------------------- MODULE Stdin --------------------------------
(***************************************************************************)
(* The standard input device, kern/fs/devs/dev_stdin.c: the keyboard       *)
(* interrupt puts characters into a ring and wakes all readers; a reader   *)
(* sleeps on the device's wait queue while the ring is empty.  Processes   *)
(* read, are killed and preempted as in Proc; their parents, children and  *)
(* timers are left out.                                                    *)
(*                                                                         *)
(* A character is the number of the key press that made it.  The steps at  *)
(* "read_loop" are those of dev_stdin_read with interrupts off.            *)
(***************************************************************************)
EXTENDS Sched, Wait

CONSTANTS
    STDIN_BUFSIZE,
    Lens,      \* lengths of reads
    MaxKeys,   \* bound on the number of key presses
    NULL       \* no process

StdinAssumption ==
    /\ IsFiniteSet(Procs)
    /\ STDIN_BUFSIZE \in Nat \ {0}
    /\ Lens \subseteq Nat \ {0}
    /\ MaxKeys \in Nat
    /\ NULL \notin Procs

VARIABLES
    stdin_buffer,  \* [0..(STDIN_BUFSIZE - 1) -> 0..MaxKeys]
    p_rpos,
    p_wpos,
    wait_queue,    \* readers in the order they came
    wakeup_flags,  \* [Procs -> Flags]: of the wait_t in dev_stdin_read
    len,           \* [Procs -> Nat]: argument of the read p is in
    ret,           \* [Procs -> Nat]: characters it has got so far
    exiting,       \* [Procs -> BOOLEAN]: PF_EXITING
    victim,        \* [Procs -> Procs \cup {NULL}]: whom do_kill is about to wake
    pc,
    keys,          \* number of keys pressed
    delivered      \* history: the characters that readers got

ring_vars == <<stdin_buffer, p_rpos, p_wpos, keys, delivered>>

call_vars == <<wait_queue, wakeup_flags, len, ret>>

kill_vars == <<exiting, victim>>

vars == <<sched_vars, ring_vars, call_vars, kill_vars, pc>>

Flags == {"NONE", "WT_INTERRUPTED", "WT_KBD"}

Labels == {"user", "ret", "read_loop", "read_sched", "read_woken", "kill_wake",
           "exit_sched", "dead", "idle"}

Users == Procs \ {idleproc}

TypeOK ==
    /\ SchedTypeOK
    /\ stdin_buffer \in [0..(STDIN_BUFSIZE - 1) -> 0..MaxKeys]
    /\ p_rpos \in Nat
    /\ p_wpos \in Nat
    /\ wait_queue \in Seq(Procs)
    /\ wakeup_flags \in [Procs -> Flags]
    /\ len \in [Procs -> Nat]
    /\ ret \in [Procs -> Nat]
    /\ exiting \in [Procs -> BOOLEAN]
    /\ victim \in [Procs -> Procs \cup {NULL}]
    /\ pc \in [Procs -> Labels]
    /\ keys \in 0..MaxKeys
    /\ delivered \in Seq(1..MaxKeys)

(* stdin_device_init; the processes have been forked and can run.          *)
Init ==
    /\ state = [p \in Procs |-> "RUNNABLE"]
    /\ wait_state = [p \in Procs |-> "NONE"]
    /\ need_resched = [p \in Procs |-> FALSE]
    /\ time_slice = [p \in Procs |-> IF p = idleproc THEN 0 ELSE MaxTimeSlice]
    /\ current \in Users
    /\ run_list \in [1..(Cardinality(Users) - 1) -> Users \ {current}]
    /\ RunListDistinct
    /\ stdin_buffer = [k \in 0..(STDIN_BUFSIZE - 1) |-> 0]
    /\ p_rpos = 0
    /\ p_wpos = 0
    /\ wait_queue = <<>>
    /\ wakeup_flags = [p \in Procs |-> "NONE"]
    /\ len = [p \in Procs |-> 0]
    /\ ret = [p \in Procs |-> 0]
    /\ exiting = [p \in Procs |-> FALSE]
    /\ victim = [p \in Procs |-> NULL]
    /\ pc = [p \in Procs |-> IF p = idleproc THEN "idle" ELSE "user"]
    /\ keys = 0
    /\ delivered = <<>>

-----------------------------------------------------------------------------
At(l) == pc[current] = l

Goto(l) == pc' = [pc EXCEPT ![current] = l]

IntrOn == ~At("read_loop")

InQueue(p) == Linked(wait_queue, p)

(* Faulty variant of wakeup_queue: wakeup_first.                         *)
wakeup_queue_first ==
    IF wait_queue = <<>>
    THEN UNCHANGED <<wait_queue, wakeup_flags, state, wait_state, run_list, time_slice>>
    ELSE /\ wait_queue' = Tail(wait_queue)
         /\ wakeup_flags' = [wakeup_flags EXCEPT ![Head(wait_queue)] = "WT_KBD"]
         /\ wakeup_proc(state, Head(wait_queue))

(* wakeup_queue(wait_queue, WT_KBD, 1): every reader leaves the queue and  *)
(* is woken, unless it is runnable already.                                *)
wakeup_queue ==
    LET sleepers == {p \in Procs : InQueue(p) /\ state[p] # "RUNNABLE"}
        others   == sleepers \ {current}
    IN  /\ wait_queue' = <<>>
        /\ wakeup_flags' = [p \in Procs |-> IF InQueue(p) THEN "WT_KBD" ELSE wakeup_flags[p]]
        /\ state' = [p \in Procs |-> IF p \in sleepers THEN "RUNNABLE" ELSE state[p]]
        /\ wait_state' = [p \in Procs |-> IF p \in sleepers THEN "NONE" ELSE wait_state[p]]
        /\ time_slice' = [p \in Procs |-> IF p \in others THEN Refill(time_slice[p])
                                          ELSE time_slice[p]]
        /\ \E woken \in [1..Cardinality(others) -> others] :
              /\ \A i, j \in DOMAIN woken : i < j => Before(wait_queue, woken[i], woken[j])
              /\ run_list' = run_list \o woken

(* The keyboard interrupt, dev_stdin_write: when the ring is full the new  *)
(* character takes the place of the oldest one.                            *)
dev_stdin_write ==
    /\ IntrOn
    /\ keys < MaxKeys
    /\ keys' = keys + 1
    /\ stdin_buffer' = [stdin_buffer EXCEPT ![p_wpos % STDIN_BUFSIZE] = keys + 1]
    /\ p_wpos' = IF p_wpos - p_rpos < STDIN_BUFSIZE THEN p_wpos + 1 ELSE p_wpos
    /\ wakeup_queue
    /\ pc' = IF At("user") THEN [pc EXCEPT ![current] = "ret"] ELSE pc
    /\ UNCHANGED <<need_resched, current, p_rpos, delivered, len, ret, kill_vars>>

-----------------------------------------------------------------------------
(* SYS_read on stdin reaches dev_stdin_read.                               *)
sys_read(n) ==
    /\ At("user")
    /\ len' = [len EXCEPT ![current] = n]
    /\ ret' = [ret EXCEPT ![current] = 0]
    /\ Goto("read_loop")
    /\ UNCHANGED <<sched_vars, ring_vars, wait_queue, wakeup_flags, kill_vars>>

(* dev_stdin_read takes the oldest character.                              *)
read_char ==
    /\ At("read_loop")
    /\ ret[current] < len[current]
    /\ p_rpos < p_wpos
    /\ delivered' = Append(delivered, stdin_buffer[p_rpos % STDIN_BUFSIZE])
    /\ p_rpos' = p_rpos + 1
    /\ ret' = [ret EXCEPT ![current] = @ + 1]
    /\ UNCHANGED <<sched_vars, stdin_buffer, p_wpos, keys, wait_queue,
                   wakeup_flags, len, kill_vars, pc>>

(* ... finds the ring empty: wait_current_set.                             *)
read_block ==
    /\ At("read_loop")
    /\ ret[current] < len[current]
    /\ p_rpos >= p_wpos
    /\ set_waiting("WT_KBD")
    /\ wait_queue' = Append(wait_queue, current)
    /\ wakeup_flags' = [wakeup_flags EXCEPT ![current] = "WT_INTERRUPTED"]
    /\ Goto("read_sched")
    /\ UNCHANGED <<need_resched, time_slice, current, run_list, ring_vars, len,
                   ret, kill_vars>>

(* ... has got all it wants.                                               *)
read_done ==
    /\ At("read_loop")
    /\ ret[current] >= len[current]
    /\ Goto("ret")
    /\ UNCHANGED <<sched_vars, ring_vars, call_vars, kill_vars>>

read_sched ==
    /\ At("read_sched")
    /\ schedule
    /\ Goto("read_woken")
    /\ UNCHANGED <<ring_vars, call_vars, kill_vars>>

(* Faulty variant of read_woken: the read goes on whatever woke the reader. *)
read_woken_insists ==
    /\ At("read_woken")
    /\ wait_queue' = wait_current_del(wait_queue, current)
    /\ wakeup_flags' = [wakeup_flags EXCEPT ![current] = "NONE"]
    /\ Goto("read_loop")
    /\ UNCHANGED <<sched_vars, ring_vars, len, ret, kill_vars>>

(* After schedule(): wait_current_del, then try again if it was a key that *)
(* woke the reader, else return what there is.                             *)
read_woken ==
    /\ At("read_woken")
    /\ wait_queue' = wait_current_del(wait_queue, current)
    /\ wakeup_flags' = [wakeup_flags EXCEPT ![current] = "NONE"]
    /\ Goto(IF wakeup_flags[current] = "WT_KBD" THEN "read_loop" ELSE "ret")
    /\ UNCHANGED <<sched_vars, ring_vars, len, ret, kill_vars>>

-----------------------------------------------------------------------------
(* do_kill in its two halves, as in Proc.                                  *)
do_kill(t) ==
    /\ At("user")
    /\ ~exiting[t]
    /\ exiting' = [exiting EXCEPT ![t] = TRUE]
    /\ IF wait_state[t] \in WT_INTERRUPTED
       THEN victim' = [victim EXCEPT ![current] = t] /\ Goto("kill_wake")
       ELSE UNCHANGED victim /\ Goto("ret")
    /\ UNCHANGED <<sched_vars, ring_vars, call_vars>>

kill_wake ==
    /\ At("kill_wake")
    /\ wakeup_proc(state, victim[current])
    /\ victim' = [victim EXCEPT ![current] = NULL]
    /\ Goto("ret")
    /\ UNCHANGED <<need_resched, current, ring_vars, call_vars, exiting>>

(* The end of trap() for a trap from user mode, with do_exit.              *)
trap_return ==
    /\ At("ret")
    /\ IF exiting[current]
       THEN /\ state' = [state EXCEPT ![current] = "ZOMBIE"]
            /\ Goto("exit_sched")
            /\ UNCHANGED <<wait_state, need_resched, time_slice, current, run_list>>
       ELSE /\ Goto("user")
            /\ IF need_resched[current] THEN schedule ELSE UNCHANGED sched_vars
    /\ UNCHANGED <<ring_vars, call_vars, kill_vars>>

exit_sched ==
    /\ At("exit_sched")
    /\ schedule
    /\ Goto("dead")
    /\ UNCHANGED <<ring_vars, call_vars, kill_vars>>

(* The timer interrupt.                                                    *)
timer_tick ==
    /\ IntrOn
    /\ sched_class_proc_tick
    /\ pc' = IF At("user") THEN [pc EXCEPT ![current] = "ret"] ELSE pc
    /\ UNCHANGED <<ring_vars, call_vars, kill_vars>>

cpu_idle ==
    /\ At("idle")
    /\ need_resched[current]
    /\ schedule
    /\ UNCHANGED <<ring_vars, call_vars, kill_vars, pc>>

KernelStep ==
    \/ read_char
    \/ read_block
    \/ read_done
    \/ read_sched
    \/ read_woken
    \/ kill_wake
    \/ trap_return
    \/ exit_sched
    \/ cpu_idle

Next ==
    \/ KernelStep
    \/ dev_stdin_write
    \/ timer_tick
    \/ \E n \in Lens : sys_read(n)
    \/ \E t \in Users : do_kill(t)

Spec == Init /\ [][Next]_vars

(* Kernel code makes progress between interrupts, and the clock ticks.  No *)
(* one has to press a key.                                                 *)
FairSpec == Spec /\ SF_vars(KernelStep) /\ SF_vars(timer_tick)

-----------------------------------------------------------------------------
(* The positions never cross or drift further apart than the ring is long, *)
(* whatever the order of key presses and reads.                            *)
RingOK == p_rpos <= p_wpos /\ p_wpos <= p_rpos + STDIN_BUFSIZE

(* Each key press is delivered at most once, to one reader; and as long as *)
(* the ring has never been full, in the order of the presses and without a *)
(* gap, even with several readers.                                         *)
DeliveredOnce ==
    /\ \A i, j \in DOMAIN delivered : delivered[i] = delivered[j] => i = j
    /\ p_wpos = keys => delivered = [i \in 1..p_rpos |-> i]

(* The ring as a whole.                                                    *)
KeysDelivered ==
    /\ TypeOK
    /\ RingOK
    /\ DeliveredOnce

(* No reader sleeps while there is a character for it: there is no gap     *)
(* between the look at the ring and the sleep, and every key wakes all     *)
(* readers.                                                                *)
NoLostKey == \A p \in Procs : wait_state[p] = "WT_KBD" => p_rpos = p_wpos

(* A reader's wait_t, which lives on its stack, is in the queue only while *)
(* the reader is between wait_current_set and wait_current_del, and a      *)
(* sleeping reader's always is, so that the next key finds it.             *)
ReadersQueued ==
    /\ \A i, j \in DOMAIN wait_queue : wait_queue[i] = wait_queue[j] => i = j
    /\ \A p \in Procs :
          /\ InQueue(p) => pc[p] \in {"read_sched", "read_woken"}
          /\ wait_state[p] = "WT_KBD" => InQueue(p)

(* A read comes back with less than was asked for only if the reader has   *)
(* been killed.                                                            *)
ShortReadKilled ==
    \A p \in Users : pc[p] = "ret" /\ ret[p] < len[p] => exiting[p]

(* The waiting of readers as a whole, together with the run queue: a key   *)
(* or a kill, in any order, wakes every reader it should and none twice,   *)
(* and only a kill ends a read early.                                      *)
ReadersOK ==
    /\ RunQueueOK
    /\ NoLostKey
    /\ ReadersQueued
    /\ ShortReadKilled

(* Each key press is delivered at most once, in order and without a gap as *)
(* long as the ring has not been full; no reader sleeps while there is a   *)
(* character for it, each one is in the queue exactly while it waits, and  *)
(* a read that comes back short was killed (dev_stdin_write,               *)
(* dev_stdin_read, wakeup_queue, do_kill).                                 *)
StdinOK == KeysDelivered /\ ReadersOK

(* A reader that is killed while it sleeps exits, unless a key comes in    *)
(* before it runs: then it goes on reading (do_kill, dev_stdin_read).      *)
KilledReaderExits ==
    \A p \in Users :
        exiting[p] /\ pc[p] = "read_woken" /\ state[p] = "RUNNABLE"
            ~> state[p] = "ZOMBIE" \/ wakeup_flags[p] = "WT_KBD"
=============================================================================
