----------------------------- MODULE DeltaTimers -----------------------------
(***************************************************************************)
(* The timer list of kern/schedule/sched.c itself.  It is sorted by time   *)
(* of expiry, and the expires field of a timer counts from the expiry of   *)
(* the timer before it, so that a tick touches only the head.              *)
(*                                                                         *)
(* Every operation runs with interrupts off.  The users of the list are    *)
(* processes that own one timer each (do_sleep has it on its stack).       *)
(***************************************************************************)
EXTENDS Integers, Sequences, FiniteSetsExt

CONSTANTS
    TimerProcs,  \* processes that may own a timer
    Times        \* arguments of add_timer

DeltaTimersAssumption == Times \subseteq Nat \ {0}

VARIABLES
    timer_list,  \* sequence of [proc, expires], head first
    in_tick      \* inside run_timer_list

timer_list_vars == <<timer_list, in_tick>>

TimerListTypeOK ==
    /\ timer_list \in Seq([proc : TimerProcs, expires : Nat])
    /\ in_tick \in BOOLEAN

TimerLinked(p) == \E i \in DOMAIN timer_list : timer_list[i].proc = p

Position(p) == CHOOSE i \in DOMAIN timer_list : timer_list[i].proc = p

(* Ticks until the i-th timer expires: its own field and all before it.    *)
DueOf(q) ==
    LET due[k \in 0..Len(q)] == IF k = 0 THEN 0 ELSE due[k - 1] + q[k].expires
    IN  due

Due(i) == DueOf(timer_list)[i]

(* The loop of add_timer passes every timer that is due no later than n,   *)
(* subtracting its expires field, and stops at the first one due later.    *)
Place(n) == Min({i \in DOMAIN timer_list : n < Due(i)} \cup {Len(timer_list) + 1})

(* add_timer: the rest of n goes into the new timer and is taken off the   *)
(* one that it is put before.                                              *)
add_timer(p, n) ==
    LET at   == Place(n)
        rest == n - Due(at - 1)
        new  == [proc |-> p, expires |-> rest]
        tail == SubSeq(timer_list, at, Len(timer_list))
        next == IF tail = <<>> THEN <<>>
                ELSE <<[Head(tail) EXCEPT !.expires = @ - rest]>> \o Tail(tail)
    IN  /\ ~in_tick
        /\ ~TimerLinked(p)
        /\ timer_list' = SubSeq(timer_list, 1, at - 1) \o <<new>> \o next
        /\ UNCHANGED in_tick

(* Faulty variant of Unlinked: the remaining time is dropped.            *)
Unlinked_dropped(i) ==
    SubSeq(timer_list, 1, i - 1) \o SubSeq(timer_list, i + 1, Len(timer_list))

(* The list without its i-th timer, whose remaining time goes to the next. *)
Unlinked(i) ==
    LET tail == SubSeq(timer_list, i + 1, Len(timer_list))
        next == IF tail = <<>> THEN <<>>
                ELSE <<[Head(tail) EXCEPT !.expires = @ + timer_list[i].expires]>>
                        \o Tail(tail)
    IN  SubSeq(timer_list, 1, i - 1) \o next

(* del_timer: a timer that has expired is no longer linked.                *)
del_timer(p) ==
    /\ ~in_tick
    /\ timer_list' = IF TimerLinked(p) THEN Unlinked(Position(p)) ELSE timer_list
    /\ UNCHANGED in_tick

(* run_timer_list up to its loop.                                          *)
tick_begin ==
    /\ ~in_tick
    /\ in_tick' = TRUE
    /\ timer_list' = IF timer_list = <<>> THEN <<>>
                     ELSE [timer_list EXCEPT ![1].expires = @ - 1]

HeadExpired == timer_list # <<>> /\ Head(timer_list).expires = 0

(* An iteration of the loop: the head has expired; its owner is woken.     *)
tick_fire ==
    /\ in_tick
    /\ HeadExpired
    /\ timer_list' = Unlinked(1)
    /\ UNCHANGED in_tick

tick_end ==
    /\ in_tick
    /\ ~HeadExpired
    /\ in_tick' = FALSE
    /\ UNCHANGED timer_list

TimerListInit == timer_list = <<>> /\ in_tick = FALSE

TimerListNext ==
    \/ \E p \in TimerProcs : del_timer(p) \/ \E n \in Times : add_timer(p, n)
    \/ tick_begin
    \/ tick_fire
    \/ tick_end

TimerListSpec == TimerListInit /\ [][TimerListNext]_timer_list_vars

-----------------------------------------------------------------------------
Promise == INSTANCE Timers WITH
    timer <- [p \in TimerProcs |-> IF TimerLinked(p) THEN Due(Position(p)) ELSE 0 - 1]

(* The list does what Timers promises (add_timer, del_timer and            *)
(* run_timer_list of sched.c): whatever timers are added before or after,  *)
(* and whichever are deleted, each one expires at its own time.  That      *)
(* includes the assertion at the start of run_timer_list, that the head    *)
(* has time left, so its decrement never wraps around: in Timers no timer  *)
(* is at 0 between two ticks.                                              *)
TimersPromise == Promise!TimersSpec
=============================================================================
