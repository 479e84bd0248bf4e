------------------------------- MODULE Timers -------------------------------
(***************************************************************************)
(* What the timer list of kern/schedule/sched.c promises its users: a      *)
(* timer added for n expires at the n-th later call of run_timer_list      *)
(* unless it is deleted first.  DeltaTimers models the list itself, in     *)
(* which each timer counts from the expiry of the one before it, and is    *)
(* checked to implement this module.                                       *)
(*                                                                         *)
(* run_timer_list is a loop that wakes one process per iteration with      *)
(* interrupts off; here it is the steps tick_begin, one tick_fire per      *)
(* expired timer and tick_end, and in_tick holds from the first to the     *)
(* last, so that its users can exclude every other step in between.        *)
(***************************************************************************)
EXTENDS Integers

CONSTANTS
    TimerProcs,  \* processes that may own a timer (one each)
    Times        \* times that timers are started with

VARIABLES
    timer,    \* [TimerProcs -> Nat \cup {NoTimer}]: ticks left
    in_tick   \* run_timer_list is being executed

NoTimer == 0 - 1

TimersTypeOK ==
    /\ timer \in [TimerProcs -> Nat \cup {NoTimer}]
    /\ in_tick \in BOOLEAN

TimersInit ==
    /\ timer = [p \in TimerProcs |-> NoTimer]
    /\ in_tick = FALSE

Expired == {p \in TimerProcs : timer[p] = 0}

(* add_timer for p, which owns none: n calls of run_timer_list from now.   *)
add_timer(p, n) ==
    /\ timer' = [timer EXCEPT ![p] = n]
    /\ UNCHANGED in_tick

(* del_timer: nothing happens if the timer has already expired.            *)
del_timer(p) ==
    /\ timer' = [timer EXCEPT ![p] = NoTimer]
    /\ UNCHANGED in_tick

(* run_timer_list is entered: every timer is one tick nearer.              *)
tick_begin ==
    /\ ~in_tick
    /\ in_tick' = TRUE
    /\ timer' = [p \in TimerProcs |->
                    IF timer[p] = NoTimer THEN NoTimer ELSE timer[p] - 1]

(* One iteration of the loop: p's timer has expired and leaves the list.   *)
tick_fire(p) ==
    /\ in_tick
    /\ p \in Expired
    /\ timer' = [timer EXCEPT ![p] = NoTimer]
    /\ UNCHANGED in_tick

(* The loop ends at the first timer that has not expired.                  *)
tick_end ==
    /\ in_tick
    /\ Expired = {}
    /\ in_tick' = FALSE
    /\ UNCHANGED timer

-----------------------------------------------------------------------------
(* The promise as a specification of its own: processes start timers of    *)
(* one of the given times and drop them when they like, outside            *)
(* run_timer_list.                                                         *)
TimersNext ==
    \/ \E p \in TimerProcs :
          \/ ~in_tick /\ timer[p] = NoTimer /\ \E n \in Times : add_timer(p, n)
          \/ ~in_tick /\ del_timer(p)
          \/ tick_fire(p)
    \/ tick_begin
    \/ tick_end

TimersSpec == TimersInit /\ [][TimersNext]_<<timer, in_tick>>
=============================================================================
