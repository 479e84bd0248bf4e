------------------------------- MODULE MCLists -------------------------------
(***************************************************************************)
(* The kernel's lists of processes, each with its own users: the search of *)
(* proc_list for a pid (GetPid), the timer list (DeltaTimers) and the      *)
(* readers that wait for the standard input (Stdin).  They share no state: *)
(* the first state of a behaviour chooses one of them and the others stay  *)
(* in their initial state.                                                 *)
(***************************************************************************)
EXTENDS GetPid, DeltaTimers, Stdin

VARIABLE part

ASSUME ListsAssumption == DeltaTimersAssumption /\ StdinAssumption

lists_vars == <<part, pid_vars, timer_list_vars, vars>>

ListsInit ==
    /\ part \in {"pids", "timers", "stdin"}
    /\ PidInit
    /\ TimerListInit
    /\ Init
    /\ part # "stdin" => current = 1 /\ run_list = <<2, 3>>

PidsNext ==
    /\ part = "pids"
    /\ PidNext
    /\ UNCHANGED <<part, timer_list_vars, vars>>

TimersNext ==
    /\ part = "timers"
    /\ TimerListNext
    /\ UNCHANGED <<part, pid_vars, vars>>

StdinNext ==
    /\ part = "stdin"
    /\ Next
    /\ UNCHANGED <<part, pid_vars, timer_list_vars>>

(* Kernel code that a reader, or the idle process, is in.                  *)
ReaderStep ==
    /\ part = "stdin"
    /\ KernelStep
    /\ UNCHANGED <<part, pid_vars, timer_list_vars>>

ReaderTick ==
    /\ part = "stdin"
    /\ timer_tick
    /\ UNCHANGED <<part, pid_vars, timer_list_vars>>

(* The search for a pid runs with interrupts off: once begun it goes on.   *)
(* Readers' kernel code makes progress between interrupts, and the clock   *)
(* ticks; no one has to press a key.                                       *)
ListsSpec ==
    /\ ListsInit
    /\ [][PidsNext \/ TimersNext \/ StdinNext]_lists_vars
    /\ WF_lists_vars(PidsNext /\ (scan \/ scan_end))
    /\ SF_lists_vars(ReaderStep)
    /\ SF_lists_vars(ReaderTick)

=============================================================================
