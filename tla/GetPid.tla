------------------------------- MODULE GetPid -------------------------------
(***************************************************************************)
(* get_pid of kern/process/proc.c: the search for an unused process id.    *)
(* Two static variables make most calls cheap: after a call, no pid        *)
(* strictly between last_pid and next_safe is in use, so the next call may *)
(* return last_pid + 1 without looking at proc_list.  Processes leave      *)
(* proc_list at any time between two calls.                                *)
(*                                                                         *)
(* do_fork calls get_pid and links the process with interrupts off; the    *)
(* steps below are the iterations of its loop.                             *)
(***************************************************************************)
EXTENDS Integers, Sequences

CONSTANTS MAX_PID, MAX_PROCESS

(* static_assert(MAX_PID > MAX_PROCESS); idleproc and initproc exist.      *)
ASSUME GetPidAssumption ==
    /\ MAX_PID \in Nat
    /\ MAX_PROCESS \in Nat
    /\ MAX_PROCESS > 1
    /\ MAX_PID > MAX_PROCESS

VARIABLES
    last_pid,
    next_safe,
    proc_list,  \* pids of the linked processes, newest first (idleproc is not linked)
    stage,      \* "ready", "scan" or "found"
    i           \* position of the scan in proc_list

pid_vars == <<last_pid, next_safe, proc_list, stage, i>>

Pids == 1..(MAX_PID - 1)

PidTypeOK ==
    /\ last_pid \in 1..MAX_PID
    /\ next_safe \in 1..MAX_PID
    /\ proc_list \in Seq(Pids)
    /\ stage \in {"ready", "scan", "found"}
    /\ i \in 1..(Len(proc_list) + 1)

PidInit ==
    /\ last_pid = MAX_PID
    /\ next_safe = MAX_PID
    /\ proc_list = <<>>
    /\ stage = "ready"
    /\ i = 1

(* The label inside: the scan starts with no upper limit but MAX_PID.      *)
inside(last) ==
    /\ last_pid' = last
    /\ next_safe' = MAX_PID
    /\ i' = 1
    /\ stage' = "scan"

(* Faulty variant of get_pid: next_safe is not looked at.                *)
get_pid_unsafe ==
    /\ stage = "ready"
    /\ Len(proc_list) + 1 < MAX_PROCESS
    /\ UNCHANGED proc_list
    /\ \/ /\ last_pid + 1 >= MAX_PID
          /\ inside(1)
       \/ /\ last_pid + 1 < MAX_PID
          /\ last_pid' = last_pid + 1
          /\ stage' = "found"
          /\ UNCHANGED <<next_safe, i>>

(* The call, up to the loop.  nr_process counts idleproc too, and do_fork  *)
(* has checked it.                                                         *)
get_pid ==
    /\ stage = "ready"
    /\ Len(proc_list) + 1 < MAX_PROCESS
    /\ UNCHANGED proc_list
    /\ \/ /\ last_pid + 1 >= MAX_PID
          /\ inside(1)
       \/ /\ last_pid + 1 < MAX_PID
          /\ last_pid + 1 >= next_safe
          /\ inside(last_pid + 1)
       \/ /\ last_pid + 1 < MAX_PID
          /\ last_pid + 1 < next_safe
          /\ last_pid' = last_pid + 1
          /\ stage' = "found"
          /\ UNCHANGED <<next_safe, i>>

(* Faulty variant of scan: next_safe is not lowered.                     *)
scan_forgetful ==
    /\ stage = "scan"
    /\ i <= Len(proc_list)
    /\ last_pid' = IF proc_list[i] = last_pid THEN last_pid + 1 ELSE last_pid
    /\ i' = i + 1
    /\ UNCHANGED <<next_safe, proc_list, stage>>

(* Faulty variant of scan: the repeated search starts with the same pid. *)
scan_stuck ==
    /\ stage = "scan"
    /\ i <= Len(proc_list)
    /\ UNCHANGED proc_list
    /\ LET pid == proc_list[i]
       IN  \/ pid = last_pid /\ inside(last_pid)
           \/ /\ pid # last_pid
              /\ next_safe' = IF pid > last_pid /\ next_safe > pid
                              THEN pid ELSE next_safe
              /\ i' = i + 1
              /\ UNCHANGED <<last_pid, stage>>

(* One process of the list: its pid is taken, or it lowers next_safe.      *)
scan ==
    /\ stage = "scan"
    /\ i <= Len(proc_list)
    /\ UNCHANGED proc_list
    /\ LET pid == proc_list[i]
       IN  \/ /\ pid = last_pid
              /\ last_pid + 1 >= next_safe
              /\ inside(IF last_pid + 1 >= MAX_PID THEN 1 ELSE last_pid + 1)
           \/ /\ pid = last_pid
              /\ last_pid + 1 < next_safe
              /\ last_pid' = last_pid + 1
              /\ i' = i + 1
              /\ UNCHANGED <<next_safe, stage>>
           \/ /\ pid # last_pid
              /\ next_safe' = IF pid > last_pid /\ next_safe > pid
                              THEN pid ELSE next_safe
              /\ i' = i + 1
              /\ UNCHANGED <<last_pid, stage>>

scan_end ==
    /\ stage = "scan"
    /\ i = Len(proc_list) + 1
    /\ stage' = "found"
    /\ UNCHANGED <<last_pid, next_safe, proc_list, i>>

(* do_fork after get_pid: list_add(&proc_list, ...) in set_links.          *)
set_links ==
    /\ stage = "found"
    /\ proc_list' = <<last_pid>> \o proc_list
    /\ stage' = "ready"
    /\ i' = 1
    /\ UNCHANGED <<last_pid, next_safe>>

(* do_wait frees a dead process: list_del in remove_links.                 *)
remove_links(k) ==
    /\ stage = "ready"
    /\ proc_list' = SubSeq(proc_list, 1, k - 1)
                        \o SubSeq(proc_list, k + 1, Len(proc_list))
    /\ i' = 1
    /\ UNCHANGED <<last_pid, next_safe, stage>>

PidNext ==
    \/ get_pid
    \/ scan
    \/ scan_end
    \/ set_links
    \/ \E k \in 1..Len(proc_list) : remove_links(k)

PidSpec == PidInit /\ [][PidNext]_pid_vars

PidFairSpec == PidSpec /\ WF_pid_vars(scan \/ scan_end)

-----------------------------------------------------------------------------
Used(pid) == \E k \in 1..Len(proc_list) : proc_list[k] = pid

(* No pid between last_pid and next_safe is in use: what lets the next     *)
(* call return without a scan.  Processes exit in any order, but only      *)
(* get_pid hands out pids, in increasing order up to the wrap-around.      *)
CacheSafe ==
    stage # "scan" => \A pid \in Pids : Used(pid) /\ pid > last_pid => pid >= next_safe

(* What the scan knows about the part of the list behind it, although      *)
(* last_pid may have moved on since: none of those pids is last_pid, nor   *)
(* between it and next_safe.                                               *)
ScanSafe ==
    stage = "scan" =>
        /\ \A k \in 1..(i - 1) : /\ proc_list[k] # last_pid
                                 /\ proc_list[k] > last_pid => proc_list[k] >= next_safe
        /\ last_pid < next_safe

(* The pid that get_pid returns is a valid pid that no process has.        *)
ReturnsUnused == stage = "found" => last_pid \in Pids /\ ~Used(last_pid)

(* The search as a whole: its types, what the cached next_safe and the     *)
(* scan so far mean, and that what is returned is unused.                  *)
SearchOK ==
    /\ PidTypeOK
    /\ CacheSafe
    /\ ScanSafe
    /\ ReturnsUnused

(* Two processes never have the same pid: the comment on get_pid asks      *)
(* whether its result is globally unique.                                  *)
PidsUnique ==
    \A j, k \in 1..Len(proc_list) : proc_list[j] = proc_list[k] => j = k

(* The search ends, because there are more pids than processes.            *)
SearchEnds == stage = "scan" ~> stage = "found"
=============================================================================
