------------------------------ MODULE MCConsole ------------------------------
(***************************************************************************)
(* From the keyboard to the shell and back to the screen: the console's    *)
(* input (Console), the screen (Cga), the shell that reads lines and runs  *)
(* them (Shell) and the processes that run by their strides (Stride), and  *)
(* the debug monitor's search of the symbol table (Kdebug).  The models    *)
(* share no state: the first state of a behaviour chooses one of them and  *)
(* the others stay in an initial state.                                    *)
(***************************************************************************)
EXTENDS Console, Cga

CONSTANTS
    Chars, BUFSIZE, EXEC_MAX_ARG_NUM, Pids,     \* of Shell
    MaxFiles, MaxFuns, Base, Step,              \* of Kdebug
    Procs, NULL, w, Priorities, MaxWakeups      \* of Stride

VARIABLES
    part,
    buffer, proc, entered, ran, failed,
    program, stabs, addr, readable, asked, info,
    stride, priority, heap, run_pool, proc_num, current, ahead, window, wakeups

(* One letter, both shifts, right control and alt (E0), caps lock, and the *)
(* E0 key that is Del.                                                     *)
MCKeys == {\h1E, \h2A, \h36, \h9D, \h38, \h3A, \hD3}

MCBytes == {"s", "DEL", NO}

ASSUME ScreenAssumption == CgaAssumption

Sh == INSTANCE Shell

Debug == INSTANCE Kdebug

St == INSTANCE Stride

shell_vars == <<buffer, proc, entered, ran, failed>>

debug_vars == <<program, stabs, addr, readable, asked, info>>

stride_vars ==
    <<stride, priority, heap, run_pool, proc_num, current, ahead, window, wakeups>>

all_vars == <<part, vars, screen_vars, shell_vars, debug_vars, stride_vars>>

AllInit ==
    /\ part \in {"console", "screen", "shell", "debug", "stride"}
    /\ Init
    /\ ScreenInit /\ (part # "screen" => crt_pos = 0)
    /\ Sh!Init
    /\ St!Init
    /\ IF part = "debug" THEN Debug!Init
       ELSE /\ program = <<>> /\ stabs = <<>> /\ addr = 0
            /\ readable = FALSE /\ asked = FALSE /\ info = <<>>

ConsoleNext ==
    /\ part = "console"
    /\ Next
    /\ UNCHANGED <<part, screen_vars, shell_vars, debug_vars, stride_vars>>

ScreenNext ==
    /\ part = "screen"
    /\ ScreenStep
    /\ UNCHANGED <<part, vars, shell_vars, debug_vars, stride_vars>>

ShellNext ==
    /\ part = "shell"
    /\ Sh!Next
    /\ UNCHANGED <<part, vars, screen_vars, debug_vars, stride_vars>>

DebugNext ==
    /\ part = "debug"
    /\ Debug!Next
    /\ UNCHANGED <<part, vars, screen_vars, shell_vars, stride_vars>>

StrideNext ==
    /\ part = "stride"
    /\ St!Next
    /\ UNCHANGED <<part, vars, screen_vars, shell_vars, debug_vars>>

AllSpec ==
    /\ AllInit
    /\ [][\/ ConsoleNext \/ ScreenNext \/ ShellNext
          \/ DebugNext \/ StrideNext]_all_vars

-----------------------------------------------------------------------------
(* A line of plain commands is run as it reads, in order and one at a      *)
(* time, and the shell reads on only when all have ended (user/sh.c).      *)
CommandsOK == Sh!CommandsOK

(* The searches of the symbol table agree with the program it was made     *)
(* from (debuginfo_eip, stab_binsearch).                                   *)
DebugInfoOK == Debug!DebugInfoOK

(* The links of the stride scheduler's heap stay those of one tree         *)
(* whatever order processes come and go in, and the process with the least *)
(* true stride is picked although the strides wrap around                  *)
(* (libs/skew_heap.h, proc_stride_comp_f, BIG_STRIDE).                     *)
StrideOK == St!StrideOK
==============================================================================
