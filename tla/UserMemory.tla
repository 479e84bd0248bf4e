----------------------------- MODULE UserMemory -----------------------------
(***************************************************************************)
(* What virtual memory promises to programs.  Every process has a memory   *)
(* of its own: a function from the addresses it has touched to what they   *)
(* hold.  exec fills it with the program, fork copies it, exit drops it; a *)
(* read gives what was written last, and only a page that was never        *)
(* touched may hold anything.  No step of one process changes the memory   *)
(* of another, and what the kernel moves behind the scenes is not seen.    *)
(***************************************************************************)
CONSTANTS
    Procs, Addrs, Values,
    Program   \* [name |-> function from the program's addresses to values]

VARIABLES
    mem,      \* [Procs -> functions from a subset of Addrs]
    name      \* [Procs -> the program that runs in it, or ""]

Init == \A p \in Procs : DOMAIN mem[p] = {}

(* p touches address a and leaves v there; a page may join its memory.     *)
Access(p, a, v) ==
    /\ a \in DOMAIN mem'[p]
    /\ mem'[p][a] = v
    /\ DOMAIN mem[p] \subseteq DOMAIN mem'[p]
    /\ \A b \in DOMAIN mem[p] \ {a} : mem'[p][b] = mem[p][b]
    /\ \A q \in Procs \ {p} : mem'[q] = mem[q]
    /\ UNCHANGED name

Write(p, a) == \E v \in Values : Access(p, a, v)

Read(p, a) ==
    /\ a \in DOMAIN mem'[p]
    /\ Access(p, a, IF a \in DOMAIN mem[p] THEN mem[p][a] ELSE mem'[p][a])

Fork(p, c) ==
    /\ DOMAIN mem[c] = {}
    /\ mem' = [mem EXCEPT ![c] = mem[p]]
    /\ name' = [name EXCEPT ![c] = ""]

Exec(p) ==
    /\ name'[p] \in DOMAIN Program \ {name[p]}
    /\ LET image == Program[name'[p]]
       IN  \A a \in DOMAIN image : a \in DOMAIN mem'[p] /\ mem'[p][a] = image[a]
    /\ \A q \in Procs \ {p} : mem'[q] = mem[q] /\ name'[q] = name[q]

Exit(p) ==
    /\ DOMAIN mem'[p] = {}
    /\ \A q \in Procs \ {p} : mem'[q] = mem[q] /\ name'[q] = name[q]

Next ==
    \E p \in Procs :
        \/ Exit(p)
        \/ Exec(p)
        \/ \E c \in Procs \ {p} : Fork(p, c)
        \/ \E a \in Addrs : Read(p, a) \/ Write(p, a)

Spec == Init /\ [][Next]_<<mem, name>>
=============================================================================
