------------------------------ MODULE MCFiles ------------------------------
(* Initproc and two programs, three descriptors each, a root directory     *)
(* with one file, and opens that take each way through vfs_lookup and      *)
(* vfs_open.                                                               *)
EXTENDS Files, TLC

CONSTANTS init, p1, p2

Symm == Permutations({p1, p2})

MCInodes == {"root", "prog"}
MCType == [i \in MCInodes |-> IF i = "root" THEN "dir" ELSE "file"]
MCEntry == [i \in {"root"} |-> [x \in {".", "..", "prog"} |->
              IF x = "prog" THEN "prog" ELSE "root"]]

At(a, n) == [at |-> a, name |-> n]
Flag(a, S) == [acc |-> a, creat |-> "creat" \in S, trunc |-> "trunc" \in S,
               excl |-> "excl" \in S, append |-> "append" \in S]
Open(path, a, S) == [path |-> path, flags |-> Flag(a, S)]

MCExecs == {At("/", "prog"), At(".", "gone"), At(":", None)}
MCOpens == {Open(At("/", "prog"), "rw", {}), Open(At(":", "prog"), "rw", {"creat"}),
            Open(At(".", "prog"), "w", {"creat", "excl"}),
            Open(At("/", "prog"), "r", {"trunc"}),
            Open(At("/", "gone"), "r", {}), Open(At(".", "gone"), "w", {"creat"}),
            Open(At("stdin", "x"), "r", {}), Open(At("stdout", None), "w", {"append"}),
            Open(At("disk1", "prog"), "r", {}), Open(At(":", None), "w", {})}
============================================================================
