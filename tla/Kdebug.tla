-------------------------------- MODULE Kdebug --------------------------------
(***************************************************************************)
(* Finding the function and the line of an address, kern/debug/kdebug.c.   *)
(* The debugging table is the one a compiler and linker produce for a      *)
(* program of a few files (external, from how debuginfo_eip reads it): a   *)
(* header; for each file two N_SO entries, its functions, each with its    *)
(* parameters and its lines at offsets from the function, and a closing    *)
(* N_SO at the file's end.  The lines of an assembly file have no function *)
(* and absolute addresses.  Names are places in the table.                 *)
(***************************************************************************)
EXTENDS Integers, Sequences, FiniteSets, SequencesExt

CONSTANTS
    MaxFiles,    \* files of a program
    MaxFuns,     \* functions of a file; a file without functions is assembly
    Base,        \* address of the first instruction
    Step         \* bytes of code to a line, and of padding after a file

VARIABLES
    program,     \* a sequence of files
    stabs,       \* its table: a sequence, entry i of the code's at i + 1
    addr,        \* the address asked for
    readable,    \* the table of a user program may be out of reach
    asked,
    info         \* what debuginfo_eip stored, and its return value

vars == <<program, stabs, addr, readable, asked, info>>

(* Every function has a line at its start and, if `lines` is 2, one in the  *)
(* middle.                                                                  *)
FunSize == 2 * Step

CFunctions == [args : 0..1, lines : 1..2]

Files == UNION {[1..n -> CFunctions] : n \in 0..MaxFuns}

Size(f) == IF f = <<>> THEN FunSize ELSE FunSize * Len(f)

Entry(type, value, desc) == [n_type |-> type, n_value |-> value, n_desc |-> desc]

FunEntries(f, i, start) ==
    <<Entry("N_FUN", start + FunSize * (i - 1), 0)>>
      \o [a \in 1..f[i].args |-> Entry("N_PSYM", 8, 0)]
      \o [k \in 1..f[i].lines |-> Entry("N_SLINE", Step * (k - 1), 10 * i + k)]

FileEntries(f, start) ==
    <<Entry("N_SO", start, 0), Entry("N_SO", start, 0)>>
      \o (IF f = <<>> THEN <<Entry("N_SLINE", start, 1), Entry("N_SLINE", start + Step, 2)>>
          ELSE FlattenSeq([i \in 1..Len(f) |-> FunEntries(f, i, start)]))
      \o <<Entry("N_SO", start + Size(f), 0)>>

Start(prog, n) == Base + FoldLeft(LAMBDA a, f : a + Size(f) + Step, 0, SubSeq(prog, 1, n - 1))

Table(prog) ==
    <<Entry("N_UNDF", 0, 0)>>
      \o FlattenSeq([n \in 1..Len(prog) |-> FileEntries(prog[n], Start(prog, n))])

-----------------------------------------------------------------------------
Type(i) == stabs[i + 1].n_type

Value(i) == stabs[i + 1].n_value

RECURSIVE binsearch(_, _)

(* The loop of stab_binsearch; s holds l, r, the region, any_matches and    *)
(* the address, which grows by one after an exact match.                    *)
binsearch(type, s) ==
    LET true_m  == (s.l + s.r) \div 2
        matches == {m \in s.l..true_m : Type(m) = type}
        m       == Max(matches)
    IN  IF s.l > s.r THEN s
        ELSE binsearch(type,
               IF matches = {} THEN [s EXCEPT !.l = true_m + 1]
               ELSE IF Value(m) < s.addr
               THEN [s EXCEPT !.any = TRUE, !.left = m, !.l = true_m + 1]
               ELSE IF Value(m) > s.addr
               THEN [s EXCEPT !.any = TRUE, !.right = m - 1, !.r = m - 1]
               ELSE [s EXCEPT !.any = TRUE, !.left = m, !.l = m, !.addr = @ + 1])

stab_binsearch(left, right, type, a) ==
    LET s    == binsearch(type, [l |-> left, r |-> right, left |-> left,
                                 right |-> right, any |-> FALSE, addr |-> a])
        last == {i \in (s.left + 1)..s.right : Type(i) = type}
    IN  IF ~s.any THEN [left |-> left, right |-> left - 1]
        ELSE [left  |-> IF last # {} THEN Max(last)
                        ELSE IF s.right < s.left THEN s.right ELSE s.left,
              right |-> s.right]

Nothing == [ret |-> -1, fn |-> -1, fn_addr |-> addr, narg |-> 0, line |-> 0,
            file |-> -1]

(* Entries behind a function's that are its parameters.                     *)
Params(fun) ==
    LET P == {i \in (fun.left + 1)..(fun.right - 1) :
                 \A j \in (fun.left + 1)..i : Type(j) = "N_PSYM"}
    IN  Cardinality(P)

(* Faulty variant: the lines of a function are looked up by absolute address. *)
line_search_absolute(fun, file) ==
    IF fun.left <= fun.right
    THEN stab_binsearch(fun.left, fun.right, "N_SLINE", addr)
    ELSE stab_binsearch(file.left, file.right, "N_SLINE", addr)

(* The third search: in the function with the offset, else in the file.     *)
line_search(fun, file) ==
    IF fun.left <= fun.right
    THEN stab_binsearch(fun.left, fun.right, "N_SLINE", addr - Value(fun.left))
    ELSE stab_binsearch(file.left, file.right, "N_SLINE", addr)

(* The nearest entry before the line that names a source file.              *)
file_search(line, file) ==
    LET named == {i \in file.left..line : \/ Type(i) = "N_SOL"
                                          \/ Type(i) = "N_SO" /\ Value(i) # 0}
    IN  IF named = {} THEN -1 ELSE Max(named)

debuginfo_eip ==
    LET file == stab_binsearch(0, Len(stabs) - 1, "N_SO", addr)
        fun  == stab_binsearch(file.left, file.right, "N_FUN", addr)
        line == line_search(fun, file)
        some == IF fun.left <= fun.right
                THEN [Nothing EXCEPT !.fn = fun.left, !.fn_addr = Value(fun.left)]
                ELSE Nothing
    IN  IF ~readable \/ file.left = 0 THEN Nothing
        ELSE IF line.left > line.right THEN some
        ELSE [some EXCEPT !.ret = 0,
                          !.line = stabs[line.right + 1].n_desc,
                          !.file = file_search(line.left, file),
                          !.narg = IF fun.left < fun.right THEN Params(fun) ELSE 0]

-----------------------------------------------------------------------------
Init ==
    /\ program \in UNION {[1..n -> Files] : n \in 1..MaxFiles}
    /\ stabs = Table(program)
    /\ addr \in 0..Start(program, Len(program) + 1)
    /\ readable \in BOOLEAN
    /\ asked = FALSE
    /\ info = Nothing

ask ==
    /\ ~asked
    /\ asked' = TRUE
    /\ info' = debuginfo_eip
    /\ UNCHANGED <<program, stabs, addr, readable>>

Next == ask

Spec == Init /\ [][Next]_vars

-----------------------------------------------------------------------------
(* The file of the program that holds the address, as a set.                *)
Holding == {n \in 1..Len(program) :
               addr - Start(program, n) \in 0..(Size(program[n]) - 1)}

(* The line that the program has at the address, in file n.                 *)
LineAt(n) ==
    LET f   == program[n]
        off == addr - Start(program, n)
        i   == off \div FunSize + 1
        k   == (off % FunSize) \div Step + 1
    IN  IF f = <<>> THEN k ELSE 10 * i + (IF k <= f[i].lines THEN k ELSE 1)

(***************************************************************************)
(* The searches by halving agree with the program: an address of a C file  *)
(* gives its function, line and number of parameters, one of an assembly   *)
(* file its line and no function; the answer names the file.  There is one *)
(* for exactly the addresses of the files (debuginfo_eip, stab_binsearch). *)
(***************************************************************************)
DebugInfoOK ==
    asked =>
        /\ (info.ret = 0) = (readable /\ Holding # {})
        /\ info.ret = 0 => \A n \in Holding :
              LET f == program[n]
                  i == (addr - Start(program, n)) \div FunSize + 1
              IN  /\ Value(info.file) = Start(program, n)
                  /\ info.line = LineAt(n)
                  /\ f = <<>> => info.fn = -1
                  /\ f # <<>> => /\ Type(info.fn) = "N_FUN"
                                 /\ info.fn_addr = Start(program, n) + FunSize * (i - 1)
                                 /\ info.narg = f[i].args

(***************************************************************************)
(* What the comment on stab_binsearch promises: the entry it finds is the  *)
(* matching one that contains the address, here the entry of the line.     *)
(***************************************************************************)
FindsContaining ==
    asked /\ info.ret = 0 => \A n \in Holding : info.line = LineAt(n)

==============================================================================
