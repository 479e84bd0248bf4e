-------------------------------- MODULE Shell --------------------------------
(***************************************************************************)
(* The user shell, user/sh.c: readline collects a line, main forks a       *)
(* process that runs it (runcmd) and waits for it; runcmd cuts the line    *)
(* into tokens, forks a process for every command that ends in ";", which  *)
(* it waits for, and turns into the last one by exec.  The "|" of the code *)
(* has no pipe behind it: its descriptors are never set.                   *)
(*                                                                         *)
(* A line is a sequence of characters; "Q" is the double quote, "BS" the   *)
(* backspace, "LF" the end of a line, and the word "c" stands for "cd".    *)
(***************************************************************************)
EXTENDS Integers, Sequences, FiniteSets, SequencesExt

CONSTANTS
    Chars,             \* the characters that are typed
    BUFSIZE,
    EXEC_MAX_ARG_NUM,
    Pids               \* process slots; the least is the shell's

VARIABLES
    buffer,    \* the line read so far
    proc,      \* [Pids -> process]
    entered,   \* a line was entered: the model reads one
    ran,       \* history: its commands, in the order they began
    failed     \* history: a fork failed

vars == <<buffer, proc, entered, ran, failed>>

WHITESPACE == {" "}

SYMBOLS == {"<", "|", ">", "&", ";"}

(* pc "free" is an unused slot, "readline" the shell's prompt, "parse" the  *)
(* loop of runcmd, "runit" its label, "wait" a waitpid, "command" a program *)
(* after exec, "dead" an exited process whose parent has not waited yet.    *)
Free == [pc |-> "free", cmd |-> <<>>, argv |-> <<>>, child |-> 0, then |-> "free"]

shell == Min(Pids)

Init ==
    /\ buffer = <<>>
    /\ proc = [q \in Pids |-> IF q = shell THEN [Free EXCEPT !.pc = "readline"] ELSE Free]
    /\ entered = FALSE
    /\ ran = <<>>
    /\ failed = FALSE

-----------------------------------------------------------------------------
(* Where the token at the front of s ends: a symbol is one character; a     *)
(* word ends before a separator that is not between quotes.                 *)
Parity(s, i) == Cardinality({j \in 1..(i - 1) : s[j] = "Q"}) % 2

EndOfWord(s) ==
    LET stops == {i \in 1..Len(s) : s[i] \in WHITESPACE \cup SYMBOLS /\ Parity(s, i) = 0}
    IN  IF stops = {} THEN Len(s) ELSE Min(stops) - 1

Unquote(word) == [i \in DOMAIN word |-> IF word[i] = "Q" THEN " " ELSE word[i]]

(* The token at the start of s after white space: its kind, its text, and   *)
(* what is left.                                                            *)
gettoken(s) ==
    LET text == {i \in 1..Len(s) : s[i] \notin WHITESPACE}
        t    == SubSeq(s, Min(text), Len(s))
        n    == EndOfWord(t)
    IN  IF text = {} THEN [token |-> "0", word |-> <<>>, rest |-> <<>>]
        ELSE IF t[1] \in SYMBOLS
        THEN [token |-> t[1], word |-> <<>>, rest |-> Tail(t)]
        ELSE [token |-> "w", word |-> Unquote(SubSeq(t, 1, n)),
              rest |-> SubSeq(t, n + 1, Len(t))]

(* readline takes one character: printable ones up to the buffer's end, a   *)
(* backspace; the others have no effect.                                    *)
edit(c) ==
    IF c \notin {"BS", "LF"} /\ Len(buffer) < BUFSIZE - 1 THEN Append(buffer, c)
    ELSE IF c = "BS" /\ buffer # <<>> THEN Front(buffer) ELSE buffer

readline(c) ==
    /\ proc[shell].pc = "readline"
    /\ ~entered
    /\ c # "LF"
    /\ buffer' = edit(c)
    /\ UNCHANGED <<proc, entered, ran, failed>>

(* Ctrl-C, a failing read, or the end of the input on an empty line:        *)
(* readline returns NULL and main, the loop of the shell, returns.          *)
readline_end ==
    /\ proc[shell].pc = "readline"
    /\ proc' = [proc EXCEPT ![shell].pc = "dead"]
    /\ UNCHANGED <<buffer, entered, ran, failed>>

-----------------------------------------------------------------------------
FreePids == {q \in Pids : proc[q].pc = "free"}

(* A process exits.  A parent that still lives keeps it as "dead" until it  *)
(* waits; the slot of any other goes to init.                               *)
Exit(f, q) ==
    LET waited == \E r \in Pids : f[r].pc = "wait" /\ f[r].child = q
    IN  [f EXCEPT ![q] = IF waited THEN [Free EXCEPT !.pc = "dead"] ELSE Free]

(* The end of a line, or of the input behind some characters: fork, and     *)
(* waitpid in the parent; the child has its own copy of the line.  The      *)
(* assertion ends a shell that cannot fork.                                 *)
main_fork ==
    /\ proc[shell].pc = "readline"
    /\ ~entered
    /\ entered' = TRUE
    /\ failed' = (FreePids = {})
    /\ IF FreePids = {} THEN proc' = [proc EXCEPT ![shell].pc = "dead"]
       ELSE LET q == Min(FreePids)
            IN  proc' = [proc EXCEPT
                   ![shell].pc = "wait", ![shell].child = q, ![shell].then = "readline",
                   ![q].pc = "parse", ![q].cmd = buffer]
    /\ UNCHANGED <<buffer, ran>>

(* waitpid returns.  The shell goes back to readline, runcmd to `again`.    *)
waited(p) ==
    /\ proc[p].pc = "wait"
    /\ proc[proc[p].child].pc = "dead"
    /\ proc' = [proc EXCEPT ![p].pc = proc[p].then, ![p].child = 0,
                            ![proc[p].child] = Free]
    /\ UNCHANGED <<buffer, entered, ran, failed>>

-----------------------------------------------------------------------------
Returns(p) ==
    /\ proc' = Exit(proc, p)
    /\ UNCHANGED <<buffer, entered, ran, failed>>

(* case 'w'.                                                                *)
word(p) ==
    LET t == gettoken(proc[p].cmd)
    IN  /\ proc[p].pc = "parse"
        /\ t.token = "w"
        /\ IF Len(proc[p].argv) = EXEC_MAX_ARG_NUM THEN Returns(p)
           ELSE /\ proc' = [proc EXCEPT ![p].argv = Append(@, t.word), ![p].cmd = t.rest]
                /\ UNCHANGED <<buffer, entered, ran, failed>>

(* cases '<' and '>': reopen of the name may succeed or fail.  The name is  *)
(* the text from the word on, which nothing has cut off yet.                *)
redirect(p) ==
    LET t    == gettoken(proc[p].cmd)
        name == gettoken(t.rest)
    IN  /\ proc[p].pc = "parse"
        /\ t.token \in {"<", ">"}
        /\ \/ Returns(p)
           \/ /\ name.token = "w"
              /\ proc' = [proc EXCEPT ![p].cmd = name.rest]
              /\ UNCHANGED <<buffer, entered, ran, failed>>

(* case '|': the child goes on with the rest of the line, the parent runs   *)
(* what it has; each one returns if its dup2 of an unset number fails.      *)
pipe(p) ==
    LET t == gettoken(proc[p].cmd)
        q == Min(FreePids)
    IN  /\ proc[p].pc = "parse"
        /\ t.token = "|"
        /\ IF FreePids = {}
           THEN /\ proc' = Exit(proc, p)
                /\ failed' = TRUE
           ELSE /\ \E child, parent \in BOOLEAN :
                     LET f == [proc EXCEPT
                                 ![q] = [Free EXCEPT !.pc = "parse", !.cmd = t.rest],
                                 ![p].pc = "runit", ![p].cmd = <<>>]
                         g == IF child THEN f ELSE Exit(f, q)
                     IN  proc' = IF parent THEN g ELSE Exit(g, p)
                /\ UNCHANGED failed
        /\ UNCHANGED <<buffer, entered, ran>>

(* Faulty variant: the parent does not wait for the command it forked.   *)
semicolon_nowait(p) ==
    LET t == gettoken(proc[p].cmd)
        q == Min(FreePids)
    IN  /\ proc[p].pc = "parse"
        /\ t.token = ";"
        /\ FreePids # {}
        /\ proc' = [proc EXCEPT ![q] = [proc[p] EXCEPT !.pc = "runit", !.cmd = <<>>],
                                ![p].argv = <<>>, ![p].cmd = t.rest]
        /\ UNCHANGED <<buffer, entered, ran, failed>>

(* case ';'.                                                                *)
semicolon(p) ==
    LET t == gettoken(proc[p].cmd)
        q == Min(FreePids)
    IN  /\ proc[p].pc = "parse"
        /\ t.token = ";"
        /\ IF FreePids = {}
           THEN /\ proc' = Exit(proc, p)
                /\ failed' = TRUE
           ELSE /\ proc' = [proc EXCEPT
                       ![q] = [proc[p] EXCEPT !.pc = "runit", !.cmd = <<>>],
                       ![p].pc = "wait", ![p].child = q, ![p].then = "parse",
                       ![p].argv = <<>>, ![p].cmd = t.rest]
                /\ UNCHANGED failed
        /\ UNCHANGED <<buffer, entered, ran>>

(* case 0 goes to runit; the default case returns.                          *)
end_of_line(p) ==
    /\ proc[p].pc = "parse"
    /\ gettoken(proc[p].cmd).token = "0"
    /\ proc' = [proc EXCEPT ![p].pc = "runit", ![p].cmd = <<>>]
    /\ UNCHANGED <<buffer, entered, ran, failed>>

bad_token(p) ==
    /\ proc[p].pc = "parse"
    /\ gettoken(proc[p].cmd).token = "&"
    /\ Returns(p)

(* runit: nothing for an empty command and for cd; otherwise testfile and   *)
(* exec, either of which can fail.                                          *)
runit(p) ==
    LET argv == proc[p].argv
    IN  /\ proc[p].pc = "runit"
        /\ IF argv = <<>> \/ argv[1] = <<"c">> THEN Returns(p)
           ELSE /\ \/ proc' = [proc EXCEPT ![p].pc = "command"]
                   \/ proc' = Exit(proc, p)
                /\ ran' = Append(ran, argv)
                /\ UNCHANGED <<buffer, entered, failed>>

(* The program that was started ends.                                       *)
finish(p) == proc[p].pc = "command" /\ Returns(p)

Next ==
    \/ \E c \in Chars : readline(c)
    \/ readline_end
    \/ main_fork
    \/ \E p \in Pids : \/ waited(p) \/ word(p) \/ redirect(p) \/ pipe(p)
                       \/ semicolon(p) \/ end_of_line(p) \/ bad_token(p)
                       \/ runit(p) \/ finish(p)

Spec == Init /\ [][Next]_vars

-----------------------------------------------------------------------------
(* The reference reading of a line of words, quotes and ";".                *)
Separators(s) == {i \in 1..Len(s) : s[i] \in {" ", ";"} /\ Parity(s, i) = 0}

Words(s, from, to) ==
    LET starts == {i \in from..to : /\ i \notin Separators(s)
                                    /\ i = from \/ i - 1 \in Separators(s)}
        last(i) == Max({j \in i..to : \A k \in i..j : k \notin Separators(s)})
    IN  [n \in 1..Cardinality(starts) |->
            LET i == SetToSortSeq(starts, <)[n] IN Unquote(SubSeq(s, i, last(i)))]

Commands(s) ==
    LET ends == SetToSortSeq({i \in Separators(s) : s[i] = ";"} \cup {Len(s) + 1}, <)
        all  == [n \in 1..Len(ends) |->
                    Words(s, IF n = 1 THEN 1 ELSE ends[n - 1] + 1, ends[n] - 1)]
        long == {n \in DOMAIN all : Len(all[n]) > EXEC_MAX_ARG_NUM}
        done == IF long = {} THEN all ELSE SubSeq(all, 1, Min(long) - 1)
    IN  SelectSeq(done, LAMBDA a : a # <<>> /\ a[1] # <<"c">>)

Plain(s) == \A i \in 1..Len(s) : s[i] \notin {"<", ">", "|", "&"}

(***************************************************************************)
(* A line of plain commands is run as it reads: each command with its      *)
(* words, quotes respected, in order, one at a time; the shell gets the    *)
(* next line only when all have ended, and then all were begun unless a    *)
(* fork failed or a command had too many words (gettoken, runcmd, main).   *)
(***************************************************************************)
CommandsOK ==
    Plain(buffer) /\ entered =>
        /\ IsPrefix(ran, Commands(buffer))
        /\ Cardinality({p \in Pids : proc[p].pc = "command"}) <= 1
        /\ proc[shell].pc = "readline" =>
              /\ FreePids = Pids \ {shell}
              /\ failed \/ ran = Commands(buffer)

==============================================================================
