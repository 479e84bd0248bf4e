------------------------------- MODULE Console -------------------------------
(***************************************************************************)
(* Console input, kern/driver/console.c: the keyboard decoder with its     *)
(* shift state, the serial receiver, the circular buffer `cons` between    *)
(* them and cons_getc, which the keyboard and the serial interrupt call    *)
(* once each (trap.c) to feed the standard input device.                   *)
(*                                                                         *)
(* A character is a string, NO the 0 that stands for none.  The keyboard   *)
(* maps are given for the keys of the instance: a letter, the modifiers of *)
(* either side, Caps Lock, Delete and the keypad's period.                 *)
(* The keyboard, the serial port and the interrupt controller are external *)
(* and are modelled from how the driver uses them.                         *)
(***************************************************************************)
EXTENDS Naturals, Sequences, SequencesExt

CONSTANTS
    CONSBUFSIZE,
    Keys,        \* the keys of the keyboard, by code; an E0 key is the code + 128
    Bytes,       \* what the serial line sends: characters, "DEL" (127) or NO
    MaxEvents    \* bound on key events and serial bytes

VARIABLES
    on,         \* cons_init has run and interrupts are enabled
    kbd,        \* bytes on their way from the keyboard
    rx,         \* the byte in the serial receiver, <<>> or <<b>>
    irq,        \* [{"KBD", "COM1"} -> BOOLEAN]: interrupts latched
    shift,      \* flags of kbd_proc_data
    cons,       \* [buf, rpos, wpos]
    reboot,     \* the reset line was pulled
    held,       \* keys that are down
    hist        \* history, see Init

vars == <<on, kbd, rx, irq, shift, cons, reboot, held, hist>>

E0 == \hE0

NO == "NO"

MakeCodes(k) == IF k >= 128 THEN <<E0, k - 128>> ELSE <<k>>

BreakCodes(k) == IF k >= 128 THEN <<E0, k>> ELSE <<k + 128>>

shiftcode(data) ==
    CASE data \in {\h2A, \h36} -> {"SHIFT"}
      [] data \in {\h1D, \h9D} -> {"CTL"}
      [] data \in {\h38, \hB8} -> {"ALT"}
      [] OTHER                 -> {}

togglecode(data) ==
    CASE data = \h3A -> {"CAPSLOCK"}
      [] data = \h45 -> {"NUMLOCK"}
      [] data = \h46 -> {"SCROLLLOCK"}
      [] OTHER       -> {}

normalmap(data) ==
    CASE data = \h1E -> "a"
      [] data = \h53 -> "."
      [] data = \hD3 -> "KEY_DEL"
      [] OTHER       -> NO

shiftmap(data) ==
    CASE data = \h1E -> "A"
      [] data = \h53 -> "."
      [] data = \hD3 -> "KEY_DEL"
      [] OTHER       -> NO

ctlmap(data) ==
    CASE data = \h1E -> "^A"
      [] data = \hD3 -> "KEY_DEL"
      [] OTHER       -> NO

charcode(flags, data) ==
    IF "CTL" \in flags THEN ctlmap(data)
    ELSE IF "SHIFT" \in flags THEN shiftmap(data) ELSE normalmap(data)

SwapCase(c) == CASE c = "a" -> "A" [] c = "A" -> "a" [] OTHER -> c

ToggleSet(S, T) == (S \cup T) \ (S \cap T)

-----------------------------------------------------------------------------
(* Faulty variant: the code of a released E0 key is masked and the prefix kept. *)
key_released_prefix(flags, data) ==
    [shift |-> flags \ shiftcode(IF "E0ESC" \in flags THEN data ELSE data - 128),
     c |-> NO, reboot |-> FALSE]

(* The break code of a key: its modifier and the E0 prefix are cleared.     *)
key_released(flags, data) ==
    [shift |-> flags \ (shiftcode(IF "E0ESC" \in flags THEN data ELSE data - 128)
                          \cup {"E0ESC"}),
     c |-> NO, reboot |-> FALSE]

key_pressed(flags, data) ==
    LET code == IF "E0ESC" \in flags THEN data + 128 ELSE data
        now  == ToggleSet((flags \ {"E0ESC"}) \cup shiftcode(code),
                          togglecode(code))
        raw  == charcode(now, code)
        c    == IF "CAPSLOCK" \in now THEN SwapCase(raw) ELSE raw
    IN  [shift |-> now, c |-> c,
         reboot |-> {"CTL", "ALT"} \subseteq now /\ c = "KEY_DEL"]

(* One call of kbd_proc_data that finds a byte.                             *)
kbd_proc_data(flags, data) ==
    CASE data = E0   -> [shift |-> flags \cup {"E0ESC"}, c |-> NO, reboot |-> FALSE]
      [] data # E0 /\ data >= 128 -> key_released(flags, data)
      [] data < 128  -> key_pressed(flags, data)

serial_proc_data(byte) == IF byte = "DEL" THEN "BS" ELSE byte

(* The body of cons_intr's loop; a full buffer is not noticed.              *)
cons_put(b, c) ==
    IF c = NO THEN b
    ELSE [b EXCEPT !.buf[b.wpos] = c,
                   !.wpos = IF @ + 1 = CONSBUFSIZE THEN 0 ELSE @ + 1]

Waiting(b) == (b.wpos + CONSBUFSIZE - b.rpos) % CONSBUFSIZE

(* What one byte does to [shift, cons, reboot] and to the history of        *)
(* characters and of overruns: a character put in the last free place makes *)
(* the buffer look empty.                                                   *)
Put(s, c) ==
    [s EXCEPT !.cons = cons_put(@, c),
              !.typed = IF c = NO THEN @ ELSE Append(@, c),
              !.overruns = IF c # NO /\ Waiting(s.cons) = CONSBUFSIZE - 1
                           THEN @ + 1 ELSE @]

KbdByte(s, data) ==
    LET d == kbd_proc_data(s.shift, data)
    IN  Put([s EXCEPT !.shift = d.shift, !.reboot = @ \/ d.reboot], d.c)

Driver == [shift |-> shift, cons |-> cons, reboot |-> reboot,
           typed |-> hist.typed, overruns |-> hist.overruns]

(* serial_intr and kbd_intr drain their devices, in this order; n bytes     *)
(* have reached the keyboard controller by the time it is read.             *)
serial_intr(s) == FoldLeft(LAMBDA t, b : Put(t, serial_proc_data(b)), s, rx)

kbd_intr(s, n) == FoldLeft(KbdByte, s, SubSeq(kbd, 1, n))

-----------------------------------------------------------------------------
(* hist.typed: characters put into cons; hist.delivered: those passed to    *)
(* dev_stdin_write; hist.meant: the characters the key presses mean by the  *)
(* keys held at the time; hist.caps: Caps Lock as the user sees it;         *)
(* hist.twins: two keys of one kind have been down together; hist.cad: the  *)
(* user pressed Ctrl-Alt-Del; hist.merged: bytes that came while their      *)
(* interrupt was latched already.                                           *)
Init ==
    /\ on = FALSE
    /\ kbd = <<>>
    /\ rx = <<>>
    /\ irq = [k \in {"KBD", "COM1"} |-> FALSE]
    /\ shift = {}
    /\ cons = [buf |-> [i \in 0..(CONSBUFSIZE - 1) |-> NO], rpos |-> 0, wpos |-> 0]
    /\ reboot = FALSE
    /\ held = {}
    /\ hist = [typed |-> <<>>, delivered |-> <<>>, meant |-> <<>>, caps |-> FALSE,
               twins |-> FALSE, cad |-> FALSE, merged |-> 0, overruns |-> 0,
               events |-> 0]

HeldKinds == UNION {shiftcode(k) : k \in held}

Meaning(k, kinds, caps) ==
    LET c == charcode(kinds, k) IN IF caps THEN SwapCase(c) ELSE c

(* External: a key goes down, or repeats while it is down.                  *)
press(k) ==
    LET kinds == HeldKinds \cup shiftcode(k)
        caps  == IF togglecode(k) = {} THEN hist.caps ELSE ~hist.caps
        c     == Meaning(k, kinds, caps)
        n     == Len(MakeCodes(k))
    IN  /\ hist.events < MaxEvents /\ ~reboot
        /\ held' = held \cup {k}
        /\ kbd' = kbd \o MakeCodes(k)
        /\ irq' = [irq EXCEPT !.KBD = TRUE]
        /\ hist' = [hist EXCEPT
              !.events = @ + 1,
              !.caps = caps,
              !.meant = IF c = NO THEN @ ELSE Append(@, c),
              !.cad = @ \/ (c = "KEY_DEL" /\ {"CTL", "ALT"} \subseteq kinds),
              !.twins = @ \/ \E j \in held \ {k} : shiftcode(j) \cap shiftcode(k) # {},
              !.merged = @ + (IF irq.KBD THEN n ELSE n - 1)]
        /\ UNCHANGED <<on, rx, shift, cons, reboot>>

(* External: a key goes up.                                                 *)
release(k) ==
    LET n == Len(BreakCodes(k))
    IN  /\ hist.events < MaxEvents /\ ~reboot
        /\ k \in held
        /\ held' = held \ {k}
        /\ kbd' = kbd \o BreakCodes(k)
        /\ irq' = [irq EXCEPT !.KBD = TRUE]
        /\ hist' = [hist EXCEPT !.events = @ + 1,
                                !.merged = @ + (IF irq.KBD THEN n ELSE n - 1)]
        /\ UNCHANGED <<on, rx, shift, cons, reboot>>

(* External: a byte comes over the serial line; the receiver holds one.     *)
receive(b) ==
    /\ hist.events < MaxEvents /\ ~reboot
    /\ rx = <<>>
    /\ rx' = <<b>>
    /\ irq' = [irq EXCEPT !.COM1 = TRUE]
    /\ hist' = [hist EXCEPT !.events = @ + 1,
                            !.merged = @ + (IF irq.COM1 THEN 1 ELSE 0)]
    /\ UNCHANGED <<on, kbd, shift, cons, reboot, held>>

(* cons_init: serial_init throws the waiting byte away, kbd_init drains the *)
(* keyboard into cons; then interrupts are enabled.                         *)
cons_init ==
    LET s == kbd_intr(Driver, Len(kbd))
    IN  /\ ~on
        /\ on' = TRUE
        /\ kbd' = <<>>
        /\ rx' = <<>>
        /\ shift' = s.shift
        /\ cons' = s.cons
        /\ reboot' = s.reboot
        /\ hist' = [hist EXCEPT !.typed = s.typed, !.overruns = s.overruns]
        /\ UNCHANGED <<irq, held>>

(* The IRQ_COM1 and IRQ_KBD cases of trap_dispatch: cons_getc polls both    *)
(* devices and takes one character, which goes to dev_stdin_write unless it *)
(* is 0.  Reading a byte of several raises the keyboard's interrupt again.  *)
cons_getc(line, n) ==
    LET s     == kbd_intr(serial_intr(Driver), n)
        some  == s.cons.rpos # s.cons.wpos
        c     == s.cons.buf[s.cons.rpos]
    IN  /\ on /\ ~reboot
        /\ irq[line]
        /\ line = "KBD" /\ kbd # <<>> => n > 0
        /\ irq' = [irq EXCEPT ![line] = FALSE,
                              !.KBD = n > 1 \/ n < Len(kbd) \/ (line # "KBD" /\ irq.KBD)]
        /\ kbd' = SubSeq(kbd, n + 1, Len(kbd))
        /\ rx' = <<>>
        /\ shift' = s.shift
        /\ cons' = IF some
                   THEN [s.cons EXCEPT !.rpos = IF @ + 1 = CONSBUFSIZE THEN 0 ELSE @ + 1]
                   ELSE s.cons
        /\ reboot' = s.reboot
        /\ hist' = [hist EXCEPT !.typed = s.typed, !.overruns = s.overruns,
                                !.delivered = IF some THEN Append(@, c) ELSE @]
        /\ UNCHANGED <<on, held>>

Next ==
    \/ \E k \in Keys : press(k)
    \/ \E k \in Keys : release(k)
    \/ \E b \in Bytes : receive(b)
    \/ cons_init
    \/ \E line \in {"KBD", "COM1"}, n \in 0..Len(kbd) : cons_getc(line, n)

Spec == Init /\ [][Next]_vars

-----------------------------------------------------------------------------
Modifiers == {"SHIFT", "CTL", "ALT"}

FromKeyboard == {"a", "A", "^A", ".", "KEY_DEL"}

(***************************************************************************)
(* The decoder agrees with the keyboard.  Once the driver has read every   *)
(* byte, no modifier is stuck: each one that is on belongs to a key that   *)
(* is down, whatever the order of presses, repeats and releases and        *)
(* however they were split over interrupts; the machine resets only on     *)
(* Ctrl-Alt-Del.  And the keyboard characters are the ones the keys mean,  *)
(* unless two keys of the same kind were down at once: the driver has one  *)
(* bit for both (kbd_proc_data).                                           *)
(***************************************************************************)
KeysOK ==
    kbd = <<>> =>
        /\ shift \cap Modifiers \subseteq HeldKinds
        /\ "E0ESC" \notin shift
        /\ reboot => hist.cad
        /\ ~hist.twins =>
              /\ SelectSeq(hist.typed, LAMBDA c : c \in FromKeyboard) = hist.meant
              /\ shift \cap Modifiers = HeldKinds
              /\ reboot = hist.cad

InCons == [i \in 1..Waiting(cons) |-> cons.buf[(cons.rpos + i - 1) % CONSBUFSIZE]]

(***************************************************************************)
(* Characters pass through cons in order.  Without an overrun nothing is   *)
(* lost: what was delivered and what waits is what was typed.  An overrun  *)
(* (cons_intr does not look for a full buffer) loses exactly one           *)
(* buffer-full.  And when no interrupt is latched, no more characters wait *)
(* than bytes shared another byte's interrupt, although each interrupt     *)
(* takes only one character out.                                           *)
(***************************************************************************)
CharsOK ==
    /\ hist.overruns = 0 => hist.delivered \o InCons = hist.typed
    /\ Len(hist.delivered) + Waiting(cons) + hist.overruns * CONSBUFSIZE
          = Len(hist.typed)
    /\ IsSuffix(InCons, hist.typed)
    /\ on /\ ~irq.KBD /\ ~irq.COM1 => Waiting(cons) <= hist.merged

(* Console input as a whole: decoded as typed, passed on in order          *)
(* (kbd_proc_data, cons_intr, cons_getc).                                  *)
InputOK == KeysOK /\ CharsOK

==============================================================================
