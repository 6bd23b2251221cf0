------------------------------ MODULE Keyboard ------------------------------
(***************************************************************************)
(* The keyboard driver (src/drivers/keyboard.c): an interrupt handler that *)
(* fills a ring of BufferSize characters and keyboard_getchar, which       *)
(* empties it, sleeping with `hlt' while there is nothing to read.         *)
(*                                                                         *)
(* One processor: a handler runs to its end between two instructions of    *)
(* the code it interrupts, and only while the interrupt flag is set.  The  *)
(* shell calls keyboard_getchar with interrupts on.  A program reaches it  *)
(* through int 0x80, whose gate (0xEE, an interrupt gate) clears the flag  *)
(* until iret.                                                             *)
(***************************************************************************)
EXTENDS Integers, Sequences

CONSTANTS
    BufferSize,     \* KEYBOARD_BUFFER_SIZE
    Key,            \* keys the scancode tables have a character for
    WireSize        \* bound: scancodes the controller holds back

ASSUME SizeAssumption ==
    /\ BufferSize \in Nat /\ BufferSize >= 2
    /\ WireSize \in Nat
    /\ {"shift", "unshift", "other"} \cap Key = {}

\* What port 0x60 delivers: a key going down, either shift key going down or
\* up, or a code keyboard_handler ignores (key up, no character).
Scancode == Key \cup {"shift", "unshift", "other"}

\* scancode_to_ascii and scancode_to_ascii_shift.
Char == Key \X BOOLEAN
Nul == <<>>                                  \* '\0', not a character

Index == 0 .. (BufferSize - 1)

VARIABLES
    buffer,     \* keyboard_buffer
    first,      \* buffer_start
    last,       \* buffer_end
    shift,      \* shift_pressed
    wire,       \* scancodes waiting in the keyboard controller
    inProgram,  \* a program runs, not the shell
    enabled,    \* the processor's interrupt flag
    pc,         \* keyboard_getchar's position, "away" outside it
    char,       \* its local variable
    result      \* what it returned last, or <<>>

ring == <<buffer, first, last>>
vars == <<buffer, first, last, shift, wire, inProgram, enabled, pc, char, result>>

TypeOK ==
    /\ buffer \in [Index -> Char \cup {Nul}]
    /\ first \in Index
    /\ last \in Index
    /\ shift \in BOOLEAN
    /\ wire \in Seq(Scancode)
    /\ inProgram \in BOOLEAN
    /\ enabled \in BOOLEAN
    /\ pc \in {"away", "check", "hlt", "asleep", "read", "advance"}
    /\ char \in Char \cup {Nul}
    /\ result \in Seq(Char)

\* keyboard_init; kernel_main then enables interrupts and starts the shell.
Init ==
    /\ buffer = [i \in Index |-> Nul]
    /\ first = 0
    /\ last = 0
    /\ shift = FALSE
    /\ wire = <<>>
    /\ inProgram = FALSE
    /\ enabled = TRUE
    /\ pc = "away"
    /\ char = Nul
    /\ result = <<>>

Succ(i) == (i + 1) % BufferSize

\* keyboard_has_input
HasInput == first # last

-----------------------------------------------------------------------------
\* The user presses or releases a key.
Type(code) ==
    /\ Len(wire) < WireSize
    /\ wire' = Append(wire, code)
    /\ UNCHANGED <<ring, shift, inProgram, enabled, pc, char, result>>

\* Mutant: interrupts do not end a hlt.
WakeNever == UNCHANGED pc

\* Returning from an interrupt ends a hlt.
Wake == pc' = IF pc = "asleep" THEN "check" ELSE pc

\* Mutant: the handler stops one slot before the ring is full.
StoreOneEarly(new) ==
    IF Succ(Succ(last)) # first
      THEN /\ buffer' = [buffer EXCEPT ![last] = new]
           /\ last' = Succ(last)
      ELSE UNCHANGED <<buffer, last>>

\* The last lines of keyboard_handler: a full ring drops the character.
Store(new) ==
    IF Succ(last) # first
      THEN /\ buffer' = [buffer EXCEPT ![last] = new]
           /\ last' = Succ(last)
      ELSE UNCHANGED <<buffer, last>>

KeyInterrupt ==
    /\ enabled
    /\ wire # <<>>
    /\ wire' = Tail(wire)
    /\ Wake
    /\ \/ /\ Head(wire) = "shift"
          /\ shift' = TRUE
          /\ UNCHANGED ring
       \/ /\ Head(wire) = "unshift"
          /\ shift' = FALSE
          /\ UNCHANGED ring
       \/ /\ Head(wire) = "other"
          /\ UNCHANGED <<ring, shift>>
       \/ /\ Head(wire) \in Key
          /\ Store(<<Head(wire), shift>>)
          /\ UNCHANGED <<first, shift>>
    /\ UNCHANGED <<inProgram, enabled, char, result>>

\* IRQ 0 touches nothing here; it matters because it ends a hlt.
TimerInterrupt ==
    /\ enabled
    /\ pc = "asleep"
    /\ Wake
    /\ UNCHANGED <<ring, shift, wire, inProgram, enabled, char, result>>

\* The shell calls keyboard_getchar; a program issues SYS_GETCHAR, or SYS_READ
\* on descriptor 0, and enters it with interrupts off.
CallGetchar ==
    /\ pc = "away"
    /\ pc' = "check"
    /\ enabled' = ~inProgram
    /\ result' = <<>>
    /\ UNCHANGED <<ring, shift, wire, inProgram, char>>

\* Mutant: keyboard_getchar does not wait.
CheckNothing ==
    /\ pc = "check"
    /\ pc' = "read"
    /\ UNCHANGED <<ring, shift, wire, inProgram, enabled, char, result>>

Check ==
    /\ pc = "check"
    /\ pc' = IF HasInput THEN "read" ELSE "hlt"
    /\ UNCHANGED <<ring, shift, wire, inProgram, enabled, char, result>>

\* An interrupt taken between the check and this instruction does not wake it.
Hlt ==
    /\ pc = "hlt"
    /\ pc' = "asleep"
    /\ UNCHANGED <<ring, shift, wire, inProgram, enabled, char, result>>

Read ==
    /\ pc = "read"
    /\ char' = buffer[first]
    /\ pc' = "advance"
    /\ UNCHANGED <<ring, shift, wire, inProgram, enabled, result>>

\* buffer_start moves on and the character is returned; iret restores the flag.
Advance ==
    /\ pc = "advance"
    /\ first' = Succ(first)
    /\ result' = <<char>>
    /\ char' = Nul
    /\ pc' = "away"
    /\ enabled' = TRUE
    /\ UNCHANGED <<buffer, last, shift, wire, inProgram>>

\* exec_run enters a program, and it returns.
SwitchProgram ==
    /\ pc = "away"
    /\ inProgram' = ~inProgram
    /\ UNCHANGED <<ring, shift, wire, enabled, pc, char, result>>

Run == CallGetchar \/ Check \/ Hlt \/ Read \/ Advance

Next ==
    \/ \E code \in Scancode : Type(code)
    \/ KeyInterrupt
    \/ TimerInterrupt
    \/ Run
    \/ SwitchProgram

Spec == Init /\ [][Next]_vars

\* The processor executes, and both interrupt lines are served while enabled:
\* the timer is programmed to fire for ever.
FairSpec ==
    /\ Spec
    /\ WF_vars(Check \/ Hlt \/ Read \/ Advance)
    /\ WF_vars(TimerInterrupt)
    /\ WF_vars(KeyInterrupt)

-----------------------------------------------------------------------------
\* How many characters wait, and the i-th of them.
Waiting == (last - first + BufferSize) % BufferSize
Queued(i) == buffer[(first + i - 1) % BufferSize]

\* keyboard_getchar only reads a slot the handler has filled, and the handler
\* cannot refill it before buffer_start has moved past it.
ReaderOwnsSlot ==
    /\ pc \in {"read", "advance"} => HasInput
    /\ pc = "advance" => char = buffer[first]

\* What the i-th code on the wire will produce: it finds the shift keys as the
\* codes before it leave them.
ShiftAt(i) ==
    \E j \in 0 .. (i - 1) :
        /\ IF j = 0 THEN shift ELSE wire[j] = "shift"
        /\ \A k \in (j + 1) .. (i - 1) : wire[k] # "unshift"
Typed(i) == IF wire[i] \in Key THEN <<wire[i], ShiftAt(i)>> ELSE Nul

\* Every key typed is queued, in the order of typing and with the shift it was
\* typed under, to be read once; only a full ring drops one.
Fifo == INSTANCE KeyFifo WITH
            None <- Nul,
            Capacity <- BufferSize - 1,
            typed <- [i \in 1 .. Len(wire) |-> Typed(i)],
            queue <- [i \in 1 .. Waiting |-> Queued(i)],
            taken <- result
ImplementsFifo == Fifo!Spec

\* A key typed while the shell waits reaches it, even one whose interrupt comes
\* between the emptiness check and the hlt.
ShellGetsKeys == pc # "away" /\ ~inProgram /\ HasInput ~> pc = "away"

\* README.md lists "Read keyboard input" among what the OS can do: a call of
\* getchar comes back once a key is typed.
GetcharReturns == pc # "away" /\ (\E i \in 1 .. Len(wire) : wire[i] \in Key) ~> pc = "away"
=============================================================================
