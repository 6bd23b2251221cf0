------------------------------- MODULE KeyFifo -------------------------------
(***************************************************************************)
(* What the keyboard driver promises: every key that is typed comes out    *)
(* once, in the order of typing and with the shift it was typed under; one *)
(* is dropped only when Capacity characters are already waiting.           *)
(***************************************************************************)
EXTENDS Naturals, Sequences

CONSTANTS Char,         \* what keys produce
          None,         \* what the shift keys, and releasing a key, produce
          Capacity      \* how many characters may wait

VARIABLES typed,        \* what the user has typed and nobody has looked at
          queue,        \* characters to be read
          taken         \* the character read last, or <<>>

vars == <<typed, queue, taken>>

Init == typed = <<>> /\ queue = <<>> /\ taken = <<>>

Type(c) ==
    /\ typed' = Append(typed, c)
    /\ UNCHANGED <<queue, taken>>

\* The next thing typed is looked at: a character is queued,
Put ==
    /\ typed # <<>> /\ Head(typed) \in Char
    /\ Len(queue) < Capacity
    /\ queue' = Append(queue, Head(typed))
    /\ typed' = Tail(typed)
    /\ UNCHANGED taken

\* or dropped if the queue is full;
Drop ==
    /\ typed # <<>> /\ Head(typed) \in Char
    /\ Len(queue) = Capacity
    /\ typed' = Tail(typed)
    /\ UNCHANGED <<queue, taken>>

\* anything else is passed over.
Pass ==
    /\ typed # <<>> /\ Head(typed) = None
    /\ typed' = Tail(typed)
    /\ UNCHANGED <<queue, taken>>

Take ==
    /\ queue # <<>>
    /\ taken' = <<Head(queue)>>
    /\ queue' = Tail(queue)
    /\ UNCHANGED typed

\* What was read is forgotten when the next read starts.
Ask ==
    /\ taken' = <<>>
    /\ UNCHANGED <<typed, queue>>

Next == (\E c \in Char \cup {None} : Type(c)) \/ Put \/ Drop \/ Pass \/ Take \/ Ask

Spec == Init /\ [][Next]_vars
=============================================================================
