------------------------------ MODULE ByteFile ------------------------------
(***************************************************************************)
(* What an open file promises the program that reads and writes it: a      *)
(* string of bytes and a position in it.                                   *)
(*                                                                         *)
(* A call moves its bytes piece by piece and may fall short, but only once *)
(* there is `trouble': a transfer failed or the disk is full.  From then   *)
(* on nothing is promised of the bytes being moved, but those of the file  *)
(* that are not being written still stay as they are.                      *)
(*                                                                         *)
(* A call that begins where a cell of the file ends is in doubt, unless    *)
(* the position was sought: what it reads, and what is read after it, need *)
(* not be the file until the next seek, and if it writes, no byte of the   *)
(* file is certain any more.  Lengths and positions are as promised still. *)
(***************************************************************************)
EXTENDS Integers, Sequences

CONSTANTS
    Byte,
    Cell,           \* bytes in a cell
    Lost            \* what a byte is that trouble has cut off from the file

VARIABLES content, position,
          op,           \* the call in progress: "none", "read" or "write"
          left,         \* how many bytes it has yet to move
          rest,         \* the bytes a write has yet to put in the file
          delivered,    \* the bytes a read has got so far
          trouble,
          doubt         \* "edge": the next call would be in doubt; "reads", "file"

vars == <<content, position, op, left, rest, delivered, trouble, doubt>>

Init ==
    /\ content \in Seq(Byte)
    /\ position = 0
    /\ op = "none"
    /\ left = 0
    /\ rest = <<>>
    /\ delivered = <<>>
    /\ trouble = FALSE
    /\ doubt = "none"

Astray == doubt \in {"reads", "file"}
Edge(p) == p # 0 /\ p % Cell = 0
Sought == doubt' = IF doubt = "file" THEN "file" ELSE "none"

\* A call that ends at an edge puts the next one in doubt.
Reached == doubt' = doubt \/ (doubt = "none" /\ doubt' = "edge" /\ op' = "none" /\ Edge(position'))

\* k bytes are moved; the call ends with the last, or early because of trouble.
Move(k) ==
    /\ position' = position + k
    /\ \/ op' = op /\ left' = left - k /\ left' > 0
       \/ op' = "none" /\ left' = 0 /\ (left = k \/ trouble' \/ Astray)
    /\ Reached

CallRead ==
    /\ op = "none"
    /\ op' = "read"
    /\ left' \in 1 .. (Len(content) - position)
    /\ delivered' = <<>>
    /\ doubt' = IF doubt = "edge" THEN "reads" ELSE doubt
    /\ UNCHANGED <<content, position, rest>>

\* At the end of the file there is nothing to read.
ReadNothing ==
    /\ op = "none"
    /\ position >= Len(content)
    /\ delivered' = <<>>
    /\ UNCHANGED <<content, position, op, left, rest, doubt>>

CallWrite ==
    /\ op = "none"
    /\ op' = "write"
    /\ rest' \in Seq(Byte) \ {<<>>}
    /\ left' = Len(rest')
    /\ delivered' = <<>>
    /\ doubt' = IF doubt = "none" THEN "none" ELSE "file"
    /\ UNCHANGED <<content, position>>

Deliver(k) ==
    /\ op = "read"
    /\ Move(k)
    /\ Len(delivered') = Len(delivered) + k
    /\ SubSeq(delivered', 1, Len(delivered)) = delivered
    /\ \A i \in 1 .. k :
         trouble \/ Astray \/ content[position + i] = delivered'[Len(delivered) + i]
    /\ UNCHANGED <<content, rest>>

\* Whether byte i of the file is outside the next n.
Outside(n, i) == i =< position \/ i > position + n

Accept(k) ==
    /\ op = "write"
    /\ Move(k)
    /\ rest' = IF op' = "none" THEN <<>> ELSE SubSeq(rest, k + 1, left)
    /\ Len(content') = IF position + k > Len(content) THEN position + k ELSE Len(content)
    /\ doubt # "file" => \A i \in 1 .. Len(content') :
         IF Outside(k, i) THEN content[i] \in {content'[i], Lost}
                          ELSE trouble \/ content'[i] = rest[i - position]
    /\ UNCHANGED delivered

\* A transfer fails and the call ends there; a write may have left its mark on
\* the bytes it was about to change.
Fail ==
    /\ trouble'
    /\ op' = "none"
    /\ left' = 0
    /\ rest' = <<>>
    /\ Len(content') = Len(content)
    /\ doubt # "file" =>
         \A i \in 1 .. Len(content) : Outside(Len(rest), i) => content'[i] = content[i]
    /\ delivered' \in {delivered, <<>>}
    /\ Reached
    /\ UNCHANGED position

Seek(p) ==
    /\ op = "none"
    /\ position' = p
    /\ \/ Sought
       \/ doubt # "file" /\ doubt' = "edge" /\ Edge(p) /\ (p = Len(content) \/ trouble')
    /\ delivered' = <<>>
    /\ UNCHANGED <<content, op, left, rest>>

\* Closing keeps the file, unless trouble keeps its new length from the disk.
Close ==
    /\ op = "none"
    /\ position' = 0
    /\ \/ content' = content
       \/ trouble' /\ \E n \in 0 .. Len(content) : content' = SubSeq(content, 1, n)
    /\ Sought
    /\ delivered' = <<>>
    /\ UNCHANGED <<op, left, rest>>

Next ==
    /\ trouble => trouble'
    /\ \/ CallRead
       \/ ReadNothing
       \/ CallWrite
       \/ \E k \in 1 .. left : Deliver(k) \/ Accept(k)
       \/ Fail
       \/ \E p \in 0 .. Len(content) : Seek(p)
       \/ Close

Spec == Init /\ [][Next]_vars
=============================================================================
