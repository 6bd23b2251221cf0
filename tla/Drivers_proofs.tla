--------------------------- MODULE Drivers_proofs ---------------------------
(* Proofs about the drivers: about Keyboard for a ring of any size and any   *)
(* set of keys, and about AtaPio for a drive of any size and any contents.   *)
EXTENDS Keyboard, AtaPio, SequenceTheorems, TLAPS

-----------------------------------------------------------------------------
(* Arithmetic of the ring.                                                   *)

LEMMA SmallMod ==
    \A n \in Nat \ {0} : \A x \in Nat :
        x < 2 * n => x % n = IF x < n THEN x ELSE x - n
<1> SUFFICES ASSUME NEW n \in Nat \ {0}, NEW x \in Nat, x < 2 * n
             PROVE  x % n = IF x < n THEN x ELSE x - n
  OBVIOUS
<1>1. /\ x \div n \in Nat /\ x % n \in 0 .. (n - 1)
      /\ x = (x \div n) * n + (x % n)
  OBVIOUS
<1> DEFINE q == x \div n
<1>2. q < 2
  <2>1. q * n < 2 * n
    BY <1>1
  <2>2. QED BY <1>1, <2>1
<1>3. CASE q = 0
  BY <1>1, <1>3
<1>4. CASE q = 1
  BY <1>1, <1>4
<1>5. QED BY <1>1, <1>2, <1>3, <1>4

LEMMA SuccValue ==
    ASSUME NEW i \in Index
    PROVE  /\ Succ(i) \in Index
           /\ Succ(i) = IF i + 1 < BufferSize THEN i + 1 ELSE 0
<1>1. i + 1 \in Nat /\ i + 1 < 2 * BufferSize /\ BufferSize \in Nat \ {0}
  BY SizeAssumption DEF Index
<1>2. (i + 1) % BufferSize = IF i + 1 < BufferSize THEN i + 1 ELSE (i + 1) - BufferSize
  BY <1>1, SmallMod
<1>3. QED BY <1>1, <1>2, SizeAssumption DEF Succ, Index

LEMMA Gap ==
    ASSUME NEW f \in Index, NEW l \in Index
    PROVE  /\ (l - f + BufferSize) % BufferSize \in 0 .. (BufferSize - 1)
           /\ (l - f + BufferSize) % BufferSize
                = IF f =< l THEN l - f ELSE l - f + BufferSize
<1>1. /\ l - f + BufferSize \in Nat
      /\ l - f + BufferSize < 2 * BufferSize
      /\ BufferSize \in Nat \ {0}
  BY SizeAssumption DEF Index
<1>2. (l - f + BufferSize) % BufferSize
        = IF l - f + BufferSize < BufferSize
            THEN l - f + BufferSize
            ELSE (l - f + BufferSize) - BufferSize
  BY <1>1, SmallMod
<1>3. QED BY <1>1, <1>2, SizeAssumption DEF Index

LEMMA WaitingValue ==
    ASSUME first \in Index, last \in Index
    PROVE  /\ Waiting \in 0 .. (BufferSize - 1)
           /\ Waiting = IF first =< last THEN last - first
                                         ELSE last - first + BufferSize
  BY Gap DEF Waiting

\* Where the i-th waiting character lies.
LEMMA PlaceValue ==
    ASSUME NEW f \in Index, NEW i \in 1 .. BufferSize
    PROVE  /\ (f + i - 1) % BufferSize \in Index
           /\ (f + i - 1) % BufferSize = IF f + i - 1 < BufferSize
                                           THEN f + i - 1
                                           ELSE (f + i - 1) - BufferSize
<1>1. /\ f + i - 1 \in Nat /\ f + i - 1 < 2 * BufferSize
      /\ BufferSize \in Nat \ {0}
  BY SizeAssumption DEF Index
<1>2. (f + i - 1) % BufferSize = IF f + i - 1 < BufferSize
                                   THEN f + i - 1
                                   ELSE (f + i - 1) - BufferSize
  BY <1>1, SmallMod
<1>3. QED BY <1>1, <1>2, SizeAssumption DEF Index

-----------------------------------------------------------------------------
(* The inductive invariant.                                                  *)

\* What the reader relies on, and that only characters wait.
Inv ==
    /\ TypeOK
    /\ ReaderOwnsSlot
    /\ \A i \in 1 .. Waiting : Queued(i) \in Char
    /\ result # <<>> => pc = "away"

LEMMA NextTypeOK == Inv /\ [Next]_vars => TypeOK'
<1> SUFFICES ASSUME Inv, [Next]_vars PROVE TypeOK'
  OBVIOUS
<1>t. TypeOK
  BY DEF Inv
<1> USE <1>t DEF TypeOK, ring
<1>1. CASE \E code \in Scancode : Type(code)
  BY <1>1 DEF Type
<1>2. CASE KeyInterrupt
  <2>1. wire' \in Seq(Scancode)
    BY <1>2 DEF KeyInterrupt
  <2>2. shift' \in BOOLEAN
    BY <1>2, Zenon DEF KeyInterrupt
  <2>3. pc' \in {"away", "check", "hlt", "asleep", "read", "advance"}
    BY <1>2 DEF KeyInterrupt, Wake
  <2>4. buffer' \in [Index -> Char \cup {Nul}] /\ last' \in Index
    <3>1. CASE UNCHANGED <<buffer, last>>
      BY <3>1
    <3>2. CASE Head(wire) \in Key /\ Store(<<Head(wire), shift>>)
      <4>1. <<Head(wire), shift>> \in Char
        BY <3>2, Zenon DEF Char
      <4>2. QED BY <3>2, <4>1, SuccValue DEF Store
    <3>3. QED BY <1>2, <3>1, <3>2 DEF KeyInterrupt
  <2>5. UNCHANGED <<first, inProgram, enabled, char, result>>
    BY <1>2 DEF KeyInterrupt
  <2>6. QED BY <2>1, <2>2, <2>3, <2>4, <2>5
<1>3. CASE TimerInterrupt
  BY <1>3 DEF TimerInterrupt, Wake
<1>4. CASE CallGetchar
  <2>1. enabled' \in BOOLEAN
    BY <1>4, Zenon DEF CallGetchar
  <2>2. QED BY <1>4, <2>1 DEF CallGetchar
<1>5. CASE Check
  BY <1>5 DEF Check
<1>6. CASE Hlt
  BY <1>6 DEF Hlt
<1>7. CASE Read
  BY <1>7 DEF Read
<1>8. CASE Advance
  <2>1. enabled' \in BOOLEAN
    BY <1>8, Zenon DEF Advance
  <2>2. char \in Char
    <3>1. Queued(1) = buffer[first]
      <4>1. (first + 1 - 1) % BufferSize = first
        <5>1. first + 1 - 1 = first /\ 1 \in 1 .. BufferSize /\ first < BufferSize
          BY SizeAssumption DEF Index
        <5>2. QED BY <5>1, PlaceValue
      <4>2. QED BY <4>1 DEF Queued
    <3>2. 1 \in 1 .. Waiting
      BY <1>8, WaitingValue, SizeAssumption
         DEF Advance, Inv, ReaderOwnsSlot, HasInput, Index
    <3>3. QED BY <1>8, <3>1, <3>2 DEF Advance, Inv, ReaderOwnsSlot
  <2>3. result' \in Seq(Char)
    BY <1>8, <2>2 DEF Advance
  <2>4. QED BY <1>8, <2>1, <2>3, SuccValue DEF Advance
<1>9. CASE SwitchProgram
  <2>1. inProgram' \in BOOLEAN
    BY <1>9, Zenon DEF SwitchProgram
  <2>2. QED BY <1>9, <2>1 DEF SwitchProgram
<1>10. CASE UNCHANGED vars
  BY <1>10 DEF vars
<1>11. QED
  BY <1>1, <1>2, <1>3, <1>4, <1>5, <1>6, <1>7, <1>8, <1>9, <1>10 DEF Next, Run

\* Storing a character puts it behind those that wait.
LEMMA StoreAppends ==
    ASSUME TypeOK, NEW new \in Char, Store(new), first' = first
    PROVE  \/ /\ Waiting' = Waiting + 1
              /\ Waiting < BufferSize - 1
              /\ \A i \in 1 .. Waiting : Queued(i)' = Queued(i)
              /\ Queued(Waiting)' = new
           \/ Waiting = BufferSize - 1 /\ UNCHANGED <<buffer, last>>
<1>a. /\ BufferSize \in Nat /\ BufferSize >= 2
      /\ first \in 0 .. (BufferSize - 1) /\ last \in 0 .. (BufferSize - 1)
  BY SizeAssumption DEF TypeOK, Index
<1>b. Succ(last) = IF last + 1 < BufferSize THEN last + 1 ELSE 0
  BY SuccValue DEF TypeOK
<1>c. /\ Waiting \in 0 .. (BufferSize - 1)
      /\ Waiting = IF first =< last THEN last - first
                                    ELSE last - first + BufferSize
  BY WaitingValue DEF TypeOK
<1>1. CASE Succ(last) = first
  <2>1. Waiting = BufferSize - 1
    BY <1>a, <1>b, <1>c, <1>1
  <2>2. QED BY <1>1, <2>1 DEF Store
<1>2. CASE Succ(last) # first
  <2>1. buffer' = [buffer EXCEPT ![last] = new] /\ last' = Succ(last)
    BY <1>2 DEF Store
  <2>2. Waiting' = IF first =< last' THEN last' - first
                                     ELSE last' - first + BufferSize
    <3>1. first' \in Index /\ last' \in Index
      BY <2>1, SuccValue DEF TypeOK
    <3>2. Waiting' = (last' - first + BufferSize) % BufferSize
      BY DEF Waiting
    <3>3. QED BY <1>a, <3>1, <3>2, Gap DEF Index
  <2>3. Waiting' = Waiting + 1 /\ Waiting < BufferSize - 1
    BY <1>a, <1>b, <1>c, <1>2, <2>1, <2>2
  <2>4. ASSUME NEW i \in 1 .. Waiting PROVE Queued(i)' = Queued(i)
    <3>1. i \in 1 .. BufferSize
      BY <1>a, <1>c
    <3>2. (first + i - 1) % BufferSize = IF first + i - 1 < BufferSize
                                           THEN first + i - 1
                                           ELSE (first + i - 1) - BufferSize
      BY <3>1, PlaceValue DEF TypeOK
    <3>3. (first + i - 1) % BufferSize # last
      BY <1>a, <1>c, <3>2
    <3>4. (first + i - 1) % BufferSize \in Index
      BY <3>1, PlaceValue DEF TypeOK
    <3>5. QED BY <2>1, <3>3, <3>4 DEF Queued, TypeOK
  <2>5. Queued(Waiting)' = new
    <3>1. Waiting + 1 \in 1 .. BufferSize /\ first + (Waiting + 1) - 1 = first + Waiting
      BY <1>a, <1>c
    <3>2. (first + (Waiting + 1) - 1) % BufferSize
            = IF first + (Waiting + 1) - 1 < BufferSize
                THEN first + (Waiting + 1) - 1
                ELSE (first + (Waiting + 1) - 1) - BufferSize
      BY <3>1, PlaceValue DEF TypeOK
    <3>3. (first + (Waiting + 1) - 1) % BufferSize = last
      BY <1>a, <1>c, <3>1, <3>2
    <3>4. Queued(Waiting)' = buffer'[(first + Waiting' - 1) % BufferSize]
      BY DEF Queued
    <3>5. QED BY <2>1, <2>3, <3>3, <3>4 DEF TypeOK
  <2>6. QED BY <2>3, <2>4, <2>5
<1>3. QED BY <1>1, <1>2

\* Moving buffer_start on takes the first of those that wait.
LEMMA AdvanceTakes ==
    ASSUME TypeOK, HasInput, first' = Succ(first), UNCHANGED <<buffer, last>>
    PROVE  /\ Waiting \in 1 .. (BufferSize - 1)
           /\ Waiting' = Waiting - 1
           /\ Queued(1) = buffer[first]
           /\ \A i \in 1 .. (Waiting - 1) : Queued(i)' = Queued(i + 1)
<1>a. /\ BufferSize \in Nat /\ BufferSize >= 2
      /\ first \in 0 .. (BufferSize - 1) /\ last \in 0 .. (BufferSize - 1)
      /\ first # last
  BY SizeAssumption DEF TypeOK, Index, HasInput
<1>b. /\ Succ(first) = IF first + 1 < BufferSize THEN first + 1 ELSE 0
      /\ Succ(first) \in Index
  BY SuccValue DEF TypeOK
<1>c. Waiting = IF first =< last THEN last - first ELSE last - first + BufferSize
  BY WaitingValue DEF TypeOK
<1>1. Waiting \in 1 .. (BufferSize - 1)
  BY <1>a, <1>c
<1>2. Waiting' = Waiting - 1
  <2>1. Waiting' = (last - Succ(first) + BufferSize) % BufferSize
    BY DEF Waiting
  <2>2. Waiting' = IF Succ(first) =< last THEN last - Succ(first)
                                          ELSE last - Succ(first) + BufferSize
    BY <1>b, <2>1, Gap DEF TypeOK
  <2>3. QED BY <1>a, <1>b, <1>c, <2>2
<1>3. Queued(1) = buffer[first]
  <2>1. first + 1 - 1 = first /\ 1 \in 1 .. BufferSize /\ first < BufferSize
    BY <1>a
  <2>2. (first + 1 - 1) % BufferSize = first
    BY <2>1, PlaceValue DEF TypeOK
  <2>3. QED BY <2>2 DEF Queued
<1>4. ASSUME NEW i \in 1 .. (Waiting - 1) PROVE Queued(i)' = Queued(i + 1)
  <2>1. i \in 1 .. BufferSize /\ i + 1 \in 1 .. BufferSize
    BY <1>a, <1>1
  <2>2. (Succ(first) + i - 1) % BufferSize
          = IF Succ(first) + i - 1 < BufferSize THEN Succ(first) + i - 1
                                                ELSE (Succ(first) + i - 1) - BufferSize
    BY <1>b, <2>1, PlaceValue
  <2>3. (first + (i + 1) - 1) % BufferSize
          = IF first + (i + 1) - 1 < BufferSize THEN first + (i + 1) - 1
                                                ELSE (first + (i + 1) - 1) - BufferSize
    BY <2>1, PlaceValue DEF TypeOK
  <2>4. (Succ(first) + i - 1) % BufferSize = (first + (i + 1) - 1) % BufferSize
    BY <1>a, <1>b, <1>1, <2>2, <2>3
  <2>5. Queued(i)' = buffer[(Succ(first) + i - 1) % BufferSize]
    BY DEF Queued
  <2>6. QED BY <2>4, <2>5 DEF Queued
<1>5. QED BY <1>1, <1>2, <1>3, <1>4

LEMMA SameQueue ==
    ASSUME UNCHANGED ring
    PROVE  /\ Waiting' = Waiting
           /\ \A i \in 1 .. Waiting : Queued(i)' = Queued(i)
  BY DEF ring, Waiting, Queued

LEMMA InitInv == Init => Inv
<1> SUFFICES ASSUME Init PROVE Inv
  OBVIOUS
<1> USE DEF Init
<1>1. first \in Index /\ last \in Index /\ Waiting = 0
  BY SizeAssumption, WaitingValue DEF Index
<1>2. shift \in BOOLEAN /\ inProgram \in BOOLEAN /\ enabled \in BOOLEAN
  BY Zenon
<1>3. TypeOK
  BY <1>1, <1>2 DEF TypeOK
<1>4. QED
  BY <1>1, <1>3 DEF Inv, ReaderOwnsSlot

LEMMA NextInv == Inv /\ [Next]_vars => Inv'
<1> SUFFICES ASSUME Inv, [Next]_vars PROVE Inv'
  OBVIOUS
<1>t. TypeOK /\ TypeOK' /\ ReaderOwnsSlot /\ \A i \in 1 .. Waiting : Queued(i) \in Char
  BY NextTypeOK DEF Inv
<1>1. ASSUME UNCHANGED ring
      PROVE  \A i \in 1 .. Waiting' : Queued(i)' \in Char
  BY <1>t, <1>1, SameQueue
<1>2. CASE KeyInterrupt
  <2>1. CASE UNCHANGED ring
    BY <1>2, <1>t, <1>1, <2>1
       DEF KeyInterrupt, Wake, Inv, ReaderOwnsSlot, HasInput, ring
  <2>2. CASE Head(wire) \in Key /\ Store(<<Head(wire), shift>>) /\ first' = first
    <3>1. <<Head(wire), shift>> \in Char
      BY <1>t, <2>2, Zenon DEF Char, TypeOK
    <3>2. /\ Waiting \in Nat
          /\ \A i \in 1 .. Waiting : Queued(i)' = Queued(i)
          /\ \/ Waiting' = Waiting
             \/ Waiting' = Waiting + 1 /\ Queued(Waiting)' = <<Head(wire), shift>>
      <4>1. Waiting \in Nat
        BY <1>t, WaitingValue, SizeAssumption DEF TypeOK
      <4>2. ASSUME UNCHANGED <<buffer, last>> PROVE UNCHANGED ring
        BY <2>2, <4>2 DEF ring
      <4>3. QED BY <1>t, <2>2, <3>1, <4>1, <4>2, StoreAppends, SameQueue
    <3>3. \A i \in 1 .. Waiting' : Queued(i)' \in Char
      <4>1. ASSUME NEW i \in 1 .. Waiting', i = Waiting' PROVE
              i \in 1 .. Waiting \/ Queued(i)' \in Char
        BY <3>1, <3>2, <4>1
      <4>2. QED BY <1>t, <3>2, <4>1
    <3>4. HasInput => HasInput' /\ buffer'[first] = buffer[first]
      BY <1>t, <2>2 DEF Store, HasInput, TypeOK
    <3>5. QED
      BY <1>2, <1>t, <2>2, <3>3, <3>4
         DEF KeyInterrupt, Wake, Inv, ReaderOwnsSlot
  <2>3. QED BY <1>2, <2>1, <2>2 DEF KeyInterrupt, ring
<1>3. CASE Advance
  <2>1. HasInput
    BY <1>3, <1>t DEF Advance, ReaderOwnsSlot
  <2>2. \A i \in 1 .. Waiting' : Queued(i)' \in Char
    BY <1>3, <1>t, <2>1, AdvanceTakes DEF Advance
  <2>3. QED BY <1>3, <1>t, <2>2 DEF Advance, Inv, ReaderOwnsSlot
<1>4. CASE \/ \E code \in Scancode : Type(code)
           \/ TimerInterrupt \/ CallGetchar \/ Check \/ Hlt \/ Read
           \/ SwitchProgram \/ UNCHANGED vars
  <2>1. UNCHANGED ring
    BY <1>4 DEF Type, TimerInterrupt, CallGetchar, Check, Hlt, Read, SwitchProgram,
                vars, ring
  <2>2. ReaderOwnsSlot'
    BY <1>4, <1>t, <2>1
       DEF Type, TimerInterrupt, Wake, CallGetchar, Check, Hlt, Read, SwitchProgram,
           vars, ring, ReaderOwnsSlot, HasInput
  <2>3. (result # <<>> => pc = "away")'
    BY <1>4 DEF Type, TimerInterrupt, Wake, CallGetchar, Check, Hlt, Read, SwitchProgram,
                vars, Inv
  <2>4. QED BY <1>t, <1>1, <2>1, <2>2, <2>3 DEF Inv
<1>5. QED BY <1>2, <1>3, <1>4 DEF Next, Run

-----------------------------------------------------------------------------
(* The driver implements the abstract queue of KeyFifo.                      *)

Queue == [i \in 1 .. Waiting |-> Queued(i)]

LEMMA QueueFacts ==
    ASSUME Inv
    PROVE  /\ Waiting \in 0 .. (BufferSize - 1)
           /\ Queue \in Seq(Char)
           /\ Len(Queue) = Waiting
<1>1. Waiting \in 0 .. (BufferSize - 1) /\ Waiting \in Nat
  BY WaitingValue, SizeAssumption DEF Inv, TypeOK
<1>2. Queue \in [1 .. Waiting -> Char]
  BY DEF Inv, Queue
<1>3. QED BY <1>1, <1>2

LEMMA AppendValue ==
    ASSUME NEW S, NEW s \in Seq(S), NEW e \in S
    PROVE  Append(s, e) = [i \in 1 .. (Len(s) + 1) |-> IF i = Len(s) + 1 THEN e ELSE s[i]]
<1> DEFINE t == [i \in 1 .. (Len(s) + 1) |-> IF i = Len(s) + 1 THEN e ELSE s[i]]
<1>1. /\ Append(s, e) \in Seq(S) /\ Len(Append(s, e)) = Len(s) + 1 /\ Len(s) \in Nat
      /\ \A i \in 1 .. Len(s) : Append(s, e)[i] = s[i]
      /\ Append(s, e)[Len(s) + 1] = e
  BY AppendProperties
<1>2. \A i \in 1 .. (Len(s) + 1) : i # Len(s) + 1 => i \in 1 .. Len(s)
  BY <1>1
<1>3. t \in Seq(S) /\ Len(t) = Len(s) + 1
  BY <1>1, <1>2
<1>4. \A i \in 1 .. (Len(s) + 1) : t[i] = Append(s, e)[i]
  BY <1>1, <1>2
<1> HIDE DEF t
<1>5. t = Append(s, e)
  BY <1>1, <1>3, <1>4, SeqEqual
<1>6. QED BY <1>5 DEF t

LEMMA TailValue ==
    ASSUME NEW S, NEW s \in Seq(S), s # <<>>
    PROVE  Tail(s) = [i \in 1 .. (Len(s) - 1) |-> s[i + 1]]
<1> DEFINE t == [i \in 1 .. (Len(s) - 1) |-> s[i + 1]]
<1>1. /\ Tail(s) \in Seq(S) /\ Len(Tail(s)) = Len(s) - 1
      /\ \A i \in 1 .. Len(Tail(s)) : Tail(s)[i] = s[i + 1]
  BY HeadTailProperties
<1>2. t \in Seq(S) /\ Len(t) = Len(s) - 1
  BY <1>1
<1>3. QED BY <1>1, <1>2, SeqEqual

\* What lies on the wire, as the keys it will be taken for.
Ahead == [i \in 1 .. Len(wire) |-> Typed(i)]

LEMMA AheadFacts ==
    ASSUME TypeOK
    PROVE  /\ Len(wire) \in Nat
           /\ Ahead \in Seq(Char \cup {Nul})
           /\ Len(Ahead) = Len(wire)
           /\ \A i \in 1 .. Len(wire) : Ahead[i] = Typed(i)
<1>1. Len(wire) \in Nat
  BY DEF TypeOK
<1>2. ASSUME NEW i \in 1 .. Len(wire) PROVE Typed(i) \in Char \cup {Nul}
  <2>1. ShiftAt(i) \in BOOLEAN
    BY Zenon DEF ShiftAt
  <2>2. QED BY <2>1, Zenon DEF Typed, Char
<1>3. Ahead \in [1 .. Len(wire) -> Char \cup {Nul}]
  BY <1>2 DEF Ahead
<1>4. QED BY <1>1, <1>3 DEF Ahead

LEMMA NulIsNone == Nul \notin Char
  BY DEF Nul, Char

\* The first code finds the shift keys as they are.
LEMMA ShiftNow == ASSUME TypeOK PROVE ShiftAt(1) = shift
<1>1. shift \in BOOLEAN
  BY Zenon DEF TypeOK
<1>2. 0 .. (1 - 1) = {0}
  OBVIOUS
<1>3. \A k \in 1 .. (1 - 1) : FALSE
  OBVIOUS
<1>4. ShiftAt(1) <=> shift
  BY <1>2, <1>3 DEF ShiftAt
<1>5. QED BY <1>1, <1>4, Zenon DEF ShiftAt

LEMMA HeadTyped ==
    ASSUME TypeOK, wire # <<>>
    PROVE  /\ Ahead # <<>>
           /\ Head(wire) \in Key => Head(Ahead) = <<Head(wire), shift>>
           /\ Head(wire) \notin Key => Head(Ahead) = Nul
<1>1. Len(wire) >= 1 /\ wire[1] = Head(wire) /\ 1 \in 1 .. Len(wire)
  BY DEF TypeOK
<1>2. Ahead # <<>> /\ Head(Ahead) = Typed(1)
  BY <1>1, AheadFacts
<1>3. QED BY <1>1, <1>2, ShiftNow, Zenon DEF Typed

\* Once a code has been handled, the later ones find the shift keys as before.
ShiftAfter == IF Head(wire) = "shift" THEN TRUE
              ELSE IF Head(wire) = "unshift" THEN FALSE ELSE shift

LEMMA ShiftMoves ==
    ASSUME TypeOK, wire # <<>>, wire' = Tail(wire), shift' = ShiftAfter,
           NEW i \in 1 .. (Len(wire) - 1)
    PROVE  ShiftAt(i)' = ShiftAt(i + 1)
<1>1. /\ Len(wire) \in Nat /\ wire[1] = Head(wire)
      /\ \A k \in 1 .. (Len(wire) - 1) : wire'[k] = wire[k + 1]
  BY DEF TypeOK
<1>2. shift \in BOOLEAN /\ shift' \in BOOLEAN
  BY Zenon DEF TypeOK, ShiftAfter
<1>3. shift' <=> wire[1] = "shift" \/ (shift /\ wire[1] # "unshift")
  BY <1>1, <1>2 DEF ShiftAfter
<1>4. ASSUME ShiftAt(i)' PROVE ShiftAt(i + 1)
  <2>1. PICK j \in 0 .. (i - 1) :
          /\ IF j = 0 THEN shift' ELSE wire'[j] = "shift"
          /\ \A k \in (j + 1) .. (i - 1) : wire'[k] # "unshift"
    BY <1>4 DEF ShiftAt
  <2>2. \A k \in (j + 2) .. i : wire[k] # "unshift"
    <3> SUFFICES ASSUME NEW k \in (j + 2) .. i PROVE wire[k] # "unshift"
      OBVIOUS
    <3>1. k - 1 \in (j + 1) .. (i - 1) /\ k - 1 \in 1 .. (Len(wire) - 1) /\ (k - 1) + 1 = k
      OBVIOUS
    <3>2. QED BY <1>1, <2>1, <3>1
  <2>3. CASE j # 0
    <3>1. j + 1 \in 0 .. ((i + 1) - 1) /\ wire[j + 1] = "shift" /\ j + 1 # 0
      BY <1>1, <2>1, <2>3
    <3>2. \A k \in ((j + 1) + 1) .. ((i + 1) - 1) : wire[k] # "unshift"
      BY <2>2
    <3>3. QED BY <3>1, <3>2 DEF ShiftAt
  <2>4. CASE j = 0 /\ wire[1] = "shift"
    <3>1. 1 \in 0 .. ((i + 1) - 1)
      OBVIOUS
    <3>2. \A k \in (1 + 1) .. ((i + 1) - 1) : wire[k] # "unshift"
      BY <2>2, <2>4
    <3>3. QED BY <2>4, <3>1, <3>2 DEF ShiftAt
  <2>5. CASE j = 0 /\ wire[1] # "shift"
    <3>1. shift /\ wire[1] # "unshift"
      BY <1>3, <2>1, <2>5
    <3>2. \A k \in (0 + 1) .. ((i + 1) - 1) : wire[k] # "unshift"
      <4> SUFFICES ASSUME NEW k \in 1 .. i PROVE wire[k] # "unshift"
        OBVIOUS
      <4>1. k = 1 \/ k \in 2 .. i
        OBVIOUS
      <4>2. QED BY <2>2, <2>5, <3>1, <4>1
    <3>3. 0 \in 0 .. ((i + 1) - 1)
      OBVIOUS
    <3>4. QED BY <3>1, <3>2, <3>3 DEF ShiftAt
  <2>6. QED BY <2>3, <2>4, <2>5
<1>5. ASSUME ShiftAt(i + 1) PROVE ShiftAt(i)'
  <2>1. PICK j \in 0 .. ((i + 1) - 1) :
          /\ IF j = 0 THEN shift ELSE wire[j] = "shift"
          /\ \A k \in (j + 1) .. ((i + 1) - 1) : wire[k] # "unshift"
    BY <1>5 DEF ShiftAt
  <2>2. \A k \in j .. (i - 1) : k >= 1 => wire'[k] # "unshift"
    <3> SUFFICES ASSUME NEW k \in j .. (i - 1), k >= 1 PROVE wire'[k] # "unshift"
      OBVIOUS
    <3>1. k + 1 \in (j + 1) .. ((i + 1) - 1) /\ k \in 1 .. (Len(wire) - 1)
      OBVIOUS
    <3>2. QED BY <1>1, <2>1, <3>1
  <2>3. CASE j >= 2
    <3>1. /\ j - 1 \in 0 .. (i - 1) /\ j - 1 # 0 /\ j - 1 \in 1 .. (Len(wire) - 1)
          /\ (j - 1) + 1 = j
      BY <2>3
    <3>2. wire'[j - 1] = "shift"
      BY <1>1, <2>1, <2>3, <3>1
    <3>3. \A k \in ((j - 1) + 1) .. (i - 1) : wire'[k] # "unshift"
      BY <2>2, <2>3
    <3>4. QED BY <3>1, <3>2, <3>3 DEF ShiftAt
  <2>4. CASE j < 2
    <3>1. shift'
      <4>1. CASE j = 1
        BY <1>3, <2>1, <4>1
      <4>2. CASE j = 0
        <5>1. 1 \in (j + 1) .. ((i + 1) - 1)
          BY <4>2
        <5>2. QED BY <1>3, <2>1, <4>2, <5>1
      <4>3. QED BY <2>4, <4>1, <4>2
    <3>2. \A k \in (0 + 1) .. (i - 1) : wire'[k] # "unshift"
      BY <2>2, <2>4
    <3>3. 0 \in 0 .. (i - 1)
      OBVIOUS
    <3>4. QED BY <3>1, <3>2, <3>3 DEF ShiftAt
  <2>5. QED BY <2>3, <2>4
<1>6. QED BY <1>4, <1>5, Zenon DEF ShiftAt

\* A key coming in is one more at the end.
LEMMA TypeAppends ==
    ASSUME TypeOK, NEW code \in Scancode, Type(code)
    PROVE  \E c \in Char \cup {Nul} : Ahead' = Append(Ahead, c)
<1>n. PICK n \in Nat : n = Len(wire)
  BY DEF TypeOK
<1>1. /\ n \in Nat /\ wire' = Append(wire, code) /\ Len(wire') = n + 1 /\ shift' = shift
      /\ wire'[n + 1] = code /\ \A i \in 1 .. n : wire'[i] = wire[i]
  BY <1>n DEF TypeOK, Type
<1>2. ASSUME NEW i \in 1 .. n PROVE ShiftAt(i)' = ShiftAt(i)
  <2>1. \A j \in 0 .. (i - 1) : j # 0 => wire'[j] = wire[j]
    BY <1>1
  <2>2. \A j \in 0 .. (i - 1) : \A k \in (j + 1) .. (i - 1) : wire'[k] = wire[k]
    BY <1>1
  <2>3. \A j \in 0 .. (i - 1) :
          (IF j = 0 THEN shift' ELSE wire'[j] = "shift") <=> (IF j = 0 THEN shift ELSE wire[j] = "shift")
    BY <1>1, <2>1
  <2>4. ShiftAt(i)' <=> ShiftAt(i)
    BY <2>2, <2>3, Zenon DEF ShiftAt
  <2>5. QED BY <2>4, Zenon DEF ShiftAt
<1>3. \A i \in 1 .. n : Typed(i)' = Typed(i)
  BY <1>1, <1>2, Zenon DEF Typed
<1> DEFINE c == Typed(n + 1)'
<1>4. c \in Char \cup {Nul}
  <2>1. ShiftAt(n + 1)' \in BOOLEAN
    BY Zenon DEF ShiftAt
  <2>2. QED BY <2>1, Zenon DEF Typed, Char
<1>5. Ahead' = [i \in 1 .. (n + 1) |-> Typed(i)']
  BY <1>n, <1>1 DEF Ahead
<1>6. Append(Ahead, c) = [i \in 1 .. (n + 1) |-> IF i = n + 1 THEN c ELSE Ahead[i]]
  BY AheadFacts, <1>n, <1>1
<1>7. ASSUME NEW i \in 1 .. (n + 1)
      PROVE  Typed(i)' = IF i = n + 1 THEN c ELSE Ahead[i]
  <2>1. CASE i = n + 1
    BY <2>1
  <2>2. CASE i # n + 1
    <3>1. i \in 1 .. n
      BY <1>1, <2>2
    <3>2. QED BY <1>n, <1>3, <2>2, <3>1, AheadFacts
  <2>3. QED BY <2>1, <2>2
<1> HIDE DEF c
<1>8. Ahead' = Append(Ahead, c)
  BY <1>5, <1>6, <1>7, Zenon
<1>9. QED BY <1>4, <1>8

\* Handling a code takes it from the front.
LEMMA HandleTakes ==
    ASSUME TypeOK, wire # <<>>, wire' = Tail(wire), shift' = ShiftAfter
    PROVE  Ahead' = Tail(Ahead)
<1> DEFINE n == Len(wire)
<1>1. /\ n \in Nat /\ n >= 1 /\ Len(wire') = n - 1
      /\ \A i \in 1 .. (n - 1) : wire'[i] = wire[i + 1] /\ i + 1 \in 1 .. n
  BY DEF TypeOK
<1>2. Tail(Ahead) = [i \in 1 .. (n - 1) |-> Ahead[i + 1]]
  <2>1. Ahead \in Seq(Char \cup {Nul}) /\ Ahead # <<>> /\ Len(Ahead) = n
    BY AheadFacts, HeadTyped
  <2>2. QED BY <2>1, TailValue
<1>3. \A i \in 1 .. (n - 1) : Typed(i)' = Ahead[i + 1]
  <2> SUFFICES ASSUME NEW i \in 1 .. (n - 1) PROVE Typed(i)' = Ahead[i + 1]
    OBVIOUS
  <2>1. Ahead[i + 1] = Typed(i + 1) /\ wire'[i] = wire[i + 1]
    BY <1>1, AheadFacts
  <2>2. QED BY <2>1, ShiftMoves, Zenon DEF Typed
<1>4. Ahead' = [i \in 1 .. (n - 1) |-> Typed(i)']
  BY <1>1 DEF Ahead
<1>5. QED BY <1>2, <1>3, <1>4

LEMMA SameFifo ==
    ASSUME UNCHANGED <<ring, result, wire, shift>>
    PROVE  UNCHANGED Fifo!vars
<1>1. \A i \in 1 .. Len(wire) : Typed(i)' = Typed(i)
  BY Zenon DEF Typed, ShiftAt
<1>2. UNCHANGED [i \in 1 .. Len(wire) |-> Typed(i)]
  BY <1>1
<1>3. UNCHANGED [i \in 1 .. Waiting |-> Queued(i)]
  BY SameQueue
<1>4. QED BY <1>2, <1>3 DEF Fifo!vars

LEMMA KeyRefines ==
    ASSUME Inv, Inv', KeyInterrupt
    PROVE  Fifo!Put \/ Fifo!Drop \/ Fifo!Pass
<1>1. /\ TypeOK /\ wire # <<>> /\ wire' = Tail(wire) /\ result' = result
      /\ first' = first
  BY DEF KeyInterrupt, Inv, ring
<1>2. shift' = ShiftAfter
  <2>1. "shift" \notin Key /\ "unshift" \notin Key /\ "other" \notin Key
    BY SizeAssumption
  <2>2. QED BY <2>1, Zenon DEF KeyInterrupt, ShiftAfter
<1>3. Ahead' = Tail(Ahead) /\ Ahead # <<>>
  BY <1>1, <1>2, HandleTakes, HeadTyped
<1>4. Queue \in Seq(Char) /\ Len(Queue) = Waiting /\ Waiting \in 0 .. (BufferSize - 1)
  BY QueueFacts
<1>5. CASE Head(wire) \notin Key
  <2>1. UNCHANGED ring
    BY <1>5 DEF KeyInterrupt, ring
  <2>2. Queue' = Queue
    BY <2>1, SameQueue DEF Queue
  <2>3. Head(Ahead) = Nul
    BY <1>1, <1>5, HeadTyped
  <2>4. Fifo!Pass
    BY <1>1, <1>3, <2>2, <2>3 DEF Fifo!Pass, Queue, Ahead
  <2>5. QED BY <2>4
<1>6. CASE Head(wire) \in Key
  <2> DEFINE new == <<Head(wire), shift>>
  <2>1. new \in Char
    BY <1>1, <1>6, Zenon DEF Char, TypeOK
  <2>2. Store(new)
    BY <1>6, SizeAssumption DEF KeyInterrupt
  <2>3. Head(Ahead) = new
    BY <1>1, <1>6, HeadTyped
  <2> HIDE DEF new
  <2>4. CASE Waiting = BufferSize - 1 /\ UNCHANGED <<buffer, last>>
    <3>1. Queue' = Queue
      BY <1>1, <2>4, SameQueue DEF Queue, ring
    <3>2. Fifo!Drop
      BY <1>1, <1>3, <1>4, <2>1, <2>3, <2>4, <3>1 DEF Fifo!Drop, Queue, Ahead
    <3>3. QED BY <3>2
  <2>5. CASE /\ Waiting' = Waiting + 1
             /\ Waiting < BufferSize - 1
             /\ \A i \in 1 .. Waiting : Queued(i)' = Queued(i)
             /\ Queued(Waiting)' = new
    <3>1. Queue' = [i \in 1 .. Waiting' |-> Queued(i)']
      BY DEF Queue
    <3>2. Append(Queue, new) = [i \in 1 .. (Waiting + 1) |->
                                  IF i = Waiting + 1 THEN new ELSE Queue[i]]
      BY <1>4, <2>1, AppendValue
    <3>3. ASSUME NEW i \in 1 .. (Waiting + 1)
          PROVE  Queued(i)' = IF i = Waiting + 1 THEN new ELSE Queue[i]
      <4>1. CASE i = Waiting + 1
        <5>1. i = Waiting'
          BY <2>5, <4>1
        <5>2. QED BY <2>5, <4>1, <5>1
      <4>2. CASE i # Waiting + 1
        BY <1>4, <2>5, <4>2 DEF Queue
      <4>3. QED BY <4>1, <4>2
    <3>4. Queue' = Append(Queue, new)
      BY <2>5, <3>1, <3>2, <3>3
    <3>5. Fifo!Put
      BY <1>1, <1>3, <1>4, <2>1, <2>3, <2>5, <3>4 DEF Fifo!Put, Queue, Ahead
    <3>6. QED BY <3>5
  <2>6. QED BY <1>1, <2>1, <2>2, <2>4, <2>5, StoreAppends
<1>7. QED BY <1>5, <1>6

LEMMA AdvanceRefines ==
    ASSUME Inv, Inv', Advance
    PROVE  Fifo!Take
<1>1. /\ HasInput /\ char = buffer[first] /\ TypeOK
      /\ first' = Succ(first) /\ UNCHANGED <<buffer, last>>
      /\ result' = <<char>> /\ UNCHANGED <<wire, shift>>
  BY DEF Inv, ReaderOwnsSlot, Advance
<1>2. /\ Waiting \in 1 .. (BufferSize - 1)
      /\ Waiting' = Waiting - 1
      /\ Queued(1) = buffer[first]
      /\ \A i \in 1 .. (Waiting - 1) : Queued(i)' = Queued(i + 1)
  BY <1>1, AdvanceTakes
<1>3. Queue \in Seq(Char) /\ Len(Queue) = Waiting
  BY QueueFacts
<1>4. Queue # <<>> /\ Head(Queue) = char
  BY <1>1, <1>2, <1>3 DEF Queue
<1>5. Queue' = Tail(Queue)
  <2>1. Tail(Queue) = [i \in 1 .. (Waiting - 1) |-> Queue[i + 1]]
    BY <1>2, <1>3, <1>4, TailValue
  <2>2. Queue' = [i \in 1 .. (Waiting - 1) |-> Queued(i)']
    BY <1>2 DEF Queue
  <2>3. \A i \in 1 .. (Waiting - 1) : Queue[i + 1] = Queued(i)'
    BY <1>2 DEF Queue
  <2>4. QED BY <2>1, <2>2, <2>3
<1>6. \A i \in 1 .. Len(wire) : Typed(i)' = Typed(i)
  BY <1>1, Zenon DEF Typed, ShiftAt
<1>7. Ahead' = Ahead
  BY <1>1, <1>6 DEF Ahead
<1>8. QED BY <1>1, <1>4, <1>5, <1>7 DEF Fifo!Take, Queue, Ahead

LEMMA NextRefines == Inv /\ Inv' /\ [Next]_vars => [Fifo!Next]_(Fifo!vars)
<1> SUFFICES ASSUME Inv, Inv', [Next]_vars PROVE [Fifo!Next]_(Fifo!vars)
  OBVIOUS
<1>1. CASE KeyInterrupt
  BY <1>1, KeyRefines DEF Fifo!Next
<1>2. CASE Advance
  BY <1>2, AdvanceRefines DEF Fifo!Next
<1>3. CASE CallGetchar
  <2>1. UNCHANGED <<ring, wire, shift>> /\ result' = <<>>
    BY <1>3 DEF CallGetchar
  <2>2. \A i \in 1 .. Len(wire) : Typed(i)' = Typed(i)
    BY <2>1, Zenon DEF Typed, ShiftAt
  <2>3. UNCHANGED [i \in 1 .. Len(wire) |-> Typed(i)]
    BY <2>1, <2>2
  <2>4. UNCHANGED [i \in 1 .. Waiting |-> Queued(i)]
    BY <2>1, SameQueue
  <2>5. Fifo!Ask
    BY <2>1, <2>3, <2>4 DEF Fifo!Ask
  <2>6. QED BY <2>5 DEF Fifo!Next
<1>4. CASE \E code \in Scancode : Type(code)
  <2>1. PICK code \in Scancode : Type(code)
    BY <1>4
  <2>2. PICK c \in Char \cup {Nul} : Ahead' = Append(Ahead, c)
    BY <2>1, TypeAppends DEF Inv
  <2>3. UNCHANGED ring /\ UNCHANGED result
    BY <2>1 DEF Type
  <2>4. Queue' = Queue
    BY <2>3, SameQueue DEF Queue
  <2>5. Fifo!Type(c)
    BY <2>2, <2>3, <2>4 DEF Fifo!Type, Queue, Ahead
  <2>6. QED BY <2>5 DEF Fifo!Next
<1>5. CASE \/ TimerInterrupt \/ Check \/ Hlt \/ Read \/ SwitchProgram
           \/ UNCHANGED vars
  <2>1. UNCHANGED <<ring, result, wire, shift>>
    BY <1>5 DEF TimerInterrupt, Check, Hlt, Read, SwitchProgram, vars, ring
  <2>2. QED BY <2>1, SameFifo
<1>6. QED BY <1>1, <1>2, <1>3, <1>4, <1>5 DEF Next, Run

-----------------------------------------------------------------------------
(* keyboard_handler and keyboard_getchar keep the ring's indices in range    *)
(* and the buffer holds only characters, whatever the ring's size and        *)
(* whatever is typed; every character read was typed.                        *)
THEOREM Invariance == Spec => []Inv
  BY InitInv, NextInv, PTL DEF Spec

(* No interrupt ever overwrites the slot keyboard_getchar is reading, though *)
(* it reads with interrupts on and takes no lock.                            *)
THEOREM ReaderIsSafe == Spec => []ReaderOwnsSlot
<1>1. Inv => ReaderOwnsSlot
  BY DEF Inv
<1>2. QED BY <1>1, Invariance, PTL

(* The interrupt handler and the reader together are a bounded queue of what *)
(* is typed: every character comes out once, in the order and with the shift *)
(* it was typed in, and a key is dropped only when BufferSize - 1 characters *)
(* already wait.                                                             *)
THEOREM RingImplementsFifo == Spec => ImplementsFifo
<1>1. Init => Fifo!Init
  <2>1. ASSUME Init PROVE Waiting = 0
    BY <2>1, SizeAssumption, WaitingValue DEF Init, Index
  <2>2. ASSUME Init PROVE Queue = <<>>
    <3>1. Queue \in [1 .. 0 -> Char]
      BY <2>1, <2>2 DEF Queue
    <3>2. QED BY <3>1
  <2>3. ASSUME Init PROVE Ahead = <<>>
    <3>1. Len(wire) = 0
      BY <2>3 DEF Init
    <3>2. Ahead \in [1 .. 0 -> Char]
      BY <3>1 DEF Ahead
    <3>3. QED BY <3>2
  <2>4. QED BY <2>2, <2>3 DEF Init, Fifo!Init, Queue, Ahead
<1>2. QED
  BY <1>1, NextRefines, Invariance, PTL DEF Spec, Fifo!Spec, ImplementsFifo

-----------------------------------------------------------------------------
(* The drive: what its driver and it know of each other                     *)

\* What a caller of block.c asks for is a sector for the place it is for.
CallOK ==
    /\ phase \in {"issue", "poll"} <=> call # NoCall
    /\ call.op = "write" => call.data.lba = call.lba
    /\ phase \in {"start", "identify"} => ~present
    /\ ~present => phase \in {"start", "identify", "idle"} /\ command \in {"none", "identify"}

\* The drive reports an error only at rest, and none is forgotten.
ErrorOK == error => mode = "ready" /\ lost

\* As long as nothing was hasty or late, the drive is at what the driver wants of
\* it, or stores the last sector while the driver rests.
InStep ==
    risk = {} /\ present =>
      /\ phase = "idle" => mode = "ready" \/ (mode = "busy" /\ command = "store")
      /\ phase = "issue" => mode = "ready"
      /\ phase = "poll" => command = call.op /\ (call.op = "flush" => mode # "data")
      /\ phase \in {"issue", "poll"} /\ call.op # "flush" => address = call.lba
      /\ phase = "idle" /\ mode = "busy" => sector.lba = address
      /\ phase = "poll" /\ mode = "data" /\ call.op = "read" => sector = disk[address]

\* What the drive has still to store
Pending ==
    IF phase \in {"issue", "poll"} /\ call.op = "write" THEN [disk EXCEPT ![call.lba] = call.data]
    ELSE IF present /\ mode = "busy" /\ command = "store" THEN [disk EXCEPT ![address] = sector]
    ELSE disk

NothingForgotten == risk = {} /\ ~lost => latest = Pending

AtaInv == AtaTypeOK /\ CallOK /\ ErrorOK /\ InStep /\ NothingMisplaced /\ NothingForgotten

LEMMA CallFields ==
    ASSUME NEW c \in Call
    PROVE  /\ c.op \in {"none", "read", "write", "flush"}
           /\ c.op = "none" <=> c = NoCall
           /\ c.op \in {"read", "write"} => c.lba \in Lba
           /\ c.op = "write" => c.data \in Data
<1>1. \/ c = NoCall \/ c \in [op : {"read"}, lba : Lba]
      \/ c \in [op : {"write"}, lba : Lba, data : Data] \/ c \in [op : {"flush"}]
  BY DEF Call
<1>2. NoCall.op = "none"
  BY DEF NoCall
<1>3. QED BY <1>1, <1>2

LEMMA AtaInitInv == AtaInit => AtaInv
<1> SUFFICES ASSUME AtaInit PROVE AtaInv
  OBVIOUS
<1>1. NoCall \in Call /\ NoCall.op = "none"
  BY DEF Call, NoCall
<1>2. AtaTypeOK
  BY <1>1 DEF AtaInit, AtaTypeOK
<1>3. CallOK /\ ErrorOK /\ InStep /\ NothingMisplaced /\ NothingForgotten
  BY <1>1 DEF AtaInit, CallOK, ErrorOK, InStep, NothingMisplaced, NothingForgotten, Pending
<1>4. QED BY <1>2, <1>3 DEF AtaInv

LEMMA AtaNextTypeOK == AtaTypeOK /\ [AtaNext]_ataVars => AtaTypeOK'
<1> SUFFICES ASSUME AtaTypeOK, [AtaNext]_ataVars PROVE AtaTypeOK'
  OBVIOUS
<1>1. NoCall \in Call
  BY DEF Call
<1> USE <1>1, CallFields DEF AtaTypeOK, Return, drive
<1>2. CASE Drive
  <2>1. CASE DriveReady
    BY <1>2, <2>1 DEF Drive, DriveReady
  <2>2. CASE DriveDone
    BY <1>2, <2>2 DEF Drive, DriveDone
  <2>3. CASE DriveError
    BY <1>2, <2>3 DEF Drive, DriveError
  <2>4. QED BY <1>2, <2>1, <2>2, <2>3 DEF Drive
<1>3. CASE Identify \/ IdentifyRead \/ IdentifyFail \/ Refuse
  <2>1. CASE Identify
    BY <2>1 DEF Identify
  <2>2. CASE IdentifyRead
    BY <2>2 DEF IdentifyRead
  <2>3. CASE IdentifyFail
    BY <2>3 DEF IdentifyFail
  <2>4. CASE Refuse
    BY <2>4 DEF Refuse
  <2>5. QED BY <1>3, <2>1, <2>2, <2>3, <2>4
<1>4. CASE \E c \in Call \ {NoCall} : Start(c)
  BY <1>4 DEF Start
<1>5. CASE Issue
  BY <1>5 DEF Issue
<1>6. CASE PollRead
  BY <1>6 DEF PollRead
<1>7. CASE PollWrite
  BY <1>7 DEF PollWrite
<1>8. CASE PollFlush \/ PollError
  <2>1. CASE PollFlush
    BY <2>1 DEF PollFlush
  <2>2. CASE PollError
    BY <2>2 DEF PollError
  <2>3. QED BY <1>8, <2>1, <2>2
<1>9. CASE PollTimeout
  BY <1>9 DEF PollTimeout
<1>10. CASE UNCHANGED ataVars
  BY <1>10 DEF ataVars
<1>11. QED
  BY <1>2, <1>3, <1>4, <1>5, <1>6, <1>7, <1>8, <1>9, <1>10 DEF AtaNext, Driver

\* Why the driver and the drive stay in step, one action after another
LEMMA NextInStep == AtaInv /\ [AtaNext]_ataVars => CallOK' /\ ErrorOK' /\ InStep' /\ NothingMisplaced' /\ NothingForgotten'
<1> SUFFICES ASSUME AtaInv, [AtaNext]_ataVars
             PROVE  CallOK' /\ ErrorOK' /\ InStep' /\ NothingMisplaced' /\ NothingForgotten'
  OBVIOUS
<1>1. AtaTypeOK /\ call \in Call
  BY DEF AtaInv, AtaTypeOK
<1>2. NoCall.op = "none" /\ NoCall \in Call
  BY DEF NoCall, Call
<1> USE <1>1, <1>2, CallFields DEF AtaInv, CallOK, ErrorOK, InStep, NothingMisplaced, NothingForgotten, Pending, Return, drive
<1>3. CASE Drive /\ DriveReady
  BY <1>3 DEF Drive, DriveReady, AtaTypeOK
<1>4. CASE Drive /\ DriveDone
  BY <1>4 DEF Drive, DriveDone, AtaTypeOK
<1>5. CASE Drive /\ DriveError
  BY <1>5 DEF Drive, DriveError, AtaTypeOK
<1>6. CASE Identify
  BY <1>6 DEF Identify
<1>7. CASE IdentifyRead
  BY <1>7 DEF IdentifyRead
<1>8. CASE IdentifyFail
  BY <1>8 DEF IdentifyFail
<1>9. CASE Refuse
  BY <1>9 DEF Refuse
<1>10. ASSUME NEW c \in Call \ {NoCall}, c.op = "write" => c.data.lba = c.lba, Start(c)
       PROVE  CallOK' /\ ErrorOK' /\ InStep' /\ NothingMisplaced' /\ NothingForgotten'
  BY <1>10 DEF Start, AtaTypeOK
<1>11. CASE Issue
  BY <1>11 DEF Issue
<1>12. CASE PollRead
  BY <1>12 DEF PollRead
<1>13. CASE PollWrite
  BY <1>13 DEF PollWrite, AtaTypeOK
<1>14. CASE PollFlush
  BY <1>14 DEF PollFlush
<1>15. CASE PollError
  BY <1>15 DEF PollError
<1>16. CASE PollTimeout
  BY <1>16 DEF PollTimeout
<1>17. CASE UNCHANGED ataVars
  BY <1>17 DEF ataVars
<1>18. QED
  BY <1>3, <1>4, <1>5, <1>6, <1>7, <1>8, <1>9, <1>10, <1>11, <1>12, <1>13, <1>14, <1>15, <1>16, <1>17
     DEF AtaNext, Driver, Drive

-----------------------------------------------------------------------------
LEMMA AtaInvariance == AtaSpec => []AtaInv
<1>1. AtaInv /\ [AtaNext]_ataVars => AtaInv'
  BY AtaNextTypeOK, NextInStep DEF AtaInv
<1>2. QED BY AtaInitInv, <1>1, PTL DEF AtaSpec

\* The variables of the drive and of ata.c keep their types.
THEOREM DriveTypeCorrect == AtaSpec => []AtaTypeOK
<1>1. AtaInv => AtaTypeOK
  BY DEF AtaInv
<1>2. QED BY <1>1, AtaInvariance, PTL

\* ata_write_sectors puts no sector in the place of another, whatever fails, until a
\* call finds the drive busy or a poll gives up on it.
THEOREM SectorsKeepTheirPlace == AtaSpec => []NothingMisplaced
<1>1. AtaInv => NothingMisplaced
  BY DEF AtaInv
<1>2. QED BY <1>1, AtaInvariance, PTL

\* What ata_write_sectors has sent is on the disk once the drive is at rest.
THEOREM SectorsArrive == AtaSpec => []WritesArrive
<1>1. AtaInv => WritesArrive
  BY DEF AtaInv, NothingForgotten, Pending, WritesArrive
<1>2. QED BY <1>1, AtaInvariance, PTL

\* A read that ata_read_sectors calls good is of the sector asked for, and is what was
\* last written there if nothing has failed.
THEOREM ReadsAreRight == AtaSpec => ReadIsRight
<1> DEFINE Right ==
      phase = "poll" /\ call.op = "read" /\ phase' = "idle" /\ reply'.ok /\ risk = {} =>
           /\ reply'.data.lba = call.lba
           /\ ~lost' => reply'.data = latest[call.lba]
<1>1. AtaInv /\ [AtaNext]_ataVars => [Right]_ataVars
  <2> SUFFICES ASSUME AtaInv, [AtaNext]_ataVars, phase = "poll", call.op = "read", phase' = "idle", reply'.ok, risk = {}
               PROVE  reply'.data.lba = call.lba /\ (~lost' => reply'.data = latest[call.lba])
    OBVIOUS
  <2>1. PollRead
    BY DEF AtaNext, Drive, Driver, Identify, IdentifyRead, IdentifyFail, Refuse, Start, Issue, PollWrite,
         PollFlush, PollError, PollTimeout, Return, ataVars
  <2>2. present /\ call.lba \in Lba
    BY CallFields DEF AtaInv, CallOK, AtaTypeOK
  <2>3. command = "read" /\ address = call.lba /\ sector = disk[address]
    BY <2>1, <2>2 DEF PollRead, AtaInv, InStep
  <2>4. reply'.data = disk[call.lba] /\ lost' = lost
    BY <2>1, <2>3 DEF PollRead, Return
  <2>5. disk[call.lba].lba = call.lba
    BY <2>2 DEF AtaInv, NothingMisplaced
  <2>6. ~lost => latest = disk
    BY <2>3 DEF AtaInv, NothingForgotten, Pending
  <2>7. QED BY <2>4, <2>5, <2>6
<1>2. QED BY <1>1, AtaInvariance, PTL DEF AtaSpec, ReadIsRight
=============================================================================
