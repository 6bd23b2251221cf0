--------------------------- MODULE Program_proofs ---------------------------
(* Proofs about Program, for any number of handles, any files and programs,  *)
(* and a clock with any registers.                                           *)
EXTENDS Program, FiniteSetTheorems, SequenceTheorems, WellFoundedInduction, TLAPS

-----------------------------------------------------------------------------
(* The table of handles                                                      *)

LEMMA LeastElement ==
    ASSUME NEW S, S \subseteq Nat, S # {}
    PROVE  \E x \in S : \A y \in S : x =< y
<1>1. PICK x \in S : \A y \in S : ~ (<<y, x>> \in OpToRel(<, Nat))
  BY NatLessThanWellFounded, WFMin, Zenon
<1>2. \A y \in S : y \in Nat /\ ~ (y < x)
  BY <1>1 DEF OpToRel
<1>3. QED BY <1>2

\* find_free_fd gives the first free handle, or none if there is none.
LEMMA FindFreeIsFree ==
    \/ /\ FindFree \in Fd /\ table[FindFree] = None /\ FindFree # NoFd
       /\ \A d \in Fd : table[d] = None => FindFree =< d
    \/ FindFree = NoFd /\ \A d \in Fd : table[d] # None
<1>1. CASE \E d \in Fd : table[d] = None
  <2> DEFINE Open == {d \in Fd : table[d] = None}
             First(d) == d \in Fd /\ table[d] = None /\ \A e \in 0 .. d - 1 : table[e] # None
  <2>1. Open \subseteq Nat /\ Open # {}
    BY <1>1 DEF Fd
  <2>2. PICK x \in Open : \A y \in Open : x =< y
    BY <2>1, LeastElement
  <2>3. First(x)
    BY <2>1, <2>2, ProgramAssumption DEF Fd
  <2>4. FindFree = CHOOSE d \in Fd : table[d] = None /\ \A e \in 0 .. d - 1 : table[e] # None
    BY <1>1 DEF FindFree
  <2>5. First(FindFree)
    BY <2>3, <2>4
  <2>6. QED BY <2>5, ProgramAssumption DEF Fd, NoFd
<1>2. CASE \A d \in Fd : table[d] # None
  BY <1>2 DEF FindFree
<1>3. QED BY <1>1, <1>2

-----------------------------------------------------------------------------
(* The clock                                                                 *)

Time == {t \in [Register -> 0 .. 99] : \A r \in Register : t[r] < Limit[r]}

\* While registers are read no update is due, so that all that has been read is of
\* the time it is; later the time may go on.
RtcInv ==
    /\ at \in 0 .. Len(Limit) + 2
    /\ bcd \in BOOLEAN /\ uip \in BOOLEAN /\ quiet \in Nat
    /\ at = 0 => ~uip /\ told = <<>>
    /\ at # 0 => now \in shown /\ shown \subseteq Time
    /\ at = 1 => sample = <<>>
    /\ at - 1 \in Register =>
          ~uip /\ quiet = Window - (at - 2) /\ sample = [r \in 1 .. at - 2 |-> Encode(now[r])]
    /\ at = Len(Limit) + 2 => \E t \in shown : sample = [r \in Register |-> Encode(t[r])]
    /\ told # <<>> => at = Len(Limit) + 2 /\ told \in shown

LEMMA Registers ==
    /\ Len(Limit) \in Nat \ {0} /\ Register = 1 .. Len(Limit)
    /\ \A r \in Register : Limit[r] \in 1 .. 100
<1>1. Limit \in Seq(1 .. 100) /\ Limit # <<>>
  BY RtcAssumption
<1>2. Len(Limit) \in Nat /\ Limit \in [1 .. Len(Limit) -> 1 .. 100] /\ DOMAIN Limit = 1 .. Len(Limit)
  BY <1>1, LenProperties
<1>3. Len(Limit) # 0
  BY <1>1, EmptySeq
<1>4. QED BY <1>2, <1>3 DEF Register

LEMMA LaterIsTime == ASSUME NEW t \in Time PROVE Later(t) \in Time
<1>1. \A r \in Register : Limit[r] \in 1 .. 100 /\ t[r] \in 0 .. 99 /\ t[r] < Limit[r]
  <2>1. t \in [Register -> 0 .. 99] /\ \A r \in Register : t[r] < Limit[r]
    BY DEF Time
  <2>2. \A r \in Register : t[r] \in 0 .. 99
    BY <2>1
  <2>3. \A r \in Register : Limit[r] \in 1 .. 100
    BY Registers, Zenon
  <2>4. QED BY <2>1, <2>2, <2>3
<1>2. \A n \in Nat, k \in 1 .. 100 : n % k \in 0 .. 99 /\ n % k < k
  <2>1. \A n \in Nat, k \in Nat \ {0} : n % k \in 0 .. k - 1
    OBVIOUS
  <2>2. ASSUME NEW n \in Nat, NEW k \in 1 .. 100 PROVE n % k \in 0 .. 99 /\ n % k < k
    <3>1. PICK m \in 0 .. k - 1 : m = n % k
      BY <2>1
    <3>2. QED BY <3>1
  <2>3. QED BY <2>2
<1>3. \A r \in Register : (t[r] + 1) % Limit[r] \in 0 .. 99 /\ (t[r] + 1) % Limit[r] < Limit[r]
  <2> SUFFICES ASSUME NEW r \in Register PROVE (t[r] + 1) % Limit[r] \in 0 .. 99 /\ (t[r] + 1) % Limit[r] < Limit[r]
    OBVIOUS
  <2>1. t[r] + 1 \in Nat /\ Limit[r] \in 1 .. 100
    BY <1>1
  <2>2. QED BY <1>2, <2>1
<1>4. \A r \in Register : Later(t)[r] \in {t[r], (t[r] + 1) % Limit[r]}
  BY DEF Later
<1>5. Later(t) = [r \in Register |-> Later(t)[r]]
  BY DEF Later
<1>6. QED BY <1>1, <1>3, <1>4, <1>5 DEF Time

\* bcd_to_binary undoes what the chip does, for all numbers of two digits.
LEMMA DecodeEncode == ASSUME bcd \in BOOLEAN, NEW v \in 0 .. 99 PROVE Decode(Encode(v)) = v
<1>1. CASE bcd
  <2>1. v \div 10 \in 0 .. 9 /\ v % 10 \in 0 .. 9 /\ v = (v \div 10) * 10 + (v % 10)
    OBVIOUS
  <2>2. \A a, b \in 0 .. 9 : (a * 16 + b) \div 16 = a /\ (a * 16 + b) % 16 = b
    OBVIOUS
  <2>3. QED BY <1>1, <2>1, <2>2 DEF Decode, Encode
<1>2. CASE ~bcd
  BY <1>2 DEF Decode, Encode
<1>3. QED BY <1>1, <1>2

LEMMA AppendNext ==
    ASSUME NEW n \in Nat, NEW e
    PROVE  Append([r \in 1 .. n |-> e[r]], e[n + 1]) = [r \in 1 .. n + 1 |-> e[r]]
<1> DEFINE s == [r \in 1 .. n |-> e[r]]
           S == {e[r] : r \in 1 .. n + 1}
<1>1. s \in Seq(S) /\ Len(s) = n
  BY IsASeq
<1>2. e[n + 1] \in S
  OBVIOUS
<1>3. QED BY <1>1, <1>2, AppendProperties

LEMMA RtcStart == RtcIdle => RtcInv
<1> SUFFICES ASSUME RtcIdle PROVE RtcInv
  OBVIOUS
<1>1. at = 0 /\ ~uip /\ ~bcd /\ bcd \in BOOLEAN /\ uip \in BOOLEAN /\ quiet = 0 /\ told = <<>>
  BY DEF RtcIdle
<1>2. at - 1 \notin Register /\ at # Len(Limit) + 2 /\ at \in 0 .. Len(Limit) + 2
  BY <1>1, Registers
<1>3. QED BY <1>1, <1>2 DEF RtcInv

LEMMA RtcStep == RtcInv /\ [RtcNext]_clock => RtcInv'
<1> SUFFICES ASSUME RtcInv, [RtcNext]_clock PROVE RtcInv'
  OBVIOUS
<1> USE Registers
<1>0. at \in 0 .. Len(Limit) + 2
  BY DEF RtcInv
<1>1. CASE CallTime
  <2>1. at' = 1 /\ quiet' = 0 /\ sample' = <<>> /\ told' = <<>> /\ shown' = {now'}
    BY <1>1 DEF CallTime
  <2>2. now' \in Time
    BY <1>1, RtcAssumption DEF CallTime, Time, Register
  <2>3. bcd' \in BOOLEAN /\ uip' \in BOOLEAN
    BY <1>1 DEF CallTime
  <2>4. QED BY <2>1, <2>2, <2>3 DEF RtcInv
<1>2. CASE ChipWarn
  <2>1. at - 1 \notin Register
    BY <1>2, RtcAssumption DEF ChipWarn, RtcInv
  <2>2. QED BY <1>2, <2>1 DEF ChipWarn, RtcInv, Encode
<1>3. CASE ChipUpdate
  <2>1. at # 0 /\ at - 1 \notin Register
    BY <1>3 DEF ChipUpdate, RtcInv
  <2>2. now' \in Time
    BY <1>3, <2>1, LaterIsTime DEF ChipUpdate, RtcInv
  <2>3. now' \in shown' /\ shown' \subseteq Time /\ shown \subseteq shown'
    BY <1>3, <2>1, <2>2 DEF ChipUpdate, RtcInv
  <2>4. UNCHANGED <<bcd, quiet, at, sample, told>> /\ uip' = FALSE
    BY <1>3 DEF ChipUpdate
  <2>5. at = Len(Limit) + 2 => \E t \in shown' : sample' = [r \in Register |-> Encode(t[r])']
    BY <2>3, <2>4 DEF RtcInv, Encode
  <2>6. told' # <<>> => at' = Len(Limit) + 2 /\ told' \in shown'
    BY <2>3, <2>4 DEF RtcInv
  <2>7. at' \in 0 .. Len(Limit) + 2 /\ bcd' \in BOOLEAN /\ uip' \in BOOLEAN /\ quiet' \in Nat
    BY <2>4 DEF RtcInv
  <2>8. at' # 0 /\ at' - 1 \notin Register /\ (at' = 1 => sample' = <<>>)
    BY <2>1, <2>4 DEF RtcInv
  <2>9. at' = Len(Limit) + 2 => \E t \in shown' : sample' = [r \in Register |-> Encode(t[r])']
    BY <2>4, <2>5
  <2>10. QED BY <2>3, <2>6, <2>7, <2>8, <2>9 DEF RtcInv
<1>4. CASE Poll
  <2>1. at = 1 /\ at' = 2 /\ ~uip /\ quiet' = Window /\ UNCHANGED <<now, uip, bcd, sample, told, shown>>
    BY <1>4 DEF Poll
  <2>2. sample' = [r \in 1 .. 0 |-> Encode(now[r])']
    BY <2>1 DEF RtcInv
  <2>3. at' - 1 \in Register /\ at' - 2 = 0
    BY <2>1
  <2>4. told = <<>>
    BY <2>1 DEF RtcInv
  <2>5. QED BY <2>1, <2>2, <2>3, <2>4, RtcAssumption DEF RtcInv
<1>5. CASE ReadRegister
  <2>1. /\ at - 1 \in Register /\ at' = at + 1 /\ ~uip /\ told = <<>>
        /\ quiet = Window - (at - 2) /\ quiet' = quiet - 1
        /\ sample = [r \in 1 .. at - 2 |-> Encode(now[r])]
        /\ UNCHANGED <<now, uip, bcd, told, shown>>
    BY <1>5, RtcAssumption DEF ReadRegister, RtcInv
  <2>2. sample' = Append(sample, Encode(now[at - 1]))
    BY <1>5, <2>1 DEF ReadRegister
  <2>3. sample' = [r \in 1 .. at - 1 |-> Encode(now[r])]
    <3> DEFINE e == [r \in Register |-> Encode(now[r])]
    <3>1. at - 2 \in Nat /\ (at - 2) + 1 = at - 1 /\ 1 .. at - 2 \subseteq Register /\ 1 .. at - 1 \subseteq Register
      BY <1>0, <2>1
    <3>2. sample = [r \in 1 .. at - 2 |-> e[r]] /\ e[at - 1] = Encode(now[at - 1])
      BY <2>1, <3>1
    <3>3. Append(sample, e[at - 1]) = [r \in 1 .. at - 1 |-> e[r]]
      BY <3>1, <3>2, AppendNext
    <3>4. QED BY <2>2, <3>1, <3>2, <3>3
  <2>4. at' - 2 = at - 1 /\ at' \in 0 .. Len(Limit) + 2 /\ at' # 0 /\ at' # 1
    BY <2>1, <1>0
  <2>5. at' = Len(Limit) + 2 => 1 .. at - 1 = Register
    BY <2>1, <1>0
  <2>6. now' \in shown' /\ shown' \subseteq Time
    BY <2>1 DEF RtcInv
  <2>7. QED BY <2>1, <2>3, <2>4, <2>5, <2>6, RtcAssumption DEF RtcInv, Encode
<1>6. CASE ReadEnd
  <2>1. PICK t \in shown : sample = [r \in Register |-> Encode(t[r])]
    BY <1>6 DEF ReadEnd, RtcInv
  <2>2. t \in Time /\ at # 0
    BY <1>6 DEF ReadEnd, RtcInv
  <2>3. \A r \in Register : Decode(sample[r]) = t[r]
    BY <2>1, <2>2, DecodeEncode DEF Time, RtcInv
  <2>4. told' = t
    BY <1>6, <2>2, <2>3 DEF ReadEnd, Time
  <2>5. at = Len(Limit) + 2 /\ UNCHANGED <<now, uip, bcd, quiet, at, sample, shown>>
    BY <1>6 DEF ReadEnd
  <2>6. QED BY <2>1, <2>2, <2>4, <2>5 DEF RtcInv, Encode
<1>7. CASE TimeReturn
  <2>1. at' = 0 /\ quiet' = 0 /\ ~uip' /\ uip' \in BOOLEAN /\ ~bcd' /\ bcd' \in BOOLEAN /\ told' = <<>>
    BY <1>7 DEF TimeReturn
  <2>2. at' - 1 \notin Register /\ at' # Len(Limit) + 2 /\ at' \in 0 .. Len(Limit) + 2
    BY <2>1
  <2>3. QED BY <2>1, <2>2 DEF RtcInv
<1>8. CASE UNCHANGED clock
  BY <1>8 DEF RtcInv, clock, Encode
<1>9. QED BY <1>1, <1>2, <1>3, <1>4, <1>5, <1>6, <1>7, <1>8 DEF RtcNext

-----------------------------------------------------------------------------
(* Handles                                                                   *)

TableOK ==
    /\ table \in [Fd -> File \cup {"program", "config", None}]
    /\ held \in [Fd -> File \cup {None}]
    /\ left \in Nat

\* Who has a descriptor where, and on what
Phase ==
    \/ pc \in {"start", "shell"} /\ image = None /\ fd = NoFd /\ name = None
    \/ pc = "boot" /\ image = None /\ fd \in Fd /\ table[fd] = "config" /\ name = None
    \/ pc = "load" /\ image \in Image /\ fd \in Fd /\ table[fd] = "program" /\ name = None
    \/ pc = "map" /\ image \in Image /\ fd = NoFd /\ name = None
    \/ /\ pc = "main" /\ image \in Image /\ fd = NoFd
       /\ name \in (IF image.main \in {"cat", "write"} THEN File ELSE {None})
    \/ pc \in {"create", "open"} /\ image \in Image /\ image.main = "write" /\ fd = NoFd /\ name \in File
    \/ /\ pc = "io" /\ image \in Image /\ image.main \in {"cat", "write"}
       /\ fd \in Fd /\ name \in File /\ table[fd] = name
    \/ /\ pc = "stopped" /\ image \in Image /\ image.main = "cat"
       /\ fd \in Fd /\ name \in File /\ table[fd] = name
    \/ pc = "stopped" /\ image \in Image /\ image.main = "any" /\ fd = NoFd

\* Only a program that runs has files of its own.
HeldOK ==
    \A d \in Fd : held[d] # None =>
        table[d] = held[d] /\ pc \in {"main", "stopped"} /\ image \in Image /\ image.main = "any"

InUse == {d \in Fd : table[d] # None}
Held == {d \in Fd : held[d] # None}
\* Each handle in use is one left open, one of the program's, or the one that
\* sysconf_load, exec_run or the command has.
Counted == Cardinality(InUse) = left + Cardinality(Held) + (IF fd = NoFd THEN 0 ELSE 1)

HandlesInv == TableOK /\ Phase /\ HeldOK /\ Counted

\* The words of write are in its file, which is on the first descriptor.
WordsOK ==
    /\ pc = "io" /\ left = 0 => fd = 0
    /\ WordsReachFile
    /\ pc \notin {"io", "stopped"} => went = {}

\* The bytes of the file where they belong, and zeros
Filled(s) ==
    /\ \A a \in FromFile(s) : mem[a] = image.bytes[s.offset + (a - s.vaddr) + 1]
    /\ \A a \in Zeroed(s) : mem[a] = 0

\* The segments before the one that is next are in place.
Mapped ==
    pc = "map" => /\ segment \in Nat \ {0}
                  /\ \A n \in DOMAIN image.headers :
                        n < segment /\ image.headers[n].load => Filled(image.headers[n])

IInv == HandlesInv /\ WordsOK /\ Mapped /\ RtcInv

LEMMA Handle ==
    /\ NoFd \notin Fd /\ 0 \in Fd /\ Fd \subseteq Nat /\ IsFiniteSet(Fd)
    /\ None \notin File /\ None \notin Image /\ None # "program" /\ None # "config"
    /\ "program" \notin File /\ "config" \notin File
  BY ProgramAssumption, FS_Interval DEF Fd, NoFd

LEMMA CountsAreNumbers ==
    /\ IsFiniteSet(InUse) /\ Cardinality(InUse) \in Nat
    /\ IsFiniteSet(Held) /\ Cardinality(Held) \in Nat
<1>1. InUse \in SUBSET Fd /\ Held \in SUBSET Fd
  BY DEF InUse, Held
<1>2. QED BY <1>1, Handle, FS_Subset, FS_CardinalityType

LEMMA TakeOpens ==
    ASSUME TableOK, NEW f \in File \cup {"program", "config"}, Take(f)
    PROVE  /\ FindFree \in Fd /\ table[FindFree] = None
           /\ table' \in [Fd -> File \cup {"program", "config", None}]
           /\ table'[FindFree] = f /\ f # None
           /\ \A d \in Fd : d # FindFree => table'[d] = table[d]
           /\ Cardinality(InUse') = Cardinality(InUse) + 1
           /\ InUse = {} => FindFree = 0
<1> USE Handle
<1>1. FindFree \in Fd /\ table[FindFree] = None /\ \A d \in Fd : table[d] = None => FindFree =< d
  BY FindFreeIsFree DEF Take
<1>2. table' = [table EXCEPT ![FindFree] = f]
  BY DEF Take
<1>3. /\ table' \in [Fd -> File \cup {"program", "config", None}]
      /\ table'[FindFree] = f
      /\ \A d \in Fd : d # FindFree => table'[d] = table[d]
  BY <1>1, <1>2 DEF TableOK
<1>4. InUse' = InUse \cup {FindFree} /\ FindFree \notin InUse
  BY <1>1, <1>3 DEF InUse
<1>5. Cardinality(InUse') = Cardinality(InUse) + 1
  BY <1>4, CountsAreNumbers, FS_AddElement
<1>6. InUse = {} => FindFree = 0
  BY <1>1 DEF InUse
<1>7. QED BY <1>1, <1>3, <1>5, <1>6

LEMMA ClearCloses ==
    ASSUME TableOK, NEW c \in Fd, table[c] # None, Clear(c)
    PROVE  /\ table' \in [Fd -> File \cup {"program", "config", None}]
           /\ table'[c] = None
           /\ \A d \in Fd : d # c => table'[d] = table[d]
           /\ Cardinality(InUse') = Cardinality(InUse) - 1
<1>1. /\ table' \in [Fd -> File \cup {"program", "config", None}]
      /\ table'[c] = None
      /\ \A d \in Fd : d # c => table'[d] = table[d]
  BY DEF TableOK, Clear
<1>2. InUse' = InUse \ {c} /\ c \in InUse
  BY <1>1 DEF InUse
<1>3. Cardinality(InUse') = Cardinality(InUse) - 1
  BY <1>2, CountsAreNumbers, FS_RemoveElement
<1>4. QED BY <1>1, <1>3

LEMMA HandlesInit == Init => HandlesInv
<1> SUFFICES ASSUME Init PROVE HandlesInv
  OBVIOUS
<1> USE Handle
<1>1. TableOK /\ Phase /\ HeldOK
  BY DEF Init, TableOK, Phase, HeldOK
<1>2. InUse = {} /\ Held = {}
  BY DEF Init, InUse, Held
<1>3. Counted
  BY <1>2, FS_EmptySet DEF Init, Counted
<1>4. QED BY <1>1, <1>3 DEF HandlesInv

\* The three ways in which a step changes the table for sysconf_load, exec_run or a
\* command
LEMMA OpenStep ==
    ASSUME TableOK, Counted, NEW f \in File \cup {"program", "config"}, Take(f),
           fd = NoFd, fd' = FindFree, UNCHANGED <<held, left>>
    PROVE  TableOK' /\ Counted'
<1>1. TableOK'
  BY TakeOpens DEF TableOK
<1>2. Held' = Held
  BY DEF Held
<1>3. Counted'
  BY <1>2, TakeOpens, Handle, CountsAreNumbers DEF Counted, TableOK
<1>4. QED BY <1>1, <1>3

LEMMA CloseStep ==
    ASSUME TableOK, Counted, fd \in Fd, table[fd] # None, Clear(fd),
           fd' = NoFd, UNCHANGED <<held, left>>
    PROVE  TableOK' /\ Counted'
<1>1. TableOK'
  BY ClearCloses DEF TableOK
<1>2. Held' = Held
  BY DEF Held
<1>3. Counted'
  BY <1>2, ClearCloses, Handle, CountsAreNumbers DEF Counted, TableOK
<1>4. QED BY <1>1, <1>3

LEMMA OtherStep ==
    ASSUME TableOK, Counted, UNCHANGED <<table, held, left, fd>>
    PROVE  TableOK' /\ Counted'
<1>1. TableOK'
  BY DEF TableOK
<1>2. Held' = Held /\ InUse' = InUse
  BY DEF Held, InUse
<1>3. QED BY <1>1, <1>2 DEF Counted

LEMMA HandlesStep == HandlesInv /\ [Next]_vars => HandlesInv'
<1> SUFFICES ASSUME TableOK, Phase, HeldOK, Counted, [Next]_vars PROVE HandlesInv'
  BY DEF HandlesInv
<1> USE Handle DEF HandlesInv
<1>1. CASE OpenConf
  <2>1. fd = NoFd /\ UNCHANGED <<held, left>> /\ \A d \in Fd : held[d] = None
    BY <1>1 DEF OpenConf, Phase, HeldOK
  <2>2. CASE Take("config") /\ fd' = FindFree /\ pc' = "boot" /\ UNCHANGED <<image, name>>
    <3>1. Phase' /\ HeldOK'
      BY <1>1, <2>1, <2>2, TakeOpens DEF OpenConf, Phase, HeldOK
    <3>2. QED BY <2>1, <2>2, <3>1, OpenStep
  <2>3. CASE ToShell /\ UNCHANGED table
    <3>1. Phase' /\ HeldOK' /\ fd' = fd
      BY <2>1, <2>3 DEF ToShell, Phase, HeldOK
    <3>2. QED BY <2>1, <2>3, <3>1, OtherStep
  <2>4. QED BY <1>1, <2>2, <2>3 DEF OpenConf
<1>2. CASE CloseConf
  <2>1. /\ fd \in Fd /\ table[fd] # None /\ Clear(fd) /\ fd' = NoFd /\ UNCHANGED <<held, left>>
        /\ \A d \in Fd : held[d] = None
    BY <1>2 DEF CloseConf, ToShell, Phase, HeldOK
  <2>2. Phase' /\ HeldOK'
    BY <1>2, <2>1 DEF CloseConf, ToShell, Phase, HeldOK
  <2>3. QED BY <2>1, <2>2, CloseStep
<1>3. CASE \E p \in Image : Exec(p)
  <2>1. PICK p \in Image : Exec(p)
    BY <1>3
  <2>2. /\ fd = NoFd /\ Take("program") /\ fd' = FindFree /\ UNCHANGED <<held, left>>
        /\ \A d \in Fd : held[d] = None
    BY <2>1 DEF Exec, Phase, HeldOK
  <2>3. Phase' /\ HeldOK'
    BY <2>1, <2>2, TakeOpens DEF Exec, Phase, HeldOK
  <2>4. QED BY <2>2, <2>3, OpenStep
<1>4. CASE Load
  <2>1. /\ fd \in Fd /\ table[fd] # None /\ Clear(fd) /\ fd' = NoFd /\ UNCHANGED <<held, left>>
        /\ \A d \in Fd : held[d] = None
    BY <1>4 DEF Load, ToShell, Phase, HeldOK
  <2>2. Phase' /\ HeldOK'
    BY <1>4, <2>1 DEF Load, ToShell, Phase, HeldOK
  <2>3. QED BY <2>1, <2>2, CloseStep
<1>5. CASE MapSegment \/ Call \/ CreateNamed
  <2>1. fd = NoFd /\ fd' = fd /\ UNCHANGED <<table, held, left>>
    BY <1>5 DEF MapSegment, Call, CreateNamed, ToShell, Phase
  <2>2. Phase' /\ HeldOK'
    BY <1>5, <2>1 DEF MapSegment, Call, CreateNamed, ToShell, Phase, HeldOK
  <2>3. QED BY <2>1, <2>2, OtherStep
<1>6. CASE OpenNamed \/ OpenCreated
  <2>1. fd = NoFd /\ UNCHANGED <<held, left>> /\ name \in File /\ \A d \in Fd : held[d] = None
    BY <1>6 DEF OpenNamed, OpenCreated, Phase, HeldOK
  <2>2. CASE Take(name) /\ fd' = FindFree /\ pc' = "io" /\ UNCHANGED <<image, name>>
    <3>1. Phase' /\ HeldOK'
      BY <1>6, <2>1, <2>2, TakeOpens DEF OpenNamed, OpenCreated, Phase, HeldOK
    <3>2. QED BY <2>1, <2>2, <3>1, OpenStep
  <2>3. CASE ToShell /\ UNCHANGED table
    <3>1. Phase' /\ HeldOK' /\ fd' = fd
      BY <2>1, <2>3 DEF ToShell, Phase, HeldOK
    <3>2. QED BY <2>1, <2>3, <3>1, OtherStep
  <2>4. CASE image.main = "write" /\ pc' = "create" /\ UNCHANGED <<table, image, fd, name>>
    <3>1. Phase' /\ HeldOK'
      BY <1>6, <2>1, <2>4 DEF OpenNamed, OpenCreated, Phase, HeldOK
    <3>2. QED BY <2>1, <2>4, <3>1, OtherStep
  <2>5. QED BY <1>6, <2>2, <2>3, <2>4 DEF OpenNamed, OpenCreated
<1>7. CASE InOut
  <2>1. UNCHANGED <<table, held, left, fd>>
    BY <1>7 DEF InOut
  <2>2. Phase' /\ HeldOK'
    BY <1>7 DEF InOut, Phase, HeldOK
  <2>3. QED BY <2>1, <2>2, OtherStep
<1>8. CASE CloseNamed
  <2>1. /\ fd \in Fd /\ table[fd] # None /\ Clear(fd) /\ fd' = NoFd /\ UNCHANGED <<held, left>>
        /\ \A d \in Fd : held[d] = None
    BY <1>8 DEF CloseNamed, ToShell, Phase, HeldOK
  <2>2. Phase' /\ HeldOK'
    BY <1>8, <2>1 DEF CloseNamed, ToShell, Phase, HeldOK
  <2>3. QED BY <2>1, <2>2, CloseStep
<1>9. CASE Copy \/ DateReturn
  <2>1. fd = NoFd /\ fd' = fd /\ UNCHANGED <<table, held, left>> /\ \A d \in Fd : held[d] = None
    BY <1>9 DEF Copy, DateReturn, ToShell, Phase, HeldOK
  <2>2. Phase' /\ HeldOK'
    BY <1>9, <2>1 DEF Copy, DateReturn, ToShell, Phase, HeldOK
  <2>3. QED BY <2>1, <2>2, OtherStep
<1>10. CASE \E f \in File : OpenAny(f)
  <2>1. PICK f \in File : OpenAny(f)
    BY <1>10
  <2>2. /\ Take(f) /\ held' = [held EXCEPT ![FindFree] = f]
        /\ UNCHANGED <<pc, image, fd, name, left>> /\ pc = "main" /\ image.main = "any"
    BY <2>1 DEF OpenAny
  <2>3. fd = NoFd /\ image \in Image /\ name = None
    BY <2>2 DEF Phase
  <2>4. FindFree \in Fd /\ held[FindFree] = None
    BY <2>2, TakeOpens DEF HeldOK
  <2>5. TableOK' /\ Phase' /\ HeldOK'
    BY <2>2, <2>3, <2>4, TakeOpens DEF TableOK, Phase, HeldOK
  <2>6. Held' = Held \cup {FindFree} /\ FindFree \notin Held
    BY <2>2, <2>4 DEF Held, TableOK
  <2>7. Cardinality(Held') = Cardinality(Held) + 1
    BY <2>6, CountsAreNumbers, FS_AddElement
  <2>8. Counted'
    BY <2>2, <2>3, <2>7, TakeOpens, CountsAreNumbers DEF Counted, TableOK
  <2>9. QED BY <2>5, <2>8
<1>11. CASE \E d \in Fd : CloseAny(d)
  <2>1. PICK d \in Fd : CloseAny(d)
    BY <1>11
  <2>2. /\ Clear(d) /\ held[d] # None /\ held' = [held EXCEPT ![d] = None]
        /\ UNCHANGED <<pc, image, fd, name, left>> /\ pc = "main" /\ image.main = "any"
    BY <2>1 DEF CloseAny
  <2>3. fd = NoFd /\ image \in Image /\ name = None /\ table[d] # None
    BY <2>2 DEF Phase, HeldOK
  <2>4. TableOK' /\ Phase' /\ HeldOK'
    BY <2>2, <2>3, ClearCloses DEF TableOK, Phase, HeldOK
  <2>5. Held' = Held \ {d} /\ d \in Held
    BY <2>2 DEF Held, TableOK
  <2>6. Cardinality(Held') = Cardinality(Held) - 1
    BY <2>5, CountsAreNumbers, FS_RemoveElement
  <2>7. Counted'
    BY <2>2, <2>3, <2>6, ClearCloses, CountsAreNumbers DEF Counted, TableOK
  <2>8. QED BY <2>4, <2>7
<1>12. CASE ReturnAny
  <2>1. /\ left' = left + Cardinality(Held) /\ held' = [d \in Fd |-> None] /\ UNCHANGED table
        /\ fd = NoFd /\ fd' = NoFd /\ ToShell
    BY <1>12 DEF ReturnAny, ToShell, Held, Phase
  <2>2. TableOK' /\ Phase' /\ HeldOK'
    BY <2>1, CountsAreNumbers DEF ToShell, TableOK, Phase, HeldOK
  <2>3. Held' = {} /\ InUse' = InUse
    BY <2>1 DEF Held, InUse
  <2>4. Counted'
    BY <2>1, <2>3, CountsAreNumbers, FS_EmptySet DEF Counted, TableOK
  <2>5. QED BY <2>2, <2>4
<1>13. CASE ExitAny
  <2>1. UNCHANGED <<table, held, left, fd>>
    BY <1>13 DEF ExitAny
  <2>2. Phase' /\ HeldOK'
    BY <1>13 DEF ExitAny, Phase, HeldOK
  <2>3. QED BY <2>1, <2>2, OtherStep
<1>14. CASE ReadConf \/ NotFound \/ Scribble \/ GetTime \/ Stopped \/ UNCHANGED vars
  <2>1. UNCHANGED <<table, held, left, fd, pc, image, name>>
    BY <1>14 DEF ReadConf, NotFound, Scribble, GetTime, Stopped, vars, own
  <2>2. Phase' /\ HeldOK'
    BY <2>1 DEF Phase, HeldOK
  <2>3. QED BY <2>1, <2>2, OtherStep
<1>15. QED BY <1>1, <1>2, <1>3, <1>4, <1>5, <1>6, <1>7, <1>8, <1>9, <1>10, <1>11, <1>12, <1>13, <1>14 DEF Next

-----------------------------------------------------------------------------
(* The words of write, and the memory of a program                           *)

LEMMA WordsStep == HandlesInv /\ WordsOK /\ [Next]_vars => WordsOK'
<1> SUFFICES ASSUME TableOK, Phase, HeldOK, Counted, WordsOK, [Next]_vars PROVE WordsOK'
  BY DEF HandlesInv
<1> USE Handle DEF WordsOK, WordsReachFile
<1>1. CASE ToShell
  BY <1>1 DEF ToShell
<1>2. CASE UNCHANGED <<pc, image, fd, name, went, left>>
  BY <1>2
<1>3. CASE pc \notin {"io", "stopped"} /\ pc' # "io" /\ UNCHANGED went
  BY <1>3
<1>4. CASE Take(name) /\ fd = NoFd /\ fd' = FindFree /\ pc' = "io" /\ pc \in {"main", "open"}
           /\ image.main # "any" /\ name \in File /\ UNCHANGED <<went, left>>
  <2>1. Held = {}
    BY <1>4 DEF Held, HeldOK
  <2>2. left = 0 => Cardinality(InUse) = 0
    BY <1>4, <2>1, FS_EmptySet DEF Counted
  <2>3. left = 0 => FindFree = 0
    BY <1>4, <2>2, CountsAreNumbers, FS_EmptySet, TakeOpens DEF Phase
  <2>4. QED BY <1>4, <2>3
<1>5. CASE InOut
  <2>1. pc = "io" /\ table[fd] = name /\ UNCHANGED <<image, fd, name, left>>
    BY <1>5 DEF InOut, Phase
  <2>2. image.main = "write" /\ left = 0 => went' = went \cup {name} /\ pc' = pc
    BY <1>5, <2>1 DEF InOut, Sink
  <2>3. pc' \in {"io", "stopped"}
    BY <1>5, <2>1 DEF InOut
  <2>4. QED BY <2>1, <2>2, <2>3
<1>6. CASE OpenConf \/ CloseConf \/ (\E p \in Image : Exec(p)) \/ Load \/ MapSegment \/ Call
  BY <1>1, <1>2, <1>3, <1>6 DEF OpenConf, CloseConf, Exec, Load, MapSegment, Call
<1>7. CASE OpenNamed \/ CreateNamed \/ OpenCreated \/ CloseNamed
  BY <1>1, <1>3, <1>4, <1>7 DEF OpenNamed, CreateNamed, OpenCreated, CloseNamed, Phase
<1>8. CASE Copy \/ DateReturn \/ ReturnAny \/ ExitAny \/ Scribble
           \/ (\E f \in File : OpenAny(f)) \/ (\E d \in Fd : CloseAny(d))
  BY <1>1, <1>2, <1>3, <1>8 DEF Copy, DateReturn, ReturnAny, ExitAny, Scribble, OpenAny, CloseAny
<1>9. CASE ReadConf \/ NotFound \/ GetTime \/ Stopped \/ UNCHANGED vars
  BY <1>2, <1>9 DEF ReadConf, NotFound, GetTime, Stopped, vars, own
<1>10. QED BY <1>5, <1>6, <1>7, <1>8, <1>9 DEF Next

LEMMA MappedStep == HandlesInv /\ Mapped /\ [Next]_vars => Mapped'
<1> SUFFICES ASSUME Phase, Mapped, [Next]_vars PROVE Mapped'
  BY DEF HandlesInv
<1>1. CASE Load
  <2>1. pc' = "map" => segment' = 1 /\ image' = image /\ image \in Image
    BY <1>1 DEF Load, ToShell, Phase
  <2>2. \A p \in Image : DOMAIN p.headers \subseteq Nat \ {0}
    BY ProgramAssumption DEF LaidOut
  <2>3. QED BY <2>1, <2>2 DEF Mapped
<1>2. CASE MapSegment
  <2> SUFFICES ASSUME pc' = "map" PROVE Mapped'
    BY DEF Mapped
  <2> DEFINE s == image.headers[segment]
  <2>1. /\ pc = "map" /\ image' = image /\ image \in Image /\ segment \in Nat \ {0} /\ segment' = segment + 1
        /\ mem' = IF s.load THEN [a \in Area |-> Fill(s, a)] ELSE mem
    BY <1>2 DEF MapSegment, ToShell, Phase, Mapped
  <2>2. /\ segment \in DOMAIN image.headers /\ DOMAIN image.headers \subseteq Nat
        /\ \A n \in DOMAIN image.headers : image.headers[n] \in Phdr
    BY <1>2, <2>1, ProgramAssumption DEF MapSegment, LaidOut
  <2>3. ASSUME NEW n \in DOMAIN image.headers, n < segment \/ n = segment, image.headers[n].load
        PROVE  Filled(image.headers[n])'
    <3> DEFINE h == image.headers[n]
    <3>1. FromFile(h) \cup Zeroed(h) \subseteq Area /\ FromFile(h) \cap Zeroed(h) = {}
      <4>1. FromFile(h) \cup Zeroed(h) \subseteq Area
        BY <2>1, <2>3, ProgramAssumption DEF LaidOut
      <4>2. h.vaddr \in Nat /\ h.filesz \in Nat /\ h.memsz \in Nat
        BY <2>2 DEF Phdr
      <4>3. QED BY <4>1, <4>2 DEF FromFile, Zeroed
    <3>2. CASE n = segment
      <4>1. \A a \in FromFile(h) : mem'[a] = image.bytes[h.offset + (a - h.vaddr) + 1]
        BY <2>1, <2>3, <3>1, <3>2 DEF Fill
      <4>2. \A a \in Zeroed(h) : mem'[a] = 0
        BY <2>1, <2>3, <3>1, <3>2 DEF Fill
      <4>3. QED BY <2>1, <4>1, <4>2 DEF Filled
    <3>3. CASE n < segment
      <4>1. Filled(h) /\ n # segment
        BY <2>1, <2>2, <2>3, <3>3 DEF Mapped
      <4>2. s.load => (FromFile(h) \cup Zeroed(h)) \cap (FromFile(s) \cup Zeroed(s)) = {}
        BY <2>1, <2>2, <2>3, <4>1, ProgramAssumption DEF LaidOut
      <4>3. \A a \in FromFile(h) \cup Zeroed(h) : mem'[a] = mem[a]
        BY <2>1, <3>1, <4>2 DEF Fill
      <4>4. QED BY <2>1, <4>1, <4>3 DEF Filled
    <3>4. QED BY <2>3, <3>2, <3>3
  <2>4. segment' \in Nat \ {0} /\ \A n \in DOMAIN image.headers : n < segment' => n < segment \/ n = segment
    BY <2>1, <2>2
  <2>5. QED BY <2>1, <2>3, <2>4 DEF Mapped
<1>3. CASE pc' = pc /\ UNCHANGED <<image, segment, mem>>
  BY <1>3 DEF Mapped, Filled
<1>4. CASE pc' # "map"
  BY <1>4 DEF Mapped
<1>5. QED
  <2>1. CASE OpenConf \/ CloseConf \/ (\E p \in Image : Exec(p)) \/ Call \/ OpenNamed \/ CreateNamed
             \/ OpenCreated \/ InOut \/ CloseNamed \/ Copy \/ DateReturn \/ ReturnAny \/ ExitAny
             \/ Scribble \/ (\E f \in File : OpenAny(f)) \/ (\E d \in Fd : CloseAny(d))
    BY <1>4, <2>1 DEF OpenConf, CloseConf, Exec, Call, OpenNamed, CreateNamed, OpenCreated, InOut,
         CloseNamed, Copy, DateReturn, ReturnAny, ExitAny, Scribble, OpenAny, CloseAny, ToShell
  <2>2. CASE ReadConf \/ NotFound \/ GetTime \/ Stopped \/ UNCHANGED vars
    BY <1>3, <2>2 DEF ReadConf, NotFound, GetTime, Stopped, vars, own
  <2>3. QED BY <1>1, <1>2, <2>1, <2>2 DEF Next

-----------------------------------------------------------------------------
(* The theorems                                                              *)

LEMMA ClockStep == RtcInv /\ [Next]_vars => RtcInv'
<1>1. [Next]_vars => [RtcNext]_clock
  BY DEF Next, vars, clock, OpenConf, ReadConf, CloseConf, NotFound, Load, MapSegment, Call, Scribble,
         OpenNamed, CreateNamed, OpenCreated, InOut, CloseNamed, Copy, GetTime, DateReturn, ReturnAny,
         ExitAny, Stopped, Exec, OpenAny, CloseAny
<1>2. QED BY <1>1, RtcStep

\* The inductive invariant holds in every state.
LEMMA Invariance == Spec => []IInv
<1>1. Init => IInv
  <2>1. Init => WordsOK /\ Mapped
    BY DEF Init, WordsOK, WordsReachFile, Mapped
  <2>2. Init => RtcInv
    BY RtcStart DEF Init
  <2>3. QED BY <2>1, <2>2, HandlesInit DEF IInv
<1>2. IInv /\ [Next]_vars => IInv'
  BY HandlesStep, WordsStep, MappedStep, ClockStep DEF IInv
<1>3. QED BY <1>1, <1>2, PTL DEF Spec

\* Back in the shell the handles in use are those that programs have left open
\* (fat32_open, fat32_close as exec.c, sysconf.c and the commands call them).
THEOREM NoHandleIsKept == Spec => []NothingLeftOpen
<1>1. IInv => NothingLeftOpen
  <2> SUFFICES ASSUME HandlesInv, pc = "shell" PROVE Cardinality(InUse) = left
    BY DEF IInv, NothingLeftOpen, InUse
  <2>1. Held = {} /\ fd = NoFd
    BY DEF HandlesInv, HeldOK, Phase, Held
  <2>2. QED BY <2>1, FS_EmptySet DEF HandlesInv, Counted, TableOK
<1>2. QED BY <1>1, Invariance, PTL

\* A descriptor stands for its file until it is closed, and no other is given the
\* same number (find_free_fd), for any number of handles and files.
THEOREM HandlesStayApart == Spec => HandlesAreOwn
<1> DEFINE Own ==
      /\ \A d \in Fd : held[d] # None =>
            table[d] = held[d] /\ d # fd /\ held'[d] \in {held[d], None}
      /\ fd # NoFd => table[fd] \in {name, "program", "config"}
<1>1. IInv /\ [Next]_vars => [Own]_vars
  <2> SUFFICES ASSUME TableOK, Phase, HeldOK, [Next]_vars PROVE Own
    BY DEF IInv, HandlesInv
  <2> USE Handle
  <2>1. fd # NoFd => table[fd] \in {name, "program", "config"}
    BY DEF Phase
  <2>2. ASSUME NEW d \in Fd, held[d] # None PROVE table[d] = held[d] /\ d # fd
    BY <2>2 DEF HeldOK, Phase
  <2>3. ASSUME NEW d \in Fd, held[d] # None PROVE held'[d] \in {held[d], None}
    <3>1. CASE UNCHANGED held
      BY <3>1
    <3>2. CASE \E f \in File : OpenAny(f)
      <4>1. PICK f \in File : Take(f) /\ held' = [held EXCEPT ![FindFree] = f]
        BY <3>2 DEF OpenAny
      <4>2. FindFree # d
        BY <2>3, <4>1, TakeOpens DEF HeldOK
      <4>3. QED BY <4>1, <4>2 DEF TableOK
    <3>3. CASE \E c \in Fd : CloseAny(c)
      BY <3>3 DEF CloseAny, TableOK
    <3>4. CASE ReturnAny
      BY <3>4 DEF ReturnAny
    <3>5. QED
      BY <3>1, <3>2, <3>3, <3>4 DEF Next, vars, own, OpenConf, ReadConf, CloseConf, NotFound, Load,
           MapSegment, Call, Scribble, OpenNamed, CreateNamed, OpenCreated, InOut, CloseNamed, Copy,
           GetTime, DateReturn, ExitAny, Stopped, Exec
  <2>4. QED BY <2>1, <2>2, <2>3
<1>2. QED BY <1>1, Invariance, PTL DEF Spec, HandlesAreOwn

\* The words of write reach its file as long as no program has left one open.
THEOREM WordsGoToTheFile == Spec => []WordsReachFile
<1>1. IInv => WordsReachFile
  BY DEF IInv, WordsOK
<1>2. QED BY <1>1, Invariance, PTL

\* elf_load puts every segment of every program in place, whatever was there.
THEOREM ProgramsStartClean == Spec => StartsClean
<1> DEFINE Clean ==
      pc = "map" /\ pc' = "main" =>
        \A n \in DOMAIN image.headers : LET s == image.headers[n] IN
          s.load => /\ \A a \in FromFile(s) : mem[a] = image.bytes[s.offset + (a - s.vaddr) + 1]
                    /\ \A a \in Zeroed(s) : mem[a] = 0
<1>1. IInv /\ [Next]_vars => [Clean]_vars
  <2> SUFFICES ASSUME IInv, [Next]_vars, pc = "map", pc' = "main",
                      NEW n \in DOMAIN image.headers, image.headers[n].load
               PROVE  Filled(image.headers[n])
    BY DEF Filled
  <2>1. Call
    BY DEF Next, vars, own, OpenConf, ReadConf, CloseConf, NotFound, Load, MapSegment, Scribble,
         OpenNamed, CreateNamed, OpenCreated, InOut, CloseNamed, Copy, GetTime, DateReturn, ReturnAny,
         ExitAny, Stopped, Exec, OpenAny, CloseAny, ToShell
  <2>2. image \in Image /\ segment > Len(image.headers) /\ segment \in Nat
    BY <2>1 DEF Call, IInv, HandlesInv, Phase, Mapped
  <2>3. image.headers \in Seq(Phdr)
    BY <2>2, ProgramAssumption DEF LaidOut
  <2>4. n < segment
    BY <2>2, <2>3
  <2>5. QED BY <2>4 DEF IInv, Mapped
<1>2. QED BY <1>1, Invariance, PTL DEF Spec, StartsClean

\* rtc_read_time never mixes two times, for registers of any range up to a hundred.
THEOREM ClockIsTrue == Spec => []TimeIsTrue
<1>1. IInv => TimeIsTrue
  BY DEF IInv, RtcInv, TimeIsTrue
<1>2. QED BY <1>1, Invariance, PTL

-----------------------------------------------------------------------------
(* The configuration                                                         *)

\* What holds at the first place and goes on from each to the next
LEMMA AllPlaces ==
    ASSUME NEW n \in Nat, NEW P, 0 \in P, \A k \in 1 .. n : k - 1 \in P => k \in P
    PROVE  \A k \in 0 .. n : k \in P
<1> DEFINE Bad == {k \in 0 .. n : k \notin P}
<1>1. SUFFICES ASSUME Bad # {} PROVE FALSE
  OBVIOUS
<1>2. PICK k \in Bad : \A j \in Bad : k =< j
  <2>1. Bad \subseteq Nat
    OBVIOUS
  <2> HIDE DEF Bad
  <2>2. QED BY <1>1, <2>1, LeastElement
<1>3. k \in 1 .. n /\ k - 1 \in 0 .. n /\ ~ (k =< k - 1)
  BY <1>2
<1>4. k - 1 \in P
  BY <1>2, <1>3
<1>5. QED BY <1>2, <1>3, <1>4

\* A recursion over the first n places has a solution.
Recurs(g, n, b, F) == g[0] = b /\ \A k \in 1 .. n : g[k] = F[<<k, g[k - 1]>>]

LEMMA RecursionExists ==
    ASSUME NEW n \in Nat, NEW X, NEW b \in X, NEW F \in [(1 .. n) \X X -> X]
    PROVE  \E g \in [0 .. n -> X] : Recurs(g, n, b, F)
<1> DEFINE P == {m \in 0 .. n : \E g \in [0 .. m -> X] : Recurs(g, m, b, F)}
<1>1. 0 \in P
  <2>1. [k \in 0 .. 0 |-> b] \in [0 .. 0 -> X] /\ Recurs([k \in 0 .. 0 |-> b], 0, b, F)
    BY DEF Recurs
  <2>2. 0 \in 0 .. n
    OBVIOUS
  <2>3. QED BY <2>1, <2>2
<1>2. ASSUME NEW m \in 1 .. n, m - 1 \in P
      PROVE  m \in P
  <2>1. PICK g \in [0 .. m - 1 -> X] : Recurs(g, m - 1, b, F)
    BY <1>2
  <2> DEFINE h == [k \in 0 .. m |-> IF k = m THEN F[<<m, g[m - 1]>>] ELSE g[k]]
  <2>2. g[m - 1] \in X /\ F[<<m, g[m - 1]>>] \in X
    <3>1. m - 1 \in 0 .. m - 1
      OBVIOUS
    <3>2. g[m - 1] \in X
      BY <3>1
    <3>3. <<m, g[m - 1]>> \in (1 .. n) \X X
      BY <3>2
    <3>4. QED BY <3>2, <3>3
  <2>3. h \in [0 .. m -> X]
    BY <2>2
  <2>4. h[0] = b
    BY <2>1 DEF Recurs
  <2>5. ASSUME NEW k \in 1 .. m PROVE h[k] = F[<<k, h[k - 1]>>]
    <3>1. k - 1 \in 0 .. m - 1 /\ h[k - 1] = g[k - 1]
      OBVIOUS
    <3>2. CASE k = m
      <4>1. h[k] = F[<<m, g[m - 1]>>]
        BY <3>2
      <4>2. QED BY <3>1, <3>2, <4>1
    <3>3. CASE k # m
      <4>1. k \in 1 .. m - 1 /\ h[k] = g[k]
        BY <3>3
      <4>2. g[k] = F[<<k, g[k - 1]>>]
        BY <2>1, <4>1 DEF Recurs
      <4>3. QED BY <3>1, <4>1, <4>2
    <3>4. QED BY <3>2, <3>3
  <2> HIDE DEF h
  <2>6. Recurs(h, m, b, F)
    BY <2>4, <2>5 DEF Recurs
  <2>7. QED BY <2>3, <2>6
<1>3. \A k \in 0 .. n : k \in P
  <2> HIDE DEF P
  <2>1. QED BY <1>1, <1>2, AllPlaces
<1>4. n \in P
  <2> HIDE DEF P
  <2>1. QED BY <1>3
<1>5. QED BY <1>4


\* Lines, and what bin_path can be
Line == Seq(STRING)
Told == {DefaultBin} \cup {BinOf(l) : l \in Line}

\* The lines before place i that give Bin, and what the last of some lines says
SaidBefore(t, i) == {r \in Saying(t) : r[2] < i}
Tells(t, S, b) ==
    \/ S = {} /\ b = DefaultBin
    \/ \E r \in S : b = BinOf(Stored(t, r)) /\ \A q \in S : q[1] =< r[1]

\* No place from i to p is a line's end, but the one before i is.
Begun(t, i, p) ==
    /\ i \in 1 .. p + 1
    /\ \A k \in i .. p : t[k] \notin Break
    /\ i > 1 => t[i - 1] \in Break

\* After p characters of t: the line from i on is in the buffer, and the lines before
\* it have had their effect.
Reads(t, p, i, l, b) ==
    /\ Begun(t, i, p)
    /\ l = Stored(t, <<i, p>>)
    /\ b \in Told
    /\ Tells(t, SaidBefore(t, i), b)

ConfInv ==
    pc \in {"start", "boot"} =>
        /\ conf \in Line /\ pos \in 0 .. Len(conf)
        /\ Len(conf) =< ClusterSize => \E i \in Nat : Reads(conf, pos, i, line, bin_path)

LEMMA TextOf == ASSUME NEW n \in Nat, NEW f \in [1 .. n -> STRING] PROVE f \in Line /\ Len(f) = n
<1>1. f \in Seq(STRING)
  BY Zenon, SeqDef
<1>2. DOMAIN f = 1 .. n
  OBVIOUS
<1>3. QED BY <1>1, <1>2 DEF Line

LEMMA AppendIs ==
    ASSUME NEW S, NEW l \in Seq(S), NEW c \in S, NEW n \in Nat, n = Len(l)
    PROVE  Append(l, c) = [k \in 1 .. n + 1 |-> IF k = n + 1 THEN c ELSE l[k]]
<1> DEFINE u == Append(l, c)
<1>1. /\ u \in Seq(S) /\ Len(u) = n + 1
      /\ \A k \in 1 .. n : u[k] = l[k]
      /\ u[n + 1] = c
  BY AppendProperties
<1> HIDE DEF u
<1>2. u = [k \in 1 .. n + 1 |-> u[k]]
  BY <1>1
<1>3. \A k \in 1 .. n + 1 : u[k] = IF k = n + 1 THEN c ELSE l[k]
  BY <1>1
<1>4. u = [k \in 1 .. n + 1 |-> IF k = n + 1 THEN c ELSE l[k]]
  BY <1>2, <1>3
<1>5. QED BY <1>4 DEF u

\* The characters that are kept of the places from i to p
Width(i, p) == IF p + 1 - i < LineSize - 1 THEN p + 1 - i ELSE LineSize - 1

LEMMA WidthIs ==
    ASSUME NEW p \in Nat, NEW i \in 1 .. p + 1
    PROVE  Width(i, p) \in Nat /\ Width(i, p) =< p + 1 - i /\ LineSize - 1 \in Nat /\ p + 1 - i \in Nat
  BY SysconfAssumption DEF Width

LEMMA WidthGrows ==
    ASSUME NEW p \in Nat, NEW i \in 1 .. p + 1
    PROVE  IF Width(i, p) < LineSize - 1 THEN Width(i, p + 1) = Width(i, p) + 1 /\ Width(i, p) = p + 1 - i
                                         ELSE Width(i, p + 1) = Width(i, p)
<1>1. PICK n \in Nat, w \in Nat : n = p + 1 - i /\ w = LineSize - 1
  BY SysconfAssumption
<1>2. Width(i, p) = IF n < w THEN n ELSE w
  BY <1>1 DEF Width
<1>3. (p + 1) + 1 - i = n + 1
  BY <1>1
<1>4. Width(i, p + 1) = IF n + 1 < w THEN n + 1 ELSE w
  BY <1>1, <1>3 DEF Width
<1>5. QED BY <1>1, <1>2, <1>4

LEMMA StoredIs ==
    ASSUME NEW t \in Line, NEW p \in 0 .. Len(t), NEW i \in 1 .. p + 1
    PROVE  /\ Stored(t, <<i, p>>) = [k \in 1 .. Width(i, p) |-> t[i + k - 1]]
           /\ Stored(t, <<i, p>>) \in Line /\ Len(Stored(t, <<i, p>>)) = Width(i, p)
<1> DEFINE s == SubSeq(t, i, p)
<1>1. Len(t) \in Nat /\ p \in Nat /\ i \in Nat \ {0} /\ LineSize - 1 \in Nat
  BY SysconfAssumption DEF Line
<1>2. PICK n \in Nat : n = p + 1 - i
  BY <1>1
<1>3. PICK m \in Nat : m = Width(i, p) /\ m =< n
  BY <1>1, <1>2, WidthIs
<1>4. ASSUME NEW k \in 1 .. n PROVE t[i + k - 1] \in STRING
  <2>1. i + k - 1 \in 1 .. Len(t)
    BY <1>1, <1>2
  <2>2. QED BY <2>1, ElementOfSeq DEF Line
<1>5. s = [k \in 1 .. n |-> t[i + k - 1]]
  BY <1>1, <1>2
<1> HIDE DEF s
<1>6. s \in Line /\ Len(s) = n
  <2>1. s \in [1 .. n -> STRING]
    BY <1>4, <1>5
  <2>2. QED BY <2>1, TextOf
<1>7. Stored(t, <<i, p>>) = SubSeq(s, 1, m)
  <2>1. Minimum(Len(s), LineSize - 1) = m
    BY <1>2, <1>3, <1>6 DEF Minimum, Width
  <2>2. QED BY <2>1 DEF Stored, Cut, s
<1>8. SubSeq(s, 1, m) = [k \in 1 .. m |-> t[i + k - 1]]
  <2>1. SubSeq(s, 1, m) = [k \in 1 .. m |-> s[k]]
    BY <1>3, <1>6
  <2>2. \A k \in 1 .. m : s[k] = t[i + k - 1]
    BY <1>3, <1>5
  <2>3. QED BY <2>1, <2>2
<1>9. SubSeq(s, 1, m) \in Line /\ Len(SubSeq(s, 1, m)) = m
  <2> DEFINE u == SubSeq(s, 1, m)
  <2>1. u = [k \in 1 .. m |-> t[i + k - 1]] /\ \A k \in 1 .. m : t[i + k - 1] \in STRING
    BY <1>3, <1>4, <1>8
  <2> HIDE DEF u
  <2>2. u \in [1 .. m -> STRING]
    BY <2>1
  <2>3. u \in Line /\ Len(u) = m
    BY <2>2, TextOf
  <2>4. QED BY <2>3 DEF u
<1>10. QED BY <1>3, <1>7, <1>8, <1>9

LEMMA ParsedIsTold == ASSUME NEW l \in Line, NEW b \in Told PROVE ParseLine(l, b) \in Told
  BY DEF ParseLine, Told

\* Two lines with a place in common are one.
LEMMA OneLine ==
    ASSUME NEW t \in Line, NEW i \in Nat, NEW p \in Nat, NEW x \in Nat, NEW y \in Nat,
           Begun(t, i, p), p =< Len(t), p < Len(t) => t[p + 1] \in Break,
           x =< y, 1 =< x, y =< Len(t), LineAt(t, x, y), i =< y, y =< p + 1
    PROVE  x = i /\ y = p
<1>1. y =< p
  <2>1. SUFFICES ASSUME y = p + 1 PROVE FALSE
    OBVIOUS
  <2>2. t[y] \in Break /\ y \in x .. y
    BY <2>1
  <2>3. QED BY <2>2 DEF LineAt
<1>2. y = p
  <2>1. SUFFICES ASSUME y < p PROVE FALSE
    BY <1>1
  <2>2. t[y + 1] \in Break
    BY <2>1 DEF LineAt
  <2>3. y + 1 \in i .. p
    BY <2>1
  <2>4. QED BY <2>2, <2>3 DEF Begun
<1>3. x >= i
  <2>1. SUFFICES ASSUME x < i PROVE FALSE
    OBVIOUS
  <2>2. i > 1 /\ i - 1 \in x .. y
    BY <2>1
  <2>3. QED BY <2>2 DEF Begun, LineAt
<1>4. x =< i
  <2>1. SUFFICES ASSUME x > i PROVE FALSE
    OBVIOUS
  <2>2. x > 1 /\ x - 1 \in i .. p
    <3>1. i >= 1
      BY DEF Begun
    <3>2. QED BY <1>2, <2>1, <3>1
  <2>3. QED BY <2>2 DEF Begun, LineAt
<1>5. QED BY <1>2, <1>3, <1>4

\* At a line's end, or at the end of the text, parse_line makes the line tell.
LEMMA LineDone ==
    ASSUME NEW t \in Line, NEW p \in 0 .. Len(t), NEW i \in Nat, NEW l, NEW b,
           Reads(t, p, i, l, b), p < Len(t) => t[p + 1] \in Break
    PROVE  Tells(t, SaidBefore(t, p + 2), ParseLine(l, b))
<1> DEFINE S == SaidBefore(t, i)
           T == SaidBefore(t, p + 2)
<1>1. p \in Nat /\ Len(t) \in Nat /\ p =< Len(t) /\ Begun(t, i, p) /\ i \in 1 .. p + 1 /\ l = Stored(t, <<i, p>>)
  BY DEF Reads, Begun, Line
<1>2. \A r \in Saying(t) : /\ r = <<r[1], r[2]>> /\ r[1] \in 1 .. Len(t) /\ r[2] \in 1 .. Len(t)
                           /\ r[1] =< r[2] /\ LineAt(t, r[1], r[2]) /\ GivesBin(Stored(t, r))
  BY DEF Saying
<1>3. S \subseteq T
  BY <1>1, <1>2 DEF SaidBefore
<1>4. ASSUME NEW r \in T, r \notin S PROVE r = <<i, p>>
  <2>1. r \in Saying(t) /\ r[2] < p + 2 /\ ~ (r[2] < i)
    BY <1>4 DEF SaidBefore
  <2>2. PICK x \in Nat, y \in Nat : x = r[1] /\ y = r[2] /\ r = <<x, y>> /\ 1 =< x /\ x =< y /\ y =< Len(t) /\ LineAt(t, x, y)
    <3>1. /\ r = <<r[1], r[2]>> /\ r[1] \in 1 .. Len(t) /\ r[2] \in 1 .. Len(t)
          /\ r[1] =< r[2] /\ LineAt(t, r[1], r[2])
      BY <1>2, <2>1
    <3>2. r[1] \in Nat /\ r[2] \in Nat /\ 1 =< r[1] /\ r[2] =< Len(t)
      BY <1>1, <3>1
    <3>3. QED BY <3>1, <3>2
  <2>3. i =< y /\ y =< p + 1
    BY <1>1, <2>1, <2>2
  <2>4. x = i /\ y = p
    <3>1. p < Len(t) => t[p + 1] \in Break
      OBVIOUS
    <3>2. Begun(t, i, p) /\ p \in Nat /\ p =< Len(t)
      BY <1>1
    <3>3. 1 =< x /\ x =< y /\ y =< Len(t) /\ LineAt(t, x, y)
      BY <2>2
    <3>4. QED BY <2>3, <3>1, <3>2, <3>3, OneLine, SMTT(30)
  <2>5. QED BY <2>2, <2>4
<1>5. CASE GivesBin(l)
  <2>1. l # <<>>
    BY <1>5 DEF GivesBin
  <2>2. i =< p
    <3>1. SUFFICES ASSUME i = p + 1 PROVE FALSE
      BY <1>1
    <3>2. Len(l) = 0 /\ l \in Line
      <4>1. Width(i, p) = 0
        BY <1>1, <3>1, SysconfAssumption DEF Width
      <4>2. QED BY <1>1, <4>1, StoredIs
    <3>3. QED BY <2>1, <3>2 DEF Line
  <2>3. <<i, p>> \in T
    <3>1. LineAt(t, i, p)
      BY <1>1 DEF LineAt, Begun
    <3>2. <<i, p>> \in Saying(t)
      BY <1>1, <1>5, <2>2, <3>1 DEF Saying
    <3>3. QED BY <1>1, <3>2 DEF SaidBefore
  <2>4. \A q \in T : q[1] =< i
    <3>1. ASSUME NEW q \in S PROVE q[1] =< i
      <4>1. q \in Saying(t) /\ q[2] < i
        BY <3>1 DEF SaidBefore
      <4>2. QED BY <1>1, <1>2, <4>1
    <3>2. QED BY <1>1, <1>4, <3>1
  <2>5. ParseLine(l, b) = BinOf(Stored(t, <<i, p>>))
    BY <1>1, <1>5 DEF ParseLine
  <2>6. <<i, p>>[1] = i
    OBVIOUS
  <2> HIDE DEF T
  <2>7. Tells(t, T, ParseLine(l, b))
    BY <2>3, <2>4, <2>5, <2>6 DEF Tells
  <2>8. QED BY <2>7 DEF T
<1>6. CASE ~ GivesBin(l)
  <2>1. T = S
    <3>1. ASSUME NEW r \in T, r \notin S PROVE FALSE
      <4>1. r = <<i, p>> /\ r \in Saying(t)
        BY <1>4, <3>1 DEF SaidBefore
      <4>2. QED BY <1>1, <1>2, <1>6, <4>1
    <3>2. QED BY <1>3, <3>1
  <2>2. ParseLine(l, b) = b
    BY <1>6 DEF ParseLine
  <2>3. QED BY <2>1, <2>2 DEF Reads
<1>7. QED BY <1>5, <1>6

\* One more character
LEMMA TakeReads ==
    ASSUME NEW t \in Line, NEW p \in Nat, p < Len(t), NEW i \in Nat, NEW s, s = [line |-> s.line, path |-> s.path],
           Reads(t, p, i, s.line, s.path)
    PROVE  \E j \in Nat : Reads(t, p + 1, j, TakeChar(t[p + 1], s).line, TakeChar(t[p + 1], s).path)
<1> DEFINE c == t[p + 1]
           l == s.line
           b == s.path
<1>1. p \in 0 .. Len(t) /\ Len(t) \in Nat /\ i \in 1 .. p + 1 /\ Begun(t, i, p) /\ l = Stored(t, <<i, p>>) /\ b \in Told
  BY DEF Reads, Begun, Line
<1>2. l \in Line
  BY <1>1, StoredIs
<1>3. CASE c \in Break
  <2>1. TakeChar(c, s).line = <<>> /\ TakeChar(c, s).path = ParseLine(l, b)
    <3>1. l = <<>> => ParseLine(l, b) = b
      BY DEF ParseLine, GivesBin
    <3>2. QED BY <1>3, <3>1 DEF TakeChar
  <2>2. Begun(t, p + 2, p + 1)
    BY <1>1, <1>3 DEF Begun
  <2>3. Stored(t, <<p + 2, p + 1>>) = <<>>
    <3>1. p + 1 \in 0 .. Len(t) /\ p + 2 \in 1 .. (p + 1) + 1
      BY <1>1
    <3>2. Width(p + 2, p + 1) = 0
      BY SysconfAssumption DEF Width
    <3>3. Stored(t, <<p + 2, p + 1>>) \in Line /\ Len(Stored(t, <<p + 2, p + 1>>)) = 0
      BY <3>1, <3>2, StoredIs
    <3>4. QED BY <3>3 DEF Line
  <2>4. Tells(t, SaidBefore(t, p + 2), ParseLine(l, b))
    BY <1>1, <1>3, LineDone
  <2>5. ParseLine(l, b) \in Told
    BY <1>1, <1>2, ParsedIsTold
  <2>6. p + 2 \in Nat
    OBVIOUS
  <2>7. QED BY <2>1, <2>2, <2>3, <2>4, <2>5, <2>6 DEF Reads
<1>4. CASE c \notin Break
  <2>1. TakeChar(c, s).path = b /\ TakeChar(c, s).line = IF Len(l) < LineSize - 1 THEN Append(l, c) ELSE l
    BY <1>4 DEF TakeChar
  <2>2. Begun(t, i, p + 1)
    BY <1>1, <1>4 DEF Begun
  <2>3. Stored(t, <<i, p + 1>>) = IF Len(l) < LineSize - 1 THEN Append(l, c) ELSE l
    <3>1. PICK n \in Nat : n = Len(l) /\ n = Width(i, p)
      BY <1>1, StoredIs, WidthIs
    <3>2. l = [k \in 1 .. n |-> t[i + k - 1]]
      <4>1. Stored(t, <<i, p>>) = [k \in 1 .. Width(i, p) |-> t[i + k - 1]]
        BY <1>1, StoredIs
      <4>2. QED BY <1>1, <3>1, <4>1, Zenon
    <3>3. p + 1 \in 0 .. Len(t) /\ p + 1 \in Nat /\ i \in 1 .. (p + 1) + 1 /\ LineSize - 1 \in Nat
      BY <1>1, SysconfAssumption
    <3>4. PICK m \in Nat : m = Width(i, p + 1) /\ Stored(t, <<i, p + 1>>) = [k \in 1 .. m |-> t[i + k - 1]]
      BY <3>3, StoredIs, WidthIs
    <3>5. CASE n < LineSize - 1
      <4>1. m = n + 1 /\ i + (n + 1) - 1 = p + 1
        <5>1. m = n + 1 /\ n = p + 1 - i
          BY <1>1, <3>1, <3>4, <3>5, WidthGrows
        <5>2. QED BY <1>1, <5>1
      <4>2. Append(l, c) = [k \in 1 .. n + 1 |-> IF k = n + 1 THEN c ELSE l[k]]
        <5>1. c \in STRING
          <6>1. p + 1 \in 1 .. Len(t) /\ t \in Seq(STRING)
            BY <1>1 DEF Line
          <6>2. QED BY <6>1, ElementOfSeq
        <5> HIDE DEF l, c
        <5>2. l \in Seq(STRING)
          BY <1>2 DEF Line
        <5>3. n \in Nat /\ n = Len(l)
          BY <3>1
        <5>4. QED BY <5>1, <5>2, <5>3, AppendIs
      <4>3. \A k \in 1 .. n + 1 : (IF k = n + 1 THEN c ELSE l[k]) = t[i + k - 1]
        BY <3>2, <4>1
      <4>4. Append(l, c) = [k \in 1 .. n + 1 |-> t[i + k - 1]]
        BY <4>2, <4>3
      <4>5. QED BY <3>1, <3>4, <3>5, <4>1, <4>4
    <3>6. CASE ~ (n < LineSize - 1)
      <4>1. m = n
        BY <1>1, <3>1, <3>4, <3>6, WidthGrows
      <4>2. QED BY <3>1, <3>2, <3>4, <3>6, <4>1
    <3>7. QED BY <3>5, <3>6
  <2>4. QED BY <1>1, <2>1, <2>2, <2>3 DEF Reads
<1>5. QED BY <1>3, <1>4

\* All the characters of a block
LEMMA BlockReads ==
    ASSUME NEW t \in Line, NEW p \in Nat, NEW q \in Nat, p =< q, q =< Len(t),
           NEW i \in Nat, Reads(t, p, i, line, bin_path)
    PROVE  \E j \in Nat : Reads(t, q, j, TakeBlock(SubSeq(t, p + 1, q)).line, TakeBlock(SubSeq(t, p + 1, q)).path)
<1> DEFINE block == SubSeq(t, p + 1, q)
           n == q - p
           s == [line |-> line, path |-> bin_path]
           X == [line : Line, path : Told]
           after[k \in 0 .. Len(block)] == IF k = 0 THEN s ELSE TakeChar(block[k], after[k - 1])
           F == [e \in (1 .. n) \X X |-> TakeChar(block[e[1]], e[2])]
<1>1. /\ n \in Nat /\ Len(t) \in Nat /\ Len(block) = n
      /\ \A k \in 1 .. n : block[k] = t[p + k] /\ block[k] \in STRING
  <2>1. Len(t) \in Nat /\ n \in Nat
    BY DEF Line
  <2>2. block = [k \in 1 .. n |-> t[p + k]]
    BY <2>1
  <2>3. \A k \in 1 .. n : t[p + k] \in STRING
    <3>1. ASSUME NEW k \in 1 .. n PROVE p + k \in 1 .. Len(t)
      BY <2>1
    <3>2. QED BY <3>1, ElementOfSeq DEF Line
  <2> HIDE DEF block
  <2>4. block \in [1 .. n -> STRING]
    BY <2>2, <2>3
  <2>5. Len(block) = n
    BY <2>1, <2>4, TextOf
  <2>6. QED BY <2>1, <2>2, <2>3, <2>5
<1>2. TakeBlock(block) = after[Len(block)]
  BY DEF TakeBlock
<1>3. s \in X
  <2>1. line \in Line /\ bin_path \in Told
    <3>1. p \in 0 .. Len(t) /\ i \in 1 .. p + 1
      BY <1>1 DEF Reads, Begun
    <3>2. QED BY <3>1, StoredIs DEF Reads
  <2>2. QED BY <2>1
<1>4. \A c \in STRING, x \in X : TakeChar(c, x) \in X
  <2>1. SUFFICES ASSUME NEW c \in STRING, NEW x \in X PROVE TakeChar(c, x) \in X
    OBVIOUS
  <2>2. x.line \in Line /\ x.path \in Told /\ <<>> \in Line
    BY DEF Line
  <2>3. ParseLine(x.line, x.path) \in Told
    BY <2>2, ParsedIsTold
  <2>4. Append(x.line, c) \in Line
    BY <2>2 DEF Line
  <2>5. QED BY <2>2, <2>3, <2>4 DEF TakeChar
<1> HIDE DEF block, n, s
<1>5. F \in [(1 .. n) \X X -> X]
  <2> HIDE DEF X
  <2>1. QED BY <1>1, <1>4
<1>6. \A k \in 1 .. n, x \in X : F[<<k, x>>] = TakeChar(block[k], x)
  OBVIOUS
<1> HIDE DEF F, X
<1>7. PICK g \in [0 .. n -> X] : Recurs(g, n, s, F)
  BY <1>1, <1>3, <1>5, RecursionExists
<1>8. \A k \in 0 .. n : g[k] = IF k = 0 THEN s ELSE TakeChar(block[k], g[k - 1])
  <2>1. \A k \in 1 .. n : g[k - 1] \in X
    BY <1>1
  <2>2. g[0] = s /\ \A k \in 1 .. n : g[k] = TakeChar(block[k], g[k - 1])
    BY <1>6, <1>7, <2>1 DEF Recurs
  <2>3. QED BY <1>1, <2>2
<1>9. g = [k \in 0 .. Len(block) |-> IF k = 0 THEN s ELSE TakeChar(block[k], g[k - 1])]
  BY <1>1, <1>8
<1>10. after = [k \in 0 .. Len(block) |-> IF k = 0 THEN s ELSE TakeChar(block[k], after[k - 1])]
  BY <1>9, Zenon
<1> HIDE DEF after
<1>11. after[0] = s /\ \A k \in 1 .. n : after[k] = TakeChar(block[k], after[k - 1])
  <2>1. \A k \in 0 .. n : after[k] = IF k = 0 THEN s ELSE TakeChar(block[k], after[k - 1])
    BY <1>1, <1>10, Zenon
  <2>2. QED BY <1>1, <2>1
<1> DEFINE P == {k \in 0 .. n : /\ after[k] \in X
                                /\ \E j \in Nat : Reads(t, p + k, j, after[k].line, after[k].path)}
<1>12. 0 \in P
  <2>1. after[0] \in X /\ after[0].line = line /\ after[0].path = bin_path
    BY <1>3, <1>11 DEF s
  <2>2. p + 0 = p /\ 0 \in 0 .. n
    BY <1>1
  <2>3. QED BY <2>1, <2>2
<1>13. ASSUME NEW k \in 1 .. n, k - 1 \in P PROVE k \in P
  <2>1. after[k] = TakeChar(t[p + k], after[k - 1]) /\ after[k] \in X
    BY <1>1, <1>4, <1>11, <1>13
  <2>2. PICK m \in Nat : m = p + (k - 1) /\ m + 1 = p + k /\ m < Len(t)
    BY <1>1 DEF n
  <2>3. PICK x \in X, j \in Nat : x = after[k - 1] /\ Reads(t, m, j, x.line, x.path)
    BY <1>13, <2>2
  <2>4. x = [line |-> x.line, path |-> x.path]
    BY <2>3 DEF X
  <2>5. \E h \in Nat : Reads(t, m + 1, h, TakeChar(t[m + 1], x).line, TakeChar(t[m + 1], x).path)
    BY <2>2, <2>3, <2>4, TakeReads
  <2>6. \E h \in Nat : Reads(t, p + k, h, after[k].line, after[k].path)
    BY <2>1, <2>2, <2>3, <2>5
  <2>7. QED BY <2>1, <2>6
<1>14. \A k \in 0 .. n : k \in P
  <2> HIDE DEF P
  <2>1. QED BY <1>1, <1>12, <1>13, AllPlaces
<1>15. n \in 0 .. n /\ p + n = q
  BY <1>1 DEF n
<1>16. \E j \in Nat : Reads(t, q, j, after[n].line, after[n].path)
  BY <1>14, <1>15
<1>17. TakeBlock(block) = after[n]
  BY <1>1, <1>2
<1>18. QED BY <1>16, <1>17 DEF block

\* What is said when the text is at its end is what it says.
LEMMA EndTells ==
    ASSUME NEW t \in Line, NEW i \in Nat, NEW l, NEW b, Reads(t, Len(t), i, l, b)
    PROVE  ParseLine(l, b) = Configured(t)
<1>1. Len(t) \in Nat /\ Len(t) \in 0 .. Len(t)
  BY DEF Line
<1>2. Tells(t, SaidBefore(t, Len(t) + 2), ParseLine(l, b))
  BY <1>1, LineDone
<1>3. SaidBefore(t, Len(t) + 2) = Saying(t)
  <2>1. \A r \in Saying(t) : r[2] \in 1 .. Len(t)
    BY DEF Saying
  <2>2. QED BY <1>1, <2>1 DEF SaidBefore
<1>4. CASE Saying(t) = {}
  BY <1>2, <1>3, <1>4 DEF Tells, Configured
<1>5. CASE Saying(t) # {}
  <2> DEFINE Last(r) == r \in Saying(t) /\ \A q \in Saying(t) : q[1] <= r[1]
  <2>1. PICK r : Last(r) /\ ParseLine(l, b) = BinOf(Stored(t, r))
    BY <1>2, <1>3, <1>5 DEF Tells
  <2>2. PICK s : Last(s) /\ s = CHOOSE x \in Saying(t) : \A q \in Saying(t) : q[1] <= x[1]
    <3>1. \E x \in Saying(t) : \A q \in Saying(t) : q[1] <= x[1]
      BY <2>1
    <3>2. Last(CHOOSE x \in Saying(t) : \A q \in Saying(t) : q[1] <= x[1])
      BY <3>1, Zenon
    <3>3. QED BY <3>2
  <2>3. /\ r = <<r[1], r[2]>> /\ r[1] \in Nat /\ r[2] \in 1 .. Len(t) /\ r[1] =< r[2] /\ LineAt(t, r[1], r[2])
        /\ s = <<s[1], s[2]>> /\ s[1] \in Nat /\ s[2] \in 1 .. Len(t) /\ s[1] =< s[2] /\ LineAt(t, s[1], s[2])
    <3>1. \A x \in Saying(t) : /\ x = <<x[1], x[2]>> /\ x[1] \in 1 .. Len(t) /\ x[2] \in 1 .. Len(t)
                               /\ x[1] =< x[2] /\ LineAt(t, x[1], x[2])
      BY DEF Saying
    <3>2. r \in Saying(t) /\ s \in Saying(t)
      BY <2>1, <2>2
    <3>3. QED BY <1>1, <3>1, <3>2
  <2>4. r[1] = s[1]
    BY <2>1, <2>2, <2>3
  <2>5. ASSUME NEW x \in Nat, NEW y \in 1 .. Len(t), NEW z \in 1 .. Len(t), x =< y, y < z,
               LineAt(t, x, y), LineAt(t, x, z)
        PROVE  FALSE
    <3>1. y + 1 \in x .. z /\ y < Len(t)
      BY <1>1, <2>5
    <3>2. QED BY <2>5, <3>1 DEF LineAt
  <2>6. r[2] = s[2]
    BY <1>1, <2>3, <2>4, <2>5
  <2>7. r = s
    BY <2>3, <2>4, <2>6
  <2>8. QED BY <1>5, <2>1, <2>2, <2>7 DEF Configured
<1>6. QED BY <1>4, <1>5

LEMMA ConfStart == Init => ConfInv
<1>1. SUFFICES ASSUME Init PROVE Reads(conf, 0, 1, line, bin_path) /\ conf \in Line /\ pos = 0
  <2>1. \A n \in Nat : 0 \in 0 .. n
    OBVIOUS
  <2>2. QED BY <1>1, <2>1 DEF ConfInv, Line
<1>2. conf \in Line /\ pos = 0 /\ line = <<>> /\ bin_path = DefaultBin
  BY <1>1, SysconfAssumption DEF Init, ConfInit, Line
<1>3. Stored(conf, <<1, 0>>) = <<>>
  <2>1. 0 \in 0 .. Len(conf) /\ 1 \in 1 .. 0 + 1
    BY <1>2 DEF Line
  <2>2. Width(1, 0) = 0
    BY SysconfAssumption DEF Width
  <2>3. Stored(conf, <<1, 0>>) \in Line /\ Len(Stored(conf, <<1, 0>>)) = 0
    BY <1>2, <2>1, <2>2, StoredIs
  <2>4. QED BY <2>3 DEF Line
<1>4. SaidBefore(conf, 1) = {}
  BY <1>2 DEF SaidBefore, Saying, Line
<1>5. Begun(conf, 1, 0)
  BY DEF Begun
<1>6. QED BY <1>2, <1>3, <1>4, <1>5 DEF Reads, Tells, Told

LEMMA ConfStep == ConfInv /\ [Next]_vars => ConfInv'
<1> SUFFICES ASSUME ConfInv, [Next]_vars PROVE ConfInv'
  OBVIOUS
<1>1. CASE ReadConf
  <2>1. pc = "boot" /\ ReadBlock /\ conf' = conf
    BY <1>1 DEF ReadConf, ReadBlock
  <2>2. conf \in Line /\ pos \in 0 .. Len(conf) /\ Len(conf) \in Nat /\ pos < Len(conf)
    BY <2>1 DEF ConfInv, ReadBlock, Line
  <2>3. PICK p \in Nat, q \in Nat : p = pos /\ q = pos + Minimum(BufferSize, Len(conf) - pos) /\ p < q /\ q =< Len(conf)
    <3>1. pos \in Nat /\ BufferSize \in Nat \ {0}
      BY <2>2, SysconfAssumption
    <3>2. Minimum(BufferSize, Len(conf) - pos) \in 1 .. Len(conf) - pos
      BY <2>2, <3>1 DEF Minimum
    <3>3. QED BY <2>2, <3>1, <3>2
  <2>4. pos' = q
    BY <2>1, <2>3 DEF ReadBlock
  <2>5. Len(conf) =< ClusterSize => \E j \in Nat : Reads(conf, q, j, line', bin_path')
    <3>1. SUFFICES ASSUME Len(conf) =< ClusterSize PROVE \E j \in Nat : Reads(conf, q, j, line', bin_path')
      OBVIOUS
    <3>2. PICK i \in Nat : Reads(conf, p, i, line, bin_path)
      BY <2>1, <2>3, <3>1 DEF ConfInv
    <3>3. pos % ClusterSize = p /\ p + Minimum(BufferSize, Len(conf) - pos) = q
      <4>1. PICK c \in Nat : c = ClusterSize /\ p < c
        BY <2>2, <2>3, <3>1, SysconfAssumption
      <4>2. p % c = p
        BY <4>1
      <4>3. QED BY <2>3, <4>1, <4>2
    <3>4. line' = TakeBlock(SubSeq(conf, p + 1, q)).line /\ bin_path' = TakeBlock(SubSeq(conf, p + 1, q)).path
      BY <2>1, <3>3 DEF ReadBlock
    <3>5. \E j \in Nat : Reads(conf, q, j, TakeBlock(SubSeq(conf, p + 1, q)).line, TakeBlock(SubSeq(conf, p + 1, q)).path)
      BY <2>2, <2>3, <3>2, BlockReads
    <3>6. QED BY <3>4, <3>5
  <2>6. pos' \in 0 .. Len(conf)
    BY <2>2, <2>3, <2>4
  <2>7. QED BY <2>1, <2>2, <2>4, <2>5, <2>6 DEF ConfInv
<1>2. CASE UNCHANGED config /\ (pc' \in {"start", "boot"} => pc \in {"start", "boot"})
  BY <1>2 DEF ConfInv, config
<1>3. CASE pc' \notin {"start", "boot"}
  BY <1>3 DEF ConfInv
<1>4. QED
  BY <1>1, <1>2, <1>3 DEF Next, vars, own, OpenConf, CloseConf, NotFound, Load, MapSegment, Call,
       Scribble, OpenNamed, CreateNamed, OpenCreated, InOut, CloseNamed, Copy, GetTime, DateReturn,
       ReturnAny, ExitAny, Stopped, Exec, OpenAny, CloseAny, ToShell, config

LEMMA ConfAlways == Spec => []ConfInv
  BY ConfStart, ConfStep, PTL DEF Spec

\* sysconf_load puts the lines of its file together and takes the last word of it for
\* every key, for any file of at most a cluster, and wherever the reads have cut it.
THEOREM ConfigurationIsTheFile == Spec => ConfigIsRight
<1> DEFINE Right == pc = "boot" /\ pc' # "boot" /\ pos = Len(conf) /\ Len(conf) =< ClusterSize =>
                        bin_path' = Configured(conf)
<1>1. ConfInv /\ [Next]_vars => [Right]_vars
  <2> SUFFICES ASSUME ConfInv, [Next]_vars, pc = "boot", pc' # "boot", pos = Len(conf), Len(conf) =< ClusterSize
               PROVE  bin_path' = Configured(conf)
    OBVIOUS
  <2>1. CloseConf
    BY DEF Next, vars, own, OpenConf, ReadConf, NotFound, Load, MapSegment, Call, Scribble, OpenNamed,
         CreateNamed, OpenCreated, InOut, CloseNamed, Copy, GetTime, DateReturn, ReturnAny,
         ExitAny, Stopped, Exec, OpenAny, CloseAny
  <2>2. PICK i \in Nat : conf \in Line /\ Reads(conf, Len(conf), i, line, bin_path)
    BY DEF ConfInv
  <2>3. bin_path' = ParseLine(line, bin_path)
    BY <2>1 DEF CloseConf, LastLine, ParseLine, GivesBin
  <2>4. QED BY <2>2, <2>3, EndTells
<1>2. QED BY <1>1, ConfAlways, PTL DEF Spec, ConfigIsRight
=============================================================================
