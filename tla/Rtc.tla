--------------------------------- MODULE Rtc ---------------------------------
(***************************************************************************)
(* rtc_read_time (src/drivers/rtc.c): the registers of a clock that goes   *)
(* on by itself are read one after another.                                *)
(*                                                                         *)
(* Once a second the chip raises UIP, changes its registers and lowers it  *)
(* again.  It raises UIP 244 microseconds ahead, so whoever has seen it    *)
(* low has that long to read: time for Window accesses.  No interrupt can  *)
(* take that time away, as the system call runs with interrupts off.       *)
(***************************************************************************)
EXTENDS Integers, Sequences, FiniteSets

CONSTANTS
    Limit,      \* the ranges of the registers, seconds first
    Start,      \* the times at which a call may begin
    Updates,    \* bound: updates of the clock during a call
    Window      \* accesses that fit between a look at UIP and the update

\* An access takes a microsecond or two of the 244, so that there is time for all
\* registers.
ASSUME RtcAssumption ==
    /\ Limit \in Seq(1 .. 100) /\ Limit # <<>>
    /\ Start \subseteq [DOMAIN Limit -> 0 .. 99]
    /\ \A t \in Start : \A r \in DOMAIN Limit : t[r] < Limit[r]
    /\ Updates \in Nat
    /\ Window \in Nat /\ Window >= Len(Limit)

Register == DOMAIN Limit

VARIABLES
    now,        \* the time
    uip,        \* an update is due or in progress
    bcd,        \* status B: registers are in BCD
    quiet,      \* accesses for which no update is due
    at,         \* 0 outside the call, 1 polling UIP, r + 1 reading register r
    sample,     \* the local variables of the call
    told,       \* what the call returns, or <<>>
    shown       \* history: the times shown since the call began

clock == <<now, uip, bcd, quiet, at, sample, told, shown>>

\* Outside a call nobody looks at the clock.
RtcIdle ==
    /\ now = <<>> /\ uip = FALSE /\ bcd = FALSE /\ quiet = 0
    /\ at = 0 /\ sample = <<>> /\ told = <<>> /\ shown = {}

Encode(v) == IF bcd THEN (v \div 10) * 16 + (v % 10) ELSE v

\* bcd_to_binary, unless status B says that it is binary already
Decode(b) == IF bcd THEN (b \div 16) * 10 + (b % 16) ELSE b

\* A second later: a register that is full starts again and carries.
Later(t) ==
    [r \in Register |->
        IF \A q \in 1 .. r - 1 : t[q] = Limit[q] - 1 THEN (t[r] + 1) % Limit[r] ELSE t[r]]

-----------------------------------------------------------------------------
\* The call begins at any time and in either mode of the chip.
CallTime ==
    /\ at = 0
    /\ now' \in Start /\ uip' \in BOOLEAN /\ bcd' \in BOOLEAN
    /\ at' = 1 /\ quiet' = 0 /\ sample' = <<>> /\ told' = <<>>
    /\ shown' = {now'}

ChipWarn ==
    /\ at # 0 /\ ~uip /\ quiet = 0
    /\ Cardinality(shown) <= Updates
    /\ uip' = TRUE
    /\ UNCHANGED <<now, bcd, quiet, at, sample, told, shown>>

ChipUpdate ==
    /\ uip
    /\ uip' = FALSE
    /\ now' = Later(now)
    /\ shown' = shown \cup {now'}
    /\ UNCHANGED <<bcd, quiet, at, sample, told>>

\* Mutant: the registers are read whatever UIP is.
PollNot ==
    /\ at = 1
    /\ at' = 2
    /\ quiet' = IF uip THEN 0 ELSE Window
    /\ UNCHANGED <<now, uip, bcd, sample, told, shown>>

\* while (rtc_is_updating());
Poll ==
    /\ at = 1 /\ ~uip
    /\ at' = 2
    /\ quiet' = Window
    /\ UNCHANGED <<now, uip, bcd, sample, told, shown>>

\* rtc_read_register: while UIP is high there is anything in a register.
ReadRegister ==
    /\ at - 1 \in Register
    /\ \E v \in IF uip THEN 0 .. Limit[at - 1] - 1 ELSE {now[at - 1]} :
         sample' = Append(sample, Encode(v))
    /\ at' = at + 1
    /\ quiet' = IF quiet = 0 THEN 0 ELSE quiet - 1
    /\ UNCHANGED <<now, uip, bcd, told, shown>>

\* Status B is read and the registers are converted.
ReadEnd ==
    /\ at = Len(Limit) + 2
    /\ told = <<>>
    /\ told' = [r \in Register |-> Decode(sample[r])]
    /\ UNCHANGED <<now, uip, bcd, quiet, at, sample, shown>>

\* The system call returns.
TimeReturn ==
    /\ told # <<>>
    /\ now' = <<>> /\ uip' = FALSE /\ bcd' = FALSE /\ quiet' = 0
    /\ at' = 0 /\ sample' = <<>> /\ told' = <<>> /\ shown' = {}

RtcNext == CallTime \/ ChipWarn \/ ChipUpdate \/ Poll \/ ReadRegister \/ ReadEnd \/ TimeReturn

-----------------------------------------------------------------------------
\* The time that SYS_GETTIME tells a program is one the clock has shown during
\* the call, never a mixture of two.
TimeIsTrue == told # <<>> => told \in shown
=============================================================================
