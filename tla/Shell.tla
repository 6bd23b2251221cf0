-------------------------------- MODULE Shell --------------------------------
(***************************************************************************)
(* shell_run (src/shell/shell.c): the line that is typed and its echo on   *)
(* the screen, the words it is cut into by strtok (lib/string.c) with a    *)
(* position that outlives the call, the built-in commands, and shutdown    *)
(* with its wait for the timer (drivers/timer.c).  What programs do is     *)
(* their output.                                                           *)
(***************************************************************************)
EXTENDS Screen, FiniteSets

CONSTANTS
    Key,                \* characters that can be typed, beside the special ones
    BufferSize,         \* SHELL_BUFFER_SIZE
    MaxArgs,            \* MAX_ARGS
    Cd, ExitWord, Reboot, Shutdown, Now,    \* words with a meaning
    Prompt, Message,    \* texts: the prompt, an error
    Output,             \* what programs may write
    Digit,              \* the digits, with their values
    Unit,               \* the units of time, in seconds
    DefaultSeconds,     \* 60
    Frequency, Factor,  \* ticks in a second, and what shutdown takes for it
    Turn,               \* numbers of the tick counter, 2^32
    StartTicks          \* what it may stand at when shutdown looks

ASSUME ShellAssumption ==
    /\ BufferSize \in Nat \ {0} /\ MaxArgs \in Nat \ {0, 1}
    /\ Turn \in Nat \ {0} /\ StartTicks \subseteq 0 .. Turn - 1
    /\ Frequency \in Nat \ {0} /\ Factor \in Nat /\ Frequency <= Factor
    /\ Key \cap {NewLine, Return, Tab, Backspace, "0"} = {}
    /\ \A t \in Output \cup {Prompt, Message} : t \in Seq(STRING)
    /\ DefaultSeconds \in Nat
    /\ \A c \in DOMAIN Digit : Digit[c] \in Nat
    /\ \A c \in DOMAIN Unit : Unit[c] \in Nat

VARIABLES
    screen,
    buffer,     \* input_buffer: what has been typed
    pc,         \* what the shell is doing
    text,       \* the buffer while strtok cuts it up
    save,       \* strtok_saveptr; 0 is NULL
    argv,       \* where the words begin
    ticks, target,      \* of the timer; the local variable of shutdown
    slipped,    \* history: the echo can no longer be put right
    begun, waited   \* history: where ticks stood when shutdown began, and how many
                    \* have come since, Turn for more

timer == <<ticks, target, begun, waited>>
vars == <<screen, buffer, pc, text, save, argv, slipped, timer>>

End == Len(text) + 1            \* the place of the 0 behind the buffer
Cut == "0"                      \* a character 0

Init ==
    /\ screen = Write(Clear, Prompt)
    /\ buffer = <<>> /\ pc = "line"
    /\ text = <<>> /\ save = 0 /\ argv = <<>>
    /\ ticks = 0 /\ target = 0 /\ begun = 0 /\ waited = 0
    /\ slipped = FALSE

-----------------------------------------------------------------------------
\* One character from the keyboard.  A full buffer takes no more, without a sound.
TypeKey(c) ==
    /\ pc = "line"
    /\ Len(buffer) < BufferSize - 1
    /\ buffer' = Append(buffer, c)
    /\ screen' = Put(screen, c)
    /\ slipped' = (slipped \/ c = Tab)
    /\ UNCHANGED <<pc, text, save, argv, timer>>

TypeBackspace ==
    /\ pc = "line"
    /\ buffer # <<>>
    /\ buffer' = SubSeq(buffer, 1, Len(buffer) - 1)
    /\ screen' = Put(screen, Backspace)
    /\ slipped' = (slipped \/ screen.x = 0)
    /\ UNCHANGED <<pc, text, save, argv, timer>>

\* Enter: execute_command begins with the first strtok.
TypeEnter ==
    /\ pc = "line"
    /\ screen' = Put(screen, NewLine)
    /\ text' = buffer
    /\ save' = IF buffer = <<>> THEN save ELSE 1
    /\ argv' = <<>>
    /\ pc' = IF buffer = <<>> THEN "prompt" ELSE "split"
    /\ UNCHANGED <<buffer, slipped, timer>>

Least(places) == IF places = {} THEN End ELSE CHOOSE k \in places : \A j \in places : k <= j
WordFrom(i) == Least({k \in i .. Len(text) : text[k] # Blank})
WordEnd(i) == Least({k \in i .. Len(text) : text[k] \in {Blank, Cut}})

\* Mutant: the character after the cut is passed over.
StrtokSkips(end) == IF end = End THEN 0 ELSE end + 2

\* What strtok keeps for the next call
StrtokNext(end) == IF end = End THEN 0 ELSE end + 1

\* One strtok and the turn of the loop around it.  When there are more words than
\* places, the next one is cut off all the same, and strtok keeps its position in
\* this line for good.
Strtok ==
    /\ pc = "split"
    /\ LET start == IF save = 0 THEN End ELSE WordFrom(save)
           end == WordEnd(start)
       IN  /\ save' = IF start = End THEN 0 ELSE StrtokNext(end)
           /\ text' = IF end = End THEN text ELSE [text EXCEPT ![end] = Cut]
           /\ \/ /\ start # End /\ Len(argv) < MaxArgs
                 /\ argv' = Append(argv, start)
                 /\ UNCHANGED pc
              \/ /\ start = End \/ Len(argv) = MaxArgs
                 /\ pc' = IF argv = <<>> THEN "prompt" ELSE "run"
                 /\ UNCHANGED argv
    /\ UNCHANGED <<screen, buffer, slipped, timer>>

\* The string that begins at a place of the text
Arg(n) == SubSeq(text, argv[n], WordEnd(argv[n]) - 1)

-----------------------------------------------------------------------------
\* The outcome of a command as far as the screen goes
Says(cmds, texts) ==
    /\ pc = "run" /\ Arg(1) \in cmds
    /\ \E t \in texts : screen' = Write(screen, t)
    /\ UNCHANGED <<buffer, text, save, argv, slipped>>

\* cd prints only that there is no such directory; a program prints what it likes,
\* or there is none.
RunCd == Says({Cd}, {<<>>, Message}) /\ pc' = "prompt" /\ UNCHANGED timer

RunProgram ==
    /\ pc = "run" /\ Arg(1) \notin {Cd, ExitWord, Reboot, Shutdown}
    /\ Says({Arg(1)}, Output \cup {Message})
    /\ pc' = "prompt"
    /\ UNCHANGED timer

\* exit and reboot end what the shell does.
RunEnd == Says({ExitWord, Reboot}, {Message}) /\ pc' = "stopped" /\ UNCHANGED timer

\* The number in the first n characters, whatever else is among them
Number(word, n) ==
    LET value[k \in 0 .. n] ==
          IF k = 0 THEN 0
          ELSE IF word[k] \in DOMAIN Digit THEN value[k - 1] * 10 + Digit[word[k]]
          ELSE value[k - 1]
    IN  value[n]

\* parse_time: "now", or digits and a unit; no number is 1, no unit is a minute.
ParseTime(word) ==
    IF word = Now THEN 0
    ELSE IF Len(word) < 2 \/ Last(word) \notin DOMAIN Unit THEN DefaultSeconds
    ELSE LET value == Number(word, Len(word) - 1)
         IN  (IF value = 0 THEN 1 ELSE value) * Unit[Last(word)]

Delay == IF Len(argv) < 2 THEN DefaultSeconds ELSE ParseTime(Arg(2))

\* Mutant: the ticks there have been are forgotten.
TargetFromStart(now, seconds) == (seconds * Factor) % Turn

\* timer_get_ticks() + seconds * 1000, in 32 bits
Target(now, seconds) == (now + seconds * Factor) % Turn

RunShutdown ==
    /\ Says({Shutdown}, {Message})
    /\ waited' = 0
    /\ IF Delay = 0
       THEN pc' = "stopped" /\ UNCHANGED <<ticks, target, begun>>
       ELSE /\ pc' = "wait"
            /\ ticks' \in StartTicks /\ begun' = ticks'
            /\ target' = Target(ticks', Delay)

\* Mutant: the wait goes on as long as the target has not passed.
Passed == ticks > target

\* while (timer_get_ticks() < target)
Reached == ticks >= target

\* The wait: before the test of the loop, between it and hlt, and in hlt after a tick
\* that came between the two
Waiting == {"wait", "hlt", "asleep"}

Look ==
    /\ pc = "wait" /\ ~Reached
    /\ pc' = "hlt"
    /\ UNCHANGED <<screen, buffer, text, save, argv, slipped, timer>>

\* timer_handler.  It ends hlt, and the loop looks again before the next tick; a tick
\* just before hlt does not.
Tick ==
    /\ pc \in {"hlt", "asleep"}
    /\ pc' \in IF pc = "hlt" THEN {"wait", "asleep"} ELSE {"wait"}
    /\ ticks' = (ticks + 1) % Turn
    /\ waited' = IF waited < Turn THEN waited + 1 ELSE waited
    /\ UNCHANGED <<screen, buffer, text, save, argv, target, begun, slipped>>

\* do_shutdown
Halt ==
    /\ pc = "wait" /\ Reached
    /\ pc' = "stopped"
    /\ screen' = Write(screen, Message)
    /\ UNCHANGED <<buffer, text, save, argv, slipped, timer>>

\* The next line begins.
ShowPrompt ==
    /\ pc = "prompt"
    /\ pc' = "line"
    /\ screen' = Write(screen, Prompt)
    /\ buffer' = <<>> /\ text' = <<>> /\ argv' = <<>>
    /\ slipped' = FALSE
    /\ UNCHANGED <<save, timer>>

Next ==
    \/ \E c \in Key \cup {Blank, Tab} : TypeKey(c)
    \/ TypeBackspace \/ TypeEnter
    \/ Strtok \/ RunCd \/ RunProgram \/ RunEnd \/ RunShutdown
    \/ Look \/ Tick \/ Halt \/ ShowPrompt

\* The processor executes, the timer ticks; nobody need type.
Spec == Init /\ [][Next]_vars /\ WF_vars(Look \/ Tick \/ Halt)

-----------------------------------------------------------------------------
\* The words of a line: what stands between blanks
Word(l, i, j) ==
    /\ \A k \in i .. j : l[k] # Blank
    /\ i > 1 => l[i - 1] = Blank
    /\ j < Len(l) => l[j + 1] = Blank

Begins(l) == {i \in DOMAIN l : \E j \in i .. Len(l) : Word(l, i, j)}
Nth(places, n) == CHOOSE i \in places : Cardinality({k \in places : k <= i}) = n

Words(l) ==
    [n \in 1 .. Cardinality(Begins(l)) |->
        LET i == Nth(Begins(l), n)
            j == CHOOSE j \in i .. Len(l) : Word(l, i, j)
        IN  SubSeq(l, i, j)]

\* What stands before the cursor is what Enter will run, also after the line has
\* wrapped and the screen has scrolled, until the echo has slipped.  Only what the
\* last row cannot hold may have left the screen.
Shown(n) ==
    IF n <= Place(screen) THEN Before(screen, n) = buffer[Len(buffer) - n + 1]
    ELSE n > (Rows - 1) * Columns

EchoIsRight == pc = "line" /\ ~slipped => \A n \in DOMAIN buffer : Shown(n)

\* A command gets the words of the line, at most MaxArgs of them, whatever strtok
\* has kept of the lines before.
ArgsAreWords ==
    pc = "run" => [n \in DOMAIN argv |-> Arg(n)] = SubSeq(Words(buffer), 1, Len(argv))
                  /\ (Len(argv) = Len(Words(buffer)) \/ Len(argv) = MaxArgs)

\* The system is not halted before the time given on the line has passed, if the
\* target fits in the tick counter.
Asked == LET w == Words(buffer) IN IF Len(w) = 1 THEN DefaultSeconds ELSE ParseTime(w[2])

NotEarly ==
    [][pc = "wait" /\ pc' = "stopped" =>
        waited >= Asked * Frequency \/ begun + Asked * Factor >= Turn]_vars

\* A shutdown that has been announced comes, unless its tick is the last before the
\* counter runs over and can be the one that comes between the test and hlt.
ShutdownComes == pc = "wait" /\ target < Turn - 1 ~> pc = "stopped"


-----------------------------------------------------------------------------
\* Not so: the echo is right in every line (ShellEcho.cfg).
EchoAlwaysRight == pc = "line" => \A n \in DOMAIN buffer : Shown(n)

\* Not so: it is halted when it said (ShellShutdown.cfg).
ShutdownOnTime ==
    [][pc = "wait" /\ pc' = "stopped" => waited = Asked * Frequency]_vars
=============================================================================
