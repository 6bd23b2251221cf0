CONSTANTS
    Columns = 4
    Rows = 2
    Key = {"1", "s"}
    BufferSize = 6
    MaxArgs = 2
    Cd <- MCCd
    ExitWord <- MCExit
    Reboot <- MCReboot
    Shutdown <- MCShutdown
    Now <- MCNow
    Prompt <- MCPrompt
    Message <- MCMessage
    Output <- MCOutput
    Digit <- MCDigit
    Unit <- MCUnit
    DefaultSeconds = 2
    Frequency = 1
    Factor = 3
    Turn = 8
    StartTicks = {0, 1, 4}

SPECIFICATION Spec

INVARIANTS
    EchoAlwaysRight

CHECK_DEADLOCK FALSE
