------------------------------- MODULE MCShell -------------------------------
(* Words and texts for Shell.                                              *)
EXTENDS Shell

MCCd == <<"1">>
MCExit == <<"1", "1">>
MCReboot == <<"s", "s">>
MCShutdown == <<"s">>
MCNow == <<"1", "1">>
MCPrompt == <<"$">>
MCMessage == <<"m", NewLine>>
MCOutput == {<<>>, <<"m", Tab, "m">>, <<"m", "m", "m", Return>>}
MCDigit == [c \in {"1"} |-> 1]
MCUnit == [c \in {"s"} |-> 1]
=============================================================================
