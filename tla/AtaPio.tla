-------------------------------- MODULE AtaPio --------------------------------
(***************************************************************************)
(* The ATA driver, src/drivers/ata.c, and the drive it polls, one sector a *)
(* command as every caller of block.c asks.                                *)
(*                                                                         *)
(* The drive works on its own.  While it is busy or wants its data moved   *)
(* it ignores what is written to its registers, and a command clears the   *)
(* error of the one before.  The driver writes registers without looking.  *)
(* ata_identify, once, and ata_poll are where it waits, and it gives up.   *)
(***************************************************************************)
EXTENDS Integers

CONSTANTS
    Lba,            \* addresses of sectors
    Version         \* contents a sector may be given, by version

ASSUME AtaAssumption ==
    /\ Lba \subseteq Nat \ {0}
    /\ Version \subseteq Nat

\* Contents are told apart by the sector they are meant for.
Data == [lba : Lba, version : Version]
Garbage == [lba |-> 0, version |-> 0]

VARIABLES
    disk,           \* sector -> contents
    mode,           \* "ready", "busy" (BSY) or "data" (DRQ)
    command,        \* what the drive is at, or was last
    address,        \* its address registers
    sector,         \* its sector buffer
    error,          \* ERR or DF
    present,        \* primary_drive.present
    phase, call,    \* the driver: its step, and the call it serves
    reply,          \* result of the last call, and what a read found
    latest,         \* history: the contents last asked to be written
    lost,           \* history: the drive had an error, or a poll gave up
    risk            \* history: why driver and drive may have lost each other

drive == <<disk, mode, command, address, sector, error>>
ataVars == <<drive, present, phase, call, reply, latest, lost, risk>>

NoCall == [op |-> "none"]
Call == {NoCall} \cup [op : {"read"}, lba : Lba]
          \cup [op : {"write"}, lba : Lba, data : Data] \cup [op : {"flush"}]

AtaTypeOK ==
    /\ disk \in [Lba -> Data]
    /\ mode \in {"ready", "busy", "data"}
    /\ present \in BOOLEAN
    /\ command \in {"none", "identify", "read", "write", "store", "flush"}
    /\ address \in Lba
    /\ sector \in Data
    /\ error \in BOOLEAN
    /\ phase \in {"start", "identify", "idle", "issue", "poll"}
    /\ call \in Call
    /\ reply \in [ok : BOOLEAN, data : Data \cup {Garbage}]
    /\ latest \in [Lba -> Data]
    /\ lost \in BOOLEAN
    /\ risk \subseteq {"hasty", "late"}

\* The primary master is a drive, as in the machine the Makefile starts.
AtaInit ==
    /\ disk \in [Lba -> Data] /\ \A l \in Lba : disk[l].lba = l
    /\ mode = "ready" /\ command = "none" /\ error = FALSE
    /\ address \in Lba
    /\ sector \in Data
    /\ present = FALSE
    /\ phase = "start" /\ call = NoCall
    /\ reply = [ok |-> TRUE, data |-> Garbage]
    /\ latest = disk
    /\ lost = FALSE
    /\ risk = {}

-----------------------------------------------------------------------------
\* The drive has read the sector, or wants the one to write.
DriveReady ==
    /\ mode = "busy" /\ command \in {"identify", "read", "write"}
    /\ mode' = "data"
    /\ sector' = IF command = "read" THEN disk[address] ELSE sector
    /\ UNCHANGED <<disk, command, address, error, lost>>

\* It has stored the sector it was given, or flushed its cache.
DriveDone ==
    /\ mode = "busy" /\ command \in {"store", "flush"}
    /\ mode' = "ready"
    /\ disk' = IF command = "store" THEN [disk EXCEPT ![address] = sector] ELSE disk
    /\ UNCHANGED <<command, address, sector, error, lost>>

\* It has failed.
DriveError ==
    /\ mode = "busy"
    /\ mode' = "ready" /\ error' = TRUE
    /\ lost' = TRUE
    /\ UNCHANGED <<disk, command, address, sector>>

Drive == (DriveReady \/ DriveDone \/ DriveError) /\ UNCHANGED <<present, phase, call, reply, latest, risk>>

-----------------------------------------------------------------------------
\* ata_identify: the command goes out,
Identify ==
    /\ phase = "start"
    /\ phase' = "identify"
    /\ mode' = "busy" /\ command' = "identify" /\ error' = FALSE
    /\ UNCHANGED <<disk, address, sector, present, call, reply, latest, lost, risk>>

\* and what the drive says of itself is read,
IdentifyRead ==
    /\ phase = "identify"
    /\ mode = "data"
    /\ mode' = "ready"
    /\ present' = TRUE /\ phase' = "idle"
    /\ UNCHANGED <<disk, command, address, sector, error, call, reply, latest, lost, risk>>

\* unless there is an error or it takes too long, for which an answer in the last
\* turn of a wait is taken, too.  On the other three places where ata_init looks
\* there is no drive.
IdentifyFail ==
    /\ phase = "identify"
    /\ phase' = "idle"
    /\ UNCHANGED <<drive, present, call, reply, latest, lost, risk>>

\* Without a drive no call does anything.
Refuse ==
    /\ phase = "idle" /\ ~present
    /\ reply' = [ok |-> FALSE, data |-> Garbage]
    /\ UNCHANGED <<drive, present, phase, call, latest, lost, risk>>

-----------------------------------------------------------------------------
Return(ok, data) == /\ phase' = "idle" /\ call' = NoCall
                    /\ reply' = [ok |-> ok, data |-> data]

\* A call writes the address registers (a flush has none),
Start(c) ==
    /\ phase = "idle" /\ present
    /\ call' = c
    /\ phase' = "issue"
    /\ address' = IF mode = "ready" /\ c.op # "flush" THEN c.lba ELSE address
    /\ latest' = IF c.op = "write" THEN [latest EXCEPT ![c.lba] = c.data] ELSE latest
    /\ risk' = IF mode = "busy" THEN risk \cup {"hasty"} ELSE risk
    /\ UNCHANGED <<disk, mode, command, sector, error, present, reply, lost>>

\* then the command register.
Issue ==
    /\ phase = "issue"
    /\ IF mode = "ready"
       THEN mode' = "busy" /\ command' = call.op /\ error' = FALSE
       ELSE UNCHANGED <<mode, command, error>>
    /\ phase' = "poll"
    /\ UNCHANGED <<disk, address, sector, present, call, reply, latest, lost, risk>>

\* Mutant: ata_poll does not look at BSY, and a stale sector is read.
PollReadEarly ==
    /\ phase = "poll" /\ call.op = "read"
    /\ Return(TRUE, sector)
    /\ mode' = "ready"
    /\ UNCHANGED <<disk, command, address, sector, error, present, latest, lost, risk>>

\* ata_poll sees DRQ and the sector is moved.  A drive that wants one to write
\* gives nothing to a driver that reads, and takes nothing when it offers one.
PollRead ==
    /\ phase = "poll" /\ call.op = "read"
    /\ mode = "data" /\ ~error
    /\ Return(TRUE, IF command = "read" THEN sector ELSE Garbage)
    /\ mode' = IF command = "read" THEN "ready" ELSE mode
    /\ UNCHANGED <<disk, command, address, sector, error, present, latest, lost, risk>>

\* Mutant: the words of another buffer are sent.
PollWriteOld ==
    /\ phase = "poll" /\ call.op = "write"
    /\ mode = "data" /\ ~error
    /\ Return(TRUE, Garbage)
    /\ mode' = "busy" /\ command' = "store"
    /\ UNCHANGED <<disk, address, sector, error, present, latest, lost, risk>>

\* Mutant: the sector is not sent.
PollWriteUnsent ==
    /\ phase = "poll" /\ call.op = "write"
    /\ mode = "data" /\ ~error
    /\ Return(TRUE, Garbage)
    /\ mode' = "ready"
    /\ UNCHANGED <<disk, command, address, sector, error, present, latest, lost, risk>>

\* ata_write_sectors returns as soon as the last sector is sent.
PollWrite ==
    /\ phase = "poll" /\ call.op = "write"
    /\ mode = "data" /\ ~error
    /\ Return(TRUE, Garbage)
    /\ IF command = "write"
       THEN mode' = "busy" /\ command' = "store" /\ sector' = call.data
       ELSE UNCHANGED <<mode, command, sector>>
    /\ UNCHANGED <<disk, address, error, present, latest, lost, risk>>

\* A flush that sees DRQ takes it for its answer.
PollFlush ==
    /\ phase = "poll" /\ call.op = "flush"
    /\ mode = "data" /\ ~error
    /\ Return(TRUE, Garbage)
    /\ UNCHANGED <<drive, present, latest, lost, risk>>

\* ERR or DF.
PollError ==
    /\ phase = "poll"
    /\ mode # "busy" /\ error
    /\ Return(FALSE, Garbage)
    /\ UNCHANGED <<drive, present, latest, lost, risk>>

\* The drive is not busy and wants nothing for 10000 turns, or is busy for all
\* of the 100000.
PollTimeout ==
    /\ phase = "poll"
    /\ mode = "busy" \/ (mode = "ready" /\ ~error)
    /\ Return(FALSE, Garbage)
    /\ lost' = (lost \/ call.op # "flush" \/ mode = "busy")
    /\ risk' = IF mode = "busy" THEN risk \cup {"late"} ELSE risk
    /\ UNCHANGED <<drive, present, latest>>

Driver ==
    \/ Identify \/ IdentifyRead \/ IdentifyFail \/ Refuse
    \/ \E c \in Call \ {NoCall} : (c.op = "write" => c.data.lba = c.lba) /\ Start(c)
    \/ Issue
    \/ PollRead \/ PollWrite \/ PollFlush \/ PollError \/ PollTimeout

AtaNext == Drive \/ Driver

AtaSpec == AtaInit /\ [][AtaNext]_ataVars

-----------------------------------------------------------------------------
\* No sector ever holds what was written to another one, whatever fails, until
\* a call starts while the drive still stores a sector (ata.c writes its address
\* registers then all the same) or a poll gives up on a busy drive.
NothingMisplaced == risk = {} => \A l \in Lba : disk[l].lba = l

\* Until then a read that succeeds gives what was last written to the sector
\* asked for, or after an error at least something that was written there.
ReadIsRight ==
    [][phase = "poll" /\ call.op = "read" /\ phase' = "idle" /\ reply'.ok /\ risk = {} =>
           /\ reply'.data.lba = call.lba
           /\ ~lost' => reply'.data = latest[call.lba]]_ataVars

\* Until then, once the driver is at rest and no error has come, the disk holds
\* what was written.
WritesArrive ==
    phase = "idle" /\ mode = "ready" /\ ~lost /\ risk = {} => disk = latest
=============================================================================
