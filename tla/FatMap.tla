------------------------------- MODULE FatMap -------------------------------
(***************************************************************************)
(* What the FAT layer (src/drivers/fat32/fat.c) promises the rest of the   *)
(* FAT32 driver: a map from cluster numbers to FAT entries, answering one  *)
(* request at a time.                                                      *)
(*                                                                         *)
(* `fat' is what the callers see, `durable' is what a reboot would find.   *)
(* The two may differ, but only inside one FAT sector at a time: the layer *)
(* keeps a single sector of unwritten changes.  FatCache.tla is the sector *)
(* cache that implements this.                                             *)
(***************************************************************************)
EXTENDS Integers

CONSTANTS
    EntriesPerSector,   \* FAT entries in one disk sector (512 / 4 in the code)
    NumSectors,         \* fs->sectors_per_fat
    Entry,              \* the values an entry can have (28 bits)
    Bad                 \* FAT32_BAD_CLUSTER, also what a failed read returns

Cluster == 0 .. (NumSectors * EntriesPerSector - 1)
SectorOf(c) == c \div EntriesPerSector

\* The arguments a call does not have are fixed.
Request ==
    [op : {"get"}, cluster : Cluster, value : {Bad}]
      \cup [op : {"set"}, cluster : Cluster, value : Entry]
      \cup [op : {"sync", "invalidate"}, cluster : {0}, value : {Bad}]

VARIABLES fat, durable, request, reply

vars == <<fat, durable, request, reply>>

Init ==
    /\ fat \in [Cluster -> Entry]
    /\ durable = fat
    /\ request = [op |-> "sync", cluster |-> 0, value |-> Bad]
    /\ reply = "ok"

Ask(r) ==
    /\ reply # "none"
    /\ request' = r
    /\ reply' = "none"
    /\ UNCHANGED <<fat, durable>>

Pending(op) == reply = "none" /\ request.op = op

AnswerGet ==
    /\ Pending("get")
    /\ reply' \in {fat[request.cluster], Bad}
    /\ UNCHANGED <<fat, durable, request>>

\* A change is accepted only while nothing outside its sector is unwritten.
AnswerSet ==
    /\ Pending("set")
    /\ \A c \in Cluster : fat[c] # durable[c]
                            => SectorOf(c) = SectorOf(request.cluster)
    /\ fat' = [fat EXCEPT ![request.cluster] = request.value]
    /\ reply' = "ok"
    /\ UNCHANGED <<durable, request>>

AnswerSync ==
    /\ Pending("sync")
    /\ fat = durable
    /\ reply' = "ok"
    /\ UNCHANGED <<fat, durable, request>>

\* Invalidating forgets what could not be written.
AnswerInvalidate ==
    /\ Pending("invalidate")
    /\ fat' = durable
    /\ reply' = "ok"
    /\ UNCHANGED <<durable, request>>

Refuse ==
    /\ Pending("set") \/ Pending("sync")
    /\ reply' = "failed"
    /\ UNCHANGED <<fat, durable, request>>

WriteBack(s) ==
    /\ reply = "none"
    /\ durable' = [c \in Cluster |-> IF SectorOf(c) = s THEN fat[c]
                                                        ELSE durable[c]]
    /\ UNCHANGED <<fat, request, reply>>

PowerLoss ==
    /\ fat' = durable
    /\ reply' = "failed"
    /\ UNCHANGED <<durable, request>>

Next ==
    \/ \E r \in Request : Ask(r)
    \/ AnswerGet
    \/ AnswerSet
    \/ AnswerSync
    \/ AnswerInvalidate
    \/ Refuse
    \/ \E s \in 0 .. (NumSectors - 1) : WriteBack(s)
    \/ PowerLoss

Spec == Init /\ [][Next]_vars
=============================================================================
