------------------------------ MODULE FatCache ------------------------------
(***************************************************************************)
(* The FAT sector cache of src/drivers/fat32/fat.c: one 512-byte buffer    *)
(* over a table mirrored NumFats times on the disk.  A request (get, set,  *)
(* sync, invalidate) runs to its end before the next one starts: the       *)
(* driver is only entered from system calls, one program at a time.  What  *)
(* can come between two of its block transfers is a loss of power, and any *)
(* transfer may fail.                                                      *)
(*                                                                         *)
(* A request is split at each block transfer.  A transfer moves one whole  *)
(* sector or, when ata.c gives up before the data phase, nothing.          *)
(***************************************************************************)
EXTENDS Integers

CONSTANTS
    EntriesPerSector,   \* FAT entries in one disk sector (512 / 4 in the code)
    NumSectors,         \* fs->sectors_per_fat
    NumFats,            \* fs->num_fats
    Entry,              \* the values an entry can have (28 bits)
    Bad,                \* FAT32_BAD_CLUSTER
    MaxLosses           \* bound: how often the power may be lost

ASSUME LayoutAssumption ==
    /\ EntriesPerSector \in Nat \ {0}
    /\ NumSectors \in Nat \ {0}
    /\ NumFats \in Nat \ {0}
    /\ MaxLosses \in Nat
    /\ Bad \in Entry
    /\ {"none", "ok", "failed"} \cap Entry = {}

Cluster == 0 .. (NumSectors * EntriesPerSector - 1)
Sector == 0 .. (NumSectors - 1)
Slot == 0 .. (EntriesPerSector - 1)
Copy == 0 .. (NumFats - 1)

SectorOf(c) == c \div EntriesPerSector      \* fat_sector
SlotOf(c) == c % EntriesPerSector           \* entry_offset
ClusterAt(s, k) == s * EntriesPerSector + k

NoSector == -1                              \* 0xFFFFFFFF

\* The arguments a call does not have are fixed.
Request ==
    [op : {"get"}, cluster : Cluster, value : {Bad}]
      \cup [op : {"set"}, cluster : Cluster, value : Entry]
      \cup [op : {"sync", "invalidate"}, cluster : {0}, value : {Bad}]

VARIABLES
    disk,       \* the copies of the FAT on the disk
    buffer,     \* fat_sector_buffer
    cached,     \* cached_fat_sector
    dirty,      \* fat_cache_dirty
    request,    \* the call being served and its arguments
    reply,      \* its return value, "none" while it runs
    pc,         \* where the call stands
    copy,       \* i, the copy fat_flush_cache writes next
    scars,      \* history: sectors whose write-back was cut short for good
    losses      \* power losses so far

cache == <<buffer, cached, dirty>>
vars == <<disk, buffer, cached, dirty, request, reply, pc, copy, scars, losses>>

TypeOK ==
    /\ disk \in [Copy -> [Cluster -> Entry]]
    /\ buffer \in [Slot -> Entry]
    /\ cached \in Sector \cup {NoSector}
    /\ dirty \in BOOLEAN
    /\ request \in Request
    /\ reply \in Entry \cup {"none", "ok", "failed"}
    /\ pc \in {"idle", "flush", "read", "access"}
    /\ copy \in 0 .. NumFats
    /\ scars \subseteq Sector
    /\ losses \in Nat

-----------------------------------------------------------------------------
\* Mutant: fat_load_sector reads over a dirty buffer.
NeverFlush == FALSE

\* Whether fat_flush_cache has anything to write.
MustFlush == dirty /\ cached # NoSector

Return(v) ==
    /\ reply' = v
    /\ pc' = "idle"
    /\ copy' = 0

\* The cache as the C start-up code leaves it.
ColdCache ==
    /\ buffer' = [k \in Slot |-> Bad]
    /\ cached' = NoSector
    /\ dirty' = FALSE

Init ==
    /\ \E d \in [Cluster -> Entry] : disk = [i \in Copy |-> d]
    /\ buffer = [k \in Slot |-> Bad]
    /\ cached = NoSector
    /\ dirty = FALSE
    /\ request = [op |-> "sync", cluster |-> 0, value |-> Bad]
    /\ reply = "ok"
    /\ pc = "idle"
    /\ copy = 0
    /\ scars = {}
    /\ losses = 0

\* fat32_get_fat_entry and fat32_set_fat_entry start with fat_load_sector,
\* which has nothing to do on a hit.
CallEntry(r) ==
    /\ pc = "idle"
    /\ r.op \in {"get", "set"}
    /\ request' = r
    /\ reply' = "none"
    /\ pc' = IF cached = SectorOf(r.cluster) THEN "access" ELSE "flush"
    /\ copy' = 0
    /\ UNCHANGED <<disk, cache, scars, losses>>

\* fat32_sync_fat and fat32_invalidate_fat_cache start with fat_flush_cache.
CallFlush(r) ==
    /\ pc = "idle"
    /\ r.op \in {"sync", "invalidate"}
    /\ request' = r
    /\ reply' = "none"
    /\ pc' = "flush"
    /\ copy' = 0
    /\ UNCHANGED <<disk, cache, scars, losses>>

FlushCopy ==
    /\ pc = "flush"
    /\ MustFlush
    /\ copy < NumFats
    /\ disk' = [disk EXCEPT ![copy] =
                  [c \in Cluster |-> IF SectorOf(c) = cached
                                       THEN buffer[SlotOf(c)]
                                       ELSE disk[copy][c]]]
    /\ copy' = copy + 1
    /\ UNCHANGED <<cache, request, reply, pc, scars, losses>>

\* Mutant: the loop over the copies ends one early.
AllButLastWritten == MustFlush => copy = NumFats - 1

\* The loop of fat_flush_cache is over.
AllWritten == MustFlush => copy = NumFats

\* fat_flush_cache returns true; its caller goes on.
FlushEnd ==
    /\ pc = "flush"
    /\ AllWritten
    /\ dirty' = IF MustFlush THEN FALSE ELSE dirty
    /\ scars' = IF MustFlush THEN scars \ {cached} ELSE scars
    /\ \/ /\ request.op \in {"get", "set"}
          /\ pc' = "read"
          /\ copy' = 0
          /\ UNCHANGED <<cached, reply>>
       \/ /\ request.op = "sync"
          /\ Return("ok")
          /\ UNCHANGED cached
       \/ /\ request.op = "invalidate"
          /\ cached' = NoSector
          /\ Return("ok")
    /\ UNCHANGED <<disk, buffer, request, losses>>

\* A block_write fails: fat_flush_cache returns false with the sector still
\* dirty.  fat32_invalidate_fat_cache does not look and drops the sector.
FlushFail ==
    /\ pc = "flush"
    /\ MustFlush
    /\ copy < NumFats
    /\ \/ /\ request.op = "get"
          /\ Return(Bad)
          /\ UNCHANGED <<cached, scars>>
       \/ /\ request.op \in {"set", "sync"}
          /\ Return("failed")
          /\ UNCHANGED <<cached, scars>>
       \/ /\ request.op = "invalidate"
          /\ cached' = NoSector
          /\ scars' = scars \cup {cached}
          /\ Return("ok")
    /\ UNCHANGED <<disk, buffer, dirty, request, losses>>

\* Only the first copy is ever read.
ReadSector ==
    /\ pc = "read"
    /\ buffer' = [k \in Slot |-> disk[0][ClusterAt(SectorOf(request.cluster), k)]]
    /\ cached' = SectorOf(request.cluster)
    /\ pc' = "access"
    /\ UNCHANGED <<disk, dirty, request, reply, copy, scars, losses>>

ReadFail ==
    /\ pc = "read"
    /\ Return(IF request.op = "get" THEN Bad ELSE "failed")
    /\ UNCHANGED <<disk, cache, request, scars, losses>>

GetEntry ==
    /\ pc = "access"
    /\ request.op = "get"
    /\ Return(buffer[SlotOf(request.cluster)])
    /\ UNCHANGED <<disk, cache, request, scars, losses>>

\* Mutant: the buffer is not marked dirty.
SetEntryClean ==
    /\ pc = "access"
    /\ request.op = "set"
    /\ buffer' = [buffer EXCEPT ![SlotOf(request.cluster)] = request.value]
    /\ Return("ok")
    /\ UNCHANGED <<disk, cached, dirty, request, scars, losses>>

SetEntry ==
    /\ pc = "access"
    /\ request.op = "set"
    /\ buffer' = [buffer EXCEPT ![SlotOf(request.cluster)] = request.value]
    /\ dirty' = TRUE
    /\ Return("ok")
    /\ UNCHANGED <<disk, cached, request, scars, losses>>

\* The power goes, or the `reboot' command pulls the reset line.
PowerLoss ==
    /\ losses < MaxLosses
    /\ losses' = losses + 1
    /\ scars' = IF MustFlush THEN scars \cup {cached} ELSE scars
    /\ ColdCache
    /\ Return("failed")
    /\ UNCHANGED <<disk, request>>

Serve == FlushCopy \/ FlushEnd \/ FlushFail \/ ReadSector \/ ReadFail
           \/ GetEntry \/ SetEntry

Next ==
    \/ \E r \in Request : CallEntry(r) \/ CallFlush(r)
    \/ Serve
    \/ PowerLoss

Spec == Init /\ [][Next]_vars

-----------------------------------------------------------------------------
\* The table as the driver sees it: the first copy with the buffer over it.
Logical == [c \in Cluster |-> IF SectorOf(c) = cached THEN buffer[SlotOf(c)]
                                                      ELSE disk[0][c]]

\* A clean buffer is the sector it claims to be (fat_load_sector trusts
\* cached_fat_sector alone and never compares again).
CleanBufferMatchesDisk ==
    cached # NoSector /\ ~dirty =>
        \A c \in Cluster : SectorOf(c) = cached => buffer[SlotOf(c)] = disk[0][c]

\* The copies of the FAT agree everywhere but in the sector being held dirty
\* and in those whose write-back a power loss or a failed invalidate cut short.
MirrorsAgree ==
    \A i \in Copy, c \in Cluster :
        disk[i][c] # disk[0][c] =>
            \/ SectorOf(c) \in scars
            \/ MustFlush /\ SectorOf(c) = cached

\* The copies fat_flush_cache has already written hold the buffer.
FlushProgress ==
    pc = "flush" /\ MustFlush =>
        \A i \in 0 .. (copy - 1), c \in Cluster :
            SectorOf(c) = cached => disk[i][c] = buffer[SlotOf(c)]

\* What holds at each point of a call.
CallState ==
    /\ pc = "idle" <=> reply # "none"
    /\ pc = "read" => ~MustFlush
    /\ pc = "access" => cached = SectorOf(request.cluster)
    /\ pc \in {"read", "access"} => request.op \in {"get", "set"}
    /\ pc # "flush" => copy = 0

\* The inductive invariant behind the theorems of FatCache_proofs.
IInv ==
    /\ TypeOK
    /\ CleanBufferMatchesDisk
    /\ MirrorsAgree
    /\ FlushProgress
    /\ CallState

\* No other sector is stale on disk when a request succeeds: the cache
\* implements the abstract map.
Map == INSTANCE FatMap WITH fat <- Logical, durable <- disk[0]
ImplementsMap == Map!Spec
=============================================================================
