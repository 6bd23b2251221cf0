-------------------------------- MODULE Volume --------------------------------
(***************************************************************************)
(* One directory and the FAT behind it under the calls of                  *)
(* src/drivers/fat32/file.c: what is on the disk between any two steps,    *)
(* when the power may go, and what a reboot finds.                         *)
(*                                                                         *)
(* Directory entries go to the disk at once (module Directory); changes of *)
(* the FAT wait in the one cached sector until another sector is wanted or *)
(* a call flushes it (module FatCache).  Here transfers succeed; sizes and *)
(* positions are in clusters begun, with a note whether the last is full.  *)
(* A power loss is no action: what it leaves is `entry' and `durable', and *)
(* the properties speak of these in every state.                           *)
(*                                                                         *)
(* Callers are the shell's commands and the programs: they write as often  *)
(* as they like, and neither delete, rename nor open again a file that is  *)
(* open.  A write that begins where a cluster ended goes to that cluster   *)
(* again: from then on the file's size may be more than its clusters hold. *)
(***************************************************************************)
EXTENDS Integers, FiniteSets

CONSTANTS
    NumClusters,        \* data clusters, numbered from 1 here
    PerSector,          \* FAT entries in a sector of the FAT
    Name,
    MaxEntries,         \* slots of the directory, which never grows
    MaxSize             \* bound: clusters in a file

ASSUME VolumeAssumption ==
    /\ NumClusters \in Nat \ {0}
    /\ PerSector \in Nat \ {0}
    /\ MaxEntries \in Nat
    /\ MaxSize \in Nat

Cluster == 1 .. NumClusters
SectorOf(c) == (c - 1) \div PerSector
Sector == {SectorOf(c) : c \in Cluster}
Free == 0
Eoc == NumClusters + 1
Link == 0 .. Eoc

NoFile == [kind |-> "none", first |-> 0, size |-> 0]
Closed == [first |-> 0, at |-> 0, size |-> 0, pos |-> -1, full |-> TRUE, dirty |-> FALSE]
Idle == [op |-> "idle"]

VARIABLES
    entry,      \* name -> directory entry on the disk
    handle,     \* name -> the handle it is open on
    fat,        \* the FAT as fat32_get_fat_entry sees it
    durable,    \* the FAT on the disk
    cached,     \* sector in the cache
    call,       \* the call being made: the step it is at and its locals
    orphans,    \* history: clusters a failed fat32_create_dir did not give back
    behind      \* history: names whose file was written to from a cluster's end

vars == <<entry, handle, fat, durable, cached, call, orphans, behind>>

Entry == [kind : {"none", "file", "dir"}, first : 0 .. NumClusters, size : 0 .. MaxSize]
Call ==
    {Idle}
      \cup [op : {"piece", "next", "extend"}, name : Name, at : Cluster,
            left : 1 .. MaxSize, got : 0 .. NumClusters]
      \cup [op : {"free", "flush"}, name : Name, at : Cluster, then : {"idle", "unlink"}]
      \cup [op : {"dot", "dirent"}, name : Name, at : Cluster]
      \cup [op : {"unlink"}, name : Name, to : Name]
      \cup [op : {"sync"}, name : Name]

TypeOK ==
    /\ entry \in [Name -> Entry]
    /\ handle \in [Name -> [first : 0 .. NumClusters, at : 0 .. NumClusters, size : 0 .. MaxSize,
                            pos : -1 .. MaxSize, full : BOOLEAN, dirty : BOOLEAN]]
    /\ fat \in [Cluster -> Link]
    /\ durable \in [Cluster -> Link]
    /\ cached \in Sector
    /\ call \in Call
    /\ orphans \subseteq Cluster
    /\ behind \subseteq Name

\* mkfs.fat, and fat32_mount after it.
Init ==
    /\ entry = [n \in Name |-> NoFile]
    /\ handle = [n \in Name |-> Closed]
    /\ fat = [c \in Cluster |-> Free]
    /\ durable = fat
    /\ cached \in Sector
    /\ call = Idle
    /\ orphans = {}
    /\ behind = {}

-----------------------------------------------------------------------------
\* Only the cached sector can differ from the disk.
Flushed == [c \in Cluster |-> IF SectorOf(c) = cached THEN fat[c] ELSE durable[c]]

\* Mutant: a sector is loaded over a changed one.
LoadOver(S, s) == durable' = durable /\ cached' = s

\* Sectors are loaded one after another, s the last.
Load(S, s) ==
    /\ durable' = IF S \cup {s} = {cached} THEN durable ELSE Flushed
    /\ cached' = s

GetEntry(c) == Load({}, SectorOf(c)) /\ UNCHANGED fat
SetEntry(c, link) == Load({}, SectorOf(c)) /\ fat' = [fat EXCEPT ![c] = link]
Flush == durable' = Flushed /\ UNCHANGED <<fat, cached>>

\* Mutant: fat32_allocate_cluster takes a cluster and does not mark it.
AllocateUnmarked(c) == fat[c] = Free /\ (\A d \in 1 .. c - 1 : fat[d] # Free) /\ GetEntry(c)

\* fat32_allocate_cluster takes the first free cluster.
IsFirstFree(c) == fat[c] = Free /\ \A d \in 1 .. c - 1 : fat[d] # Free
DiskFull == \A c \in Cluster : fat[c] # Free
Allocate(c) ==
    /\ IsFirstFree(c)
    /\ Load({SectorOf(d) : d \in 1 .. c}, SectorOf(c))
    /\ fat' = [fat EXCEPT ![c] = Eoc]
AllocateFail ==
    /\ DiskFull
    /\ Load(Sector, SectorOf(NumClusters))
    /\ UNCHANGED fat

Exists(n) == entry[n].kind # "none"
IsOpen(n) == handle[n].pos # -1
Room == Cardinality({n \in Name : Exists(n)}) < MaxEntries

-----------------------------------------------------------------------------
\* fat32_create_file
Create(n) ==
    /\ call = Idle
    /\ ~Exists(n) /\ Room
    /\ entry' = [entry EXCEPT ![n] = [kind |-> "file", first |-> 0, size |-> 0]]
    /\ UNCHANGED <<handle, fat, durable, cached, call, orphans, behind>>

\* fat32_open
Open(n) ==
    /\ call = Idle
    /\ entry[n].kind = "file" /\ ~IsOpen(n)
    /\ handle' = [handle EXCEPT ![n] =
                     [first |-> entry[n].first, at |-> entry[n].first, size |-> entry[n].size,
                      pos |-> 0, full |-> TRUE, dirty |-> FALSE]]
    /\ UNCHANGED <<entry, fat, durable, cached, call, orphans, behind>>

\* fat32_write: a file without clusters gets its first one; others go on where
\* the handle is, which at the end of a cluster is that cluster still.
Writing(n, k, c) == call' = [op |-> "piece", name |-> n, at |-> c, left |-> k, got |-> 0]
Write(n, k) ==
    /\ call = Idle
    /\ IsOpen(n)
    /\ handle[n].pos + k =< MaxSize
    /\ \/ /\ handle[n].first # 0
          /\ Writing(n, k, handle[n].at)
          /\ UNCHANGED <<handle, fat, durable, cached>>
       \/ /\ handle[n].first = 0
          /\ \E c \in Cluster :
               /\ Allocate(c)
               /\ handle' = [handle EXCEPT ![n].first = c, ![n].at = c, ![n].dirty = TRUE]
               /\ Writing(n, k, c)
       \/ /\ handle[n].first = 0
          /\ AllocateFail
          /\ UNCHANGED <<handle, call>>
    /\ behind' = IF handle[n].full /\ handle[n].pos # 0 THEN behind \cup {n} ELSE behind
    /\ UNCHANGED <<entry, orphans>>

\* What of a cluster is left, or all of it, and at the end of the call perhaps
\* less; the handle's size follows the position.
WritePiece ==
    /\ call.op = "piece"
    /\ \E full \in IF call.left = 1 THEN BOOLEAN ELSE {TRUE} :
         LET h == handle[call.name]
             pos == IF h.full THEN h.pos + 1 ELSE h.pos
             grown == pos > h.size
         IN  handle' = [handle EXCEPT ![call.name] =
                          [h EXCEPT !.pos = pos, !.full = full, !.at = call.at,
                                    !.size = IF grown THEN pos ELSE h.size,
                                    !.dirty = h.dirty \/ grown]]
    /\ call' = IF call.left = 1 THEN Idle
               ELSE [call EXCEPT !.op = "next", !.left = call.left - 1]
    /\ UNCHANGED <<entry, fat, durable, cached, orphans, behind>>

\* The next cluster of the file, if there is one.
WriteNext ==
    /\ call.op = "next" /\ call.got = 0
    /\ GetEntry(call.at)
    /\ call' = IF fat[call.at] = Eoc THEN [call EXCEPT !.op = "extend"]
               ELSE [call EXCEPT !.op = "piece", !.at = fat[call.at]]
    /\ UNCHANGED <<entry, handle, orphans, behind>>

\* If not, one is allocated; the write comes back short if there is none.
WriteAllocate ==
    /\ call.op = "extend" /\ call.got = 0
    /\ \/ /\ \E c \in Cluster : Allocate(c) /\ call' = [call EXCEPT !.got = c]
       \/ AllocateFail /\ call' = Idle
    /\ UNCHANGED <<entry, handle, orphans, behind>>

\* fat32_extend_chain
WriteExtend ==
    /\ call.op = "extend" /\ call.got # 0
    /\ SetEntry(call.at, call.got)
    /\ call' = [call EXCEPT !.op = "piece", !.at = call.got, !.got = 0]
    /\ UNCHANGED <<entry, handle, orphans, behind>>

\* fat32_close: the entry first, then the FAT.
Close(n) ==
    /\ call = Idle
    /\ IsOpen(n)
    /\ entry' = IF handle[n].dirty
                THEN [entry EXCEPT ![n].first = handle[n].first, ![n].size = handle[n].size]
                ELSE entry
    /\ call' = [op |-> "sync", name |-> n]
    /\ UNCHANGED <<handle, fat, durable, cached, orphans, behind>>

\* Mutant: fat32_close leaves the FAT in the cache.
CloseUnsynced ==
    /\ call.op = "sync"
    /\ handle' = [handle EXCEPT ![call.name] = Closed]
    /\ call' = Idle
    /\ UNCHANGED <<entry, fat, durable, cached, orphans, behind>>

CloseSync ==
    /\ call.op = "sync"
    /\ Flush
    /\ handle' = [handle EXCEPT ![call.name] = Closed]
    /\ call' = Idle
    /\ UNCHANGED <<entry, orphans, behind>>

\* fat32_delete: the chain is freed and flushed, then the entry goes.
Delete(n) ==
    /\ call = Idle
    /\ Exists(n) /\ ~IsOpen(n)
    /\ call' = IF entry[n].first = 0 THEN [op |-> "unlink", name |-> n, to |-> n]
               ELSE [op |-> "free", name |-> n, at |-> entry[n].first, then |-> "unlink"]
    /\ UNCHANGED <<entry, handle, fat, durable, cached, orphans, behind>>

\* A turn of the loop of fat32_free_chain.
FreeOne ==
    /\ call.op = "free"
    /\ SetEntry(call.at, Free)
    /\ call' = IF fat[call.at] \in Cluster THEN [call EXCEPT !.at = fat[call.at]]
               ELSE [call EXCEPT !.op = "flush"]
    /\ UNCHANGED <<entry, handle, orphans, behind>>

FreeEnd ==
    /\ call.op = "flush"
    /\ Flush
    /\ call' = IF call.then = "idle" THEN Idle
               ELSE [op |-> "unlink", name |-> call.name, to |-> call.name]
    /\ UNCHANGED <<entry, handle, orphans, behind>>

\* fat32_delete_entry
Unlink ==
    /\ call.op = "unlink"
    /\ entry' = [entry EXCEPT ![call.name] = NoFile]
    /\ call' = Idle
    /\ behind' = behind \ {call.name}
    /\ UNCHANGED <<handle, fat, durable, cached, orphans>>

\* fat32_rename: the new entry, then fat32_delete_entry of the old.
Rename(n, m) ==
    /\ call = Idle
    /\ Exists(n) /\ ~IsOpen(n) /\ ~Exists(m) /\ Room
    /\ entry' = [entry EXCEPT ![m] = entry[n]]
    /\ call' = [op |-> "unlink", name |-> n, to |-> m]
    /\ behind' = IF n \in behind THEN behind \cup {m} ELSE behind
    /\ UNCHANGED <<handle, fat, durable, cached, orphans>>

\* fat32_create_dir: a cluster is allocated,
Mkdir(n) ==
    /\ call = Idle
    /\ ~Exists(n)
    /\ \/ \E c \in Cluster :
            Allocate(c) /\ call' = [op |-> "dot", name |-> n, at |-> c]
       \/ AllocateFail /\ UNCHANGED call
    /\ UNCHANGED <<entry, handle, orphans, behind>>

\* Mutant: the cluster is not given back.
MkdirWriteLeaks ==
    /\ call.op = "dot"
    /\ call' \in {[call EXCEPT !.op = "dirent"], Idle}
    /\ UNCHANGED <<entry, handle, fat, durable, cached, orphans, behind>>

\* written, and given back if it cannot be;
MkdirWrite ==
    /\ call.op = "dot"
    /\ call' \in {[call EXCEPT !.op = "dirent"],
                  [op |-> "free", name |-> call.name, at |-> call.at, then |-> "idle"]}
    /\ UNCHANGED <<entry, handle, fat, durable, cached, orphans, behind>>

\* then the entry is made, if the directory has room.
MkdirEntry ==
    /\ call.op = "dirent"
    /\ \/ /\ Room
          /\ entry' = [entry EXCEPT ![call.name] =
                         [kind |-> "dir", first |-> call.at, size |-> 0]]
          /\ UNCHANGED orphans
       \/ /\ ~Room
          /\ orphans' = orphans \cup {call.at}
          /\ UNCHANGED entry
    /\ call' = Idle
    /\ UNCHANGED <<handle, fat, durable, cached, behind>>

Turn ==
    \/ WritePiece \/ WriteNext \/ WriteAllocate \/ WriteExtend
    \/ CloseSync
    \/ FreeOne \/ FreeEnd \/ Unlink
    \/ MkdirWrite \/ MkdirEntry

Next ==
    \/ \E n \in Name : Create(n) \/ Open(n) \/ Close(n) \/ Delete(n) \/ Mkdir(n)
    \/ \E n \in Name, k \in 1 .. MaxSize : Write(n, k)
    \/ \E n, m \in Name : Rename(n, m)
    \/ Turn

Spec == Init /\ [][Next]_vars

-----------------------------------------------------------------------------
\* The first k clusters a FAT leads through from c.
Blocks(map, c, k) ==
    LET at[i \in 1 .. k] ==
            IF i = 1 THEN c
            ELSE IF at[i - 1] \in Cluster THEN map[at[i - 1]] ELSE at[i - 1]
    IN  {at[i] : i \in 1 .. k} \cap Cluster

\* All of them: what is in every set that holds c and, with a cluster, its
\* successor.
LinkClosed(map, S) == \A d \in S : map[d] \in Cluster => map[d] \in S
Chain(map, c) ==
    {d \in Cluster : \A S \in SUBSET Cluster :
                        (c \in Cluster => c \in S) /\ LinkClosed(map, S) => d \in S}

\* The clusters an entry or a handle needs.
Need(e) == IF e.kind = "dir" THEN 1 ELSE e.size
Whole(map, c, k) == /\ Cardinality(Blocks(map, c, k)) = k
                    /\ \A b \in Blocks(map, c, k) : map[b] # Free

\* The names the running call is changing.
Busy == IF call = Idle THEN {}
        ELSE {call.name} \cup (IF call.op = "unlink" THEN {call.to} ELSE {})

\* At every step of every call every name has a chain of clusters that are in
\* use, shared with no other name, and a write goes to a cluster of its own file.
\* The chain is as long as the size says, but for files behind.
Head(n) == IF IsOpen(n) THEN handle[n].first ELSE entry[n].first
Size(n) == IF IsOpen(n) THEN handle[n].size ELSE Need(entry[n])
Used(map, S) == \A d \in S : map[d] # Free
ChainsAreOwn ==
    LET chain == [n \in Name |-> Chain(fat, Head(n))] IN
    /\ \A n \in Name \ Busy :
         Used(fat, chain[n]) /\ (n \notin behind => Whole(fat, Head(n), Size(n)))
    /\ \A n, m \in Name : n = m \/ {n, m} \subseteq Busy \/ chain[n] \cap chain[m] = {}
    /\ call.op = "piece" => call.at \in chain[call.name]

\* Whenever the power goes, the chain of a file that no call is changing is on the
\* disk as fat32_close left it, and whole but for files behind, though the FAT on
\* the disk is behind the cache and other files may be half made or half deleted.
\* And what the disk says is shared by no two entries, save those of a rename.
FilesSurvive ==
    LET chain == [n \in Name |-> Chain(durable, entry[n].first)] IN
    /\ \A n \in Name \ Busy :
         entry[n].kind = "file" =>
           /\ Used(durable, chain[n])
           /\ n \notin behind => Whole(durable, entry[n].first, entry[n].size)
    /\ \A n, m \in Name : n = m \/ {n, m} \subseteq Busy \/ chain[n] \cap chain[m] = {}

\* `cp' of a file of two clusters (VolumeSizes.cfg): with nothing open, a file has
\* the clusters its size speaks of.
SizesAreHeld ==
    call = Idle =>
      \A n \in Name : ~IsOpen(n) /\ entry[n].kind = "file" =>
                        Whole(fat, entry[n].first, entry[n].size)

\* The FAT on the disk never links to a cluster it has as free, because one
\* sector is cached: a new end mark is on the disk before the link to it can
\* be, and a link is gone before what it led to is freed.
DiskLinksLead == \A c \in Cluster : durable[c] \in Cluster => durable[durable[c]] # Free

\* When nothing is open, every cluster in use belongs to an entry, save those of
\* directories for which there was no room.
NoLostCluster ==
    call = Idle /\ (\A n \in Name : ~IsOpen(n)) =>
        {c \in Cluster : fat[c] # Free}
            = orphans \cup UNION {Chain(fat, entry[n].first) : n \in Name}

\* fat32_create_dir leaves the mark of its cluster in the cache; the next file
\* that is closed, or deleted with a chain, brings it to the disk.
MkdirReachesDisk ==
    [][(call.op = "sync" \/ (call.op = "flush" /\ call.then = "unlink")) /\ call' # call =>
         \A n \in Name : entry[n].kind = "dir" /\ n # call.name =>
                            durable'[entry[n].first] # Free]_vars

\* `mkdir', then `reboot': a directory that has been made is there after a
\* restart, its cluster in use on the disk.
MkdirIsDurable ==
    call = Idle =>
        \A n \in Name : entry[n].kind = "dir" => durable[entry[n].first] # Free
=============================================================================
