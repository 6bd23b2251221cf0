----------------------------- MODULE FileCursor -----------------------------
(***************************************************************************)
(* One open file of src/drivers/fat32/file.c: the handle's position, the   *)
(* cluster it stands on, its size, and the chain and data behind them.     *)
(*                                                                         *)
(* fat32_read and fat32_write go round their loop once per cluster; one    *)
(* turn is one step.  The FAT is the map of FatMap.tla, allocation is the  *)
(* one of FatChain.tla, and any transfer may fail.                         *)
(*                                                                         *)
(* Neither loop moves to the next cluster when nothing is left to move, so *)
(* a call that ends where a cluster does leaves the handle on that cluster *)
(* and the next call goes on from its start.  sysconf_load, cat, the write *)
(* program and fat32_copy make such calls.                                 *)
(***************************************************************************)
EXTENDS Integers, Sequences, FiniteSetsExt

CONSTANTS
    NumClusters,        \* clusters on the disk
    SectorSize,         \* bytes_per_sector
    SectorsPerCluster,  \* sectors_per_cluster
    Tag,                \* tells the bytes of one write from those of another
    MaxMove,            \* bound: bytes in one call
    MaxSize,            \* bound: bytes in the file
    Lost                \* no byte: past the end of a broken chain

Free == 0
BadCluster == 268435447
Eoc == 268435455

\* The numbers from BadCluster on are never clusters of a disk.
ASSUME GeometryAssumption ==
    /\ NumClusters \in Nat /\ NumClusters + 1 < BadCluster
    /\ SectorSize \in Nat \ {0}
    /\ SectorsPerCluster \in Nat \ {0}
    /\ MaxMove \in Nat
    /\ MaxSize \in Nat

Cluster == 2 .. (NumClusters + 1)
ClusterSize == SectorSize * SectorsPerCluster       \* bytes_per_cluster
Offset == 0 .. (ClusterSize - 1)

\* Where a transfer of a cluster can go.  The numbers that are no clusters are
\* not refused: ata.c keeps 28 bits of the block address, so fat32_cluster_to_lba
\* leads 11 and 3 clusters before the first one, into the last copy of the FAT.
Place == Cluster \cup {BadCluster, Eoc}

\* The bytes first on the disk all differ, and so do those of one write:
\* a byte that ends up in the wrong place shows.
Byte == (Place \X Offset) \cup (Tag \X (1 .. MaxMove))
Payload(tag, n) == [i \in 1 .. n |-> <<tag, i>>]

VARIABLES
    fat,        \* the FAT as the driver sees it
    data,       \* the bytes on the disk, of the clusters and of those two places
    entry,      \* first cluster and size in the directory entry
    handle,     \* the slot of open_files
    call,       \* the read or write in progress, or the last one
    trouble     \* history: what went wrong, see Trouble

vars == <<fat, data, entry, handle, call, trouble>>

\* A transfer failed; the disk was full; since the last seek or open a call began
\* with the handle on the wrong cluster; a write did.
Trouble == {"failed", "full", "behind", "damaged"}

TypeOK ==
    /\ fat \in [Cluster -> Cluster \cup {Free, Eoc}]
    /\ data \in [Place -> [Offset -> Byte]]
    /\ entry \in [first : Cluster \cup {0}, size : Nat]
    /\ handle \in [inUse : BOOLEAN,
                   first : Cluster \cup {0},
                   current : Place \cup {0},
                   position : Nat,
                   size : Nat,
                   dirty : BOOLEAN]
    /\ call \in [op : {"none", "read", "write"}, size : Nat, done : Nat,
                 bytes : Seq(Byte), out : Seq(Byte)]
    /\ trouble \subseteq Trouble

Closed == [inUse |-> FALSE, first |-> 0, current |-> 0, position |-> 0,
           size |-> 0, dirty |-> FALSE]
NoCall == [op |-> "none", size |-> 0, done |-> 0, bytes |-> <<>>, out |-> <<>>]
Returned(bytes) == [NoCall EXCEPT !.out = bytes]

\* How many clusters n bytes take.
ClustersFor(n) == (n + ClusterSize - 1) \div ClusterSize

\* Any file another system left on the disk, its clusters in any order, with
\* any of the other clusters in use.
Init ==
    /\ \E size \in 0 .. MaxSize,
          chain \in UNION {[1 .. n -> Cluster] : n \in 0 .. ClustersFor(MaxSize)},
          others \in SUBSET Cluster :
         /\ Len(chain) = ClustersFor(size)
         /\ \A i, j \in DOMAIN chain : chain[i] = chain[j] => i = j
         /\ \A i \in DOMAIN chain : chain[i] \notin others
         /\ entry = [first |-> IF chain = <<>> THEN 0 ELSE chain[1], size |-> size]
         /\ fat = [c \in Cluster |->
                     IF c \in others THEN Eoc
                     ELSE IF \E i \in DOMAIN chain : chain[i] = c
                       THEN LET i == CHOOSE i \in DOMAIN chain : chain[i] = c
                            IN  IF i = Len(chain) THEN Eoc ELSE chain[i + 1]
                       ELSE Free]
    /\ data = [c \in Place |-> [o \in Offset |-> <<c, o>>]]
    /\ handle = Closed
    /\ call = NoCall
    /\ trouble = {}

\* fat32_get_fat_entry fails, or is asked about no cluster, as FatMap.tla has it.
Answers(c) == IF c \in Cluster THEN {fat[c], BadCluster} ELSE {BadCluster}

\* What fat32_allocate_cluster may return: the first free cluster; after a
\* failed transfer a later one, or 0, as on a full disk.
Allocatable == {c \in Cluster : fat[c] = Free}
Normal(new) == \A c \in Allocatable : new =< c

Note(bad, what) == trouble' = trouble \cup IF bad THEN {what} ELSE {}
NoteNoCluster == IF Allocatable = {} THEN Note(TRUE, "full") ELSE Note(TRUE, "failed")

At(c, o) == data[c][o]

\* The k-th cluster of the chain that starts at c, counting from 0.
ChainOn(map, c, k) ==
    LET nth[n \in 0 .. k] ==
          IF n = 0 THEN c
          ELSE IF nth[n - 1] \in Cluster THEN map[nth[n - 1]] ELSE Eoc
    IN  nth[k]
ChainAt(c, k) == ChainOn(fat, c, k)

\* Not where a cluster ends, or on the next one, where a seek leads.
Settled ==
    \/ handle.position = 0
    \/ handle.position % ClusterSize # 0
    \/ /\ handle.current \in Cluster
       /\ handle.current = ChainAt(handle.first, handle.position \div ClusterSize)

-----------------------------------------------------------------------------
Open ==
    /\ ~handle.inUse
    /\ handle' = [inUse |-> TRUE, first |-> entry.first, current |-> entry.first,
                  position |-> 0, size |-> entry.size, dirty |-> FALSE]
    /\ call' = NoCall
    /\ UNCHANGED <<fat, data, entry, trouble>>

Ready == handle.inUse /\ call.op = "none"

\* fat32_read up to its loop.
CallRead(n) ==
    /\ Ready
    /\ call' = IF handle.position >= handle.size
                 THEN NoCall
                 ELSE [op |-> "read", size |-> Min({n, handle.size - handle.position}),
                       done |-> 0, bytes |-> <<>>, out |-> <<>>]
    /\ Note(handle.position < handle.size /\ ~Settled, "behind")
    /\ UNCHANGED <<fat, data, entry, handle>>

\* How many bytes the next turn of either loop moves.
Piece == Min({call.size - call.done, ClusterSize - (handle.position % ClusterSize)})

\* One turn of the loop of fat32_read; the last one returns.
ReadOne ==
    /\ call.op = "read"
    /\ handle.current \in Place
    /\ \E next \in Answers(handle.current) :
         LET offset == handle.position % ClusterSize
             got == [i \in 1 .. Piece |-> At(handle.current, offset + i - 1)]
             crosses == /\ (handle.position + Piece) % ClusterSize = 0
                        /\ call.done + Piece < call.size
             ends == call.done + Piece = call.size \/ (crosses /\ next = Eoc)
         IN  /\ handle' = [handle EXCEPT
                             !.position = @ + Piece,
                             !.current = IF crosses /\ next # Eoc THEN next ELSE @]
             /\ call' = IF ends THEN Returned(call.out \o got)
                        ELSE [call EXCEPT !.done = @ + Piece, !.out = @ \o got]
             /\ Note(crosses /\ next = BadCluster, "failed")
    /\ UNCHANGED <<fat, data, entry>>

ReadFail ==
    /\ call.op = "read"
    /\ call' = Returned(call.out)
    /\ Note(TRUE, "failed")
    /\ UNCHANGED <<fat, data, entry, handle>>

\* fat32_write up to its loop: an empty file gets its first cluster.
CallWrite(bytes) ==
    /\ Ready
    /\ bytes # <<>>
    /\ call' = [op |-> "write", size |-> Len(bytes), done |-> 0, bytes |-> bytes, out |-> <<>>]
    /\ IF handle.first # 0
         THEN /\ trouble' = IF Settled /\ "behind" \notin trouble THEN trouble
                            ELSE trouble \cup {"behind", "damaged"}
              /\ UNCHANGED <<fat, handle>>
         ELSE \E new \in Allocatable :
                /\ fat' = [fat EXCEPT ![new] = Eoc]
                /\ handle' = [handle EXCEPT !.first = new, !.current = new,
                                            !.dirty = TRUE]
                /\ Note(~Normal(new), "failed")
    /\ UNCHANGED <<data, entry>>

\* There is no cluster to be had for it.
CallWriteFail ==
    /\ Ready
    /\ handle.first = 0
    /\ call' = NoCall
    /\ NoteNoCluster
    /\ UNCHANGED <<fat, data, entry, handle>>

\* Mutant: the piece goes to the start of the cluster.
OverlayAtStart ==
    [o \in Offset |-> IF o < Piece THEN call.bytes[call.done + 1 + o]
                                   ELSE At(handle.current, o)]

\* A cluster with the next piece of the write laid over it.
Overlay ==
    LET offset == handle.position % ClusterSize
    IN  [o \in Offset |-> IF o >= offset /\ o < offset + Piece
                            THEN call.bytes[call.done + 1 + o - offset]
                            ELSE At(handle.current, o)]

\* The handle after that piece, standing on cluster c.
Moved(c) ==
    [handle EXCEPT !.position = @ + Piece,
                   !.current = c,
                   !.size = Max({@, handle.position + Piece}),
                   !.dirty = @ \/ handle.position + Piece > handle.size]

\* A turn of the loop of fat32_write before it looks for the next cluster.
WritePiece(ends) ==
    /\ call.op = "write"
    /\ handle.current \in Place
    /\ data' = [data EXCEPT ![handle.current] = Overlay]
    /\ call' = IF ends THEN NoCall ELSE [call EXCEPT !.done = @ + Piece]
    /\ UNCHANGED entry

WriteLast ==
    /\ call.done + Piece = call.size
    /\ WritePiece(TRUE)
    /\ handle' = Moved(handle.current)
    /\ UNCHANGED <<fat, trouble>>

\* Mutant: the end mark is taken for a cluster.
WriteOnPast ==
    /\ call.done + Piece < call.size
    /\ WritePiece(FALSE)
    /\ \E next \in Answers(handle.current) :
         /\ handle' = Moved(next)
         /\ Note(next = BadCluster, "failed")
    /\ UNCHANGED fat

\* The chain goes on; a failed read of the FAT passes for a cluster number.
WriteOn ==
    /\ call.done + Piece < call.size
    /\ WritePiece(FALSE)
    /\ \E next \in Answers(handle.current) \ {Eoc} :
         /\ handle' = Moved(next)
         /\ Note(next = BadCluster, "failed")
    /\ UNCHANGED fat

\* The chain ends here and a cluster is appended, unless that fails: the result
\* of fat32_extend_chain is not looked at.
WriteExtend(new, linked) ==
    /\ call.done + Piece < call.size
    /\ WritePiece(FALSE)
    /\ handle.current \in Cluster /\ fat[handle.current] = Eoc
    /\ new \in Allocatable
    /\ fat' = IF linked THEN [fat EXCEPT ![new] = Eoc, ![handle.current] = new]
                        ELSE [fat EXCEPT ![new] = Eoc]
    /\ handle' = Moved(new)
    /\ Note(~linked \/ ~Normal(new), "failed")

WriteShort ==
    /\ call.done + Piece < call.size
    /\ WritePiece(TRUE)
    /\ handle.current \in Cluster /\ fat[handle.current] = Eoc
    /\ handle' = Moved(handle.current)
    /\ NoteNoCluster
    /\ UNCHANGED fat

\* The cluster cannot be read, or only its first sectors can be written.
WriteFail(sectors) ==
    /\ call.op = "write"
    /\ sectors > 0 => handle.current \in Place
    /\ data' = IF sectors = 0 THEN data
               ELSE [data EXCEPT ![handle.current] =
                       [o \in Offset |-> IF o < sectors * SectorSize
                                           THEN Overlay[o] ELSE @[o]]]
    /\ call' = NoCall
    /\ Note(TRUE, "failed")
    /\ UNCHANGED <<fat, entry, handle>>

\* Where the cursor can be after skipping n clusters: a failed read leaves it
\* at BadCluster for good, an end mark stops it.
Skipped(n) ==
    LET after[k \in 0 .. n] ==
          IF k = 0 THEN {handle.first}
          ELSE UNION {IF c \in {0, Eoc} THEN {c} ELSE Answers(c) : c \in after[k - 1]}
    IN  after[n]

\* What is wrong with where the handle was is over.
Resettle(failed) == trouble' = (trouble \ {"behind"}) \cup IF failed THEN {"failed"} ELSE {}

Seek(position) ==
    /\ Ready
    /\ \E c \in Skipped(position \div ClusterSize) :
         /\ handle' = [handle EXCEPT !.position = position, !.current = c]
         /\ Resettle(c = BadCluster)
    /\ call' = NoCall
    /\ UNCHANGED <<fat, data, entry>>

\* fat32_close; `told' is whether fat32_update_entry succeeds.
Close(told) ==
    /\ Ready
    /\ IF handle.dirty /\ told
         THEN entry' = [first |-> handle.first, size |-> handle.size]
         ELSE UNCHANGED entry
    /\ handle' = Closed
    /\ call' = NoCall
    /\ Resettle(handle.dirty /\ ~told)
    /\ UNCHANGED <<fat, data>>

Turn ==
    \/ ReadOne
    \/ ReadFail
    \/ WriteLast
    \/ WriteOn
    \/ \E new \in Cluster, linked \in BOOLEAN : WriteExtend(new, linked)
    \/ WriteShort
    \/ \E sectors \in 0 .. (SectorsPerCluster - 1) : WriteFail(sectors)

-----------------------------------------------------------------------------
Next ==
    \/ Open
    \/ \E n \in 1 .. MaxMove : CallRead(n)
    \/ \E tag \in Tag, n \in 1 .. MaxMove :
         handle.position + n =< MaxSize /\ CallWrite(Payload(tag, n))
    \/ CallWriteFail
    \/ \E position \in 0 .. handle.size : Seek(position)
    \/ \E told \in BOOLEAN : Close(told)
    \/ Turn

Spec == Init /\ [][Next]_vars

-----------------------------------------------------------------------------
\* The bytes of the file with this first cluster and size.
Content(first, size) ==
    [i \in 1 .. size |->
       LET c == ChainAt(first, (i - 1) \div ClusterSize)
       IN  IF c \in Cluster THEN At(c, (i - 1) % ClusterSize) ELSE Lost]

\* The handle is a byte string with a position, whatever the clusters are, as long
\* as no call goes on from where a cluster ended; a seek makes good what such reads
\* do, but not what such writes do.
File == INSTANCE ByteFile WITH
    Cell <- ClusterSize,
    content <- IF handle.inUse THEN Content(handle.first, handle.size)
                               ELSE Content(entry.first, entry.size),
    position <- handle.position,
    op <- call.op,
    left <- IF call.op = "none" THEN 0 ELSE call.size - call.done,
    rest <- IF call.op = "write" THEN SubSeq(call.bytes, call.done + 1, call.size)
                                 ELSE <<>>,
    delivered <- call.out,
    trouble <- trouble \cap {"failed", "full"} # {},
    doubt <- IF "damaged" \in trouble THEN "file"
             ELSE IF "behind" \in trouble THEN "reads"
             ELSE IF call.op = "none" /\ ~Settled THEN "edge" ELSE "none"
ImplementsByteFile == File!Spec

\* FILESYSTEM.md has `multiple copies for redundancy' of the FAT.  Nothing but the
\* FAT layer writes to the last one, until a transfer fails or a write begins where
\* a cluster ended.
MirrorWritten(known) ==
    \E c \in {BadCluster, Eoc} : data'[c] # data[c] /\ trouble \cap known = {}
MirrorKept == [][~MirrorWritten({"failed", "damaged"})]_vars

\* Neither will do alone (FileCursorDeviations.cfg): a seek to the end
\* of a full cluster takes the end mark for a cluster, and a write goes on over a
\* failed read of the FAT.
OnlyFailuresReachMirror == [][~MirrorWritten({"failed"})]_vars
OnlyEdgesReachMirror == [][~MirrorWritten({"damaged"})]_vars

\* `cat' is to display the contents of the file (FileCursorDeviations.cfg): while no
\* transfer fails and no write went astray, a read that ends has delivered the bytes
\* before the position it ends at.
ReadsDeliver ==
    [][call.op = "read" /\ call'.op = "none" /\ trouble' \cap {"failed", "damaged"} = {} =>
         call'.out = SubSeq(Content(handle.first, handle.size),
                            handle'.position - Len(call'.out) + 1, handle'.position)]_vars
=============================================================================
