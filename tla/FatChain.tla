------------------------------ MODULE FatChain ------------------------------
(***************************************************************************)
(* The cluster chains of src/drivers/fat32/fat.c: fat32_allocate_cluster,  *)
(* fat32_extend_chain, fat32_free_chain and the two counting loops, over   *)
(* the FAT that FatMap.tla describes: a get may answer FAT32_BAD_CLUSTER   *)
(* and a set may fail, whenever a block transfer does.                     *)
(*                                                                         *)
(* The callers (file.c) are represented by what they do with clusters: a   *)
(* new cluster becomes the head of a chain some directory entry or open    *)
(* file names, is appended to the end of a chain, or is given back or      *)
(* forgotten on an error path.  fat32_delete frees a chain while the entry *)
(* still names it and then has the entry deleted, which may fail: the      *)
(* entry is then on clusters that are free for the taking, and a second    *)
(* deletion frees whatever has taken them.                                 *)
(***************************************************************************)
EXTENDS Integers, FiniteSets

CONSTANT NumClusters                        \* fs->total_clusters

ASSUME NumClustersAssumption ==
    NumClusters \in Nat \ {0} /\ NumClusters < 268435445

Cluster == 2 .. (NumClusters + 1)
Root == 2                                   \* bpb.root_cluster, as mkfs makes it

Free == 0                                   \* FAT32_FREE_CLUSTER
BadCluster == 268435447                     \* FAT32_BAD_CLUSTER
EocMin == 268435448                         \* FAT32_EOC_MIN
Eoc == 268435455                            \* FAT32_EOC

Link == Cluster \cup {Free, BadCluster, Eoc}

\* The condition every chain loop of the driver runs under.
InChain(c) == c >= 2 /\ c < EocMin

\* How entries and open files name a cluster as their first: not at all, as
\* one should, twice since fat32_rename could not delete the old entry, or with
\* an entry that fat32_delete could not remove after freeing its chain.
Naming == {"no", "own", "twin", "astray"}

VARIABLES
    fat,        \* the FAT as the driver sees it
    named,      \* cluster -> how it is named
    pc,         \* the call in progress
    cluster,    \* its loop variable
    new,        \* the cluster fat32_allocate_cluster returned, 0 on failure
    doomed,     \* the first cluster of the entry fat32_delete is at, or 0
    count,      \* the counter of the counting loops
    faulty,     \* history: a transfer failed or an error path dropped a cluster
    refreed     \* history: a chain was freed through an entry that went astray

vars == <<fat, named, pc, cluster, new, doomed, count, faulty, refreed>>

TypeOK ==
    /\ fat \in [Cluster -> Link]
    /\ named \in [Cluster -> Naming]
    /\ pc \in {"idle", "scan", "mark", "place", "free", "unlink", "count", "length"}
    /\ cluster \in Nat
    /\ new \in Cluster \cup {0}
    /\ doomed \in Cluster \cup {0}
    /\ count \in Nat
    /\ faulty \in BOOLEAN
    /\ refreed \in BOOLEAN

Init ==
    /\ \E marked \in SUBSET (Cluster \ {Root}) :      \* bad sectors found by mkfs
         fat = [c \in Cluster |-> IF c = Root THEN Eoc
                                  ELSE IF c \in marked THEN BadCluster ELSE Free]
    /\ named = [c \in Cluster |-> IF c = Root THEN "own" ELSE "no"]
    /\ pc = "idle"
    /\ cluster = 0
    /\ new = 0
    /\ doomed = 0
    /\ count = 0
    /\ faulty = FALSE
    /\ refreed = FALSE

\* What fat32_get_fat_entry(c) may answer; a cluster number past the table
\* lies past the end of the disk.
Answers(c) == IF c \in Cluster THEN {fat[c], BadCluster} ELSE {BadCluster}

\* An answer the disk did not give.
Misread(c, entry) == c \notin Cluster \/ entry # fat[c]

Start(call, c) ==
    /\ pc = "idle"
    /\ pc' = call
    /\ cluster' = c
    /\ count' = 0

Finish ==
    /\ pc' = "idle"
    /\ cluster' = 0

-----------------------------------------------------------------------------
CallAllocate ==
    /\ Start("scan", 2)
    /\ new' = 0
    /\ UNCHANGED <<fat, named, doomed, faulty, refreed>>

\* One turn of the loop of fat32_find_free_cluster.
Scan ==
    /\ pc = "scan"
    /\ cluster < NumClusters + 2
    /\ \E entry \in Answers(cluster) :
         /\ IF entry = Free THEN pc' = "mark" /\ UNCHANGED cluster
                            ELSE cluster' = cluster + 1 /\ UNCHANGED pc
         /\ faulty' = (faulty \/ Misread(cluster, entry))
    /\ UNCHANGED <<fat, named, new, doomed, count, refreed>>

ScanFull ==
    /\ pc = "scan"
    /\ cluster >= NumClusters + 2
    /\ Finish
    /\ UNCHANGED <<fat, named, new, doomed, count, faulty, refreed>>

Mark ==
    /\ pc = "mark"
    /\ fat' = [fat EXCEPT ![cluster] = Eoc]
    /\ new' = cluster
    /\ pc' = "place"
    /\ UNCHANGED <<named, cluster, doomed, count, faulty, refreed>>

MarkFail ==
    /\ pc = "mark"
    /\ Finish
    /\ faulty' = TRUE
    /\ UNCHANGED <<fat, named, new, doomed, count, refreed>>

\* fat32_write on an empty file and fat32_create_dir keep the cluster as a head,
\* beside an entry that went astray if it was one of that.
Adopt ==
    /\ pc = "place"
    /\ named' = [named EXCEPT ![new] = IF named[new] = "no" THEN "own" ELSE "astray"]
    /\ new' = 0
    /\ Finish
    /\ UNCHANGED <<fat, doomed, count, faulty, refreed>>

\* Mutant: one new cluster is appended to more than one chain.
ExtendAgain(last) ==
    /\ pc = "place"
    /\ last \notin {new, Root}
    /\ fat[last] = Eoc
    /\ fat' = [fat EXCEPT ![last] = new]
    /\ UNCHANGED <<named, pc, cluster, new, doomed, count, faulty, refreed>>

\* Mutant: the new cluster goes into the middle of a chain.
ExtendMiddle(last) ==
    /\ pc = "place"
    /\ last \notin {new, Root}
    /\ fat[last] \notin {Free, BadCluster}
    /\ fat' = [fat EXCEPT ![last] = new, ![new] = fat[last]]
    /\ new' = 0
    /\ Finish
    /\ UNCHANGED <<named, doomed, count, faulty, refreed>>

\* fat32_write at the end of a chain: fat32_extend_chain on its last cluster,
\* the one whose entry it has just seen to be an end mark.  Directories,
\* the root among them, never grow.
Extend(last) ==
    /\ pc = "place"
    /\ last \notin {new, Root}
    /\ fat[last] = Eoc
    /\ fat' = [fat EXCEPT ![last] = new]
    /\ new' = 0
    /\ Finish
    /\ UNCHANGED <<named, doomed, count, faulty, refreed>>

\* The extension fails and fat32_write does not look, or fat32_create_dir finds
\* the parent directory full: nobody keeps the cluster.
Forget ==
    /\ pc = "place"
    /\ new' = 0
    /\ Finish
    /\ faulty' = TRUE
    /\ UNCHANGED <<fat, named, doomed, count, refreed>>

\* fat32_create_dir cannot write its new cluster and gives it back.
GiveBack ==
    /\ pc = "place"
    /\ pc' = "free"
    /\ cluster' = new
    /\ new' = 0
    /\ UNCHANGED <<fat, named, doomed, count, faulty, refreed>>

\* fat32_close cannot write the first cluster of a file into its entry.
Lose(head) ==
    /\ pc = "idle"
    /\ head # Root /\ named[head] = "own"
    /\ named' = [named EXCEPT ![head] = "no"]
    /\ faulty' = TRUE
    /\ UNCHANGED <<fat, pc, cluster, new, doomed, count, refreed>>

\* fat32_rename has made the new entry and cannot delete the old one.
Twin(head) ==
    /\ pc = "idle"
    /\ head # Root /\ named[head] = "own"
    /\ named' = [named EXCEPT ![head] = "twin"]
    /\ faulty' = TRUE
    /\ UNCHANGED <<fat, pc, cluster, new, doomed, count, refreed>>

\* fat32_delete frees the chain first.
CallDelete(head) ==
    /\ Start("free", head)
    /\ head # Root /\ named[head] # "no"
    /\ doomed' = head
    /\ refreed' = (refreed \/ named[head] = "astray")
    /\ UNCHANGED <<fat, named, new, faulty>>

\* Mutant: the successor is freed, and the cluster itself kept.
FreeOneForward ==
    /\ pc = "free"
    /\ InChain(cluster)
    /\ cluster \in Cluster
    /\ cluster' = fat[cluster]
    /\ fat' = [c \in Cluster |-> IF c = fat[cluster] THEN Free ELSE fat[c]]
    /\ UNCHANGED <<named, pc, new, doomed, count, faulty, refreed>>

\* Mutant: the successor is read after the entry is cleared.
FreeOneReadsLate ==
    /\ pc = "free"
    /\ InChain(cluster)
    /\ cluster \in Cluster
    /\ cluster' = Free
    /\ fat' = [fat EXCEPT ![cluster] = Free]
    /\ UNCHANGED <<named, pc, new, doomed, count, faulty, refreed>>

\* One turn of the loop of fat32_free_chain.
FreeOne ==
    /\ pc = "free"
    /\ InChain(cluster)
    /\ cluster \in Cluster
    /\ \E next \in Answers(cluster) :
         /\ cluster' = next
         /\ faulty' = (faulty \/ Misread(cluster, next))
    /\ fat' = [fat EXCEPT ![cluster] = Free]
    /\ UNCHANGED <<named, pc, new, doomed, count, refreed>>

\* fat32_delete goes on to the entry, whatever fat32_free_chain returned.
Freed ==
    /\ pc' = IF doomed = 0 THEN "idle" ELSE "unlink"
    /\ cluster' = 0
    /\ UNCHANGED <<fat, named, new, doomed, count, refreed>>

\* Mutant: a failed set is tried again.
FreeFailRetried ==
    /\ pc = "free"
    /\ InChain(cluster)
    /\ UNCHANGED vars

\* fat32_set_fat_entry fails: the rest of the chain stays allocated.
FreeFail ==
    /\ pc = "free"
    /\ InChain(cluster)
    /\ faulty' = TRUE
    /\ Freed

FreeEnd ==
    /\ pc = "free"
    /\ ~InChain(cluster)
    /\ UNCHANGED faulty
    /\ Freed

\* Mutant: the deleted entry is not written back.
UnlinkUnwritten ==
    /\ pc = "unlink"
    /\ doomed' = 0
    /\ Finish
    /\ UNCHANGED <<fat, named, new, count, faulty, refreed>>

\* fat32_delete_entry.  Of two entries that name the cluster one stays.
Unlink ==
    /\ pc = "unlink"
    /\ \E rest \in CASE named[doomed] = "own"  -> {"no"}
                     [] named[doomed] = "twin" -> {"astray"}
                     [] OTHER                  -> {"no", "astray"} :
         named' = [named EXCEPT ![doomed] = rest]
    /\ doomed' = 0
    /\ Finish
    /\ UNCHANGED <<fat, new, count, faulty, refreed>>

\* It cannot read or write the directory: the entry stays.
UnlinkFail ==
    /\ pc = "unlink"
    /\ named' = [named EXCEPT ![doomed] = "astray"]
    /\ doomed' = 0
    /\ Finish
    /\ faulty' = TRUE
    /\ UNCHANGED <<fat, new, count, refreed>>

CallCount ==
    /\ Start("count", 2)
    /\ UNCHANGED <<fat, named, new, doomed, faulty, refreed>>

\* One turn of the loop of fat32_count_free_clusters.
CountOne ==
    /\ pc = "count"
    /\ cluster < NumClusters + 2
    /\ \E entry \in Answers(cluster) :
         count' = IF entry = Free THEN count + 1 ELSE count
    /\ cluster' = cluster + 1
    /\ UNCHANGED <<fat, named, pc, new, doomed, faulty, refreed>>

CountEnd ==
    /\ pc = "count"
    /\ cluster >= NumClusters + 2
    /\ Finish
    /\ UNCHANGED <<fat, named, new, doomed, count, faulty, refreed>>

CallLength(head) ==
    /\ Start("length", head)
    /\ named[head] # "no"
    /\ UNCHANGED <<fat, named, new, doomed, faulty, refreed>>

\* One turn of the loop of fat32_get_chain_length.  Past a failed read it goes
\* on counting for ever; the model stops counting there.
LengthOne ==
    /\ pc = "length"
    /\ InChain(cluster)
    /\ \E next \in Answers(cluster) : cluster' = next
    /\ count' = IF cluster \in Cluster THEN count + 1 ELSE count
    /\ UNCHANGED <<fat, named, pc, new, doomed, faulty, refreed>>

LengthEnd ==
    /\ pc = "length"
    /\ ~InChain(cluster)
    /\ Finish
    /\ UNCHANGED <<fat, named, new, doomed, count, faulty, refreed>>

Step ==
    \/ Scan \/ ScanFull \/ Mark \/ MarkFail
    \/ Adopt \/ (\E last \in Cluster : Extend(last)) \/ Forget \/ GiveBack
    \/ FreeOne \/ FreeFail \/ FreeEnd \/ Unlink \/ UnlinkFail
    \/ CountOne \/ CountEnd \/ LengthOne \/ LengthEnd

Call ==
    \/ CallAllocate
    \/ \E head \in Cluster :
         CallDelete(head) \/ CallLength(head) \/ Lose(head) \/ Twin(head)
    \/ CallCount

Next == Call \/ Step

Spec == Init /\ [][Next]_vars

\* A call that has started runs on: nothing else has the processor.
FairSpec == Spec /\ WF_vars(Step)

-----------------------------------------------------------------------------
InUse(c) == fat[c] \notin {Free, BadCluster}

\* The clusters reached from c: those in every set that holds c and, with a
\* cluster, its successor.
Closed(f, S) == \A d \in S : f[d] \in Cluster => f[d] \in S
Chain(f, c) ==
    {d \in Cluster : \A S \in SUBSET Cluster :
                        (c \in Cluster => c \in S) /\ Closed(f, S) => d \in S}

\* What an entry names and nobody has begun to free.
Owned(h) == named[h] \in {"own", "twin"} /\ h # doomed

\* No two clusters have the same successor: no chain runs into another.  It
\* takes a second deletion through an entry that went astray to change that.
Apart == \A c, d \in Cluster : c # d /\ fat[c] \in Cluster => fat[c] # fat[d]
NoCrossLink == ~refreed => Apart

\* No chain runs into a cluster that is free for the taking, until such a
\* deletion.
Leading == \A c \in Cluster : fat[c] \in Cluster => InUse(fat[c])
NoDanglingLink == ~refreed => Leading

\* What a directory entry or handle names is in use and starts its chain, save
\* the entry being deleted and those whose deletion has failed.
HeadsInOrder ==
    \A h \in Cluster : Owned(h) => InUse(h) /\ \A c \in Cluster : fat[c] # h
HeadsStartChains == ~refreed => HeadsInOrder

\* The cluster a call is working on belongs to nobody else.
Private(c) ==
    /\ InUse(c)
    /\ ~Owned(c)
    /\ \A d \in Cluster : fat[d] # c

CallState ==
    /\ pc \in {"scan", "count"} => cluster >= 2
    /\ pc = "mark" => cluster \in Cluster /\ fat[cluster] = Free
    /\ pc = "place" => new \in Cluster /\ fat[new] = Eoc
    /\ pc \in {"free", "length"} => cluster \in Link
    /\ pc = "unlink" => doomed \in Cluster
    /\ pc \notin {"free", "unlink"} => doomed = 0
    /\ ~refreed =>
         /\ pc = "place" => Private(new)
         /\ pc = "free" => cluster # Free /\ (cluster \in Cluster => Private(cluster))

\* Nothing goes astray by itself.
Faultless ==
    ~faulty =>
      /\ ~refreed
      /\ \A c \in Cluster : named[c] \in {"no", "own"}
      /\ doomed # 0 => named[doomed] = "own"

\* The inductive invariant behind the theorems of FatChain_proofs.
IInv ==
    /\ TypeOK
    /\ NoCrossLink
    /\ NoDanglingLink
    /\ HeadsStartChains
    /\ CallState
    /\ Faultless

\* Without failures no cluster is lost: every one in use is on a chain that is
\* named, being freed, or just allocated.
NoLeak ==
    ~faulty =>
        \A c \in Cluster :
            InUse(c) =>
              \/ \E h \in Cluster : named[h] # "no" /\ h # doomed /\ c \in Chain(fat, h)
              \/ pc = "place" /\ c = new
              \/ pc = "free" /\ c \in Chain(fat, cluster)

\* No call takes a cluster from, or slips one into the middle of, a chain that
\* an entry or a handle names: what was reachable stays so, in front of what is
\* new.  Excepted is the chain of the entry being deleted, and all of them once
\* a deletion has gone through an entry that went astray.
HeldChainsOnlyGrow ==
    [][~refreed' =>
         \A h \in Cluster : Owned(h) /\ Owned(h)' =>
           \A c \in Chain(fat, h) :
             /\ c \in Chain(fat', h)
             /\ fat'[c] # fat[c] => fat[c] = Eoc]_vars

\* Every call but fat32_get_chain_length comes back, whatever fails.
CallsReturn == pc \notin {"idle", "length"} ~> pc = "idle"

\* What a failed deletion leads to (FatChainAstray.cfg): `rm' of a file whose
\* entry it could not remove, then of the same file again, and another file's
\* chain leads into free clusters.
ChainsStayWhole == Leading
=============================================================================
