---------------------------- MODULE Volume_proofs ----------------------------
(* Proofs about Volume, for disks, sectors and directories of any size.      *)
EXTENDS Volume, FiniteSetTheorems, WellFoundedInduction, FunctionTheorems, TLAPS

LEMMA LeastElement ==
    ASSUME NEW S, S \subseteq Nat, S # {}
    PROVE  \E x \in S : \A y \in S : x =< y
<1>1. PICK x \in S : \A y \in S : ~ (<<y, x>> \in OpToRel(<, Nat))
  BY NatLessThanWellFounded, WFMin, Zenon
<1>2. \A y \in S : y \in Nat /\ ~ (y < x)
  BY <1>1 DEF OpToRel
<1>3. QED BY <1>2

Leads(map, c, k, p) ==
    p = [i \in 1 .. k |-> IF i = 1 THEN c
                          ELSE IF p[i - 1] \in Cluster THEN map[p[i - 1]] ELSE p[i - 1]]

LEMMA BlocksLead ==
    ASSUME NEW map, NEW c, NEW k \in Nat, \E p : Leads(map, c, k, p)
    PROVE  \E p : Leads(map, c, k, p) /\ Blocks(map, c, k) = {p[i] : i \in 1 .. k} \cap Cluster
<1> DEFINE at[i \in 1 .. k] ==
            IF i = 1 THEN c
            ELSE IF at[i - 1] \in Cluster THEN map[at[i - 1]] ELSE at[i - 1]
<1>1. Blocks(map, c, k) = {at[i] : i \in 1 .. k} \cap Cluster
  BY DEF Blocks
<1>2. Leads(map, c, k, at)
  BY Zenon DEF Leads
<1>3. QED BY <1>1, <1>2

-----------------------------------------------------------------------------
(* The invariant                                                             *)

\* Only the cached sector waits to be written.
CacheOK == \A c \in Cluster : SectorOf(c) # cached => durable[c] = fat[c]

\* No two clusters have one successor, and no successor is free.
Linear(map) == \A c, d \in Cluster : c # d /\ map[c] \in Cluster => map[c] # map[d]
Leading(map) == \A c \in Cluster : map[c] \in Cluster => map[map[c]] # Free
Start(map, c) == \A d \in Cluster : map[d] # c

\* The disk has no link that the driver does not see, save those of the chain
\* that is being freed.
DiskBehind ==
    \A c \in Cluster : durable[c] \in Cluster =>
        \/ fat[c] = durable[c]
        \/ call.op \in {"free", "flush"} /\ fat[c] = Free

TablesOK ==
    /\ Linear(fat) /\ Leading(fat)
    /\ Linear(durable) /\ Leading(durable)
    /\ DiskBehind

\* The names of the entry a deletion is about to remove, and of a rename
Dying ==
    IF \/ call.op \in {"free", "flush"} /\ call.then = "unlink"
       \/ call.op = "unlink" /\ call.to = call.name
    THEN {call.name} ELSE {}
Moving == IF call.op = "unlink" THEN {call.name, call.to} ELSE {}

\* A path of k clusters from c
Path(map, c, k, p) ==
    /\ p \in [1 .. k -> Cluster]
    /\ k # 0 => p[1] = c
    /\ \A i \in 1 .. k - 1 : p[i + 1] = map[p[i]]

NameOK(n) ==
    /\ entry[n].kind = "none" => entry[n] = NoFile
    /\ entry[n].kind = "dir" => entry[n].first # 0 /\ entry[n].size = 0
    /\ ~IsOpen(n) => handle[n] = Closed
    /\ IsOpen(n) => /\ entry[n].kind = "file"
                    /\ entry[n].first \in {0, handle[n].first}
                    /\ ~handle[n].dirty => /\ handle[n].first = entry[n].first
                                           /\ handle[n].size = entry[n].size
NamesOK == \A n \in Name : NameOK(n)

\* An open handle is at a cluster of its file, and at the one its position says
\* if it is not behind.
AtPath(n) ==
    \E p : LET k == IF handle[n].pos = 0 THEN 1 ELSE handle[n].pos IN
           Path(fat, handle[n].first, k, p) /\ p[k] = handle[n].at
AtOK(n) ==
    /\ handle[n].pos = 0 => handle[n].full
    /\ handle[n].first = 0 => handle[n].pos = 0
    /\ handle[n].first # 0 => /\ handle[n].at \in Chain(fat, handle[n].first)
                              /\ n \notin behind => AtPath(n)
HandlesOK == \A n \in Name : IsOpen(n) => AtOK(n)

HeadsOK ==
    /\ \A n \in Name : Head(n) # 0 => Start(fat, Head(n))
    /\ \A n \in Name \ Dying : Head(n) # 0 => fat[Head(n)] # Free
    /\ \A n, m \in Name : n # m /\ Head(n) = Head(m) /\ Head(n) # 0 => {n, m} \subseteq Moving
    /\ \A n \in Name : entry[n].first # 0 => Start(durable, entry[n].first)

\* A cluster that belongs to no name and no chain
Loose(c) == fat[c] # Free /\ Start(fat, c) /\ \A n \in Name \ Dying : Head(n) # c
OrphansOK == \A c \in orphans : Loose(c)

HasPath(n) == \E p : Path(fat, handle[n].first, handle[n].size, p)
Saved(p) == \A i \in DOMAIN p : durable[p[i]] # Free
OnBoth(n) ==
    \E p : /\ Path(fat, entry[n].first, entry[n].size, p)
           /\ Path(durable, entry[n].first, entry[n].size, p)
           /\ Saved(p)
Syncing == IF call.op = "sync" THEN {call.name} ELSE {}
PathsOK ==
    /\ \A n \in Name \ behind : IsOpen(n) => HasPath(n)
    /\ \A n \in Name \ (Dying \cup Syncing \cup behind) : OnBoth(n)

\* The first cluster of a file that has been closed is marked on the disk.
HeadSaved(n) ==
    entry[n].kind = "file" /\ entry[n].first # 0 => durable[entry[n].first] # Free
FilesSaved == \A n \in Name \ (Dying \cup Syncing) : HeadSaved(n)

\* The running call
AtLength(k) ==
    \E p : Path(fat, handle[call.name].first, k, p) /\ k # 0 /\ p[k] = call.at
Reached == IF call.op = "piece" /\ handle[call.name].full THEN handle[call.name].pos + 1
           ELSE handle[call.name].pos
WritingOK ==
    LET pos == handle[call.name].pos IN
    /\ pos # -1 /\ pos + call.left =< MaxSize
    /\ call.at \in Chain(fat, handle[call.name].first)
    /\ call.name \notin behind => AtLength(Reached)
    /\ call.op \in {"next", "extend"} => handle[call.name].full
    /\ call.op \in {"piece", "next"} => call.got = 0
    /\ call.op = "extend" =>
         /\ fat[call.at] = Eoc
         /\ call.got # 0 => /\ call.got # call.at /\ fat[call.got] = Eoc
                            /\ Loose(call.got) /\ call.got \notin orphans
CallOK ==
    /\ call.op \in {"piece", "next", "extend"} => WritingOK
    /\ call.op = "sync" =>
         /\ IsOpen(call.name)
         /\ entry[call.name].first = handle[call.name].first
         /\ entry[call.name].size = handle[call.name].size
    /\ call.op \in {"dot", "dirent"} =>
         ~Exists(call.name) /\ Loose(call.at) /\ call.at \notin orphans
    /\ call.op = "free" => Loose(call.at) /\ call.at \notin orphans
    /\ call.op \in {"free", "flush"} =>
         ~IsOpen(call.name) /\ (call.then = "unlink" <=> Exists(call.name))
    /\ call.op = "unlink" =>
         /\ ~IsOpen(call.name) /\ ~IsOpen(call.to) /\ Exists(call.name)
         /\ entry[call.to] = entry[call.name]

\* Who has a cluster
Has(c) ==
    \/ c \in orphans
    \/ \E n \in Name \ Dying : c \in Chain(fat, Head(n))
    \/ call.op \in {"dot", "dirent"} /\ c = call.at
    \/ call.op = "extend" /\ c = call.got
    \/ call.op = "free" /\ c \in Chain(fat, call.at)
NoneLost == \A c \in Cluster : fat[c] # Free => Has(c)

IInv == /\ TypeOK /\ CacheOK /\ TablesOK /\ NamesOK /\ HeadsOK /\ OrphansOK
        /\ HandlesOK /\ PathsOK /\ FilesSaved /\ CallOK /\ NoneLost

-----------------------------------------------------------------------------
(* Clusters and the cache                                                    *)

LEMMA ClusterFacts ==
    /\ Cluster \subseteq Nat /\ Free \notin Cluster /\ Eoc \notin Cluster /\ Eoc # Free
    /\ 0 \notin Cluster /\ Free = 0 /\ NumClusters \in Cluster
    /\ Cluster = 1 .. NumClusters /\ Link = Cluster \cup {Free, Eoc}
    /\ \A c \in Cluster : c # 0 /\ c # Eoc /\ SectorOf(c) \in Sector
  BY VolumeAssumption DEF Cluster, Free, Eoc, Link, Sector

Tables == fat \in [Cluster -> Link] /\ durable \in [Cluster -> Link] /\ CacheOK

LEMMA FlushedIsFat == ASSUME Tables PROVE Flushed = fat
  BY DEF Tables, CacheOK, Flushed

LEMMA LoadDoes ==
    ASSUME Tables, NEW S, NEW s, Load(S, s)
    PROVE  /\ durable' \in {durable, fat} /\ cached' = s
           /\ \A c \in Cluster : SectorOf(c) # s => durable'[c] = fat[c]
<1>1. CASE S \cup {s} = {cached}
  <2>1. s = cached
    BY <1>1
  <2>2. QED BY <1>1, <2>1 DEF Load, Tables, CacheOK
<1>2. CASE S \cup {s} # {cached}
  BY <1>2, FlushedIsFat DEF Load, Tables
<1>3. QED BY <1>1, <1>2

LEMMA GetDoes ==
    ASSUME Tables, NEW c \in Cluster, GetEntry(c)
    PROVE  durable' \in {durable, fat} /\ CacheOK' /\ fat' = fat /\ cached' \in Sector
  BY LoadDoes, ClusterFacts DEF GetEntry, CacheOK

LEMMA SetDoes ==
    ASSUME Tables, NEW c \in Cluster, NEW link, SetEntry(c, link)
    PROVE  /\ durable' \in {durable, fat} /\ CacheOK' /\ cached' \in Sector
           /\ fat' = [fat EXCEPT ![c] = link]
<1>1. /\ durable' \in {durable, fat} /\ cached' = SectorOf(c) /\ fat' = [fat EXCEPT ![c] = link]
      /\ \A d \in Cluster : SectorOf(d) # SectorOf(c) => durable'[d] = fat[d]
  BY LoadDoes DEF SetEntry
<1>2. \A d \in Cluster : SectorOf(d) # SectorOf(c) => fat'[d] = fat[d]
  BY <1>1 DEF Tables
<1>3. QED BY <1>1, <1>2, ClusterFacts DEF CacheOK

LEMMA AllocateDoes ==
    ASSUME Tables, NEW c \in Cluster, Allocate(c)
    PROVE  /\ durable' \in {durable, fat} /\ CacheOK' /\ cached' \in Sector
           /\ fat[c] = Free /\ fat' = [fat EXCEPT ![c] = Eoc]
<1>1. /\ durable' \in {durable, fat} /\ cached' = SectorOf(c) /\ fat' = [fat EXCEPT ![c] = Eoc]
      /\ \A d \in Cluster : SectorOf(d) # SectorOf(c) => durable'[d] = fat[d]
      /\ fat[c] = Free
  BY LoadDoes DEF Allocate, IsFirstFree
<1>2. \A d \in Cluster : SectorOf(d) # SectorOf(c) => fat'[d] = fat[d]
  BY <1>1 DEF Tables
<1>3. QED BY <1>1, <1>2, ClusterFacts DEF CacheOK

LEMMA AllocateFailDoes ==
    ASSUME Tables, AllocateFail
    PROVE  durable' \in {durable, fat} /\ CacheOK' /\ fat' = fat /\ cached' \in Sector
  BY LoadDoes, ClusterFacts DEF AllocateFail, CacheOK

LEMMA FlushDoes ==
    ASSUME Tables, Flush
    PROVE  durable' = fat /\ CacheOK' /\ fat' = fat /\ cached' = cached
  BY FlushedIsFat DEF Flush, CacheOK

-----------------------------------------------------------------------------
(* Chains                                                                    *)

LEMMA ChainHasHead == ASSUME NEW map, NEW c \in Cluster PROVE c \in Chain(map, c)
  BY DEF Chain

LEMMA ChainIsClosed ==
    ASSUME NEW map, NEW c
    PROVE  Chain(map, c) \subseteq Cluster /\ LinkClosed(map, Chain(map, c))
  BY DEF Chain, LinkClosed

LEMMA ChainIsLeast ==
    ASSUME NEW map, NEW c, NEW S \in SUBSET Cluster, c \in Cluster => c \in S, LinkClosed(map, S)
    PROVE  Chain(map, c) \subseteq S
  BY DEF Chain

LEMMA ChainOfNone == ASSUME NEW map, NEW c, c \notin Cluster PROVE Chain(map, c) = {}
<1>1. {} \in SUBSET Cluster /\ LinkClosed(map, {})
  BY DEF LinkClosed
<1>2. QED BY <1>1, ChainIsLeast

LEMMA ChainInUse ==
    ASSUME NEW map, NEW c, Leading(map), c \in Cluster => map[c] # Free
    PROVE  \A d \in Chain(map, c) : map[d] # Free
<1> DEFINE S == {d \in Cluster : map[d] # Free}
<1>1. S \in SUBSET Cluster /\ (c \in Cluster => c \in S) /\ LinkClosed(map, S)
  BY DEF Leading, LinkClosed
<1> HIDE DEF S
<1>2. Chain(map, c) \subseteq S
  BY <1>1, ChainIsLeast
<1>3. QED BY <1>2 DEF S

\* What begins a chain is on no other.
LEMMA StartApart ==
    ASSUME NEW map, NEW c \in Cluster, Start(map, c), NEW d, d # c
    PROVE  c \notin Chain(map, d)
<1> DEFINE S == Cluster \ {c}
<1>1. S \in SUBSET Cluster /\ (d \in Cluster => d \in S) /\ LinkClosed(map, S)
  BY DEF Start, LinkClosed
<1> HIDE DEF S
<1>2. Chain(map, d) \subseteq S
  BY <1>1, ChainIsLeast
<1>3. QED BY <1>2 DEF S

LEMMA ChainBack ==
    ASSUME NEW map, NEW c, NEW d \in Chain(map, c)
    PROVE  d = c \/ \E b \in Chain(map, c) : map[b] = d
<1> DEFINE S == {e \in Chain(map, c) : e = c \/ \E b \in Chain(map, c) : map[b] = e}
<1>1. S \in SUBSET Cluster
  BY ChainIsClosed
<1>2. c \in Cluster => c \in S
  BY ChainHasHead
<1>3. LinkClosed(map, S)
  BY ChainIsClosed DEF LinkClosed
<1> HIDE DEF S
<1>4. Chain(map, c) \subseteq S
  BY <1>1, <1>2, <1>3, ChainIsLeast
<1>5. QED BY <1>4 DEF S

\* Chains of different beginnings share nothing.
LEMMA ChainsApart ==
    ASSUME NEW map, Linear(map), NEW c, NEW d, c # d, Start(map, c), Start(map, d)
    PROVE  Chain(map, c) \cap Chain(map, d) = {}
<1> DEFINE S == Cluster \ Chain(map, d)
<1>1. S \in SUBSET Cluster
  OBVIOUS
<1>2. c \in Cluster => c \in S
  BY StartApart
<1>3. ASSUME NEW e \in S, map[e] \in Cluster, map[e] \in Chain(map, d) PROVE FALSE
  <2>1. map[e] # d
    BY <1>3 DEF Start
  <2>2. PICK b \in Chain(map, d) : map[b] = map[e]
    BY <1>3, <2>1, ChainBack
  <2>3. b \in Cluster /\ e \in Cluster /\ b # e
    BY <2>2, ChainIsClosed
  <2>4. QED BY <1>3, <2>2, <2>3 DEF Linear
<1>4. LinkClosed(map, S)
  BY <1>3 DEF LinkClosed
<1> HIDE DEF S
<1>5. Chain(map, c) \subseteq S
  BY <1>1, <1>2, <1>4, ChainIsLeast
<1>6. QED BY <1>5 DEF S

-----------------------------------------------------------------------------
(* Paths                                                                     *)

LEMMA PathInChain ==
    ASSUME NEW map, NEW c, NEW k \in Nat, NEW p, Path(map, c, k, p)
    PROVE  \A i \in 1 .. k : p[i] \in Chain(map, c)
<1> DEFINE Bad == {i \in 1 .. k : p[i] \notin Chain(map, c)}
<1>1. SUFFICES ASSUME Bad # {} PROVE FALSE
  OBVIOUS
<1>2. PICK i \in Bad : \A j \in Bad : i =< j
  <2>1. Bad \subseteq Nat
    OBVIOUS
  <2> HIDE DEF Bad
  <2>2. QED BY <1>1, <2>1, LeastElement
<1>3. i # 1
  BY <1>2, ChainHasHead DEF Path
<1>4. i - 1 \in 1 .. k /\ i - 1 \in 1 .. k - 1 /\ i - 1 \notin Bad /\ (i - 1) + 1 = i
  BY <1>2, <1>3
<1>5. p[i - 1] \in Chain(map, c) /\ p[i] = map[p[i - 1]] /\ p[i] \in Cluster
  BY <1>4 DEF Path
<1>6. QED BY <1>2, <1>5, ChainIsClosed DEF LinkClosed

LEMMA PathInjective ==
    ASSUME NEW map, Linear(map), NEW c, Start(map, c), NEW k \in Nat, NEW p, Path(map, c, k, p)
    PROVE  \A i, j \in 1 .. k : i < j => p[i] # p[j]
<1> DEFINE Bad == {i \in 1 .. k : \E j \in 1 .. k : i < j /\ p[i] = p[j]}
<1>1. SUFFICES ASSUME Bad # {} PROVE FALSE
  OBVIOUS
<1>2. PICK i \in Bad : \A h \in Bad : i =< h
  <2>1. Bad \subseteq Nat
    OBVIOUS
  <2> HIDE DEF Bad
  <2>2. QED BY <1>1, <2>1, LeastElement
<1>3. PICK j \in 1 .. k : i < j /\ p[i] = p[j]
  BY <1>2
<1>4. j - 1 \in 1 .. k - 1 /\ (j - 1) + 1 = j /\ p[j] = map[p[j - 1]] /\ p[j - 1] \in Cluster /\ p[j] \in Cluster
  BY <1>2, <1>3 DEF Path
<1>5. i # 1
  BY <1>3, <1>4 DEF Path, Start
<1>6. i - 1 \in 1 .. k - 1 /\ (i - 1) + 1 = i /\ p[i] = map[p[i - 1]] /\ p[i - 1] \in Cluster
  BY <1>2, <1>5 DEF Path
<1>7. p[i - 1] = p[j - 1]
  BY <1>3, <1>4, <1>6 DEF Linear
<1>8. i - 1 \in Bad
  BY <1>3, <1>4, <1>6, <1>7
<1>9. QED BY <1>2, <1>8

\* A path stays one when what is written is not on it, or was its end.
LEMMA PathKept ==
    ASSUME NEW map \in [Cluster -> Link], NEW d \in Cluster, NEW link, NEW c, NEW k \in Nat,
           NEW p, Path(map, c, k, p),
           map[d] \notin Cluster \/ \A i \in 1 .. k : p[i] # d
    PROVE  Path([map EXCEPT ![d] = link], c, k, p)
<1>1. \A i \in 1 .. k - 1 : i \in 1 .. k /\ i + 1 \in 1 .. k /\ p[i] \in Cluster /\ p[i + 1] \in Cluster
  BY DEF Path
<1>2. \A i \in 1 .. k - 1 : p[i] # d
  BY <1>1 DEF Path
<1>3. \A i \in 1 .. k - 1 : [map EXCEPT ![d] = link][p[i]] = map[p[i]]
  BY <1>1, <1>2
<1>4. QED BY <1>3 DEF Path

LEMMA PathNext ==
    ASSUME NEW map, NEW c, NEW k \in Nat \ {0}, NEW p, Path(map, c, k, p),
           map[p[k]] \in Cluster
    PROVE  \E q : Path(map, c, k + 1, q) /\ q[k + 1] = map[p[k]]
<1> DEFINE q == [i \in 1 .. k + 1 |-> IF i = k + 1 THEN map[p[k]] ELSE p[i]]
<1>1. q \in [1 .. k + 1 -> Cluster] /\ q[1] = c /\ q[k + 1] = map[p[k]]
  BY DEF Path
<1>2. \A i \in 1 .. (k + 1) - 1 : q[i + 1] = map[q[i]]
  <2>0. (k + 1) - 1 = k
    OBVIOUS
  <2> SUFFICES ASSUME NEW i \in 1 .. k PROVE q[i + 1] = map[q[i]]
    BY <2>0
  <2>1. CASE i = k
    BY <2>1
  <2>2. CASE i # k
    <3>1. i \in 1 .. k - 1 /\ i + 1 # k + 1 /\ i # k + 1 /\ i + 1 \in 1 .. k + 1
      BY <2>2
    <3>2. QED BY <3>1 DEF Path
  <2>3. QED BY <2>1, <2>2
<1> HIDE DEF q
<1>3. QED BY <1>1, <1>2 DEF Path

LEMMA PathOfNone ==
    ASSUME NEW c
    PROVE  \E p : Path(fat, c, 0, p) /\ Path(durable, c, 0, p) /\ Saved(p)
<1> DEFINE p == [i \in 1 .. 0 |-> 0]
<1>1. p \in [1 .. 0 -> Cluster] /\ DOMAIN p = 1 .. 0
  OBVIOUS
<1>2. Path(fat, c, 0, p) /\ Path(durable, c, 0, p) /\ Saved(p)
  BY <1>1 DEF Path, Saved
<1>3. QED BY <1>2

LEMMA PathOfOne ==
    ASSUME NEW map, NEW c \in Cluster
    PROVE  \E p : Path(map, c, 1, p) /\ p[1] = c
<1> DEFINE p == [i \in 1 .. 1 |-> c]
<1>1. p \in [1 .. 1 -> Cluster] /\ p[1] = c
  OBVIOUS
<1>2. Path(map, c, 1, p)
  BY <1>1 DEF Path
<1>3. QED BY <1>1, <1>2

-----------------------------------------------------------------------------
(* Blocks                                                                    *)

LEMMA LeadsOne ==
    ASSUME NEW map, NEW c, NEW k \in Nat
    PROVE  \E p : Leads(map, c, k, p)
<1> DEFINE Bad == {m \in Nat : ~ \E p : Leads(map, c, m, p)}
<1>1. SUFFICES ASSUME Bad # {} PROVE FALSE
  OBVIOUS
<1>2. PICK m \in Bad : \A j \in Bad : m =< j
  <2>1. Bad \subseteq Nat
    OBVIOUS
  <2> HIDE DEF Bad
  <2>2. QED BY <1>1, <2>1, LeastElement
<1>3. m # 0
  <2>1. Leads(map, c, 0, [i \in 1 .. 0 |-> 0])
    BY DEF Leads
  <2>2. QED BY <1>2, <2>1
<1>4. m - 1 \in Nat /\ m - 1 \notin Bad
  BY <1>2, <1>3
<1>5. PICK p : Leads(map, c, m - 1, p)
  BY <1>4
<1> DEFINE q == [i \in 1 .. m |-> IF i < m THEN p[i]
                                  ELSE IF i = 1 THEN c
                                  ELSE IF p[i - 1] \in Cluster THEN map[p[i - 1]] ELSE p[i - 1]]
<1>6. \A i \in 1 .. m : q[i] = IF i = 1 THEN c
                               ELSE IF q[i - 1] \in Cluster THEN map[q[i - 1]] ELSE q[i - 1]
  <2> SUFFICES ASSUME NEW i \in 1 .. m
               PROVE  q[i] = IF i = 1 THEN c
                             ELSE IF q[i - 1] \in Cluster THEN map[q[i - 1]] ELSE q[i - 1]
    OBVIOUS
  <2>1. CASE i = 1 /\ i = m
    BY <2>1
  <2>2. CASE i = 1 /\ i < m
    <3>1. i \in 1 .. m - 1
      BY <1>2, <2>2
    <3>2. q[i] = p[i] /\ p[i] = c
      BY <1>5, <2>2, <3>1 DEF Leads
    <3>3. QED BY <2>2, <3>2
  <2>3. CASE i # 1
    <3>1. i - 1 \in 1 .. m /\ i - 1 < m /\ q[i - 1] = p[i - 1]
      BY <1>2, <2>3
    <3>2. CASE i = m
      BY <2>3, <3>1, <3>2
    <3>3. CASE i < m
      <4>1. i \in 1 .. m - 1 /\ q[i] = p[i]
        BY <1>2, <3>3
      <4>2. p[i] = IF p[i - 1] \in Cluster THEN map[p[i - 1]] ELSE p[i - 1]
        BY <1>5, <2>3, <4>1 DEF Leads
      <4>3. QED BY <2>3, <3>1, <4>1, <4>2
    <3>4. QED BY <1>2, <3>2, <3>3
  <2>4. QED BY <1>2, <2>1, <2>2, <2>3
<1>7. q = [i \in 1 .. m |-> IF i = 1 THEN c
                            ELSE IF q[i - 1] \in Cluster THEN map[q[i - 1]] ELSE q[i - 1]]
  <2>1. q = [i \in 1 .. m |-> q[i]]
    OBVIOUS
  <2> HIDE DEF q
  <2>2. QED BY <1>6, <2>1
<1>8. Leads(map, c, m, q)
  BY <1>7 DEF Leads
<1>9. QED BY <1>2, <1>8

\* Along a path the blocks are those of the path.
LEMMA BlocksOfPath ==
    ASSUME NEW map, NEW c, NEW k \in Nat, NEW p, Path(map, c, k, p)
    PROVE  Blocks(map, c, k) = {p[i] : i \in 1 .. k}
<1>1. PICK q : Leads(map, c, k, q) /\ Blocks(map, c, k) = {q[i] : i \in 1 .. k} \cap Cluster
  BY LeadsOne, BlocksLead
<1> DEFINE Bad == {i \in 1 .. k : q[i] # p[i]}
<1>2. Bad = {}
  <2>1. SUFFICES ASSUME Bad # {} PROVE FALSE
    OBVIOUS
  <2>2. PICK i \in Bad : \A j \in Bad : i =< j
    <3>1. Bad \subseteq Nat
      OBVIOUS
    <3> HIDE DEF Bad
    <3>2. QED BY <2>1, <3>1, LeastElement
  <2>3. q[i] = IF i = 1 THEN c ELSE IF q[i - 1] \in Cluster THEN map[q[i - 1]] ELSE q[i - 1]
    BY <1>1, <2>2 DEF Leads
  <2>4. i # 1
    BY <2>2, <2>3 DEF Path
  <2>5. i - 1 \in 1 .. k /\ i - 1 \in 1 .. k - 1 /\ (i - 1) + 1 = i /\ i - 1 \notin Bad
    BY <2>2, <2>4
  <2>6. q[i - 1] = p[i - 1] /\ p[i - 1] \in Cluster /\ p[i] = map[p[i - 1]]
    BY <2>5 DEF Path
  <2>7. QED BY <2>2, <2>3, <2>4, <2>6
<1>3. \A i \in 1 .. k : q[i] = p[i] /\ p[i] \in Cluster
  BY <1>2 DEF Path
<1>4. QED BY <1>1, <1>3

LEMMA PathIsWhole ==
    ASSUME NEW map, Linear(map), NEW c, NEW k \in Nat, k # 0 => Start(map, c), NEW p, Path(map, c, k, p),
           \A i \in 1 .. k : map[p[i]] # Free
    PROVE  Whole(map, c, k)
<1>1. Blocks(map, c, k) = {p[i] : i \in 1 .. k}
  BY BlocksOfPath
<1>2. p \in Bijection(1 .. k, Blocks(map, c, k))
  <2>1. \A i, j \in 1 .. k : p[i] = p[j] => i = j
    BY PathInjective
  <2>2. p \in [1 .. k -> Blocks(map, c, k)]
    BY <1>1 DEF Path
  <2>3. \A b \in Blocks(map, c, k) : \E i \in 1 .. k : p[i] = b
    BY <1>1
  <2>4. QED BY <2>1, <2>2, <2>3, Fun_IsBij
<1>3. Cardinality(Blocks(map, c, k)) = k
  BY <1>2, FS_CountingElements DEF ExistsBijection
<1>4. QED BY <1>1, <1>3 DEF Whole

-----------------------------------------------------------------------------
(* Types                                                                     *)

Handle == [first : 0 .. NumClusters, at : 0 .. NumClusters, size : 0 .. MaxSize,
           pos : -1 .. MaxSize, full : BOOLEAN, dirty : BOOLEAN]
Writes == [op : {"piece", "next", "extend"}, name : Name, at : Cluster,
           left : 1 .. MaxSize, got : 0 .. NumClusters]
Frees == [op : {"free", "flush"}, name : Name, at : Cluster, then : {"idle", "unlink"}]
Makes == [op : {"dot", "dirent"}, name : Name, at : Cluster]
Unlinks == [op : {"unlink"}, name : Name, to : Name]
Syncs == [op : {"sync"}, name : Name]

LEMMA CallShape ==
    ASSUME TypeOK
    PROVE  /\ call.op = "idle" <=> call = Idle
           /\ call.op \in {"piece", "next", "extend"} => call \in Writes
           /\ call.op \in {"free", "flush"} => call \in Frees
           /\ call.op \in {"dot", "dirent"} => call \in Makes
           /\ call.op = "unlink" => call \in Unlinks
           /\ call.op = "sync" => call \in Syncs
           /\ call.op \in {"idle", "piece", "next", "extend", "free", "flush", "dot", "dirent",
                           "unlink", "sync"}
<1>1. Idle.op = "idle"
  BY DEF Idle
<1>2. call \in {Idle} \/ call \in Writes \/ call \in Frees \/ call \in Makes \/ call \in Unlinks \/ call \in Syncs
  BY DEF TypeOK, Call, Writes, Frees, Makes, Unlinks, Syncs
<1>3. QED BY <1>1, <1>2 DEF Writes, Frees, Makes, Unlinks, Syncs

LEMMA CallSets ==
    /\ Idle \in Call /\ Writes \subseteq Call /\ Frees \subseteq Call /\ Makes \subseteq Call
    /\ Unlinks \subseteq Call /\ Syncs \subseteq Call
  BY DEF Call, Writes, Frees, Makes, Unlinks, Syncs

LEMMA Sorts ==
    ASSUME TypeOK
    PROVE  /\ entry \in [Name -> Entry] /\ handle \in [Name -> Handle]
           /\ fat \in [Cluster -> Link] /\ durable \in [Cluster -> Link]
           /\ \A n \in Name : /\ entry[n].kind \in {"none", "file", "dir"}
                              /\ entry[n].first \in 0 .. NumClusters /\ entry[n].size \in 0 .. MaxSize
                              /\ handle[n].first \in 0 .. NumClusters /\ handle[n].size \in 0 .. MaxSize
                              /\ handle[n].pos \in -1 .. MaxSize /\ handle[n].dirty \in BOOLEAN
                              /\ handle[n].at \in 0 .. NumClusters /\ handle[n].full \in BOOLEAN
           /\ NumClusters \in Nat \ {0} /\ MaxSize \in Nat
           /\ 0 .. NumClusters = Cluster \cup {0}
           /\ NoFile \in Entry /\ Closed \in Handle
<1>1. NumClusters \in Nat \ {0} /\ MaxSize \in Nat /\ 0 .. NumClusters = Cluster \cup {0}
  BY VolumeAssumption DEF Cluster
<1>2. entry \in [Name -> Entry] /\ handle \in [Name -> Handle]
      /\ fat \in [Cluster -> Link] /\ durable \in [Cluster -> Link]
  BY DEF TypeOK, Handle
<1>3. \A n \in Name : entry[n] \in Entry /\ handle[n] \in Handle
  BY <1>2
<1>4. NoFile \in Entry /\ Closed \in Handle
  BY <1>1 DEF NoFile, Closed, Entry, Handle
<1>5. QED BY <1>1, <1>2, <1>3, <1>4 DEF Entry, Handle

\* What every step does to the two tables
LEMMA InvTables == ASSUME IInv PROVE Tables
  BY Sorts DEF IInv, Tables

LEMMA NextTables ==
    ASSUME IInv, [Next]_vars
    PROVE  durable' \in {durable, fat} /\ CacheOK' /\ cached' \in Sector
<1> USE InvTables
<1>0. TypeOK /\ CacheOK /\ cached \in Sector /\ NumClusters \in Cluster
  BY ClusterFacts DEF IInv, TypeOK
<1>1. CASE UNCHANGED <<fat, durable, cached>>
  BY <1>0, <1>1 DEF CacheOK
<1>2. ASSUME NEW n \in Name, NEW k \in 1 .. MaxSize, Write(n, k)
      PROVE  durable' \in {durable, fat} /\ CacheOK' /\ cached' \in Sector
  BY <1>1, <1>2, AllocateDoes, AllocateFailDoes DEF Write
<1>3. CASE WriteNext
  <2>1. call.at \in Cluster
    BY <1>0, <1>3, CallShape DEF WriteNext, Writes
  <2>2. QED BY <1>3, <2>1, GetDoes DEF WriteNext
<1>4. CASE WriteAllocate
  BY <1>4, AllocateDoes, AllocateFailDoes DEF WriteAllocate
<1>5. CASE WriteExtend
  <2>1. call.at \in Cluster
    BY <1>0, <1>5, CallShape DEF WriteExtend, Writes
  <2>2. QED BY <1>5, <2>1, SetDoes DEF WriteExtend
<1>6. CASE CloseSync
  BY <1>0, <1>6, FlushDoes DEF CloseSync
<1>7. CASE FreeOne
  <2>1. call.at \in Cluster
    BY <1>0, <1>7, CallShape DEF FreeOne, Frees
  <2>2. QED BY <1>7, <2>1, SetDoes DEF FreeOne
<1>8. CASE FreeEnd
  BY <1>0, <1>8, FlushDoes DEF FreeEnd
<1>9. ASSUME NEW n \in Name, Mkdir(n)
      PROVE  durable' \in {durable, fat} /\ CacheOK' /\ cached' \in Sector
  BY <1>9, AllocateDoes, AllocateFailDoes DEF Mkdir
<1>10. ASSUME NEW n \in Name, Create(n) \/ Open(n) \/ Close(n) \/ Delete(n)
       PROVE  UNCHANGED <<fat, durable, cached>>
  BY <1>10 DEF Create, Open, Close, Delete
<1>11. ASSUME NEW n \in Name, NEW m \in Name, Rename(n, m) PROVE UNCHANGED <<fat, durable, cached>>
  BY <1>11 DEF Rename
<1>12. CASE WritePiece \/ Unlink \/ MkdirWrite \/ MkdirEntry
  BY <1>1, <1>12 DEF WritePiece, Unlink, MkdirWrite, MkdirEntry
<1>13. CASE UNCHANGED vars
  BY <1>1, <1>13 DEF vars
<1>14. QED
  BY <1>1, <1>2, <1>3, <1>4, <1>5, <1>6, <1>7, <1>8, <1>9, <1>10, <1>11, <1>12, <1>13 DEF Next, Turn

LEMMA HeadSort ==
    ASSUME TypeOK, NEW n \in Name
    PROVE  Head(n) \in Cluster \cup {0}
  BY Sorts DEF Head

LEMMA HeadInUse ==
    ASSUME IInv, NEW n \in Name \ Dying
    PROVE  \A c \in Chain(fat, Head(n)) : c \in Cluster /\ fat[c] # Free
<1>1. Leading(fat) /\ (Head(n) \in Cluster => fat[Head(n)] # Free)
  BY ClusterFacts DEF IInv, TablesOK, HeadsOK
<1>2. QED BY <1>1, ChainInUse, ChainIsClosed

\* A call of fat32_write is at a cluster of the file.
LEMMA Writer ==
    ASSUME IInv, call.op \in {"piece", "next", "extend"}
    PROVE  /\ call \in Writes /\ call.name \in Name /\ call.at \in Cluster /\ call.left \in 1 .. MaxSize
           /\ call.got \in Cluster \cup {0} /\ call # Idle
           /\ WritingOK /\ IsOpen(call.name) /\ Dying = {} /\ Moving = {} /\ Syncing = {}
           /\ Head(call.name) = handle[call.name].first /\ Head(call.name) \in Cluster
           /\ call.at \in Chain(fat, Head(call.name)) /\ fat[call.at] # Free
<1>1. /\ call \in Writes /\ call.name \in Name /\ call.at \in Cluster /\ call.left \in 1 .. MaxSize
      /\ call.got \in Cluster \cup {0} /\ call # Idle
  BY CallShape, Sorts DEF IInv, Writes, Idle
<1>2. WritingOK /\ handle[call.name].pos \in -1 .. MaxSize /\ handle[call.name].pos # -1
  BY <1>1, Sorts DEF IInv, CallOK, WritingOK
<1>3. IsOpen(call.name) /\ Dying = {} /\ Moving = {} /\ Syncing = {}
  BY <1>2 DEF IsOpen, Dying, Moving, Syncing
<1>4. Head(call.name) = handle[call.name].first
  BY <1>3 DEF Head
<1>5. call.at \in Chain(fat, Head(call.name))
  BY <1>2, <1>4 DEF WritingOK
<1>7. Head(call.name) \in Cluster
  <2>1. Chain(fat, Head(call.name)) # {}
    BY <1>5
  <2>2. QED BY <2>1, ChainOfNone
<1>8. QED BY <1>1, <1>2, <1>3, <1>4, <1>5, <1>7, HeadInUse

LEMMA NextTypeOK == ASSUME IInv, [Next]_vars PROVE TypeOK'
<1>0. /\ TypeOK /\ CallOK /\ entry \in [Name -> Entry] /\ handle \in [Name -> Handle] /\ fat \in [Cluster -> Link]
      /\ call \in Call /\ orphans \subseteq Cluster /\ behind \subseteq Name
  BY Sorts DEF IInv, TypeOK
<1>1. durable' \in [Cluster -> Link] /\ cached' \in Sector
  BY NextTables, Sorts DEF IInv
<1>2. SUFFICES /\ entry' \in [Name -> Entry] /\ handle' \in [Name -> Handle] /\ fat' \in [Cluster -> Link]
               /\ call' \in Call /\ orphans' \subseteq Cluster /\ behind' \subseteq Name
  BY <1>1 DEF TypeOK, Handle
<1> DEFINE Good == /\ entry' \in [Name -> Entry] /\ handle' \in [Name -> Handle] /\ fat' \in [Cluster -> Link]
                   /\ call' \in Call /\ orphans' \subseteq Cluster /\ behind' \subseteq Name
<1> USE CallSets, Sorts, ClusterFacts
<1>3. ASSUME NEW n \in Name, Create(n) PROVE Good
  <2>1. [kind |-> "file", first |-> 0, size |-> 0] \in Entry
    BY <1>0 DEF Entry
  <2>2. QED BY <1>0, <1>3, <2>1 DEF Create
<1>4. ASSUME NEW n \in Name, Open(n) PROVE Good
  <2>1. [first |-> entry[n].first, at |-> entry[n].first, size |-> entry[n].size,
         pos |-> 0, full |-> TRUE, dirty |-> FALSE] \in Handle
    BY <1>0 DEF Handle
  <2>2. QED BY <1>0, <1>4, <2>1 DEF Open
<1>5. ASSUME NEW n \in Name, Close(n) PROVE Good
  <2>1. [op |-> "sync", name |-> n] \in Call
    BY DEF Syncs
  <2>2. entry' \in [Name -> Entry]
    <3> DEFINE e == [entry[n] EXCEPT !.first = handle[n].first, !.size = handle[n].size]
    <3>1. e \in Entry
      <4>1. /\ entry[n] \in Entry /\ handle[n].first \in 0 .. NumClusters
            /\ handle[n].size \in 0 .. MaxSize
        BY <1>0
      <4>2. QED BY <4>1 DEF Entry
    <3>2. entry' = entry \/ entry' = [entry EXCEPT ![n] = e]
      BY <1>0, <1>5 DEF Close
    <3> HIDE DEF e
    <3>3. QED BY <1>0, <3>1, <3>2
  <2>3. QED BY <1>0, <1>5, <2>1, <2>2 DEF Close
<1>6. ASSUME NEW n \in Name, Delete(n) PROVE Good
  <2>1. [op |-> "unlink", name |-> n, to |-> n] \in Call
    BY DEF Unlinks
  <2>2. ASSUME entry[n].first # 0
        PROVE  [op |-> "free", name |-> n, at |-> entry[n].first, then |-> "unlink"] \in Call
    <3>1. entry[n].first \in Cluster
      BY <1>0, <2>2
    <3>2. QED BY <3>1 DEF Frees
  <2>3. QED BY <1>0, <1>6, <2>1, <2>2 DEF Delete
<1>7. ASSUME NEW n \in Name, Mkdir(n) PROVE Good
  <2>1. ASSUME NEW c \in Cluster, Allocate(c), call' = [op |-> "dot", name |-> n, at |-> c] PROVE Good
    <3>1. [op |-> "dot", name |-> n, at |-> c] \in Call
      BY DEF Makes
    <3>2. fat' \in [Cluster -> Link]
      BY <1>0, <2>1 DEF Allocate
    <3>3. QED BY <1>0, <1>7, <2>1, <3>1, <3>2 DEF Mkdir
  <2>2. CASE AllocateFail /\ UNCHANGED call
    BY <1>0, <1>7, <2>2 DEF Mkdir, AllocateFail
  <2>3. QED BY <1>7, <2>1, <2>2 DEF Mkdir
<1>8. ASSUME NEW n \in Name, NEW k \in 1 .. MaxSize, Write(n, k) PROVE Good
  <2>0. behind' \subseteq Name /\ IsOpen(n) /\ AtOK(n)
    BY <1>0, <1>8 DEF Write, IInv, HandlesOK
  <2>1. \A c \in Cluster : [op |-> "piece", name |-> n, at |-> c, left |-> k, got |-> 0] \in Call
    BY <1>0 DEF Writes
  <2>2. CASE handle[n].first # 0 /\ Writing(n, k, handle[n].at) /\ UNCHANGED <<handle, fat>>
    <3>1. handle[n].at \in Cluster
      BY <2>0, <2>2, ChainIsClosed DEF AtOK
    <3>2. QED BY <1>0, <1>8, <2>0, <2>1, <2>2, <3>1 DEF Write, Writing
  <2>3. ASSUME NEW c \in Cluster, Allocate(c), Writing(n, k, c),
               handle' = [handle EXCEPT ![n].first = c, ![n].at = c, ![n].dirty = TRUE]
        PROVE  Good
    <3>1. fat' \in [Cluster -> Link]
      BY <1>0, <2>3 DEF Allocate
    <3>2. handle' \in [Name -> Handle]
      <4> DEFINE r == [handle[n] EXCEPT !.first = c, !.at = c, !.dirty = TRUE]
      <4>1. r \in Handle
        <5>1. handle[n] \in Handle /\ c \in 0 .. NumClusters
          BY <1>0
        <5>2. QED BY <5>1 DEF Handle
      <4>2. handle' = [handle EXCEPT ![n] = r]
        BY <1>0, <2>3
      <4> HIDE DEF r
      <4>3. QED BY <1>0, <4>1, <4>2
    <3>3. QED BY <1>0, <1>8, <2>0, <2>1, <2>3, <3>1, <3>2 DEF Write, Writing
  <2>4. CASE AllocateFail /\ UNCHANGED <<handle, call>>
    BY <1>0, <1>8, <2>0, <2>4 DEF Write, AllocateFail
  <2>5. QED BY <1>8, <2>2, <2>3, <2>4 DEF Write
<1>9. CASE WritePiece
  <2>1. /\ call \in Writes /\ call.name \in Name /\ call.at \in Cluster /\ call.left \in 1 .. MaxSize
        /\ call.got \in 0 .. NumClusters
    BY <1>0, <1>9, CallShape DEF WritePiece, Writes
  <2>2. handle[call.name].pos \in 0 .. MaxSize /\ handle[call.name].pos + 1 \in 0 .. MaxSize
    BY <1>0, <1>9, <2>1 DEF WritePiece, CallOK, WritingOK
  <2>3. handle' \in [Name -> Handle]
    <3> DEFINE h == handle[call.name]
               pos == IF h.full THEN h.pos + 1 ELSE h.pos
               grown == pos > h.size
               New(full) == [h EXCEPT !.pos = pos, !.full = full, !.at = call.at,
                                      !.size = IF grown THEN pos ELSE h.size,
                                      !.dirty = h.dirty \/ grown]
    <3>1. PICK full \in BOOLEAN : handle' = [handle EXCEPT ![call.name] = New(full)]
      BY <1>9 DEF WritePiece
    <3>2. h \in Handle /\ pos \in 0 .. MaxSize
      BY <1>0, <2>1, <2>2
    <3>3. New(full) \in Handle
      <4> DEFINE size == IF grown THEN pos ELSE h.size
                 dirty == h.dirty \/ grown
      <4>0. h.size \in 0 .. MaxSize /\ h.dirty \in BOOLEAN /\ MaxSize \in Nat
        BY <1>0, <2>1
      <4>1. size \in 0 .. MaxSize /\ pos \in -1 .. MaxSize /\ call.at \in 0 .. NumClusters
        <5> HIDE DEF h, pos
        <5>1. QED BY <1>0, <2>1, <3>2, <4>0
      <4>2. PICK d \in BOOLEAN : d = dirty
        BY <3>2
      <4>3. New(full) = [h EXCEPT !.pos = pos, !.full = full, !.at = call.at, !.size = size, !.dirty = d]
        BY <4>2
      <4> HIDE DEF New, size, dirty, grown, pos, h
      <4>4. QED BY <3>2, <4>1, <4>2, <4>3 DEF Handle
    <3> HIDE DEF New
    <3>4. QED BY <1>0, <2>1, <3>1, <3>3
  <2>4. call' \in Call
    <3>1. CASE call.left = 1
      BY <1>9, <3>1 DEF WritePiece
    <3>2. CASE call.left # 1
      <4>1. call' = [call EXCEPT !.op = "next", !.left = call.left - 1]
        BY <1>9, <3>2 DEF WritePiece
      <4>2. call.left - 1 \in 1 .. MaxSize
        BY <1>0, <2>1, <3>2
      <4>3. call' \in Writes
        BY <2>1, <4>1, <4>2 DEF Writes
      <4>4. QED BY <4>3
    <3>3. QED BY <3>1, <3>2
  <2>5. QED BY <1>0, <1>9, <2>3, <2>4 DEF WritePiece
<1>10. CASE WriteNext
  <2>1. /\ call \in Writes /\ call.at \in Cluster /\ fat[call.at] # Free /\ fat[call.at] \in Link
    BY <1>0, <1>10, Writer DEF WriteNext
  <2>2. [call EXCEPT !.op = "extend"] \in Writes
    BY <2>1 DEF Writes
  <2>3. ASSUME fat[call.at] # Eoc PROVE [call EXCEPT !.op = "piece", !.at = fat[call.at]] \in Writes
    <3>1. fat[call.at] \in Cluster
      BY <2>1, <2>3
    <3>2. QED BY <2>1, <3>1 DEF Writes
  <2>4. call' \in Writes
    BY <1>10, <2>2, <2>3 DEF WriteNext
  <2>5. QED BY <1>0, <1>10, <2>4 DEF WriteNext, GetEntry
<1>11. CASE WriteAllocate
  <2>1. call \in Writes
    BY <1>0, <1>11, CallShape DEF WriteAllocate
  <2>2. ASSUME NEW c \in Cluster, Allocate(c), call' = [call EXCEPT !.got = c] PROVE Good
    <3>1. call' \in Writes
      BY <2>1, <2>2 DEF Writes
    <3>2. fat' \in [Cluster -> Link]
      BY <1>0, <2>2 DEF Allocate
    <3>3. QED BY <1>0, <1>11, <3>1, <3>2 DEF WriteAllocate
  <2>3. CASE AllocateFail /\ call' = Idle
    BY <1>0, <1>11, <2>3 DEF WriteAllocate, AllocateFail
  <2>4. QED BY <1>11, <2>2, <2>3 DEF WriteAllocate
<1>12. CASE WriteExtend
  <2>1. call \in Writes /\ call.got \in Cluster
    BY <1>0, <1>12, Writer DEF WriteExtend
  <2>2. call' \in Writes
    <3>1. call' = [call EXCEPT !.op = "piece", !.at = call.got, !.got = 0]
      BY <1>12 DEF WriteExtend
    <3>2. 0 \in 0 .. NumClusters
      BY VolumeAssumption
    <3>3. QED BY <2>1, <3>1, <3>2 DEF Writes
  <2>3. fat' \in [Cluster -> Link]
    BY <1>0, <1>12, <2>1 DEF WriteExtend, SetEntry
  <2>4. QED BY <1>0, <1>12, <2>2, <2>3 DEF WriteExtend
<1>13. CASE CloseSync
  <2>1. handle' \in [Name -> Handle]
    BY <1>0, <1>13 DEF CloseSync
  <2>2. QED BY <1>0, <1>13, <2>1 DEF CloseSync, Flush
<1>14. CASE FreeOne
  <2>1. call \in Frees
    BY <1>0, <1>14, CallShape DEF FreeOne
  <2>2. call' \in Frees
    BY <1>14, <2>1 DEF FreeOne, Frees
  <2>3. fat' \in [Cluster -> Link]
    BY <1>0, <1>14 DEF FreeOne, SetEntry
  <2>4. QED BY <1>0, <1>14, <2>2, <2>3 DEF FreeOne
<1>15. CASE FreeEnd
  <2>1. [op |-> "unlink", name |-> call.name, to |-> call.name] \in Call
    BY <1>0, <1>15, CallShape DEF FreeEnd, Frees, Unlinks
  <2>2. QED BY <1>0, <1>15, <2>1 DEF FreeEnd, Flush
<1>16. CASE Unlink
  <2>1. entry' \in [Name -> Entry] /\ behind' \subseteq Name
    BY <1>0, <1>16 DEF Unlink
  <2>2. QED BY <1>0, <1>16, <2>1 DEF Unlink
<1>17. ASSUME NEW n \in Name, NEW m \in Name, Rename(n, m) PROVE Good
  <2>1. [op |-> "unlink", name |-> n, to |-> m] \in Call
    BY DEF Unlinks
  <2>2. behind' \subseteq Name
    BY <1>0, <1>17 DEF Rename
  <2>3. QED BY <1>0, <1>17, <2>1, <2>2 DEF Rename
<1>18. CASE MkdirWrite
  <2>1. call \in Makes
    BY <1>0, <1>18, CallShape DEF MkdirWrite
  <2>2. /\ [call EXCEPT !.op = "dirent"] \in Call
        /\ [op |-> "free", name |-> call.name, at |-> call.at, then |-> "idle"] \in Call
    BY <2>1 DEF Makes, Frees
  <2>3. QED BY <1>0, <1>18, <2>2 DEF MkdirWrite
<1>19. CASE MkdirEntry
  <2>1. call.at \in Cluster
    BY <1>0, <1>19, CallShape DEF MkdirEntry, Makes
  <2>2. [kind |-> "dir", first |-> call.at, size |-> 0] \in Entry
    BY <1>0, <2>1 DEF Entry
  <2>3. call' \in Call /\ handle' = handle /\ fat' = fat /\ behind' = behind
    BY <1>19 DEF MkdirEntry
  <2>4. entry' \in [Name -> Entry]
    BY <1>0, <1>19, <2>2 DEF MkdirEntry
  <2>5. orphans' \subseteq Cluster
    BY <1>0, <1>19, <2>1 DEF MkdirEntry
  <2>6. QED BY <1>0, <2>3, <2>4, <2>5
<1>20. CASE UNCHANGED vars
  BY <1>0, <1>20 DEF vars
<1>21. QED
  BY <1>3, <1>4, <1>5, <1>6, <1>7, <1>8, <1>9, <1>10, <1>11, <1>12, <1>13, <1>14, <1>15, <1>16,
     <1>17, <1>18, <1>19, <1>20 DEF Next, Turn

-----------------------------------------------------------------------------
(* The tables                                                                *)

Marks(c) == fat[c] = Free /\ fat' = [fat EXCEPT ![c] = Eoc] /\ call.op \in {"idle", "extend"}
Links == call.op = "extend" /\ call.got \in Cluster /\ fat' = [fat EXCEPT ![call.at] = call.got]
Frees1 == /\ call.op = "free" /\ fat' = [fat EXCEPT ![call.at] = Free]
          /\ call'.op \in {"free", "flush"}

LEMMA TableStep ==
    ASSUME IInv, [Next]_vars
    PROVE  /\ fat' = fat \/ (\E c \in Cluster : Marks(c)) \/ Links \/ Frees1
           /\ call.op \in {"free", "flush"} => durable' = fat \/ call'.op \in {"free", "flush"}
<1> USE InvTables
<1> DEFINE Goal == /\ fat' = fat \/ (\E c \in Cluster : Marks(c)) \/ Links \/ Frees1
                   /\ call.op \in {"free", "flush"} => durable' = fat \/ call'.op \in {"free", "flush"}
<1>0. Idle.op = "idle" /\ TypeOK
  BY DEF Idle, IInv
<1>1. ASSUME NEW n \in Name, Create(n) \/ Open(n) \/ Close(n) \/ Delete(n) PROVE Goal
  BY <1>0, <1>1 DEF Create, Open, Close, Delete
<1>2. ASSUME NEW n \in Name, Mkdir(n) PROVE Goal
  BY <1>0, <1>2, AllocateDoes DEF Mkdir, Marks, AllocateFail
<1>3. ASSUME NEW n \in Name, NEW k \in 1 .. MaxSize, Write(n, k) PROVE Goal
  BY <1>0, <1>3, AllocateDoes DEF Write, Marks, AllocateFail
<1>4. ASSUME NEW n \in Name, NEW m \in Name, Rename(n, m) PROVE Goal
  BY <1>0, <1>4 DEF Rename
<1>5. CASE WritePiece \/ WriteNext \/ Unlink \/ MkdirWrite \/ MkdirEntry
  BY <1>5 DEF WritePiece, WriteNext, GetEntry, Unlink, MkdirWrite, MkdirEntry
<1>6. CASE WriteAllocate
  BY <1>6, AllocateDoes DEF WriteAllocate, Marks, AllocateFail
<1>7. CASE WriteExtend
  <2>1. call.got \in Cluster
    BY <1>7, Writer DEF WriteExtend
  <2>2. QED BY <1>7, <2>1 DEF WriteExtend, SetEntry, Links
<1>8. CASE CloseSync
  BY <1>8 DEF CloseSync, Flush
<1>9. CASE FreeOne
  <2>1. call \in Frees
    BY <1>0, <1>9, CallShape DEF FreeOne
  <2>2. call'.op \in {"free", "flush"}
    BY <1>9, <2>1 DEF FreeOne, Frees
  <2>3. QED BY <1>9, <2>2 DEF FreeOne, SetEntry, Frees1
<1>10. CASE FreeEnd
  BY <1>10, FlushDoes DEF FreeEnd
<1>11. CASE UNCHANGED vars
  BY <1>11 DEF vars
<1>12. QED
  BY <1>1, <1>2, <1>3, <1>4, <1>5, <1>6, <1>7, <1>8, <1>9, <1>10, <1>11 DEF Next, Turn

\* What is being linked and what is being freed
LEMMA Linked ==
    ASSUME IInv, Links
    PROVE  /\ call.at \in Cluster /\ call.got \in Cluster /\ call.got # call.at
           /\ fat[call.at] = Eoc /\ fat[call.got] = Eoc /\ Start(fat, call.got)
           /\ Loose(call.got) /\ call.got \notin orphans /\ Dying = {}
<1>1. call.got # 0
  BY ClusterFacts DEF Links
<1>2. QED BY <1>1, Writer DEF Links, WritingOK, Loose

LEMMA Freed ==
    ASSUME IInv, call.op = "free"
    PROVE  /\ call.at \in Cluster /\ fat[call.at] # Free /\ Start(fat, call.at)
           /\ Loose(call.at) /\ call.at \notin orphans /\ call \in Frees /\ call.name \in Name
           /\ ~IsOpen(call.name)
<1>1. call \in Frees
  BY CallShape DEF IInv
<1>2. QED BY <1>1 DEF IInv, CallOK, Loose, Frees

LEMMA UnusedIsStart ==
    ASSUME IInv, NEW c \in Cluster, fat[c] = Free
    PROVE  Start(fat, c) /\ c \notin orphans /\ \A n \in Name \ Dying : Head(n) # c
<1>1. Start(fat, c)
  BY DEF IInv, TablesOK, Leading, Start
<1>2. c \notin orphans
  BY DEF IInv, OrphansOK, Loose
<1>3. QED BY <1>1, <1>2, ClusterFacts DEF IInv, HeadsOK

LEMMA NextTablesOK == ASSUME IInv, [Next]_vars PROVE TablesOK'
<1>0. /\ fat \in [Cluster -> Link] /\ Linear(fat) /\ Leading(fat)
      /\ Linear(durable) /\ Leading(durable) /\ DiskBehind /\ durable' \in {durable, fat}
  BY NextTables DEF IInv, TypeOK, TablesOK
<1>1. Linear(durable') /\ Leading(durable')
  BY <1>0
<1>2. CASE fat' = fat
  <2>1. DiskBehind'
    BY <1>0, <1>2, TableStep DEF DiskBehind
  <2>2. QED BY <1>0, <1>1, <1>2, <2>1 DEF TablesOK
<1>3. ASSUME NEW c \in Cluster, Marks(c) PROVE TablesOK'
  <2>1. \A d \in Cluster : fat'[d] = IF d = c THEN Eoc ELSE fat[d]
    BY <1>0, <1>3 DEF Marks
  <2>2. Linear(fat') /\ Leading(fat')
    BY <1>0, <2>1, ClusterFacts DEF Linear, Leading
  <2>3. DiskBehind'
    BY <1>0, <1>3, <2>1, ClusterFacts DEF DiskBehind, Marks
  <2>4. QED BY <1>1, <2>2, <2>3 DEF TablesOK
<1>4. CASE Links
  <2>1. \A d \in Cluster : fat'[d] = IF d = call.at THEN call.got ELSE fat[d]
    BY <1>0, <1>4 DEF Links
  <2>2. Linear(fat') /\ Leading(fat')
    BY <1>0, <1>4, <2>1, Linked, ClusterFacts DEF Linear, Leading, Start
  <2>3. DiskBehind'
    BY <1>0, <1>4, <2>1, Linked, ClusterFacts DEF DiskBehind, Links
  <2>4. QED BY <1>1, <2>2, <2>3 DEF TablesOK
<1>5. CASE Frees1
  <2>1. \A d \in Cluster : fat'[d] = IF d = call.at THEN Free ELSE fat[d]
    BY <1>0, <1>5 DEF Frees1
  <2>2. Linear(fat') /\ Leading(fat')
    BY <1>0, <1>5, <2>1, Freed, ClusterFacts DEF Linear, Leading, Start, Frees1
  <2>3. DiskBehind'
    BY <1>0, <1>5, <2>1, TableStep, ClusterFacts DEF DiskBehind, Frees1
  <2>4. QED BY <1>1, <2>2, <2>3 DEF TablesOK
<1>6. QED BY <1>2, <1>3, <1>4, <1>5, TableStep

-----------------------------------------------------------------------------
(* What a step leaves of beginnings, chains and paths                        *)

LEMMA NextStart ==
    ASSUME IInv, [Next]_vars, NEW c \in Cluster, Start(fat, c), ~ (Links /\ c = call.got)
    PROVE  Start(fat', c)
<1>0. fat \in [Cluster -> Link]
  BY DEF IInv, TypeOK
<1>1. ASSUME NEW d \in Cluster, Marks(d) PROVE Start(fat', c)
  BY <1>0, <1>1, ClusterFacts DEF Marks, Start
<1>2. CASE Links
  BY <1>0, <1>2 DEF Links, Start
<1>3. CASE Frees1
  BY <1>0, <1>3, ClusterFacts DEF Frees1, Start
<1>4. QED BY <1>1, <1>2, <1>3, TableStep

LEMMA NextUsed ==
    ASSUME IInv, [Next]_vars, NEW c \in Cluster, fat[c] # Free, ~ (Frees1 /\ c = call.at)
    PROVE  fat'[c] # Free
<1>0. fat \in [Cluster -> Link]
  BY DEF IInv, TypeOK
<1>1. ASSUME NEW d \in Cluster, Marks(d) PROVE fat'[c] # Free
  BY <1>0, <1>1, ClusterFacts DEF Marks
<1>2. CASE Links
  BY <1>0, <1>2, ClusterFacts DEF Links
<1>3. CASE Frees1
  BY <1>0, <1>3 DEF Frees1
<1>4. QED BY <1>1, <1>2, <1>3, TableStep

LEMMA NextLoose ==
    ASSUME IInv, [Next]_vars, NEW c \in Cluster, Loose(c),
           ~ (Links /\ c = call.got), ~ (Frees1 /\ c = call.at),
           \A n \in Name \ Dying' : Head(n)' # c
    PROVE  Loose(c)'
<1>1. Start(fat', c) /\ fat'[c] # Free
  BY NextStart, NextUsed DEF Loose
<1>2. QED BY <1>1 DEF Loose

LEMMA EntryHead ==
    ASSUME IInv, NEW n \in Name
    PROVE  /\ entry[n].first # 0 => entry[n].first = Head(n) /\ entry[n].first \in Cluster
           /\ IsOpen(n) => /\ Head(n) = handle[n].first /\ n \notin Dying /\ n \notin Moving
                           /\ entry[n].kind = "file"
           /\ ~IsOpen(n) => Head(n) = entry[n].first /\ handle[n] = Closed
           /\ ~Exists(n) => /\ ~IsOpen(n) /\ entry[n] = NoFile /\ entry[n].first = 0
                            /\ entry[n].size = 0 /\ Head(n) = 0
<1>1. NameOK(n) /\ CallOK
  BY DEF IInv, NamesOK
<1>2. IsOpen(n) => n \notin Dying /\ n \notin Moving
  BY <1>1 DEF CallOK, Dying, Moving
<1>3. entry[n].first # 0 => entry[n].first \in Cluster
  BY Sorts DEF IInv
<1>4. ~Exists(n) => ~IsOpen(n) /\ entry[n] = NoFile /\ entry[n].first = 0 /\ entry[n].size = 0
  BY <1>1 DEF NameOK, Exists, NoFile
<1>5. QED BY <1>1, <1>2, <1>3, <1>4 DEF NameOK, Head

LEMMA NextEntryStart ==
    ASSUME IInv, [Next]_vars, NEW n \in Name, entry[n].first # 0
    PROVE  Start(durable', entry[n].first)
<1>1. Start(fat, entry[n].first) /\ Start(durable, entry[n].first)
  BY EntryHead DEF IInv, HeadsOK
<1>2. QED BY <1>1, NextTables

LEMMA ChainKept ==
    ASSUME NEW map \in [Cluster -> Link], NEW d \in Cluster, NEW link, NEW c,
           map[d] \notin Cluster \/ d \notin Chain(map, c)
    PROVE  Chain(map, c) \subseteq Chain([map EXCEPT ![d] = link], c)
<1> DEFINE new == [map EXCEPT ![d] = link]
           S == Chain(map, c) \cap Chain(new, c)
<1>1. S \in SUBSET Cluster
  BY ChainIsClosed
<1>2. c \in Cluster => c \in S
  BY ChainHasHead
<1>3. LinkClosed(map, S)
  <2> SUFFICES ASSUME NEW e \in S, map[e] \in Cluster PROVE map[e] \in S
    BY DEF LinkClosed
  <2>1. e \in Cluster /\ e # d
    BY <1>1
  <2>2. new[e] = map[e]
    BY <2>1
  <2>3. LinkClosed(map, Chain(map, c)) /\ LinkClosed(new, Chain(new, c))
    BY ChainIsClosed
  <2> HIDE DEF new
  <2>4. QED BY <2>2, <2>3 DEF LinkClosed
<1> HIDE DEF S
<1>4. Chain(map, c) \subseteq S
  BY <1>1, <1>2, <1>3, ChainIsLeast
<1>5. QED BY <1>4 DEF S

LEMMA NextChain ==
    ASSUME IInv, [Next]_vars, NEW n \in Name \ Dying
    PROVE  Chain(fat, Head(n)) \subseteq Chain(fat', Head(n))
<1>0. fat \in [Cluster -> Link]
  BY DEF IInv, TypeOK
<1>1. ASSUME NEW d \in Cluster, Marks(d) PROVE Chain(fat, Head(n)) \subseteq Chain(fat', Head(n))
  BY <1>0, <1>1, ChainKept, ClusterFacts DEF Marks
<1>2. CASE Links
  BY <1>0, <1>2, Linked, ChainKept, ClusterFacts DEF Links
<1>3. CASE Frees1
  <2>1. call.at \in Cluster /\ call.at \notin Chain(fat, Head(n))
    BY <1>3, Freed, StartApart DEF Frees1, Loose
  <2>2. QED BY <1>0, <1>3, <2>1, ChainKept DEF Frees1
<1>4. QED BY <1>1, <1>2, <1>3, TableStep

LEMMA NextPath ==
    ASSUME IInv, [Next]_vars, NEW n \in Name \ Dying, NEW k \in Nat, NEW p, Path(fat, Head(n), k, p)
    PROVE  Path(fat', Head(n), k, p) /\ \A i \in 1 .. k : p[i] \in Cluster /\ fat[p[i]] # Free
<1>0. fat \in [Cluster -> Link]
  BY DEF IInv, TypeOK
<1>1. \A i \in 1 .. k : p[i] \in Chain(fat, Head(n)) /\ p[i] \in Cluster /\ fat[p[i]] # Free
  <2>1. \A i \in 1 .. k : p[i] \in Chain(fat, Head(n))
    BY PathInChain
  <2>2. QED BY <2>1, HeadInUse
<1>2. ASSUME NEW d \in Cluster, Marks(d) PROVE Path(fat', Head(n), k, p)
  BY <1>0, <1>1, <1>2, PathKept DEF Marks
<1>3. CASE Links
  <2>1. call.at \in Cluster /\ fat[call.at] \notin Cluster
    BY <1>3, Linked, ClusterFacts
  <2>2. QED BY <1>0, <1>1, <1>3, <2>1, PathKept DEF Links
<1>4. CASE Frees1
  <2>1. call.at \in Cluster /\ call.at \notin Chain(fat, Head(n))
    BY <1>4, Freed, StartApart DEF Frees1, Loose
  <2>2. QED BY <1>0, <1>1, <1>4, <2>1, PathKept DEF Frees1
<1>5. QED BY <1>1, <1>2, <1>3, <1>4, TableStep

LEMMA NextOnBoth ==
    ASSUME IInv, [Next]_vars, NEW n \in Name \ (Dying \cup Syncing \cup behind)
    PROVE  \E p : /\ Path(fat', entry[n].first, entry[n].size, p)
                  /\ Path(durable', entry[n].first, entry[n].size, p)
                  /\ \A i \in DOMAIN p : durable'[p[i]] # Free
<1> DEFINE k == entry[n].size
<1>0. k \in Nat
  BY Sorts DEF IInv
<1>1. PICK p : Path(fat, entry[n].first, k, p) /\ Path(durable, entry[n].first, k, p) /\ Saved(p)
  BY DEF IInv, PathsOK, OnBoth
<1>2. DOMAIN p = 1 .. k
  BY <1>1 DEF Path
<1>3. CASE k = 0
  <2>1. (\A i \in 1 .. k : FALSE) /\ (\A i \in 1 .. k - 1 : FALSE)
    BY <1>3
  <2>2. p \in [1 .. k -> Cluster]
    BY <1>1 DEF Path
  <2>3. Path(fat', entry[n].first, k, p) /\ Path(durable', entry[n].first, k, p)
    BY <1>3, <2>1, <2>2 DEF Path
  <2>4. QED BY <1>2, <2>1, <2>3
<1>4. CASE k # 0
  <2>1. 1 \in 1 .. k
    BY <1>0, <1>4
  <2>2. entry[n].first \in Cluster
    BY <1>1, <1>4, <2>1 DEF Path
  <2>3. entry[n].first = Head(n)
    BY <2>2, EntryHead, ClusterFacts
  <2>4. Path(fat', entry[n].first, k, p) /\ \A i \in 1 .. k : fat[p[i]] # Free
    BY <1>0, <1>1, <2>3, NextPath
  <2>5. Path(durable', entry[n].first, k, p) /\ \A i \in 1 .. k : durable'[p[i]] # Free
    BY <1>1, <1>2, <2>4, NextTables DEF Saved
  <2>6. QED BY <1>2, <2>4, <2>5
<1>5. QED BY <1>3, <1>4

LEMMA NextHasPath ==
    ASSUME IInv, [Next]_vars, NEW n \in Name \ behind, IsOpen(n)
    PROVE  \E p : Path(fat', handle[n].first, handle[n].size, p)
<1>0. handle[n].size \in Nat /\ n \in Name \ Dying /\ Head(n) = handle[n].first
  BY Sorts, EntryHead DEF IInv
<1>1. PICK p : Path(fat, Head(n), handle[n].size, p)
  BY <1>0 DEF IInv, PathsOK, HasPath
<1>2. Path(fat', Head(n), handle[n].size, p)
  BY <1>0, <1>1, NextPath
<1>3. QED BY <1>0, <1>2

LEMMA NextAt ==
    ASSUME IInv, [Next]_vars, NEW n \in Name, IsOpen(n), handle'[n] = handle[n],
           n \in behind => n \in behind'
    PROVE  AtOK(n)'
<1>0. n \in Name \ Dying /\ Head(n) = handle[n].first /\ AtOK(n)
  BY EntryHead DEF IInv, HandlesOK
<1>1. ASSUME handle[n].at \in Chain(fat, handle[n].first)
      PROVE  handle[n].at \in Chain(fat', handle[n].first)
  BY <1>0, <1>1, NextChain
<1>2. ASSUME AtPath(n) PROVE AtPath(n)'
  <2> DEFINE k == IF handle[n].pos = 0 THEN 1 ELSE handle[n].pos
  <2>1. k \in Nat
    BY Sorts DEF IInv, IsOpen
  <2>2. PICK p : Path(fat, Head(n), k, p) /\ p[k] = handle[n].at
    BY <1>0, <1>2 DEF AtPath
  <2>3. Path(fat', Head(n), k, p)
    BY <1>0, <2>1, <2>2, NextPath
  <2>4. QED BY <1>0, <2>2, <2>3 DEF AtPath
<1>3. QED BY <1>0, <1>1, <1>2 DEF AtOK

LEMMA KeptHandles ==
    ASSUME IInv, [Next]_vars,
           \A n \in Name : IsOpen(n)' =>
               \/ IsOpen(n) /\ handle'[n] = handle[n] /\ (n \in behind => n \in behind')
               \/ AtOK(n)'
    PROVE  HandlesOK'
<1>1. SUFFICES ASSUME NEW n \in Name, IsOpen(n)' PROVE AtOK(n)'
  BY DEF HandlesOK
<1>2. QED BY <1>1, NextAt

LEMMA KeptSaved ==
    ASSUME IInv, [Next]_vars,
           \A n \in Name \ (Dying' \cup Syncing') :
               \/ /\ n \notin Dying \cup Syncing
                  /\ entry'[n].first = entry[n].first /\ entry'[n].kind = entry[n].kind
               \/ HeadSaved(n)'
    PROVE  FilesSaved'
<1>1. ASSUME NEW n \in Name \ (Dying \cup Syncing), HeadSaved(n), entry[n].kind = "file",
             entry[n].first # 0
      PROVE  durable'[entry[n].first] # Free
  <2>1. Head(n) = entry[n].first /\ fat[entry[n].first] # Free /\ durable[entry[n].first] # Free
    BY <1>1, EntryHead DEF IInv, HeadsOK, HeadSaved
  <2>2. QED BY <2>1, NextTables
<1>2. SUFFICES ASSUME NEW n \in Name \ (Dying' \cup Syncing') PROVE HeadSaved(n)'
  BY DEF FilesSaved
<1>3. QED BY <1>1 DEF IInv, FilesSaved, HeadSaved

-----------------------------------------------------------------------------
(* Steps that leave the heads of the chains alone                            *)

Quiet == \A n \in Name : Head(n)' = Head(n)

LEMMA QuietHeads ==
    ASSUME IInv, [Next]_vars, Quiet, Dying \subseteq Dying', Moving \subseteq Moving',
           \A n \in Name : \/ entry'[n].first \in {0, entry[n].first}
                           \/ Start(durable', entry'[n].first)
    PROVE  HeadsOK'
<1>0. HeadsOK
  BY DEF IInv
<1>1. ASSUME NEW n \in Name, Head(n)' # 0 PROVE Start(fat', Head(n)')
  <2>1. Head(n)' = Head(n) /\ Head(n) \in Cluster /\ Start(fat, Head(n))
    BY <1>0, <1>1, HeadSort DEF Quiet, HeadsOK, IInv
  <2>2. ~ (Links /\ Head(n) = call.got)
    BY Linked DEF Loose
  <2>3. QED BY <2>1, <2>2, NextStart
<1>2. ASSUME NEW n \in Name \ Dying', Head(n)' # 0 PROVE fat'[Head(n)'] # Free
  <2>1. Head(n)' = Head(n) /\ Head(n) \in Cluster /\ n \notin Dying /\ fat[Head(n)] # Free
    BY <1>0, <1>2, HeadSort DEF Quiet, HeadsOK, IInv
  <2>2. ~ (Frees1 /\ Head(n) = call.at)
    BY <2>1, Freed DEF Loose, Frees1
  <2>3. QED BY <2>1, <2>2, NextUsed
<1>3. ASSUME NEW n \in Name, NEW m \in Name, n # m, Head(n)' = Head(m)', Head(n)' # 0
      PROVE  {n, m} \subseteq Moving'
  BY <1>0, <1>3 DEF Quiet, HeadsOK
<1>4. ASSUME NEW n \in Name, entry'[n].first # 0 PROVE Start(durable', entry'[n].first)
  BY <1>4, NextEntryStart
<1>5. QED BY <1>1, <1>2, <1>3, <1>4 DEF HeadsOK

SpareOrphans ==
    \A n \in Name \ Dying' : \/ Head(n)' = 0
                             \/ Head(n)' \notin orphans
                             \/ n \notin Dying /\ Head(n)' = Head(n)

LEMMA KeptOrphans ==
    ASSUME IInv, [Next]_vars, orphans' = orphans, SpareOrphans
    PROVE  OrphansOK'
<1>1. SUFFICES ASSUME NEW c \in orphans PROVE Loose(c)'
  BY DEF OrphansOK
<1>2. c \in Cluster /\ Loose(c)
  BY DEF IInv, TypeOK, OrphansOK
<1>3. ~ (Links /\ c = call.got) /\ ~ (Frees1 /\ c = call.at)
  BY Linked, Freed DEF Frees1
<1>4. \A n \in Name \ Dying' : Head(n)' # c
  BY <1>2, ClusterFacts DEF Loose, SpareOrphans
<1>5. QED BY <1>2, <1>3, <1>4, NextLoose

LEMMA QuietOrphans ==
    ASSUME IInv, [Next]_vars, orphans' = orphans, Dying \subseteq Dying',
           \A n \in Name : Head(n)' \in {0, Head(n)} \/ Head(n)' \notin orphans
    PROVE  OrphansOK'
<1>1. SpareOrphans
  BY DEF SpareOrphans
<1>2. QED BY <1>1, KeptOrphans

LEMMA KeptPaths ==
    ASSUME IInv, [Next]_vars,
           \A n \in Name \ behind' : IsOpen(n)' =>
               \/ /\ n \notin behind /\ IsOpen(n)
                  /\ handle'[n].first = handle[n].first /\ handle'[n].size = handle[n].size
               \/ HasPath(n)',
           \A n \in Name \ (Dying' \cup Syncing' \cup behind') :
               \/ /\ n \notin Dying \cup Syncing \cup behind
                  /\ entry'[n].first = entry[n].first /\ entry'[n].size = entry[n].size
               \/ OnBoth(n)'
    PROVE  PathsOK'
<1>1. ASSUME NEW n \in Name \ behind', IsOpen(n)' PROVE HasPath(n)'
  BY <1>1, NextHasPath DEF HasPath
<1>2. ASSUME NEW n \in Name \ (Dying' \cup Syncing' \cup behind') PROVE OnBoth(n)'
  BY <1>2, NextOnBoth DEF OnBoth, Saved
<1>3. QED BY <1>1, <1>2 DEF PathsOK

LEMMA KeptHas ==
    ASSUME IInv, [Next]_vars, NEW c \in Cluster, fat[c] # Free, orphans \subseteq orphans',
           \A n \in Name \ Dying : Head(n) # 0 => \E m \in Name \ Dying' : Head(m)' = Head(n)
    PROVE  \/ Has(c)'
           \/ call.op \in {"dot", "dirent"} /\ c = call.at
           \/ call.op = "extend" /\ c = call.got
           \/ call.op = "free" /\ c \in Chain(fat, call.at)
<1>1. Has(c)
  BY DEF IInv, NoneLost
<1>2. CASE c \in orphans
  BY <1>2 DEF Has
<1>3. ASSUME NEW n \in Name \ Dying, c \in Chain(fat, Head(n)) PROVE Has(c)'
  <2>1. c \in Chain(fat', Head(n)) /\ Head(n) # 0
    BY <1>3, NextChain, ChainOfNone, ClusterFacts
  <2>2. QED BY <2>1 DEF Has
<1>4. QED BY <1>1, <1>2, <1>3 DEF Has

LEMMA IdleNext ==
    call' = Idle => CallOK' /\ Dying' = {} /\ Moving' = {} /\ Syncing' = {}
  BY DEF Idle, CallOK, Dying, Moving, Syncing

LEMMA IdleNow ==
    call = Idle => /\ Dying = {} /\ Moving = {} /\ Syncing = {}
                   /\ call.op = "idle" /\ ~Links /\ ~Frees1
  BY DEF Idle, Dying, Moving, Syncing, Links, Frees1

\* An empty file has its path anywhere.
LEMMA EmptyPath ==
    \E p : DOMAIN p = {} /\ \A map, c : Path(map, c, 0, p)
<1> DEFINE p == [i \in 1 .. 0 |-> 0]
<1>1. p \in [1 .. 0 -> Cluster] /\ DOMAIN p = {}
  OBVIOUS
<1>2. \A map, c : Path(map, c, 0, p)
  BY <1>1 DEF Path
<1>3. QED BY <1>1, <1>2

LEMMA EmptyHas ==
    /\ \A n : handle'[n].size = 0 => HasPath(n)'
    /\ \A n : entry'[n].size = 0 => OnBoth(n)'
  BY EmptyPath DEF HasPath, OnBoth, Saved

Rest == /\ NamesOK /\ HeadsOK /\ OrphansOK /\ HandlesOK /\ PathsOK /\ FilesSaved
        /\ CallOK /\ NoneLost

-----------------------------------------------------------------------------
(* Each operation                                                            *)

\* A step that leaves the FAT and the orphans as they are and ends no call
LEMMA PlainNone ==
    ASSUME IInv, [Next]_vars, fat' = fat, orphans \subseteq orphans', call = Idle \/ call.op = "sync",
           \A n \in Name \ Dying : Head(n) # 0 => \E m \in Name \ Dying' : Head(m)' = Head(n)
    PROVE  NoneLost'
<1>1. call.op \notin {"dot", "dirent", "extend", "free"}
  BY DEF Idle
<1>2. QED BY <1>1, KeptHas DEF NoneLost

LEMMA CreateKeeps == ASSUME IInv, NEW n \in Name, Create(n) PROVE Rest'
<1>0. /\ [Next]_vars /\ call = Idle /\ call' = Idle /\ handle' = handle /\ fat' = fat
      /\ orphans' = orphans /\ behind' = behind /\ ~Exists(n) /\ entry \in [Name -> Entry]
      /\ entry' = [entry EXCEPT ![n] = [kind |-> "file", first |-> 0, size |-> 0]]
  BY Sorts DEF Next, Create, IInv
<1>1. /\ \A m \in Name : m # n => entry'[m] = entry[m]
      /\ entry'[n].kind = "file" /\ entry'[n].first = 0 /\ entry'[n].size = 0
      /\ \A m \in Name : IsOpen(m)' <=> IsOpen(m)
  BY <1>0 DEF IsOpen
<1>2. ~IsOpen(n) /\ Head(n) = 0 /\ handle[n] = Closed
  BY <1>0, EntryHead
<1>3. Quiet
  BY <1>0, <1>1, <1>2 DEF Quiet, Head
<1>4. NamesOK'
  <2>1. ASSUME NEW m \in Name, m # n PROVE NameOK(m)'
    BY <1>0, <1>1, <2>1 DEF IInv, NamesOK, NameOK
  <2>2. NameOK(n)'
    BY <1>0, <1>1, <1>2 DEF NameOK
  <2>3. QED BY <2>1, <2>2 DEF NamesOK
<1>5. HeadsOK'
  BY <1>0, <1>1, <1>3, QuietHeads, IdleNow, IdleNext
<1>6. OrphansOK'
  BY <1>0, <1>3, QuietOrphans, IdleNow, IdleNext DEF Quiet
<1>7. PathsOK'
  BY <1>0, <1>1, <1>2, KeptPaths, EmptyHas, IdleNow, IdleNext
<1>8. CallOK'
  BY <1>0, IdleNext
<1>9. NoneLost'
  BY <1>0, <1>3, PlainNone, IdleNow, IdleNext DEF Quiet
<1>h. HandlesOK' /\ FilesSaved'
  BY <1>0, <1>1, <1>2, IdleNow, IdleNext, KeptHandles, KeptSaved DEF HeadSaved
<1>10. QED BY <1>4, <1>5, <1>6, <1>7, <1>8, <1>9, <1>h DEF Rest

LEMMA OpenKeeps == ASSUME IInv, NEW n \in Name, Open(n) PROVE Rest'
<1>0. /\ [Next]_vars /\ call = Idle /\ call' = Idle /\ entry' = entry /\ fat' = fat
      /\ orphans' = orphans /\ behind' = behind /\ entry[n].kind = "file" /\ ~IsOpen(n) /\ handle \in [Name -> Handle]
      /\ handle' = [handle EXCEPT ![n] = [first |-> entry[n].first, at |-> entry[n].first,
                                          size |-> entry[n].size, pos |-> 0, full |-> TRUE,
                                          dirty |-> FALSE]]
  BY Sorts DEF Next, Open, IInv
<1>1. /\ \A m \in Name : m # n => handle'[m] = handle[m] /\ (IsOpen(m)' <=> IsOpen(m))
      /\ handle'[n].first = entry[n].first /\ handle'[n].size = entry[n].size
      /\ ~handle'[n].dirty /\ IsOpen(n)'
  BY <1>0 DEF IsOpen
<1>2. Head(n) = entry[n].first
  BY <1>0, EntryHead
<1>3. Quiet
  BY <1>0, <1>1, <1>2 DEF Quiet, Head
<1>4. NamesOK'
  <2>1. ASSUME NEW m \in Name, m # n PROVE NameOK(m)'
    BY <1>0, <1>1, <2>1 DEF IInv, NamesOK, NameOK
  <2>2. NameOK(n)'
    BY <1>0, <1>1, <1>2 DEF NameOK
  <2>3. QED BY <2>1, <2>2 DEF NamesOK
<1>5. HeadsOK'
  BY <1>0, <1>3, QuietHeads, IdleNow, IdleNext
<1>6. OrphansOK'
  BY <1>0, <1>3, QuietOrphans, IdleNow, IdleNext DEF Quiet
<1>7. PathsOK'
  <2>1. n \notin behind => HasPath(n)'
    <3>1. n \notin behind => OnBoth(n)
      BY <1>0, IdleNow DEF IInv, PathsOK
    <3>2. QED BY <1>0, <1>1, <3>1 DEF HasPath, OnBoth
  <2>2. QED BY <1>0, <1>1, <2>1, KeptPaths, IdleNow, IdleNext
<1>8. CallOK'
  BY <1>0, IdleNext
<1>9. NoneLost'
  BY <1>0, <1>3, PlainNone, IdleNow, IdleNext DEF Quiet
<1>h. HandlesOK' /\ FilesSaved'
  <2>1. AtOK(n)'
    <3>1. /\ handle'[n].pos = 0 /\ handle'[n].full /\ handle'[n].first = entry[n].first
          /\ handle'[n].at = entry[n].first
      BY <1>0
    <3>2. ASSUME entry[n].first # 0
          PROVE  entry[n].first \in Chain(fat, entry[n].first) /\ AtPath(n)'
      <4>1. entry[n].first \in Cluster
        BY <3>2, EntryHead
      <4>2. QED BY <1>0, <3>1, <4>1, ChainHasHead, PathOfOne DEF AtPath
    <3>3. QED BY <1>0, <3>1, <3>2 DEF AtOK
  <2>2. QED BY <1>0, <1>1, <2>1, KeptHandles, KeptSaved, IdleNow, IdleNext
<1>10. QED BY <1>4, <1>5, <1>6, <1>7, <1>8, <1>9, <1>h DEF Rest

LEMMA CloseKeeps == ASSUME IInv, NEW n \in Name, Close(n) PROVE Rest'
<1>0. /\ [Next]_vars /\ call = Idle /\ call' = [op |-> "sync", name |-> n] /\ handle' = handle
      /\ fat' = fat /\ orphans' = orphans /\ behind' = behind /\ IsOpen(n) /\ entry \in [Name -> Entry]
      /\ entry' = IF handle[n].dirty
                  THEN [entry EXCEPT ![n].first = handle[n].first, ![n].size = handle[n].size]
                  ELSE entry
  BY Sorts DEF Next, Close, IInv
<1>1. NameOK(n) /\ Head(n) = handle[n].first
  BY <1>0, EntryHead DEF IInv, NamesOK
<1>2. /\ \A m \in Name : m # n => entry'[m] = entry[m]
      /\ entry'[n].kind = "file" /\ entry'[n].first = handle[n].first
      /\ entry'[n].size = handle[n].size
      /\ \A m \in Name : IsOpen(m)' <=> IsOpen(m)
  <2>1. CASE handle[n].dirty
    BY <1>0, <1>1, <2>1 DEF IsOpen, NameOK, Entry
  <2>2. CASE ~handle[n].dirty
    BY <1>0, <1>1, <2>2 DEF IsOpen, NameOK
  <2>3. QED BY <2>1, <2>2
<1>3. Quiet
  BY <1>0, <1>2 DEF Quiet, Head
<1>4. NamesOK'
  <2>1. ASSUME NEW m \in Name, m # n PROVE NameOK(m)'
    BY <1>0, <1>2, <2>1 DEF IInv, NamesOK, NameOK
  <2>2. NameOK(n)'
    BY <1>0, <1>2 DEF NameOK
  <2>3. QED BY <2>1, <2>2 DEF NamesOK
<1>a. Dying' = {} /\ Moving' = {} /\ Syncing' = {n}
  BY <1>0 DEF Dying, Moving, Syncing
<1>5. HeadsOK'
  <2>1. handle[n].first # 0 => Start(durable', handle[n].first)
    <3> SUFFICES ASSUME handle[n].first # 0 PROVE Start(durable', handle[n].first)
      OBVIOUS
    <3>1. Start(fat, Head(n)) /\ Head(n) \in Cluster
      BY <1>1, HeadSort DEF IInv, HeadsOK
    <3>2. durable' \in {durable, fat} /\ DiskBehind
      BY <1>0, NextTables DEF IInv, TablesOK
    <3>3. QED BY <1>0, <1>1, <3>1, <3>2, IdleNow DEF Start, DiskBehind
  <2>2. \A m \in Name : entry'[m].first \in {0, entry[m].first} \/ Start(durable', entry'[m].first)
    BY <1>2, <2>1
  <2>3. QED BY <1>0, <1>3, <1>a, <2>2, QuietHeads, IdleNow
<1>6. OrphansOK'
  BY <1>0, <1>3, <1>a, QuietOrphans, IdleNow DEF Quiet
<1>7. PathsOK'
  BY <1>0, <1>2, <1>a, KeptPaths, IdleNow
<1>8. CallOK'
  BY <1>0, <1>2 DEF CallOK
<1>9. NoneLost'
  BY <1>0, <1>3, <1>a, PlainNone, IdleNow DEF Quiet
<1>h. HandlesOK' /\ FilesSaved'
  BY <1>0, <1>2, <1>a, IdleNow, KeptHandles, KeptSaved
<1>10. QED BY <1>4, <1>5, <1>6, <1>7, <1>8, <1>9, <1>h DEF Rest

LEMMA CloseSyncKeeps == ASSUME IInv, CloseSync PROVE Rest'
<1>n. PICK n \in Name : n = call.name
  BY CallShape DEF IInv, CloseSync, Syncs
<1>0. /\ [Next]_vars /\ call.op = "sync" /\ call' = Idle /\ entry' = entry
      /\ fat' = fat /\ durable' = fat /\ orphans' = orphans /\ behind' = behind /\ handle \in [Name -> Handle]
      /\ handle' = [handle EXCEPT ![n] = Closed]
  BY <1>n, Sorts, InvTables, FlushDoes DEF Next, Turn, CloseSync, IInv
<1>1. /\ n \in Name /\ IsOpen(n) /\ entry[n].first = handle[n].first
      /\ entry[n].size = handle[n].size /\ NameOK(n)
      /\ Head(n) = handle[n].first
  BY <1>0, <1>n, EntryHead DEF IInv, CallOK, NamesOK
<1>2. /\ \A m \in Name : m # n => handle'[m] = handle[m] /\ (IsOpen(m)' <=> IsOpen(m))
      /\ handle'[n] = Closed /\ ~IsOpen(n)'
  BY <1>0, <1>1 DEF IsOpen, Closed
<1>3. Quiet
  BY <1>0, <1>1, <1>2 DEF Quiet, Head
<1>4. NamesOK'
  <2>1. ASSUME NEW m \in Name, m # n PROVE NameOK(m)'
    BY <1>0, <1>2, <2>1 DEF IInv, NamesOK, NameOK
  <2>2. NameOK(n)'
    BY <1>0, <1>1, <1>2 DEF NameOK
  <2>3. QED BY <2>1, <2>2 DEF NamesOK
<1>a. Dying = {} /\ Moving = {} /\ Syncing = {n}
  BY <1>0, <1>n DEF Dying, Moving, Syncing
<1>5. HeadsOK'
  BY <1>0, <1>3, <1>a, QuietHeads, IdleNext
<1>6. OrphansOK'
  BY <1>0, <1>3, <1>a, QuietOrphans, IdleNext DEF Quiet
<1>7. PathsOK'
  <2>1. ASSUME n \notin behind PROVE OnBoth(n)'
    <3>1. n \in Name \ Dying /\ handle[n].size \in Nat
      BY <1>1, <1>a, Sorts DEF IInv
    <3>2. PICK p : Path(fat, Head(n), handle[n].size, p)
      BY <1>1, <2>1 DEF IInv, PathsOK, HasPath
    <3>3. \A i \in 1 .. handle[n].size : fat[p[i]] # Free
      BY <1>0, <3>1, <3>2, NextPath
    <3>4. DOMAIN p = 1 .. handle[n].size
      BY <3>2 DEF Path
    <3>5. QED BY <1>0, <1>1, <3>2, <3>3, <3>4 DEF OnBoth, Saved
  <2>2. QED BY <1>0, <1>2, <1>a, <2>1, KeptPaths, IdleNext
<1>8. CallOK'
  BY <1>0, IdleNext
<1>9. NoneLost'
  BY <1>0, <1>3, <1>a, PlainNone, IdleNext DEF Quiet
<1>h. HandlesOK' /\ FilesSaved'
  <2>1. HeadSaved(n)'
    <3>1. Head(n) # 0 => fat[Head(n)] # Free
      BY <1>1, <1>a DEF IInv, HeadsOK
    <3>2. QED BY <1>0, <1>1, <3>1 DEF HeadSaved
  <2>2. QED BY <1>0, <1>2, <1>a, <2>1, KeptHandles, KeptSaved, IdleNext
<1>10. QED BY <1>4, <1>5, <1>6, <1>7, <1>8, <1>9, <1>h DEF Rest

LEMMA DeleteKeeps == ASSUME IInv, NEW n \in Name, Delete(n) PROVE Rest'
<1>0. /\ [Next]_vars /\ call = Idle /\ handle' = handle /\ entry' = entry
      /\ fat' = fat /\ orphans' = orphans /\ behind' = behind /\ Exists(n) /\ ~IsOpen(n)
      /\ call' = IF entry[n].first = 0 THEN [op |-> "unlink", name |-> n, to |-> n]
                 ELSE [op |-> "free", name |-> n, at |-> entry[n].first, then |-> "unlink"]
  BY DEF Next, Delete
<1>1. Dying = {} /\ Moving = {} /\ Syncing = {} /\ Dying' = {n} /\ Syncing' = {}
      /\ call.op = "idle"
  BY <1>0, IdleNow DEF Dying, Syncing
<1>2. Head(n) = entry[n].first /\ Head(n) \in Cluster \cup {0}
  BY <1>0, EntryHead, HeadSort DEF IInv
<1>3. Quiet /\ \A m \in Name : IsOpen(m)' <=> IsOpen(m)
  BY <1>0 DEF Quiet, Head, IsOpen
<1>4. NamesOK'
  BY <1>0, <1>3 DEF IInv, NamesOK, NameOK
<1>5. HeadsOK'
  BY <1>0, <1>1, <1>3, QuietHeads
<1>6. OrphansOK'
  BY <1>0, <1>1, <1>3, QuietOrphans DEF Quiet
<1>7. PathsOK'
  BY <1>0, <1>1, <1>3, KeptPaths
<1>8. CallOK'
  <2>1. CASE entry[n].first = 0
    BY <1>0, <1>3, <2>1 DEF CallOK, Exists
  <2>2. CASE entry[n].first # 0
    <3>1. /\ call'.op = "free" /\ call'.name = n /\ call'.at = entry[n].first
          /\ call'.then = "unlink"
      BY <1>0, <2>2
    <3>2. entry[n].first \in Cluster /\ Loose(entry[n].first)'
      BY <1>0, <1>1, <1>2, <1>3, <2>2 DEF Loose, IInv, HeadsOK, Quiet
    <3>3. entry[n].first \notin orphans
      BY <1>1, <1>2 DEF IInv, OrphansOK, Loose
    <3>4. QED BY <1>0, <1>3, <3>1, <3>2, <3>3 DEF CallOK, Exists
  <2>3. QED BY <2>1, <2>2
<1>9. NoneLost'
  <2>1. SUFFICES ASSUME NEW c \in Cluster, fat[c] # Free PROVE Has(c)'
    BY <1>0 DEF NoneLost
  <2>2. PICK m \in Name : c \in orphans \/ c \in Chain(fat, Head(m))
    <3>1. Has(c)
      BY <2>1 DEF IInv, NoneLost
    <3>2. QED BY <1>1, <3>1 DEF Has
  <2>3. CASE c \in orphans
    BY <1>0, <2>3 DEF Has
  <2>4. CASE m # n /\ c \in Chain(fat, Head(m))
    BY <1>0, <1>1, <1>3, <2>4 DEF Has, Quiet
  <2>5. CASE m = n /\ c \in Chain(fat, Head(m))
    <3>1. entry[n].first # 0
      BY <1>2, <2>5, ChainOfNone, ClusterFacts
    <3>2. QED BY <1>0, <1>2, <2>5, <3>1 DEF Has
  <2>6. QED BY <2>2, <2>3, <2>4, <2>5
<1>h. HandlesOK' /\ FilesSaved'
  BY <1>0, <1>1, <1>3, KeptHandles, KeptSaved
<1>10. QED BY <1>4, <1>5, <1>6, <1>7, <1>8, <1>9, <1>h DEF Rest

\* The chain that is left when its first cluster is freed
LEMMA FreedChain ==
    ASSUME NEW map \in [Cluster -> Link], NEW d \in Cluster, Start(map, d), NEW link
    PROVE  Chain(map, d) \subseteq {d} \cup Chain([map EXCEPT ![d] = link], map[d])
<1> DEFINE new == [map EXCEPT ![d] = link]
           S == {d} \cup Chain(new, map[d])
<1>1. S \in SUBSET Cluster
  BY ChainIsClosed
<1>2. LinkClosed(map, S)
  <2> SUFFICES ASSUME NEW e \in S, map[e] \in Cluster PROVE map[e] \in S
    BY DEF LinkClosed
  <2>1. CASE e = d
    BY <2>1, ChainHasHead
  <2>2. CASE e # d
    <3>1. e \in Cluster /\ new[e] = map[e] /\ e \in Chain(new, map[d])
      BY <1>1, <2>2
    <3>2. LinkClosed(new, Chain(new, map[d]))
      BY ChainIsClosed
    <3> HIDE DEF new
    <3>3. QED BY <3>1, <3>2 DEF LinkClosed
  <2>3. QED BY <2>1, <2>2
<1>3. d \in S
  OBVIOUS
<1> HIDE DEF S
<1>4. Chain(map, d) \subseteq S
  BY <1>1, <1>2, <1>3, ChainIsLeast
<1>5. QED BY <1>4 DEF S

LEMMA FreeOneKeeps == ASSUME IInv, FreeOne PROVE Rest'
<1>n. PICK n \in Name : n = call.name
  BY CallShape DEF IInv, FreeOne, Frees
<1>c. PICK c \in Cluster : c = call.at
  BY CallShape DEF IInv, FreeOne, Frees
<1>0. /\ [Next]_vars /\ call.op = "free" /\ handle' = handle /\ entry' = entry
      /\ fat' = [fat EXCEPT ![c] = Free] /\ orphans' = orphans /\ behind' = behind /\ fat \in [Cluster -> Link]
      /\ call' = IF fat[c] \in Cluster THEN [call EXCEPT !.at = fat[c]]
                 ELSE [call EXCEPT !.op = "flush"]
  BY <1>c, Sorts DEF Next, Turn, FreeOne, SetEntry, IInv
<1>1. /\ call \in Frees /\ fat[c] # Free /\ Start(fat, c) /\ Loose(c) /\ c \notin orphans
      /\ ~IsOpen(n)
  BY <1>0, <1>n, <1>c, Freed
<1>2. /\ call'.op \in {"free", "flush"} /\ call'.name = n /\ call'.then = call.then
      /\ call'.op = "free" => call'.at = fat[c] /\ fat[c] \in Cluster
      /\ fat[c] \in Cluster => call'.op = "free"
  BY <1>0, <1>1, <1>n DEF Frees
<1>3. Dying' = Dying /\ Moving = {} /\ Moving' = {} /\ Syncing = {} /\ Syncing' = {}
  BY <1>0, <1>2, <1>n DEF Dying, Moving, Syncing
<1>4. Quiet /\ \A m \in Name : IsOpen(m)' <=> IsOpen(m)
  BY <1>0 DEF Quiet, Head, IsOpen
<1>5. NamesOK'
  BY <1>0, <1>4 DEF IInv, NamesOK, NameOK
<1>6. HeadsOK'
  BY <1>0, <1>3, <1>4, QuietHeads
<1>7. OrphansOK'
  BY <1>0, <1>3, <1>4, QuietOrphans DEF Quiet
<1>8. PathsOK'
  BY <1>0, <1>3, <1>4, KeptPaths
<1>9. CallOK'
  <2>1. ASSUME NEW e \in Cluster, fat[c] = e PROVE Loose(e)' /\ e \notin orphans
    <3>1. fat[c] # c /\ fat[fat[c]] # Free
      BY <1>1, <2>1 DEF IInv, TablesOK, Leading, Start
    <3>2. \A d \in Cluster : fat'[d] = IF d = c THEN Free ELSE fat[d]
      BY <1>0
    <3>3. Start(fat', fat[c])
      BY <2>1, <3>2, ClusterFacts DEF IInv, TablesOK, Linear, Start
    <3>4. fat'[fat[c]] # Free
      BY <2>1, <3>1, <3>2
    <3>5. \A m \in Name : Head(m) # fat[c]
      BY <2>1, ClusterFacts DEF IInv, HeadsOK, Start
    <3>6. fat[c] \notin orphans
      BY DEF IInv, OrphansOK, Loose, Start
    <3>7. QED BY <1>4, <2>1, <3>3, <3>4, <3>5, <3>6 DEF Loose, Quiet
  <2>2. call.then = "unlink" <=> Exists(n)
    BY <1>0, <1>n DEF IInv, CallOK
  <2>3. ~IsOpen(n)' /\ (call'.then = "unlink" <=> Exists(n)')
    BY <1>0, <1>1, <1>2, <1>4, <2>2 DEF Exists
  <2>4. ASSUME call'.op = "free" PROVE Loose(call.at)' /\ call'.at \notin orphans'
    BY <1>0, <1>2, <2>1, <2>4
  <2>5. QED BY <1>2, <2>3, <2>4 DEF CallOK
<1>10. NoneLost'
  <2>1. SUFFICES ASSUME NEW d \in Cluster, fat'[d] # Free PROVE Has(d)'
    BY DEF NoneLost
  <2>2. d # c /\ fat[d] # Free
    BY <1>0, <2>1
  <2>3. Has(d)' \/ d \in Chain(fat, c)
    BY <1>0, <1>c, <1>3, <1>4, <2>2, KeptHas DEF Quiet
  <2>4. CASE d \in Chain(fat, c)
    <3>1. d \in Chain(fat', fat[c])
      BY <1>0, <1>1, <2>2, <2>4, FreedChain
    <3>2. fat[c] \in Cluster
      BY <3>1, ChainOfNone
    <3>3. QED BY <1>2, <3>1, <3>2 DEF Has
  <2>5. QED BY <2>3, <2>4
<1>h. HandlesOK' /\ FilesSaved'
  BY <1>0, <1>3, <1>4, KeptHandles, KeptSaved
<1>11. QED BY <1>5, <1>6, <1>7, <1>8, <1>9, <1>10, <1>h DEF Rest

LEMMA FreeEndKeeps == ASSUME IInv, FreeEnd PROVE Rest'
<1>n. PICK n \in Name : n = call.name
  BY CallShape DEF IInv, FreeEnd, Frees
<1>0. /\ [Next]_vars /\ call.op = "flush" /\ handle' = handle /\ entry' = entry
      /\ fat' = fat /\ orphans' = orphans /\ behind' = behind /\ call.then \in {"idle", "unlink"}
      /\ call' = IF call.then = "idle" THEN Idle ELSE [op |-> "unlink", name |-> n, to |-> n]
  BY <1>n, CallShape DEF Next, Turn, FreeEnd, Flush, IInv, Frees
<1>1. ~IsOpen(n) /\ (call.then = "unlink" <=> Exists(n))
  BY <1>0, <1>n DEF IInv, CallOK
<1>2. Dying' = Dying /\ Moving = {} /\ Syncing = {} /\ Syncing' = {}
  BY <1>0, <1>n DEF Dying, Moving, Syncing, Idle
<1>3. Quiet /\ \A m \in Name : IsOpen(m)' <=> IsOpen(m)
  BY <1>0 DEF Quiet, Head, IsOpen
<1>4. NamesOK'
  BY <1>0, <1>3 DEF IInv, NamesOK, NameOK
<1>5. HeadsOK'
  BY <1>0, <1>2, <1>3, QuietHeads
<1>6. OrphansOK'
  BY <1>0, <1>2, <1>3, QuietOrphans DEF Quiet
<1>7. PathsOK'
  BY <1>0, <1>2, <1>3, KeptPaths
<1>8. CallOK'
  BY <1>0, <1>1, <1>3 DEF CallOK, Exists, Idle
<1>9. NoneLost'
  BY <1>0, <1>2, <1>3, KeptHas DEF NoneLost, Quiet
<1>h. HandlesOK' /\ FilesSaved'
  BY <1>0, <1>2, <1>3, KeptHandles, KeptSaved
<1>10. QED BY <1>4, <1>5, <1>6, <1>7, <1>8, <1>9, <1>h DEF Rest

LEMMA UnlinkKeeps == ASSUME IInv, Unlink PROVE Rest'
<1>n. PICK n \in Name, t \in Name : n = call.name /\ t = call.to
  BY CallShape DEF IInv, Unlink, Unlinks
<1>0. /\ [Next]_vars /\ call.op = "unlink" /\ call' = Idle /\ handle' = handle
      /\ fat' = fat /\ orphans' = orphans /\ behind' = behind \ {n} /\ entry \in [Name -> Entry]
      /\ entry' = [entry EXCEPT ![n] = NoFile]
  BY <1>n, Sorts DEF Next, Turn, Unlink, IInv
<1>1. ~IsOpen(n) /\ ~IsOpen(t) /\ Exists(n) /\ entry[t] = entry[n] /\ HeadsOK
  BY <1>0, <1>n DEF IInv, CallOK
<1>2. /\ Dying = IF n = t THEN {n} ELSE {}
      /\ Moving = {n, t} /\ Syncing = {}
      /\ Dying' = {} /\ Moving' = {} /\ Syncing' = {}
  BY <1>0, <1>n, IdleNext DEF Dying, Moving, Syncing
<1>3. /\ entry'[n] = NoFile /\ \A m \in Name : IsOpen(m)' <=> IsOpen(m)
      /\ \A m \in Name : m # n => entry'[m] = entry[m]
  BY <1>0 DEF IsOpen
<1>4. Head(n)' = 0 /\ \A m \in Name : m # n => Head(m)' = Head(m)
  BY <1>0, <1>1, <1>3 DEF Head, NoFile
<1>5. NamesOK'
  <2>1. ASSUME NEW m \in Name, m # n PROVE NameOK(m)'
    BY <1>0, <1>3, <2>1 DEF IInv, NamesOK, NameOK
  <2>2. handle[n] = Closed /\ NoFile.kind = "none"
    BY <1>1 DEF IInv, NamesOK, NameOK, NoFile
  <2>3. NameOK(n)'
    BY <1>0, <1>1, <1>3, <2>2 DEF NameOK
  <2>4. QED BY <2>1, <2>3 DEF NamesOK
<1>6. HeadsOK'
  <2>1. \A m \in Name : Head(m)' # 0 => Start(fat', Head(m)')
    BY <1>0, <1>1, <1>4 DEF HeadsOK
  <2>2. \A m \in Name \ Dying' : Head(m)' # 0 => fat'[Head(m)'] # Free
    BY <1>0, <1>1, <1>2, <1>4 DEF HeadsOK
  <2>3. ASSUME NEW m \in Name, NEW q \in Name, m # q, Head(m)' = Head(q)', Head(m)' # 0
        PROVE  {m, q} \subseteq Moving'
    <3>1. m # n /\ q # n /\ Head(m) = Head(q) /\ Head(m) # 0
      BY <1>4, <2>3
    <3>2. {m, q} \subseteq {n, t}
      BY <1>1, <1>2, <2>3, <3>1 DEF HeadsOK
    <3>3. QED BY <2>3, <3>1, <3>2
  <2>4. \A m \in Name : entry'[m].first # 0 => Start(durable', entry'[m].first)
    BY <1>0, <1>3, NextEntryStart DEF NoFile
  <2>5. QED BY <2>1, <2>2, <2>3, <2>4 DEF HeadsOK
<1>7. OrphansOK'
  <2>1. SpareOrphans
    BY <1>2, <1>4 DEF SpareOrphans
  <2>2. QED BY <1>0, <2>1, KeptOrphans
<1>8. PathsOK'
  <2>1. OnBoth(n)'
    BY <1>3, EmptyHas DEF NoFile
  <2>2. QED BY <1>0, <1>1, <1>2, <1>3, <2>1, KeptPaths
<1>9. CallOK'
  BY <1>0, IdleNext
<1>10. NoneLost'
  <2>1. ASSUME NEW m \in Name \ Dying PROVE \E q \in Name \ Dying' : Head(q)' = Head(m)
    <3>1. CASE m # n
      BY <1>2, <1>4, <3>1
    <3>2. CASE m = n
      <4>1. n # t /\ Head(n) = Head(t)
        BY <1>1, <1>2, <2>1, <3>2 DEF Head
      <4>2. QED BY <1>2, <1>4, <3>2, <4>1
    <3>3. QED BY <3>1, <3>2
  <2>2. QED BY <1>0, <2>1, KeptHas DEF NoneLost
<1>h. HandlesOK' /\ FilesSaved'
  <2>1. HeadSaved(n)'
    BY <1>3 DEF HeadSaved, NoFile
  <2>2. QED BY <1>0, <1>1, <1>2, <1>3, <2>1, KeptHandles, KeptSaved
<1>11. QED BY <1>5, <1>6, <1>7, <1>8, <1>9, <1>10, <1>h DEF Rest

LEMMA RenameKeeps == ASSUME IInv, NEW n \in Name, NEW m \in Name, Rename(n, m) PROVE Rest'
<1>0. /\ [Next]_vars /\ call = Idle /\ call' = [op |-> "unlink", name |-> n, to |-> m]
      /\ handle' = handle /\ fat' = fat /\ orphans' = orphans /\ behind' = (IF n \in behind THEN behind \cup {m} ELSE behind) /\ entry \in [Name -> Entry]
      /\ entry' = [entry EXCEPT ![m] = entry[n]]
      /\ Exists(n) /\ ~IsOpen(n) /\ ~Exists(m)
  BY Sorts DEF Next, Rename, IInv
<1>1. ~IsOpen(m) /\ n # m /\ Head(n) = entry[n].first /\ HeadsOK /\ handle[m] = Closed
  BY <1>0, EntryHead DEF IInv
<1>2. /\ Dying = {} /\ Moving = {} /\ Syncing = {} /\ call.op = "idle"
      /\ Dying' = {} /\ Moving' = {n, m} /\ Syncing' = {}
  BY <1>0, <1>1, IdleNow DEF Dying, Moving, Syncing
<1>3. /\ entry'[m] = entry[n] /\ \A q \in Name : IsOpen(q)' <=> IsOpen(q)
      /\ \A q \in Name : q # m => entry'[q] = entry[q]
  BY <1>0 DEF IsOpen
<1>4. Head(m)' = Head(n) /\ \A q \in Name : q # m => Head(q)' = Head(q)
  BY <1>0, <1>1, <1>3 DEF Head
<1>5. NamesOK'
  <2>1. ASSUME NEW q \in Name, q # m PROVE NameOK(q)'
    BY <1>0, <1>3, <2>1 DEF IInv, NamesOK, NameOK
  <2>2. NameOK(n)
    BY DEF IInv, NamesOK
  <2>3. NameOK(m)'
    BY <1>0, <1>1, <1>3, <2>2 DEF NameOK
  <2>4. QED BY <2>1, <2>3 DEF NamesOK
<1>6. HeadsOK'
  <2>1. \A q \in Name : Head(q)' # 0 => Start(fat', Head(q)')
    BY <1>0, <1>1, <1>4 DEF HeadsOK
  <2>2. \A q \in Name \ Dying' : Head(q)' # 0 => fat'[Head(q)'] # Free
    BY <1>0, <1>1, <1>2, <1>4 DEF HeadsOK
  <2>3. ASSUME NEW p \in Name, NEW q \in Name, p # q, Head(p)' = Head(q)', Head(p)' # 0
        PROVE  {p, q} \subseteq Moving'
    BY <1>1, <1>2, <1>4, <2>3 DEF HeadsOK
  <2>4. \A q \in Name : entry'[q].first # 0 => Start(durable', entry'[q].first)
    BY <1>0, <1>3, NextEntryStart
  <2>5. QED BY <2>1, <2>2, <2>3, <2>4 DEF HeadsOK
<1>7. OrphansOK'
  <2>1. Head(n) \notin orphans
    BY <1>2 DEF IInv, OrphansOK, Loose
  <2>2. SpareOrphans
    BY <1>2, <1>4, <2>1 DEF SpareOrphans
  <2>3. QED BY <1>0, <2>2, KeptOrphans
<1>8. PathsOK'
  <2>1. ASSUME m \notin behind' PROVE OnBoth(m)'
    <3>1. n \in Name \ (Dying \cup Syncing \cup behind)
      BY <1>0, <1>2, <2>1
    <3>2. PICK p : /\ Path(fat', entry[n].first, entry[n].size, p)
                   /\ Path(durable', entry[n].first, entry[n].size, p)
                   /\ \A i \in DOMAIN p : durable'[p[i]] # Free
      BY <1>0, <3>1, NextOnBoth
    <3>3. QED BY <1>3, <3>2 DEF OnBoth, Saved
  <2>2. QED BY <1>0, <1>2, <1>3, <2>1, KeptPaths
<1>9. CallOK'
  BY <1>0, <1>1, <1>3 DEF CallOK, Exists
<1>10. NoneLost'
  <2>1. ASSUME NEW q \in Name, Head(q) # 0 PROVE Head(q)' = Head(q)
    BY <1>0, <1>4, <2>1, EntryHead
  <2>2. QED BY <1>0, <1>2, <2>1, PlainNone
<1>h. HandlesOK' /\ FilesSaved'
  <2>1. HeadSaved(m)'
    <3>1. HeadSaved(n) /\ (entry[n].first # 0 => fat[entry[n].first] # Free)
      BY <1>1, <1>2 DEF IInv, FilesSaved, HeadsOK
    <3>2. durable' \in {durable, fat}
      BY <1>0, NextTables
    <3>3. QED BY <1>3, <3>1, <3>2 DEF HeadSaved
  <2>2. QED BY <1>0, <1>2, <1>3, <2>1, KeptHandles, KeptSaved
<1>11. QED BY <1>5, <1>6, <1>7, <1>8, <1>9, <1>10, <1>h DEF Rest

\* A new cluster is nobody's.
LEMMA NewIsLoose ==
    ASSUME IInv, [Next]_vars, NEW c \in Cluster, fat[c] = Free, fat' = [fat EXCEPT ![c] = Eoc],
           Dying \subseteq Dying', Quiet, ~Links
    PROVE  Loose(c)' /\ fat'[c] = Eoc
<1>1. Start(fat, c) /\ \A n \in Name \ Dying : Head(n) # c
  BY UnusedIsStart
<1>2. fat'[c] = Eoc
  BY DEF IInv, TypeOK
<1>3. Start(fat', c)
  BY <1>1, NextStart
<1>4. QED BY <1>1, <1>2, <1>3, ClusterFacts DEF Loose, Quiet

LEMMA MkdirKeeps == ASSUME IInv, NEW n \in Name, Mkdir(n) PROVE Rest'
<1>0. /\ [Next]_vars /\ call = Idle /\ handle' = handle /\ entry' = entry /\ orphans' = orphans /\ behind' = behind
      /\ ~Exists(n)
      /\ \/ \E c \in Cluster : Allocate(c) /\ call' = [op |-> "dot", name |-> n, at |-> c]
         \/ AllocateFail /\ call' = Idle
  BY DEF Next, Mkdir
<1>1. /\ Dying = {} /\ Moving = {} /\ Syncing = {} /\ call.op = "idle" /\ ~Links /\ ~Frees1
      /\ Dying' = {} /\ Moving' = {} /\ Syncing' = {}
  BY <1>0, IdleNow DEF Dying, Moving, Syncing, Idle
<1>2. Quiet /\ \A m \in Name : IsOpen(m)' <=> IsOpen(m)
  BY <1>0 DEF Quiet, Head, IsOpen
<1>3. NamesOK'
  BY <1>0, <1>2 DEF IInv, NamesOK, NameOK
<1>4. HeadsOK'
  BY <1>0, <1>1, <1>2, QuietHeads
<1>5. OrphansOK'
  BY <1>0, <1>1, <1>2, QuietOrphans DEF Quiet
<1>6. PathsOK'
  BY <1>0, <1>1, <1>2, KeptPaths
<1>h. HandlesOK' /\ FilesSaved'
  BY <1>0, <1>1, <1>2, KeptHandles, KeptSaved
<1>7. CASE AllocateFail /\ call' = Idle
  <2>1. CallOK' /\ fat' = fat
    BY <1>7, IdleNext DEF AllocateFail
  <2>2. NoneLost'
    BY <1>0, <1>1, <1>2, <2>1, PlainNone DEF Quiet
  <2>3. QED BY <1>3, <1>4, <1>5, <1>6, <2>1, <2>2, <1>h DEF Rest
<1>8. ASSUME NEW c \in Cluster, Allocate(c), call' = [op |-> "dot", name |-> n, at |-> c] PROVE Rest'
  <2>1. fat[c] = Free /\ fat' = [fat EXCEPT ![c] = Eoc] /\ fat \in [Cluster -> Link]
    BY <1>8, InvTables, AllocateDoes DEF IInv, TypeOK
  <2>2. Loose(c)' /\ c \notin orphans
    BY <1>0, <1>1, <1>2, <2>1, NewIsLoose, UnusedIsStart
  <2>3. CallOK'
    BY <1>0, <1>8, <2>2 DEF CallOK, Exists
  <2>4. NoneLost'
    <3>1. SUFFICES ASSUME NEW d \in Cluster, fat'[d] # Free PROVE Has(d)'
      BY DEF NoneLost
    <3>2. CASE d = c
      BY <1>8, <3>2 DEF Has
    <3>3. CASE d # c
      BY <1>0, <1>1, <1>2, <2>1, <3>1, <3>3, KeptHas DEF Quiet
    <3>4. QED BY <3>2, <3>3
  <2>5. QED BY <1>3, <1>4, <1>5, <1>6, <2>3, <2>4, <1>h DEF Rest
<1>9. QED BY <1>0, <1>7, <1>8

LEMMA MkdirWriteKeeps == ASSUME IInv, MkdirWrite PROVE Rest'
<1>n. PICK n \in Name, c \in Cluster : n = call.name /\ c = call.at
  BY CallShape DEF IInv, MkdirWrite, Makes
<1>0. /\ [Next]_vars /\ call.op = "dot" /\ handle' = handle /\ entry' = entry
      /\ fat' = fat /\ orphans' = orphans /\ behind' = behind
      /\ call'.name = n /\ call'.at = c /\ call'.op \in {"dirent", "free"}
      /\ call'.op = "free" => call'.then = "idle"
  BY <1>n, CallShape DEF Next, Turn, MkdirWrite, IInv, Makes
<1>1. ~Exists(n) /\ Loose(c) /\ c \notin orphans
  BY <1>0, <1>n DEF IInv, CallOK
<1>2. /\ Dying = {} /\ Moving = {} /\ Syncing = {}
      /\ Dying' = {} /\ Moving' = {} /\ Syncing' = {}
  BY <1>0 DEF Dying, Moving, Syncing
<1>3. Quiet /\ \A m \in Name : IsOpen(m)' <=> IsOpen(m)
  BY <1>0 DEF Quiet, Head, IsOpen
<1>4. NamesOK'
  BY <1>0, <1>3 DEF IInv, NamesOK, NameOK
<1>5. HeadsOK'
  BY <1>0, <1>2, <1>3, QuietHeads
<1>6. OrphansOK'
  BY <1>0, <1>2, <1>3, QuietOrphans DEF Quiet
<1>7. PathsOK'
  BY <1>0, <1>2, <1>3, KeptPaths
<1>8. CallOK'
  <2>1. Loose(c)' /\ ~IsOpen(n)' /\ ~Exists(n)'
    BY <1>0, <1>1, <1>2, <1>3, EntryHead DEF Loose, Quiet, Exists
  <2>2. QED BY <1>0, <1>1, <2>1 DEF CallOK
<1>9. NoneLost'
  <2>1. SUFFICES ASSUME NEW d \in Cluster, fat[d] # Free PROVE Has(d)'
    BY <1>0 DEF NoneLost
  <2>2. Has(d)' \/ d = c
    BY <1>0, <1>n, <1>2, <1>3, <2>1, KeptHas DEF Quiet
  <2>3. c \in Chain(fat, c)
    BY ChainHasHead
  <2>4. QED BY <1>0, <2>2, <2>3 DEF Has
<1>h. HandlesOK' /\ FilesSaved'
  BY <1>0, <1>2, <1>3, KeptHandles, KeptSaved
<1>10. QED BY <1>4, <1>5, <1>6, <1>7, <1>8, <1>9, <1>h DEF Rest

LEMMA MkdirEntryKeeps == ASSUME IInv, MkdirEntry PROVE Rest'
<1>n. PICK n \in Name, c \in Cluster : n = call.name /\ c = call.at
  BY CallShape DEF IInv, MkdirEntry, Makes
<1>0. /\ [Next]_vars /\ call.op = "dirent" /\ handle' = handle /\ fat' = fat /\ durable' = durable /\ behind' = behind
      /\ call' = Idle /\ entry \in [Name -> Entry]
      /\ \/ /\ entry' = [entry EXCEPT ![n] = [kind |-> "dir", first |-> c, size |-> 0]]
            /\ orphans' = orphans
         \/ orphans' = orphans \cup {c} /\ entry' = entry
  BY <1>n, Sorts DEF Next, Turn, MkdirEntry, IInv
<1>1. ~Exists(n) /\ Loose(c) /\ c \notin orphans /\ HeadsOK
  BY <1>0, <1>n DEF IInv, CallOK
<1>2. /\ Dying = {} /\ Moving = {} /\ Syncing = {}
      /\ Dying' = {} /\ Moving' = {} /\ Syncing' = {} /\ CallOK'
  BY <1>0, IdleNext DEF Dying, Moving, Syncing
<1>3. /\ ~IsOpen(n) /\ handle[n] = Closed /\ Head(n) = 0
      /\ \A m \in Name : IsOpen(m)' <=> IsOpen(m)
  BY <1>0, <1>1, EntryHead DEF IsOpen
<1>4. CASE orphans' = orphans \cup {c} /\ entry' = entry
  <2>1. Quiet
    BY <1>0, <1>4 DEF Quiet, Head, IsOpen
  <2>2. NamesOK'
    BY <1>0, <1>3, <1>4 DEF IInv, NamesOK, NameOK
  <2>3. HeadsOK'
    BY <1>0, <1>2, <1>4, <2>1, QuietHeads
  <2>4. OrphansOK'
    BY <1>0, <1>1, <1>2, <1>4, <2>1 DEF OrphansOK, Loose, Quiet, IInv
  <2>5. PathsOK'
    BY <1>0, <1>2, <1>3, <1>4, KeptPaths
  <2>6. NoneLost'
    <3>1. SUFFICES ASSUME NEW d \in Cluster, fat[d] # Free PROVE Has(d)'
      BY <1>0 DEF NoneLost
    <3>2. Has(d)' \/ d = c
      BY <1>0, <1>n, <1>2, <1>4, <2>1, <3>1, KeptHas DEF Quiet
    <3>3. QED BY <1>4, <3>2 DEF Has
  <2>h. HandlesOK' /\ FilesSaved'
    BY <1>0, <1>2, <1>3, <1>4, KeptHandles, KeptSaved
  <2>7. QED BY <1>2, <2>2, <2>3, <2>4, <2>5, <2>6, <2>h DEF Rest
<1>5. CASE /\ entry' = [entry EXCEPT ![n] = [kind |-> "dir", first |-> c, size |-> 0]]
           /\ orphans' = orphans
  <2>1. /\ \A m \in Name : m # n => entry'[m] = entry[m]
        /\ entry'[n].kind = "dir" /\ entry'[n].first = c /\ entry'[n].size = 0 /\ c # 0
    BY <1>0, <1>5, ClusterFacts
  <2>2. Head(n)' = c /\ \A m \in Name : m # n => Head(m)' = Head(m)
    BY <1>0, <1>3, <2>1 DEF Head, IsOpen
  <2>3. NamesOK'
    <3>1. ASSUME NEW m \in Name, m # n PROVE NameOK(m)'
      BY <1>0, <1>3, <2>1, <3>1 DEF IInv, NamesOK, NameOK
    <3>2. NameOK(n)'
      BY <1>0, <1>3, <2>1 DEF NameOK
    <3>3. QED BY <3>1, <3>2 DEF NamesOK
  <2>4. HeadsOK'
    <3>1. \A m \in Name : Head(m)' # 0 => Start(fat', Head(m)')
      BY <1>0, <1>1, <2>2 DEF HeadsOK, Loose
    <3>2. \A m \in Name \ Dying' : Head(m)' # 0 => fat'[Head(m)'] # Free
      BY <1>0, <1>1, <1>2, <2>2 DEF HeadsOK, Loose
    <3>3. ASSUME NEW p \in Name, NEW q \in Name, p # q, Head(p)' = Head(q)', Head(p)' # 0
          PROVE  {p, q} \subseteq Moving'
      BY <1>1, <1>2, <2>2, <3>3 DEF HeadsOK, Loose
    <3>4. \A m \in Name : m # n /\ entry'[m].first # 0 => Start(durable', entry'[m].first)
      BY <1>0, <2>1, NextEntryStart
    <3>5. Start(durable', c)
      BY <1>0, <1>1 DEF IInv, TablesOK, DiskBehind, Start, Loose
    <3>6. QED BY <2>1, <3>1, <3>2, <3>3, <3>4, <3>5 DEF HeadsOK
  <2>5. OrphansOK'
    <3>1. SpareOrphans
      BY <1>1, <1>2, <2>2 DEF SpareOrphans
    <3>2. QED BY <1>0, <1>5, <3>1, KeptOrphans
  <2>6. PathsOK'
    BY <1>0, <1>2, <1>3, <2>1, KeptPaths, EmptyHas
  <2>7. NoneLost'
    <3>1. SUFFICES ASSUME NEW d \in Cluster, fat[d] # Free PROVE Has(d)'
      BY <1>0 DEF NoneLost
    <3>2. Has(d)' \/ d = c
      BY <1>0, <1>n, <1>2, <1>3, <1>5, <2>2, <3>1, KeptHas
    <3>3. c \in Chain(fat', Head(n)')
      BY <2>2, ChainHasHead
    <3>4. QED BY <1>2, <3>2, <3>3 DEF Has
  <2>h. HandlesOK' /\ FilesSaved'
    BY <1>0, <1>2, <1>3, <2>1, KeptHandles, KeptSaved DEF HeadSaved
  <2>8. QED BY <1>2, <2>3, <2>4, <2>5, <2>6, <2>7, <2>h DEF Rest
<1>6. QED BY <1>0, <1>4, <1>5

\* The first write of a file
LEMMA WriteFirstKeeps ==
    ASSUME IInv, NEW n \in Name, NEW k \in 1 .. MaxSize, Write(n, k), NEW c \in Cluster, Allocate(c),
           handle[n].first = 0, handle' = [handle EXCEPT ![n].first = c, ![n].at = c, ![n].dirty = TRUE],
           Writing(n, k, c)
    PROVE  Rest'
<1>0. /\ [Next]_vars /\ call = Idle /\ entry' = entry /\ orphans' = orphans
      /\ handle \in [Name -> Handle] /\ fat \in [Cluster -> Link] /\ IsOpen(n)
      /\ behind' = IF handle[n].full /\ handle[n].pos # 0 THEN behind \cup {n} ELSE behind
      /\ handle[n].pos + k =< MaxSize
      /\ call' = [op |-> "piece", name |-> n, at |-> c, left |-> k, got |-> 0]
      /\ fat[c] = Free /\ fat' = [fat EXCEPT ![c] = Eoc]
  BY Sorts, InvTables, AllocateDoes DEF Next, Write, Writing, IInv
<1>p. handle[n].pos = 0 /\ handle[n].full /\ behind' = behind
  BY <1>0 DEF IInv, HandlesOK, AtOK
<1>1. /\ handle'[n].first = c /\ handle'[n].at = c /\ handle'[n].full /\ handle'[n].dirty = TRUE
      /\ handle'[n].size = handle[n].size /\ handle'[n].pos = 0
      /\ \A m \in Name : m # n => handle'[m] = handle[m]
      /\ \A m \in Name : IsOpen(m)' <=> IsOpen(m)
      /\ IsOpen(n)
  BY <1>0, <1>p DEF Handle, IsOpen
<1>2. /\ Dying = {} /\ Moving = {} /\ Syncing = {} /\ call.op = "idle" /\ ~Links /\ ~Frees1
      /\ Dying' = {} /\ Moving' = {} /\ Syncing' = {}
  BY <1>0, IdleNow DEF Dying, Moving, Syncing
<1>3. Head(n) = 0 /\ Head(n)' = c /\ \A m \in Name : m # n => Head(m)' = Head(m)
  BY <1>0, <1>1 DEF Head
<1>4. NameOK(n) /\ HeadsOK
  BY DEF IInv, NamesOK
<1>5. /\ Start(fat, c) /\ c \notin orphans /\ \A m \in Name : Head(m) # c
      /\ fat'[c] = Eoc /\ Start(fat', c)
  BY <1>0, <1>2, UnusedIsStart, NextStart
<1>6. NamesOK'
  <2>1. ASSUME NEW m \in Name, m # n PROVE NameOK(m)'
    BY <1>0, <1>1, <2>1 DEF IInv, NamesOK, NameOK
  <2>2. NameOK(n)'
    BY <1>0, <1>1, <1>4 DEF NameOK
  <2>3. QED BY <2>1, <2>2 DEF NamesOK
<1>7. HeadsOK'
  <2>1. ASSUME NEW m \in Name, Head(m)' # 0
        PROVE  Start(fat', Head(m)') /\ fat'[Head(m)'] # Free
    <3>1. CASE m = n
      BY <1>3, <1>5, <3>1, ClusterFacts
    <3>2. CASE m # n
      <4>1. Head(m)' = Head(m) /\ Head(m) \in Cluster /\ Start(fat, Head(m)) /\ fat[Head(m)] # Free
        BY <1>2, <1>3, <1>4, <2>1, <3>2, HeadSort DEF HeadsOK, IInv
      <4>2. QED BY <1>0, <1>2, <4>1, NextStart, NextUsed
    <3>3. QED BY <3>1, <3>2
  <2>2. ASSUME NEW p \in Name, NEW q \in Name, p # q, Head(p)' = Head(q)', Head(p)' # 0
        PROVE  {p, q} \subseteq Moving'
    BY <1>2, <1>3, <1>4, <1>5, <2>2 DEF HeadsOK
  <2>3. \A m \in Name : entry'[m].first # 0 => Start(durable', entry'[m].first)
    BY <1>0, NextEntryStart
  <2>4. QED BY <2>1, <2>2, <2>3 DEF HeadsOK
<1>8. OrphansOK'
  <2>1. SpareOrphans
    BY <1>2, <1>3, <1>5 DEF SpareOrphans
  <2>2. QED BY <1>0, <2>1, KeptOrphans
<1>9. PathsOK'
  <2>1. n \notin behind => handle[n].size = 0
    <3> SUFFICES ASSUME n \notin behind PROVE handle[n].size = 0
      OBVIOUS
    <3>1. handle[n].size \in Nat
      BY Sorts DEF IInv
    <3>2. PICK p : Path(fat, 0, handle[n].size, p)
      BY <1>1 DEF IInv, PathsOK, HasPath
    <3>3. handle[n].size # 0 => 1 \in 1 .. handle[n].size
      BY <3>1
    <3>4. QED BY <3>2, <3>3, ClusterFacts DEF Path
  <2>2. n \notin behind => HasPath(n)'
    BY <1>1, <2>1, EmptyHas
  <2>3. QED BY <1>0, <1>p, <1>1, <1>2, <2>2, KeptPaths
<1>h. HandlesOK' /\ FilesSaved'
  <2>0. PICK p : Path(fat', c, 1, p) /\ p[1] = c
    BY PathOfOne
  <2>1. c \in Chain(fat', c) /\ AtPath(n)'
    BY <1>1, <2>0, ChainHasHead DEF AtPath
  <2>2. AtOK(n)'
    BY <1>1, <2>1 DEF AtOK
  <2>3. QED BY <1>0, <1>p, <1>1, <1>2, <2>2, KeptHandles, KeptSaved
<1>10. CallOK'
  <2>1. AtLength(1)'
    <3>1. PICK p : Path(fat', c, 1, p) /\ p[1] = c
      BY PathOfOne
    <3>2. QED BY <1>0, <1>1, <3>1 DEF AtLength
  <2>2. WritingOK'
    <3>1. c \in Chain(fat', c) /\ Reached' = 1
      BY <1>0, <1>1, ChainHasHead DEF Reached
    <3>2. QED BY <1>0, <1>p, <1>1, <2>1, <3>1 DEF WritingOK
  <2>3. QED BY <1>0, <2>2 DEF CallOK
<1>11. NoneLost'
  <2>1. SUFFICES ASSUME NEW d \in Cluster, fat'[d] # Free PROVE Has(d)'
    BY DEF NoneLost
  <2>2. CASE d = c
    <3>1. c \in Chain(fat', Head(n)')
      BY <1>3, ChainHasHead
    <3>2. QED BY <1>2, <2>2, <3>1 DEF Has
  <2>3. CASE d # c
    BY <1>0, <1>2, <1>3, <2>1, <2>3, KeptHas
  <2>4. QED BY <2>2, <2>3
<1>12. QED BY <1>6, <1>7, <1>8, <1>9, <1>10, <1>11, <1>h DEF Rest

LEMMA WriteKeeps == ASSUME IInv, NEW n \in Name, NEW k \in 1 .. MaxSize, Write(n, k) PROVE Rest'
<1>0. /\ [Next]_vars /\ call = Idle /\ entry' = entry /\ orphans' = orphans /\ IsOpen(n)
      /\ behind' = IF handle[n].full /\ handle[n].pos # 0 THEN behind \cup {n} ELSE behind
      /\ handle[n].pos + k =< MaxSize
  BY DEF Next, Write
<1>a. AtOK(n) /\ behind \subseteq behind'
  BY <1>0 DEF IInv, HandlesOK
<1>1. ASSUME handle' = handle, fat' = fat, call' = Idle \/ (handle[n].first # 0 /\ Writing(n, k, handle[n].at))
      PROVE  Rest'
  <2>1. /\ Dying = {} /\ Moving = {} /\ Syncing = {} /\ call.op = "idle"
        /\ Dying' = {} /\ Moving' = {} /\ Syncing' = {}
    BY <1>0, <1>1, IdleNow DEF Dying, Moving, Syncing, Writing, Idle
  <2>2. Quiet /\ \A m \in Name : IsOpen(m)' <=> IsOpen(m)
    BY <1>0, <1>1 DEF Quiet, Head, IsOpen
  <2>3. NamesOK'
    BY <1>0, <1>1, <2>2 DEF IInv, NamesOK, NameOK
  <2>4. HeadsOK'
    BY <1>0, <2>1, <2>2, QuietHeads
  <2>5. OrphansOK'
    BY <1>0, <2>1, <2>2, QuietOrphans DEF Quiet
  <2>6. PathsOK' /\ HandlesOK' /\ FilesSaved'
    BY <1>0, <1>a, <1>1, <2>1, <2>2, KeptPaths, KeptHandles, KeptSaved
  <2>7. CallOK'
    <3>1. CASE call' = Idle
      BY <3>1, IdleNext
    <3>2. CASE handle[n].first # 0 /\ Writing(n, k, handle[n].at)
      <4>1. call' = [op |-> "piece", name |-> n, at |-> handle[n].at, left |-> k, got |-> 0]
        BY <3>2 DEF Writing
      <4>2. n \notin behind' => AtLength(Reached)'
        <5> SUFFICES ASSUME n \notin behind' PROVE AtLength(Reached)'
          OBVIOUS
        <5>1. AtPath(n) /\ (handle[n].full => handle[n].pos = 0) /\ (handle[n].pos = 0 => handle[n].full)
          BY <1>0, <1>a, <3>2 DEF AtOK
        <5>2. Reached' = IF handle[n].pos = 0 THEN 1 ELSE handle[n].pos
          BY <1>1, <4>1, <5>1 DEF Reached
        <5>3. PICK p : Path(fat, handle[n].first, Reached', p) /\ p[Reached'] = handle[n].at
          BY <5>1, <5>2 DEF AtPath
        <5>4. Reached' # 0
          BY <5>2
        <5>5. QED BY <1>1, <4>1, <5>3, <5>4 DEF AtLength
      <4>3. WritingOK'
        <5>1. handle[n].at \in Chain(fat, handle[n].first)
          BY <1>a, <3>2 DEF AtOK
        <5>2. QED BY <1>0, <1>1, <4>1, <4>2, <5>1 DEF WritingOK, IsOpen
      <4>4. QED BY <4>1, <4>3 DEF CallOK
    <3>3. QED BY <1>1, <3>1, <3>2
  <2>8. NoneLost'
    BY <1>0, <1>1, <2>1, <2>2, PlainNone DEF Quiet
  <2>9. QED BY <2>3, <2>4, <2>5, <2>6, <2>7, <2>8 DEF Rest
<1>2. QED BY <1>0, <1>1, WriteFirstKeeps DEF Write, AllocateFail

\* Where the call is stays so many clusters into the file.
LEMMA NextAtLength ==
    ASSUME IInv, [Next]_vars, call.op \in {"piece", "next", "extend"}, NEW k \in Nat, AtLength(k)
    PROVE  \E p : /\ Path(fat', handle[call.name].first, k, p)
                  /\ k # 0 /\ p[k] = call.at /\ k \in 1 .. k
<1>1. call.name \in Name \ Dying /\ Head(call.name) = handle[call.name].first
  BY Writer
<1>2. PICK p : Path(fat, Head(call.name), k, p) /\ k # 0 /\ p[k] = call.at
  BY <1>1 DEF AtLength
<1>3. Path(fat', Head(call.name), k, p)
  BY <1>1, <1>2, NextPath
<1>4. QED BY <1>1, <1>2, <1>3

LEMMA WritePieceKeeps == ASSUME IInv, WritePiece PROVE Rest'
<1>n. PICK n \in Name, c \in Cluster : n = call.name /\ c = call.at
  BY Writer DEF WritePiece
<1> DEFINE h == handle[n]
           np == IF h.full THEN h.pos + 1 ELSE h.pos
           grown == np > h.size
           left == call.left
<1>0. /\ [Next]_vars /\ call.op = "piece" /\ entry' = entry /\ fat' = fat /\ orphans' = orphans
      /\ behind' = behind /\ handle \in [Name -> Handle] /\ h \in Handle
      /\ call' = IF call.left = 1 THEN Idle ELSE [call EXCEPT !.op = "next", !.left = call.left - 1]
  BY <1>n, Sorts DEF Next, Turn, WritePiece, IInv
<1>f. PICK full \in BOOLEAN :
        /\ call.left # 1 => full
        /\ handle' = [handle EXCEPT ![n] =
                        [h EXCEPT !.pos = np, !.full = full, !.at = c,
                                  !.size = IF grown THEN np ELSE h.size,
                                  !.dirty = h.dirty \/ grown]]
  BY <1>n DEF WritePiece
<1>1. /\ call \in Writes /\ IsOpen(n) /\ WritingOK /\ call.got = 0
      /\ left \in 1 .. MaxSize /\ h.pos \in 0 .. MaxSize /\ h.pos + left =< MaxSize
      /\ Dying = {} /\ Moving = {} /\ Syncing = {} /\ h.size \in Nat
      /\ h.first \in Cluster /\ c \in Chain(fat, h.first)
  BY <1>0, <1>n, Writer DEF WritingOK, IsOpen, Handle
<1>p. np \in Nat /\ np # 0 /\ np \in 1 .. MaxSize /\ np + (left - 1) =< MaxSize
  <2>1. h.pos = 0 => h.full
    BY <1>1 DEF IInv, HandlesOK, AtOK
  <2>2. MaxSize \in Nat
    BY VolumeAssumption
  <2>3. QED BY <1>1, <2>1, <2>2
<1>a. n \notin behind => AtLength(np)
  BY <1>0, <1>1, <1>n DEF WritingOK, Reached
<1> HIDE DEF np
<1>2. /\ handle'[n].pos = np /\ handle'[n].first = h.first /\ handle'[n].at = c
      /\ handle'[n].size = IF grown THEN np ELSE h.size
      /\ (handle'[n].dirty <=> h.dirty \/ grown) /\ handle'[n].full = full
      /\ \A m \in Name : m # n => handle'[m] = handle[m]
  BY <1>0, <1>f DEF Handle
<1>3. \A m \in Name : IsOpen(m)' <=> IsOpen(m)
  BY <1>0, <1>1, <1>2, <1>p DEF IsOpen
<1>4. call' = Idle \/ (/\ call'.op = "next" /\ call'.left = left - 1 /\ call'.at = c
                       /\ call'.name = n /\ call'.got = 0 /\ full)
  BY <1>0, <1>1, <1>f, <1>n DEF Writes
<1>5. Dying' = {} /\ Moving' = {} /\ Syncing' = {}
  BY <1>4, IdleNext DEF Dying, Moving, Syncing
<1>6. Quiet
  BY <1>0, <1>2, <1>3 DEF Quiet, Head
<1>7. NamesOK'
  <2>1. ASSUME NEW m \in Name, m # n PROVE NameOK(m)'
    BY <1>0, <1>2, <1>3, <2>1 DEF IInv, NamesOK, NameOK
  <2>2. NameOK(n)
    BY DEF IInv, NamesOK
  <2>3. NameOK(n)'
    BY <1>0, <1>1, <1>2, <1>3, <2>2 DEF NameOK
  <2>4. QED BY <2>1, <2>3 DEF NamesOK
<1>8. HeadsOK'
  BY <1>0, <1>1, <1>5, <1>6, QuietHeads
<1>9. OrphansOK'
  BY <1>0, <1>1, <1>5, <1>6, QuietOrphans DEF Quiet
<1>10. PathsOK'
  <2>1. CASE grown /\ n \notin behind
    <3>1. PICK p : Path(fat, h.first, np, p)
      BY <1>a, <1>n, <2>1 DEF AtLength
    <3>2. HasPath(n)'
      BY <1>0, <1>2, <2>1, <3>1 DEF HasPath
    <3>3. QED BY <1>0, <1>1, <1>2, <1>3, <1>5, <3>2, KeptPaths
  <2>2. CASE ~(grown /\ n \notin behind)
    BY <1>0, <1>1, <1>2, <1>3, <1>5, <2>2, KeptPaths
  <2>3. QED BY <2>1, <2>2
<1>h. HandlesOK' /\ FilesSaved'
  <2>1. n \notin behind => AtPath(n)'
    <3> SUFFICES ASSUME n \notin behind PROVE AtPath(n)'
      OBVIOUS
    <3>1. PICK p : Path(fat, h.first, np, p) /\ p[np] = c
      BY <1>a, <1>n DEF AtLength
    <3>2. QED BY <1>0, <1>2, <1>p, <3>1 DEF AtPath
  <2>2. AtOK(n)'
    BY <1>0, <1>1, <1>2, <1>p, <2>1, ClusterFacts DEF AtOK
  <2>3. QED BY <1>0, <1>1, <1>2, <1>3, <1>5, <2>2, KeptHandles, KeptSaved
<1>11. CallOK'
  <2>1. CASE call' = Idle
    BY <2>1, IdleNext
  <2>2. CASE /\ call'.op = "next" /\ call'.left = left - 1 /\ call'.at = c
             /\ call'.name = n /\ call'.got = 0 /\ full
    <3>1. n \notin behind => \E p : Path(fat, h.first, np, p) /\ p[np] = c
      BY <1>a, <1>n DEF AtLength
    <3>2. Reached' = np
      BY <1>2, <2>2 DEF Reached
    <3>3. handle'[n].pos # -1 /\ handle'[n].pos + call'.left =< MaxSize
      BY <1>2, <1>p, <2>2
    <3>4. c \in Chain(fat', handle'[n].first) /\ handle'[n].full
      BY <1>0, <1>1, <1>2, <2>2
    <3>5. n \notin behind => AtLength(Reached)'
      BY <1>0, <1>2, <1>p, <2>2, <3>1, <3>2 DEF AtLength
    <3>6. WritingOK'
      BY <1>0, <2>2, <3>3, <3>4, <3>5 DEF WritingOK
    <3>7. QED BY <2>2, <3>6 DEF CallOK
  <2>3. QED BY <1>4, <2>1, <2>2
<1>12. NoneLost'
  BY <1>0, <1>1, <1>5, <1>6, KeptHas DEF NoneLost, Quiet
<1>13. QED BY <1>7, <1>8, <1>9, <1>10, <1>11, <1>12, <1>h DEF Rest

\* The steps of a write that change no handle
LEMMA WriteQuiet ==
    ASSUME IInv, WriteNext \/ WriteAllocate \/ WriteExtend
    PROVE  /\ NamesOK' /\ HeadsOK' /\ OrphansOK' /\ PathsOK' /\ HandlesOK' /\ FilesSaved'
           /\ [Next]_vars /\ Quiet /\ Dying = {} /\ Dying' = {} /\ orphans' = orphans
           /\ handle' = handle /\ entry' = entry /\ behind' = behind
<1>0. /\ [Next]_vars /\ call.op \in {"next", "extend"} /\ handle' = handle /\ entry' = entry
      /\ orphans' = orphans /\ behind' = behind
  BY DEF Next, Turn, WriteNext, WriteAllocate, WriteExtend
<1>1. Dying = {} /\ Moving = {} /\ Syncing = {} /\ call \in Writes
  BY <1>0, Writer
<1>2. call' = Idle \/ call'.op \in {"piece", "extend"}
  BY <1>1 DEF WriteNext, WriteAllocate, WriteExtend, Writes
<1>3. Dying' = {} /\ Moving' = {} /\ Syncing' = {}
  BY <1>2, IdleNext DEF Dying, Moving, Syncing
<1>4. Quiet /\ \A m \in Name : IsOpen(m)' <=> IsOpen(m)
  BY <1>0 DEF Quiet, Head, IsOpen
<1>5. NamesOK'
  BY <1>0, <1>4 DEF IInv, NamesOK, NameOK
<1>6. HeadsOK'
  BY <1>0, <1>1, <1>3, <1>4, QuietHeads
<1>7. OrphansOK'
  BY <1>0, <1>1, <1>3, <1>4, QuietOrphans DEF Quiet
<1>8. PathsOK' /\ HandlesOK' /\ FilesSaved'
  BY <1>0, <1>1, <1>3, <1>4, KeptPaths, KeptHandles, KeptSaved
<1>9. QED BY <1>0, <1>1, <1>3, <1>4, <1>5, <1>6, <1>7, <1>8

LEMMA WriteNextKeeps == ASSUME IInv, WriteNext PROVE Rest'
<1>n. PICK n \in Name, c \in Cluster : n = call.name /\ c = call.at
  BY Writer DEF WriteNext
<1> DEFINE pos == handle[n].pos
           first == handle[n].first
<1>0. /\ call.op = "next" /\ call.got = 0 /\ fat' = fat
      /\ call' = IF fat[c] = Eoc THEN [call EXCEPT !.op = "extend"]
                 ELSE [call EXCEPT !.op = "piece", !.at = fat[c]]
  BY <1>n DEF WriteNext, GetEntry
<1>1. /\ call \in Writes /\ WritingOK /\ fat[c] # Free /\ fat[c] \in Link /\ pos \in Nat
      /\ pos + call.left =< MaxSize /\ handle[n].full /\ c \in Chain(fat, first)
      /\ n \notin behind => AtLength(pos)
  BY <1>0, <1>n, Writer, Sorts DEF WritingOK, Reached, IInv
<1>3. CASE fat[c] = Eoc
  <2>1. /\ call'.op = "extend" /\ call'.name = n /\ call'.at = c /\ call'.got = 0
        /\ call'.left = call.left
    BY <1>0, <1>1, <1>3, <1>n DEF Writes
  <2>2. n \notin behind => AtLength(Reached)'
    BY <1>0, <1>1, <1>n, <2>1, WriteQuiet DEF AtLength, Reached
  <2>3. WritingOK'
    BY <1>0, <1>1, <1>3, <2>1, <2>2, WriteQuiet DEF WritingOK
  <2>4. CallOK'
    BY <2>1, <2>3 DEF CallOK
  <2>5. QED BY <1>0, <2>4, WriteQuiet, KeptHas DEF Rest, NoneLost, Quiet
<1>4. CASE fat[c] # Eoc
  <2>1. fat[c] \in Cluster
    BY <1>1, <1>4, ClusterFacts
  <2>2. /\ call'.op = "piece" /\ call'.name = n /\ call'.at = fat[c] /\ call'.got = 0
        /\ call'.left = call.left
    BY <1>0, <1>1, <1>4, <1>n DEF Writes
  <2>3. n \notin behind => AtLength(Reached)'
    <3> SUFFICES ASSUME n \notin behind PROVE AtLength(Reached)'
      OBVIOUS
    <3>1. PICK p : Path(fat, first, pos, p) /\ pos # 0 /\ p[pos] = c
      BY <1>1, <1>n DEF AtLength
    <3>2. PICK q : Path(fat, first, pos + 1, q) /\ q[pos + 1] = fat[c]
      BY <1>1, <2>1, <3>1, PathNext
    <3>3. Reached' = pos + 1 /\ pos + 1 # 0
      BY <1>1, <2>2, WriteQuiet DEF Reached
    <3>4. QED BY <1>0, <2>2, <3>2, <3>3, WriteQuiet DEF AtLength
  <2>4. fat[c] \in Chain(fat', first)
    BY <1>0, <1>1, <2>1, ChainIsClosed DEF LinkClosed
  <2>5. WritingOK'
    BY <1>0, <1>1, <2>2, <2>3, <2>4, WriteQuiet DEF WritingOK
  <2>6. CallOK'
    BY <2>2, <2>5 DEF CallOK
  <2>7. QED BY <1>0, <2>6, WriteQuiet, KeptHas DEF Rest, NoneLost, Quiet
<1>5. QED BY <1>3, <1>4

LEMMA WriteAllocateKeeps == ASSUME IInv, WriteAllocate PROVE Rest'
<1>n. PICK n \in Name, c \in Cluster : n = call.name /\ c = call.at
  BY Writer DEF WriteAllocate
<1> DEFINE pos == handle[n].pos
           first == handle[n].first
<1>0. call.op = "extend" /\ call.got = 0 /\ [Next]_vars
  BY DEF WriteAllocate, Next, Turn
<1>1. /\ call \in Writes /\ WritingOK /\ fat[c] = Eoc /\ pos \in Nat
      /\ pos + call.left =< MaxSize /\ handle[n].full
      /\ Head(n) = first /\ n \notin Dying /\ c \in Chain(fat, Head(n))
      /\ n \notin behind => AtLength(pos)
  BY <1>0, <1>n, Writer, Sorts DEF WritingOK, Reached, IInv
<1>2. c \in Chain(fat', first)
  BY <1>0, <1>1, NextChain
<1>3. CASE AllocateFail /\ call' = Idle
  <2>1. CallOK' /\ fat' = fat
    BY <1>3, IdleNext DEF AllocateFail
  <2>2. NoneLost'
    BY <1>0, <2>1, WriteQuiet, KeptHas, ClusterFacts DEF NoneLost, Quiet
  <2>3. QED BY <2>1, <2>2, WriteQuiet DEF Rest
<1>4. ASSUME NEW d \in Cluster, Allocate(d), call' = [call EXCEPT !.got = d] PROVE Rest'
  <2>1. fat[d] = Free /\ fat' = [fat EXCEPT ![d] = Eoc] /\ fat \in [Cluster -> Link] /\ d # c
    BY <1>1, <1>4, InvTables, AllocateDoes, ClusterFacts DEF IInv, TypeOK
  <2>2. ~Links
    BY <1>0, ClusterFacts DEF Links
  <2>3. Loose(d)' /\ fat'[d] = Eoc /\ d \notin orphans /\ fat'[c] = Eoc
    BY <1>1, <2>1, <2>2, WriteQuiet, NewIsLoose, UnusedIsStart
  <2>4. /\ call'.op = "extend" /\ call'.name = n /\ call'.at = c /\ call'.got = d
        /\ call'.left = call.left
    BY <1>0, <1>1, <1>4, <1>n DEF Writes
  <2>5. n \notin behind => AtLength(Reached)'
    <3> SUFFICES ASSUME n \notin behind PROVE AtLength(Reached)'
      OBVIOUS
    <3>1. PICK p : Path(fat', first, pos, p) /\ pos # 0 /\ p[pos] = c
      BY <1>0, <1>1, <1>n, NextAtLength
    <3>2. QED BY <2>4, <3>1, WriteQuiet DEF AtLength, Reached
  <2>6. Loose(call.got)' /\ call'.got \notin orphans' /\ fat'[call'.got] = Eoc
    BY <2>3, <2>4, WriteQuiet
  <2>7. WritingOK'
    BY <1>1, <1>2, <2>1, <2>3, <2>4, <2>5, <2>6, WriteQuiet DEF WritingOK
  <2>8. CallOK'
    BY <2>4, <2>7 DEF CallOK
  <2>9. NoneLost'
    <3>1. SUFFICES ASSUME NEW e \in Cluster, fat'[e] # Free PROVE Has(e)'
      BY DEF NoneLost
    <3>2. CASE e = d
      BY <2>4, <3>2 DEF Has
    <3>3. CASE e # d
      BY <1>0, <2>1, <3>1, <3>3, WriteQuiet, KeptHas, ClusterFacts DEF Quiet
    <3>4. QED BY <3>2, <3>3
  <2>10. QED BY <2>8, <2>9, WriteQuiet DEF Rest
<1>5. QED BY <1>3, <1>4 DEF WriteAllocate

LEMMA WriteExtendKeeps == ASSUME IInv, WriteExtend PROVE Rest'
<1>n. PICK n \in Name, c \in Cluster, d \in Cluster : n = call.name /\ c = call.at /\ d = call.got
  BY Writer DEF WriteExtend
<1> DEFINE pos == handle[n].pos
           first == handle[n].first
<1>0. /\ call.op = "extend" /\ call.got # 0 /\ [Next]_vars
      /\ fat \in [Cluster -> Link] /\ fat' = [fat EXCEPT ![c] = d]
      /\ call' = [call EXCEPT !.op = "piece", !.at = call.got, !.got = 0]
  BY <1>n, Sorts DEF WriteExtend, SetEntry, Next, Turn, IInv
<1>1. /\ call \in Writes /\ WritingOK /\ fat[c] = Eoc /\ pos \in Nat
      /\ pos + call.left =< MaxSize /\ handle[n].full
      /\ Head(n) = first /\ n \notin Dying /\ c \in Chain(fat, Head(n))
      /\ n \notin behind => AtLength(pos)
  BY <1>0, <1>n, Writer, Sorts DEF WritingOK, Reached, IInv
<1>2. d \in Chain(fat', first)
  <2>1. c \in Chain(fat', first) /\ fat'[c] = d
    BY <1>0, <1>1, NextChain
  <2>2. QED BY <2>1, ChainIsClosed DEF LinkClosed
<1>4. /\ call'.op = "piece" /\ call'.name = n /\ call'.at = d /\ call'.got = 0
      /\ call'.left = call.left
  BY <1>0, <1>1, <1>n DEF Writes
<1>5. n \notin behind => AtLength(Reached)'
  <2> SUFFICES ASSUME n \notin behind PROVE AtLength(Reached)'
    OBVIOUS
  <2>1. PICK p : Path(fat', first, pos, p) /\ pos # 0 /\ p[pos] = c
    BY <1>0, <1>1, <1>n, NextAtLength
  <2>2. pos \in Nat \ {0} /\ fat'[p[pos]] = d
    BY <1>0, <1>1, <2>1
  <2>3. PICK q : Path(fat', first, pos + 1, q) /\ q[pos + 1] = d
    BY <2>1, <2>2, PathNext
  <2>4. Reached' = pos + 1 /\ pos + 1 # 0
    BY <1>1, <1>4, WriteQuiet DEF Reached
  <2>5. QED BY <1>4, <2>3, <2>4, WriteQuiet DEF AtLength
<1>6. WritingOK'
  BY <1>1, <1>2, <1>4, <1>5, WriteQuiet DEF WritingOK
<1>7. CallOK'
  BY <1>4, <1>6 DEF CallOK
<1>8. NoneLost'
  <2>1. SUFFICES ASSUME NEW e \in Cluster, fat'[e] # Free PROVE Has(e)'
    BY DEF NoneLost
  <2>2. d \in Chain(fat', Head(n)')
    BY <1>1, <1>2, WriteQuiet DEF Quiet
  <2>3. CASE e = d
    BY <2>2, <2>3, WriteQuiet DEF Has
  <2>4. CASE e # d
    <3>1. e # c => fat[e] # Free
      BY <1>0, <2>1
    <3>2. fat[c] # Free
      BY <1>1, ClusterFacts
    <3>3. QED BY <1>0, <1>n, <2>4, <3>1, <3>2, WriteQuiet, KeptHas DEF Quiet
  <2>5. QED BY <2>3, <2>4
<1>9. QED BY <1>7, <1>8, WriteQuiet DEF Rest

-----------------------------------------------------------------------------
(* The invariant holds                                                       *)

LEMMA InitIInv == ASSUME Init PROVE IInv
<1>1. \A n \in Name : entry[n] = NoFile /\ handle[n] = Closed
  BY DEF Init
<1>2. \A c \in Cluster : fat[c] = Free /\ durable[c] = Free
  BY DEF Init
<1>3. call = Idle /\ orphans = {} /\ Dying = {} /\ Moving = {} /\ Syncing = {} /\ call.op = "idle"
  BY IdleNow DEF Init
<1>4. TypeOK
  <2>1. NoFile \in Entry /\ 0 \in 0 .. NumClusters /\ 0 \in 0 .. MaxSize /\ -1 \in -1 .. MaxSize
        /\ Free \in Link
    BY VolumeAssumption DEF NoFile, Entry, Free, Link, Eoc
  <2>2. QED BY <2>1, <1>3 DEF Init, TypeOK, Closed, Call
<1>5. CacheOK /\ OrphansOK
  BY <1>2, <1>3 DEF CacheOK, OrphansOK
<1>6. TablesOK
  BY <1>2, ClusterFacts DEF TablesOK, Linear, Leading, DiskBehind
<1>7. \A n \in Name : ~IsOpen(n) /\ Head(n) = 0
  BY <1>1 DEF IsOpen, Closed, Head, NoFile
<1>8. NamesOK
  BY <1>1, <1>7 DEF NamesOK, NameOK, NoFile
<1>9. HeadsOK
  BY <1>1, <1>7 DEF HeadsOK, NoFile
<1>10. PathsOK
  BY <1>1, <1>3, <1>7, EmptyPath DEF PathsOK, OnBoth, Saved, NoFile
<1>h. HandlesOK /\ FilesSaved
  BY <1>1, <1>7 DEF HandlesOK, FilesSaved, HeadSaved, NoFile
<1>11. CallOK
  BY <1>3 DEF CallOK
<1>12. NoneLost
  BY <1>2 DEF NoneLost
<1>13. QED BY <1>4, <1>5, <1>6, <1>8, <1>9, <1>10, <1>11, <1>12, <1>h DEF IInv

LEMMA StutterKeeps == ASSUME IInv, UNCHANGED vars PROVE Rest'
<1>1. /\ entry' = entry /\ handle' = handle /\ fat' = fat /\ durable' = durable
      /\ cached' = cached /\ call' = call /\ orphans' = orphans /\ behind' = behind
  BY DEF vars
<1>2. NamesOK' /\ HeadsOK' /\ OrphansOK'
  BY <1>1 DEF IInv, NamesOK, NameOK, IsOpen, HeadsOK, Head, Dying, Moving, OrphansOK, Loose, Start
<1>3. PathsOK'
  BY <1>1 DEF IInv, PathsOK, HasPath, OnBoth, Saved, IsOpen, Dying, Syncing
<1>h. HandlesOK' /\ FilesSaved'
  BY <1>1 DEF IInv, HandlesOK, AtOK, AtPath, FilesSaved, HeadSaved, IsOpen, Dying, Syncing
<1>4. CallOK'
  <2>1. call.op \in {"piece", "next", "extend"} => WritingOK'
    BY <1>1 DEF IInv, CallOK, WritingOK, Reached, AtLength, Loose, Start, Dying, Head, IsOpen
  <2>2. QED BY <1>1, <2>1 DEF IInv, CallOK, Loose, Start, IsOpen, Exists, Dying, Head
<1>5. NoneLost'
  BY <1>1 DEF IInv, NoneLost, Has, Dying, Head, IsOpen
<1>6. QED BY <1>2, <1>3, <1>4, <1>5, <1>h DEF Rest

LEMMA NextIInv == ASSUME IInv, [Next]_vars PROVE IInv'
<1>1. TypeOK' /\ CacheOK' /\ TablesOK'
  BY NextTypeOK, NextTables, NextTablesOK
<1>2. Rest'
  BY CreateKeeps, OpenKeeps, CloseKeeps, CloseSyncKeeps, DeleteKeeps, FreeOneKeeps, FreeEndKeeps,
     UnlinkKeeps, RenameKeeps, MkdirKeeps, MkdirWriteKeeps, MkdirEntryKeeps, WriteKeeps,
     WritePieceKeeps, WriteNextKeeps, WriteAllocateKeeps, WriteExtendKeeps, StutterKeeps
     DEF Next, Turn
<1>3. QED BY <1>1, <1>2 DEF IInv, Rest

THEOREM AlwaysIInv == Spec => []IInv
BY InitIInv, NextIInv, PTL DEF Spec

-----------------------------------------------------------------------------
(* What follows from it                                                      *)

LEMMA BusyHas == ASSUME IInv PROVE Dying \subseteq Busy /\ Moving \subseteq Busy /\ Syncing \subseteq Busy
  BY IdleNow DEF Dying, Moving, Syncing, Busy

\* Any two names not of one rename have chains that share nothing.
LEMMA HeadsApart ==
    ASSUME IInv, NEW n \in Name, NEW m \in Name, n # m, ~ ({n, m} \subseteq Busy)
    PROVE  Chain(fat, Head(n)) \cap Chain(fat, Head(m)) = {}
<1>1. CASE Head(n) = 0 \/ Head(m) = 0
  BY <1>1, ChainOfNone, ClusterFacts
<1>2. CASE Head(n) # 0 /\ Head(m) # 0
  <2>1. Head(n) # Head(m) /\ Start(fat, Head(n)) /\ Start(fat, Head(m)) /\ Linear(fat)
    BY <1>2, BusyHas DEF IInv, HeadsOK, TablesOK
  <2>2. QED BY <2>1, ChainsApart
<1>3. QED BY <1>1, <1>2

LEMMA FatPath ==
    ASSUME IInv, NEW n \in Name \ (Busy \cup behind)
    PROVE  Size(n) \in Nat /\ \E p : Path(fat, Head(n), Size(n), p)
<1>1. n \notin Dying \cup Syncing /\ NameOK(n)
  BY BusyHas DEF IInv, NamesOK
<1>2. CASE IsOpen(n)
  BY <1>2, Sorts DEF IInv, PathsOK, HasPath, Head, Size
<1>3. CASE ~IsOpen(n) /\ entry[n].kind = "dir"
  <2>1. entry[n].first \in Cluster
    BY <1>1, <1>3, EntryHead DEF NameOK
  <2>2. Size(n) = 1 /\ Head(n) = entry[n].first
    BY <1>3 DEF Size, Need, Head
  <2>3. QED BY <2>1, <2>2, PathOfOne
<1>4. CASE ~IsOpen(n) /\ entry[n].kind # "dir"
  BY <1>1, <1>4, Sorts DEF IInv, PathsOK, OnBoth, Head, Size, Need
<1>5. QED BY <1>2, <1>3, <1>4

LEMMA ChainsOwned == ASSUME IInv PROVE ChainsAreOwn
<1>1. ASSUME NEW n \in Name \ (Busy \cup behind) PROVE Whole(fat, Head(n), Size(n))
  <2>1. Size(n) \in Nat
    BY FatPath
  <2>2. PICK p : Path(fat, Head(n), Size(n), p)
    BY FatPath
  <2>3. n \in Name \ Dying
    BY BusyHas
  <2>4. \A i \in 1 .. Size(n) : fat[p[i]] # Free
    <3>1. \A i \in 1 .. Size(n) : p[i] \in Chain(fat, Head(n))
      BY <2>1, <2>2, PathInChain
    <3>2. QED BY <2>3, <3>1, HeadInUse
  <2>5. Size(n) # 0 => Start(fat, Head(n))
    <3>1. ASSUME Size(n) # 0 PROVE Head(n) # 0
      <4>1. 1 \in 1 .. Size(n)
        BY <2>1, <3>1
      <4>2. QED BY <2>2, <3>1, <4>1, ClusterFacts DEF Path
    <3>2. QED BY <3>1 DEF IInv, HeadsOK
  <2>6. QED BY <2>1, <2>2, <2>4, <2>5, PathIsWhole DEF IInv, TablesOK
<1>2. ASSUME NEW n \in Name \ Busy PROVE Used(fat, Chain(fat, Head(n)))
  BY BusyHas, HeadInUse DEF Used
<1>3. call.op = "piece" => call.name \in Name /\ call.at \in Chain(fat, Head(call.name))
  BY Writer
<1>4. QED BY <1>1, <1>2, <1>3, HeadsApart DEF ChainsAreOwn

LEMMA FilesOnDisk == ASSUME IInv PROVE FilesSurvive
<1>1. ASSUME NEW n \in Name \ (Busy \cup behind) PROVE Whole(durable, entry[n].first, entry[n].size)
  <2> DEFINE k == entry[n].size
  <2>1. k \in Nat /\ n \notin Dying \cup Syncing
    BY Sorts, BusyHas DEF IInv
  <2>2. PICK p : Path(durable, entry[n].first, k, p) /\ Saved(p)
    BY <2>1 DEF IInv, PathsOK, OnBoth
  <2>3. \A i \in 1 .. k : durable[p[i]] # Free
    BY <2>2 DEF Path, Saved
  <2>4. k # 0 => Start(durable, entry[n].first)
    <3>1. ASSUME k # 0 PROVE entry[n].first # 0
      <4>1. 1 \in 1 .. k
        BY <2>1, <3>1
      <4>2. QED BY <2>2, <3>1, <4>1, ClusterFacts DEF Path
    <3>2. QED BY <3>1 DEF IInv, HeadsOK
  <2> HIDE DEF k
  <2>5. Whole(durable, entry[n].first, k)
    BY <2>1, <2>2, <2>3, <2>4, PathIsWhole DEF IInv, TablesOK
  <2>6. QED BY <2>5 DEF k
<1>2. ASSUME NEW n \in Name \ Busy, entry[n].kind = "file"
      PROVE  Used(durable, Chain(durable, entry[n].first))
  <2>1. Leading(durable) /\ HeadSaved(n) /\ entry[n].first \in Cluster \cup {0}
    BY <1>2, Sorts, BusyHas DEF IInv, TablesOK, FilesSaved
  <2>2. entry[n].first \in Cluster => durable[entry[n].first] # Free
    BY <1>2, <2>1, ClusterFacts DEF HeadSaved
  <2>3. QED BY <2>1, <2>2, ChainInUse DEF Used
<1>3. ASSUME NEW n \in Name, NEW m \in Name, n # m, ~ ({n, m} \subseteq Busy)
      PROVE  Chain(durable, entry[n].first) \cap Chain(durable, entry[m].first) = {}
  <2>1. CASE entry[n].first = 0 \/ entry[m].first = 0
    BY <2>1, ChainOfNone, ClusterFacts
  <2>2. CASE entry[n].first # 0 /\ entry[m].first # 0
    <3>1. entry[n].first = Head(n) /\ entry[m].first = Head(m)
      BY <2>2, EntryHead
    <3>2. /\ entry[n].first # entry[m].first /\ Linear(durable)
          /\ Start(durable, entry[n].first) /\ Start(durable, entry[m].first)
      BY <1>3, <2>2, <3>1, BusyHas DEF IInv, HeadsOK, TablesOK
    <3>3. QED BY <3>2, ChainsApart
  <2>3. QED BY <2>1, <2>2
<1>5. QED BY <1>1, <1>2, <1>3 DEF FilesSurvive

LEMMA NoneIsLost == ASSUME IInv PROVE NoLostCluster
<1> SUFFICES ASSUME call = Idle, \A n \in Name : ~IsOpen(n)
             PROVE  {c \in Cluster : fat[c] # Free}
                      = orphans \cup UNION {Chain(fat, entry[n].first) : n \in Name}
  BY DEF NoLostCluster
<1>1. Dying = {} /\ call.op = "idle"
  BY IdleNow
<1>2. \A n \in Name : Head(n) = entry[n].first
  BY EntryHead
<1>3. ASSUME NEW c \in Cluster, fat[c] # Free
      PROVE  c \in orphans \/ \E n \in Name : c \in Chain(fat, entry[n].first)
  <2>1. Has(c)
    BY <1>3 DEF IInv, NoneLost
  <2>2. QED BY <1>1, <1>2, <2>1 DEF Has
<1>4. ASSUME NEW c \in orphans PROVE c \in Cluster /\ fat[c] # Free
  BY DEF IInv, TypeOK, OrphansOK, Loose
<1>5. ASSUME NEW n \in Name, NEW c \in Chain(fat, entry[n].first) PROVE c \in Cluster /\ fat[c] # Free
  BY <1>1, <1>2, HeadInUse
<1>6. QED BY <1>3, <1>4, <1>5

\* The FAT on the disk never links to a cluster it has as free.
THEOREM LinksLead == Spec => []DiskLinksLead
<1>1. IInv => DiskLinksLead
  BY DEF IInv, TablesOK, Leading, DiskLinksLead
<1>2. QED BY <1>1, AlwaysIInv, PTL

\* Between any two steps of the calls of file.c every name has clusters of its own,
\* all of them in use, a write goes to one of its own file, and there are as many as
\* the size says, unless a write to the file began where a cluster ended.
THEOREM FilesKeepTheirClusters == Spec => []ChainsAreOwn
<1>1. IInv => ChainsAreOwn
  BY ChainsOwned
<1>2. QED BY <1>1, AlwaysIInv, PTL

\* Whenever the power goes, the clusters of a file that no call is changing are in
\* use on the disk and no other file's, and all are there, unless a write to the
\* file began where a cluster ended.
THEOREM DiskKeepsFiles == Spec => []FilesSurvive
<1>1. IInv => FilesSurvive
  BY FilesOnDisk
<1>2. QED BY <1>1, AlwaysIInv, PTL

\* With nothing open, a cluster in use is an entry's, or was left by a mkdir for
\* which there was no room.
THEOREM ClustersAreAccounted == Spec => []NoLostCluster
<1>1. IInv => NoLostCluster
  BY NoneIsLost
<1>2. QED BY <1>1, AlwaysIInv, PTL

\* The flush of fat32_close or fat32_delete brings the mark of a directory to
\* the disk.
THEOREM FlushBringsMkdir == Spec => MkdirReachesDisk
<1>1. ASSUME IInv, [Next]_vars
      PROVE  (call.op = "sync" \/ (call.op = "flush" /\ call.then = "unlink")) /\ call' # call =>
                 \A n \in Name : entry[n].kind = "dir" /\ n # call.name =>
                                    durable'[entry[n].first] # Free
  <2> SUFFICES ASSUME call.op \in {"sync", "flush"}, call' # call,
                      NEW n \in Name, entry[n].kind = "dir", n # call.name
               PROVE  durable'[entry[n].first] # Free
    OBVIOUS
  <2>1. CloseSync \/ FreeEnd
    <3>1. call # Idle
      BY DEF Idle
    <3>2. Turn
      BY <1>1, <3>1 DEF Next, Create, Open, Close, Delete, Mkdir, Write, Rename, vars
    <3>3. QED
      BY <3>2 DEF Turn, WritePiece, WriteNext, WriteAllocate, WriteExtend, FreeOne, Unlink,
                  MkdirWrite, MkdirEntry
  <2>2. durable' = fat
    BY <1>1, <2>1, InvTables, FlushDoes DEF CloseSync, FreeEnd
  <2>3. entry[n].first # 0 /\ n \notin Dying /\ Head(n) = entry[n].first
    BY <1>1, EntryHead DEF IInv, NamesOK, NameOK, Dying
  <2>4. QED BY <1>1, <2>2, <2>3 DEF IInv, HeadsOK
<1>2. QED BY <1>1, AlwaysIInv, PTL DEF Spec, MkdirReachesDisk
=============================================================================
