-------------------------- MODULE FileCursor_proofs --------------------------
(* Proofs about FileCursor and FileCopy, for disks, clusters and files of    *)
(* any size: the handle of file.c is a string of bytes with a position, and  *)
(* a copy of at most one cluster is the source.                              *)
EXTENDS FileCopy, FiniteSetTheorems, SequenceTheorems, WellFoundedInduction, TLAPS

-----------------------------------------------------------------------------
(* The invariant                                                             *)

First == IF handle.inUse THEN handle.first ELSE entry.first
Size == IF handle.inUse THEN handle.size ELSE entry.size

\* No two clusters have one successor, and no successor is free.
Linear(map) == \A c, d \in Cluster : c # d /\ map[c] \in Cluster => map[c] # map[d]
Leading(map) == \A c \in Cluster : map[c] \in Cluster => map[map[c]] # Free
Begins(map, c) == c \in Cluster /\ map[c] # Free /\ \A d \in Cluster : map[d] # c

FileOK ==
    /\ Linear(fat) /\ Leading(fat)
    /\ IF First = 0 THEN Size = 0 ELSE Begins(fat, First)

\* What a close that cannot write the entry leaves is a beginning of the file.
EntryOK ==
    IF handle.inUse
    THEN /\ entry.size =< handle.size
         /\ entry.first \in {0, handle.first}
         /\ entry.first = 0 => entry.size = 0
         /\ ~handle.dirty => entry.first = handle.first /\ entry.size = handle.size
    ELSE handle = Closed /\ call = NoCall

CallOK ==
    /\ handle.position =< handle.size
    /\ handle.position = 0 => handle.current = handle.first
    /\ call.op # "none" => call.done < call.size
    /\ call.op = "read" => /\ handle.position + (call.size - call.done) =< handle.size
                           /\ Len(call.out) = call.done
    /\ call.op = "write" => /\ Len(call.bytes) = call.size /\ call.out = <<>>
                            /\ handle.first # 0
                            /\ "behind" \in trouble => "damaged" \in trouble
    /\ "behind" \in trouble => handle.first # 0

\* No transfer failed and no write went to the wrong cluster.
Well == trouble \cap {"failed", "damaged"} = {}

\* Calls do not go on from where a cluster ended, or once did and damaged the file.
Astray == trouble \cap {"behind", "damaged"} # {}

\* While all goes well the chain is as long as the file.
Whole(map, first, size) ==
    \A i \in 0 .. size - 1 : ChainOn(map, first, i \div ClusterSize) \in Cluster
WholeOK == Well => Whole(fat, First, Size)

\* The cursor is on the k-th cluster of the file, and on no other: while all goes
\* well it is there, and afterwards it is there or has left the file.
StandsOn(map, first, current, k, well) ==
    /\ well => current = ChainOn(map, first, k)
    /\ current \in Cluster => \A j \in Nat : ChainOn(map, first, j) = current => j = k
Stands(k) == StandsOn(fat, handle.first, handle.current, k, Well)

Where == handle.position \div ClusterSize
Inside == handle.position % ClusterSize
AtEdge == Inside = 0
CursorOK ==
    Astray \/ /\ \/ Stands(Where)
                 \/ call.op = "none" /\ AtEdge /\ Where > 0 /\ Stands(Where - 1)
              /\ call.op # "none" /\ Well => handle.current \in Cluster

IInv == TypeOK /\ FileOK /\ EntryOK /\ CallOK /\ WholeOK /\ CursorOK

-----------------------------------------------------------------------------
(* Numbers                                                                   *)

LEMMA LeastElement ==
    ASSUME NEW S, S \subseteq Nat, S # {}
    PROVE  \E x \in S : \A y \in S : x =< y
<1>1. PICK x \in S : \A y \in S : ~ (<<y, x>> \in OpToRel(<, Nat))
  BY NatLessThanWellFounded, WFMin, Zenon
<1>2. \A y \in S : y \in Nat /\ ~ (y < x)
  BY <1>1 DEF OpToRel
<1>3. QED BY <1>2

LEMMA SmallerOf == ASSUME NEW a \in Int, NEW b \in Int PROVE Min({a, b}) = IF a =< b THEN a ELSE b
  BY DEF Min

LEMMA LargerOf == ASSUME NEW a \in Int, NEW b \in Int PROVE Max({a, b}) = IF a >= b THEN a ELSE b
  BY DEF Max

LEMMA ClusterSizePositive == ClusterSize \in Nat \ {0}
<1>1. \A a, b \in Nat \ {0} : a * b \in Nat \ {0}
  OBVIOUS
<1>2. QED BY <1>1, GeometryAssumption DEF ClusterSize

LEMMA Marks ==
    /\ Cluster \subseteq Nat /\ 0 \notin Cluster /\ Free \notin Cluster
    /\ Eoc \notin Cluster /\ BadCluster \notin Cluster
    /\ Eoc # BadCluster /\ Eoc # Free /\ BadCluster # Free /\ Free = 0
  BY GeometryAssumption DEF Cluster, Free, Eoc, BadCluster

LEMMA UniqueSplit ==
    ASSUME NEW q \in Nat, NEW r \in Offset
    PROVE  (ClusterSize * q + r) \div ClusterSize = q /\ (ClusterSize * q + r) % ClusterSize = r
  BY ClusterSizePositive DEF Offset

\* The first cluster
LEMMA FirstSplit == ASSUME NEW r \in Offset PROVE r \div ClusterSize = 0 /\ r % ClusterSize = r
<1>1. ClusterSize * 0 + r = r /\ 0 \in Nat
  BY ClusterSizePositive DEF Offset
<1>2. (ClusterSize * 0 + r) \div ClusterSize = 0 /\ (ClusterSize * 0 + r) % ClusterSize = r
  BY <1>1, UniqueSplit, Zenon
<1>3. QED BY <1>1, <1>2, Zenon

LEMMA Splits ==
    ASSUME NEW p \in Nat
    PROVE  \E q \in Nat, r \in Offset : p = ClusterSize * q + r
<1> DEFINE Bad == {n \in Nat : ~ \E q \in Nat, r \in Offset : n = ClusterSize * q + r}
<1>1. SUFFICES ASSUME Bad # {} PROVE FALSE
  OBVIOUS
<1>2. PICK n \in Bad : \A m \in Bad : n =< m
  <2>1. Bad \subseteq Nat
    OBVIOUS
  <2> HIDE DEF Bad
  <2>2. QED BY <1>1, <2>1, LeastElement
<1>3. n # 0
  <2>1. 0 \in Offset /\ 0 = ClusterSize * 0 + 0
    BY ClusterSizePositive DEF Offset
  <2>2. QED BY <1>2, <2>1
<1>4. n - 1 \in Nat /\ n - 1 \notin Bad
  BY <1>2, <1>3
<1>5. PICK q \in Nat, r \in Offset : n - 1 = ClusterSize * q + r
  BY <1>4
<1>6. CASE r < ClusterSize - 1
  <2>1. r + 1 \in Offset /\ n = ClusterSize * q + (r + 1)
    BY <1>2, <1>4, <1>5, <1>6, ClusterSizePositive DEF Offset
  <2>2. QED BY <1>2, <2>1
<1>7. CASE r = ClusterSize - 1
  <2>1. ClusterSize * (q + 1) = ClusterSize * q + ClusterSize
    BY ClusterSizePositive
  <2>2. n = ClusterSize * (q + 1) + 0 /\ 0 \in Offset /\ q + 1 \in Nat
    BY <1>2, <1>4, <1>5, <1>7, <2>1, ClusterSizePositive DEF Offset
  <2>3. QED BY <1>2, <2>2
<1>8. QED BY <1>5, <1>6, <1>7, ClusterSizePositive DEF Offset

\* The cluster and the offset of the p-th byte
LEMMA Parts ==
    ASSUME NEW p \in Nat
    PROVE  /\ p \div ClusterSize \in Nat /\ p % ClusterSize \in Offset
           /\ p = ClusterSize * (p \div ClusterSize) + (p % ClusterSize)
  BY Splits, UniqueSplit

LEMMA SameCluster ==
    ASSUME NEW p \in Nat, NEW k \in Nat, (p % ClusterSize) + k < ClusterSize
    PROVE  (p + k) \div ClusterSize = p \div ClusterSize /\ (p + k) % ClusterSize = (p % ClusterSize) + k
<1>1. PICK q \in Nat, r \in Offset : p = ClusterSize * q + r /\ r = p % ClusterSize /\ q = p \div ClusterSize
  BY Parts
<1>2. r + k \in Offset /\ p + k = ClusterSize * q + (r + k)
  BY <1>1, ClusterSizePositive DEF Offset
<1>3. /\ (ClusterSize * q + (r + k)) \div ClusterSize = q
      /\ (ClusterSize * q + (r + k)) % ClusterSize = r + k
  BY <1>1, <1>2, UniqueSplit, Zenon
<1>4. QED BY <1>1, <1>2, <1>3, Zenon

LEMMA NextCluster ==
    ASSUME NEW p \in Nat, NEW k \in Nat, (p % ClusterSize) + k = ClusterSize
    PROVE  (p + k) \div ClusterSize = p \div ClusterSize + 1 /\ (p + k) % ClusterSize = 0
<1>1. PICK q \in Nat, r \in Offset : p = ClusterSize * q + r /\ r = p % ClusterSize /\ q = p \div ClusterSize
  BY Parts
<1>2. ClusterSize * (q + 1) = ClusterSize * q + ClusterSize
  BY ClusterSizePositive
<1>3. 0 \in Offset /\ q + 1 \in Nat /\ p + k = ClusterSize * (q + 1) + 0
  BY <1>1, <1>2, ClusterSizePositive DEF Offset
<1>4. (ClusterSize * (q + 1) + 0) \div ClusterSize = q + 1 /\ (ClusterSize * (q + 1) + 0) % ClusterSize = 0
  BY <1>3, UniqueSplit, Zenon
<1>5. QED BY <1>1, <1>3, <1>4, Zenon

LEMMA Ordered ==
    ASSUME NEW p \in Nat, NEW q \in Nat, p =< q
    PROVE  p \div ClusterSize =< q \div ClusterSize
<1>1. SUFFICES ASSUME p \div ClusterSize >= q \div ClusterSize + 1 PROVE FALSE
  BY Parts
<1>2. ClusterSize * (p \div ClusterSize) >= ClusterSize * (q \div ClusterSize + 1)
  BY Parts, ClusterSizePositive, <1>1
<1>3. ClusterSize * (q \div ClusterSize + 1) = ClusterSize * (q \div ClusterSize) + ClusterSize
  BY Parts, ClusterSizePositive
<1>4. QED BY <1>2, <1>3, Parts, ClusterSizePositive DEF Offset

\* The last byte before p, where p is inside a cluster or on its edge
LEMMA ByteBefore ==
    ASSUME NEW p \in Nat \ {0}
    PROVE  (p - 1) \div ClusterSize = IF p % ClusterSize = 0 THEN p \div ClusterSize - 1 ELSE p \div ClusterSize
<1>1. PICK q \in Nat, r \in Offset : p - 1 = ClusterSize * q + r /\ r = (p - 1) % ClusterSize /\ q = (p - 1) \div ClusterSize
  BY Parts
<1>2. CASE r + 1 < ClusterSize
  <2>1. (p - 1 + 1) \div ClusterSize = q /\ (p - 1 + 1) % ClusterSize = r + 1
    BY <1>1, <1>2, SameCluster
  <2>2. p - 1 + 1 = p /\ r + 1 # 0
    BY DEF Offset
  <2>3. QED BY <1>1, <2>1, <2>2
<1>3. CASE r + 1 = ClusterSize
  <2>1. (p - 1 + 1) \div ClusterSize = q + 1 /\ (p - 1 + 1) % ClusterSize = 0
    BY <1>1, <1>3, NextCluster
  <2>2. p - 1 + 1 = p
    OBVIOUS
  <2>3. QED BY <1>1, <2>1, <2>2
<1>4. QED BY <1>2, <1>3, ClusterSizePositive DEF Offset

-----------------------------------------------------------------------------
(* Chains                                                                    *)

Walk(map, c, k, p) ==
    p = [n \in 0 .. k |-> IF n = 0 THEN c
                          ELSE IF p[n - 1] \in Cluster THEN map[p[n - 1]] ELSE Eoc]

Steps(map, c, k, p) ==
    \A n \in 0 .. k : p[n] = IF n = 0 THEN c ELSE IF p[n - 1] \in Cluster THEN map[p[n - 1]] ELSE Eoc

LEMMA WalkStep ==
    ASSUME NEW map, NEW c, NEW k \in Nat, NEW p, Walk(map, c, k, p)
    PROVE  Steps(map, c, k, p)
<1> DEFINE f == [n \in 0 .. k |-> IF n = 0 THEN c
                          ELSE IF p[n - 1] \in Cluster THEN map[p[n - 1]] ELSE Eoc]
<1>1. p = f
  BY DEF Walk
<1>2. \A n \in 0 .. k : f[n] = IF n = 0 THEN c
                                    ELSE IF p[n - 1] \in Cluster THEN map[p[n - 1]] ELSE Eoc
  OBVIOUS
<1> HIDE DEF f
<1>3. QED BY <1>1, <1>2 DEF Steps

LEMMA WalkExists ==
    ASSUME NEW map, NEW c, NEW k \in Nat
    PROVE  \E p : Walk(map, c, k, p)
<1> DEFINE Bad == {m \in Nat : ~ \E p : Walk(map, c, m, p)}
<1>1. SUFFICES ASSUME Bad # {} PROVE FALSE
  OBVIOUS
<1>2. PICK m \in Bad : \A j \in Bad : m =< j
  <2>1. Bad \subseteq Nat
    OBVIOUS
  <2> HIDE DEF Bad
  <2>2. QED BY <1>1, <2>1, LeastElement
<1>3. m # 0
  <2>1. Walk(map, c, 0, [n \in 0 .. 0 |-> c])
    BY DEF Walk
  <2>2. QED BY <1>2, <2>1
<1>4. m - 1 \in Nat /\ m - 1 \notin Bad
  BY <1>2, <1>3
<1>5. PICK p : Walk(map, c, m - 1, p)
  BY <1>4
<1> DEFINE q == [n \in 0 .. m |-> IF n < m THEN p[n]
                                  ELSE IF p[n - 1] \in Cluster THEN map[p[n - 1]] ELSE Eoc]
<1>6. \A n \in 0 .. m : q[n] = IF n = 0 THEN c
                               ELSE IF q[n - 1] \in Cluster THEN map[q[n - 1]] ELSE Eoc
  <2> SUFFICES ASSUME NEW n \in 0 .. m
               PROVE  q[n] = IF n = 0 THEN c
                             ELSE IF q[n - 1] \in Cluster THEN map[q[n - 1]] ELSE Eoc
    OBVIOUS
  <2>1. CASE n = m
    <3>1. n - 1 \in 0 .. m /\ n - 1 < m /\ n # 0
      BY <1>2, <1>3, <2>1
    <3>2. q[n - 1] = p[n - 1]
      BY <3>1
    <3>3. QED BY <2>1, <3>1, <3>2
  <2>2. CASE n < m
    <3>1. n \in 0 .. m - 1 /\ q[n] = p[n]
      BY <1>2, <2>2
    <3>2. n # 0 => q[n - 1] = p[n - 1]
      BY <1>2, <2>2
    <3>3. \A i \in 0 .. m - 1 : p[i] = IF i = 0 THEN c
                                     ELSE IF p[i - 1] \in Cluster THEN map[p[i - 1]] ELSE Eoc
      <4>1. Steps(map, c, m - 1, p)
        BY <1>4, <1>5, WalkStep
      <4>2. QED BY <4>1 DEF Steps
    <3> HIDE DEF q
    <3>4. QED BY <3>1, <3>2, <3>3
  <2>3. QED BY <1>2, <2>1, <2>2
<1>7. q = [n \in 0 .. m |-> q[n]]
  OBVIOUS
<1> HIDE DEF q
<1>8. Walk(map, c, m, q)
  BY <1>6, <1>7 DEF Walk
<1>9. QED BY <1>2, <1>8

LEMMA WalksAgree ==
    ASSUME NEW map, NEW c, NEW k \in Nat, NEW m \in Nat, k =< m, NEW p, NEW q,
           Walk(map, c, k, p), Walk(map, c, m, q)
    PROVE  \A n \in 0 .. k : p[n] = q[n]
<1>a. Steps(map, c, k, p) /\ Steps(map, c, m, q)
  BY WalkStep
<1> DEFINE Bad == {n \in 0 .. k : p[n] # q[n]}
<1>1. SUFFICES ASSUME Bad # {} PROVE FALSE
  OBVIOUS
<1>2. PICK n \in Bad : \A j \in Bad : n =< j
  <2>1. Bad \subseteq Nat
    OBVIOUS
  <2> HIDE DEF Bad
  <2>2. QED BY <1>1, <2>1, LeastElement
<1>3. n \in 0 .. k /\ n \in 0 .. m
  BY <1>2
<1>4. n # 0
  BY <1>a, <1>2, <1>3 DEF Steps
<1>5. n - 1 \in 0 .. k /\ n - 1 \notin Bad
  BY <1>2, <1>4
<1>6. p[n - 1] = q[n - 1]
  BY <1>5
<1>7. p[n] = q[n]
  BY <1>a, <1>3, <1>4, <1>6 DEF Steps
<1>8. QED BY <1>2, <1>7

LEMMA ChainIsWalk ==
    ASSUME NEW map, NEW c, NEW k \in Nat
    PROVE  \E p : Walk(map, c, k, p) /\ ChainOn(map, c, k) = p[k]
<1> DEFINE nth[n \in 0 .. k] ==
          IF n = 0 THEN c
          ELSE IF nth[n - 1] \in Cluster THEN map[nth[n - 1]] ELSE Eoc
<1>1. ChainOn(map, c, k) = nth[k]
  BY DEF ChainOn
<1>2. \E p : Walk(map, c, k, p)
  BY WalkExists
<1>3. Walk(map, c, k, nth)
  BY <1>2, Zenon DEF Walk
<1>4. QED BY <1>1, <1>3

LEMMA ChainFirst == ASSUME NEW map, NEW c PROVE ChainOn(map, c, 0) = c
<1>1. PICK p : Walk(map, c, 0, p) /\ ChainOn(map, c, 0) = p[0]
  BY ChainIsWalk
<1>2. QED BY <1>1, WalkStep DEF Steps

LEMMA ChainNext ==
    ASSUME NEW map, NEW c, NEW k \in Nat
    PROVE  ChainOn(map, c, k + 1) = IF ChainOn(map, c, k) \in Cluster
                                    THEN map[ChainOn(map, c, k)] ELSE Eoc
<1>1. PICK p : Walk(map, c, k, p) /\ ChainOn(map, c, k) = p[k]
  BY ChainIsWalk
<1>2. PICK q : Walk(map, c, k + 1, q) /\ ChainOn(map, c, k + 1) = q[k + 1]
  BY ChainIsWalk
<1>3. p[k] = q[k]
  BY <1>1, <1>2, WalksAgree
<1>4. k + 1 \in 0 .. k + 1 /\ k + 1 # 0 /\ (k + 1) - 1 = k /\ k + 1 \in Nat
  OBVIOUS
<1>5. q[k + 1] = IF q[k] \in Cluster THEN map[q[k]] ELSE Eoc
  BY <1>2, <1>4, WalkStep DEF Steps
<1>6. QED BY <1>1, <1>2, <1>3, <1>5

\* What a cluster of a chain follows
LEMMA ChainBack ==
    ASSUME NEW map, NEW c, NEW k \in Nat, k # 0, ChainOn(map, c, k) # Eoc
    PROVE  /\ k - 1 \in Nat /\ ChainOn(map, c, k - 1) \in Cluster
           /\ ChainOn(map, c, k) = map[ChainOn(map, c, k - 1)]
<1>1. k - 1 \in Nat /\ (k - 1) + 1 = k
  OBVIOUS
<1>2. QED BY <1>1, ChainNext

\* No cluster comes twice in a chain.
LEMMA ChainApart ==
    ASSUME NEW map, NEW c, Linear(map), \A d \in Cluster : map[d] # c,
           NEW i \in Nat, NEW j \in Nat, i # j, ChainOn(map, c, i) \in Cluster
    PROVE  ChainOn(map, c, i) # ChainOn(map, c, j)
<1> DEFINE Bad == {m \in Nat : \E n \in Nat : m < n /\ ChainOn(map, c, m) \in Cluster
                                               /\ ChainOn(map, c, m) = ChainOn(map, c, n)}
<1>1. SUFFICES ASSUME Bad # {} PROVE FALSE
  OBVIOUS
<1>2. PICK m \in Bad : \A h \in Bad : m =< h
  <2>1. Bad \subseteq Nat
    OBVIOUS
  <2> HIDE DEF Bad
  <2>2. QED BY <1>1, <2>1, LeastElement
<1>3. PICK n \in Nat : m < n /\ ChainOn(map, c, m) \in Cluster /\ ChainOn(map, c, m) = ChainOn(map, c, n)
  BY <1>2
<1>4. /\ n - 1 \in Nat /\ ChainOn(map, c, n - 1) \in Cluster
      /\ ChainOn(map, c, n) = map[ChainOn(map, c, n - 1)]
  BY <1>2, <1>3, ChainBack, Marks
<1>5. m # 0
  BY <1>3, <1>4, ChainFirst
<1>6. /\ m - 1 \in Nat /\ ChainOn(map, c, m - 1) \in Cluster
      /\ ChainOn(map, c, m) = map[ChainOn(map, c, m - 1)]
  BY <1>2, <1>3, <1>5, ChainBack, Marks
<1>7. ChainOn(map, c, m - 1) = ChainOn(map, c, n - 1)
  BY <1>3, <1>4, <1>6 DEF Linear
<1>8. m - 1 \in Bad
  <2>1. m - 1 < n - 1
    BY <1>2, <1>3
  <2>2. QED BY <1>4, <1>6, <1>7, <2>1
<1>9. QED BY <1>2, <1>8

\* A chain that begins in use runs into nothing free.
LEMMA ChainInUse ==
    ASSUME NEW map, NEW c \in Cluster, Leading(map), map[c] # Free, NEW k \in Nat
    PROVE  ChainOn(map, c, k) \in Cluster => map[ChainOn(map, c, k)] # Free
<1>1. CASE k = 0
  BY <1>1, ChainFirst
<1>2. CASE k # 0
  <2>1. SUFFICES ASSUME ChainOn(map, c, k) \in Cluster PROVE map[ChainOn(map, c, k)] # Free
    OBVIOUS
  <2>2. /\ k - 1 \in Nat /\ ChainOn(map, c, k - 1) \in Cluster
        /\ ChainOn(map, c, k) = map[ChainOn(map, c, k - 1)]
    BY <1>2, <2>1, ChainBack, Marks
  <2>3. QED BY <2>1, <2>2 DEF Leading
<1>3. QED BY <1>1, <1>2

LEMMA ChainValue ==
    ASSUME NEW map \in [Cluster -> Cluster \cup {Free, Eoc}], NEW c \in Cluster,
           Leading(map), map[c] # Free, NEW k \in Nat
    PROVE  ChainOn(map, c, k) \in Cluster \cup {Eoc}
<1>1. CASE k = 0
  BY <1>1, ChainFirst
<1>2. CASE k # 0
  <2>1. k - 1 \in Nat /\ (k - 1) + 1 = k
    BY <1>2
  <2>2. ChainOn(map, c, k - 1) \in Cluster => map[ChainOn(map, c, k - 1)] # Free
    BY <2>1, ChainInUse
  <2>3. QED BY <2>1, <2>2, ChainNext
<1>3. QED BY <1>1, <1>2

\* What was on a chain stays when links that are there are left alone.
LEMMA ChainGrows ==
    ASSUME NEW map, NEW new, \A d \in Cluster : map[d] \in Cluster => new[d] = map[d],
           NEW c, NEW k \in Nat, ChainOn(map, c, k) \in Cluster
    PROVE  ChainOn(new, c, k) = ChainOn(map, c, k)
<1> DEFINE Bad == {m \in Nat : ChainOn(map, c, m) \in Cluster /\ ChainOn(new, c, m) # ChainOn(map, c, m)}
<1>1. SUFFICES ASSUME Bad # {} PROVE FALSE
  OBVIOUS
<1>2. PICK m \in Bad : \A h \in Bad : m =< h
  <2>1. Bad \subseteq Nat
    OBVIOUS
  <2> HIDE DEF Bad
  <2>2. QED BY <1>1, <2>1, LeastElement
<1>3. m # 0
  BY <1>2, ChainFirst
<1>4. /\ m - 1 \in Nat /\ (m - 1) + 1 = m /\ ChainOn(map, c, m - 1) \in Cluster
      /\ ChainOn(map, c, m) = map[ChainOn(map, c, m - 1)]
  BY <1>2, <1>3, ChainBack, Marks
<1>5. ChainOn(new, c, m - 1) = ChainOn(map, c, m - 1)
  BY <1>2, <1>4
<1>6. ChainOn(new, c, m) = new[ChainOn(new, c, m - 1)]
  BY <1>4, <1>5, ChainNext
<1>7. QED BY <1>2, <1>4, <1>5, <1>6

\* A chain reaches its old end, e, no other way than before.
LEMMA ChainReaches ==
    ASSUME NEW map, NEW new, NEW c \in Cluster, Leading(map), map[c] # Free,
           Linear(new), \A d \in Cluster : new[d] # c,
           NEW e \in Cluster, \A d \in Cluster : d # e /\ map[d] # Free => new[d] = map[d],
           NEW j \in Nat, ChainOn(new, c, j) = e
    PROVE  ChainOn(map, c, j) = e
<1> DEFINE Bad == {m \in Nat : m =< j /\ ChainOn(new, c, m) # ChainOn(map, c, m)}
<1>1. SUFFICES ASSUME Bad # {} PROVE FALSE
  OBVIOUS
<1>2. PICK m \in Bad : \A h \in Bad : m =< h
  <2>1. Bad \subseteq Nat
    OBVIOUS
  <2> HIDE DEF Bad
  <2>2. QED BY <1>1, <2>1, LeastElement
<1>3. m # 0
  BY <1>2, ChainFirst
<1>4. m - 1 \in Nat /\ (m - 1) + 1 = m /\ m - 1 < j
  BY <1>2, <1>3
<1>5. ChainOn(new, c, m - 1) = ChainOn(map, c, m - 1)
  BY <1>2, <1>4
<1>6. ChainOn(map, c, m - 1) # e
  BY <1>4, <1>5, ChainApart
<1>7. ChainOn(map, c, m - 1) \in Cluster => map[ChainOn(map, c, m - 1)] # Free
  BY <1>4, ChainInUse
<1>8. ChainOn(new, c, m) = ChainOn(map, c, m)
  BY <1>4, <1>5, <1>6, <1>7, ChainNext
<1>9. QED BY <1>2, <1>8

-----------------------------------------------------------------------------
(* The cursor                                                                *)

LEMMA StandsNext ==
    ASSUME NEW map, NEW first, NEW cur \in Cluster, NEW k \in Nat, NEW well,
           Linear(map), Begins(map, first), StandsOn(map, first, cur, k, well)
    PROVE  StandsOn(map, first, map[cur], k + 1, well)
<1>1. well => map[cur] = ChainOn(map, first, k + 1)
  BY ChainNext DEF StandsOn
<1>2. ASSUME map[cur] \in Cluster, NEW j \in Nat, ChainOn(map, first, j) = map[cur]
      PROVE  j = k + 1
  <2>1. j # 0
    BY <1>2, ChainFirst DEF Begins
  <2>2. /\ j - 1 \in Nat /\ ChainOn(map, first, j - 1) \in Cluster
        /\ map[cur] = map[ChainOn(map, first, j - 1)]
    BY <1>2, <2>1, ChainBack, Marks
  <2>3. ChainOn(map, first, j - 1) = cur
    BY <1>2, <2>2 DEF Linear
  <2>4. QED BY <2>2, <2>3 DEF StandsOn
<1>3. QED BY <1>1, <1>2 DEF StandsOn

LEMMA StandsOff == ASSUME NEW map, NEW first, NEW cur, cur \notin Cluster, NEW k
                   PROVE  StandsOn(map, first, cur, k, FALSE)
  BY DEF StandsOn

LEMMA StandsThere ==
    ASSUME NEW map, NEW first, Linear(map), Begins(map, first), NEW k \in Nat, NEW well
    PROVE  StandsOn(map, first, ChainOn(map, first, k), k, well)
<1>1. \A d \in Cluster : map[d] # first
  BY DEF Begins
<1>2. \A j \in Nat : ChainOn(map, first, k) \in Cluster /\ ChainOn(map, first, j) = ChainOn(map, first, k) => j = k
  BY <1>1, ChainApart
<1>3. QED BY <1>2 DEF StandsOn

\* What an allocation does to the FAT
Marked(map, new) == [map EXCEPT ![new] = Eoc]
Linked(map, new, cur) == [map EXCEPT ![new] = Eoc, ![cur] = new]
FatType == [Cluster -> Cluster \cup {Free, Eoc}]

LEMMA MarkKeeps ==
    ASSUME NEW map \in FatType, Linear(map), Leading(map), NEW new \in Cluster, map[new] = Free
    PROVE  /\ Marked(map, new) \in FatType /\ Linear(Marked(map, new)) /\ Leading(Marked(map, new))
           /\ \A d \in Cluster : map[d] # new /\ Marked(map, new)[d] # new
           /\ Begins(Marked(map, new), new)
           /\ \A c : Begins(map, c) => Begins(Marked(map, new), c)
           /\ \A d \in Cluster : map[d] # Free => Marked(map, new)[d] = map[d]
<1>1. \A d \in Cluster : Marked(map, new)[d] = IF d = new THEN Eoc ELSE map[d]
  BY DEF Marked, FatType
<1>2. Marked(map, new) \in FatType
  BY DEF Marked, FatType
<1>3. \A d \in Cluster : map[d] # new
  BY DEF Leading
<1>4. QED BY <1>1, <1>2, <1>3, Marks DEF Linear, Leading, Begins

LEMMA LinkKeeps ==
    ASSUME NEW map \in FatType, Linear(map), Leading(map), NEW new \in Cluster, map[new] = Free,
           NEW cur \in Cluster, map[cur] = Eoc
    PROVE  /\ Linked(map, new, cur) \in FatType
           /\ Linear(Linked(map, new, cur)) /\ Leading(Linked(map, new, cur))
           /\ \A d \in Cluster : Linked(map, new, cur)[d] = new => d = cur
           /\ Linked(map, new, cur)[cur] = new
           /\ \A c : Begins(map, c) => Begins(Linked(map, new, cur), c)
           /\ \A d \in Cluster : d # cur /\ map[d] # Free => Linked(map, new, cur)[d] = map[d]
           /\ \A d \in Cluster : map[d] \in Cluster => Linked(map, new, cur)[d] = map[d]
<1>1. cur # new
  BY Marks
<1>2. \A d \in Cluster : Linked(map, new, cur)[d] = IF d = cur THEN new ELSE IF d = new THEN Eoc ELSE map[d]
  BY <1>1 DEF Linked, FatType
<1>3. Linked(map, new, cur) \in FatType
  BY DEF Linked, FatType
<1>4. \A d \in Cluster : map[d] # new
  BY DEF Leading
<1>5. Linear(Linked(map, new, cur))
  BY <1>2, <1>4, Marks DEF Linear
<1>6. Leading(Linked(map, new, cur))
  BY <1>1, <1>2, <1>4, Marks DEF Leading
<1>7. \A c : Begins(map, c) => Begins(Linked(map, new, cur), c)
  BY <1>1, <1>2, <1>4, Marks DEF Begins
<1>8. QED BY <1>1, <1>2, <1>3, <1>4, <1>5, <1>6, <1>7, Marks

\* The cursor goes on to the cluster that is appended.
LEMMA StandsLinked ==
    ASSUME NEW map \in FatType, Linear(map), Leading(map), NEW new \in Cluster, map[new] = Free,
           NEW cur \in Cluster, map[cur] = Eoc, NEW first, Begins(map, first),
           NEW k \in Nat, NEW well, StandsOn(map, first, cur, k, well)
    PROVE  StandsOn(Linked(map, new, cur), first, new, k + 1, well)
<1> DEFINE map2 == Linked(map, new, cur)
<1>1. /\ Linear(map2) /\ Begins(map2, first) /\ map2[cur] = new
      /\ \A d \in Cluster : d # cur /\ map[d] # Free => map2[d] = map[d]
      /\ \A d \in Cluster : map[d] \in Cluster => map2[d] = map[d]
  BY LinkKeeps
<1> HIDE DEF map2
<1>2. well => cur = ChainOn(map2, first, k)
  BY <1>1, ChainGrows DEF StandsOn
<1>3. \A j \in Nat : ChainOn(map2, first, j) = cur => ChainOn(map, first, j) = cur
  BY <1>1, ChainReaches DEF Begins
<1>4. StandsOn(map2, first, cur, k, well)
  BY <1>2, <1>3 DEF StandsOn
<1>5. StandsOn(map2, first, new, k + 1, well)
  BY <1>1, <1>4, StandsNext
<1>6. QED BY <1>5 DEF map2

\* One that is marked but not linked is on no file's chain.
LEMMA StandsMarked ==
    ASSUME NEW map \in FatType, Linear(map), Leading(map), NEW new \in Cluster, map[new] = Free,
           NEW first, Begins(map, first), NEW k
    PROVE  StandsOn(Marked(map, new), first, new, k, FALSE)
<1> DEFINE map2 == Marked(map, new)
<1>1. \A d \in Cluster : map2[d] # new
  BY MarkKeeps
<1>2. first # new
  BY DEF Begins
<1> HIDE DEF map2
<1>3. \A j \in Nat : ChainOn(map2, first, j) # new
  <2> SUFFICES ASSUME NEW j \in Nat, ChainOn(map2, first, j) = new PROVE FALSE
    OBVIOUS
  <2>1. j # 0
    BY <1>2, ChainFirst
  <2>2. ChainOn(map2, first, j - 1) \in Cluster /\ new = map2[ChainOn(map2, first, j - 1)]
    BY <2>1, ChainBack, Marks
  <2>3. QED BY <1>1, <2>2
<1>4. QED BY <1>3 DEF StandsOn, map2

-----------------------------------------------------------------------------
(* A turn of either loop                                                     *)

LEMMA Fields ==
    ASSUME TypeOK
    PROVE  /\ handle.inUse \in BOOLEAN /\ handle.first \in Cluster \cup {0}
           /\ handle.current \in Place \cup {0} /\ handle.position \in Nat /\ handle.size \in Nat
           /\ handle.dirty \in BOOLEAN
           /\ entry.first \in Cluster \cup {0} /\ entry.size \in Nat
           /\ call.op \in {"none", "read", "write"} /\ call.size \in Nat /\ call.done \in Nat
           /\ call.bytes \in Seq(Byte) /\ call.out \in Seq(Byte)
           /\ fat \in FatType
           /\ Where \in Nat /\ Inside \in Offset
  BY Parts DEF TypeOK, FatType, Where, Inside

HandleType == [inUse : BOOLEAN, first : Cluster \cup {0}, current : Place \cup {0},
               position : Nat, size : Nat, dirty : BOOLEAN]
CallType == [op : {"none", "read", "write"}, size : Nat, done : Nat,
             bytes : Seq(Byte), out : Seq(Byte)]

LEMMA PieceFacts ==
    ASSUME TypeOK, CallOK, call.op # "none"
    PROVE  /\ Piece \in Nat \ {0} /\ Piece =< call.size - call.done
           /\ Inside + Piece =< ClusterSize
           /\ Piece < call.size - call.done => Inside + Piece = ClusterSize
<1>1. call.size - call.done \in Nat \ {0} /\ Inside \in Nat /\ Inside < ClusterSize
  <2>1. call.size \in Nat /\ call.done \in Nat /\ Inside \in Offset
    BY Fields
  <2>2. call.done < call.size
    BY DEF CallOK
  <2>3. QED BY <2>1, <2>2, ClusterSizePositive DEF Offset
<1>2. Piece = Min({call.size - call.done, ClusterSize - Inside})
  BY DEF Piece, Inside
<1>3. Piece = IF call.size - call.done =< ClusterSize - Inside
              THEN call.size - call.done ELSE ClusterSize - Inside
  BY <1>1, <1>2, SmallerOf, ClusterSizePositive
<1>4. QED BY <1>1, <1>3, ClusterSizePositive

\* The bytes of a piece lie in one cluster.
LEMMA PieceInCluster ==
    ASSUME TypeOK, CallOK, call.op # "none", NEW i \in 0 .. Piece - 1
    PROVE  /\ (handle.position + i) \div ClusterSize = Where
           /\ (handle.position + i) % ClusterSize = Inside + i
           /\ Inside + i \in Offset
<1>1. i \in Nat /\ Inside + i < ClusterSize /\ handle.position \in Nat /\ Inside \in Nat
  BY PieceFacts, Fields, ClusterSizePositive DEF Offset
<1>2. (handle.position % ClusterSize) + i < ClusterSize
  BY <1>1 DEF Inside
<1>3. /\ (handle.position + i) \div ClusterSize = Where
      /\ (handle.position + i) % ClusterSize = Inside + i
  BY <1>1, <1>2, SameCluster DEF Where, Inside
<1>4. Inside + i \in Offset
  BY <1>1, ClusterSizePositive DEF Offset
<1>5. QED BY <1>3, <1>4

LEMMA PieceLands ==
    ASSUME TypeOK, CallOK, call.op # "none", handle'.position = handle.position + Piece
    PROVE  /\ Where' = IF Inside + Piece = ClusterSize THEN Where + 1 ELSE Where
           /\ Inside + Piece = ClusterSize <=> AtEdge'
<1>1. Piece \in Nat \ {0} /\ Inside + Piece =< ClusterSize /\ handle.position \in Nat /\ Inside \in Nat
  BY PieceFacts, Fields DEF Offset
<1>2. CASE Inside + Piece = ClusterSize
  BY <1>1, <1>2, NextCluster DEF Where, Inside, AtEdge
<1>3. CASE Inside + Piece < ClusterSize
  BY <1>1, <1>3, SameCluster DEF Where, Inside, AtEdge
<1>4. QED BY <1>1, <1>2, <1>3, ClusterSizePositive

LEMMA InCall ==
    ASSUME IInv, call.op # "none"
    PROVE  /\ handle.inUse /\ First = handle.first /\ Size = handle.size
           /\ handle.first \in Cluster /\ Begins(fat, handle.first)
           /\ ~Astray => Stands(Where)
           /\ Well /\ ~Astray => handle.current \in Cluster /\ fat[handle.current] # Free
                                /\ handle.current = ChainOn(fat, handle.first, Where)
<1>1. handle.inUse
  <2>1. call # NoCall
    BY DEF NoCall
  <2>2. EntryOK
    BY DEF IInv
  <2>3. ~handle.inUse => call = NoCall
    BY <2>2 DEF EntryOK
  <2>4. QED BY <2>1, <2>3, Zenon
<1>2. handle.first # 0
  BY <1>1, Fields DEF IInv, FileOK, CallOK, First, Size
<1>3. Begins(fat, handle.first)
  BY <1>1, <1>2 DEF IInv, FileOK, First
<1>4. ~Astray => Stands(Where)
  BY DEF IInv, CursorOK
<1>5. Well /\ ~Astray => handle.current \in Cluster
  BY DEF IInv, CursorOK
<1>6. Well /\ ~Astray => handle.current = ChainOn(fat, handle.first, Where)
  BY <1>4 DEF Stands, StandsOn
<1>7. Well /\ ~Astray => fat[handle.current] # Free
  BY <1>3, <1>5, <1>6, ChainInUse, Fields DEF IInv, FileOK, Begins
<1>8. QED BY <1>1, <1>2, <1>3, <1>4, <1>5, <1>6, <1>7 DEF First, Size, Begins

\* A write that may be trusted is on its way.
LEMMA WriteOnTrack == ASSUME IInv, call.op = "write", Well PROVE ~Astray
  BY DEF IInv, CallOK, Well, Astray

LEMMA CursorStops ==
    ASSUME IInv, call.op # "none", handle'.position = handle.position + Piece,
           fat' = fat, handle'.first = handle.first, handle'.current = handle.current,
           call'.op = "none", Well' => Well, Astray => Astray'
    PROVE  CursorOK'
<1> SUFFICES ASSUME ~Astray' PROVE CursorOK'
  BY DEF CursorOK
<1>1. StandsOn(fat', handle'.first, handle'.current, Where, Well')
  BY InCall DEF Stands, StandsOn
<1>2. Where \in Nat
  BY Fields DEF IInv
<1>3. CASE Where' = Where
  BY <1>1, <1>3 DEF CursorOK, Stands
<1>4. CASE Where' = Where + 1 /\ AtEdge'
  <2>1. Where' > 0 /\ Where' - 1 = Where
    BY <1>2, <1>4
  <2>2. Stands(Where - 1)'
    BY <1>1, <2>1 DEF Stands
  <2>3. QED BY <1>4, <2>1, <2>2 DEF CursorOK
<1>5. QED BY <1>3, <1>4, PieceLands DEF IInv

LEMMA CursorGoesOn ==
    ASSUME IInv, call.op # "none", handle'.position = handle.position + Piece,
           Inside + Piece = ClusterSize, Astray => Astray',
           ~Astray => StandsOn(fat', handle'.first, handle'.current, Where + 1, Well'),
           ~Astray /\ Well' => handle'.current \in Cluster
    PROVE  CursorOK'
<1>1. Where' = Where + 1
  BY PieceLands DEF IInv
<1>2. QED BY <1>1 DEF CursorOK, Stands

\* The file is in the clusters it was in, and in the one the cursor was on.
LEMMA WholeMoves ==
    ASSUME IInv, call.op # "none", handle'.inUse, handle'.first = handle.first,
           handle'.size =< handle.size
             \/ (call.op = "write" /\ handle'.size = handle.position + Piece),
           handle'.size \in Nat,
           \A d \in Cluster : fat[d] \in Cluster => fat'[d] = fat[d], Well' => Well
    PROVE  WholeOK'
<1>1. SUFFICES ASSUME Well', NEW i \in 0 .. handle'.size - 1
               PROVE  ChainOn(fat', handle.first, i \div ClusterSize) \in Cluster
  BY DEF WholeOK, Whole, First, Size
<1>2. Well /\ i \in Nat /\ i \div ClusterSize \in Nat
  BY <1>1, Parts
<1>3. ChainOn(fat, handle.first, i \div ClusterSize) \in Cluster
  <2>1. CASE i < handle.size
    <3>1. i \in 0 .. handle.size - 1
      BY <1>2, <2>1, Fields DEF IInv
    <3>2. QED BY <1>2, <3>1, InCall DEF IInv, WholeOK, Whole
  <2>2. CASE ~ (i < handle.size)
    <3>a. handle.position \in Nat /\ handle.size \in Nat /\ handle.position =< handle.size
      BY Fields DEF IInv, CallOK
    <3>b. call.op = "write" /\ handle'.size = handle.position + Piece
      BY <1>1, <1>2, <2>2, <3>a
    <3>1. handle.position =< i /\ i < handle.position + Piece
      BY <1>1, <1>2, <2>2, <3>a, <3>b
    <3>2. i - handle.position \in 0 .. Piece - 1 /\ handle.position + (i - handle.position) = i
      <4>1. handle.position \in Nat /\ Piece \in Nat
        BY Fields, PieceFacts DEF IInv
      <4> QED BY <1>2, <3>1, <4>1
    <3>3. i \div ClusterSize = Where
      BY <3>2, PieceInCluster DEF IInv
    <3>4. QED BY <1>2, <3>3, <3>b, InCall, WriteOnTrack
  <2>3. QED BY <2>1, <2>2
<1>4. QED BY <1>2, <1>3, ChainGrows

-----------------------------------------------------------------------------
(* The bytes of a turn                                                       *)

Got == [i \in 1 .. Piece |-> At(handle.current, Inside + i - 1)]

LEMMA BytesGot ==
    ASSUME TypeOK, CallOK, call.op # "none", handle.current \in Place
    PROVE  Got \in Seq(Byte) /\ Len(Got) = Piece
<1>1. Piece \in Nat
  BY PieceFacts
<1>2. ASSUME NEW i \in 1 .. Piece PROVE At(handle.current, Inside + i - 1) \in Byte
  <2>1. i - 1 \in 0 .. Piece - 1 /\ Inside + (i - 1) = Inside + i - 1
    BY <1>1, Fields DEF Offset
  <2>2. Inside + i - 1 \in Offset
    BY <2>1, PieceInCluster
  <2>3. QED BY <2>2 DEF At, TypeOK
<1>3. Got \in [1 .. Piece -> Byte]
  BY <1>2 DEF Got
<1>4. QED BY <1>1, <1>3

LEMMA OverlayIs ==
    ASSUME TypeOK, CallOK, call.op = "write", handle.current \in Place
    PROVE  /\ Overlay \in [Offset -> Byte]
           /\ \A o \in Offset : Overlay[o] = IF o >= Inside /\ o < Inside + Piece
                                             THEN call.bytes[call.done + 1 + o - Inside]
                                             ELSE data[handle.current][o]
<1>1. Overlay = [o \in Offset |-> IF o >= Inside /\ o < Inside + Piece
                                  THEN call.bytes[call.done + 1 + o - Inside]
                                  ELSE data[handle.current][o]]
  BY DEF Overlay, Inside, At
<1>2. ASSUME NEW o \in Offset, o >= Inside, o < Inside + Piece
      PROVE  call.bytes[call.done + 1 + o - Inside] \in Byte
  <2>1. Piece \in Nat /\ Piece =< call.size - call.done /\ Len(call.bytes) = call.size
        /\ call.done \in Nat /\ call.size \in Nat /\ Inside \in Nat /\ o \in Nat
    BY PieceFacts, Fields DEF CallOK, Offset
  <2>2. call.done + 1 + o - Inside \in 1 .. Len(call.bytes)
    BY <1>2, <2>1
  <2>3. QED BY <2>2, Fields
<1>3. \A o \in Offset : data[handle.current][o] \in Byte
  BY DEF TypeOK
<1>4. QED BY <1>1, <1>2, <1>3

\* The two ways a turn of fat32_read ends
ReadEnds ==
    /\ handle' = [handle EXCEPT !.position = @ + Piece]
    /\ call' = Returned(call.out \o Got)
    /\ trouble' = trouble
    /\ \/ call.done + Piece = call.size
       \/ /\ handle.current \in Cluster /\ fat[handle.current] = Eoc
          /\ call.done + Piece < call.size
ReadGoesOn ==
    /\ call.done + Piece < call.size
    /\ call' = [call EXCEPT !.done = @ + Piece, !.out = @ \o Got]
    /\ \E next \in Place \cup {0} :
         /\ handle' = [handle EXCEPT !.position = @ + Piece, !.current = next]
         /\ \/ next = BadCluster /\ trouble' = trouble \cup {"failed"}
            \/ /\ handle.current \in Cluster /\ next = fat[handle.current] /\ next # Eoc
               /\ trouble' = trouble

LEMMA ReadOneDoes ==
    ASSUME IInv, ReadOne
    PROVE  /\ call.op = "read" /\ handle.current \in Place
           /\ UNCHANGED <<fat, data, entry>>
           /\ ReadEnds \/ ReadGoesOn
<1> DEFINE crosses == (handle.position + Piece) % ClusterSize = 0 /\ call.done + Piece < call.size
<1>1. call.op = "read" /\ handle.current \in Place /\ UNCHANGED <<fat, data, entry>>
  BY DEF ReadOne
<1>2. PICK next \in Answers(handle.current) :
         /\ handle' = [handle EXCEPT
                             !.position = @ + Piece,
                             !.current = IF crosses /\ next # Eoc THEN next ELSE @]
         /\ call' = IF call.done + Piece = call.size \/ (crosses /\ next = Eoc)
                    THEN Returned(call.out \o Got)
                    ELSE [call EXCEPT !.done = @ + Piece, !.out = @ \o Got]
         /\ Note(crosses /\ next = BadCluster, "failed")
  BY DEF ReadOne, Got, Inside
<1>3. /\ handle \in HandleType
      /\ Piece \in Nat /\ call.done \in Nat /\ call.size \in Nat /\ call.done + Piece =< call.size
  BY <1>1, PieceFacts, Fields DEF IInv, TypeOK, HandleType
<1>4. call.done + Piece < call.size => crosses
  <2>1. call.done + Piece < call.size => Inside + Piece = ClusterSize
    BY <1>1, <1>3, PieceFacts DEF IInv
  <2>2. Inside + Piece = ClusterSize => (handle.position + Piece) % ClusterSize = 0
    BY <1>3, NextCluster, Fields DEF IInv, Inside
  <2>3. QED BY <2>1, <2>2
<1>5. /\ next \in Place \cup {0} /\ next \in {fat[handle.current], BadCluster}
      /\ next # BadCluster => handle.current \in Cluster /\ next = fat[handle.current]
  BY <1>1, Fields, Marks DEF Answers, Place, IInv, FatType, Free
<1>6. CASE call.done + Piece = call.size
  <2>1. ~crosses
    BY <1>3, <1>6
  <2>2. handle' = [handle EXCEPT !.position = @ + Piece]
    BY <1>2, <1>3, <2>1
  <2>3. trouble' = trouble
    BY <1>2, <2>1 DEF Note
  <2>4. QED BY <1>1, <1>2, <1>6, <2>2, <2>3 DEF ReadEnds
<1>7. CASE call.done + Piece < call.size /\ next = Eoc
  <2>1. crosses /\ next # BadCluster
    BY <1>4, <1>7, Marks
  <2>2. handle' = [handle EXCEPT !.position = @ + Piece]
    BY <1>2, <1>3, <1>7, <2>1
  <2>3. trouble' = trouble
    BY <1>2, <2>1 DEF Note
  <2>4. QED BY <1>1, <1>2, <1>5, <1>7, <2>1, <2>2, <2>3 DEF ReadEnds
<1>8. CASE call.done + Piece < call.size /\ next # Eoc
  <2>1. crosses
    BY <1>4, <1>8
  <2>2. handle' = [handle EXCEPT !.position = @ + Piece, !.current = next]
    BY <1>2, <1>8, <2>1
  <2>3. call' = [call EXCEPT !.done = @ + Piece, !.out = @ \o Got]
    BY <1>2, <1>3, <1>8, <2>1
  <2>4. \/ next = BadCluster /\ trouble' = trouble \cup {"failed"}
        \/ handle.current \in Cluster /\ next = fat[handle.current] /\ trouble' = trouble
    BY <1>2, <1>5, <2>1 DEF Note
  <2>5. QED BY <1>1, <1>5, <1>8, <2>2, <2>3, <2>4 DEF ReadGoesOn
<1>9. QED BY <1>3, <1>6, <1>7, <1>8

LEMMA ReturnedType ==
    ASSUME NEW bytes \in Seq(Byte)
    PROVE  /\ Returned(bytes) \in CallType /\ NoCall \in CallType
           /\ Returned(bytes).op = "none" /\ Returned(bytes).out = bytes
           /\ NoCall.op = "none" /\ NoCall.out = <<>>
<1>1. NoCall \in CallType /\ NoCall.op = "none" /\ NoCall.out = <<>>
  <2>1. <<>> \in Seq(Byte)
    OBVIOUS
  <2>2. QED BY <2>1 DEF NoCall, CallType
<1>2. Returned(bytes) \in CallType /\ Returned(bytes).op = "none" /\ Returned(bytes).out = bytes
  BY <1>1 DEF Returned, CallType
<1>3. QED BY <1>1, <1>2

MovedTo(h, g, k, c) ==
    /\ g \in HandleType
    /\ g.inUse = h.inUse /\ g.first = h.first /\ g.size = h.size /\ g.dirty = h.dirty
    /\ g.position = h.position + k /\ g.current = c

LEMMA HandleMoves ==
    ASSUME NEW h \in HandleType, NEW k \in Nat, NEW c \in Place \cup {0}, NEW g,
           g = [h EXCEPT !.position = @ + k, !.current = c]
    PROVE  MovedTo(h, g, k, c)
<1>1. h.position + k \in Nat
  BY DEF HandleType
<1>2. g \in HandleType
  BY <1>1 DEF HandleType
<1>3. g.inUse = h.inUse
  BY DEF HandleType
<1>4. g.dirty = h.dirty
  BY DEF HandleType
<1>5. g.first = h.first /\ g.size = h.size /\ g.position = h.position + k /\ g.current = c
  BY DEF HandleType
<1>6. QED BY <1>2, <1>3, <1>4, <1>5 DEF MovedTo

LEMMA ReadOneInv == ASSUME IInv, ReadOne PROVE IInv'
<1>1. /\ call.op = "read" /\ handle.current \in Place /\ UNCHANGED <<fat, data, entry>>
      /\ ReadEnds \/ ReadGoesOn
  BY ReadOneDoes
<1>2. /\ handle \in HandleType
      /\ call \in CallType
      /\ trouble \subseteq Trouble
  BY DEF IInv, TypeOK, HandleType, CallType
<1>a. /\ handle.position \in Nat /\ handle.size \in Nat /\ call.size \in Nat /\ call.done \in Nat
  BY Fields DEF IInv
<1>3. /\ Piece \in Nat \ {0} /\ Piece =< call.size - call.done
      /\ Piece < call.size - call.done => Inside + Piece = ClusterSize
  BY <1>1, PieceFacts DEF IInv
<1>4. Got \in Seq(Byte) /\ Len(Got) = Piece
  BY <1>1, BytesGot DEF IInv
<1>5. /\ handle.position + (call.size - call.done) =< handle.size
      /\ Len(call.out) = call.done
  BY <1>1 DEF IInv, CallOK
<1>6. call.out \o Got \in Seq(Byte) /\ Len(call.out \o Got) = call.done + Piece
  <2>1. call.out \in Seq(Byte)
    BY <1>2 DEF CallType
  <2>2. call.out \o Got \in Seq(Byte) /\ Len(call.out \o Got) = Len(call.out) + Len(Got)
    BY <1>4, <2>1, ConcatProperties, Zenon
  <2>3. QED BY <1>4, <1>5, <2>2
<1>7. handle'.inUse = handle.inUse /\ handle'.first = handle.first /\ handle'.size = handle.size
      /\ handle'.dirty = handle.dirty /\ handle'.position = handle.position + Piece
      /\ handle' \in HandleType
  <2>1. CASE ReadEnds
    <3>1. handle' = [handle EXCEPT !.position = @ + Piece, !.current = handle.current]
      BY <1>2, <2>1 DEF ReadEnds, HandleType
    <3>2. handle.current \in Place \cup {0}
      BY Fields DEF IInv
    <3>3. MovedTo(handle, handle', Piece, handle.current)
      BY <1>2, <1>3, <3>1, <3>2, HandleMoves
    <3>4. QED BY <3>3, Zenon DEF MovedTo
  <2>2. CASE ReadGoesOn
    <3>1. PICK next \in Place \cup {0} : handle' = [handle EXCEPT !.position = @ + Piece, !.current = next]
      BY <2>2 DEF ReadGoesOn
    <3>2. MovedTo(handle, handle', Piece, next)
      BY <1>2, <1>3, <3>1, HandleMoves
    <3>3. QED BY <3>2, Zenon DEF MovedTo
  <2>3. QED BY <1>1, <2>1, <2>2
<1>8. (Well' => Well) /\ (Astray => Astray') /\ trouble' \subseteq Trouble /\ handle.first # 0
  <2>1. trouble' \in {trouble, trouble \cup {"failed"}}
    BY <1>1 DEF ReadEnds, ReadGoesOn
  <2>2. handle.first # 0
    BY <1>1, InCall, Marks
  <2>3. QED BY <1>2, <2>1, <2>2 DEF Well, Astray, Trouble
<1>9. FileOK' /\ EntryOK'
  BY <1>1, <1>7, InCall DEF IInv, FileOK, EntryOK, First, Size
<1>10. WholeOK'
  BY <1>a, <1>1, <1>2, <1>7, <1>8, WholeMoves, InCall
<1>11. CASE ReadEnds
  <2>1. call'.op = "none" /\ handle'.current = handle.current /\ trouble' = trouble
    BY <1>2, <1>11 DEF ReadEnds, Returned, NoCall, HandleType
  <2>2. TypeOK'
    <3>1. call' \in CallType
      BY <1>6, <1>11, ReturnedType DEF ReadEnds
    <3>2. QED BY <1>1, <1>2, <1>7, <2>1, <3>1 DEF IInv, TypeOK, HandleType, CallType
  <2>3. CallOK'
    BY <1>a, <1>3, <1>5, <1>7, <1>8, <2>1 DEF CallOK
  <2>4. CursorOK'
    BY <1>1, <1>7, <1>8, <2>1, CursorStops
  <2>5. QED BY <1>9, <1>10, <2>2, <2>3, <2>4 DEF IInv
<1>12. CASE ReadGoesOn
  <2>1. PICK next \in Place \cup {0} :
         /\ handle' = [handle EXCEPT !.position = @ + Piece, !.current = next]
         /\ \/ next = BadCluster /\ trouble' = trouble \cup {"failed"}
            \/ /\ handle.current \in Cluster /\ next = fat[handle.current] /\ next # Eoc
               /\ trouble' = trouble
    BY <1>12 DEF ReadGoesOn
  <2>2. /\ call'.op = "read" /\ call'.size = call.size /\ call'.done = call.done + Piece
        /\ call'.out = call.out \o Got /\ handle'.current = next
        /\ call.done + Piece < call.size
    BY <1>1, <1>2, <1>12, <2>1 DEF ReadGoesOn, CallType, HandleType
  <2>3. TypeOK'
    <3>1. call' = [call EXCEPT !.done = call.done + Piece, !.out = call.out \o Got]
      BY <1>2, <1>12 DEF ReadGoesOn, CallType
    <3>2. call' \in CallType
      <4>1. call.done + Piece \in Nat
        BY <1>a, <1>3
      <4>2. QED BY <1>2, <1>6, <3>1, <4>1 DEF CallType
    <3>4. QED BY <1>1, <1>7, <1>8, <3>2 DEF IInv, TypeOK, HandleType, CallType
  <2>4. CallOK'
    <3>1. /\ handle'.position =< handle'.size /\ handle'.position # 0
          /\ call'.done < call'.size
          /\ handle'.position + (call'.size - call'.done) =< handle'.size
      <4>1. handle'.position = handle.position + Piece /\ handle'.size = handle.size
        BY <1>7
      <4>2. call'.size = call.size /\ call'.done = call.done + Piece /\ call.done + Piece < call.size
        BY <2>2
      <4>3. handle.position + (call.size - call.done) =< handle.size
        BY <1>5
      <4>4. QED BY <1>a, <1>3, <4>1, <4>2, <4>3
    <3>2. Len(call'.out) = call'.done
      BY <1>6, <2>2
    <3>3. QED BY <1>7, <1>8, <2>2, <3>1, <3>2 DEF CallOK
  <2>5. CursorOK'
    <3>1. ~Astray => StandsOn(fat, handle.first, next, Where + 1, Well')
      <4>1. CASE next = BadCluster /\ trouble' = trouble \cup {"failed"}
        BY <4>1, StandsOff, Marks DEF Well
      <4>2. CASE handle.current \in Cluster /\ next = fat[handle.current] /\ trouble' = trouble
        BY <1>1, <4>2, InCall, StandsNext, Fields DEF IInv, FileOK, Stands, Well
      <4>3. QED BY <2>1, <4>1, <4>2
    <3>2. ~Astray /\ Well' => handle'.current \in Cluster
      BY <1>1, <1>8, <2>1, <2>2, InCall, Fields DEF IInv, Well, FatType
    <3>3. Inside + Piece = ClusterSize
      BY <1>a, <1>3, <2>2
    <3>4. QED BY <1>1, <1>7, <1>8, <2>2, <3>1, <3>2, <3>3, CursorGoesOn
  <2>6. QED BY <1>9, <1>10, <2>3, <2>4, <2>5 DEF IInv
<1>13. QED BY <1>1, <1>11, <1>12

LEMMA StandsWeaker ==
    ASSUME NEW map, NEW first, NEW cur, NEW k, NEW well, NEW less, less => well,
           StandsOn(map, first, cur, k, well)
    PROVE  StandsOn(map, first, cur, k, less)
  BY DEF StandsOn

\* Nothing moves: a call falls short or is refused.
LEMMA StaysInv ==
    ASSUME IInv, UNCHANGED <<fat, entry, handle>>, data' \in [Place -> [Offset -> Byte]],
           call' \in CallType, call'.op = "none", ~handle.inUse => call' = NoCall,
           trouble' \subseteq Trouble, Well' => Well, Astray => Astray',
           "behind" \in trouble' => handle.first # 0
    PROVE  IInv'
<1>1. TypeOK'
  BY DEF IInv, TypeOK, CallType
<1>2. FileOK' /\ WholeOK'
  BY DEF IInv, FileOK, WholeOK, First, Size
<1>3. EntryOK'
  BY DEF IInv, EntryOK
<1>4. CallOK'
  BY DEF IInv, CallOK
<1>5. CursorOK'
  <2>a. SUFFICES ASSUME ~Astray' PROVE CursorOK'
    BY DEF CursorOK
  <2>1. \A k : Stands(k) => Stands(k)'
    BY DEF Stands, StandsOn
  <2>2. Where' = Where /\ Inside' = Inside
    BY DEF Where, Inside
  <2>3. CASE Stands(Where)
    <3>1. StandsOn(fat', handle'.first, handle'.current, Where, Well')
      BY <2>3 DEF Stands, StandsOn
    <3>2. QED BY <2>2, <3>1 DEF CursorOK, Stands
  <2>4. CASE AtEdge /\ Where > 0 /\ Stands(Where - 1)
    <3>1. StandsOn(fat', handle'.first, handle'.current, Where - 1, Well')
      BY <2>4 DEF Stands, StandsOn
    <3>2. QED BY <2>2, <2>4, <3>1 DEF CursorOK, Stands, AtEdge
  <2>5. QED BY <2>a, <2>3, <2>4 DEF IInv, CursorOK
<1>6. QED BY <1>1, <1>2, <1>3, <1>4, <1>5 DEF IInv

\* A failed transfer or a full disk leads no call astray.
LEMMA NotedKeeps ==
    ASSUME IInv, NEW what \in {"failed", "full"}, trouble' = trouble \cup {what}
    PROVE  /\ trouble \subseteq trouble' /\ trouble' \subseteq Trouble
           /\ (Well' => Well) /\ (Astray => Astray')
           /\ "behind" \in trouble' => handle.first # 0
  BY DEF IInv, TypeOK, CallOK, Trouble, Well, Astray

LEMMA ReadFailInv == ASSUME IInv, ReadFail PROVE IInv'
<1>1. /\ call.op = "read" /\ call' = Returned(call.out) /\ UNCHANGED <<fat, data, entry, handle>>
      /\ trouble' = trouble \cup {"failed"}
  BY DEF ReadFail, Note
<1>2. call' \in CallType /\ call'.op = "none"
  BY <1>1, Fields, ReturnedType DEF IInv
<1>3. trouble \subseteq Trouble /\ data \in [Place -> [Offset -> Byte]]
  BY DEF IInv, TypeOK
<1>4. handle.inUse
  BY <1>1, InCall
<1>5. QED BY <1>1, <1>2, <1>3, <1>4, NotedKeeps, StaysInv

-----------------------------------------------------------------------------
(* Writing                                                                   *)

WrittenTo(h, g, k, c) ==
    /\ g \in HandleType
    /\ g.inUse = h.inUse /\ g.first = h.first
    /\ g.position = h.position + k /\ g.current = c
    /\ g.size = IF h.position + k > h.size THEN h.position + k ELSE h.size
    /\ ~g.dirty => ~h.dirty /\ h.position + k =< h.size

LEMMA HandleWrites ==
    ASSUME NEW h \in HandleType, NEW k \in Nat, NEW c \in Place \cup {0}, NEW g,
           g = [h EXCEPT !.position = @ + k, !.current = c,
                         !.size = Max({@, h.position + k}),
                         !.dirty = @ \/ h.position + k > h.size]
    PROVE  WrittenTo(h, g, k, c)
<1>1. h.position \in Nat /\ h.size \in Nat /\ h.position + k \in Nat
  BY DEF HandleType
<1>2. PICK m \in Nat : /\ m = Max({h.size, h.position + k})
                       /\ m = IF h.position + k > h.size THEN h.position + k ELSE h.size
  <2> DEFINE a == h.size
             b == h.position + k
             m == IF b > a THEN b ELSE a
  <2>1. a \in Int /\ b \in Int /\ m \in Nat
    BY <1>1
  <2>2. Max({a, b}) = IF a >= b THEN a ELSE b
    BY <2>1, LargerOf
  <2>3. m = Max({a, b})
    BY <2>1, <2>2
  <2>4. QED BY <2>1, <2>3
<1>3. PICK b \in BOOLEAN : b <=> h.dirty \/ h.position + k > h.size
  OBVIOUS
<1>4. g = [h EXCEPT !.position = h.position + k, !.current = c, !.size = m, !.dirty = b]
  BY <1>2, <1>3 DEF HandleType
<1>5. g \in HandleType
  BY <1>1, <1>2, <1>3, <1>4 DEF HandleType
<1>6. g.inUse = h.inUse
  BY <1>4 DEF HandleType
<1>7. g.dirty = b
  BY <1>4 DEF HandleType
<1>8. g.first = h.first /\ g.size = m /\ g.position = h.position + k /\ g.current = c
  BY <1>4 DEF HandleType
<1>9. ~g.dirty => ~h.dirty /\ h.position + k =< h.size
  BY <1>1, <1>3, <1>7
<1>10. g.size = IF h.position + k > h.size THEN h.position + k ELSE h.size
  BY <1>2, <1>8
<1>11. QED BY <1>5, <1>6, <1>8, <1>9, <1>10 DEF WrittenTo

\* What every turn of fat32_write does; it goes on or is the last.
WriteTurn(c) ==
    /\ call.op = "write" /\ handle.current \in Place
    /\ data' = [data EXCEPT ![handle.current] = Overlay]
    /\ handle' = Moved(c)
    /\ UNCHANGED entry
    /\ \/ call' = NoCall
       \/ call.done + Piece < call.size /\ call' = [call EXCEPT !.done = @ + Piece]
GrownFat ==
    /\ fat' \in FatType /\ Linear(fat') /\ Leading(fat') /\ Begins(fat', handle.first)
    /\ \A d \in Cluster : fat[d] \in Cluster => fat'[d] = fat[d]

LEMMA WriteTurnFields ==
    ASSUME IInv, NEW c \in Place \cup {0}, WriteTurn(c)
    PROVE  /\ WrittenTo(handle, handle', Piece, c)
           /\ Piece \in Nat \ {0} /\ Piece =< call.size - call.done
           /\ call' \in CallType
           /\ data' \in [Place -> [Offset -> Byte]]
<1>1. call.op = "write" /\ handle.current \in Place
  BY DEF WriteTurn
<1>2. Piece \in Nat \ {0} /\ Piece =< call.size - call.done
  BY <1>1, PieceFacts DEF IInv
<1>3. handle \in HandleType /\ call \in CallType /\ data \in [Place -> [Offset -> Byte]]
  BY DEF IInv, TypeOK, HandleType, CallType
<1>4. handle' = [handle EXCEPT !.position = @ + Piece, !.current = c,
                         !.size = Max({@, handle.position + Piece}),
                         !.dirty = @ \/ handle.position + Piece > handle.size]
  BY DEF WriteTurn, Moved
<1>5. WrittenTo(handle, handle', Piece, c)
  BY <1>2, <1>3, <1>4, HandleWrites
<1>6. Overlay \in [Offset -> Byte]
  BY <1>1, OverlayIs DEF IInv
<1>7. data' \in [Place -> [Offset -> Byte]]
  BY <1>3, <1>6 DEF WriteTurn
<1>8. call' \in CallType
  <2>1. call.done + Piece \in Nat
    BY <1>2, Fields DEF IInv
  <2>2. CASE call' = NoCall
    BY <2>2, ReturnedType, <<>> \in Seq(Byte)
  <2>3. CASE call' = [call EXCEPT !.done = call.done + Piece]
    BY <1>3, <2>1, <2>3 DEF CallType
  <2>4. call' = [call EXCEPT !.done = @ + Piece] => call' = [call EXCEPT !.done = call.done + Piece]
    BY <1>3 DEF CallType
  <2>5. QED BY <2>2, <2>3, <2>4 DEF WriteTurn
<1>9. QED BY <1>2, <1>5, <1>7, <1>8

LEMMA WriteTurnInv ==
    ASSUME IInv, NEW c \in Place \cup {0}, WriteTurn(c), GrownFat,
           trouble \subseteq trouble', trouble' \subseteq Trouble,
           "behind" \in trouble' => "behind" \in trouble, Well' => Well, CursorOK'
    PROVE  IInv'
<1>1. call.op = "write"
  BY DEF WriteTurn
<1>2. /\ WrittenTo(handle, handle', Piece, c) /\ Piece \in Nat \ {0} /\ Piece =< call.size - call.done
      /\ call' \in CallType /\ data' \in [Place -> [Offset -> Byte]]
  BY WriteTurnFields
<1>3. /\ handle' \in HandleType /\ handle'.inUse = handle.inUse /\ handle'.first = handle.first
      /\ handle'.position = handle.position + Piece
      /\ handle'.size = IF handle.position + Piece > handle.size THEN handle.position + Piece ELSE handle.size
      /\ ~handle'.dirty => ~handle.dirty /\ handle.position + Piece =< handle.size
  BY <1>2 DEF WrittenTo
<1>a. handle.position \in Nat /\ handle.size \in Nat /\ call.size \in Nat /\ call.done \in Nat /\ entry.size \in Nat
  BY Fields DEF IInv
<1>4. /\ handle.inUse /\ handle.first \in Cluster /\ handle.first # 0
  BY <1>1, InCall, Marks
<1>5. handle'.size \in Nat
  BY <1>3 DEF HandleType
<1>c. /\ handle'.size = IF handle.position + Piece > handle.size THEN handle.position + Piece ELSE handle.size
      /\ handle.position + Piece \in Nat
  BY <1>2, <1>3, <1>a
<1>b. /\ entry' = entry
      /\ \/ call' = NoCall
         \/ call.done + Piece < call.size /\ call' = [call EXCEPT !.done = @ + Piece]
  BY DEF WriteTurn
<1>6. TypeOK'
  BY <1>2, <1>3, <1>b DEF IInv, TypeOK, GrownFat, FatType, HandleType, CallType
<1>7. FileOK'
  BY <1>3, <1>4, Marks DEF GrownFat, FileOK, First, Begins
<1>8. EntryOK'
  <2>1. entry.size =< handle.size /\ entry.first \in {0, handle.first} /\ (entry.first = 0 => entry.size = 0)
    BY <1>4 DEF IInv, EntryOK
  <2>2. entry.size =< handle'.size
    BY <1>c, <1>a, <2>1
  <2>3. ASSUME ~handle'.dirty PROVE entry.first = handle'.first /\ entry.size = handle'.size
    <3>1. entry.first = handle.first /\ entry.size = handle.size
      BY <1>3, <1>4, <2>3 DEF IInv, EntryOK
    <3>2. handle'.size = handle.size
      <4>1. handle.position + Piece =< handle.size
        BY <1>3, <2>3
      <4>2. QED BY <1>a, <1>c, <4>1
    <3>3. QED BY <1>3, <3>1, <3>2
  <2>4. QED BY <1>3, <1>4, <1>b, <2>1, <2>2, <2>3 DEF EntryOK
<1>9. CallOK'
  <2>1. handle'.position =< handle'.size /\ handle'.position # 0
    BY <1>2, <1>3, <1>a
  <2>2. CASE call' = NoCall
    BY <1>3, <1>4, <2>1, <2>2 DEF CallOK, NoCall
  <2>3. CASE call.done + Piece < call.size /\ call' = [call EXCEPT !.done = @ + Piece]
    <3>1. /\ call'.op = "write" /\ call'.size = call.size /\ call'.done = call.done + Piece
          /\ call'.bytes = call.bytes /\ call'.out = call.out
      BY <1>1, <2>3, call \in CallType DEF IInv, TypeOK, CallType
    <3>2. /\ Len(call.bytes) = call.size /\ call.out = <<>>
          /\ "behind" \in trouble' => "damaged" \in trouble'
      BY <1>1 DEF IInv, CallOK
    <3>3. QED BY <1>3, <1>4, <2>1, <2>3, <3>1, <3>2 DEF CallOK
  <2>4. QED BY <1>b, <2>2, <2>3
<1>10. WholeOK'
  <2>1. handle'.size =< handle.size
          \/ (call.op = "write" /\ handle'.size = handle.position + Piece)
    BY <1>1, <1>3, <1>a
  <2>2. QED BY <1>1, <1>3, <1>4, <1>5, <2>1, WholeMoves DEF GrownFat
<1>11. QED BY <1>6, <1>7, <1>8, <1>9, <1>10 DEF IInv

TurnOfWrite(c) ==
    /\ WriteTurn(c) /\ GrownFat /\ CursorOK'
    /\ trouble \subseteq trouble' /\ trouble' \subseteq trouble \cup {"failed", "full"}
    /\ call' = NoCall => call.done + Piece = call.size \/ trouble' \cap {"failed", "full"} # {}

LEMMA TroubleGrows ==
    ASSUME TypeOK, NEW bad, NEW what \in {"failed", "full"}, Note(bad, what)
    PROVE  /\ trouble \subseteq trouble' /\ trouble' \subseteq trouble \cup {"failed", "full"}
           /\ trouble' \subseteq Trouble
           /\ (Well' => Well) /\ (Astray => Astray')
           /\ bad => what \in trouble'
           /\ ~bad => trouble' = trouble
<1>1. trouble \subseteq Trouble
  BY DEF TypeOK
<1>2. trouble' = trouble \cup IF bad THEN {what} ELSE {}
  BY DEF Note
<1>3. QED BY <1>1, <1>2 DEF Well, Astray, Trouble

LEMMA SameFatGrown == ASSUME IInv, call.op # "none", fat' = fat PROVE GrownFat
  BY InCall, Fields DEF GrownFat, IInv, FileOK

LEMMA CallGoesOn ==
    ASSUME IInv, call.op = "write", call' = [call EXCEPT !.done = @ + Piece]
    PROVE  call' # NoCall
<1>1. call'.op = "write"
  BY DEF IInv, TypeOK
<1>2. QED BY <1>1 DEF NoCall

LEMMA WriteLastDoes ==
    ASSUME IInv, WriteLast
    PROVE  TurnOfWrite(handle.current)
<1>1. call.op = "write" /\ handle.current \in Place /\ fat' = fat /\ trouble' = trouble
  BY DEF WriteLast, WritePiece
<1>2. WriteTurn(handle.current) /\ call' = NoCall /\ call.done + Piece = call.size
  BY DEF WriteLast, WritePiece, WriteTurn
<1>3. handle'.position = handle.position + Piece /\ handle'.first = handle.first /\ handle'.current = handle.current
  BY <1>1, <1>2, WriteTurnFields DEF WrittenTo
<1>4. CursorOK'
  BY <1>1, <1>2, <1>3, CursorStops DEF NoCall, Well, Astray
<1>5. GrownFat
  BY <1>1, SameFatGrown
<1>7. QED BY <1>1, <1>2, <1>4, <1>5 DEF TurnOfWrite

LEMMA WriteOnDoes ==
    ASSUME IInv, WriteOn
    PROVE  \E c \in Place \cup {0} : TurnOfWrite(c)
<1>1. call.op = "write" /\ handle.current \in Place /\ fat' = fat /\ call.done + Piece < call.size
  BY DEF WriteOn, WritePiece
<1>2. PICK next \in Answers(handle.current) \ {Eoc} :
        handle' = Moved(next) /\ Note(next = BadCluster, "failed")
  BY DEF WriteOn
<1>3. /\ next \in Place \cup {0}
      /\ next = BadCluster \/ (handle.current \in Cluster /\ next = fat[handle.current])
  BY <1>1, <1>2, Fields, Marks DEF Answers, Place, IInv, FatType
<1>4. WriteTurn(next) /\ call' = [call EXCEPT !.done = @ + Piece]
  BY <1>1, <1>2 DEF WriteOn, WritePiece, WriteTurn
<1>5. handle'.position = handle.position + Piece /\ handle'.first = handle.first /\ handle'.current = next
  BY <1>3, <1>4, WriteTurnFields DEF WrittenTo
<1>6. /\ trouble \subseteq trouble' /\ trouble' \subseteq trouble \cup {"failed", "full"}
      /\ (Well' => Well) /\ (Astray => Astray')
      /\ next = BadCluster => "failed" \in trouble'
  BY <1>2, TroubleGrows DEF IInv
<1>7. Inside + Piece = ClusterSize
  BY <1>1, PieceFacts, Fields DEF IInv
<1>8. ~Astray => StandsOn(fat', handle'.first, handle'.current, Where + 1, Well')
  <2>1. CASE next = BadCluster
    BY <1>1, <1>5, <1>6, <2>1, StandsOff, Marks DEF Well
  <2>2. CASE handle.current \in Cluster /\ next = fat[handle.current]
    <3>1. ~Astray => StandsOn(fat, handle.first, next, Where + 1, Well)
      BY <1>1, <2>2, InCall, StandsNext, Fields DEF IInv, FileOK, Stands
    <3>2. QED BY <1>1, <1>5, <1>6, <3>1, StandsWeaker
  <2>3. QED BY <1>3, <2>1, <2>2
<1>9. ~Astray /\ Well' => handle'.current \in Cluster
  BY <1>1, <1>2, <1>3, <1>5, <1>6, InCall, Fields DEF IInv, Well, FatType
<1>10. CursorOK'
  BY <1>1, <1>5, <1>6, <1>7, <1>8, <1>9, CursorGoesOn
<1>11. GrownFat
  BY <1>1, SameFatGrown
<1>12. call' # NoCall
  BY <1>1, <1>4, CallGoesOn
<1>13. QED BY <1>3, <1>4, <1>6, <1>10, <1>11, <1>12 DEF TurnOfWrite

LEMMA WriteExtendDoes ==
    ASSUME IInv, NEW new \in Cluster, NEW linked \in BOOLEAN, WriteExtend(new, linked)
    PROVE  TurnOfWrite(new)
<1>1. /\ call.op = "write" /\ handle.current \in Cluster /\ fat[handle.current] = Eoc
      /\ call.done + Piece < call.size
      /\ fat[new] = Free
      /\ fat' = IF linked THEN Linked(fat, new, handle.current) ELSE Marked(fat, new)
      /\ Note(~linked \/ ~Normal(new), "failed")
  BY DEF WriteExtend, WritePiece, Allocatable, Linked, Marked
<1>2. WriteTurn(new) /\ call' = [call EXCEPT !.done = @ + Piece]
  BY DEF WriteExtend, WritePiece, WriteTurn
<1>3. new \in Place \cup {0}
  BY DEF Place
<1>4. handle'.position = handle.position + Piece /\ handle'.first = handle.first /\ handle'.current = new
  BY <1>2, <1>3, WriteTurnFields DEF WrittenTo
<1>5. /\ trouble \subseteq trouble' /\ trouble' \subseteq trouble \cup {"failed", "full"}
      /\ (Well' => Well) /\ (Astray => Astray')
      /\ ~linked => "failed" \in trouble'
  BY <1>1, TroubleGrows DEF IInv
<1>6. Inside + Piece = ClusterSize
  BY <1>1, PieceFacts, Fields DEF IInv
<1>7. /\ fat \in FatType /\ Linear(fat) /\ Leading(fat) /\ Begins(fat, handle.first)
      /\ ~Astray => Stands(Where)
      /\ Where \in Nat
  BY <1>1, InCall, Fields DEF IInv, FileOK
<1>8. CASE linked
  <2>1. fat' = Linked(fat, new, handle.current)
    BY <1>1, <1>8
  <2>2. GrownFat
    BY <1>1, <1>7, <2>1, LinkKeeps DEF GrownFat
  <2>3. ~Astray => StandsOn(fat', handle'.first, handle'.current, Where + 1, Well)
    BY <1>1, <1>4, <1>7, <2>1, StandsLinked DEF Stands
  <2>4. QED BY <1>4, <1>5, <2>2, <2>3, StandsWeaker, <1>6, <1>1, <1>2, CursorGoesOn, CallGoesOn DEF TurnOfWrite
<1>9. CASE ~linked
  <2>1. fat' = Marked(fat, new)
    BY <1>1, <1>9
  <2>2. GrownFat
    BY <1>1, <1>7, <2>1, MarkKeeps, Marks DEF GrownFat
  <2>3. StandsOn(fat', handle'.first, handle'.current, Where + 1, FALSE)
    BY <1>1, <1>4, <1>7, <2>1, StandsMarked
  <2>4. QED BY <1>4, <1>5, <1>9, <2>2, <2>3, StandsWeaker, <1>6, <1>1, <1>2, CursorGoesOn, CallGoesOn DEF TurnOfWrite, Well
<1>10. QED BY <1>8, <1>9

LEMMA WriteShortDoes ==
    ASSUME IInv, WriteShort
    PROVE  TurnOfWrite(handle.current)
<1>1. call.op = "write" /\ handle.current \in Place /\ fat' = fat
  BY DEF WriteShort, WritePiece
<1>2. WriteTurn(handle.current) /\ call' = NoCall
  BY DEF WriteShort, WritePiece, WriteTurn
<1>3. handle'.position = handle.position + Piece /\ handle'.first = handle.first /\ handle'.current = handle.current
  BY <1>1, <1>2, WriteTurnFields DEF WrittenTo
<1>4. /\ trouble \subseteq trouble' /\ trouble' \subseteq trouble \cup {"failed", "full"}
      /\ (Well' => Well) /\ (Astray => Astray')
      /\ trouble' \cap {"failed", "full"} # {}
  <2>1. Note(TRUE, "full") \/ Note(TRUE, "failed")
    BY DEF WriteShort, NoteNoCluster
  <2>2. QED BY <2>1, TroubleGrows DEF IInv
<1>5. CursorOK'
  BY <1>1, <1>2, <1>3, <1>4, CursorStops DEF NoCall
<1>6. GrownFat
  BY <1>1, SameFatGrown
<1>7. QED BY <1>1, <1>2, <1>4, <1>5, <1>6 DEF TurnOfWrite

LEMMA WriteTurnsInv ==
    ASSUME IInv, WriteLast \/ WriteOn \/ (\E new \in Cluster, linked \in BOOLEAN : WriteExtend(new, linked))
                 \/ WriteShort
    PROVE  IInv' /\ \E c \in Place \cup {0} : TurnOfWrite(c)
<1>1. handle.current \in Place \cup {0}
  BY Fields DEF IInv
<1>2. Cluster \subseteq Place
  BY DEF Place
<1>3. PICK c \in Place \cup {0} : TurnOfWrite(c)
  BY <1>1, <1>2, WriteLastDoes, WriteOnDoes, WriteExtendDoes, WriteShortDoes
<1>4. /\ WriteTurn(c) /\ GrownFat /\ CursorOK' /\ (Well' => Well)
      /\ trouble \subseteq trouble' /\ trouble' \subseteq Trouble
      /\ "behind" \in trouble' => "behind" \in trouble
  BY <1>3 DEF TurnOfWrite, Well, Trouble, IInv, TypeOK
<1>5. IInv'
  BY <1>4, WriteTurnInv
<1>6. QED BY <1>3, <1>5

\* A write that fails writes no further than the piece would have gone.
FailWrites(sectors) ==
    [o \in Offset |-> IF o < sectors * SectorSize THEN Overlay[o] ELSE data[handle.current][o]]

LEMMA WriteFailDoes ==
    ASSUME IInv, NEW sectors \in 0 .. (SectorsPerCluster - 1), WriteFail(sectors)
    PROVE  /\ call.op = "write" /\ call' = NoCall /\ UNCHANGED <<fat, entry, handle>>
           /\ trouble' = trouble \cup {"failed"}
           /\ \/ data' = data
              \/ /\ handle.current \in Place
                 /\ data' = [data EXCEPT ![handle.current] = FailWrites(sectors)]
           /\ data' \in [Place -> [Offset -> Byte]]
<1>1. /\ call.op = "write" /\ call' = NoCall /\ UNCHANGED <<fat, entry, handle>>
      /\ trouble' = trouble \cup {"failed"}
      /\ sectors > 0 => handle.current \in Place
      /\ data' = IF sectors = 0 THEN data
                 ELSE [data EXCEPT ![handle.current] =
                       [o \in Offset |-> IF o < sectors * SectorSize THEN Overlay[o] ELSE @[o]]]
  BY DEF WriteFail, Note
<1>2. data \in [Place -> [Offset -> Byte]]
  BY DEF IInv, TypeOK
<1>3. CASE sectors = 0
  BY <1>1, <1>2, <1>3
<1>4. CASE sectors # 0
  <2>1. handle.current \in Place
    BY <1>1, <1>4
  <2>2. data' = [data EXCEPT ![handle.current] = FailWrites(sectors)]
    BY <1>1, <1>2, <1>4, <2>1 DEF FailWrites
  <2>3. Overlay \in [Offset -> Byte]
    BY <1>1, <2>1, OverlayIs DEF IInv
  <2>4. FailWrites(sectors) \in [Offset -> Byte]
    <3>1. data[handle.current] \in [Offset -> Byte]
      BY <1>2, <2>1
    <3>2. QED BY <2>3, <3>1 DEF FailWrites
  <2>5. QED BY <1>1, <1>2, <2>1, <2>2, <2>4
<1>5. QED BY <1>3, <1>4

LEMMA WriteFailInv ==
    ASSUME IInv, NEW sectors \in 0 .. (SectorsPerCluster - 1), WriteFail(sectors)
    PROVE  IInv'
<1>1. /\ call.op = "write" /\ call' = NoCall /\ UNCHANGED <<fat, entry, handle>>
      /\ trouble' = trouble \cup {"failed"} /\ data' \in [Place -> [Offset -> Byte]]
  BY WriteFailDoes
<1>2. call' \in CallType /\ call'.op = "none"
  BY <1>1, ReturnedType, <<>> \in Seq(Byte)
<1>4. QED BY <1>1, <1>2, NotedKeeps, StaysInv

-----------------------------------------------------------------------------
(* Calls                                                                     *)

LEMMA NoCallType == NoCall \in CallType /\ NoCall.op = "none" /\ NoCall.out = <<>>
  BY ReturnedType, <<>> \in Seq(Byte)

\* The cursor that may be used to go on is where the position says.
LEMMA SettledStands ==
    ASSUME IInv, Settled, ~Astray
    PROVE  Stands(Where)
<1>1. SUFFICES ASSUME call.op = "none", AtEdge, Where > 0, Stands(Where - 1) PROVE Stands(Where)
  BY DEF IInv, CursorOK
<1>2. handle.position # 0
  <2>1. 0 \div ClusterSize = 0
    BY ClusterSizePositive, FirstSplit, 0 \in Offset DEF Offset
  <2>2. QED BY <1>1, <2>1 DEF Where
<1>3. handle.current \in Cluster /\ handle.current = ChainOn(fat, handle.first, Where)
  BY <1>1, <1>2 DEF Settled, AtEdge, Inside, Where, ChainAt
<1>4. Where \in Nat
  BY Fields DEF IInv
<1>5. Where = Where - 1
  BY <1>1, <1>3, <1>4 DEF Stands, StandsOn
<1>6. QED BY <1>4, <1>5

LEMMA OpenInv == ASSUME IInv, Open PROVE IInv'
<1>1. /\ ~handle.inUse /\ call' = NoCall /\ UNCHANGED <<fat, data, entry, trouble>>
      /\ handle' = [inUse |-> TRUE, first |-> entry.first, current |-> entry.first,
                    position |-> 0, size |-> entry.size, dirty |-> FALSE]
  BY DEF Open
<1>2. Cluster \subseteq Place /\ entry.first \in Cluster \cup {0} /\ entry.size \in Nat /\ NoCall \in CallType
  BY Fields, NoCallType DEF Place, IInv
<1>3. TypeOK'
  BY <1>1, <1>2 DEF IInv, TypeOK, CallType
<1>4. FileOK' /\ WholeOK'
  BY <1>1 DEF IInv, FileOK, WholeOK, First, Size, Well
<1>5. EntryOK'
  BY <1>1, <1>2 DEF EntryOK, IInv, FileOK, First, Size
<1>6. CallOK'
  BY <1>1, <1>2, NoCallType DEF IInv, EntryOK, Closed, CallOK
<1>7. CursorOK'
  <2>1. Where' = 0
    BY <1>1, ClusterSizePositive, FirstSplit, 0 \in Offset DEF Where, Offset
  <2>2. StandsOn(fat, entry.first, entry.first, 0, Well)
    <3>1. CASE entry.first = 0
      BY <3>1, ChainFirst, Marks DEF StandsOn
    <3>2. CASE entry.first # 0
      <4>1. Begins(fat, entry.first) /\ Linear(fat)
        BY <1>1, <3>2 DEF IInv, FileOK, First
      <4>2. StandsOn(fat, entry.first, ChainOn(fat, entry.first, 0), 0, Well)
        BY <4>1, StandsThere
      <4>3. QED BY <4>2, ChainFirst
    <3>3. QED BY <3>1, <3>2
  <2>3. QED BY <1>1, <2>1, <2>2, NoCallType DEF CursorOK, Stands, Well
<1>8. QED BY <1>3, <1>4, <1>5, <1>6, <1>7 DEF IInv

LEMMA AtStart == 0 \div ClusterSize = 0 /\ 0 % ClusterSize = 0
  BY ClusterSizePositive, FirstSplit, 0 \in Offset DEF Offset

LEMMA CallReadInv == ASSUME IInv, NEW n \in 1 .. MaxMove, CallRead(n) PROVE IInv'
<1>1. /\ handle.inUse /\ call.op = "none" /\ UNCHANGED <<fat, data, entry, handle>>
      /\ call' = IF handle.position >= handle.size
                 THEN NoCall
                 ELSE [op |-> "read", size |-> Min({n, handle.size - handle.position}),
                       done |-> 0, bytes |-> <<>>, out |-> <<>>]
      /\ trouble' = trouble \cup IF handle.position < handle.size /\ ~Settled THEN {"behind"} ELSE {}
  BY DEF CallRead, Ready, Note
<1>2. handle.position \in Nat /\ handle.size \in Nat /\ n \in Nat \ {0}
  BY Fields, GeometryAssumption DEF IInv
<1>3. data \in [Place -> [Offset -> Byte]] /\ trouble \subseteq Trouble
  BY DEF IInv, TypeOK
<1>4. CASE handle.position >= handle.size
  <2>1. call' = NoCall /\ trouble' = trouble
    BY <1>1, <1>2, <1>4
  <2>2. "behind" \in trouble => handle.first # 0
    BY DEF IInv, CallOK
  <2>3. QED BY <1>1, <1>3, <2>1, <2>2, NoCallType, StaysInv DEF Well, Astray
<1>5. CASE handle.position < handle.size
  <2>1. PICK m \in Nat : m = Min({n, handle.size - handle.position}) /\ m > 0
                         /\ m =< handle.size - handle.position
    <3>1. handle.size - handle.position \in Int /\ n \in Int
      BY <1>2
    <3>2. Min({n, handle.size - handle.position})
            = IF n =< handle.size - handle.position THEN n ELSE handle.size - handle.position
      BY <3>1, SmallerOf
    <3>3. QED BY <1>2, <1>5, <3>2
  <2>2. call' = [op |-> "read", size |-> m, done |-> 0, bytes |-> <<>>, out |-> <<>>]
    BY <1>1, <1>2, <1>5, <2>1
  <2>3. trouble' = trouble \cup IF ~Settled THEN {"behind"} ELSE {}
    BY <1>1, <1>5
  <2>4. ~Astray' => Settled /\ ~Astray /\ trouble' = trouble
    BY <2>3 DEF Astray
  <2>5. TypeOK'
    <3>1. call' \in CallType
      BY <2>2, <<>> \in Seq(Byte) DEF CallType
    <3>2. trouble' \subseteq Trouble
      BY <1>3, <2>3 DEF Trouble
    <3>3. QED BY <1>1, <3>1, <3>2 DEF IInv, TypeOK, CallType
  <2>6. FileOK' /\ WholeOK' /\ EntryOK'
    <3>1. Well' => Well
      BY <2>3 DEF Well
    <3>2. QED BY <1>1, <3>1 DEF IInv, FileOK, WholeOK, EntryOK, First, Size
  <2>7. CallOK'
    <3>1. handle.position + (m - 0) =< handle.size
      BY <1>2, <2>1
    <3>2. handle.first # 0
      BY <1>1, <1>2, <1>5 DEF IInv, FileOK, First, Size
    <3>3. QED BY <1>1, <2>1, <2>2, <3>1, <3>2 DEF IInv, CallOK
  <2>8. CursorOK'
    <3> SUFFICES ASSUME ~Astray' PROVE CursorOK'
      BY DEF CursorOK
    <3>0. Settled /\ ~Astray /\ trouble' = trouble /\ Stands(Where)
      BY <2>4, SettledStands
    <3>1. Well => handle.current \in Cluster
      <4>1. Well => ChainOn(fat, handle.first, Where) \in Cluster
        BY <1>1, <1>2, <1>5 DEF IInv, WholeOK, Whole, First, Size, Where
      <4>2. QED BY <3>0, <4>1 DEF Stands, StandsOn
    <3>2. StandsOn(fat', handle'.first, handle'.current, Where', Well')
      BY <1>1, <3>0 DEF Stands, Where, Well
    <3>3. QED BY <1>1, <3>0, <3>1, <3>2 DEF CursorOK, Stands, Well
  <2>9. QED BY <2>5, <2>6, <2>7, <2>8 DEF IInv
<1>6. QED BY <1>2, <1>4, <1>5

LEMMA PayloadIs ==
    ASSUME NEW tag \in Tag, NEW n \in 1 .. MaxMove
    PROVE  Payload(tag, n) \in Seq(Byte) /\ Len(Payload(tag, n)) = n /\ n \in Nat \ {0}
<1>1. n \in Nat \ {0}
  BY GeometryAssumption
<1>2. Payload(tag, n) \in [1 .. n -> Byte]
  BY GeometryAssumption DEF Payload, Byte
<1>3. QED BY <1>1, <1>2

\* Where a write begins there is a cluster.
LEMMA WriteStarts ==
    ASSUME IInv, Settled, ~Astray, handle.inUse, handle.first # 0, Well
    PROVE  handle.current \in Cluster
<1>1. Stands(Where) /\ handle.position \in Nat /\ handle.size \in Nat
  BY SettledStands, Fields DEF IInv
<1>2. CASE handle.position = 0
  BY <1>2, Fields DEF IInv, CallOK
<1>3. CASE handle.position # 0 /\ handle.position % ClusterSize # 0
  <2>1. (handle.position - 1) \div ClusterSize = Where
    BY <1>1, <1>3, ByteBefore DEF Where
  <2>2. handle.position - 1 \in 0 .. handle.size - 1
    BY <1>1, <1>3 DEF IInv, CallOK
  <2>3. ChainOn(fat, handle.first, Where) \in Cluster
    BY <2>1, <2>2 DEF IInv, WholeOK, Whole, First, Size
  <2>4. QED BY <1>1, <2>3 DEF Stands, StandsOn
<1>4. QED BY <1>2, <1>3 DEF Settled

\* What fat32_write does before its loop
WriteBegins(bytes) ==
    /\ handle.inUse /\ call.op = "none"
    /\ bytes \in Seq(Byte) /\ Len(bytes) \in Nat \ {0}
    /\ call' = [op |-> "write", size |-> Len(bytes), done |-> 0, bytes |-> bytes, out |-> <<>>]
    /\ UNCHANGED <<data, entry>>
    /\ \/ /\ handle.first # 0 /\ UNCHANGED <<fat, handle>>
          /\ trouble' = IF Settled /\ "behind" \notin trouble THEN trouble
                        ELSE trouble \cup {"behind", "damaged"}
       \/ /\ handle.first = 0 /\ handle.size = 0 /\ handle.position = 0
          /\ \E new \in Cluster :
               /\ fat[new] = Free /\ fat' = Marked(fat, new)
               /\ handle' \in HandleType /\ handle'.inUse
               /\ handle'.first = new /\ handle'.current = new /\ handle'.dirty
               /\ handle'.position = 0 /\ handle'.size = 0
          /\ trouble \subseteq trouble' /\ trouble' \subseteq trouble \cup {"failed", "full"}

LEMMA CallWriteDoes ==
    ASSUME IInv, NEW bytes \in Seq(Byte), Len(bytes) \in Nat \ {0}, CallWrite(bytes)
    PROVE  WriteBegins(bytes)
<1>3. /\ handle.inUse /\ call.op = "none" /\ UNCHANGED <<data, entry>>
      /\ call' = [op |-> "write", size |-> Len(bytes), done |-> 0, bytes |-> bytes, out |-> <<>>]
  BY DEF CallWrite, Ready
<1>4. CASE handle.first # 0
  BY <1>3, <1>4 DEF CallWrite, WriteBegins
<1>5. CASE handle.first = 0
  <2>1. PICK new \in Allocatable :
          /\ fat' = [fat EXCEPT ![new] = Eoc]
          /\ handle' = [handle EXCEPT !.first = new, !.current = new, !.dirty = TRUE]
          /\ Note(~Normal(new), "failed")
    BY <1>5 DEF CallWrite
  <2>2. new \in Cluster /\ fat[new] = Free /\ fat' = Marked(fat, new) /\ new \in Place
    BY <2>1 DEF Allocatable, Marked, Place
  <2>3. handle.size = 0 /\ handle.position = 0
    <3>1. handle.size = 0
      BY <1>3, <1>5 DEF IInv, FileOK, First, Size
    <3>2. QED BY <3>1, Fields DEF IInv, CallOK
  <2>4. handle \in HandleType
    BY DEF IInv, TypeOK, HandleType
  <2>5. handle' \in HandleType
    BY <2>1, <2>2, <2>4 DEF HandleType
  <2>6. handle'.inUse
    BY <1>3, <2>1, <2>4 DEF HandleType
  <2>7. handle'.dirty
    BY <2>1, <2>4 DEF HandleType
  <2>8. handle'.first = new /\ handle'.current = new /\ handle'.position = 0 /\ handle'.size = 0
    BY <2>1, <2>3, <2>4 DEF HandleType
  <2>9. trouble \subseteq trouble' /\ trouble' \subseteq trouble \cup {"failed", "full"}
    BY <2>1, TroubleGrows DEF IInv
  <2>10. QED BY <1>3, <1>5, <2>2, <2>3, <2>5, <2>6, <2>7, <2>8, <2>9 DEF WriteBegins
<1>6. QED BY <1>4, <1>5

LEMMA CallWriteInv ==
    ASSUME IInv, NEW bytes, WriteBegins(bytes)
    PROVE  IInv'
<1>1. /\ handle.inUse /\ call.op = "none" /\ UNCHANGED <<data, entry>>
      /\ bytes \in Seq(Byte) /\ Len(bytes) \in Nat \ {0}
      /\ call' = [op |-> "write", size |-> Len(bytes), done |-> 0, bytes |-> bytes, out |-> <<>>]
  BY DEF WriteBegins
<1>2. call' \in CallType
  BY <1>1, <<>> \in Seq(Byte) DEF CallType
<1>3. CASE handle.first # 0
  <2>1. /\ UNCHANGED <<fat, handle>>
        /\ trouble' = IF Settled /\ "behind" \notin trouble THEN trouble
                      ELSE trouble \cup {"behind", "damaged"}
    BY <1>3 DEF WriteBegins
  <2>2. TypeOK'
    <3>1. trouble' \subseteq Trouble
      BY <2>1 DEF IInv, TypeOK, Trouble
    <3>2. QED BY <1>1, <1>2, <2>1, <3>1 DEF IInv, TypeOK, CallType
  <2>3. FileOK' /\ WholeOK' /\ EntryOK'
    <3>1. Well' => Well
      BY <2>1 DEF Well
    <3>2. QED BY <1>1, <2>1, <3>1 DEF IInv, FileOK, WholeOK, EntryOK, First, Size
  <2>4. CallOK'
    <3>1. "behind" \in trouble' => "damaged" \in trouble'
      BY <2>1
    <3>2. QED BY <1>1, <1>3, <2>1, <3>1 DEF IInv, CallOK
  <2>5. CursorOK'
    <3> SUFFICES ASSUME ~Astray' PROVE CursorOK'
      BY DEF CursorOK
    <3>1. Settled /\ ~Astray /\ trouble' = trouble
      BY <2>1 DEF Astray
    <3>2. StandsOn(fat', handle'.first, handle'.current, Where', Well')
      BY <2>1, <3>1, SettledStands DEF Stands, Where, Well
    <3>3. Well' => handle'.current \in Cluster
      BY <1>1, <1>3, <2>1, <3>1, WriteStarts DEF Well
    <3>4. QED BY <3>2, <3>3 DEF CursorOK, Stands
  <2>6. QED BY <2>2, <2>3, <2>4, <2>5 DEF IInv
<1>4. CASE handle.first = 0
  <2>1. PICK new \in Cluster :
               /\ fat[new] = Free /\ fat' = Marked(fat, new)
               /\ handle' \in HandleType /\ handle'.inUse
               /\ handle'.first = new /\ handle'.current = new /\ handle'.dirty
               /\ handle'.position = 0 /\ handle'.size = 0
    BY <1>4, Zenon DEF WriteBegins
  <2>2. /\ handle.first = 0 /\ handle.size = 0 /\ handle.position = 0
        /\ trouble \subseteq trouble' /\ trouble' \subseteq trouble \cup {"failed", "full"}
    BY <1>4, Zenon DEF WriteBegins
  <2>a. trouble' \subseteq Trouble /\ "behind" \notin trouble'
    BY <2>2 DEF IInv, TypeOK, CallOK, Trouble
  <2>3. /\ fat' \in FatType /\ Linear(fat') /\ Leading(fat') /\ Begins(fat', new)
    BY <2>1, MarkKeeps, Fields DEF IInv, FileOK
  <2>4. TypeOK'
    BY <1>1, <1>2, <2>1, <2>a, <2>3 DEF IInv, TypeOK, CallType, HandleType, FatType
  <2>5. FileOK'
    BY <2>1, <2>3, Marks DEF FileOK, First
  <2>6. WholeOK'
    BY <2>1 DEF WholeOK, Whole, Size
  <2>7. EntryOK'
    <3>1. entry.size =< handle.size /\ entry.first \in {0, handle.first} /\ (entry.first = 0 => entry.size = 0)
      BY <1>1 DEF IInv, EntryOK
    <3>2. QED BY <1>1, <2>1, <2>2, <3>1 DEF EntryOK
  <2>8. CallOK'
    BY <1>1, <2>1, <2>a, Marks DEF CallOK
  <2>9. CursorOK'
    <3>1. Where' = 0
      BY <2>1, AtStart DEF Where
    <3>2. StandsOn(fat', new, new, 0, Well')
      <4>1. StandsOn(fat', new, ChainOn(fat', new, 0), 0, Well')
        BY <2>3, StandsThere
      <4>2. QED BY <4>1, ChainFirst
    <3>3. QED BY <2>1, <3>1, <3>2 DEF CursorOK, Stands
  <2>10. QED BY <2>4, <2>5, <2>6, <2>7, <2>8, <2>9 DEF IInv
<1>5. QED BY <1>3, <1>4

LEMMA CallWriteFailInv == ASSUME IInv, CallWriteFail PROVE IInv'
<1>1. handle.inUse /\ call' = NoCall /\ UNCHANGED <<fat, data, entry, handle>>
  BY DEF CallWriteFail, Ready
<1>2. \E what \in {"failed", "full"} : trouble' = trouble \cup {what}
  BY DEF CallWriteFail, NoteNoCluster, Note
<1>3. data \in [Place -> [Offset -> Byte]]
  BY DEF IInv, TypeOK
<1>4. QED BY <1>1, <1>2, <1>3, NoCallType, NotedKeeps, StaysInv

-----------------------------------------------------------------------------
(* Seeking                                                                   *)

OneSkip(c) == IF c \in {0, Eoc} THEN {c} ELSE Answers(c)
Skips(n, p) == p = [k \in 0 .. n |-> IF k = 0 THEN {handle.first} ELSE UNION {OneSkip(c) : c \in p[k - 1]}]
\* Where skipping k clusters can lead
Reach(k) == {ChainOn(fat, handle.first, k)} \cup IF k = 0 THEN {} ELSE {BadCluster}

LEMMA ReachNext ==
    ASSUME fat \in FatType, Leading(fat), Begins(fat, handle.first), NEW k \in Nat
    PROVE  UNION {OneSkip(c) : c \in Reach(k)} = Reach(k + 1)
<1> DEFINE x == ChainOn(fat, handle.first, k)
           y == ChainOn(fat, handle.first, k + 1)
<1>1. x \in Cluster \cup {Eoc}
  BY ChainValue DEF Begins, FatType
<1>2. y = IF x \in Cluster THEN fat[x] ELSE Eoc
  BY ChainNext
<1>3. Reach(k) = {x} \cup IF k = 0 THEN {} ELSE {BadCluster}
  BY DEF Reach
<1>4. Reach(k + 1) = {y, BadCluster}
  BY k + 1 # 0 DEF Reach
<1>5. k = 0 => x \in Cluster
  BY ChainFirst DEF Begins
<1> HIDE DEF x, y
<1>6. CASE x \in Cluster
  <2>1. OneSkip(x) = {y, BadCluster}
    BY <1>2, <1>6, Marks DEF OneSkip, Answers
  <2>2. OneSkip(BadCluster) = {BadCluster}
    BY Marks DEF OneSkip, Answers, Free
  <2>3. QED BY <1>3, <1>4, <2>1, <2>2
<1>7. CASE x \notin Cluster
  <2>1. x = Eoc /\ y = Eoc /\ k # 0
    BY <1>1, <1>2, <1>5, <1>7
  <2>2. OneSkip(Eoc) = {Eoc}
    BY DEF OneSkip
  <2>3. OneSkip(BadCluster) = {BadCluster}
    BY Marks DEF OneSkip, Answers, Free
  <2>4. QED BY <1>3, <1>4, <2>1, <2>2, <2>3
<1>8. QED BY <1>6, <1>7

LEMMA SkippedIs ==
    ASSUME fat \in FatType, Leading(fat), Begins(fat, handle.first), NEW n \in Nat
    PROVE  Skipped(n) = Reach(n)
<1> DEFINE after[k \in 0 .. n] ==
             IF k = 0 THEN {handle.first} ELSE UNION {OneSkip(c) : c \in after[k - 1]}
<1>1. Skipped(n) = after[n]
  BY DEF Skipped, OneSkip
<1>2. \E p : Skips(n, p)
  <2> DEFINE f == [k \in 0 .. n |-> Reach(k)]
  <2>1. ASSUME NEW k \in 0 .. n
        PROVE  f[k] = IF k = 0 THEN {handle.first} ELSE UNION {OneSkip(c) : c \in f[k - 1]}
    <3>1. CASE k = 0
      BY <3>1, ChainFirst DEF Reach
    <3>2. CASE k # 0
      <4>1. k - 1 \in Nat /\ k - 1 \in 0 .. n /\ (k - 1) + 1 = k
        BY <3>2
      <4>2. f[k] = Reach(k) /\ f[k - 1] = Reach(k - 1)
        BY <4>1
      <4> HIDE DEF f
      <4>3. QED BY <3>2, <4>1, <4>2, ReachNext
    <3>3. QED BY <3>1, <3>2
  <2>2. f = [k \in 0 .. n |-> f[k]]
    OBVIOUS
  <2> HIDE DEF f
  <2>3. Skips(n, f)
    BY <2>1, <2>2 DEF Skips
  <2>4. QED BY <2>3
<1>3. Skips(n, after)
  BY <1>2, Zenon DEF Skips
<1> HIDE DEF after
<1>4. \A k \in 0 .. n : after[k] = IF k = 0 THEN {handle.first} ELSE UNION {OneSkip(c) : c \in after[k - 1]}
  <2> DEFINE f == [k \in 0 .. n |-> IF k = 0 THEN {handle.first} ELSE UNION {OneSkip(c) : c \in after[k - 1]}]
  <2>1. after = f
    BY <1>3 DEF Skips
  <2>2. \A k \in 0 .. n : f[k] = IF k = 0 THEN {handle.first} ELSE UNION {OneSkip(c) : c \in after[k - 1]}
    OBVIOUS
  <2> HIDE DEF f
  <2>3. QED BY <2>1, <2>2
<1> DEFINE Bad == {k \in 0 .. n : after[k] # Reach(k)}
<1>5. Bad = {}
  <2>1. SUFFICES ASSUME Bad # {} PROVE FALSE
    OBVIOUS
  <2>2. PICK k \in Bad : \A j \in Bad : k =< j
    <3>1. Bad \subseteq Nat
      OBVIOUS
    <3> HIDE DEF Bad
    <3>2. QED BY <2>1, <3>1, LeastElement
  <2>3. k # 0
    BY <1>4, <2>2, ChainFirst DEF Reach
  <2>4. k - 1 \in Nat /\ k - 1 \in 0 .. n /\ (k - 1) + 1 = k /\ k - 1 \notin Bad
    BY <2>2, <2>3
  <2>5. after[k - 1] = Reach(k - 1)
    BY <2>4
  <2>6. after[k] = Reach(k)
    BY <1>4, <2>2, <2>3, <2>4, <2>5, ReachNext
  <2>7. QED BY <2>2, <2>6
<1>6. QED BY <1>1, <1>5

\* A seek or a close forgets that reads went astray, and nothing else.
Resettled ==
    /\ trouble \ {"behind"} \subseteq trouble' /\ trouble' \subseteq trouble \cup {"failed"}
    /\ "behind" \notin trouble'

LEMMA ResettleDoes ==
    ASSUME IInv, NEW bad, Resettle(bad)
    PROVE  Resettled /\ (bad => "failed" \in trouble')
  BY DEF Resettle, Resettled

LEMMA ResettledKeeps ==
    ASSUME IInv, Resettled
    PROVE  /\ trouble' \subseteq Trouble /\ (Well' => Well)
  BY DEF IInv, TypeOK, Trouble, Well, Resettled

LEMMA SeekDoes ==
    ASSUME IInv, NEW position \in 0 .. handle.size, Seek(position)
    PROVE  /\ handle.inUse /\ call.op = "none" /\ call' = NoCall /\ UNCHANGED <<fat, data, entry>>
           /\ Resettled
           /\ \E c \in Place \cup {0} :
                /\ handle' = [handle EXCEPT !.position = position, !.current = c]
                /\ c = BadCluster => "failed" \in trouble'
                /\ position = 0 => c = handle.first
                /\ \/ c = BadCluster
                   \/ c = ChainOn(fat, handle.first, position \div ClusterSize)
<1>1. handle.inUse /\ call.op = "none" /\ call' = NoCall /\ UNCHANGED <<fat, data, entry>>
  BY DEF Seek, Ready
<1>2. PICK c \in Skipped(position \div ClusterSize) :
         /\ handle' = [handle EXCEPT !.position = position, !.current = c]
         /\ Resettle(c = BadCluster)
  BY DEF Seek
<1>3. Resettled /\ (c = BadCluster => "failed" \in trouble')
  BY <1>2, ResettleDoes
<1>4. position \in Nat /\ handle.size \in Nat /\ position \div ClusterSize \in Nat
  BY Fields, Parts DEF IInv
<1>5. Skipped(0) = {handle.first}
  <2> DEFINE after[k \in 0 .. 0] ==
             IF k = 0 THEN {handle.first} ELSE UNION {OneSkip(c1) : c1 \in after[k - 1]}
  <2>1. Skipped(0) = after[0]
    BY DEF Skipped, OneSkip
  <2>2. \E p : Skips(0, p)
    <3>1. Skips(0, [k \in 0 .. 0 |-> {handle.first}])
      BY DEF Skips
    <3>2. QED BY <3>1
  <2>3. Skips(0, after)
    BY <2>2, Zenon DEF Skips
  <2> HIDE DEF after
  <2>4. QED BY <2>1, <2>3 DEF Skips
<1>6. CASE handle.first = 0
  <2>1. position = 0
    BY <1>1, <1>4, <1>6 DEF IInv, FileOK, First, Size
  <2>2. c = handle.first
    BY <1>2, <1>5, <2>1, AtStart
  <2>3. c = ChainOn(fat, handle.first, position \div ClusterSize)
    BY <2>1, <2>2, ChainFirst, AtStart
  <2>4. c \in Place \cup {0}
    BY <1>6, <2>2
  <2>5. QED BY <1>1, <1>2, <1>3, <2>2, <2>3, <2>4
<1>7. CASE handle.first # 0
  <2>1. fat \in FatType /\ Leading(fat) /\ Begins(fat, handle.first)
    BY <1>1, <1>7, Fields DEF IInv, FileOK, First
  <2>2. c \in Reach(position \div ClusterSize)
    BY <1>2, <1>4, <2>1, SkippedIs
  <2>3. c \in Place
    BY <1>4, <2>1, <2>2, ChainValue DEF FatType, Reach, Place, Begins
  <2>4. position = 0 => c = handle.first
    BY <1>2, <1>5, AtStart
  <2>5. QED BY <1>1, <1>2, <1>3, <2>2, <2>3, <2>4 DEF Reach
<1>8. QED BY <1>6, <1>7

LEMMA SeekInv == ASSUME IInv, NEW position \in 0 .. handle.size, Seek(position) PROVE IInv'
<1>1. /\ handle.inUse /\ call' = NoCall /\ UNCHANGED <<fat, data, entry>> /\ Resettled
  BY SeekDoes
<1>a. trouble' \subseteq Trouble /\ (Well' => Well) /\ "behind" \notin trouble'
  BY <1>1, ResettledKeeps DEF Resettled
<1>2. PICK c \in Place \cup {0} :
                /\ handle' = [handle EXCEPT !.position = position, !.current = c]
                /\ c = BadCluster => "failed" \in trouble'
                /\ position = 0 => c = handle.first
                /\ \/ c = BadCluster
                   \/ c = ChainOn(fat, handle.first, position \div ClusterSize)
  BY SeekDoes
<1>3. handle \in HandleType /\ position \in Nat /\ handle.size \in Nat /\ position =< handle.size
  BY Fields DEF IInv, TypeOK, HandleType
<1>4. handle' \in HandleType /\ handle'.first = handle.first /\ handle'.size = handle.size
      /\ handle'.position = position /\ handle'.current = c
  BY <1>2, <1>3 DEF HandleType
<1>5. handle'.inUse = handle.inUse
  BY <1>2, <1>3 DEF HandleType
<1>6. handle'.dirty = handle.dirty
  BY <1>2, <1>3 DEF HandleType
<1>7. TypeOK'
  BY <1>1, <1>a, <1>4, NoCallType DEF IInv, TypeOK, HandleType, CallType
<1>8. FileOK' /\ WholeOK' /\ EntryOK'
  BY <1>1, <1>a, <1>4, <1>5, <1>6 DEF IInv, FileOK, WholeOK, EntryOK, First, Size
<1>9. CallOK'
  BY <1>1, <1>a, <1>2, <1>3, <1>4, NoCallType DEF CallOK
<1>10. CursorOK'
  <2>1. StandsOn(fat, handle.first, c, position \div ClusterSize, Well')
    <3>1. CASE c = BadCluster
      BY <1>2, <3>1, StandsOff, Marks DEF Well
    <3>2. CASE c # BadCluster /\ handle.first # 0
      <4>1. Linear(fat) /\ Begins(fat, handle.first)
        BY <1>1, <3>2 DEF IInv, FileOK, First
      <4>2. QED BY <1>2, <1>3, <3>2, <4>1, StandsThere, Parts
    <3>3. CASE c # BadCluster /\ handle.first = 0
      <4>1. position = 0
        BY <1>1, <1>3, <3>3 DEF IInv, FileOK, First, Size
      <4>2. c = 0
        BY <1>2, <3>3, <4>1
      <4>3. QED BY <1>2, <3>3, <4>2, Marks DEF StandsOn
    <3>4. QED BY <3>1, <3>2, <3>3
  <2>2. QED BY <1>1, <1>4, <2>1, NoCallType DEF CursorOK, Stands, Where
<1>11. QED BY <1>7, <1>8, <1>9, <1>10 DEF IInv

LEMMA ClosedType == Closed \in HandleType /\ Closed.inUse = FALSE /\ Closed.first = 0 /\ Closed.current = 0
                    /\ Closed.position = 0 /\ Closed.size = 0
  BY DEF Closed, HandleType

LEMMA ClosedCursor ==
    ASSUME handle' = Closed, call' = NoCall, "behind" \notin trouble'
    PROVE  CallOK' /\ CursorOK'
<1>1. CallOK'
  BY ClosedType, NoCallType DEF CallOK
<1>2. Where' = 0
  BY ClosedType, AtStart DEF Where
<1>3. StandsOn(fat', 0, 0, 0, Well')
  BY ChainFirst, Marks DEF StandsOn
<1>4. QED BY <1>1, <1>2, <1>3, ClosedType, NoCallType DEF CursorOK, Stands

LEMMA CloseDoes ==
    ASSUME IInv, NEW told \in BOOLEAN, Close(told)
    PROVE  /\ handle.inUse /\ call.op = "none" /\ handle' = Closed /\ call' = NoCall
           /\ UNCHANGED <<fat, data>> /\ Resettled
           /\ \/ entry' = [first |-> handle.first, size |-> handle.size]
              \/ /\ entry' = entry
                 /\ \/ entry.first = handle.first /\ entry.size = handle.size
                    \/ "failed" \in trouble'
<1>1. /\ handle.inUse /\ call.op = "none" /\ handle' = Closed /\ call' = NoCall /\ UNCHANGED <<fat, data>>
      /\ Resettle(handle.dirty /\ ~told)
      /\ IF handle.dirty /\ told THEN entry' = [first |-> handle.first, size |-> handle.size]
                                 ELSE entry' = entry
  BY DEF Close, Ready
<1>2. Resettled /\ (handle.dirty /\ ~told => "failed" \in trouble')
  BY <1>1, ResettleDoes
<1>3. ~handle.dirty => entry.first = handle.first /\ entry.size = handle.size
  BY <1>1 DEF IInv, EntryOK
<1>4. QED BY <1>1, <1>2, <1>3

LEMMA CloseInv == ASSUME IInv, NEW told \in BOOLEAN, Close(told) PROVE IInv'
<1>1. /\ handle.inUse /\ handle' = Closed /\ call' = NoCall /\ UNCHANGED <<fat, data>> /\ Resettled
  BY CloseDoes
<1>a. trouble' \subseteq Trouble /\ (Well' => Well) /\ "behind" \notin trouble'
  BY <1>1, ResettledKeeps DEF Resettled
<1>2. \/ entry' = [first |-> handle.first, size |-> handle.size]
      \/ /\ entry' = entry
         /\ \/ entry.first = handle.first /\ entry.size = handle.size
            \/ "failed" \in trouble'
  BY CloseDoes
<1>3. First = handle.first /\ Size = handle.size /\ First' = entry'.first /\ Size' = entry'.size
  BY <1>1, ClosedType DEF First, Size
<1>4. CallOK' /\ CursorOK'
  BY <1>1, <1>a, ClosedCursor
<1>5. EntryOK'
  BY <1>1, ClosedType DEF EntryOK
<1>6. TypeOK'
  BY <1>1, <1>a, <1>2, ClosedType, NoCallType, Fields DEF IInv, TypeOK, HandleType, CallType
<1>7. CASE entry'.first = handle.first /\ entry'.size = handle.size
  BY <1>1, <1>a, <1>3, <1>4, <1>5, <1>6, <1>7 DEF IInv, FileOK, WholeOK
<1>8. CASE entry' = entry /\ "failed" \in trouble'
  <2>1. entry.first \in {0, handle.first} /\ (entry.first = 0 => entry.size = 0)
    BY <1>1 DEF IInv, EntryOK
  <2>2. FileOK'
    BY <1>1, <1>3, <1>8, <2>1 DEF IInv, FileOK
  <2>3. WholeOK'
    BY <1>8 DEF WholeOK, Well
  <2>4. QED BY <1>4, <1>5, <1>6, <2>2, <2>3 DEF IInv
<1>9. QED BY <1>2, <1>7, <1>8

-----------------------------------------------------------------------------
(* The file found on the disk                                                *)

\* The clusters of a file in their order, and the FAT that says so
Threads(map, chain) ==
    /\ \A i, j \in DOMAIN chain : chain[i] = chain[j] => i = j
    /\ map \in FatType
    /\ \A i \in DOMAIN chain : map[chain[i]] = IF i = Len(chain) THEN Eoc ELSE chain[i + 1]
    /\ \A c \in Cluster : map[c] \in Cluster => \E i \in DOMAIN chain : c = chain[i]

LEMMA FoundFat ==
    ASSUME NEW chain \in Seq(Cluster), NEW others \in SUBSET Cluster,
           \A i, j \in DOMAIN chain : chain[i] = chain[j] => i = j,
           \A i \in DOMAIN chain : chain[i] \notin others,
           NEW map,
           map = [c \in Cluster |->
                     IF c \in others THEN Eoc
                     ELSE IF \E i \in DOMAIN chain : chain[i] = c
                       THEN LET i == CHOOSE i \in DOMAIN chain : chain[i] = c
                            IN  IF i = Len(chain) THEN Eoc ELSE chain[i + 1]
                       ELSE Free]
    PROVE  Threads(map, chain)
<1>1. DOMAIN chain = 1 .. Len(chain) /\ Len(chain) \in Nat
  OBVIOUS
<1>2. ASSUME NEW i \in DOMAIN chain
      PROVE  map[chain[i]] = IF i = Len(chain) THEN Eoc ELSE chain[i + 1]
  <2> DEFINE k == CHOOSE k \in DOMAIN chain : chain[k] = chain[i]
  <2>1. k \in DOMAIN chain /\ chain[k] = chain[i]
    OBVIOUS
  <2>2. k = i
    BY <2>1
  <2>3. chain[i] \in Cluster /\ chain[i] \notin others
    BY <1>1
  <2>4. map[chain[i]] = IF k = Len(chain) THEN Eoc ELSE chain[k + 1]
    BY <2>3
  <2>5. QED BY <2>2, <2>4
<1>3. ASSUME NEW c \in Cluster, ~ \E i \in DOMAIN chain : chain[i] = c
      PROVE  map[c] \in {Eoc, Free}
  BY <1>3
<1>4. ASSUME NEW c \in Cluster PROVE map[c] \in Cluster \cup {Free, Eoc}
  <2>1. CASE \E i \in DOMAIN chain : chain[i] = c
    <3>1. PICK i \in DOMAIN chain : chain[i] = c
      BY <2>1
    <3>2. i # Len(chain) => i + 1 \in DOMAIN chain
      BY <1>1
    <3>3. i # Len(chain) => chain[i + 1] \in Cluster
      BY <1>1, <3>2
    <3>4. map[c] = IF i = Len(chain) THEN Eoc ELSE chain[i + 1]
      BY <1>2, <3>1
    <3>5. QED BY <3>3, <3>4
  <2>2. QED BY <1>3, <2>1
<1>5. map \in FatType
  <2>1. map = [c \in Cluster |-> map[c]]
    OBVIOUS
  <2>2. QED BY <1>4, <2>1 DEF FatType
<1>6. \A c \in Cluster : map[c] \in Cluster => \E i \in DOMAIN chain : c = chain[i]
  BY <1>3, Marks
<1>7. QED BY <1>2, <1>5, <1>6 DEF Threads

LEMMA ThreadsAre ==
    ASSUME NEW chain \in Seq(Cluster), NEW map, Threads(map, chain)
    PROVE  /\ Linear(map) /\ Leading(map)
           /\ chain # <<>> => Begins(map, chain[1])
           /\ \A k \in 0 .. Len(chain) - 1 : ChainOn(map, chain[1], k) = chain[k + 1]
<1>1. DOMAIN chain = 1 .. Len(chain) /\ Len(chain) \in Nat
  OBVIOUS
<1>2. /\ \A i, j \in DOMAIN chain : chain[i] = chain[j] => i = j
      /\ \A i \in DOMAIN chain : map[chain[i]] = IF i = Len(chain) THEN Eoc ELSE chain[i + 1]
      /\ \A c \in Cluster : map[c] \in Cluster => \E i \in DOMAIN chain : c = chain[i]
  BY DEF Threads
<1>3. \A i \in DOMAIN chain : chain[i] \in Cluster /\ i \in Nat
  BY <1>1
<1>4. ASSUME NEW c \in Cluster, map[c] \in Cluster
      PROVE  \E i \in DOMAIN chain : i # Len(chain) /\ c = chain[i] /\ map[c] = chain[i + 1]
                                     /\ i + 1 \in DOMAIN chain
  <2>1. PICK i \in DOMAIN chain : c = chain[i]
    BY <1>2, <1>4
  <2>2. i # Len(chain) /\ map[c] = chain[i + 1]
    BY <1>2, <1>4, <2>1, Marks
  <2>3. i + 1 \in DOMAIN chain
    BY <1>1, <2>2
  <2>4. QED BY <2>1, <2>2, <2>3
<1>5. Linear(map)
  <2> SUFFICES ASSUME NEW c \in Cluster, NEW d \in Cluster, map[c] \in Cluster, map[c] = map[d]
               PROVE  c = d
    BY DEF Linear
  <2>1. PICK i \in DOMAIN chain : c = chain[i] /\ map[c] = chain[i + 1] /\ i + 1 \in DOMAIN chain
    BY <1>4
  <2>2. PICK j \in DOMAIN chain : d = chain[j] /\ map[d] = chain[j + 1] /\ j + 1 \in DOMAIN chain
    BY <1>4
  <2>3. i + 1 = j + 1
    BY <1>2, <2>1, <2>2
  <2>4. i = j
    BY <1>3, <2>3
  <2>5. QED BY <2>1, <2>2, <2>4
<1>6. \A i \in DOMAIN chain : map[chain[i]] # Free
  <2> SUFFICES ASSUME NEW i \in DOMAIN chain PROVE map[chain[i]] # Free
    OBVIOUS
  <2>1. i # Len(chain) => i + 1 \in DOMAIN chain
    BY <1>1
  <2>2. i # Len(chain) => chain[i + 1] \in Cluster
    BY <1>3, <2>1
  <2>3. QED BY <1>2, <2>2, Marks
<1>7. Leading(map)
  BY <1>4, <1>6 DEF Leading
<1>8. ASSUME chain # <<>> PROVE Begins(map, chain[1])
  <2>1. 1 \in DOMAIN chain
    BY <1>1, <1>8
  <2>2. ASSUME NEW d \in Cluster, map[d] = chain[1] PROVE FALSE
    <3>1. PICK i \in DOMAIN chain : map[d] = chain[i + 1] /\ i + 1 \in DOMAIN chain
      BY <1>3, <1>4, <2>1, <2>2
    <3>2. i + 1 = 1
      BY <1>2, <2>1, <2>2, <3>1
    <3>3. QED BY <1>1, <3>2
  <2>3. QED BY <1>3, <1>6, <2>1, <2>2 DEF Begins
<1> DEFINE Bad == {k \in 0 .. Len(chain) - 1 : ChainOn(map, chain[1], k) # chain[k + 1]}
<1>9. Bad = {}
  <2>1. SUFFICES ASSUME Bad # {} PROVE FALSE
    OBVIOUS
  <2>2. PICK k \in Bad : \A j \in Bad : k =< j
    <3>1. Bad \subseteq Nat
      OBVIOUS
    <3> HIDE DEF Bad
    <3>2. QED BY <2>1, <3>1, LeastElement
  <2>3. k # 0
    BY <2>2, ChainFirst
  <2>4. k - 1 \in Nat /\ (k - 1) + 1 = k /\ k - 1 \notin Bad /\ k - 1 \in 0 .. Len(chain) - 1
    BY <1>1, <2>2, <2>3
  <2>5. ChainOn(map, chain[1], k - 1) = chain[k]
    BY <2>4
  <2>6. k \in 1 .. Len(chain) /\ k # Len(chain)
    <3>1. k \in 0 .. Len(chain) - 1
      BY <2>2
    <3>2. \A n, j \in Nat : j \in 0 .. n - 1 /\ j # 0 => j \in 1 .. n /\ j # n
      OBVIOUS
    <3>3. k \in Nat /\ Len(chain) \in Nat
      BY <1>1, <2>2
    <3> HIDE DEF Bad
    <3>4. QED BY <2>3, <3>1, <3>2, <3>3
  <2>7. ChainOn(map, chain[1], k) = chain[k + 1]
    <3>1. map[chain[k]] = chain[k + 1] /\ chain[k] \in Cluster
      BY <1>1, <1>2, <1>3, <2>6
    <3> HIDE DEF Bad
    <3>2. ChainOn(map, chain[1], (k - 1) + 1) = map[chain[k]]
      BY <2>4, <2>5, <3>1, ChainNext
    <3>3. QED BY <2>4, <3>1, <3>2
  <2>8. QED BY <2>2, <2>7
<1>10. QED BY <1>5, <1>7, <1>8, <1>9

LEMMA ClustersEnough ==
    ASSUME NEW size \in Nat
    PROVE  /\ ClustersFor(size) \in Nat
           /\ ClustersFor(size) = 0 => size = 0
           /\ \A i \in 0 .. size - 1 : i \div ClusterSize \in 0 .. ClustersFor(size) - 1
<1> DEFINE n == size + ClusterSize - 1
<1>1. n \in Nat
  BY ClusterSizePositive
<1>2. /\ ClustersFor(size) = n \div ClusterSize /\ n \div ClusterSize \in Nat
      /\ n % ClusterSize \in Offset
      /\ n = ClusterSize * (n \div ClusterSize) + (n % ClusterSize)
  BY <1>1, Parts DEF ClustersFor
<1>3. ClustersFor(size) = 0 => size = 0
  <2>1. SUFFICES ASSUME n \div ClusterSize = 0 PROVE size = 0
    BY <1>2
  <2>2. n = n % ClusterSize
    BY <1>2, <2>1, ClusterSizePositive
  <2>3. n =< ClusterSize - 1
    BY <1>2, <2>2, ClusterSizePositive DEF Offset
  <2>4. QED BY <2>3, ClusterSizePositive
<1>4. ASSUME NEW i \in 0 .. size - 1 PROVE i \div ClusterSize \in 0 .. ClustersFor(size) - 1
  <2>1. PICK q \in Nat, r \in Offset : i = ClusterSize * q + r /\ r = i % ClusterSize /\ q = i \div ClusterSize
    BY Parts
  <2>2. ClusterSize * (q + 1) = ClusterSize * q + ClusterSize
    BY ClusterSizePositive
  <2>3. i + ClusterSize = ClusterSize * (q + 1) + r
    BY <2>1, <2>2, ClusterSizePositive DEF Offset
  <2>4. (i + ClusterSize) \div ClusterSize = q + 1
    <3>1. (ClusterSize * (q + 1) + r) \div ClusterSize = q + 1
      BY <2>1, UniqueSplit, q + 1 \in Nat
    <3>2. QED BY <2>3, <3>1, Zenon
  <2>5. i + ClusterSize =< n /\ i + ClusterSize \in Nat
    BY ClusterSizePositive
  <2>6. (i + ClusterSize) \div ClusterSize =< n \div ClusterSize
    BY <1>1, <2>5, Ordered
  <2>7. QED BY <1>2, <2>1, <2>4, <2>6
<1>5. QED BY <1>2, <1>3, <1>4

LEMMA InitIInv == ASSUME Init PROVE IInv
<1>1. PICK size \in 0 .. MaxSize,
           chain \in UNION {[1 .. n -> Cluster] : n \in 0 .. ClustersFor(MaxSize)},
           others \in SUBSET Cluster :
         /\ Len(chain) = ClustersFor(size)
         /\ \A i, j \in DOMAIN chain : chain[i] = chain[j] => i = j
         /\ \A i \in DOMAIN chain : chain[i] \notin others
         /\ entry = [first |-> IF chain = <<>> THEN 0 ELSE chain[1], size |-> size]
         /\ fat = [c \in Cluster |->
                     IF c \in others THEN Eoc
                     ELSE IF \E i \in DOMAIN chain : chain[i] = c
                       THEN LET i == CHOOSE i \in DOMAIN chain : chain[i] = c
                            IN  IF i = Len(chain) THEN Eoc ELSE chain[i + 1]
                       ELSE Free]
  BY DEF Init
<1>2. /\ data = [c \in Place |-> [o \in Offset |-> <<c, o>>]] /\ handle = Closed /\ call = NoCall
      /\ trouble = {}
  BY DEF Init
<1>3. chain \in Seq(Cluster) /\ size \in Nat
  <2>1. PICK n \in 0 .. ClustersFor(MaxSize) : chain \in [1 .. n -> Cluster]
    OBVIOUS
  <2>2. n \in Nat
    BY <2>1
  <2>3. QED BY <2>1, <2>2, GeometryAssumption
<1>4. Threads(fat, chain)
  BY <1>1, <1>3, FoundFat
<1>5. /\ Linear(fat) /\ Leading(fat) /\ fat \in FatType
      /\ chain # <<>> => Begins(fat, chain[1])
      /\ \A k \in 0 .. Len(chain) - 1 : ChainOn(fat, chain[1], k) = chain[k + 1]
  BY <1>3, <1>4, ThreadsAre DEF Threads
<1>6. /\ ClustersFor(size) = 0 => size = 0
      /\ \A i \in 0 .. size - 1 : i \div ClusterSize \in 0 .. Len(chain) - 1
  BY <1>1, <1>3, ClustersEnough
<1>7. First = entry.first /\ Size = size
  BY <1>1, <1>2, ClosedType DEF First, Size
<1>8. chain # <<>> => entry.first = chain[1] /\ chain[1] \in Cluster /\ entry.first # 0
  BY <1>1, <1>5, Marks DEF Begins
<1>9. chain = <<>> => entry.first = 0 /\ size = 0
  BY <1>1, <1>6
<1>10. FileOK
  BY <1>5, <1>7, <1>8, <1>9 DEF FileOK
<1>11. TypeOK
  <2>1. data \in [Place -> [Offset -> Byte]]
    BY <1>2 DEF Byte
  <2>2. entry \in [first : Cluster \cup {0}, size : Nat]
    BY <1>1, <1>3, <1>8, <1>9
  <2>3. QED BY <1>2, <1>5, <2>1, <2>2, ClosedType, NoCallType DEF TypeOK, FatType, HandleType, CallType
<1>12. EntryOK
  BY <1>2, ClosedType DEF EntryOK
<1>13. CallOK
  BY <1>2, ClosedType, NoCallType DEF CallOK
<1>14. CursorOK
  <2>1. Where = 0
    BY <1>2, ClosedType, AtStart DEF Where
  <2>2. StandsOn(fat, 0, 0, 0, Well)
    BY ChainFirst, Marks DEF StandsOn
  <2>3. QED BY <1>2, <2>1, <2>2, ClosedType, NoCallType DEF CursorOK, Stands
<1>15. WholeOK
  <2> SUFFICES ASSUME NEW i \in 0 .. size - 1 PROVE ChainOn(fat, First, i \div ClusterSize) \in Cluster
    BY <1>7 DEF WholeOK, Whole
  <2>1. chain # <<>>
    BY <1>9
  <2>2. i \div ClusterSize \in 0 .. Len(chain) - 1
    BY <1>6
  <2>3. ChainOn(fat, chain[1], i \div ClusterSize) = chain[i \div ClusterSize + 1]
    BY <1>5, <2>2
  <2>4. i \div ClusterSize + 1 \in 1 .. Len(chain)
    BY <2>2, <1>3
  <2>5. chain[i \div ClusterSize + 1] \in Cluster
    BY <1>3, <2>4
  <2>6. QED BY <1>7, <1>8, <2>1, <2>3, <2>5
<1>16. QED BY <1>10, <1>11, <1>12, <1>13, <1>14, <1>15 DEF IInv

-----------------------------------------------------------------------------
(* The invariant holds                                                       *)

\* Every step keeps the invariant, one case per action of Next.
LEMMA NextIInv == ASSUME IInv, [Next]_vars PROVE IInv'
<1>1. CASE Open
  BY <1>1, OpenInv
<1>2. ASSUME NEW n \in 1 .. MaxMove, CallRead(n) PROVE IInv'
  BY <1>2, CallReadInv
<1>3. ASSUME NEW tag \in Tag, NEW n \in 1 .. MaxMove, CallWrite(Payload(tag, n)) PROVE IInv'
  BY <1>3, CallWriteDoes, CallWriteInv, PayloadIs
<1>4. CASE CallWriteFail
  BY <1>4, CallWriteFailInv
<1>5. ASSUME NEW position \in 0 .. handle.size, Seek(position) PROVE IInv'
  BY <1>5, SeekInv
<1>6. ASSUME NEW told \in BOOLEAN, Close(told) PROVE IInv'
  BY <1>6, CloseInv
<1>7. CASE ReadOne
  BY <1>7, ReadOneInv
<1>8. CASE ReadFail
  BY <1>8, ReadFailInv
<1>9. CASE WriteLast \/ WriteOn \/ (\E new \in Cluster, linked \in BOOLEAN : WriteExtend(new, linked))
           \/ WriteShort
  BY <1>9, WriteTurnsInv
<1>10. ASSUME NEW sectors \in 0 .. (SectorsPerCluster - 1), WriteFail(sectors) PROVE IInv'
  BY <1>10, WriteFailInv
<1>11. CASE UNCHANGED vars
  BY <1>11 DEF vars, IInv, TypeOK, FileOK, EntryOK, CallOK, WholeOK, CursorOK, First, Size, Stands,
               StandsOn, Well, Astray, Where, AtEdge, Inside
<1>12. QED BY <1>1, <1>2, <1>3, <1>4, <1>5, <1>6, <1>7, <1>8, <1>9, <1>10, <1>11 DEF Next, Turn

LEMMA SpecIInv == Spec => []IInv
<1>1. Init => IInv
  BY InitIInv
<1>2. IInv /\ [Next]_vars => IInv'
  BY NextIInv
<1>3. QED BY <1>1, <1>2, PTL DEF Spec

\* The handle, the call and the entry keep their types: the cursor is on a
\* cluster, on one of the two numbers past the clusters, or on none.
THEOREM TypeCorrect == Spec => []TypeOK
<1>1. IInv => TypeOK
  BY DEF IInv
<1>2. QED BY <1>1, SpecIInv, PTL

-----------------------------------------------------------------------------
(* What is written where                                                     *)

\* A step that changes bytes of the disk changes those of one piece.
LEMMA BytesWritten ==
    ASSUME IInv, Next
    PROVE  \/ data' = data
           \/ /\ call.op = "write" /\ handle.current \in Place
              /\ \A d \in Place : d # handle.current => data'[d] = data[d]
<1>1. ASSUME NEW x, data' = [data EXCEPT ![handle.current] = x]
      PROVE  \A d \in Place : d # handle.current => data'[d] = data[d]
  BY <1>1 DEF IInv, TypeOK
<1>2. CASE WriteLast \/ WriteOn \/ (\E new \in Cluster, linked \in BOOLEAN : WriteExtend(new, linked))
           \/ WriteShort
  <2>1. PICK c \in Place \cup {0} : TurnOfWrite(c)
    BY <1>2, WriteTurnsInv
  <2>2. call.op = "write" /\ handle.current \in Place
        /\ data' = [data EXCEPT ![handle.current] = Overlay]
    BY <2>1 DEF TurnOfWrite, WriteTurn
  <2>3. QED BY <1>1, <2>2
<1>3. ASSUME NEW sectors \in 0 .. (SectorsPerCluster - 1), WriteFail(sectors)
      PROVE  \/ data' = data
             \/ /\ call.op = "write" /\ handle.current \in Place
                /\ \A d \in Place : d # handle.current => data'[d] = data[d]
  BY <1>1, <1>3, WriteFailDoes
<1>4. CASE Open \/ (\E n \in 1 .. MaxMove : CallRead(n))
           \/ (\E tag \in Tag, n \in 1 .. MaxMove : CallWrite(Payload(tag, n)))
           \/ CallWriteFail \/ (\E position \in 0 .. handle.size : Seek(position))
           \/ (\E told \in BOOLEAN : Close(told)) \/ ReadOne \/ ReadFail
  BY <1>4 DEF Open, CallRead, CallWrite, CallWriteFail, Seek, Close, ReadOne, ReadFail
<1>5. QED BY <1>2, <1>3, <1>4 DEF Next, Turn

\* The places past the clusters, where the copies of the FAT are, are left alone
\* until a transfer fails or a write begins where a cluster ended.
THEOREM CopiesAreLeftAlone == Spec => MirrorKept
<1>1. IInv /\ [Next]_vars =>
        [~MirrorWritten({"failed", "damaged"})]_vars
  <2> SUFFICES ASSUME IInv, Next, NEW c \in {BadCluster, Eoc}, data'[c] # data[c], Well
               PROVE  FALSE
    BY DEF MirrorWritten, Well
  <2>1. call.op = "write" /\ \A d \in Place : d # handle.current => data'[d] = data[d]
    BY BytesWritten
  <2>2. handle.current \in Cluster
    BY <2>1, InCall, WriteOnTrack
  <2>3. c \in Place /\ c # handle.current
    BY <2>2, Marks DEF Place
  <2>4. QED BY <2>1, <2>3
<1>2. QED BY <1>1, SpecIInv, PTL DEF Spec, MirrorKept

-----------------------------------------------------------------------------
(* The bytes of the file                                                     *)

DataType == [Place -> [Offset -> Byte]]
ByteAt(map, dat, first, i) ==
    LET c == ChainOn(map, first, (i - 1) \div ClusterSize)
    IN  IF c \in Cluster THEN dat[c][(i - 1) % ClusterSize] ELSE Lost
Bytes == IF handle.inUse THEN Content(handle.first, handle.size) ELSE Content(entry.first, entry.size)
Left == IF call.op = "none" THEN 0 ELSE call.size - call.done
Rest == IF call.op = "write" THEN SubSeq(call.bytes, call.done + 1, call.size) ELSE <<>>

\* b is the bytes of the file with this first cluster and size.
IsFile(b, map, dat, first, size) ==
    /\ b = [i \in 1 .. size |-> ByteAt(map, dat, first, i)]
    /\ b \in Seq(Byte \cup {Lost}) /\ Len(b) = size /\ DOMAIN b = 1 .. size
    /\ \A i \in 1 .. size : b[i] = ByteAt(map, dat, first, i)

LEMMA FileIs ==
    ASSUME NEW map, NEW dat \in DataType, NEW first, NEW size \in Nat
    PROVE  IsFile([i \in 1 .. size |-> ByteAt(map, dat, first, i)], map, dat, first, size)
<1> DEFINE b == [i \in 1 .. size |-> ByteAt(map, dat, first, i)]
<1>1. ASSUME NEW i \in 1 .. size PROVE ByteAt(map, dat, first, i) \in Byte \cup {Lost}
  <2>1. i - 1 \in Nat
    OBVIOUS
  <2>2. (i - 1) % ClusterSize \in Offset
    BY <2>1, Parts
  <2>3. QED BY <2>2 DEF ByteAt, DataType, Place
<1>2. b \in [1 .. size -> Byte \cup {Lost}]
  BY <1>1
<1>3. \A i \in 1 .. size : b[i] = ByteAt(map, dat, first, i)
  OBVIOUS
<1>4. DOMAIN b = 1 .. size
  OBVIOUS
<1> HIDE DEF b
<1>5. b \in Seq(Byte \cup {Lost}) /\ Len(b) = size
  BY <1>2
<1>6. b = [i \in 1 .. size |-> ByteAt(map, dat, first, i)]
  BY DEF b
<1>7. IsFile(b, map, dat, first, size)
  BY <1>3, <1>4, <1>5, <1>6 DEF IsFile
<1>8. QED BY <1>7 DEF b

LEMMA BytesAre ==
    ASSUME TypeOK
    PROVE  IsFile(Bytes, fat, data, First, Size)
<1>1. Size \in Nat /\ data \in DataType
  BY Fields DEF Size, TypeOK, DataType
<1>2. Bytes = [i \in 1 .. Size |-> ByteAt(fat, data, First, i)]
  BY DEF Bytes, Content, ByteAt, ChainAt, At, First, Size
<1>3. QED BY <1>1, <1>2, FileIs

LEMMA BytesAreNext ==
    ASSUME TypeOK'
    PROVE  IsFile(Bytes', fat', data', First', Size') /\ Size' \in Nat
<1>1. Size' \in Nat /\ data' \in DataType
  BY DEF Size, TypeOK, DataType
<1>2. Bytes' = [i \in 1 .. Size' |-> ByteAt(fat', data', First', i)]
  BY DEF Bytes, Content, ByteAt, ChainAt, At, First, Size
<1>3. QED BY <1>1, <1>2, FileIs

\* The file is as it was.
LEMMA BytesStay ==
    ASSUME IInv, IInv', UNCHANGED <<fat, data>>, First' = First, Size' = Size
    PROVE  Bytes' = Bytes
<1>1. Bytes = [i \in 1 .. Size |-> ByteAt(fat, data, First, i)]
  BY BytesAre DEF IInv, IsFile
<1>2. Bytes' = [i \in 1 .. Size' |-> ByteAt(fat', data', First', i)]
  BY BytesAreNext DEF IInv, IsFile
<1>3. QED BY <1>1, <1>2

-----------------------------------------------------------------------------
(* Every step is one of ByteFile                                             *)

Troubled == trouble \cap {"failed", "full"} # {}
Doubt == IF "damaged" \in trouble THEN "file"
         ELSE IF "behind" \in trouble THEN "reads"
         ELSE IF call.op = "none" /\ ~Settled THEN "edge" ELSE "none"
EdgeAt(p) == p # 0 /\ p % ClusterSize = 0

LEMMA NotSettled == ~Settled => EdgeAt(handle.position)
  BY DEF Settled, EdgeAt

LEMMA NotSettledNext == ~Settled' => EdgeAt(handle'.position)
  BY DEF Settled, EdgeAt

LEMMA DoubtAstray == Doubt \in {"reads", "file"} <=> Astray
  BY DEF Doubt, Astray

\* Only where a call ends does doubt begin.
LEMMA DoubtReached ==
    ASSUME trouble \subseteq trouble', trouble' \subseteq trouble \cup {"failed", "full"},
           call.op # "none" \/ (call'.op = "none" /\ Settled' = Settled)
    PROVE  Doubt' = Doubt
             \/ (Doubt = "none" /\ Doubt' = "edge" /\ call'.op = "none" /\ EdgeAt(handle'.position))
<1>1. /\ "damaged" \in trouble' <=> "damaged" \in trouble
      /\ "behind" \in trouble' <=> "behind" \in trouble
  OBVIOUS
<1>2. QED BY <1>1, NotSettledNext DEF Doubt

LEMMA SettledAtStart == handle.position = 0 => Settled
  BY DEF Settled

LEMMA SettledAtStartNext == handle'.position = 0 => Settled'
  BY DEF Settled

LEMMA SettledStays == UNCHANGED <<fat, handle>> => Settled' = Settled
  BY DEF Settled, ChainAt

LEMMA OpenStutters == ASSUME IInv, IInv', Open PROVE UNCHANGED File!vars
<1>1. /\ ~handle.inUse /\ call' = NoCall /\ UNCHANGED <<fat, data, entry, trouble>>
      /\ handle' = [inUse |-> TRUE, first |-> entry.first, current |-> entry.first,
                    position |-> 0, size |-> entry.size, dirty |-> FALSE]
  BY DEF Open
<1>2. handle = Closed /\ call = NoCall
  BY <1>1 DEF IInv, EntryOK
<1>3. Bytes' = Bytes
  <2>1. First' = First /\ Size' = Size
    BY <1>1 DEF First, Size
  <2>2. QED BY <1>1, <2>1, BytesStay
<1>4. handle'.position = handle.position
  BY <1>1, <1>2, ClosedType
<1>5. Doubt' = Doubt
  <2>1. handle.position = 0 /\ handle'.position = 0
    BY <1>2, <1>4, ClosedType
  <2>2. Settled /\ Settled'
    BY <2>1, SettledAtStart, SettledAtStartNext
  <2>3. QED BY <1>1, <2>2 DEF Doubt
<1>6. QED BY <1>1, <1>2, <1>3, <1>4, <1>5 DEF File!vars, Bytes, Doubt

LEMMA CallReadMaps ==
    ASSUME IInv, IInv', NEW n \in 1 .. MaxMove, CallRead(n)
    PROVE  File!CallRead \/ File!ReadNothing
<1>1. /\ handle.inUse /\ call.op = "none" /\ UNCHANGED <<fat, data, entry, handle>>
      /\ call' = IF handle.position >= handle.size
                 THEN NoCall
                 ELSE [op |-> "read", size |-> Min({n, handle.size - handle.position}),
                       done |-> 0, bytes |-> <<>>, out |-> <<>>]
      /\ trouble' = trouble \cup IF handle.position < handle.size /\ ~Settled THEN {"behind"} ELSE {}
  BY DEF CallRead, Ready, Note
<1>2. handle.position \in Nat /\ handle.size \in Nat /\ n \in Nat \ {0}
  BY Fields, GeometryAssumption DEF IInv
<1>3. Bytes' = Bytes
  BY <1>1, BytesStay DEF First, Size
<1>4. Len(Bytes) = handle.size
  BY <1>1, BytesAre DEF IInv, IsFile, Size
<1>a. Settled' = Settled
  BY <1>1, SettledStays
<1>5. CASE handle.position >= handle.size
  <2>1. call' = NoCall /\ trouble' = trouble
    BY <1>1, <1>2, <1>5
  <2>a. Doubt' = Doubt
    BY <1>1, <1>a, <2>1, NoCallType DEF Doubt
  <2>2. Left' = 0 /\ Left = 0 /\ Rest' = <<>> /\ Rest = <<>> /\ call'.out = <<>> /\ call'.op = call.op
    BY <1>1, <2>1, NoCallType DEF Left, Rest
  <2>3. File!ReadNothing
    BY <1>1, <1>3, <1>4, <1>5, <2>2, <2>a DEF File!ReadNothing, Bytes, Left, Rest, Doubt
  <2>4. QED BY <2>3
<1>6. CASE handle.position < handle.size
  <2>1. PICK m \in Nat : m = Min({n, handle.size - handle.position}) /\ m > 0
                         /\ m =< handle.size - handle.position
    <3>1. handle.size - handle.position \in Int /\ n \in Int
      BY <1>2
    <3>2. Min({n, handle.size - handle.position})
            = IF n =< handle.size - handle.position THEN n ELSE handle.size - handle.position
      BY <3>1, SmallerOf
    <3>3. QED BY <1>2, <1>6, <3>2
  <2>2. call' = [op |-> "read", size |-> m, done |-> 0, bytes |-> <<>>, out |-> <<>>]
    BY <1>1, <1>2, <1>6, <2>1
  <2>3. Left' = m /\ Rest' = <<>> /\ Rest = <<>> /\ call'.out = <<>> /\ call'.op = "read"
    BY <1>1, <2>2, <2>1 DEF Left, Rest
  <2>4. m \in 1 .. (Len(Bytes) - handle.position)
    BY <1>2, <1>4, <2>1
  <2>a. Doubt' = IF Doubt = "edge" THEN "reads" ELSE Doubt
    <3>1. trouble' = trouble \cup IF ~Settled THEN {"behind"} ELSE {}
      BY <1>1, <1>6
    <3>2. QED BY <1>1, <2>3, <3>1 DEF Doubt
  <2>5. File!CallRead
    BY <1>1, <1>3, <2>3, <2>4, <2>a DEF File!CallRead, Bytes, Left, Rest, Doubt
  <2>6. QED BY <2>5
<1>7. QED BY <1>2, <1>5, <1>6

LEMMA CallWriteMaps ==
    ASSUME IInv, IInv', NEW bytes, WriteBegins(bytes)
    PROVE  File!CallWrite
<1>1. /\ handle.inUse /\ call.op = "none" /\ UNCHANGED <<data, entry>>
      /\ bytes \in Seq(Byte) /\ Len(bytes) \in Nat \ {0}
      /\ call' = [op |-> "write", size |-> Len(bytes), done |-> 0, bytes |-> bytes, out |-> <<>>]
  BY DEF WriteBegins
<1>2. Left' = Len(bytes) /\ call'.op = "write" /\ call'.out = <<>>
  BY <1>1 DEF Left
<1>3. Rest' = bytes
  <2>1. Rest' = SubSeq(bytes, 1, Len(bytes))
    BY <1>1 DEF Rest
  <2>2. QED BY <1>1, <2>1
<1>4. Bytes' = Bytes /\ handle'.position = handle.position
  <2>1. CASE handle.first # 0
    <3>1. UNCHANGED <<fat, handle>>
      BY <2>1 DEF WriteBegins
    <3>2. QED BY <1>1, <3>1, BytesStay DEF First, Size
  <2>2. CASE handle.first = 0
    <3>1. handle.size = 0 /\ handle.position = 0 /\ handle'.inUse /\ handle'.position = 0 /\ handle'.size = 0
      BY <2>2, Zenon DEF WriteBegins
    <3>2. Bytes = [i \in 1 .. 0 |-> ByteAt(fat, data, First, i)]
      BY <1>1, <3>1, BytesAre DEF IInv, IsFile, Size
    <3>3. Bytes' = [i \in 1 .. 0 |-> ByteAt(fat', data', First', i)]
      BY <3>1, BytesAreNext DEF IInv, IsFile, Size
    <3>4. QED BY <3>1, <3>2, <3>3
  <2>3. QED BY <2>1, <2>2
<1>5. bytes # <<>>
  BY <1>1
<1>a. Doubt' = IF Doubt = "none" THEN "none" ELSE "file"
  <2>1. CASE handle.first # 0
    <3>1. trouble' = IF Settled /\ "behind" \notin trouble THEN trouble
                     ELSE trouble \cup {"behind", "damaged"}
      BY <2>1 DEF WriteBegins
    <3>2. QED BY <1>1, <1>2, <3>1 DEF Doubt
  <2>2. CASE handle.first = 0
    <3>1. handle.position = 0 /\ trouble \subseteq trouble' /\ trouble' \subseteq trouble \cup {"failed", "full"}
      BY <2>2, Zenon DEF WriteBegins
    <3>2. Settled /\ "behind" \notin trouble
      BY <2>2, <3>1, SettledAtStart DEF IInv, CallOK
    <3>3. /\ "damaged" \in trouble' <=> "damaged" \in trouble
          /\ "behind" \notin trouble'
      BY <3>1, <3>2
    <3>4. QED BY <1>2, <3>2, <3>3 DEF Doubt
  <2>3. QED BY <2>1, <2>2
<1>6. File!CallWrite
  BY <1>1, <1>2, <1>3, <1>4, <1>5, <1>a DEF File!CallWrite, Bytes, Left, Rest, Doubt
<1>7. QED BY <1>6

\* A call that is refused or falls short before it writes anything
LEMMA FailMaps ==
    ASSUME IInv, IInv', UNCHANGED <<fat, data, entry, handle>>,
           NEW what \in {"failed", "full"}, trouble' = trouble \cup {what},
           call'.op = "none", call'.out \in {call.out, <<>>}
    PROVE  File!Fail
<1>1. Bytes' = Bytes
  BY BytesStay DEF First, Size
<1>2. Left' = 0 /\ Rest' = <<>>
  BY DEF Left, Rest
<1>3. Doubt' = Doubt
        \/ (Doubt = "none" /\ Doubt' = "edge" /\ call'.op = "none" /\ EdgeAt(handle'.position))
  BY SettledStays, DoubtReached
<1>4. Troubled'
  BY DEF Troubled
<1>5. QED BY <1>1, <1>2, <1>3, <1>4
          DEF File!Fail, File!Reached, File!Edge, EdgeAt, Bytes, Left, Rest, Doubt, Troubled

LEMMA SeekMaps ==
    ASSUME IInv, IInv', NEW position \in 0 .. handle.size, Seek(position)
    PROVE  \E p \in 0 .. Len(Bytes) : File!Seek(p)
<1>1. /\ handle.inUse /\ call.op = "none" /\ call' = NoCall /\ UNCHANGED <<fat, data, entry>>
  BY SeekDoes
<1>2. PICK c \in Place \cup {0} :
                /\ handle' = [handle EXCEPT !.position = position, !.current = c]
                /\ c = BadCluster => "failed" \in trouble'
                /\ \/ c = BadCluster
                   \/ c = ChainOn(fat, handle.first, position \div ClusterSize)
  BY SeekDoes
<1>3. handle \in HandleType
  BY DEF IInv, TypeOK, HandleType
<1>4. handle'.first = handle.first /\ handle'.size = handle.size /\ handle'.position = position
      /\ handle'.current = c
  BY <1>2, <1>3 DEF HandleType
<1>5. handle'.inUse = handle.inUse
  BY <1>2, <1>3 DEF HandleType
<1>6. Bytes' = Bytes
  BY <1>1, <1>4, <1>5, BytesStay DEF First, Size
<1>7. Left' = 0 /\ Left = 0 /\ Rest' = <<>> /\ Rest = <<>> /\ call'.op = call.op /\ call'.out = <<>>
  BY <1>1, NoCallType DEF Left, Rest
<1>8. position \in 0 .. Len(Bytes)
  BY <1>1, BytesAre DEF IInv, IsFile, Size
<1>a. Resettled /\ handle.size \in Nat /\ position \in Nat /\ Len(Bytes) = handle.size
  <2>1. Resettled
    BY SeekDoes
  <2>2. handle.size \in Nat
    BY Fields DEF IInv
  <2>3. QED BY <1>1, <2>1, <2>2, BytesAre DEF IInv, IsFile, Size
<1>b. /\ "damaged" \in trouble' <=> "damaged" \in trouble
      /\ "behind" \notin trouble'
  BY <1>a DEF Resettled
<1>c. ASSUME ~Settled', "damaged" \notin trouble
      PROVE  EdgeAt(position) /\ (position = handle.size \/ Troubled')
  <2>1. EdgeAt(position)
    BY <1>4, <1>c, NotSettledNext
  <2>2. SUFFICES ASSUME position # handle.size, ~Troubled' PROVE FALSE
    BY <2>1
  <2>3. Well /\ c = ChainOn(fat, handle.first, position \div ClusterSize)
    BY <1>2, <1>a, <1>c, <2>2 DEF Troubled, Well, Resettled
  <2>4. position \in 0 .. handle.size - 1
    BY <1>a, <2>2
  <2>5. c \in Cluster
    BY <1>1, <2>3, <2>4 DEF IInv, WholeOK, Whole, First, Size
  <2>6. Settled'
    BY <1>1, <1>4, <2>3, <2>5 DEF Settled, ChainAt
  <2>7. QED BY <1>c, <2>6
<1>d. \/ Doubt' = IF Doubt = "file" THEN "file" ELSE "none"
      \/ /\ Doubt # "file" /\ Doubt' = "edge"
         /\ EdgeAt(position) /\ (position = Len(Bytes) \/ Troubled')
  BY <1>1, <1>a, <1>b, <1>c, NoCallType DEF Doubt
<1>9. File!Seek(position)
  BY <1>1, <1>4, <1>6, <1>7, <1>d
     DEF File!Seek, File!Sought, File!Edge, EdgeAt, Bytes, Left, Rest, Doubt, Troubled
<1>10. QED BY <1>8, <1>9

LEMMA CloseMaps ==
    ASSUME IInv, IInv', NEW told \in BOOLEAN, Close(told)
    PROVE  File!Close
<1>1. /\ handle.inUse /\ call.op = "none" /\ handle' = Closed /\ call' = NoCall /\ UNCHANGED <<fat, data>>
  BY CloseDoes
<1>2. \/ entry' = [first |-> handle.first, size |-> handle.size]
      \/ /\ entry' = entry
         /\ \/ entry.first = handle.first /\ entry.size = handle.size
            \/ "failed" \in trouble'
  BY CloseDoes
<1>3. First = handle.first /\ Size = handle.size /\ First' = entry'.first /\ Size' = entry'.size
  BY <1>1, ClosedType DEF First, Size
<1>4. Left' = 0 /\ Left = 0 /\ Rest' = <<>> /\ Rest = <<>> /\ call'.op = call.op /\ call'.out = <<>>
  BY <1>1, NoCallType DEF Left, Rest
<1>5. handle'.position = 0
  BY <1>1, ClosedType
<1>6. Bytes' = Bytes \/ ("failed" \in trouble' /\ \E n \in 0 .. Len(Bytes) : Bytes' = SubSeq(Bytes, 1, n))
  <2>1. CASE entry'.first = handle.first /\ entry'.size = handle.size
    BY <1>1, <1>3, <2>1, BytesStay
  <2>2. CASE entry' = entry /\ "failed" \in trouble'
    <3>1. /\ entry.size =< handle.size /\ entry.first \in {0, handle.first}
          /\ (entry.first = 0 => entry.size = 0)
          /\ entry.size \in Nat /\ handle.size \in Nat
      BY <1>1, Fields DEF IInv, EntryOK
    <3>2. Bytes = [i \in 1 .. handle.size |-> ByteAt(fat, data, handle.first, i)] /\ Len(Bytes) = handle.size
      BY <1>3, BytesAre DEF IInv, IsFile
    <3>3. Bytes' = [i \in 1 .. entry.size |-> ByteAt(fat, data, entry.first, i)]
      BY <1>1, <1>3, <2>2, BytesAreNext DEF IInv, IsFile
    <3>4. Bytes' = [i \in 1 .. entry.size |-> ByteAt(fat, data, handle.first, i)]
      <4>1. CASE entry.first = handle.first
        BY <3>3, <4>1
      <4>2. CASE entry.size = 0
        BY <3>3, <4>2
      <4>3. QED BY <3>1, <4>1, <4>2
    <3>5. \A i \in 1 .. entry.size : Bytes[i] = ByteAt(fat, data, handle.first, i)
      BY <3>1, <3>2
    <3>6. SubSeq(Bytes, 1, entry.size) = [i \in 1 .. entry.size |-> Bytes[i]]
      <4>1. Bytes \in Seq(Byte \cup {Lost})
        BY BytesAre DEF IInv, IsFile
      <4>2. SubSeq(Bytes, 1, entry.size) \in Seq(Byte \cup {Lost}) /\ Len(SubSeq(Bytes, 1, entry.size)) = entry.size
            /\ \A i \in 1 .. entry.size : SubSeq(Bytes, 1, entry.size)[i] = Bytes[i]
        BY <3>1, <3>2, <4>1
      <4>3. QED BY <4>2
    <3>7. Bytes' = SubSeq(Bytes, 1, entry.size)
      BY <3>4, <3>5, <3>6
    <3>8. entry.size \in 0 .. Len(Bytes)
      BY <3>1, <3>2
    <3>9. QED BY <2>2, <3>7, <3>8
  <2>3. QED BY <1>2, <2>1, <2>2
<1>7. Doubt' = IF Doubt = "file" THEN "file" ELSE "none"
  <2>1. Resettled /\ Settled'
    BY <1>5, CloseDoes, SettledAtStartNext
  <2>2. /\ "damaged" \in trouble' <=> "damaged" \in trouble
        /\ "behind" \notin trouble'
    BY <2>1 DEF Resettled
  <2>3. QED BY <2>1, <2>2 DEF Doubt
<1>8. Bytes' = Bytes \/ (Troubled' /\ \E n \in 0 .. Len(Bytes) : Bytes' = SubSeq(Bytes, 1, n))
  BY <1>6 DEF Troubled
<1>9. QED BY <1>1, <1>4, <1>5, <1>7, <1>8
          DEF File!Close, File!Sought, Bytes, Left, Rest, Doubt, Troubled

LEMMA PieceBytes ==
    ASSUME IInv, call.op # "none", NEW i \in 1 .. Piece
    PROVE  /\ handle.position + i - 1 \in Nat
           /\ (handle.position + i - 1) \div ClusterSize = Where
           /\ (handle.position + i - 1) % ClusterSize = Inside + i - 1
           /\ Inside + i - 1 \in Offset
<1>1. Piece \in Nat /\ handle.position \in Nat /\ Inside \in Nat
  BY PieceFacts, Fields DEF IInv, Offset
<1>2. /\ i - 1 \in 0 .. Piece - 1 /\ handle.position + (i - 1) = handle.position + i - 1
      /\ Inside + (i - 1) = Inside + i - 1 /\ handle.position + i - 1 \in Nat
  BY <1>1
<1>3. QED BY <1>1, <1>2, PieceInCluster DEF IInv

\* A turn of fat32_read that is on track ends early only once a transfer has failed.
LEMMA ReadEndsRight ==
    ASSUME IInv, ReadEnds, call.op = "read", Well, ~Astray
    PROVE  call.done + Piece = call.size
<1>1. SUFFICES ASSUME fat[handle.current] = Eoc, call.done + Piece < call.size PROVE FALSE
  BY DEF ReadEnds
<1>2. /\ Piece \in Nat /\ handle.position \in Nat /\ handle.size \in Nat /\ call.done \in Nat /\ call.size \in Nat
      /\ handle.position + (call.size - call.done) =< handle.size
  BY PieceFacts, Fields DEF IInv, CallOK
<1>3. Inside + Piece = ClusterSize
  BY <1>1, <1>2, PieceFacts DEF IInv
<1>4. (handle.position + Piece) \div ClusterSize = Where + 1
  BY <1>2, <1>3, NextCluster DEF Where, Inside
<1>5. handle.position + Piece \in 0 .. handle.size - 1
  BY <1>1, <1>2
<1>6. ChainOn(fat, handle.first, Where + 1) \in Cluster
  BY <1>4, <1>5, InCall DEF IInv, WholeOK, Whole
<1>7. ChainOn(fat, handle.first, Where + 1) = Eoc
  BY <1>1, InCall, ChainNext, Fields DEF IInv
<1>8. QED BY <1>6, <1>7, Marks

LEMMA ByteLies ==
    ASSUME NEW map, NEW dat, NEW first, NEW p \in Nat, NEW i \in Nat, NEW c \in Cluster,
           ChainOn(map, first, (p + i - 1) \div ClusterSize) = c
    PROVE  ByteAt(map, dat, first, p + i) = dat[c][(p + i - 1) % ClusterSize]
<1>1. (p + i) - 1 = p + i - 1
  OBVIOUS
<1>2. QED BY <1>1, Zenon DEF ByteAt

LEMMA BytesGotRight ==
    ASSUME IInv, call.op = "read", Well, ~Astray, NEW i \in 1 .. Piece
    PROVE  Bytes[handle.position + i] = Got[i]
<1>1. /\ Piece \in Nat /\ handle.position \in Nat /\ handle.size \in Nat /\ call.done \in Nat /\ call.size \in Nat
      /\ handle.position + (call.size - call.done) =< handle.size /\ Piece =< call.size - call.done
  BY PieceFacts, Fields DEF IInv, CallOK
<1>2. handle.position + i \in 1 .. handle.size
  BY <1>1
<1>3. Bytes[handle.position + i] = ByteAt(fat, data, handle.first, handle.position + i)
  BY <1>2, BytesAre, InCall DEF IInv, IsFile
<1>4. /\ handle.current \in Cluster /\ handle.current = ChainOn(fat, handle.first, Where)
  BY InCall
<1>5. /\ (handle.position + i - 1) \div ClusterSize = Where
      /\ (handle.position + i - 1) % ClusterSize = Inside + i - 1
  BY PieceBytes
<1>6. ByteAt(fat, data, handle.first, handle.position + i) = data[handle.current][Inside + i - 1]
  <2>1. ByteAt(fat, data, handle.first, handle.position + i)
          = data[handle.current][(handle.position + i - 1) % ClusterSize]
    BY <1>1, <1>4, <1>5, ByteLies
  <2>2. QED BY <1>4, <1>5, <2>1
<1>7. QED BY <1>3, <1>6 DEF Got, At

LEMMA Appended ==
    ASSUME NEW S, NEW s \in Seq(S), NEW t \in Seq(S)
    PROVE  /\ SubSeq(s \o t, 1, Len(s)) = s
           /\ Len(s \o t) = Len(s) + Len(t)
           /\ \A i \in 1 .. Len(t) : (s \o t)[Len(s) + i] = t[i]
<1>1. s \o t \in Seq(S) /\ Len(s \o t) = Len(s) + Len(t)
  OBVIOUS
<1>2. \A i \in 1 .. Len(s) : (s \o t)[i] = s[i]
  OBVIOUS
<1>3. \A i \in 1 .. Len(t) : (s \o t)[Len(s) + i] = t[i]
  OBVIOUS
<1>4. SubSeq(s \o t, 1, Len(s)) = s
  OBVIOUS
<1>5. QED BY <1>1, <1>3, <1>4

LEMMA ReadOneMaps ==
    ASSUME IInv, IInv', ReadOne
    PROVE  \E k \in 1 .. Left : File!Deliver(k)
<1>1. /\ call.op = "read" /\ handle.current \in Place /\ UNCHANGED <<fat, data, entry>>
      /\ ReadEnds \/ ReadGoesOn
  BY ReadOneDoes
<1>2. /\ Piece \in Nat \ {0} /\ Piece =< call.size - call.done /\ call.size \in Nat /\ call.done \in Nat
  BY <1>1, PieceFacts, Fields DEF IInv
<1>3. handle \in HandleType /\ call \in CallType
  BY DEF IInv, TypeOK, HandleType, CallType
<1>4. Left = call.size - call.done /\ Rest = <<>> /\ Piece \in 1 .. Left
  BY <1>1, <1>2 DEF Left, Rest
<1>5. /\ handle'.position = handle.position + Piece
      /\ handle'.inUse = handle.inUse /\ handle'.first = handle.first /\ handle'.size = handle.size
  <2>1. CASE ReadEnds
    <3>1. handle' = [handle EXCEPT !.position = @ + Piece, !.current = handle.current]
      BY <1>3, <2>1 DEF ReadEnds, HandleType
    <3>2. handle.current \in Place \cup {0}
      BY Fields DEF IInv
    <3>3. MovedTo(handle, handle', Piece, handle.current)
      BY <1>2, <1>3, <3>1, <3>2, HandleMoves
    <3>4. QED BY <3>3, Zenon DEF MovedTo
  <2>2. CASE ReadGoesOn
    <3>1. PICK next \in Place \cup {0} : handle' = [handle EXCEPT !.position = @ + Piece, !.current = next]
      BY <2>2 DEF ReadGoesOn
    <3>2. MovedTo(handle, handle', Piece, next)
      BY <1>2, <1>3, <3>1, HandleMoves
    <3>3. QED BY <3>2, Zenon DEF MovedTo
  <2>3. QED BY <1>1, <2>1, <2>2
<1>6. Bytes' = Bytes
  BY <1>1, <1>5, BytesStay DEF First, Size
<1>7. call'.out = call.out \o Got
  BY <1>1, <1>3, ReturnedType DEF ReadEnds, ReadGoesOn, CallType, Returned, NoCall
<1>8. /\ Len(call'.out) = Len(call.out) + Piece
      /\ SubSeq(call'.out, 1, Len(call.out)) = call.out
      /\ \A i \in 1 .. Piece : call'.out[Len(call.out) + i] = Got[i]
  <2>1. call.out \in Seq(Byte) /\ Got \in Seq(Byte) /\ Len(Got) = Piece
    BY <1>1, Fields, BytesGot DEF IInv
  <2>2. /\ SubSeq(call.out \o Got, 1, Len(call.out)) = call.out
        /\ Len(call.out \o Got) = Len(call.out) + Len(Got)
        /\ \A i \in 1 .. Len(Got) : (call.out \o Got)[Len(call.out) + i] = Got[i]
    BY <2>1, Appended, Zenon
  <2> HIDE DEF Got
  <2>3. QED BY <1>7, <2>1, <2>2, Zenon
<1>a. ~Troubled /\ ~Astray => Well
  BY DEF Troubled, Astray, Well
<1>9. \A i \in 1 .. Piece : Troubled \/ Astray \/ Bytes[handle.position + i] = call'.out[Len(call.out) + i]
  BY <1>1, <1>8, <1>a, BytesGotRight
<1>10. Rest' = <<>> /\ \/ call'.op = call.op /\ Left' = Left - Piece /\ Left' > 0
                       \/ call'.op = "none" /\ Left' = 0 /\ (Left = Piece \/ Troubled' \/ Astray)
  <2>1. CASE ReadEnds
    <3>1. call'.op = "none" /\ trouble' = trouble
      BY <2>1, ReturnedType DEF ReadEnds, Returned, NoCall
    <3>2. ~Troubled /\ ~Astray => call.done + Piece = call.size
      BY <1>1, <1>a, <2>1, ReadEndsRight
    <3>3. ~Troubled /\ ~Astray => Left = Piece
      BY <1>2, <1>4, <3>2
    <3>4. Troubled' = Troubled
      BY <3>1 DEF Troubled
    <3>5. QED BY <3>1, <3>3, <3>4 DEF Left, Rest
  <2>2. CASE ReadGoesOn
    <3>1. call'.op = "read" /\ call'.size = call.size /\ call'.done = call.done + Piece
          /\ call.done + Piece < call.size
      BY <1>1, <1>3, <2>2 DEF ReadGoesOn, CallType
    <3>2. Left' = call.size - (call.done + Piece) /\ Rest' = <<>>
      BY <3>1 DEF Left, Rest
    <3>3. Left' = Left - Piece /\ Left' > 0
      BY <1>2, <1>4, <3>1, <3>2
    <3>4. QED BY <1>1, <3>1, <3>2, <3>3
  <2>3. QED BY <1>1, <2>1, <2>2
<1>b. Doubt' = Doubt
        \/ (Doubt = "none" /\ Doubt' = "edge" /\ call'.op = "none" /\ EdgeAt(handle'.position))
  <2>1. trouble' \in {trouble, trouble \cup {"failed"}}
    BY <1>1 DEF ReadEnds, ReadGoesOn
  <2>2. QED BY <1>1, <2>1, DoubtReached
<1>c. Doubt \in {"reads", "file"} <=> Astray
  BY DoubtAstray
<1>11. File!Deliver(Piece)
  <2>1. File!Move(Piece)
    BY <1>1, <1>4, <1>5, <1>10, <1>b, <1>c
       DEF File!Move, File!Reached, File!Edge, File!Astray, EdgeAt, Left, Doubt, Troubled
  <2>2. \A i \in 1 .. Piece : Troubled \/ Doubt \in {"reads", "file"}
                              \/ Bytes[handle.position + i] = call'.out[Len(call.out) + i]
    BY <1>9, <1>c
  <2>3. QED BY <1>1, <1>6, <1>8, <1>10, <2>1, <2>2
            DEF File!Deliver, File!Astray, Bytes, Left, Rest, Doubt, Troubled
<1>12. QED BY <1>4, <1>11

TailFrom(s, a) == SubSeq(s, a + 1, Len(s))

LEMMA TailIs ==
    ASSUME NEW S, NEW s \in Seq(S), NEW a \in Nat, a =< Len(s)
    PROVE  /\ TailFrom(s, a) \in Seq(S) /\ Len(TailFrom(s, a)) = Len(s) - a
           /\ \A j \in 1 .. Len(s) - a : TailFrom(s, a)[j] = s[a + j]
<1>1. SubSeq(s, a + 1, Len(s)) \in Seq(S)
  OBVIOUS
<1>2. Len(SubSeq(s, a + 1, Len(s))) = Len(s) - a
  OBVIOUS
<1>3. \A j \in 1 .. Len(s) - a : SubSeq(s, a + 1, Len(s))[j] = s[a + j]
  OBVIOUS
<1>4. QED BY <1>1, <1>2, <1>3 DEF TailFrom

LEMMA TailOfTail ==
    ASSUME NEW S, NEW s \in Seq(S), NEW a \in Nat, NEW k \in Nat, a + k =< Len(s)
    PROVE  TailFrom(s, a + k) = TailFrom(TailFrom(s, a), k)
<1> DEFINE t == TailFrom(s, a)
           u == TailFrom(s, a + k)
           v == TailFrom(t, k)
<1>a. PICK b \in Nat : b = Len(s)
  OBVIOUS
<1>1. /\ t \in Seq(S) /\ Len(t) = b - a
      /\ \A j \in 1 .. b - a : t[j] = s[a + j]
  <2>1. a =< Len(s)
    BY <1>a
  <2>2. QED BY <1>a, <2>1, TailIs
<1>2. /\ u \in Seq(S) /\ Len(u) = b - (a + k)
      /\ \A j \in 1 .. b - (a + k) : u[j] = s[a + k + j]
  <2>1. a + k \in Nat
    OBVIOUS
  <2>2. QED BY <1>a, <2>1, TailIs
<1> HIDE DEF t, u
<1>3. /\ v \in Seq(S) /\ Len(v) = (b - a) - k
      /\ \A j \in 1 .. (b - a) - k : v[j] = t[k + j]
  <2>1. k =< Len(t)
    BY <1>1, <1>a
  <2>2. QED BY <1>1, <2>1, TailIs
<1> HIDE DEF v
<1>4. (b - a) - k = b - (a + k)
  BY <1>a
<1>5. \A j \in 1 .. b - (a + k) : k + j \in 1 .. b - a /\ a + (k + j) = a + k + j
  BY <1>a
<1>6. \A j \in 1 .. b - (a + k) : u[j] = v[j]
  BY <1>1, <1>2, <1>3, <1>4, <1>5
<1>7. u = v
  BY <1>2, <1>3, <1>4, <1>6, SeqEqual
<1>8. QED BY <1>7 DEF u, v, t

LEMMA RestIs ==
    ASSUME IInv, call.op = "write"
    PROVE  /\ Left = call.size - call.done /\ Left \in Nat
           /\ Rest = TailFrom(call.bytes, call.done)
           /\ Rest \in Seq(Byte) /\ Len(Rest) = Left
           /\ \A j \in 1 .. Left : Rest[j] = call.bytes[call.done + j]
<1>1. call.bytes \in Seq(Byte) /\ call.done \in Nat /\ call.size \in Nat /\ call.done =< call.size
      /\ call.size = Len(call.bytes)
  BY Fields DEF IInv, CallOK
<1>2. Left = call.size - call.done /\ Rest = TailFrom(call.bytes, call.done)
  BY <1>1 DEF Left, Rest, TailFrom
<1>3. Left \in Nat
  BY <1>1, <1>2
<1>4. /\ TailFrom(call.bytes, call.done) \in Seq(Byte)
      /\ Len(TailFrom(call.bytes, call.done)) = Len(call.bytes) - call.done
      /\ \A j \in 1 .. Len(call.bytes) - call.done :
           TailFrom(call.bytes, call.done)[j] = call.bytes[call.done + j]
  <2>1. call.done =< Len(call.bytes)
    BY <1>1
  <2>2. QED BY <1>1, <2>1, TailIs
<1>5. QED BY <1>1, <1>2, <1>3, <1>4

LEMMA RestGoesOn ==
    ASSUME IInv, call.op = "write", call.done + Piece < call.size,
           call' = [call EXCEPT !.done = @ + Piece]
    PROVE  call'.op = "write" /\ Left' = Left - Piece /\ Left' > 0 /\ Rest' = SubSeq(Rest, Piece + 1, Left)
<1>1. call.bytes \in Seq(Byte) /\ call.done \in Nat /\ call.size \in Nat /\ Piece \in Nat
      /\ call.size = Len(call.bytes)
  BY PieceFacts, Fields DEF IInv, CallOK
<1>2. call \in CallType
  BY DEF IInv, TypeOK, CallType
<1>3. call'.op = "write" /\ call'.bytes = call.bytes /\ call'.size = call.size /\ call'.done = call.done + Piece
  BY <1>2 DEF CallType
<1>4. Left' = call.size - (call.done + Piece)
  BY <1>3 DEF Left
<1>5. Rest' = TailFrom(call.bytes, call.done + Piece)
  BY <1>1, <1>3 DEF Rest, TailFrom
<1>6. Rest' = SubSeq(Rest, Piece + 1, Left)
  <2>1. call.done + Piece =< Len(call.bytes)
    BY <1>1
  <2>2. TailFrom(call.bytes, call.done + Piece) = TailFrom(TailFrom(call.bytes, call.done), Piece)
    BY <1>1, <2>1, TailOfTail
  <2>3. Rest' = TailFrom(Rest, Piece) /\ Len(Rest) = Left
    BY <1>5, <2>2, RestIs
  <2>4. QED BY <2>3 DEF TailFrom
<1>7. Left' = Left - Piece /\ Left' > 0
  BY <1>1, <1>4, RestIs
<1>8. QED BY <1>3, <1>6, <1>7

\* The bytes of the file that are not written stay as they are, or were cut off.
BytesOutside ==
    /\ \A d \in Place : d # handle.current => data'[d] = data[d]
    /\ \A o \in Offset : o < Inside \/ o >= Inside + Piece => data'[handle.current][o] = data[handle.current][o]
    /\ \A d \in Cluster : fat[d] \in Cluster => fat'[d] = fat[d]

LEMMA OutsideStays ==
    ASSUME IInv, call.op = "write", ~Astray, BytesOutside, NEW i \in Nat \ {0},
           i =< handle.position \/ i > handle.position + Piece
    PROVE  /\ ByteAt(fat, data, handle.first, i) \in {ByteAt(fat', data', handle.first, i), Lost}
           /\ fat' = fat => ByteAt(fat', data', handle.first, i) = ByteAt(fat, data, handle.first, i)
<1> DEFINE n == i - 1
           k == n \div ClusterSize
           o == n % ClusterSize
           c == ChainOn(fat, handle.first, k)
<1>1. n \in Nat
  OBVIOUS
<1>2. k \in Nat /\ o \in Offset /\ n = ClusterSize * k + o
  BY <1>1, Parts
<1>3. ByteAt(fat, data, handle.first, i) = IF c \in Cluster THEN data[c][o] ELSE Lost
  BY DEF ByteAt
<1>4. ByteAt(fat', data', handle.first, i) =
        IF ChainOn(fat', handle.first, k) \in Cluster THEN data'[ChainOn(fat', handle.first, k)][o] ELSE Lost
  BY DEF ByteAt
<1>5. CASE c \notin Cluster
  BY <1>3, <1>4, <1>5
<1>6. CASE c \in Cluster
  <2>1. ChainOn(fat', handle.first, k) = c
    BY <1>2, <1>6, ChainGrows DEF BytesOutside
  <2>2. data'[c][o] = data[c][o]
    <3>1. CASE c # handle.current
      BY <1>6, <3>1 DEF BytesOutside, Place
    <3>2. CASE c = handle.current
      <4>1. k = Where
        BY <1>2, <1>6, <3>2, InCall DEF Stands, StandsOn
      <4>2. /\ handle.position \in Nat /\ Inside \in Nat /\ Where \in Nat /\ Piece \in Nat
            /\ handle.position = ClusterSize * Where + Inside
        <5>1. handle.position \in Nat /\ Inside \in Nat /\ Where \in Nat /\ Piece \in Nat
          BY Fields, PieceFacts DEF IInv, Offset
        <5>2. QED BY <5>1, Parts DEF Where, Inside
      <4>3. n < handle.position \/ n >= handle.position + Piece
        BY <4>2
      <4>4. o < Inside \/ o >= Inside + Piece
        <5>1. PICK m \in Int : m = ClusterSize * Where
          BY <4>2, ClusterSizePositive
        <5>2. n = m + o /\ handle.position = m + Inside /\ o \in Nat
          BY <1>2, <4>1, <4>2, <5>1, ClusterSizePositive DEF Offset
        <5> HIDE DEF n, o
        <5>3. QED BY <4>2, <4>3, <5>1, <5>2
      <4>5. QED BY <1>2, <3>2, <4>4 DEF BytesOutside
    <3>3. QED BY <3>1, <3>2
  <2>3. QED BY <1>3, <1>4, <1>6, <2>1, <2>2
<1>7. QED BY <1>5, <1>6

\* The bytes of a piece are where the file has them.
LEMMA InsideWritten ==
    ASSUME IInv, call.op = "write", Well, ~Astray, data' = [data EXCEPT ![handle.current] = Overlay],
           \A d \in Cluster : fat[d] \in Cluster => fat'[d] = fat[d], NEW i \in 1 .. Piece
    PROVE  ByteAt(fat', data', handle.first, handle.position + i) = call.bytes[call.done + i]
<1>1. /\ Piece \in Nat /\ handle.position \in Nat /\ Inside \in Nat /\ call.done \in Nat
  BY PieceFacts, Fields DEF IInv, Offset
<1>2. /\ (handle.position + i - 1) \div ClusterSize = Where
      /\ (handle.position + i - 1) % ClusterSize = Inside + i - 1
      /\ Inside + i - 1 \in Offset
  BY PieceBytes
<1>3. /\ handle.current \in Cluster /\ handle.current = ChainOn(fat, handle.first, Where)
  BY InCall
<1>4. ChainOn(fat', handle.first, Where) = handle.current
  <2>1. Where \in Nat /\ ChainOn(fat, handle.first, Where) \in Cluster
    BY <1>3, Fields DEF IInv
  <2>2. ChainOn(fat', handle.first, Where) = ChainOn(fat, handle.first, Where)
    BY <2>1, ChainGrows
  <2>3. QED BY <1>3, <2>2
<1>5. ByteAt(fat', data', handle.first, handle.position + i) = data'[handle.current][Inside + i - 1]
  <2>1. (handle.position + i) - 1 = handle.position + i - 1
    BY <1>1
  <2>2. /\ ChainOn(fat', handle.first, ((handle.position + i) - 1) \div ClusterSize) = handle.current
        /\ ((handle.position + i) - 1) % ClusterSize = Inside + i - 1
    BY <1>2, <1>4, <2>1
  <2>3. QED BY <1>3, <2>2 DEF ByteAt
<1>6. data'[handle.current] = Overlay /\ handle.current \in Place
  BY <1>3 DEF IInv, TypeOK, Place
<1>7. Overlay[Inside + i - 1] = call.bytes[call.done + 1 + (Inside + i - 1) - Inside]
  <2>1. Inside + i - 1 >= Inside /\ Inside + i - 1 < Inside + Piece
    BY <1>1
  <2>2. QED BY <1>2, <1>6, <2>1, OverlayIs DEF IInv
<1>8. call.done + 1 + (Inside + i - 1) - Inside = call.done + i
  BY <1>1
<1>9. QED BY <1>5, <1>6, <1>7, <1>8

LEMMA OverlayOutside ==
    ASSUME IInv, call.op = "write", handle.current \in Place, data' = [data EXCEPT ![handle.current] = Overlay],
           \A d \in Cluster : fat[d] \in Cluster => fat'[d] = fat[d]
    PROVE  BytesOutside
<1>1. data'[handle.current] = Overlay /\ \A d \in Place : d # handle.current => data'[d] = data[d]
  BY DEF IInv, TypeOK
<1>2. \A o \in Offset : o < Inside \/ o >= Inside + Piece => Overlay[o] = data[handle.current][o]
  <2> SUFFICES ASSUME NEW o \in Offset, o < Inside \/ o >= Inside + Piece
               PROVE  Overlay[o] = data[handle.current][o]
    OBVIOUS
  <2>1. Inside \in Nat /\ Piece \in Nat /\ o \in Nat
    BY Fields, PieceFacts DEF IInv, Offset
  <2>2. ~ (o >= Inside /\ o < Inside + Piece)
    BY <2>1
  <2>3. QED BY <2>2, OverlayIs DEF IInv
<1>3. QED BY <1>1, <1>2 DEF BytesOutside

LEMMA WriteTurnMaps ==
    ASSUME IInv, IInv', NEW c \in Place \cup {0}, TurnOfWrite(c)
    PROVE  \E k \in 1 .. Left : File!Accept(k)
<1>1. /\ call.op = "write" /\ handle.current \in Place
      /\ data' = [data EXCEPT ![handle.current] = Overlay]
      /\ \/ call' = NoCall
         \/ call.done + Piece < call.size /\ call' = [call EXCEPT !.done = @ + Piece]
      /\ trouble \subseteq trouble' /\ trouble' \subseteq trouble \cup {"failed", "full"}
      /\ call' = NoCall => call.done + Piece = call.size \/ Troubled'
      /\ \A d \in Cluster : fat[d] \in Cluster => fat'[d] = fat[d]
  BY DEF TurnOfWrite, WriteTurn, GrownFat, Troubled
<1>2. /\ handle'.inUse = handle.inUse /\ handle'.first = handle.first
      /\ handle'.position = handle.position + Piece
      /\ handle'.size = IF handle.position + Piece > handle.size THEN handle.position + Piece ELSE handle.size
  BY WriteTurnFields DEF TurnOfWrite, WrittenTo
<1>3. /\ Piece \in Nat \ {0} /\ Piece =< call.size - call.done /\ call.size \in Nat /\ call.done \in Nat
      /\ handle.position \in Nat /\ handle.size \in Nat /\ handle.position =< handle.size
  BY <1>1, PieceFacts, Fields DEF IInv, CallOK
<1>4. Piece \in 1 .. Left /\ Left = call.size - call.done /\ Left \in Nat
  BY <1>1, <1>3, RestIs
<1>5. /\ call'.op = "none" => Rest' = <<>>
      /\ call'.op # "none" => Rest' = SubSeq(Rest, Piece + 1, Left)
      /\ \/ call'.op = call.op /\ Left' = Left - Piece /\ Left' > 0
         \/ call'.op = "none" /\ Left' = 0 /\ (Left = Piece \/ Troubled')
  <2>1. CASE call' = NoCall
    <3>1. call'.op = "none" /\ Left' = 0 /\ Rest' = <<>>
      BY <2>1, NoCallType DEF Left, Rest
    <3>2. Left = Piece \/ Troubled'
      BY <1>1, <1>3, <1>4, <2>1
    <3>3. QED BY <3>1, <3>2
  <2>2. CASE call.done + Piece < call.size /\ call' = [call EXCEPT !.done = @ + Piece]
    <3>1. call'.op = "write" /\ Left' = Left - Piece /\ Left' > 0 /\ Rest' = SubSeq(Rest, Piece + 1, Left)
      BY <1>1, <2>2, RestGoesOn
    <3>2. QED BY <1>1, <3>1
  <2>3. QED BY <1>1, <2>1, <2>2
<1>6. call'.out = call.out
  <2>1. call.out = <<>>
    BY <1>1 DEF IInv, CallOK
  <2>2. CASE call' = NoCall
    BY <2>1, <2>2, NoCallType
  <2>3. CASE call' = [call EXCEPT !.done = @ + Piece]
    BY <2>3 DEF IInv, TypeOK
  <2>4. QED BY <1>1, <2>2, <2>3
<1>7. /\ handle.inUse /\ First = handle.first /\ Size = handle.size
      /\ First' = handle.first /\ Size' = handle'.size
  BY <1>1, <1>2, InCall DEF First, Size
<1>8. /\ IsFile(Bytes, fat, data, handle.first, handle.size)
      /\ IsFile(Bytes', fat', data', handle.first, handle'.size)
  BY <1>7, BytesAre, BytesAreNext DEF IInv
<1>9. Len(Bytes) = handle.size /\ Len(Bytes') = handle'.size
  BY <1>8 DEF IsFile
<1>10. Len(Bytes') = IF handle.position + Piece > Len(Bytes) THEN handle.position + Piece ELSE Len(Bytes)
  BY <1>2, <1>9
<1>11. ASSUME ~Astray, NEW i \in 1 .. Len(Bytes')
       PROVE  IF i =< handle.position \/ i > handle.position + Piece
              THEN Bytes[i] \in {Bytes'[i], Lost}
              ELSE Troubled \/ Bytes'[i] = Rest[i - handle.position]
  <2>1. PICK size \in Nat : size = handle'.size
                            /\ size = IF handle.position + Piece > handle.size THEN handle.position + Piece ELSE handle.size
    BY <1>2, <1>3
  <2>2. i \in 1 .. size /\ i \in Nat \ {0}
    BY <1>9, <2>1
  <2>3. Bytes'[i] = ByteAt(fat', data', handle.first, i)
    BY <1>8, <2>1, <2>2 DEF IsFile
  <2>4. CASE i =< handle.position \/ i > handle.position + Piece
    <3>1. i \in 1 .. handle.size
      BY <1>3, <2>1, <2>2, <2>4
    <3>2. Bytes[i] = ByteAt(fat, data, handle.first, i)
      BY <1>8, <3>1 DEF IsFile
    <3>3. ByteAt(fat, data, handle.first, i) \in {ByteAt(fat', data', handle.first, i), Lost}
      BY <1>1, <1>11, <2>2, <2>4, OverlayOutside, OutsideStays
    <3>4. QED BY <2>3, <2>4, <3>2, <3>3
  <2>5. CASE ~ (i =< handle.position \/ i > handle.position + Piece)
    <3>1. /\ i - handle.position \in 1 .. Piece /\ handle.position + (i - handle.position) = i
          /\ i - handle.position \in 1 .. Left
      BY <1>3, <1>4, <2>2, <2>5
    <3>2. Rest[i - handle.position] = call.bytes[call.done + (i - handle.position)]
      BY <1>1, <3>1, RestIs
    <3>3. Well => ByteAt(fat', data', handle.first, handle.position + (i - handle.position))
                    = call.bytes[call.done + (i - handle.position)]
      BY <1>1, <1>11, <3>1, InsideWritten
    <3>4. ~Troubled => Well
      BY <1>11 DEF Troubled, Astray, Well
    <3>5. QED BY <2>3, <2>5, <3>1, <3>2, <3>3, <3>4
  <2>6. QED BY <2>4, <2>5
<1>a. Doubt' = Doubt
        \/ (Doubt = "none" /\ Doubt' = "edge" /\ call'.op = "none" /\ EdgeAt(handle'.position))
  BY <1>1, DoubtReached
<1>b. Doubt # "file" => ~Astray
  BY <1>1 DEF IInv, CallOK, Doubt, Astray
<1>12. File!Accept(Piece)
  <2>1. File!Move(Piece)
    BY <1>1, <1>2, <1>4, <1>5, <1>a
       DEF File!Move, File!Reached, File!Edge, EdgeAt, Left, Doubt, Troubled
  <2>2. Doubt # "file" => \A i \in 1 .. Len(Bytes') :
          IF i =< handle.position \/ i > handle.position + Piece
          THEN Bytes[i] \in {Bytes'[i], Lost}
          ELSE Troubled \/ Bytes'[i] = Rest[i - handle.position]
    BY <1>11, <1>b
  <2>3. QED BY <1>1, <1>5, <1>6, <1>10, <2>1, <2>2
            DEF File!Accept, File!Outside, Bytes, Left, Rest, Doubt, Troubled
<1>13. QED BY <1>4, <1>12

LEMMA FailOutside ==
    ASSUME IInv, NEW sectors \in 0 .. (SectorsPerCluster - 1), WriteFail(sectors)
    PROVE  BytesOutside
<1>1. /\ call.op = "write" /\ UNCHANGED <<fat, entry, handle>>
      /\ \/ data' = data
         \/ /\ handle.current \in Place
            /\ data' = [data EXCEPT ![handle.current] = FailWrites(sectors)]
  BY WriteFailDoes
<1>2. CASE data' = data
  BY <1>1, <1>2 DEF BytesOutside
<1>3. CASE handle.current \in Place /\ data' = [data EXCEPT ![handle.current] = FailWrites(sectors)]
  <2>1. data'[handle.current] = FailWrites(sectors) /\ \A d \in Place : d # handle.current => data'[d] = data[d]
    BY <1>3 DEF IInv, TypeOK
  <2>2. \A o \in Offset : o < Inside \/ o >= Inside + Piece => FailWrites(sectors)[o] = data[handle.current][o]
    <3> SUFFICES ASSUME NEW o \in Offset, o < Inside \/ o >= Inside + Piece
                 PROVE  FailWrites(sectors)[o] = data[handle.current][o]
      OBVIOUS
    <3>1. Inside \in Nat /\ Piece \in Nat /\ o \in Nat
      BY <1>1, Fields, PieceFacts DEF IInv, Offset
    <3>2. ~ (o >= Inside /\ o < Inside + Piece)
      BY <3>1
    <3>3. Overlay[o] = data[handle.current][o]
      BY <1>1, <1>3, <3>2, OverlayIs DEF IInv
    <3>4. QED BY <3>3 DEF FailWrites
  <2>3. QED BY <1>1, <2>1, <2>2 DEF BytesOutside
<1>4. QED BY <1>1, <1>2, <1>3

LEMMA WriteFailMaps ==
    ASSUME IInv, IInv', NEW sectors \in 0 .. (SectorsPerCluster - 1), WriteFail(sectors)
    PROVE  File!Fail
<1>1. /\ call.op = "write" /\ call' = NoCall /\ UNCHANGED <<fat, entry, handle>>
      /\ trouble' = trouble \cup {"failed"}
  BY WriteFailDoes
<1>2. /\ Piece \in Nat \ {0} /\ Piece =< call.size - call.done /\ handle.position \in Nat /\ handle.size \in Nat
  BY <1>1, PieceFacts, Fields DEF IInv
<1>3. Left = call.size - call.done /\ Left \in Nat /\ Len(Rest) = Left
  BY <1>1, RestIs
<1>4. Left' = 0 /\ Rest' = <<>> /\ call'.op = "none" /\ call'.out = <<>>
  BY <1>1, NoCallType DEF Left, Rest
<1>5. /\ First = handle.first /\ Size = handle.size
      /\ First' = handle.first /\ Size' = handle.size
  BY <1>1, InCall DEF First, Size
<1>6. /\ IsFile(Bytes, fat, data, handle.first, handle.size)
      /\ IsFile(Bytes', fat', data', handle.first, handle.size)
  BY <1>5, BytesAre, BytesAreNext DEF IInv
<1>7. Len(Bytes) = handle.size /\ Len(Bytes') = handle.size
  BY <1>6 DEF IsFile
<1>8. ASSUME ~Astray, NEW i \in 1 .. Len(Bytes), i =< handle.position \/ i > handle.position + Len(Rest)
      PROVE  Bytes'[i] = Bytes[i]
  <2>1. i \in Nat \ {0} /\ i \in 1 .. handle.size
    BY <1>2, <1>7
  <2>2. PICK n \in Nat : n = Len(Rest) /\ n >= Piece
    BY <1>2, <1>3
  <2>3. i =< handle.position \/ i > handle.position + Piece
    BY <1>2, <1>8, <2>1, <2>2
  <2>4. BytesOutside
    BY FailOutside
  <2>5. ByteAt(fat', data', handle.first, i) = ByteAt(fat, data, handle.first, i)
    BY <1>1, <1>8, <2>1, <2>3, <2>4, OutsideStays
  <2>6. QED BY <1>6, <2>1, <2>5 DEF IsFile
<1>a. Doubt' = Doubt
        \/ (Doubt = "none" /\ Doubt' = "edge" /\ call'.op = "none" /\ EdgeAt(handle'.position))
  BY <1>1, DoubtReached
<1>b. Doubt # "file" => ~Astray
  BY <1>1 DEF IInv, CallOK, Doubt, Astray
<1>c. Troubled'
  BY <1>1 DEF Troubled
<1>9. File!Fail
  <2>1. Doubt # "file" => \A i \in 1 .. Len(Bytes) :
          i =< handle.position \/ i > handle.position + Len(Rest) => Bytes'[i] = Bytes[i]
    BY <1>8, <1>b
  <2>2. QED BY <1>1, <1>4, <1>7, <1>a, <1>c, <2>1
            DEF File!Fail, File!Reached, File!Edge, File!Outside, EdgeAt, Bytes, Left, Rest, Doubt, Troubled
<1>10. QED BY <1>9

\* A step of the cursor is a step of the byte string, or none.
LEMMA NextMaps == ASSUME IInv, IInv', [Next]_vars PROVE [File!Next]_(File!vars)
<1>a. ASSUME trouble \ {"behind"} \subseteq trouble' PROVE Troubled => Troubled'
  BY <1>a DEF Troubled
<1>1. CASE Open
  BY <1>1, OpenStutters
<1>2. ASSUME NEW n \in 1 .. MaxMove, CallRead(n) PROVE File!Next
  <2>1. File!CallRead \/ File!ReadNothing
    BY <1>2, CallReadMaps
  <2>2. trouble \subseteq trouble'
    BY <1>2 DEF CallRead, Note
  <2>3. QED BY <1>a, <2>1, <2>2 DEF File!Next, Troubled
<1>3. ASSUME NEW tag \in Tag, NEW n \in 1 .. MaxMove, CallWrite(Payload(tag, n)) PROVE File!Next
  <2>1. WriteBegins(Payload(tag, n))
    BY <1>3, CallWriteDoes, PayloadIs
  <2>2. File!CallWrite
    BY <2>1, CallWriteMaps
  <2>3. trouble \subseteq trouble'
    BY <2>1 DEF WriteBegins
  <2>4. QED BY <1>a, <2>2, <2>3 DEF File!Next, Troubled
<1>4. CASE CallWriteFail
  <2>1. call' = NoCall /\ UNCHANGED <<fat, data, entry, handle>>
    BY <1>4 DEF CallWriteFail
  <2>2. \E what \in {"failed", "full"} : trouble' = trouble \cup {what}
    BY <1>4 DEF CallWriteFail, NoteNoCluster, Note
  <2>3. File!Fail
    BY <2>1, <2>2, NoCallType, FailMaps
  <2>4. QED BY <1>a, <2>2, <2>3 DEF File!Next, Troubled
<1>5. ASSUME NEW position \in 0 .. handle.size, Seek(position) PROVE File!Next
  <2>1. \E p \in 0 .. Len(Bytes) : File!Seek(p)
    BY <1>5, SeekMaps
  <2>2. trouble \ {"behind"} \subseteq trouble'
    BY <1>5, SeekDoes DEF Resettled
  <2>3. QED BY <1>a, <2>1, <2>2 DEF File!Next, Bytes, Troubled
<1>6. ASSUME NEW told \in BOOLEAN, Close(told) PROVE File!Next
  <2>1. File!Close
    BY <1>6, CloseMaps
  <2>2. trouble \ {"behind"} \subseteq trouble'
    BY <1>6, CloseDoes DEF Resettled
  <2>3. QED BY <1>a, <2>1, <2>2 DEF File!Next, Troubled
<1>7. CASE ReadOne
  <2>1. \E k \in 1 .. Left : File!Deliver(k)
    BY <1>7, ReadOneMaps
  <2>2. trouble \subseteq trouble'
    BY <1>7, ReadOneDoes DEF ReadEnds, ReadGoesOn
  <2>3. QED BY <1>a, <2>1, <2>2 DEF File!Next, Left, Troubled
<1>8. CASE ReadFail
  <2>1. /\ call' = Returned(call.out) /\ UNCHANGED <<fat, data, entry, handle>>
        /\ trouble' = trouble \cup {"failed"}
    BY <1>8 DEF ReadFail, Note
  <2>2. call'.op = "none" /\ call'.out = call.out
    BY <2>1, Fields, ReturnedType DEF IInv
  <2>3. File!Fail
    BY <2>1, <2>2, FailMaps
  <2>4. QED BY <1>a, <2>1, <2>3 DEF File!Next, Troubled
<1>9. CASE WriteLast \/ WriteOn \/ (\E new \in Cluster, linked \in BOOLEAN : WriteExtend(new, linked))
           \/ WriteShort
  <2>1. PICK c \in Place \cup {0} : TurnOfWrite(c)
    BY <1>9, WriteTurnsInv
  <2>2. \E k \in 1 .. Left : File!Accept(k)
    BY <2>1, WriteTurnMaps
  <2>3. trouble \subseteq trouble'
    BY <2>1 DEF TurnOfWrite
  <2>4. QED BY <1>a, <2>2, <2>3 DEF File!Next, Left, Troubled
<1>10. ASSUME NEW sectors \in 0 .. (SectorsPerCluster - 1), WriteFail(sectors) PROVE File!Next
  <2>1. File!Fail
    BY <1>10, WriteFailMaps
  <2>2. trouble' = trouble \cup {"failed"}
    BY <1>10, WriteFailDoes
  <2>3. QED BY <1>a, <2>1, <2>2 DEF File!Next, Troubled
<1>11. CASE UNCHANGED vars
  <2>1. Bytes' = Bytes
    BY <1>11, BytesStay DEF vars, First, Size
  <2>2. Doubt' = Doubt
    BY <1>11, SettledStays DEF vars, Doubt
  <2>3. QED BY <1>11, <2>1, <2>2 DEF vars, File!vars, Bytes, Doubt
<1>12. QED BY <1>1, <1>2, <1>3, <1>4, <1>5, <1>6, <1>7, <1>8, <1>9, <1>10, <1>11 DEF Next, Turn

LEMMA InitMaps == ASSUME Init PROVE File!Init
<1>1. IInv
  BY InitIInv
<1>2. handle = Closed /\ call = NoCall /\ trouble = {}
  BY DEF Init
<1>3. IsFile(Bytes, fat, data, First, Size) /\ Size \in Nat
  BY <1>1, BytesAre, Fields DEF IInv, Size
<1>4. ASSUME NEW i \in 1 .. Size PROVE Bytes[i] \in Byte
  <2>1. i - 1 \in 0 .. Size - 1 /\ i - 1 \in Nat
    BY <1>3
  <2>2. ChainOn(fat, First, (i - 1) \div ClusterSize) \in Cluster
    BY <1>1, <1>2, <2>1 DEF IInv, WholeOK, Well, Whole
  <2>3. (i - 1) % ClusterSize \in Offset
    BY <2>1, Parts
  <2>4. data \in [Place -> [Offset -> Byte]]
    BY <1>1 DEF IInv, TypeOK
  <2>5. ByteAt(fat, data, First, i) \in Byte
    BY <2>2, <2>3, <2>4 DEF ByteAt, Place
  <2>6. QED BY <1>3, <2>5 DEF IsFile
<1>5. Bytes \in Seq(Byte)
  <2>1. Bytes = [i \in 1 .. Size |-> Bytes[i]]
    BY <1>3 DEF IsFile
  <2>2. Bytes \in [1 .. Size -> Byte]
    BY <1>4, <2>1
  <2>3. QED BY <1>3, <2>2
<1>6. Left = 0 /\ Rest = <<>> /\ call.op = "none" /\ call.out = <<>> /\ handle.position = 0
  BY <1>2, NoCallType, ClosedType DEF Left, Rest
<1>7. Doubt = "none"
  BY <1>2, <1>6, SettledAtStart DEF Doubt
<1>8. QED BY <1>2, <1>5, <1>6, <1>7 DEF File!Init, Bytes, Left, Rest, Doubt

\* An open file is a string of bytes with a position, whatever clusters it is in:
\* reads give its bytes, writes change those they say, and only a failed transfer
\* or a full disk makes a call fall short, as long as no call goes on from where a
\* cluster ended.  The bytes read after such a call are the file's again from the
\* next seek on, unless that call was a write; lengths and positions always are.
THEOREM HandleIsAByteFile == Spec => ImplementsByteFile
<1>1. Init => File!Init
  BY InitMaps
<1>2. IInv /\ IInv' /\ [Next]_vars => [File!Next]_(File!vars)
  BY NextMaps
<1>3. QED BY <1>1, <1>2, SpecIInv, PTL DEF Spec, ImplementsByteFile, File!Spec

-----------------------------------------------------------------------------
(* A copy: the chain of the target                                           *)

DWell == "failed" \notin dstTrouble

\* The fields that a step of a handle or a call keeps, whatever is in them
IsHandle(h) == DOMAIN h = {"inUse", "first", "current", "position", "size", "dirty"}
IsCall(c) == DOMAIN c = {"op", "size", "done", "bytes", "out"}

\* The clusters of s in their order, each linked to the next, the last one an end
Row(map, s) ==
    /\ s \in Seq(Cluster)
    /\ \A i, j \in 1 .. Len(s) : s[i] = s[j] => i = j
    /\ \A i \in 1 .. Len(s) : map[s[i]] = IF i = Len(s) THEN Eoc ELSE s[i + 1]
FirstOf(s) == IF Len(s) = 0 THEN 0 ELSE s[1]
LastOf(s) == IF Len(s) = 0 THEN 0 ELSE s[Len(s)]

\* They were free, and no other cluster has changed.
Taken(s) ==
    /\ \A i \in 1 .. Len(s) : before[s[i]] = Free
    /\ \A c \in Cluster : (\A i \in 1 .. Len(s) : s[i] # c) => fat[c] = before[c]

\* The target's handle, or its entry, has them.
Held(s) ==
    IF dstHandle.inUse
    THEN /\ dstHandle.first = FirstOf(s) /\ dstHandle.current = LastOf(s)
         /\ Len(s) = 0 => dstHandle.dirty = FALSE
         /\ Len(s) # 0 => dstHandle.dirty = TRUE
         /\ dstEntry = NoFile
    ELSE dstEntry.first = FirstOf(s)

PhaseOK ==
    /\ pc \in {"open", "create", "copy", "reading", "writing", "close", "abandon", "delete", "done"}
    /\ pc \in {"open", "create"} => ~dstHandle.inUse /\ dstEntry = NoFile /\ ~dstExists
    /\ pc \in {"copy", "reading", "writing", "close"} => dstHandle.inUse
    /\ pc \in {"delete", "done"} => ~dstHandle.inUse
    /\ result \in {"none", "failed", "copied"}
    /\ result # "none" => pc = "done"
    /\ result = "failed" => dstEntry = NoFile /\ ~dstExists

CallsOK ==
    /\ IsCall(call) /\ call.op \in {"none", "read"}
    /\ IsHandle(dstHandle) /\ dstHandle.inUse \in BOOLEAN
    /\ IsCall(dstCall) /\ dstCall.op \in {"none", "write"}
    /\ dstCall.op = "write" => pc = "writing" /\ dstHandle.first # 0

TargetOK == fat \in FatType /\ before \in FatType /\ \E s : Row(fat, s) /\ Taken(s) /\ Held(s)

TargetInv == DWell => PhaseOK /\ CallsOK /\ TargetOK

-----------------------------------------------------------------------------
LEMMA DstSame ==
    /\ Dst!Cluster = Cluster /\ Dst!Place = Place /\ Dst!Offset = Offset /\ Dst!ClusterSize = ClusterSize
    /\ Dst!Free = Free /\ Dst!Eoc = Eoc /\ Dst!BadCluster = BadCluster
    /\ Dst!Closed = Closed /\ Dst!NoCall = NoCall
  BY DEF Dst!Cluster, Dst!Place, Dst!Offset, Dst!ClusterSize, Dst!Free, Dst!Eoc, Dst!BadCluster,
         Dst!Closed, Dst!NoCall, Cluster, Place, Offset, ClusterSize, Free, Eoc, BadCluster, Closed, NoCall

LEMMA ClosedIs == IsHandle(Closed) /\ Closed.inUse = FALSE /\ IsCall(NoCall) /\ NoCall.op = "none" /\ NoCall.out = <<>>
  BY DEF Closed, NoCall, IsHandle, IsCall

LEMMA ReturnedIs ==
    ASSUME NEW b
    PROVE  IsCall(Returned(b)) /\ Returned(b).op = "none" /\ Returned(b).out = b
  BY DEF Returned, NoCall, IsCall

LEMMA RowEnds ==
    ASSUME NEW map, NEW s, Row(map, s)
    PROVE  /\ Len(s) \in Nat /\ (FirstOf(s) = 0 <=> Len(s) = 0)
           /\ FirstOf(s) \in Cluster \cup {0}
           /\ Len(s) > 0 => LastOf(s) \in Cluster /\ map[LastOf(s)] = Eoc
<1>1. Len(s) \in Nat
  BY DEF Row
<1>2. ASSUME Len(s) > 0 PROVE s[1] \in Cluster /\ s[Len(s)] \in Cluster /\ map[s[Len(s)]] = Eoc
  <2>1. 1 \in 1 .. Len(s) /\ Len(s) \in 1 .. Len(s)
    BY <1>1, <1>2
  <2>2. s \in Seq(Cluster)
    BY DEF Row
  <2>3. s[1] \in Cluster /\ s[Len(s)] \in Cluster
    BY <2>1, <2>2, ElementOfSeq
  <2>4. map[s[Len(s)]] = Eoc
    BY <2>1 DEF Row
  <2>5. QED BY <2>3, <2>4
<1>3. QED BY <1>1, <1>2, Marks DEF FirstOf, LastOf

LEMMA EmptyRow == ASSUME NEW map PROVE Row(map, <<>>) /\ FirstOf(<<>>) = 0 /\ LastOf(<<>>) = 0 /\ Len(<<>>) = 0
<1>1. Len(<<>>) = 0 /\ <<>> \in Seq(Cluster)
  OBVIOUS
<1>2. QED BY <1>1 DEF Row, FirstOf, LastOf

\* No more clusters than there are
LEMMA RowFits == ASSUME NEW map, NEW s, Row(map, s) PROVE Len(s) =< NumClusters
<1>1. Len(s) \in Nat /\ NumClusters \in Nat
  BY RowEnds, GeometryAssumption
<1>2. IsFiniteSet(Cluster) /\ Cardinality(Cluster) = NumClusters
  <2>1. PICK m \in Int : m = NumClusters + 1
    BY <1>1
  <2>2. IsFiniteSet(2 .. m) /\ Cardinality(2 .. m) = IF 2 > m THEN 0 ELSE m - 2 + 1
    BY FS_Interval
  <2>3. Cardinality(2 .. m) = NumClusters
    BY <1>1, <2>1, <2>2
  <2>4. QED BY <2>1, <2>2, <2>3 DEF Cluster
<1>3. s \in Injection(1 .. Len(s), Cluster)
  <2>1. s \in [1 .. Len(s) -> Cluster]
    <3>1. s \in Seq(Cluster)
      BY DEF Row
    <3>2. QED BY <3>1, LenProperties, ElementOfSeq
  <2>2. QED BY <2>1 DEF Row, Injection, IsInjective
<1>4. Cardinality(1 .. Len(s)) = Len(s)
  <2>1. PICK n \in Nat : n = Len(s)
    BY <1>1
  <2>2. Cardinality(1 .. n) = IF 1 > n THEN 0 ELSE n - 1 + 1
    BY FS_Interval
  <2>3. Cardinality(1 .. n) = n
    BY <2>2
  <2>4. QED BY <2>1, <2>3
<1>5. QED BY <1>2, <1>3, <1>4, FS_Injection

\* The chain that starts with its first cluster goes along the row and ends.
LEMMA RowIsChain ==
    ASSUME NEW map, NEW s, Row(map, s), Len(s) > 0, NEW k \in Nat
    PROVE  ChainOn(map, s[1], k) = IF k < Len(s) THEN s[k + 1] ELSE Eoc
<1>1. PICK n \in Nat : n = Len(s)
  BY RowEnds
<1> DEFINE On(j) == IF j < n THEN s[j + 1] ELSE Eoc
<1> DEFINE Bad == {j \in Nat : ChainOn(map, s[1], j) # On(j)}
<1>2. SUFFICES ASSUME Bad # {} PROVE FALSE
  BY <1>1
<1>3. PICK m \in Bad : \A j \in Bad : m =< j
  <2>1. Bad \subseteq Nat
    OBVIOUS
  <2> HIDE DEF Bad
  <2>2. QED BY <1>2, <2>1, LeastElement
<1>4. m # 0
  BY <1>1, <1>3, ChainFirst
<1>5. PICK j \in Nat : m = j + 1
  BY <1>3, <1>4
<1>6. ChainOn(map, s[1], j) = On(j)
  BY <1>3, <1>5
<1>7. ChainOn(map, s[1], m) = IF On(j) \in Cluster THEN map[On(j)] ELSE Eoc
  <2>1. ChainOn(map, s[1], m) = IF ChainOn(map, s[1], j) \in Cluster THEN map[ChainOn(map, s[1], j)] ELSE Eoc
    BY <1>5, ChainNext
  <2> HIDE DEF On
  <2>2. QED BY <1>6, <2>1
<1>8. CASE j < n
  <2>1. j + 1 \in 1 .. n /\ s \in Seq(Cluster)
    BY <1>8 DEF Row
  <2>2. On(j) \in Cluster /\ On(j) = s[j + 1]
    BY <1>1, <1>8, <2>1, ElementOfSeq
  <2>3. map[s[j + 1]] = IF j + 1 = n THEN Eoc ELSE s[j + 1 + 1]
    BY <1>1, <2>1 DEF Row
  <2>4. map[s[j + 1]] = On(m)
    BY <1>5, <1>8, <2>3
  <2>5. QED BY <1>3, <1>7, <2>2, <2>4
<1>9. CASE ~ (j < n)
  <2>1. On(j) = Eoc /\ On(m) = Eoc
    BY <1>5, <1>9
  <2>2. QED BY <1>3, <1>7, <2>1, Marks
<1>10. QED BY <1>8, <1>9

\* All of it is found by whoever frees it.
LEMMA ChainOfRow ==
    ASSUME NEW s, Row(fat, s)
    PROVE  ChainOf(FirstOf(s)) = {s[i] : i \in 1 .. Len(s)}
<1>1. PICK n \in Nat : n = Len(s) /\ n =< NumClusters
  BY RowEnds, RowFits
<1>2. CASE n = 0
  <2>1. \A k \in Nat : ChainOn(fat, 0, k) \notin Cluster
    <3>1. SUFFICES ASSUME NEW k \in Nat, ChainOn(fat, 0, k) \in Cluster PROVE FALSE
      OBVIOUS
    <3> DEFINE Bad == {j \in Nat : ChainOn(fat, 0, j) \in Cluster}
    <3>2. PICK m \in Bad : \A j \in Bad : m =< j
      <4>1. Bad \subseteq Nat /\ Bad # {}
        BY <3>1
      <4> HIDE DEF Bad
      <4>2. QED BY <4>1, LeastElement
    <3>3. m # 0
      BY <3>2, ChainFirst, Marks
    <3>4. m - 1 \in Nat /\ ChainOn(fat, 0, m - 1) \in Cluster
      BY <3>2, <3>3, ChainBack, Marks
    <3>5. QED BY <3>2, <3>4
  <2>2. ChainOf(0) = {}
    BY <2>1, <1>1 DEF ChainOf, ChainAt
  <2>3. FirstOf(s) = 0 /\ {s[i] : i \in 1 .. Len(s)} = {}
    BY <1>1, <1>2 DEF FirstOf
  <2>4. QED BY <2>2, <2>3
<1>3. CASE n > 0
  <2>1. FirstOf(s) = s[1]
    BY <1>1, <1>3 DEF FirstOf
  <2>2. \A k \in Nat : ChainAt(s[1], k) = IF k < n THEN s[k + 1] ELSE Eoc
    BY <1>1, <1>3, RowIsChain DEF ChainAt
  <2>3. \A i \in 1 .. n : s[i] \in Cluster
    BY <1>1, ElementOfSeq DEF Row
  <2>4. ASSUME NEW c \in ChainOf(s[1]) PROVE \E i \in 1 .. n : c = s[i]
    <3>1. PICK k \in 0 .. NumClusters : c = ChainAt(s[1], k) /\ c \in Cluster
      BY DEF ChainOf
    <3>2. k \in Nat
      BY <1>1, <3>1
    <3>3. k < n
      BY <2>2, <3>1, <3>2, Marks
    <3>4. k + 1 \in 1 .. n /\ c = s[k + 1]
      BY <2>2, <3>1, <3>2, <3>3
    <3>5. QED BY <3>4
  <2>5. ASSUME NEW i \in 1 .. n PROVE s[i] \in ChainOf(s[1])
    <3>1. i - 1 \in 0 .. NumClusters /\ i - 1 \in Nat /\ i - 1 < n /\ (i - 1) + 1 = i
      BY <1>1, GeometryAssumption
    <3>2. ChainAt(s[1], i - 1) = s[i]
      BY <2>2, <3>1
    <3>3. QED BY <2>3, <3>1, <3>2 DEF ChainOf
  <2>6. ChainOf(s[1]) = {s[i] : i \in 1 .. n}
    BY <2>4, <2>5
  <2>7. QED BY <1>1, <2>1, <2>6
<1>4. QED BY <1>1, <1>2, <1>3

\* Lengthening a row by a cluster that was free
Longer(map, s, new, g, t) == g = [map EXCEPT ![new] = Eoc, ![LastOf(s)] = new] /\ t = Append(s, new)

LEMMA RowGrows ==
    ASSUME NEW map \in FatType, NEW s, Row(map, s), Len(s) > 0, NEW new \in Cluster, map[new] = Free,
           NEW g, NEW t, Longer(map, s, new, g, t)
    PROVE  /\ Row(g, t) /\ Len(t) = Len(s) + 1 /\ FirstOf(t) = FirstOf(s) /\ LastOf(t) = new
           /\ \A i \in 1 .. Len(s) : t[i] = s[i]
           /\ t[Len(s) + 1] = new
<1>1. PICK n \in Nat \ {0} : n = Len(s)
  BY RowEnds
<1>2. s \in Seq(Cluster) /\ \A i \in 1 .. n : s[i] \in Cluster
  <2>1. s \in Seq(Cluster)
    BY DEF Row
  <2>2. QED BY <1>1, <2>1, ElementOfSeq
<1>3. t \in Seq(Cluster) /\ Len(t) = n + 1 /\ (\A i \in 1 .. n : t[i] = s[i]) /\ t[n + 1] = new
  BY <1>1, <1>2, AppendProperties DEF Longer
<1>4. LastOf(s) = s[n] /\ s[n] \in Cluster
  BY <1>1, <1>2 DEF LastOf
<1>5. \A i \in 1 .. n : map[s[i]] # Free /\ s[i] # new
  <2> SUFFICES ASSUME NEW i \in 1 .. n PROVE map[s[i]] # Free
    OBVIOUS
  <2>1. map[s[i]] = IF i = n THEN Eoc ELSE s[i + 1]
    BY <1>1 DEF Row
  <2>2. i # n => i + 1 \in 1 .. n
    BY <1>1
  <2>3. QED BY <1>2, <2>1, <2>2, Marks
<1>6. \A c \in Cluster : g[c] = IF c = s[n] THEN new ELSE IF c = new THEN Eoc ELSE map[c]
  <2>1. DOMAIN map = Cluster
    BY DEF FatType
  <2>2. QED BY <1>4, <2>1 DEF Longer
<1>7. \A i, j \in 1 .. n + 1 : t[i] = t[j] => i = j
  <2> SUFFICES ASSUME NEW i \in 1 .. n + 1, NEW j \in 1 .. n + 1, t[i] = t[j] PROVE i = j
    OBVIOUS
  <2>1. CASE i = n + 1 /\ j # n + 1
    <3>1. j \in 1 .. n
      BY <2>1
    <3>2. QED BY <1>3, <1>5, <2>1, <3>1
  <2>2. CASE i # n + 1 /\ j = n + 1
    <3>1. i \in 1 .. n
      BY <2>2
    <3>2. QED BY <1>3, <1>5, <2>2, <3>1
  <2>3. CASE i # n + 1 /\ j # n + 1
    <3>1. i \in 1 .. n /\ j \in 1 .. n
      BY <2>3
    <3>2. s[i] = s[j]
      BY <1>3, <3>1
    <3>3. QED BY <1>1, <3>1, <3>2 DEF Row
  <2>4. QED BY <2>1, <2>2, <2>3
<1>8. ASSUME NEW i \in 1 .. n + 1 PROVE g[t[i]] = IF i = n + 1 THEN Eoc ELSE t[i + 1]
  <2>1. CASE i = n + 1
    <3>1. t[i] = new /\ new # s[n]
      <4>1. n \in 1 .. n
        BY <1>1
      <4>2. QED BY <1>3, <1>5, <2>1, <4>1
    <3>2. QED BY <1>6, <2>1, <3>1
  <2>2. CASE i = n
    <3>1. t[i] = s[n] /\ t[i + 1] = new /\ i # n + 1
      BY <1>1, <1>3, <2>2
    <3>2. QED BY <1>4, <1>6, <3>1
  <2>3. CASE i < n
    <3>1. i \in 1 .. n /\ i + 1 \in 1 .. n /\ n \in 1 .. n /\ i # n + 1
      BY <1>1, <2>3
    <3>2. s[i] # s[n] /\ s[i] # new /\ s[i] \in Cluster /\ t[i] = s[i] /\ t[i + 1] = s[i + 1]
      BY <1>1, <1>2, <1>3, <1>5, <2>3, <3>1 DEF Row
    <3>3. map[s[i]] = s[i + 1]
      BY <1>1, <2>3, <3>1 DEF Row
    <3>4. QED BY <1>6, <3>1, <3>2, <3>3
  <2>4. i = n + 1 \/ i = n \/ i < n
    BY <1>1
  <2>5. QED BY <2>1, <2>2, <2>3, <2>4
<1>9. Row(g, t)
  <2>1. Len(t) = n + 1 /\ t \in Seq(Cluster)
    BY <1>3
  <2>2. QED BY <1>7, <1>8, <2>1 DEF Row
<1>10. FirstOf(t) = FirstOf(s) /\ LastOf(t) = new
  <2>1. 1 \in 1 .. n /\ n # 0 /\ n + 1 # 0
    BY <1>1
  <2>2. QED BY <1>1, <1>3, <2>1 DEF FirstOf, LastOf
<1>11. QED BY <1>1, <1>3, <1>9, <1>10

LEMMA RowBegins ==
    ASSUME NEW map \in FatType, NEW new \in Cluster
    PROVE  /\ Row([map EXCEPT ![new] = Eoc], <<new>>)
           /\ Len(<<new>>) = 1 /\ FirstOf(<<new>>) = new /\ LastOf(<<new>>) = new /\ <<new>>[1] = new
<1> DEFINE t == <<new>>
<1>1. t \in Seq(Cluster) /\ Len(t) = 1 /\ t[1] = new
  OBVIOUS
<1>2. [map EXCEPT ![new] = Eoc][new] = Eoc
  BY DEF FatType
<1> HIDE DEF t
<1>3. Row([map EXCEPT ![new] = Eoc], t)
  <2>1. \A i \in 1 .. Len(t) : i = 1 /\ i = Len(t)
    BY <1>1
  <2>2. QED BY <1>1, <1>2, <2>1 DEF Row
<1>4. QED BY <1>1, <1>3 DEF FirstOf, LastOf, t

-----------------------------------------------------------------------------
(* The steps of the target                                                   *)

\* What Moved leaves alone
LEMMA MovedIs ==
    ASSUME IsHandle(dstHandle), NEW c
    PROVE  LET h == Dst!Moved(c)
           IN  /\ IsHandle(h) /\ h.inUse = dstHandle.inUse /\ h.first = dstHandle.first /\ h.current = c
               /\ h.dirty = (dstHandle.dirty \/ dstHandle.position + Dst!Piece > dstHandle.size)
               /\ h.position = dstHandle.position + Dst!Piece
               /\ h.size = Dst!Max({dstHandle.size, dstHandle.position + Dst!Piece})
<1>1. PICK p, z, d : /\ p = dstHandle.position + Dst!Piece
                     /\ z = Dst!Max({dstHandle.size, dstHandle.position + Dst!Piece})
                     /\ d = (dstHandle.dirty \/ dstHandle.position + Dst!Piece > dstHandle.size)
  OBVIOUS
<1>2. Dst!Moved(c) = [dstHandle EXCEPT !.position = p, !.current = c, !.size = z, !.dirty = d]
  BY <1>1, Zenon DEF Dst!Moved
<1> DEFINE h == [dstHandle EXCEPT !.position = p, !.current = c, !.size = z, !.dirty = d]
<1>3. /\ IsHandle(h) /\ h.inUse = dstHandle.inUse /\ h.first = dstHandle.first /\ h.current = c
      /\ h.dirty = d /\ h.position = p /\ h.size = z
  BY DEF IsHandle
<1> HIDE DEF h
<1>4. Dst!Moved(c) = h
  BY <1>2 DEF h
<1>5. QED BY <1>1, <1>3, <1>4, Zenon

\* A turn of a write: nothing of the chain changes, or one more cluster is on it.
TurnKeeps == /\ UNCHANGED fat /\ dstHandle'.current = dstHandle.current
TurnTakes(new) ==
    /\ fat[new] = Free
    /\ fat' = [fat EXCEPT ![new] = Eoc, ![dstHandle.current] = new]
    /\ dstHandle'.current = new

LEMMA DstTurnDoes ==
    ASSUME CallsOK, Dst!Turn, DWell', fat[dstHandle.current] = Eoc
    PROVE  /\ dstCall.op = "write" /\ IsCall(dstCall') /\ dstCall'.op \in {"none", "write"}
           /\ IsHandle(dstHandle') /\ dstHandle'.inUse = dstHandle.inUse /\ dstHandle'.first = dstHandle.first
           /\ dstHandle.dirty => dstHandle'.dirty = TRUE
           /\ UNCHANGED dstEntry
           /\ TurnKeeps \/ \E new \in Cluster : TurnTakes(new)
<1>1. /\ IsHandle(dstHandle) /\ IsCall(dstCall) /\ dstCall.op \in {"none", "write"}
      /\ "failed" \notin dstTrouble'
  BY DEF CallsOK, DWell
<1>2. ~ Dst!ReadOne /\ ~ Dst!ReadFail
  BY <1>1 DEF Dst!ReadOne, Dst!ReadFail
<1>3. ASSUME NEW ends \in BOOLEAN, Dst!WritePiece(ends), NEW c, dstHandle' = Dst!Moved(c)
      PROVE  /\ dstCall.op = "write" /\ IsCall(dstCall') /\ dstCall'.op \in {"none", "write"}
             /\ IsHandle(dstHandle') /\ dstHandle'.inUse = dstHandle.inUse /\ dstHandle'.first = dstHandle.first
             /\ dstHandle.dirty => dstHandle'.dirty = TRUE
             /\ UNCHANGED dstEntry /\ dstHandle'.current = c
  <2>1. dstCall.op = "write" /\ UNCHANGED dstEntry
        /\ dstCall' = IF ends THEN NoCall ELSE [dstCall EXCEPT !.done = @ + Dst!Piece]
    BY <1>3, DstSame DEF Dst!WritePiece
  <2>2. IsCall(dstCall') /\ dstCall'.op \in {"none", "write"}
    <3>1. CASE ends
      BY <2>1, <3>1, ClosedIs
    <3>2. CASE ~ends
      BY <1>1, <2>1, <3>2 DEF IsCall
    <3>3. QED BY <3>1, <3>2
  <2>3. QED BY <1>1, <1>3, <2>1, <2>2, MovedIs
<1>4. CASE Dst!WriteLast
  <2>1. Dst!WritePiece(TRUE) /\ dstHandle' = Dst!Moved(dstHandle.current) /\ UNCHANGED fat
    BY <1>4 DEF Dst!WriteLast
  <2>2. QED BY <1>3, <2>1 DEF TurnKeeps
<1>5. CASE Dst!WriteOn
  <2>1. PICK next \in Dst!Answers(dstHandle.current) \ {Eoc} : Dst!Note(next = BadCluster, "failed")
    BY <1>5, DstSame DEF Dst!WriteOn
  <2>2. next # BadCluster
    BY <1>1, <2>1 DEF Dst!Note
  <2>3. next = fat[dstHandle.current]
    BY <2>1, <2>2, DstSame DEF Dst!Answers
  <2>4. QED BY <2>1, <2>3
<1>6. ASSUME NEW new \in Dst!Cluster, NEW linked \in BOOLEAN, Dst!WriteExtend(new, linked)
      PROVE  /\ dstCall.op = "write" /\ IsCall(dstCall') /\ dstCall'.op \in {"none", "write"}
             /\ IsHandle(dstHandle') /\ dstHandle'.inUse = dstHandle.inUse /\ dstHandle'.first = dstHandle.first
             /\ dstHandle.dirty => dstHandle'.dirty = TRUE
             /\ UNCHANGED dstEntry
             /\ new \in Cluster /\ TurnTakes(new)
  <2>1. /\ Dst!WritePiece(FALSE) /\ dstHandle' = Dst!Moved(new)
        /\ new \in Dst!Allocatable
        /\ fat' = IF linked THEN [fat EXCEPT ![new] = Eoc, ![dstHandle.current] = new]
                        ELSE [fat EXCEPT ![new] = Eoc]
        /\ Dst!Note(~linked \/ ~Dst!Normal(new), "failed")
    BY <1>6, DstSame DEF Dst!WriteExtend
  <2>2. linked
    BY <1>1, <2>1 DEF Dst!Note
  <2>3. new \in Cluster /\ fat[new] = Free
    BY <2>1, DstSame DEF Dst!Allocatable
  <2>4. QED BY <1>3, <2>1, <2>2, <2>3 DEF TurnTakes
<1>7. CASE Dst!WriteShort
  <2>1. Dst!WritePiece(TRUE) /\ dstHandle' = Dst!Moved(dstHandle.current) /\ UNCHANGED fat
    BY <1>7 DEF Dst!WriteShort
  <2>2. QED BY <1>3, <2>1 DEF TurnKeeps
<1>8. ASSUME NEW sectors \in 0 .. (SectorsPerCluster - 1), Dst!WriteFail(sectors) PROVE FALSE
  <2>1. Dst!Note(TRUE, "failed")
    BY <1>8 DEF Dst!WriteFail
  <2>2. QED BY <1>1, <2>1 DEF Dst!Note
<1>9. QED BY <1>2, <1>4, <1>5, <1>6, <1>7, <1>8 DEF Dst!Turn

LEMMA TargetUntouched ==
    ASSUME TargetOK, UNCHANGED <<fat, before, dstHandle, dstEntry>>
    PROVE  TargetOK'
<1>1. PICK s : Row(fat, s) /\ Taken(s) /\ Held(s)
  BY DEF TargetOK
<1>2. Row(fat', s) /\ Taken(s)' /\ Held(s)'
  BY <1>1 DEF Taken, Held
<1>3. fat' \in FatType /\ before' \in FatType
  BY DEF TargetOK
<1>4. QED BY <1>2, <1>3 DEF TargetOK

\* What the calls of the source do to the target: nothing
SourceStep == UNCHANGED <<fat, data, before, target, original>> /\ IsCall(call') /\ call'.op \in {"none", "read"}

LEMMA SourceTurn ==
    ASSUME CallsOK, Turn
    PROVE  UNCHANGED <<fat, data, entry>> /\ IsCall(call') /\ call'.op \in {"none", "read"}
<1>1. IsCall(call) /\ call.op \in {"none", "read"}
  BY DEF CallsOK
<1>2. CASE ReadOne
  <2>1. PICK d, o, ends, b : call' = IF ends THEN Returned(b) ELSE [call EXCEPT !.done = d, !.out = o]
    BY <1>2 DEF ReadOne
  <2>2. UNCHANGED <<fat, data, entry>>
    BY <1>2 DEF ReadOne
  <2>3. CASE ends
    BY <2>1, <2>2, <2>3, ReturnedIs
  <2>4. CASE ~ends
    BY <1>1, <2>1, <2>2, <2>4 DEF IsCall
  <2>5. QED BY <2>3, <2>4
<1>3. CASE ReadFail
  BY <1>3, ReturnedIs DEF ReadFail
<1>4. ~ WriteLast /\ ~ WriteOn /\ ~ WriteShort
      /\ (\A new \in Cluster, linked \in BOOLEAN : ~ WriteExtend(new, linked))
      /\ (\A sectors \in 0 .. (SectorsPerCluster - 1) : ~ WriteFail(sectors))
  BY <1>1 DEF WriteLast, WriteOn, WriteShort, WriteExtend, WriteFail, WritePiece
<1>5. QED BY <1>2, <1>3, <1>4 DEF Turn

LEMMA SourceCalls ==
    ASSUME CallsOK, OpenSource \/ CreateFail \/ Read \/ Reading \/ Finish
    PROVE  SourceStep
<1>1. IsCall(call) /\ call.op \in {"none", "read"}
  BY DEF CallsOK
<1>2. CASE OpenSource
  BY <1>2, ClosedIs DEF OpenSource, Open, SourceStep, target, history
<1>3. CASE CreateFail
  BY <1>3, ClosedIs DEF CreateFail, Close, SourceStep, target, history
<1>4. CASE Read
  <2>1. call' = NoCall \/ \E n : call' = [op |-> "read", size |-> n, done |-> 0, bytes |-> <<>>, out |-> <<>>]
    BY <1>4 DEF Read, CallRead
  <2>2. IsCall(call') /\ call'.op \in {"none", "read"}
    BY <2>1, ClosedIs DEF IsCall
  <2>3. QED BY <1>4, <2>2 DEF Read, CallRead, SourceStep, target, history
<1>5. CASE Reading
  BY <1>5, SourceTurn DEF Reading, SourceStep, target, history
<1>6. CASE Finish
  BY <1>1, <1>6 DEF Finish, SourceStep, disk, source, target, history
<1>7. QED BY <1>2, <1>3, <1>4, <1>5, <1>6

LEMMA SourceKeepsTarget ==
    ASSUME TargetInv, DWell, OpenSource \/ CreateFail \/ Read \/ Reading \/ Finish
    PROVE  PhaseOK' /\ CallsOK' /\ TargetOK'
<1>1. PhaseOK /\ CallsOK /\ TargetOK
  BY DEF TargetInv
<1>2. SourceStep
  BY <1>1, SourceCalls
<1>3. /\ UNCHANGED <<fat, before, dstHandle, dstEntry, dstCall, dstExists>>
      /\ IsCall(call') /\ call'.op \in {"none", "read"}
  BY <1>2 DEF SourceStep, target
<1>4. /\ \/ pc = "open" /\ pc' = "create" /\ result' = result
         \/ pc = "create" /\ pc' = "done" /\ result' = "failed"
         \/ pc = "copy" /\ pc' = "reading" /\ result' = result
         \/ pc = "reading" /\ pc' = "reading" /\ result' = result
         \/ pc = "reading" /\ pc' = "close" /\ result' = result
  BY DEF OpenSource, CreateFail, Read, Reading, HasRead, Finish, Go
<1>5. PhaseOK'
  BY <1>1, <1>3, <1>4 DEF PhaseOK
<1>6. CallsOK'
  <2>1. dstCall.op # "write"
    BY <1>1, <1>4 DEF CallsOK
  <2>2. QED BY <1>1, <1>3, <2>1 DEF CallsOK
<1>7. TargetOK'
  BY <1>1, <1>3, TargetUntouched
<1>8. QED BY <1>5, <1>6, <1>7

LEMMA CreateKeepsTarget ==
    ASSUME TargetInv, DWell, CreateTarget \/ OpenFail
    PROVE  PhaseOK' /\ CallsOK' /\ TargetOK'
<1>1. PhaseOK /\ CallsOK /\ TargetOK
  BY DEF TargetInv
<1>2. /\ pc = "create" /\ ~dstHandle.inUse /\ dstEntry = NoFile /\ result = "none"
      /\ UNCHANGED <<fat, before, dstEntry, call, result>>
  BY <1>1 DEF PhaseOK, CreateTarget, OpenFail, Go, source, history, disk, Dst!Open
<1>3. PICK s : Row(fat, s) /\ Taken(s) /\ Held(s)
  BY <1>1 DEF TargetOK
<1>4. FirstOf(s) = 0 /\ Len(s) = 0 /\ LastOf(s) = 0
  <2>1. FirstOf(s) = 0
    BY <1>2, <1>3 DEF Held, NoFile
  <2>2. QED BY <1>3, <2>1, RowEnds DEF LastOf
<1>5. CASE CreateTarget
  <2>1. /\ pc' = "copy" /\ dstCall' = NoCall
        /\ dstHandle' = [inUse |-> TRUE, first |-> dstEntry.first, current |-> dstEntry.first,
                         position |-> 0, size |-> dstEntry.size, dirty |-> FALSE]
    BY <1>5, DstSame DEF CreateTarget, Go, Dst!Open
  <2>2. /\ dstHandle'.inUse = TRUE /\ dstHandle'.first = 0 /\ dstHandle'.current = 0
        /\ dstHandle'.dirty = FALSE /\ IsHandle(dstHandle')
    BY <1>2, <2>1 DEF NoFile, IsHandle
  <2>3. PhaseOK'
    BY <1>1, <1>2, <2>1, <2>2 DEF PhaseOK
  <2>4. CallsOK'
    BY <1>1, <1>2, <2>1, <2>2, ClosedIs DEF CallsOK
  <2>5. Row(fat', s) /\ Taken(s)' /\ Held(s)'
    BY <1>2, <1>3, <1>4, <2>2 DEF Taken, Held
  <2>6. QED BY <1>1, <1>2, <2>3, <2>4, <2>5 DEF TargetOK
<1>6. CASE OpenFail
  <2>1. pc' = "abandon" /\ UNCHANGED <<dstHandle, dstCall>>
    BY <1>6 DEF OpenFail, Go
  <2>2. PhaseOK'
    BY <1>1, <1>2, <2>1 DEF PhaseOK
  <2>3. CallsOK'
    BY <1>1, <1>2, <2>1 DEF CallsOK
  <2>4. TargetOK'
    BY <1>1, <1>2, <2>1, TargetUntouched
  <2>5. QED BY <2>2, <2>3, <2>4
<1>7. QED BY <1>5, <1>6

\* CallWrite and CallWriteFail
LEMMA WriteKeepsTarget ==
    ASSUME TargetInv, DWell, DWell', Write
    PROVE  PhaseOK' /\ CallsOK' /\ TargetOK'
<1>1. PhaseOK /\ CallsOK /\ TargetOK
  BY DEF TargetInv
<1>2. /\ pc = "reading" /\ pc' = "writing" /\ dstHandle.inUse
      /\ UNCHANGED <<call, before, dstExists, result>>
  BY <1>1 DEF PhaseOK, Write, HasRead, source, history
<1>3. PICK s : Row(fat, s) /\ Taken(s) /\ Held(s)
  BY <1>1 DEF TargetOK
<1>4. IsHandle(dstHandle) /\ dstHandle.inUse = TRUE
  BY <1>1, <1>2 DEF CallsOK
<1>5. CASE Dst!CallWriteFail
  <2>1. dstCall' = NoCall /\ UNCHANGED <<fat, dstEntry, dstHandle>>
    BY <1>5, DstSame DEF Dst!CallWriteFail
  <2>2. PhaseOK'
    BY <1>1, <1>2, <2>1 DEF PhaseOK
  <2>3. CallsOK'
    BY <1>1, <1>2, <2>1, ClosedIs DEF CallsOK
  <2>4. QED BY <1>1, <1>2, <2>1, <2>2, <2>3, TargetUntouched
<1>6. ASSUME Dst!CallWrite(call.out), dstHandle.first # 0
      PROVE  PhaseOK' /\ CallsOK' /\ TargetOK'
  <2>1. /\ dstCall' = [op |-> "write", size |-> Len(call.out), done |-> 0, bytes |-> call.out, out |-> <<>>]
        /\ UNCHANGED <<fat, dstEntry, dstHandle>>
    BY <1>6 DEF Dst!CallWrite
  <2>2. PhaseOK'
    BY <1>1, <1>2, <2>1 DEF PhaseOK
  <2>3. IsCall(dstCall') /\ dstCall'.op = "write"
    BY <2>1 DEF IsCall
  <2>4. CallsOK'
    BY <1>1, <1>2, <1>6, <2>1, <2>3 DEF CallsOK
  <2>5. QED BY <1>1, <1>2, <2>1, <2>2, <2>4, TargetUntouched
<1>7. ASSUME Dst!CallWrite(call.out), dstHandle.first = 0
      PROVE  PhaseOK' /\ CallsOK' /\ TargetOK'
  <2>1. PICK new \in Dst!Allocatable :
          /\ fat' = [fat EXCEPT ![new] = Eoc]
          /\ dstHandle' = [dstHandle EXCEPT !.first = new, !.current = new, !.dirty = TRUE]
    BY <1>7, DstSame DEF Dst!CallWrite
  <2>2. new \in Cluster /\ fat[new] = Free
    BY DstSame DEF Dst!Allocatable
  <2>3. /\ dstCall' = [op |-> "write", size |-> Len(call.out), done |-> 0, bytes |-> call.out, out |-> <<>>]
        /\ UNCHANGED dstEntry
    BY <1>7 DEF Dst!CallWrite
  <2>4. IsCall(dstCall') /\ dstCall'.op = "write"
    BY <2>3 DEF IsCall
  <2>5. /\ IsHandle(dstHandle') /\ dstHandle'.inUse = TRUE /\ dstHandle'.first = new
        /\ dstHandle'.current = new /\ dstHandle'.dirty = TRUE
    BY <1>4, <2>1 DEF IsHandle
  <2>6. fat \in FatType /\ before \in FatType /\ fat' \in FatType
    BY <1>1, <2>1, <2>2 DEF TargetOK, FatType
  <2>7. Len(s) = 0
    BY <1>3, <1>4, <1>7, RowEnds DEF Held
  <2>8. PICK t : t = <<new>>
    OBVIOUS
  <2>9. Row(fat', t) /\ Len(t) = 1 /\ FirstOf(t) = new /\ LastOf(t) = new /\ t[1] = new
    BY <2>1, <2>2, <2>6, <2>8, RowBegins
  <2>10. \A c \in Cluster : fat[c] = before[c]
    BY <1>3, <2>7 DEF Taken
  <2>11. Taken(t)'
    <3>1. \A c \in Cluster : c # new => fat'[c] = fat[c]
      BY <2>1, <2>6 DEF FatType
    <3>2. before' = before
      BY <1>2
    <3>3. \A i \in 1 .. Len(t) : i = 1
      BY <2>9
    <3>4. 1 \in 1 .. Len(t)
      BY <2>9
    <3>5. QED BY <2>2, <2>9, <2>10, <3>1, <3>2, <3>3, <3>4 DEF Taken
  <2>12. Held(t)'
    BY <1>3, <1>4, <2>3, <2>5, <2>9 DEF Held
  <2>13. PhaseOK'
    BY <1>1, <1>2, <2>3, <2>5 DEF PhaseOK
  <2>14. CallsOK'
    BY <1>1, <1>2, <2>2, <2>4, <2>5, Marks DEF CallsOK
  <2>15. before' \in FatType
    BY <1>2, <2>6
  <2>16. QED BY <2>6, <2>9, <2>11, <2>12, <2>13, <2>14, <2>15 DEF TargetOK
<1>8. QED BY <1>5, <1>6, <1>7 DEF Write

LEMMA TurnKeepsTarget ==
    ASSUME TargetInv, DWell, DWell', Writing
    PROVE  PhaseOK' /\ CallsOK' /\ TargetOK'
<1>1. PhaseOK /\ CallsOK /\ TargetOK
  BY DEF TargetInv
<1>2. /\ pc = "writing" /\ pc' = "writing" /\ dstHandle.inUse = TRUE /\ Dst!Turn
      /\ UNCHANGED <<call, before, dstExists, result>>
  BY <1>1 DEF PhaseOK, CallsOK, Writing, source, history
<1>3. PICK s : Row(fat, s) /\ Taken(s) /\ Held(s)
  BY <1>1 DEF TargetOK
<1>4. dstCall.op = "write"
  BY <1>1, <1>2 DEF CallsOK, Dst!Turn, Dst!ReadOne, Dst!ReadFail, Dst!WriteLast, Dst!WriteOn, Dst!WriteShort,
                    Dst!WriteExtend, Dst!WriteFail, Dst!WritePiece
<1>5. Len(s) > 0 /\ dstHandle.first = FirstOf(s) /\ dstHandle.current = LastOf(s) /\ dstHandle.dirty = TRUE
      /\ dstEntry = NoFile
  <2>1. dstHandle.first # 0
    BY <1>1, <1>4 DEF CallsOK
  <2>2. Len(s) \in Nat /\ Len(s) # 0
    BY <1>2, <1>3, <2>1, RowEnds DEF Held
  <2>3. QED BY <1>2, <1>3, <2>2 DEF Held
<1>6. LastOf(s) \in Cluster /\ fat[dstHandle.current] = Eoc
  BY <1>3, <1>5, RowEnds
<1>7. /\ IsCall(dstCall') /\ dstCall'.op \in {"none", "write"}
      /\ IsHandle(dstHandle') /\ dstHandle'.inUse = TRUE /\ dstHandle'.first = dstHandle.first
      /\ dstHandle'.dirty = TRUE
      /\ UNCHANGED dstEntry
      /\ TurnKeeps \/ \E new \in Cluster : TurnTakes(new)
  BY <1>1, <1>2, <1>5, <1>6, DstTurnDoes
<1>8. PhaseOK'
  BY <1>1, <1>2, <1>7 DEF PhaseOK
<1>9. CallsOK'
  <2>1. dstHandle.first # 0
    BY <1>1, <1>4 DEF CallsOK
  <2>2. QED BY <1>1, <1>2, <1>7, <2>1 DEF CallsOK
<1>10. CASE TurnKeeps
  <2>1. Row(fat', s) /\ Taken(s)'
    BY <1>2, <1>3, <1>10 DEF TurnKeeps, Taken
  <2>2. Held(s)'
    BY <1>5, <1>7, <1>10 DEF TurnKeeps, Held
  <2>3. fat' \in FatType /\ before' \in FatType
    BY <1>1, <1>2, <1>10 DEF TargetOK, TurnKeeps
  <2>4. QED BY <1>8, <1>9, <2>1, <2>2, <2>3 DEF TargetOK
<1>11. ASSUME NEW new \in Cluster, TurnTakes(new) PROVE TargetOK'
  <2>1. /\ fat[new] = Free /\ fat' = [fat EXCEPT ![new] = Eoc, ![LastOf(s)] = new]
        /\ dstHandle'.current = new
    BY <1>5, <1>11 DEF TurnTakes
  <2>2. fat \in FatType /\ before \in FatType /\ before' = before
    BY <1>1, <1>2 DEF TargetOK
  <2>3. fat' \in FatType
    BY <1>6, <2>1, <2>2 DEF FatType
  <2>4. PICK t : t = Append(s, new)
    OBVIOUS
  <2>5. /\ Row(fat', t)
        /\ Len(t) = Len(s) + 1 /\ FirstOf(t) = FirstOf(s) /\ LastOf(t) = new
        /\ \A i \in 1 .. Len(s) : t[i] = s[i]
        /\ t[Len(s) + 1] = new
    <3>1. PICK g : g = fat'
      OBVIOUS
    <3>2. Row(fat, s) /\ fat \in FatType /\ Len(s) > 0 /\ fat[new] = Free
      BY <1>3, <1>5, <2>1, <2>2
    <3>3. Longer(fat, s, new, g, t)
      BY <2>1, <2>4, <3>1 DEF Longer
    <3>4. /\ Row(g, t)
          /\ Len(t) = Len(s) + 1 /\ FirstOf(t) = FirstOf(s) /\ LastOf(t) = new
          /\ \A i \in 1 .. Len(s) : t[i] = s[i]
          /\ t[Len(s) + 1] = new
      BY <3>2, <3>3, RowGrows
    <3>5. QED BY <3>1, <3>4
  <2>6. PICK n \in Nat \ {0} : n = Len(s)
    BY <1>3, <1>5, RowEnds
  <2>7. s[n] = LastOf(s) /\ n \in 1 .. n
    BY <2>6 DEF LastOf
  <2>8. \A i \in 1 .. n : s[i] # new
    <3> SUFFICES ASSUME NEW i \in 1 .. n, s[i] = new PROVE FALSE
      OBVIOUS
    <3>1. fat[s[i]] = IF i = n THEN Eoc ELSE s[i + 1]
      BY <1>3, <2>6 DEF Row
    <3>2. i # n => i + 1 \in 1 .. n
      OBVIOUS
    <3>3. \A j \in 1 .. n : s[j] \in Cluster
      BY <1>3, <2>6, ElementOfSeq DEF Row
    <3>4. QED BY <2>1, <3>1, <3>2, <3>3, Marks
  <2>9. before[new] = Free
    BY <1>3, <2>1, <2>6, <2>8 DEF Taken
  <2>10. Taken(t)'
    <3>1. ASSUME NEW i \in 1 .. Len(t) PROVE before'[t[i]] = Free
      <4>1. i \in 1 .. n \/ i = n + 1
        BY <2>5, <2>6
      <4>2. QED BY <1>3, <2>2, <2>5, <2>6, <2>9, <4>1 DEF Taken
    <3>2. ASSUME NEW c \in Cluster, \A i \in 1 .. Len(t) : t[i] # c PROVE fat'[c] = before'[c]
      <4>1. \A i \in 1 .. n : i \in 1 .. Len(t)
        BY <2>5, <2>6
      <4>2. n + 1 \in 1 .. Len(t)
        BY <2>5, <2>6
      <4>3. \A i \in 1 .. n : s[i] # c
        BY <2>5, <2>6, <3>2, <4>1
      <4>4. c # new
        BY <2>5, <2>6, <3>2, <4>2
      <4>5. c # LastOf(s)
        BY <2>7, <4>3
      <4>6. fat[c] = before[c]
        BY <1>3, <2>6, <4>3 DEF Taken
      <4>7. fat'[c] = fat[c]
        BY <2>1, <2>2, <4>4, <4>5 DEF FatType
      <4>8. QED BY <2>2, <4>6, <4>7
    <3>3. QED BY <3>1, <3>2 DEF Taken
  <2>11. Held(t)'
    <3>1. Len(t) # 0
      BY <2>5, <2>6
    <3>2. QED BY <1>5, <1>7, <2>1, <2>5, <3>1 DEF Held
  <2>12. before' \in FatType
    BY <2>2
  <2>13. QED BY <2>3, <2>5, <2>10, <2>11, <2>12 DEF TargetOK
<1>12. QED BY <1>7, <1>8, <1>9, <1>10, <1>11

LEMMA CloseKeepsTarget ==
    ASSUME TargetInv, DWell, DWell', NEW told \in BOOLEAN, Dst!Close(told), dstHandle.inUse,
           UNCHANGED before
    PROVE  /\ TargetOK' /\ IsHandle(dstHandle') /\ dstHandle'.inUse = FALSE
           /\ dstCall'.op = "none" /\ IsCall(dstCall')
           /\ dstEntry' = IF dstHandle.dirty THEN [first |-> dstHandle.first, size |-> dstHandle.size]
                                             ELSE NoFile
<1>1. PhaseOK /\ CallsOK /\ TargetOK
  BY DEF TargetInv
<1>2. /\ dstHandle' = Closed /\ dstCall' = NoCall /\ fat' = fat
      /\ dstEntry' = IF dstHandle.dirty /\ told THEN [first |-> dstHandle.first, size |-> dstHandle.size]
                                                ELSE dstEntry
      /\ Dst!Resettle(dstHandle.dirty /\ ~told)
  BY DstSame DEF Dst!Close
<1>3. dstHandle.dirty => told
  BY <1>2 DEF Dst!Resettle, DWell
<1>4. PICK s : Row(fat, s) /\ Taken(s) /\ Held(s)
  BY <1>1 DEF TargetOK
<1>5. /\ dstHandle.first = FirstOf(s) /\ dstEntry = NoFile
      /\ Len(s) = 0 => dstHandle.dirty = FALSE
      /\ Len(s) # 0 => dstHandle.dirty = TRUE
  BY <1>4 DEF Held
<1>6. /\ dstEntry' = IF dstHandle.dirty THEN [first |-> dstHandle.first, size |-> dstHandle.size]
                                        ELSE NoFile
      /\ IsHandle(dstHandle') /\ dstHandle'.inUse = FALSE /\ dstCall'.op = "none" /\ IsCall(dstCall')
  BY <1>2, <1>3, <1>5, ClosedIs
<1>7. dstEntry'.first = FirstOf(s)
  BY <1>4, <1>5, <1>6, RowEnds DEF NoFile
<1>8. Row(fat', s) /\ Taken(s)' /\ Held(s)'
  BY <1>2, <1>4, <1>6, <1>7 DEF Taken, Held
<1>9. fat' \in FatType /\ before' \in FatType
  BY <1>1, <1>2 DEF TargetOK
<1>10. QED BY <1>6, <1>8, <1>9 DEF TargetOK

LEMMA EndKeepsTarget ==
    ASSUME TargetInv, DWell, DWell', NEW told \in BOOLEAN, CloseTarget(told) \/ AbandonTarget(told)
    PROVE  PhaseOK' /\ CallsOK' /\ TargetOK'
<1>1. PhaseOK /\ CallsOK /\ TargetOK
  BY DEF TargetInv
<1>2. /\ UNCHANGED <<before, dstExists>> /\ call' = NoCall
      /\ \/ pc = "close" /\ pc' = "done" /\ result' = "copied" /\ Dst!Close(told)
         \/ pc = "abandon" /\ pc' = "delete" /\ result' = result
            /\ IF dstHandle.inUse THEN Dst!Close(told)
                                  ELSE UNCHANGED <<fat, dstEntry, dstHandle, dstCall>>
  BY DEF CloseTarget, AbandonTarget, Go, history, disk
<1>3. IsCall(call') /\ call'.op = "none"
  BY <1>2, ClosedIs
<1>4. CASE Dst!Close(told) /\ dstHandle.inUse
  <2>1. /\ TargetOK' /\ IsHandle(dstHandle') /\ dstHandle'.inUse = FALSE
        /\ dstCall'.op = "none" /\ IsCall(dstCall')
    BY <1>2, <1>4, CloseKeepsTarget
  <2>2. CallsOK'
    BY <1>3, <2>1 DEF CallsOK
  <2>3. PhaseOK'
    BY <1>1, <1>2, <2>1 DEF PhaseOK
  <2>4. QED BY <2>1, <2>2, <2>3
<1>5. CASE ~dstHandle.inUse
  <2>1. pc = "abandon"
    BY <1>1, <1>2, <1>5 DEF PhaseOK
  <2>2. pc' = "delete" /\ UNCHANGED <<fat, before, dstEntry, dstHandle, dstCall, dstExists, result>>
    BY <1>2, <1>5, <2>1
  <2>3. TargetOK'
    BY <1>1, <2>2, TargetUntouched
  <2>4. dstCall.op # "write"
    BY <1>1, <2>1 DEF CallsOK
  <2>5. CallsOK'
    BY <1>1, <1>3, <2>2, <2>4 DEF CallsOK
  <2>6. PhaseOK'
    BY <1>1, <1>5, <2>1, <2>2 DEF PhaseOK
  <2>7. QED BY <2>3, <2>5, <2>6
<1>6. Dst!Close(told) \/ ~dstHandle.inUse
  BY <1>2
<1>7. QED BY <1>4, <1>5, <1>6

LEMMA WrittenKeepsTarget ==
    ASSUME TargetInv, DWell, Written
    PROVE  PhaseOK' /\ CallsOK' /\ TargetOK'
<1>1. PhaseOK /\ CallsOK /\ TargetOK
  BY DEF TargetInv
<1>2. /\ pc = "writing" /\ pc' \in {"copy", "abandon"} /\ dstCall.op = "none"
      /\ UNCHANGED <<fat, before, dstEntry, dstHandle, dstCall, dstExists, call, result>>
  BY DEF Written, disk, source, target, history
<1>3. TargetOK'
  BY <1>1, <1>2, TargetUntouched
<1>4. CallsOK'
  BY <1>1, <1>2 DEF CallsOK
<1>5. PhaseOK'
  BY <1>1, <1>2 DEF PhaseOK
<1>6. QED BY <1>3, <1>4, <1>5

LEMMA DeleteKeepsTarget ==
    ASSUME TargetInv, DWell, DeleteTarget
    PROVE  PhaseOK' /\ CallsOK' /\ TargetOK'
<1>1. PhaseOK /\ CallsOK /\ TargetOK
  BY DEF TargetInv
<1>2. /\ pc = "delete" /\ pc' = "done" /\ dstEntry' = NoFile /\ dstExists' = FALSE /\ result' = "failed"
      /\ fat' = [c \in Cluster |-> IF c \in ChainOf(dstEntry.first) THEN Free ELSE fat[c]]
      /\ UNCHANGED <<before, dstHandle, dstCall, call>>
  BY DEF DeleteTarget, Go, source, history
<1>3. PICK s : Row(fat, s) /\ Taken(s) /\ Held(s)
  BY <1>1 DEF TargetOK
<1>4. ~dstHandle.inUse /\ dstHandle.inUse = FALSE
  BY <1>1, <1>2 DEF PhaseOK, CallsOK
<1>5. ChainOf(dstEntry.first) = {s[i] : i \in 1 .. Len(s)}
  BY <1>3, <1>4, ChainOfRow DEF Held
<1>6. fat \in FatType /\ before \in FatType
  BY <1>1 DEF TargetOK
<1>7. ASSUME NEW c \in Cluster PROVE fat'[c] = before[c]
  <2>1. CASE c \in {s[i] : i \in 1 .. Len(s)}
    BY <1>2, <1>3, <1>5, <2>1 DEF Taken
  <2>2. CASE c \notin {s[i] : i \in 1 .. Len(s)}
    BY <1>2, <1>3, <1>5, <2>2 DEF Taken
  <2>3. QED BY <2>1, <2>2
<1>8. fat' = before
  BY <1>2, <1>6, <1>7 DEF FatType
<1>9. PICK t : t = <<>>
  OBVIOUS
<1>10. Row(fat', t) /\ FirstOf(t) = 0 /\ Len(t) = 0
  BY <1>9, EmptyRow
<1>11. Taken(t)'
  BY <1>2, <1>7, <1>10 DEF Taken
<1>12. Held(t)'
  BY <1>2, <1>4, <1>10 DEF Held, NoFile
<1>13. TargetOK'
  BY <1>2, <1>6, <1>8, <1>10, <1>11, <1>12 DEF TargetOK
<1>14. PhaseOK'
  BY <1>2, <1>4 DEF PhaseOK
<1>15. CallsOK'
  BY <1>1, <1>2 DEF CallsOK
<1>16. QED BY <1>13, <1>14, <1>15

\* What has gone wrong is not forgotten.
LEMMA DstTroubleGrows ==
    ASSUME [CopyNext]_copyVars, DWell'
    PROVE  DWell
<1>1. "failed" \in dstTrouble => "failed" \in dstTrouble'
  <2>1. CASE OpenSource \/ CreateFail \/ OpenFail \/ Read \/ Reading \/ Finish \/ Written \/ DeleteTarget \/ Done
    BY <2>1 DEF OpenSource, CreateFail, OpenFail, Read, Reading, Finish, Written, DeleteTarget, Done,
                target, copyVars
  <2>2. CASE CreateTarget
    BY <2>2 DEF CreateTarget, Dst!Open
  <2>3. CASE Write
    BY <2>3 DEF Write, Dst!CallWrite, Dst!CallWriteFail, Dst!Note, Dst!NoteNoCluster
  <2>4. CASE Writing
    BY <2>4 DEF Writing, Dst!Turn, Dst!ReadOne, Dst!ReadFail, Dst!WriteLast, Dst!WriteOn, Dst!WriteExtend,
                Dst!WriteShort, Dst!WriteFail, Dst!Note, Dst!NoteNoCluster
  <2>5. ASSUME NEW told \in BOOLEAN, CloseTarget(told) \/ AbandonTarget(told)
        PROVE  "failed" \in dstTrouble => "failed" \in dstTrouble'
    BY <2>5 DEF CloseTarget, AbandonTarget, Dst!Close, Dst!Resettle
  <2>6. ASSUME NEW freed, DeleteFail(freed)
        PROVE  "failed" \in dstTrouble => "failed" \in dstTrouble'
    BY <2>6 DEF DeleteFail
  <2>7. CASE UNCHANGED copyVars
    BY <2>7 DEF copyVars, target
  <2>8. QED BY <2>1, <2>2, <2>3, <2>4, <2>5, <2>6, <2>7 DEF CopyNext
<1>2. QED BY <1>1 DEF DWell

LEMMA TargetStep == ASSUME TargetInv, [CopyNext]_copyVars PROVE TargetInv'
<1>1. SUFFICES ASSUME DWell' PROVE PhaseOK' /\ CallsOK' /\ TargetOK'
  BY DEF TargetInv
<1>2. DWell
  BY <1>1, DstTroubleGrows
<1>3. CASE OpenSource \/ CreateFail \/ Read \/ Reading \/ Finish
  BY <1>2, <1>3, SourceKeepsTarget
<1>4. CASE CreateTarget \/ OpenFail
  BY <1>2, <1>4, CreateKeepsTarget
<1>5. CASE Write
  BY <1>1, <1>2, <1>5, WriteKeepsTarget
<1>6. CASE Writing
  BY <1>1, <1>2, <1>6, TurnKeepsTarget
<1>7. CASE Written
  BY <1>2, <1>7, WrittenKeepsTarget
<1>8. ASSUME NEW told \in BOOLEAN, CloseTarget(told) \/ AbandonTarget(told)
      PROVE  PhaseOK' /\ CallsOK' /\ TargetOK'
  BY <1>1, <1>2, <1>8, EndKeepsTarget
<1>9. CASE DeleteTarget
  BY <1>2, <1>9, DeleteKeepsTarget
<1>10. ASSUME NEW freed, DeleteFail(freed) PROVE FALSE
  BY <1>1, <1>10 DEF DeleteFail, DWell
<1>11. CASE UNCHANGED copyVars
  <2>1. PhaseOK /\ CallsOK /\ TargetOK
    BY <1>2 DEF TargetInv
  <2>2. UNCHANGED <<fat, before, dstHandle, dstEntry, dstCall, dstExists, call, pc, result>>
    BY <1>11 DEF copyVars, disk, source, target, history
  <2>3. QED BY <2>1, <2>2, TargetUntouched DEF PhaseOK, CallsOK
<1>12. QED BY <1>3, <1>4, <1>5, <1>6, <1>7, <1>8, <1>9, <1>10, <1>11 DEF CopyNext, Done

LEMMA TargetBegins == ASSUME CopyInit PROVE TargetInv
<1>1. TypeOK /\ call = NoCall
  BY InitIInv DEF CopyInit, IInv, Init
<1>2. /\ dstEntry = NoFile /\ dstHandle = Closed /\ dstCall = NoCall /\ dstExists = FALSE
      /\ pc = "open" /\ result = "none" /\ before = fat
  BY DEF CopyInit
<1>3. PhaseOK
  BY <1>2, ClosedIs DEF PhaseOK
<1>4. CallsOK
  BY <1>1, <1>2, ClosedIs DEF CallsOK
<1>5. PICK t : t = <<>>
  OBVIOUS
<1>6. Row(fat, t) /\ FirstOf(t) = 0 /\ Len(t) = 0
  BY <1>5, EmptyRow
<1>7. Taken(t) /\ Held(t)
  BY <1>2, <1>6, ClosedIs DEF Taken, Held, NoFile
<1>8. fat \in FatType
  BY <1>1 DEF TypeOK, FatType
<1>9. QED BY <1>2, <1>3, <1>4, <1>6, <1>7, <1>8 DEF TargetInv, TargetOK

LEMMA TargetAlways == CopySpec => []TargetInv
<1>1. CopyInit => TargetInv
  BY TargetBegins
<1>2. TargetInv /\ [CopyNext]_copyVars => TargetInv'
  BY TargetStep
<1>3. QED BY <1>1, <1>2, PTL DEF CopySpec

\* A copy that fails with no transfer failing, for want of room on the disk or of
\* a handle, gives back what it took: what was written to the target is one chain,
\* and all of it is reached from the entry that is deleted.
THEOREM FailedCopiesLeaveNothing == CopySpec => []FailedCopyLeavesNothing
<1>1. ASSUME TargetInv PROVE FailedCopyLeavesNothing
  <2>1. SUFFICES ASSUME result = "failed", DWell PROVE fat = before /\ ~dstExists
    BY DEF FailedCopyLeavesNothing, DWell
  <2>2. PhaseOK /\ TargetOK
    BY <1>1, <2>1 DEF TargetInv
  <2>3. dstEntry = NoFile /\ ~dstExists /\ ~dstHandle.inUse
    BY <2>1, <2>2 DEF PhaseOK
  <2>4. PICK s : Row(fat, s) /\ Taken(s) /\ Held(s)
    BY <2>2 DEF TargetOK
  <2>5. Len(s) = 0
    BY <2>3, <2>4, RowEnds DEF Held, NoFile
  <2>6. fat = before
    BY <2>2, <2>4, <2>5 DEF TargetOK, FatType, Taken
  <2>7. QED BY <2>3, <2>6
<1>2. QED BY <1>1, TargetAlways, PTL

-----------------------------------------------------------------------------
(* A copy: the bytes of a source of one cluster                              *)

Small == Len(original) =< ClusterSize

\* The source is what it was, in a cluster that the copy does not take.
Origin ==
    /\ Len(original) \in Nat /\ original \in Seq(Byte \cup {Lost}) /\ entry.size = Len(original)
    /\ entry.size > 0 => entry.first \in Cluster /\ before[entry.first] # Free
    /\ \A i \in 1 .. Len(original) : original[i] = data[entry.first][i - 1]
    /\ DOMAIN data = Place

\* The first k bytes of the source are in cluster c.
Copied(c, k) ==
    /\ k \in 0 .. Len(original)
    /\ k > 0 => c \in Cluster
    /\ \A i \in 1 .. k : data[c][i - 1] = original[i]

\* The bytes b come after the first k of the source.
Follows(b, n, k) == k + n =< Len(original) /\ \A i \in 1 .. n : b[i] = original[k + i]

Reader ==
    /\ IsHandle(handle)
    /\ handle.first = entry.first /\ handle.current = entry.first
    /\ handle.size = entry.size /\ handle.dirty = FALSE
    /\ handle.position \in 0 .. Len(original)

Writer ==
    /\ dstHandle.size = dstHandle.position
    /\ dstHandle.current = dstHandle.first
    /\ Copied(dstHandle.first, dstHandle.position)

\* All has been read, or a transfer failed.
ReadOut == handle.position = Len(original) \/ "failed" \in trouble

InRead ==
    /\ dstHandle.position = handle.position
    /\ call.done = 0 /\ call.out = <<>>
    /\ call.size \in 1 .. (Len(original) - handle.position)

HasCarried ==
    /\ call.out \in Seq(Byte \cup {Lost})
    /\ dstHandle.position + Len(call.out) = handle.position
    /\ Follows(call.out, Len(call.out), dstHandle.position)
    /\ call.out = <<>> => ReadOut

InWrite ==
    /\ dstCall.done = 0 /\ dstCall.size \in Nat \ {0}
    /\ dstHandle.position + dstCall.size = goal
    /\ Follows(dstCall.bytes, dstCall.size, dstHandle.position)

CopyOK ==
    /\ Origin
    /\ pc \in {"create", "copy", "reading", "writing", "close"} => Reader
    /\ pc \in {"copy", "reading", "writing", "close"} => Writer
    /\ pc = "create" => handle.position = 0
    /\ pc \in {"create", "copy", "writing"} => call.op = "none"
    /\ pc = "copy" => dstHandle.position = handle.position
    /\ pc = "reading" => IF call.op = "read" THEN InRead ELSE HasCarried
    /\ pc = "writing" => /\ goal = handle.position
                         /\ dstCall.op = "write" => InWrite
    /\ pc = "close" => dstHandle.position = handle.position /\ ReadOut
    /\ result = "copied" => /\ Copied(dstEntry.first, dstEntry.size)
                            /\ "failed" \notin trouble => dstEntry.size = Len(original)

CopyInv == DWell /\ Small => CopyOK

\* What the bytes of a file of one cluster are
LEMMA SmallContent ==
    ASSUME NEW first, NEW n \in Nat, n =< ClusterSize, n > 0 => first \in Cluster
    PROVE  Content(first, n) = [i \in 1 .. n |-> data[first][i - 1]]
<1>1. ASSUME NEW i \in 1 .. n
      PROVE  ChainAt(first, (i - 1) \div ClusterSize) = first /\ (i - 1) % ClusterSize = i - 1 /\ first \in Cluster
  <2>1. i - 1 \in Offset
    BY ClusterSizePositive DEF Offset
  <2>2. (i - 1) \div ClusterSize = 0 /\ (i - 1) % ClusterSize = i - 1
    BY <2>1, FirstSplit
  <2>3. QED BY <2>2, ChainFirst DEF ChainAt
<1>2. QED BY <1>1 DEF Content, At

LEMMA CopyBegins == ASSUME CopyInit PROVE CopyInv
<1>1. IInv /\ Init
  BY InitIInv DEF CopyInit
<1>2. handle = Closed /\ call = NoCall /\ handle.inUse = FALSE /\ handle.position = 0 /\ call.op = "none"
  BY <1>1, ClosedType, NoCallType DEF Init
<1>3. First = entry.first /\ Size = entry.size /\ original = Bytes
  BY <1>2 DEF First, Size, Bytes, CopyInit
<1>4. /\ entry.size \in Nat /\ entry.first \in Cluster \cup {0}
      /\ fat \in FatType /\ DOMAIN data = Place
  BY <1>1, <1>2, Fields DEF IInv, TypeOK, FatType
<1>5. original \in Seq(Byte \cup {Lost}) /\ Len(original) = entry.size
  BY <1>1, <1>3, BytesAre DEF IInv, IsFile
<1>6. entry.size > 0 => entry.first \in Cluster /\ before[entry.first] # Free
  <2>1. before = fat
    BY DEF CopyInit
  <2>2. QED BY <1>1, <1>3, <2>1 DEF IInv, FileOK, Begins
<1>7. ASSUME Small, NEW i \in 1 .. Len(original) PROVE original[i] = data[entry.first][i - 1]
  <2>1. original = Content(entry.first, entry.size)
    BY DEF CopyInit
  <2>2. Content(entry.first, entry.size) = [j \in 1 .. entry.size |-> data[entry.first][j - 1]]
    BY <1>4, <1>5, <1>6, <1>7, SmallContent DEF Small
  <2>3. QED BY <1>5, <2>1, <2>2
<1>8. pc = "open" /\ result = "none"
  BY DEF CopyInit
<1>9. QED BY <1>2, <1>4, <1>5, <1>6, <1>7, <1>8 DEF CopyInv, CopyOK, Origin

LEMMA OriginStays ==
    ASSUME Origin, UNCHANGED <<original, before, entry, data>>
    PROVE  Origin'
  BY DEF Origin

LEMMA OpenCopies ==
    ASSUME CopyOK, OpenSource
    PROVE  CopyOK'
<1>1. /\ pc' = "create" /\ call' = NoCall /\ UNCHANGED <<fat, data, entry, trouble, target, result, original, before>>
      /\ handle' = [inUse |-> TRUE, first |-> entry.first, current |-> entry.first,
                    position |-> 0, size |-> entry.size, dirty |-> FALSE]
  BY DEF OpenSource, Go, Open, history
<1>2. Origin' /\ Len(original') \in Nat
  BY <1>1, OriginStays DEF CopyOK, Origin
<1>3. Reader'
  <2>1. /\ IsHandle(handle') /\ handle'.first = entry.first /\ handle'.current = entry.first
        /\ handle'.size = entry.size /\ handle'.dirty = FALSE /\ handle'.position = 0
    BY <1>1 DEF IsHandle
  <2>2. QED BY <1>1, <1>2, <2>1 DEF Reader
<1>4. call'.op = "none" /\ handle'.position = 0
  BY <1>1, NoCallType
<1>5. result' # "copied" \/ /\ Copied(dstEntry.first, dstEntry.size)'
                            /\ "failed" \notin trouble' => dstEntry'.size = Len(original')
  BY <1>1 DEF CopyOK, Copied, target
<1>6. QED BY <1>1, <1>2, <1>3, <1>4, <1>5 DEF CopyOK

LEMMA CreateCopies ==
    ASSUME CopyOK, PhaseOK, CreateTarget \/ OpenFail \/ CreateFail
    PROVE  CopyOK'
<1>1. pc = "create" /\ dstEntry = NoFile /\ result = "none"
  BY DEF CreateTarget, OpenFail, CreateFail, Go, PhaseOK
<1>2. Origin /\ Reader /\ handle.position = 0 /\ call.op = "none"
  BY <1>1 DEF CopyOK
<1>3. CASE CreateTarget
  <2>1. /\ pc' = "copy" /\ UNCHANGED <<fat, data, entry, handle, call, trouble, result, original, before>>
        /\ dstHandle' = [inUse |-> TRUE, first |-> dstEntry.first, current |-> dstEntry.first,
                         position |-> 0, size |-> dstEntry.size, dirty |-> FALSE]
    BY <1>3 DEF CreateTarget, Go, Dst!Open, source, history
  <2>2. Origin' /\ Reader' /\ Len(original') \in Nat
    BY <1>2, <2>1, OriginStays DEF Reader, Origin
  <2>3. dstHandle'.first = 0 /\ dstHandle'.current = 0 /\ dstHandle'.position = 0 /\ dstHandle'.size = 0
    BY <1>1, <2>1 DEF NoFile
  <2>4. Writer'
    BY <2>2, <2>3 DEF Writer, Copied
  <2>5. QED BY <1>1, <1>2, <2>1, <2>2, <2>3, <2>4 DEF CopyOK
<1>4. CASE OpenFail
  <2>1. pc' = "abandon" /\ UNCHANGED <<data, entry, result, original, before>>
    BY <1>4 DEF OpenFail, Go, disk, source, history
  <2>2. QED BY <1>1, <1>2, <2>1, OriginStays DEF CopyOK
<1>5. CASE CreateFail
  <2>1. pc' = "done" /\ result' = "failed" /\ UNCHANGED <<data, entry, original, before>>
    BY <1>2, <1>5 DEF CreateFail, Go, Close, Reader, history
  <2>2. QED BY <1>2, <2>1, OriginStays DEF CopyOK
<1>6. QED BY <1>3, <1>4, <1>5

LEMMA ReadCopies ==
    ASSUME CopyOK, PhaseOK, Read
    PROVE  CopyOK'
<1>1. /\ pc = "copy" /\ pc' = "reading" /\ result = "none" /\ CallRead(BufferSize)
      /\ "failed" \in trouble' <=> "failed" \in trouble
      /\ UNCHANGED <<data, entry, handle, dstHandle, result, original, before>>
  BY DEF Read, Go, PhaseOK, CallRead, Note, target, history
<1>2. Origin /\ Reader /\ Writer /\ dstHandle.position = handle.position
  BY <1>1 DEF CopyOK
<1>3. PICK n \in Nat, p \in Nat : n = Len(original) /\ p = handle.position /\ handle.size = n /\ p =< n
  BY <1>2 DEF Origin, Reader
<1>4. Origin' /\ Reader' /\ Writer'
  BY <1>1, <1>2, OriginStays DEF Reader, Writer, Copied
<1>5. CASE p >= n
  <2>1. call' = NoCall /\ call'.op = "none" /\ call'.out = <<>>
    BY <1>1, <1>3, <1>5, NoCallType DEF CallRead
  <2>2. handle'.position = Len(original)
    BY <1>1, <1>3, <1>5
  <2>3. Len(<<>>) = 0 /\ <<>> \in Seq(Byte \cup {Lost})
    OBVIOUS
  <2>4. HasCarried'
    BY <1>1, <1>2, <1>3, <2>1, <2>2, <2>3 DEF HasCarried, Follows, ReadOut
  <2>5. QED BY <1>1, <1>4, <2>1, <2>4 DEF CopyOK
<1>6. CASE ~ (p >= n)
  <2>1. call' = [op |-> "read", size |-> Min({BufferSize, n - p}), done |-> 0, bytes |-> <<>>, out |-> <<>>]
    BY <1>1, <1>3, <1>6 DEF CallRead
  <2>2. Min({BufferSize, n - p}) \in 1 .. (n - p)
    <3>1. BufferSize \in Int /\ BufferSize >= 1 /\ n - p \in Int /\ n - p >= 1
      BY <1>6, BufferAssumption, GeometryAssumption
    <3>2. QED BY <3>1, SmallerOf
  <2>3. call'.op = "read" /\ call'.done = 0 /\ call'.out = <<>> /\ call'.size \in 1 .. (n - p)
    BY <2>1, <2>2
  <2>4. InRead'
    BY <1>1, <1>2, <1>3, <2>3 DEF InRead
  <2>5. QED BY <1>1, <1>4, <2>3, <2>4 DEF CopyOK
<1>7. QED BY <1>5, <1>6

\* A position in the first cluster, and a piece that is all there is left
LEMMA PieceOfSmall ==
    ASSUME NEW p \in Nat, NEW k \in Nat \ {0}, p + k =< ClusterSize
    PROVE  p % ClusterSize = p /\ k =< ClusterSize - p /\ ClusterSize - p \in Int
<1>1. p \in Offset
  BY ClusterSizePositive DEF Offset
<1>2. p % ClusterSize = p
  BY <1>1, FirstSplit
<1>3. QED BY <1>2, ClusterSizePositive

LEMMA ReadingCopies ==
    ASSUME CopyOK, PhaseOK, CallsOK, Small, Reading
    PROVE  CopyOK'
<1>1. /\ pc = "reading" /\ pc' = "reading" /\ result = "none" /\ Turn
      /\ UNCHANGED <<data, entry, dstHandle, result, original, before>>
  BY SourceTurn DEF Reading, PhaseOK, target, history
<1>2. call.op = "read" /\ (ReadOne \/ ReadFail)
  <2>1. call.op \in {"none", "read"}
    BY DEF CallsOK
  <2>2. ~ WriteLast /\ ~ WriteOn /\ ~ WriteShort
        /\ (\A new \in Cluster, linked \in BOOLEAN : ~ WriteExtend(new, linked))
        /\ (\A sectors \in 0 .. (SectorsPerCluster - 1) : ~ WriteFail(sectors))
    BY <2>1 DEF WriteLast, WriteOn, WriteShort, WriteExtend, WriteFail, WritePiece
  <2>3. ReadOne \/ ReadFail
    BY <1>1, <2>2 DEF Turn
  <2>4. QED BY <2>1, <2>3 DEF ReadOne, ReadFail
<1>3. Origin /\ Reader /\ Writer /\ InRead
  BY <1>1, <1>2 DEF CopyOK
<1>4. PICK n \in Nat, p \in Nat, k \in Nat \ {0} :
        /\ n = Len(original) /\ p = handle.position /\ handle.size = n /\ k = call.size
        /\ n =< ClusterSize /\ p + k =< n
  BY <1>3 DEF Origin, Reader, InRead, Small
<1>5. Origin' /\ Writer'
  BY <1>1, <1>3, OriginStays DEF Writer, Copied
<1>6. p \in Nat /\ k \in Nat \ {0} /\ p + k =< n
  BY <1>4
<1>7. p % ClusterSize = p /\ k =< ClusterSize - p /\ ClusterSize - p \in Int
  <2>1. p + k =< ClusterSize
    BY <1>4, <1>6, ClusterSizePositive
  <2>2. QED BY <1>6, <2>1, PieceOfSmall
<1>8. Piece = k
  <2>1. call.size - call.done = k /\ k \in Int
    BY <1>3, <1>4 DEF InRead
  <2>2. Piece = Min({k, ClusterSize - p})
    BY <1>4, <1>7, <2>1 DEF Piece
  <2>3. QED BY <1>7, <2>1, <2>2, SmallerOf
<1>9. CASE ReadFail
  <2>1. call' = Returned(call.out) /\ UNCHANGED handle /\ trouble' = trouble \cup {"failed"}
    BY <1>9 DEF ReadFail, Note
  <2>2. call'.op = "none" /\ call'.out = <<>>
    BY <1>3, <2>1, ReturnedIs DEF InRead
  <2>3. Reader'
    BY <1>1, <1>3, <2>1 DEF Reader
  <2>4. Len(<<>>) = 0 /\ <<>> \in Seq(Byte \cup {Lost})
    OBVIOUS
  <2>5. HasCarried'
    <3>1. dstHandle'.position = p /\ handle'.position = p /\ Len(original') = n
      BY <1>1, <1>3, <1>4, <2>1 DEF InRead
    <3>2. ReadOut'
      BY <2>1 DEF ReadOut
    <3>3. Follows(<<>>, 0, p)'
      BY <1>4, <3>1 DEF Follows
    <3>4. QED BY <1>4, <2>2, <2>4, <3>1, <3>2, <3>3 DEF HasCarried
  <2>6. QED BY <1>1, <1>5, <2>2, <2>3, <2>5 DEF CopyOK
<1>10. CASE ReadOne
  <2> DEFINE got == [i \in 1 .. k |-> data[entry.first][p + i - 1]]
  <2>1. ~ (call.done + k < call.size) /\ call.done + k = call.size /\ handle.current = entry.first
    BY <1>3, <1>4 DEF InRead, Reader
  <2>2. PICK next \in Answers(handle.current) :
          /\ handle' = [handle EXCEPT !.position = @ + k, !.current = @]
          /\ call' = Returned(call.out \o got)
          /\ Note(FALSE, "failed")
    BY <1>4, <1>7, <1>8, <1>10, <2>1 DEF ReadOne, At
  <2>3. trouble' = trouble
    BY <2>2 DEF Note
  <2>4. got \in Seq(Byte \cup {Lost}) /\ Len(got) = k /\ \A i \in 1 .. k : got[i] = original[p + i]
    <3>1. ASSUME NEW i \in 1 .. k PROVE got[i] = original[p + i] /\ original[p + i] \in Byte \cup {Lost}
      <4>1. p + i \in 1 .. n
        BY <1>4
      <4>2. original[p + i] = data[entry.first][(p + i) - 1]
        BY <1>3, <1>4, <4>1 DEF Origin
      <4>3. original[p + i] \in Byte \cup {Lost}
        BY <1>3, <1>4, <4>1, ElementOfSeq DEF Origin
      <4>4. QED BY <4>2, <4>3
    <3>2. got \in [1 .. k -> Byte \cup {Lost}] /\ k \in Nat
      BY <1>6, <3>1
    <3>3. \A i \in 1 .. k : got[i] = original[p + i]
      BY <3>1
    <3> HIDE DEF got
    <3>4. got \in Seq(Byte \cup {Lost}) /\ Len(got) = k
      BY <3>2
    <3>5. QED BY <3>3, <3>4
  <2> HIDE DEF got
  <2>5. call.out \o got = got
    BY <1>3, <2>4, ConcatEmptySeq DEF InRead
  <2>6. call'.op = "none" /\ call'.out = got
    BY <2>2, <2>5, ReturnedIs
  <2>7. /\ IsHandle(handle') /\ handle'.first = entry.first /\ handle'.current = entry.first
        /\ handle'.size = entry.size /\ handle'.dirty = FALSE /\ handle'.position = p + k
    BY <1>3, <1>4, <2>2 DEF Reader, IsHandle
  <2>8. Reader'
    BY <1>1, <1>4, <1>6, <2>7 DEF Reader
  <2>9. got # <<>>
    BY <1>6, <2>4
  <2>10. dstHandle.position = p
    BY <1>3, <1>4 DEF InRead
  <2>11. HasCarried'
    BY <1>1, <1>4, <1>6, <2>4, <2>6, <2>7, <2>9, <2>10 DEF HasCarried, Follows
  <2>12. QED BY <1>1, <1>5, <2>6, <2>8, <2>11 DEF CopyOK
<1>11. QED BY <1>2, <1>9, <1>10

LEMMA FinishCopies ==
    ASSUME CopyOK, PhaseOK, Finish
    PROVE  CopyOK'
<1>1. /\ pc = "reading" /\ pc' = "close" /\ result = "none" /\ call.op = "none" /\ call.out = <<>>
      /\ UNCHANGED <<data, entry, handle, trouble, dstHandle, result, original, before>>
  BY DEF Finish, HasRead, PhaseOK, disk, source, target, history
<1>2. Origin /\ Reader /\ Writer /\ HasCarried
  BY <1>1 DEF CopyOK
<1>3. Origin' /\ Reader' /\ Writer'
  BY <1>1, <1>2, OriginStays DEF Reader, Writer, Copied
<1>4. dstHandle.position = handle.position /\ ReadOut
  <2>1. Len(<<>>) = 0 /\ dstHandle.position \in Nat
    BY <1>2 DEF Writer, Copied, Origin
  <2>2. QED BY <1>1, <1>2, <2>1 DEF HasCarried
<1>5. QED BY <1>1, <1>3, <1>4 DEF CopyOK, ReadOut

LEMMA WriteCopies ==
    ASSUME CopyOK, PhaseOK, CallsOK, Write
    PROVE  CopyOK'
<1>1. /\ pc = "reading" /\ pc' = "writing" /\ result = "none" /\ call.op = "none" /\ call.out # <<>>
      /\ goal' = dstHandle.position + Len(call.out)
      /\ UNCHANGED <<data, entry, handle, call, trouble, dstEntry, result, original, before>>
  BY DEF Write, HasRead, PhaseOK, Dst!CallWrite, Dst!CallWriteFail, source, history
<1>2. Origin /\ Reader /\ Writer /\ HasCarried
  BY <1>1 DEF CopyOK
<1>3. Origin' /\ Reader' /\ goal' = handle'.position
  BY <1>1, <1>2, OriginStays DEF Reader, HasCarried
<1>4. PICK n \in Nat, p \in Nat, k \in Nat \ {0} :
        n = Len(original) /\ p = dstHandle.position /\ k = Len(call.out) /\ p + k =< n
  <2>1. Len(original) \in Nat /\ dstHandle.position \in Nat
    BY <1>2 DEF Writer, Copied, Origin
  <2>2. Len(call.out) \in Nat /\ Len(call.out) # 0
    BY <1>1, <1>2, EmptySeq DEF HasCarried
  <2>3. QED BY <1>2, <2>1, <2>2 DEF HasCarried, Follows
<1>5. CASE Dst!CallWriteFail
  <2>1. dstCall' = NoCall /\ UNCHANGED dstHandle
    BY <1>5, DstSame DEF Dst!CallWriteFail
  <2>2. dstCall'.op # "write"
    BY <2>1, NoCallType
  <2>3. Writer'
    BY <1>1, <1>2, <2>1 DEF Writer, Copied
  <2>4. QED BY <1>1, <1>3, <2>2, <2>3 DEF CopyOK
<1>6. CASE Dst!CallWrite(call.out)
  <2>1. dstCall' = [op |-> "write", size |-> Len(call.out), done |-> 0, bytes |-> call.out, out |-> <<>>]
    BY <1>6 DEF Dst!CallWrite
  <2>2. /\ dstHandle'.position = dstHandle.position /\ dstHandle'.size = dstHandle.size
        /\ dstHandle'.current = dstHandle'.first
        /\ dstHandle.position > 0 => dstHandle'.first = dstHandle.first
    <3>1. CASE dstHandle.first # 0
      <4>1. UNCHANGED dstHandle
        BY <1>6, <3>1 DEF Dst!CallWrite
      <4>2. QED BY <1>2, <4>1 DEF Writer
    <3>2. CASE dstHandle.first = 0
      <4>1. PICK new : dstHandle' = [dstHandle EXCEPT !.first = new, !.current = new, !.dirty = TRUE]
        BY <1>6, <3>2 DEF Dst!CallWrite
      <4>2. /\ dstHandle'.position = dstHandle.position /\ dstHandle'.size = dstHandle.size
            /\ dstHandle'.current = dstHandle'.first
        BY <4>1 DEF CallsOK, IsHandle
      <4>3. ~ (dstHandle.position > 0)
        BY <1>2, <3>2, Marks DEF Writer, Copied
      <4>4. QED BY <4>2, <4>3
    <3>3. QED BY <3>1, <3>2
  <2>3. Writer'
    BY <1>1, <1>2, <2>2 DEF Writer, Copied
  <2>4. dstCall'.op = "write" /\ dstCall'.done = 0 /\ dstCall'.size = k /\ dstCall'.bytes = call.out
    BY <1>4, <2>1
  <2>5. Follows(call.out, k, p)'
    BY <1>1, <1>2, <1>4 DEF HasCarried, Follows
  <2>6. InWrite'
    <3>1. dstHandle'.position = p /\ goal' = p + k
      BY <1>1, <1>4, <2>2
    <3>2. QED BY <1>1, <1>4, <2>4, <2>5, <3>1 DEF InWrite
  <2>7. QED BY <1>1, <1>3, <2>3, <2>6 DEF CopyOK
<1>7. QED BY <1>5, <1>6 DEF Write

LEMMA WrittenCopies ==
    ASSUME CopyOK, PhaseOK, Written
    PROVE  CopyOK'
<1>1. /\ pc = "writing" /\ result = "none"
      /\ pc' = IF dstHandle.position = goal THEN "copy" ELSE "abandon"
      /\ UNCHANGED <<data, entry, handle, call, trouble, dstHandle, result, original, before>>
  BY DEF Written, PhaseOK, disk, source, target, history
<1>2. Origin /\ Reader /\ Writer /\ goal = handle.position /\ call.op = "none"
  BY <1>1 DEF CopyOK
<1>3. Origin' /\ Reader' /\ Writer'
  BY <1>1, <1>2, OriginStays DEF Reader, Writer, Copied
<1>4. QED BY <1>1, <1>2, <1>3 DEF CopyOK

LEMMA DstSmaller == ASSUME NEW a \in Int, NEW b \in Int PROVE Dst!Min({a, b}) = IF a =< b THEN a ELSE b
  BY DEF Dst!Min

LEMMA DstLarger == ASSUME NEW a \in Int, NEW b \in Int PROVE Dst!Max({a, b}) = IF a >= b THEN a ELSE b
  BY DEF Dst!Max

\* A write within the first cluster is done in one turn, or fails.
LEMMA WritingCopies ==
    ASSUME CopyOK, PhaseOK, CallsOK, TargetOK, Small, Writing, DWell'
    PROVE  CopyOK'
<1>1. /\ pc = "writing" /\ pc' = "writing" /\ result = "none" /\ Dst!Turn /\ dstHandle.inUse
      /\ UNCHANGED <<entry, handle, call, trouble, goal, result, original, before>>
  BY DEF Writing, PhaseOK, source, history
<1>2. dstCall.op = "write"
  BY <1>1 DEF CallsOK, Dst!Turn, Dst!ReadOne, Dst!ReadFail, Dst!WriteLast, Dst!WriteOn, Dst!WriteShort,
              Dst!WriteExtend, Dst!WriteFail, Dst!WritePiece
<1>3. Origin /\ Reader /\ Writer /\ InWrite /\ goal = handle.position /\ call.op = "none"
  BY <1>1, <1>2 DEF CopyOK
<1>4. PICK n \in Nat, p \in Nat, k \in Nat \ {0} :
        /\ n = Len(original) /\ p = dstHandle.position /\ k = dstCall.size
        /\ n =< ClusterSize /\ p + k =< n
  BY <1>3 DEF Origin, Writer, Copied, InWrite, Follows, Small
<1>5. p % ClusterSize = p /\ k =< ClusterSize - p /\ ClusterSize - p \in Int
  <2>1. p + k =< ClusterSize
    BY <1>4, ClusterSizePositive
  <2>2. QED BY <1>4, <2>1, PieceOfSmall
<1>6. Dst!Piece = k
  <2>1. dstCall.size - dstCall.done = k /\ k \in Int
    BY <1>3, <1>4 DEF InWrite
  <2>2. Dst!Piece = Dst!Min({k, ClusterSize - p})
    BY <1>4, <1>5, <2>1, DstSame DEF Dst!Piece
  <2>3. QED BY <1>5, <2>1, <2>2, DstSmaller
<1>7. Dst!WriteLast
  <2>1. ~ (dstCall.done + Dst!Piece < dstCall.size)
    BY <1>3, <1>4, <1>6 DEF InWrite
  <2>2. ~ Dst!WriteOn /\ ~ Dst!WriteShort /\ (\A new, linked : ~ Dst!WriteExtend(new, linked))
    BY <2>1 DEF Dst!WriteOn, Dst!WriteShort, Dst!WriteExtend
  <2>3. \A sectors : ~ Dst!WriteFail(sectors)
    BY <1>1 DEF Dst!WriteFail, Dst!Note, DWell
  <2>4. ~ Dst!ReadOne /\ ~ Dst!ReadFail
    BY <1>2 DEF Dst!ReadOne, Dst!ReadFail
  <2>5. QED BY <1>1, <2>2, <2>3, <2>4 DEF Dst!Turn
<1>8. PICK c : c = dstHandle.first
  OBVIOUS
<1>9. c \in Cluster /\ dstHandle.current = c /\ (n > 0 => c # entry.first)
  <2>1. PICK s : Row(fat, s) /\ Taken(s) /\ Held(s)
    BY DEF TargetOK
  <2>2. c = FirstOf(s) /\ c # 0
    BY <1>1, <1>2, <1>8, <2>1 DEF Held, CallsOK
  <2>3. Len(s) \in Nat /\ Len(s) # 0 /\ c \in Cluster
    BY <2>1, <2>2, RowEnds
  <2>4. c = s[1] /\ 1 \in 1 .. Len(s)
    BY <2>2, <2>3 DEF FirstOf
  <2>5. before[c] = Free
    BY <2>1, <2>4 DEF Taken
  <2>6. n > 0 => before[entry.first] # Free
    BY <1>3, <1>4 DEF Origin
  <2>7. QED BY <1>3, <1>8, <2>3, <2>5, <2>6 DEF Writer
<1>10. /\ data' = [data EXCEPT ![c] = Dst!Overlay] /\ dstCall' = NoCall /\ UNCHANGED dstEntry
       /\ dstHandle' = Dst!Moved(c)
  BY <1>7, <1>9, DstSame DEF Dst!WriteLast, Dst!WritePiece
<1>11. /\ dstHandle'.first = c /\ dstHandle'.current = c /\ dstHandle'.position = p + k
       /\ dstHandle'.size = p + k
  <2>1. IsHandle(dstHandle)
    BY DEF CallsOK
  <2>2. /\ dstHandle'.first = c /\ dstHandle'.current = c /\ dstHandle'.position = p + k
        /\ dstHandle'.size = Dst!Max({dstHandle.size, p + k})
    BY <1>4, <1>6, <1>8, <1>10, <2>1, MovedIs
  <2>3. dstHandle.size = p
    BY <1>3, <1>4 DEF Writer
  <2>4. Dst!Max({p, p + k}) = p + k
    BY <1>4, DstLarger
  <2>5. QED BY <2>2, <2>3, <2>4
<1>12. /\ DOMAIN data' = Place
       /\ \A o \in Offset : data'[c][o] = IF o >= p /\ o < p + k THEN dstCall.bytes[1 + o - p] ELSE data[c][o]
       /\ \A d : d # c => data'[d] = data[d]
  <2>1. DOMAIN data = Place /\ c \in Place
    BY <1>3, <1>9 DEF Origin, Place
  <2>2. data'[c] = Dst!Overlay /\ DOMAIN data' = Place
    BY <1>10, <2>1
  <2>3. \A o \in Offset : Dst!Overlay[o] = IF o >= p /\ o < p + k THEN dstCall.bytes[dstCall.done + 1 + o - p]
                                           ELSE data[c][o]
    BY <1>4, <1>5, <1>6, <1>9, DstSame DEF Dst!Overlay, Dst!At
  <2>4. dstCall.done = 0
    BY <1>3 DEF InWrite
  <2>5. \A o \in Offset : dstCall.done + 1 + o - p = 1 + o - p
    BY <1>4, <2>4 DEF Offset
  <2>6. QED BY <1>10, <2>1, <2>2, <2>3, <2>5
<1>13. Origin'
  <2>1. \A i \in 1 .. n : data'[entry.first][i - 1] = data[entry.first][i - 1]
    BY <1>4, <1>9, <1>12
  <2>2. QED BY <1>1, <1>3, <1>4, <1>12, <2>1 DEF Origin
<1>14. Copied(c, p + k)'
  <2>1. ASSUME NEW i \in 1 .. p + k PROVE data'[c][i - 1] = original[i]
    <3>1. i - 1 \in Offset
      BY <1>4, ClusterSizePositive DEF Offset
    <3>2. CASE i =< p
      <4>1. ~ (i - 1 >= p) /\ i \in 1 .. p
        BY <1>4, <3>2
      <4>2. data[c][i - 1] = original[i]
        BY <1>3, <1>4, <1>8, <4>1 DEF Writer, Copied
      <4>3. QED BY <1>12, <3>1, <4>1, <4>2
    <3>3. CASE ~ (i =< p)
      <4>1. i - 1 >= p /\ i - 1 < p + k /\ 1 + (i - 1) - p = i - p /\ i - p \in 1 .. k /\ p + (i - p) = i
        BY <1>4, <3>3
      <4>2. dstCall.bytes[i - p] = original[p + (i - p)]
        BY <1>3, <1>4, <4>1 DEF InWrite, Follows
      <4>3. QED BY <1>12, <3>1, <4>1, <4>2
    <3>4. QED BY <3>2, <3>3
  <2>2. p + k \in 0 .. n
    BY <1>4
  <2>3. QED BY <1>1, <1>4, <1>9, <2>1, <2>2 DEF Copied
<1>15. Writer'
  BY <1>11, <1>14 DEF Writer, Copied
<1>16. Reader'
  BY <1>1, <1>3 DEF Reader
<1>17. dstCall'.op # "write"
  BY <1>10, NoCallType
<1>18. QED BY <1>1, <1>3, <1>13, <1>15, <1>16, <1>17 DEF CopyOK

LEMMA EndCopies ==
    ASSUME CopyOK, TargetInv, DWell, DWell', NEW told \in BOOLEAN, CloseTarget(told) \/ AbandonTarget(told)
    PROVE  CopyOK'
<1>1. PhaseOK /\ CallsOK /\ TargetOK /\ Origin
  BY DEF TargetInv, CopyOK
<1>2. UNCHANGED <<data, entry, trouble, original, before>>
  BY DEF CloseTarget, AbandonTarget, Dst!Close, history, disk
<1>3. Origin'
  BY <1>1, <1>2, OriginStays
<1>4. CASE CloseTarget(told)
  <2>1. pc = "close" /\ pc' = "done" /\ result' = "copied" /\ Dst!Close(told) /\ dstHandle.inUse
    BY <1>1, <1>4 DEF CloseTarget, Go, PhaseOK
  <2>2. dstEntry' = IF dstHandle.dirty THEN [first |-> dstHandle.first, size |-> dstHandle.size] ELSE NoFile
    BY <1>2, <2>1, CloseKeepsTarget
  <2>3. Writer /\ dstHandle.position = handle.position /\ ReadOut /\ Len(original) \in Nat
    BY <1>1, <2>1 DEF CopyOK, Origin
  <2>4. CASE dstHandle.dirty
    <3>1. dstEntry'.first = dstHandle.first /\ dstEntry'.size = dstHandle.position
      BY <2>2, <2>3, <2>4 DEF Writer
    <3>2. Copied(dstEntry.first, dstEntry.size)'
      BY <1>2, <2>3, <3>1 DEF Writer, Copied
    <3>3. "failed" \notin trouble' => dstEntry'.size = Len(original')
      BY <1>2, <2>3, <3>1 DEF ReadOut
    <3>4. QED BY <1>3, <2>1, <3>2, <3>3 DEF CopyOK
  <2>5. CASE ~dstHandle.dirty
    <3>1. dstEntry'.first = 0 /\ dstEntry'.size = 0
      BY <2>2, <2>5 DEF NoFile
    <3>2. PICK s : Row(fat, s) /\ Taken(s) /\ Held(s)
      BY <1>1 DEF TargetOK
    <3>3. dstHandle.first = 0
      BY <2>1, <2>5, <3>2, RowEnds DEF Held
    <3>4. dstHandle.position = 0
      BY <2>3, <3>3, Marks DEF Writer, Copied
    <3>5. Copied(dstEntry.first, dstEntry.size)'
      BY <1>2, <2>3, <3>1 DEF Copied
    <3>6. "failed" \notin trouble' => dstEntry'.size = Len(original')
      BY <1>2, <2>3, <3>1, <3>4 DEF ReadOut
    <3>7. QED BY <1>3, <2>1, <3>5, <3>6 DEF CopyOK
  <2>6. QED BY <2>4, <2>5
<1>5. CASE AbandonTarget(told)
  <2>1. pc = "abandon" /\ pc' = "delete" /\ result' = result /\ result = "none"
    BY <1>1, <1>5 DEF AbandonTarget, Go, PhaseOK
  <2>2. QED BY <1>3, <2>1 DEF CopyOK
<1>6. QED BY <1>4, <1>5

LEMMA DeleteCopies ==
    ASSUME CopyOK, DeleteTarget
    PROVE  CopyOK'
<1>1. pc' = "done" /\ result' = "failed" /\ UNCHANGED <<data, entry, original, before>>
  BY DEF DeleteTarget, Go, source, history
<1>2. QED BY <1>1, OriginStays DEF CopyOK

LEMMA CopyStep == ASSUME TargetInv, CopyInv, [CopyNext]_copyVars PROVE CopyInv'
<1>1. SUFFICES ASSUME DWell', Small' PROVE CopyOK'
  BY DEF CopyInv
<1>2. original' = original
  BY DEF CopyNext, copyVars, history, OpenSource, CreateTarget, CreateFail, OpenFail, Read, Reading, Finish,
         Write, Writing, Written, CloseTarget, AbandonTarget, DeleteTarget, DeleteFail, Done
<1>3. DWell /\ Small /\ CopyOK /\ PhaseOK /\ CallsOK /\ TargetOK
  BY <1>1, <1>2, DstTroubleGrows DEF CopyInv, TargetInv, Small
<1>4. CASE OpenSource
  BY <1>3, <1>4, OpenCopies
<1>5. CASE CreateTarget \/ OpenFail \/ CreateFail
  BY <1>3, <1>5, CreateCopies
<1>6. CASE Read
  BY <1>3, <1>6, ReadCopies
<1>7. CASE Reading
  BY <1>3, <1>7, ReadingCopies
<1>8. CASE Finish
  BY <1>3, <1>8, FinishCopies
<1>9. CASE Write
  BY <1>3, <1>9, WriteCopies
<1>10. CASE Writing
  BY <1>1, <1>3, <1>10, WritingCopies
<1>11. CASE Written
  BY <1>3, <1>11, WrittenCopies
<1>12. ASSUME NEW told \in BOOLEAN, CloseTarget(told) \/ AbandonTarget(told) PROVE CopyOK'
  BY <1>1, <1>3, <1>12, EndCopies
<1>13. CASE DeleteTarget
  BY <1>3, <1>13, DeleteCopies
<1>14. ASSUME NEW freed, DeleteFail(freed) PROVE FALSE
  BY <1>1, <1>14 DEF DeleteFail, DWell
<1>15. CASE UNCHANGED copyVars
  <2>1. UNCHANGED <<fat, data, entry, handle, call, trouble, dstEntry, dstHandle, dstCall, dstTrouble, dstExists,
                    pc, goal, result, original, before>>
    BY <1>15 DEF copyVars, disk, source, target, history
  <2>2. Origin'
    BY <1>3, <2>1, OriginStays DEF CopyOK
  <2>3. (Reader' <=> Reader) /\ (Writer' <=> Writer) /\ (InRead' <=> InRead) /\ (HasCarried' <=> HasCarried)
        /\ (InWrite' <=> InWrite) /\ (ReadOut' <=> ReadOut)
    BY <2>1 DEF Reader, Writer, Copied, InRead, HasCarried, InWrite, Follows, ReadOut
  <2>4. Copied(dstEntry.first, dstEntry.size)' <=> Copied(dstEntry.first, dstEntry.size)
    BY <2>1 DEF Copied
  <2>5. QED BY <1>3, <2>1, <2>2, <2>3, <2>4 DEF CopyOK
<1>16. QED BY <1>4, <1>5, <1>6, <1>7, <1>8, <1>9, <1>10, <1>11, <1>12, <1>13, <1>14, <1>15 DEF CopyNext, Done

LEMMA CopyAlways == CopySpec => []CopyInv
<1>1. CopyInit => CopyInv
  BY CopyBegins
<1>2. TargetInv /\ CopyInv /\ [CopyNext]_copyVars => CopyInv'
  BY CopyStep
<1>3. QED BY <1>1, <1>2, TargetAlways, PTL DEF CopySpec

\* A copy that is reported made has the bytes of the source, in their order; it has
\* all of them unless the source could not be read, and the source has not changed.
\* It holds where the source fits in one cluster; fat32_copy is wrong for longer ones.
THEOREM SmallCopiesAreFaithful == CopySpec => [](Len(original) =< ClusterSize => CopyIsFaithful)
<1>1. ASSUME CopyInv PROVE Len(original) =< ClusterSize => CopyIsFaithful
  <2>1. SUFFICES ASSUME Len(original) =< ClusterSize, result = "copied", "failed" \notin dstTrouble
                 PROVE  /\ IsPrefix(CopyOf, original)
                        /\ "failed" \notin trouble => CopyOf = original
                        /\ Content(entry.first, entry.size) = original
    BY DEF CopyIsFaithful
  <2>2. /\ Origin /\ Copied(dstEntry.first, dstEntry.size)
        /\ "failed" \notin trouble => dstEntry.size = Len(original)
    BY <1>1, <2>1 DEF CopyInv, CopyOK, DWell, Small
  <2>3. PICK n \in Nat, k \in Nat : n = Len(original) /\ k = dstEntry.size /\ k =< n /\ n =< ClusterSize /\ entry.size = n
    BY <2>1, <2>2 DEF Origin, Copied
  <2>4. original \in Seq(Byte \cup {Lost}) /\ original = [i \in 1 .. n |-> original[i]]
        /\ \A i \in 1 .. n : original[i] \in Byte \cup {Lost}
    <3>1. original \in Seq(Byte \cup {Lost})
      BY <2>2 DEF Origin
    <3>2. QED BY <2>3, <3>1, ElementOfSeq, LenProperties
  <2>5. Content(entry.first, entry.size) = original
    <3>1. n > 0 => entry.first \in Cluster
      BY <2>2, <2>3 DEF Origin
    <3>2. Content(entry.first, n) = [i \in 1 .. n |-> data[entry.first][i - 1]]
      BY <2>3, <3>1, SmallContent
    <3>3. \A i \in 1 .. n : original[i] = data[entry.first][i - 1]
      BY <2>2, <2>3 DEF Origin
    <3>4. QED BY <2>3, <2>4, <3>2, <3>3
  <2>6. CopyOf = [i \in 1 .. k |-> original[i]]
    <3>1. k > 0 => dstEntry.first \in Cluster
      BY <2>2, <2>3 DEF Copied
    <3>2. k =< ClusterSize
      BY <2>3, ClusterSizePositive
    <3>3. CopyOf = [i \in 1 .. k |-> data[dstEntry.first][i - 1]]
      BY <2>3, <3>1, <3>2, SmallContent DEF CopyOf
    <3>4. \A i \in 1 .. k : data[dstEntry.first][i - 1] = original[i]
      BY <2>2, <2>3 DEF Copied
    <3>5. QED BY <3>3, <3>4
  <2>7. k = n => CopyOf = original
    BY <2>4, <2>6
  <2>8. CopyOf \in Seq(Byte \cup {Lost}) /\ Len(CopyOf) = k /\ \A i \in 1 .. k : CopyOf[i] = original[i]
    <3>1. CopyOf \in [1 .. k -> Byte \cup {Lost}]
      BY <2>3, <2>4, <2>6
    <3>2. QED BY <2>3, <2>6, <3>1
  <2>9. IsPrefix(CopyOf, original)
    <3>1. SubSeq(CopyOf, 1, k) = CopyOf
      BY <2>6
    <3>2. SubSeq(original, 1, k) = CopyOf
      BY <2>6
    <3>3. QED BY <2>3, <2>8, <3>1, <3>2 DEF IsPrefix
  <2>10. QED BY <2>2, <2>3, <2>5, <2>7, <2>9
<1>2. QED BY <1>1, CopyAlways, PTL
=============================================================================
