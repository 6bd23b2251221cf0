--------------------------- MODULE FatCache_proofs ---------------------------
(* Proofs about FatCache for every table size, mirror count and entry set.   *)
EXTENDS FatCache, TLAPS

-----------------------------------------------------------------------------
(* Arithmetic of the table layout.                                           *)

LEMMA DivMod ==
    ASSUME NEW c \in Nat, NEW n \in Nat \ {0}
    PROVE  /\ c \div n \in Nat
           /\ c % n \in 0 .. (n - 1)
           /\ c = (c \div n) * n + (c % n)
  OBVIOUS

LEMMA LessTimes ==
    ASSUME NEW q \in Nat, NEW m \in Nat, NEW n \in Nat \ {0}, q * n < m * n
    PROVE  q < m
  OBVIOUS

\* Splitting a cluster number into sector and slot loses nothing.
LEMMA Split ==
    ASSUME NEW c \in Cluster
    PROVE  /\ SectorOf(c) \in Sector
           /\ SlotOf(c) \in Slot
           /\ ClusterAt(SectorOf(c), SlotOf(c)) = c
<1> DEFINE n == EntriesPerSector
           q == c \div n
<1>1. n \in Nat \ {0} /\ NumSectors \in Nat \ {0} /\ c \in Nat
  BY LayoutAssumption, SMT DEF Cluster
<1>2. q \in Nat /\ c % n \in 0 .. (n - 1) /\ c = q * n + (c % n)
  BY <1>1, DivMod
<1>3. q < NumSectors
  <2>1. NumSectors * n \in Nat /\ c < NumSectors * n
    BY <1>1, SMT DEF Cluster
  <2>2. q * n < NumSectors * n
    BY <1>1, <1>2, <2>1
  <2>3. QED BY <1>1, <1>2, <2>2, LessTimes
<1>4. QED
  BY <1>1, <1>2, <1>3 DEF SectorOf, SlotOf, ClusterAt, Sector, Slot

LEMMA Join ==
    ASSUME NEW s \in Sector, NEW k \in Slot
    PROVE  ClusterAt(s, k) \in Cluster
<1>1. /\ s \in Nat /\ NumSectors \in Nat /\ s + 1 =< NumSectors
      /\ EntriesPerSector \in Nat /\ k \in Nat /\ k < EntriesPerSector
  BY LayoutAssumption, SMT DEF Sector, Slot
<1>2. (s + 1) * EntriesPerSector =< NumSectors * EntriesPerSector
  BY <1>1
<1>3. (s + 1) * EntriesPerSector = s * EntriesPerSector + EntriesPerSector
  BY <1>1
<1>4. QED BY <1>1, <1>2, <1>3 DEF ClusterAt, Cluster

LEMMA ZeroCluster == 0 \in Cluster
<1>1. 0 \in Sector /\ 0 \in Slot
  BY LayoutAssumption DEF Sector, Slot
<1>2. ClusterAt(0, 0) = 0
  BY LayoutAssumption DEF ClusterAt
<1>3. QED BY <1>1, <1>2, Join

LEMMA RequestFields ==
    ASSUME NEW r \in Request
    PROVE  /\ r.op \in {"get", "set", "sync", "invalidate"}
           /\ r.cluster \in Cluster
           /\ r.value \in Entry
  BY ZeroCluster, LayoutAssumption DEF Request

-----------------------------------------------------------------------------
(* The inductive invariant.                                                  *)

LEMMA InitIInv == Init => IInv
<1> SUFFICES ASSUME Init PROVE IInv
  OBVIOUS
<1> USE DEF Init
<1>1. PICK d \in [Cluster -> Entry] : disk = [i \in Copy |-> d]
  OBVIOUS
<1>2. request \in Request
  BY ZeroCluster DEF Request
<1>3. TypeOK
  <2>1. dirty \in BOOLEAN
    BY Zenon
  <2>2. copy \in 0 .. NumFats /\ losses \in Nat
    BY LayoutAssumption
  <2>3. disk \in [Copy -> [Cluster -> Entry]] /\ buffer \in [Slot -> Entry]
    BY <1>1, LayoutAssumption
  <2>4. QED BY <1>2, <2>1, <2>2, <2>3 DEF TypeOK
<1>4. MirrorsAgree
  BY <1>1, LayoutAssumption DEF MirrorsAgree, Copy
<1>5. CleanBufferMatchesDisk /\ FlushProgress /\ CallState
  BY DEF CleanBufferMatchesDisk, FlushProgress, CallState
<1>6. QED BY <1>3, <1>4, <1>5 DEF IInv

LEMMA NextTypeOK == TypeOK /\ CallState /\ [Next]_vars => TypeOK'
<1> SUFFICES ASSUME TypeOK, CallState, [Next]_vars PROVE TypeOK'
  OBVIOUS
<1> USE LayoutAssumption DEF TypeOK
<1>1. CASE \E r \in Request : CallEntry(r) \/ CallFlush(r)
  BY <1>1 DEF CallEntry, CallFlush, cache
<1>2. CASE FlushCopy
  <2>1. ASSUME NEW c \in Cluster, SectorOf(c) = cached
        PROVE  buffer[SlotOf(c)] \in Entry
    BY Split
  <2>2. copy \in Copy /\ copy' \in 0 .. NumFats
    BY <1>2 DEF FlushCopy, Copy
  <2>3. [c \in Cluster |-> IF SectorOf(c) = cached THEN buffer[SlotOf(c)]
                                                   ELSE disk[copy][c]]
          \in [Cluster -> Entry]
    BY <2>1, <2>2
  <2>4. disk' \in [Copy -> [Cluster -> Entry]]
    BY <1>2, <2>2, <2>3 DEF FlushCopy
  <2>5. QED BY <1>2, <2>2, <2>4 DEF FlushCopy, cache
<1>3. CASE FlushEnd
  <2>1. dirty' \in BOOLEAN
    BY <1>3, Zenon DEF FlushEnd, AllWritten
  <2>2. scars' \subseteq Sector
    BY <1>3 DEF FlushEnd, AllWritten
  <2>3. /\ cached' \in Sector \cup {NoSector}
        /\ reply' \in Entry \cup {"none", "ok", "failed"}
        /\ pc' \in {"idle", "flush", "read", "access"}
        /\ copy' \in 0 .. NumFats
    BY <1>3 DEF FlushEnd, AllWritten, Return
  <2>4. QED BY <1>3, <2>1, <2>2, <2>3 DEF FlushEnd, AllWritten
<1>4. CASE FlushFail
  BY <1>4 DEF FlushFail, Return, MustFlush
<1>5. CASE ReadSector
  <2>1. request.cluster \in Cluster
    BY RequestFields
  <2>2. SectorOf(request.cluster) \in Sector
    BY <2>1, Split
  <2>3. buffer' \in [Slot -> Entry]
    BY <1>5, <2>2, Join DEF ReadSector, Copy
  <2>4. QED BY <1>5, <2>2, <2>3 DEF ReadSector
<1>6. CASE ReadFail
  BY <1>6 DEF ReadFail, Return, cache
<1>7. CASE GetEntry
  <2>1. SlotOf(request.cluster) \in Slot
    BY Split, RequestFields
  <2>2. QED BY <1>7, <2>1 DEF GetEntry, Return, cache
<1>8. CASE SetEntry
  <2>1. request.value \in Entry
    BY RequestFields
  <2>2. buffer' \in [Slot -> Entry]
    BY <1>8, <2>1 DEF SetEntry
  <2>3. QED BY <1>8, <2>2 DEF SetEntry, Return
<1>9. CASE PowerLoss
  <2>1. buffer' \in [Slot -> Entry] /\ cached' \in Sector \cup {NoSector}
    BY <1>9 DEF PowerLoss, ColdCache
  <2>2. scars' \subseteq Sector
    BY <1>9 DEF PowerLoss, MustFlush
  <2>3. dirty' \in BOOLEAN
    BY <1>9, Zenon DEF PowerLoss, ColdCache
  <2>4. QED BY <1>9, <2>1, <2>2, <2>3 DEF PowerLoss, Return
<1>10. CASE UNCHANGED vars
  BY <1>10 DEF vars
<1>11. QED
  BY <1>1, <1>2, <1>3, <1>4, <1>5, <1>6, <1>7, <1>8, <1>9, <1>10
     DEF Next, Serve

LEMMA NextCallState == TypeOK /\ CallState /\ [Next]_vars => CallState'
<1> SUFFICES ASSUME TypeOK, CallState, [Next]_vars PROVE CallState'
  OBVIOUS
<1> USE DEF CallState
<1>1. CASE \E r \in Request : CallEntry(r) \/ CallFlush(r)
  BY <1>1 DEF CallEntry, CallFlush, cache
<1>2. CASE FlushCopy
  BY <1>2 DEF FlushCopy, cache
<1>3. CASE FlushEnd
  <2>1. request' = request
    BY <1>3 DEF FlushEnd, AllWritten
  <2>2. CASE request.op \in {"get", "set"}
    BY <1>3, <2>1, <2>2 DEF FlushEnd, AllWritten, MustFlush
  <2>3. CASE request.op \in {"sync", "invalidate"}
    BY <1>3, <2>1, <2>3 DEF FlushEnd, AllWritten, Return
  <2>4. QED BY <2>2, <2>3, RequestFields DEF TypeOK
<1>4. CASE FlushFail
  BY <1>4, LayoutAssumption DEF FlushFail, Return
<1>5. CASE ReadSector
  BY <1>5 DEF ReadSector
<1>6. CASE ReadFail
  BY <1>6, LayoutAssumption DEF ReadFail, Return, cache
<1>7. CASE GetEntry
  <2>1. buffer[SlotOf(request.cluster)] \in Entry
    BY Split, RequestFields DEF TypeOK
  <2>2. QED BY <1>7, <2>1, LayoutAssumption DEF GetEntry, Return, cache
<1>8. CASE SetEntry
  BY <1>8 DEF SetEntry, Return
<1>9. CASE PowerLoss
  BY <1>9 DEF PowerLoss, Return
<1>10. CASE UNCHANGED vars
  BY <1>10 DEF vars, MustFlush
<1>11. QED
  BY <1>1, <1>2, <1>3, <1>4, <1>5, <1>6, <1>7, <1>8, <1>9, <1>10
     DEF Next, Serve

LEMMA NextFlushProgress == IInv /\ [Next]_vars => FlushProgress'
<1> SUFFICES ASSUME IInv, [Next]_vars PROVE FlushProgress'
  OBVIOUS
<1> USE DEF FlushProgress, MustFlush
<1>1. CASE \E r \in Request : CallEntry(r) \/ CallFlush(r)
  <2>1. copy' = 0
    BY <1>1 DEF CallEntry, CallFlush
  <2>2. 0 .. (copy' - 1) = {}
    BY <2>1
  <2>3. QED BY <2>2
<1>2. CASE FlushCopy
  <2>1. 0 .. (copy' - 1) = 0 .. copy
    BY <1>2 DEF FlushCopy, IInv, TypeOK
  <2>2. UNCHANGED <<buffer, cached>>
    BY <1>2 DEF FlushCopy, cache
  <2>3. SUFFICES ASSUME NEW i \in 0 .. copy, NEW c \in Cluster, SectorOf(c) = cached
                 PROVE  disk'[i][c] = buffer[SlotOf(c)]
    BY <2>1, <2>2
  <2>4. i \in Copy /\ copy \in Copy
    BY <1>2, LayoutAssumption DEF FlushCopy, IInv, TypeOK, Copy
  <2>5. CASE i = copy
    BY <1>2, <2>3, <2>4, <2>5 DEF FlushCopy, IInv, TypeOK
  <2>6. CASE i \in 0 .. (copy - 1)
    <3>1. disk'[i] = disk[i]
      BY <1>2, <2>4, <2>6 DEF FlushCopy, IInv, TypeOK
    <3>2. QED BY <1>2, <2>3, <2>6, <3>1 DEF FlushCopy, IInv
  <2>7. QED BY <2>5, <2>6 DEF IInv, TypeOK
<1>3. CASE FlushEnd
  BY <1>3 DEF FlushEnd, AllWritten, Return
<1>4. CASE FlushFail
  BY <1>4 DEF FlushFail, Return
<1>5. CASE ReadSector \/ ReadFail \/ GetEntry \/ SetEntry
  BY <1>5 DEF ReadSector, ReadFail, GetEntry, SetEntry, Return
<1>6. CASE PowerLoss
  BY <1>6 DEF PowerLoss, Return
<1>7. CASE UNCHANGED vars
  BY <1>7 DEF vars, IInv
<1>8. QED
  BY <1>1, <1>2, <1>3, <1>4, <1>5, <1>6, <1>7 DEF Next, Serve

LEMMA NextClean == IInv /\ [Next]_vars => CleanBufferMatchesDisk'
<1> SUFFICES ASSUME IInv, [Next]_vars PROVE CleanBufferMatchesDisk'
  OBVIOUS
<1> USE DEF CleanBufferMatchesDisk
<1>1. CASE \E r \in Request : CallEntry(r) \/ CallFlush(r)
  BY <1>1 DEF CallEntry, CallFlush, cache, IInv
<1>2. CASE FlushCopy
  BY <1>2 DEF FlushCopy, MustFlush, cache
<1>3. CASE FlushEnd
  <2>1. CASE MustFlush
    <3>1. 0 \in 0 .. (copy - 1)
      BY <1>3, <2>1, LayoutAssumption DEF FlushEnd, AllWritten
    <3>2. \A c \in Cluster : SectorOf(c) = cached => disk[0][c] = buffer[SlotOf(c)]
      BY <1>3, <2>1, <3>1 DEF FlushEnd, AllWritten, IInv, FlushProgress
    <3>3. cached' \in {cached, NoSector} /\ disk' = disk /\ buffer' = buffer
      BY <1>3 DEF FlushEnd, AllWritten
    <3>4. QED BY <3>2, <3>3
  <2>2. CASE ~MustFlush
    BY <1>3, <2>2 DEF FlushEnd, AllWritten, IInv
  <2>3. QED BY <2>1, <2>2
<1>4. CASE FlushFail
  BY <1>4 DEF FlushFail, MustFlush
<1>5. CASE ReadSector
  <2>1. request.cluster \in Cluster
    BY RequestFields DEF IInv, TypeOK
  <2>2. SUFFICES ASSUME NEW c \in Cluster, SectorOf(c) = SectorOf(request.cluster)
                 PROVE  buffer'[SlotOf(c)] = disk[0][c]
    BY <1>5 DEF ReadSector
  <2>3. QED BY <1>5, <2>2, Split DEF ReadSector
<1>6. CASE ReadFail \/ GetEntry
  BY <1>6 DEF ReadFail, GetEntry, cache, IInv
<1>7. CASE SetEntry
  BY <1>7 DEF SetEntry
<1>8. CASE PowerLoss
  BY <1>8 DEF PowerLoss, ColdCache
<1>9. CASE UNCHANGED vars
  BY <1>9 DEF vars, IInv
<1>10. QED
  BY <1>1, <1>2, <1>3, <1>4, <1>5, <1>6, <1>7, <1>8, <1>9 DEF Next, Serve

LEMMA NextMirrors == IInv /\ [Next]_vars => MirrorsAgree'
<1> SUFFICES ASSUME IInv, [Next]_vars PROVE MirrorsAgree'
  OBVIOUS
<1>0. MirrorsAgree
  BY DEF IInv
<1> USE DEF MirrorsAgree, MustFlush
<1>1. CASE \E r \in Request : CallEntry(r) \/ CallFlush(r)
  BY <1>0, <1>1 DEF CallEntry, CallFlush, cache
<1>2. CASE FlushCopy
  <2>1. SUFFICES ASSUME NEW i \in Copy, NEW c \in Cluster, SectorOf(c) # cached
                 PROVE  disk'[i][c] = disk[i][c] /\ disk'[0][c] = disk[0][c]
    BY <1>0, <1>2 DEF FlushCopy, cache
  <2>2. QED
    BY <1>2, <2>1, LayoutAssumption DEF FlushCopy, IInv, TypeOK, Copy
<1>3. CASE FlushEnd
  <2>1. CASE MustFlush
    <3>1. copy = NumFats
      BY <1>3, <2>1 DEF FlushEnd, AllWritten
    <3>2. \A i \in Copy, c \in Cluster :
             SectorOf(c) = cached => disk[i][c] = disk[0][c]
      BY <1>3, <2>1, <3>1, LayoutAssumption
         DEF FlushEnd, AllWritten, IInv, FlushProgress, Copy
    <3>3. disk' = disk /\ scars' = scars \ {cached}
      BY <1>3, <2>1 DEF FlushEnd, AllWritten
    <3>4. QED BY <1>0, <3>2, <3>3
  <2>2. CASE ~MustFlush
    BY <1>0, <1>3, <2>2 DEF FlushEnd, AllWritten
  <2>3. QED BY <2>1, <2>2
<1>4. CASE FlushFail
  BY <1>0, <1>4 DEF FlushFail
<1>5. CASE ReadSector
  BY <1>0, <1>5 DEF ReadSector, IInv, CallState
<1>6. CASE ReadFail \/ GetEntry
  BY <1>0, <1>6 DEF ReadFail, GetEntry, cache
<1>7. CASE SetEntry
  BY <1>0, <1>7 DEF SetEntry
<1>8. CASE PowerLoss
  BY <1>0, <1>8 DEF PowerLoss
<1>9. CASE UNCHANGED vars
  BY <1>0, <1>9 DEF vars
<1>10. QED
  BY <1>1, <1>2, <1>3, <1>4, <1>5, <1>6, <1>7, <1>8, <1>9 DEF Next, Serve

\* The inductive invariant holds in every reachable state.
THEOREM Invariance == Spec => []IInv
<1>1. IInv /\ [Next]_vars => IInv'
  BY NextTypeOK, NextCallState, NextFlushProgress, NextClean, NextMirrors
     DEF IInv
<1>2. QED BY InitIInv, <1>1, PTL DEF Spec

\* Every variable keeps its type, for tables and mirrors of any size.
THEOREM TypeCorrect == Spec => []TypeOK
<1>1. IInv => TypeOK
  BY DEF IInv
<1>2. QED BY Invariance, <1>1, PTL

\* The copies of the FAT never drift apart, except in the sector held dirty and
\* where a power loss or a failed invalidate cut a write-back short.
THEOREM MirrorsStayTogether == Spec => []MirrorsAgree
<1>1. IInv => MirrorsAgree
  BY DEF IInv
<1>2. QED BY Invariance, <1>1, PTL

\* A buffer that is not dirty is what the first copy on disk holds.
THEOREM CleanIsOnDisk == Spec => []CleanBufferMatchesDisk
<1>1. IInv => CleanBufferMatchesDisk
  BY DEF IInv
<1>2. QED BY Invariance, <1>1, PTL

-----------------------------------------------------------------------------
(* The cache implements the abstract map.                                    *)

LEMMA SameTerms == /\ Map!Cluster = Cluster
                   /\ Map!Request = Request
                   /\ \A c : Map!SectorOf(c) = SectorOf(c)
  BY DEF Map!Cluster, Cluster, Map!Request, Request, Map!SectorOf, SectorOf

\* With nothing to flush, the driver sees exactly the first copy.
LEMMA LogicalWhenClean == IInv /\ ~MustFlush => Logical = disk[0]
<1> SUFFICES ASSUME IInv, ~MustFlush PROVE Logical = disk[0]
  OBVIOUS
<1>1. disk[0] \in [Cluster -> Entry]
  BY LayoutAssumption DEF IInv, TypeOK, Copy
<1>2. ASSUME NEW c \in Cluster PROVE Logical[c] = disk[0][c]
  <2>1. SectorOf(c) # NoSector
    BY Split, LayoutAssumption DEF Sector, NoSector
  <2>2. QED BY <2>1 DEF Logical, IInv, CleanBufferMatchesDisk, MustFlush
<1>3. QED BY <1>1, <1>2 DEF Logical

LEMMA InitMap == Init => Map!Init
<1> SUFFICES ASSUME Init PROVE Map!Init
  OBVIOUS
<1>1. IInv /\ ~MustFlush
  BY InitIInv DEF Init, MustFlush
<1>2. disk[0] \in [Cluster -> Entry]
  BY <1>1, LayoutAssumption DEF IInv, TypeOK, Copy
<1>3. QED
  BY <1>1, <1>2, LogicalWhenClean, SameTerms DEF Init, Map!Init

LEMMA NextMap == IInv /\ IInv' /\ [Next]_vars => [Map!Next]_(Map!vars)
<1> SUFFICES ASSUME IInv, IInv', [Next]_vars PROVE [Map!Next]_(Map!vars)
  OBVIOUS
<1> USE SameTerms DEF Map!Pending
<1>a. ASSUME UNCHANGED <<disk, buffer, cached>> PROVE Logical' = Logical
  BY <1>a DEF Logical
<1>b. 0 \in Copy /\ disk[0] \in [Cluster -> Entry] /\ disk'[0] \in [Cluster -> Entry]
  BY LayoutAssumption DEF IInv, TypeOK, Copy
<1>c. \A c \in Cluster : SectorOf(c) # NoSector
  BY Split, LayoutAssumption DEF Sector, NoSector
<1>1. CASE \E r \in Request : CallEntry(r) \/ CallFlush(r)
  <2>1. PICK r \in Request : CallEntry(r) \/ CallFlush(r)
    BY <1>1
  <2>2. Map!Ask(r)
    BY <2>1, <1>a DEF CallEntry, CallFlush, cache, Map!Ask, IInv, CallState
  <2>3. QED BY <2>2 DEF Map!Next
<1>2. CASE FlushCopy
  <2>1. reply = "none" /\ cached \in Sector
    BY <1>2 DEF FlushCopy, IInv, CallState, TypeOK, MustFlush
  <2>2. Logical' = Logical
    <3>1. \A c \in Cluster : SectorOf(c) # cached => disk'[0][c] = disk[0][c]
      BY <1>2, <1>b DEF FlushCopy, IInv, TypeOK
    <3>2. QED BY <1>2, <3>1 DEF FlushCopy, cache, Logical
  <2>3. CASE copy = 0
    <3>1. disk'[0] = [c \in Cluster |-> IF SectorOf(c) = cached THEN Logical[c]
                                                             ELSE disk[0][c]]
      BY <1>2, <1>b, <2>3 DEF FlushCopy, IInv, TypeOK, Logical
    <3>2. Map!WriteBack(cached)
      BY <1>2, <2>1, <2>2, <3>1 DEF FlushCopy, Map!WriteBack
    <3>3. QED BY <2>1, <3>2 DEF Map!Next, Sector
  <2>4. CASE copy # 0
    BY <1>2, <1>b, <2>2, <2>4 DEF FlushCopy, IInv, TypeOK, Map!vars
  <2>5. QED BY <2>3, <2>4
<1>3. CASE FlushEnd
  <2>1. Logical = disk[0]
    <3>1. CASE MustFlush
      <4>1. 0 \in 0 .. (copy - 1)
        BY <1>3, <3>1, LayoutAssumption DEF FlushEnd, AllWritten
      <4>2. \A c \in Cluster : SectorOf(c) = cached => disk[0][c] = buffer[SlotOf(c)]
        BY <1>3, <3>1, <4>1 DEF FlushEnd, AllWritten, IInv, FlushProgress
      <4>3. QED BY <4>2, <1>b DEF Logical
    <3>2. QED BY <3>1, LogicalWhenClean
  <2>2. disk' = disk /\ request' = request /\ reply = "none"
    BY <1>3 DEF FlushEnd, AllWritten, IInv, CallState
  <2>3. CASE request.op \in {"get", "set"}
    BY <1>3, <1>a, <2>2, <2>3 DEF FlushEnd, AllWritten, Map!vars
  <2>4. CASE request.op = "sync"
    <3>1. Map!AnswerSync
      BY <1>3, <1>a, <2>1, <2>2, <2>4 DEF FlushEnd, AllWritten, Return, Map!AnswerSync
    <3>2. QED BY <3>1 DEF Map!Next
  <2>5. CASE request.op = "invalidate"
    <3>1. cached' = NoSector /\ reply' = "ok"
      BY <1>3, <2>5 DEF FlushEnd, AllWritten, Return
    <3>2. Logical' = disk[0]
      BY <1>b, <1>c, <2>2, <3>1 DEF Logical
    <3>3. Map!AnswerInvalidate
      BY <2>2, <2>5, <3>1, <3>2 DEF Map!AnswerInvalidate
    <3>4. QED BY <3>3 DEF Map!Next
  <2>6. QED BY <2>3, <2>4, <2>5, RequestFields DEF IInv, TypeOK
<1>4. CASE FlushFail
  <2>1. disk' = disk /\ buffer' = buffer /\ request' = request /\ reply = "none"
    BY <1>4 DEF FlushFail, IInv, CallState
  <2>2. CASE request.op = "get"
    <3>1. Map!AnswerGet
      BY <1>4, <1>a, <2>1, <2>2 DEF FlushFail, Return, Map!AnswerGet
    <3>2. QED BY <3>1 DEF Map!Next
  <2>3. CASE request.op \in {"set", "sync"}
    <3>1. Map!Refuse
      BY <1>4, <1>a, <2>1, <2>3 DEF FlushFail, Return, Map!Refuse
    <3>2. QED BY <3>1 DEF Map!Next
  <2>4. CASE request.op = "invalidate"
    <3>1. cached' = NoSector /\ reply' = "ok"
      BY <1>4, <2>4 DEF FlushFail, Return
    <3>2. Logical' = disk[0]
      BY <1>b, <1>c, <2>1, <3>1 DEF Logical
    <3>3. Map!AnswerInvalidate
      BY <2>1, <2>4, <3>1, <3>2 DEF Map!AnswerInvalidate
    <3>4. QED BY <3>3 DEF Map!Next
  <2>5. QED BY <2>2, <2>3, <2>4, RequestFields DEF IInv, TypeOK
<1>5. CASE ReadSector
  <2>1. Logical = disk[0]
    BY <1>5, LogicalWhenClean DEF ReadSector, IInv, CallState
  <2>2. \A c \in Cluster : Logical'[c] = disk[0][c]
    BY <1>5, Split DEF ReadSector, Logical
  <2>3. Logical' = disk[0]
    BY <1>b, <2>2 DEF Logical
  <2>4. QED BY <1>5, <2>1, <2>3 DEF ReadSector, Map!vars
<1>6. CASE ReadFail
  <2>1. reply = "none" /\ request.op \in {"get", "set"}
    BY <1>6 DEF ReadFail, IInv, CallState
  <2>2. Map!AnswerGet \/ Map!Refuse
    BY <1>6, <1>a, <2>1 DEF ReadFail, Return, cache, Map!AnswerGet, Map!Refuse
  <2>3. QED BY <2>2 DEF Map!Next
<1>7. CASE GetEntry
  <2>1. reply = "none" /\ cached = SectorOf(request.cluster)
    BY <1>7 DEF GetEntry, IInv, CallState
  <2>2. reply' = Logical[request.cluster]
    BY <1>7, <2>1, RequestFields DEF GetEntry, Return, Logical, IInv, TypeOK
  <2>3. Map!AnswerGet
    BY <1>7, <1>a, <2>1, <2>2 DEF GetEntry, cache, Map!AnswerGet
  <2>4. QED BY <2>3 DEF Map!Next
<1>8. CASE SetEntry
  <2>1. reply = "none" /\ cached = SectorOf(request.cluster)
    BY <1>8 DEF SetEntry, IInv, CallState
  <2>2. request.cluster \in Cluster /\ SlotOf(request.cluster) \in Slot
    BY RequestFields, Split DEF IInv, TypeOK
  <2>3. Logical' = [Logical EXCEPT ![request.cluster] = request.value]
    <3>1. ASSUME NEW c \in Cluster, c # request.cluster, SectorOf(c) = cached
          PROVE  SlotOf(c) # SlotOf(request.cluster)
      BY <2>1, <2>2, <3>1, Split
    <3>2. ASSUME NEW c \in Cluster
          PROVE  Logical'[c] = IF c = request.cluster THEN request.value
                                                      ELSE Logical[c]
      BY <1>8, <2>1, <2>2, <3>1, Split DEF SetEntry, Logical, IInv, TypeOK
    <3>3. QED BY <3>2 DEF Logical
  <2>4. \A c \in Cluster : Logical[c] # disk[0][c]
                             => SectorOf(c) = SectorOf(request.cluster)
    BY <2>1 DEF Logical
  <2>5. Map!AnswerSet
    BY <1>8, <2>1, <2>3, <2>4 DEF SetEntry, Return, Map!AnswerSet
  <2>6. QED BY <2>5 DEF Map!Next
<1>9. CASE PowerLoss
  <2>1. Logical' = disk[0]
    BY <1>9, <1>b, <1>c DEF PowerLoss, ColdCache, Logical
  <2>2. Map!PowerLoss
    BY <1>9, <2>1 DEF PowerLoss, Return, Map!PowerLoss
  <2>3. QED BY <2>2 DEF Map!Next
<1>10. CASE UNCHANGED vars
  BY <1>10, <1>a DEF vars, Map!vars
<1>11. QED
  BY <1>1, <1>2, <1>3, <1>4, <1>5, <1>6, <1>7, <1>8, <1>9, <1>10
     DEF Next, Serve

\* The sector cache implements the abstract FAT: a read returns the entry last
\* written or FAT32_BAD_CLUSTER, a write is accepted only while no other sector
\* is unwritten, and a successful sync leaves everything on disk.
THEOREM CacheImplementsMap == Spec => ImplementsMap
<1>1. IInv /\ IInv' /\ [Next]_vars => [Map!Next]_(Map!vars)
  BY NextMap
<1>2. QED
  BY InitMap, Invariance, <1>1, PTL DEF Spec, ImplementsMap, Map!Spec
=============================================================================
