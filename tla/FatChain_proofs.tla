--------------------------- MODULE FatChain_proofs ---------------------------
(* Proofs about FatChain for a disk of any size.                             *)
EXTENDS FatChain, TLAPS

LEMMA ClusterRange ==
    /\ \A c \in Cluster : c \in Nat /\ c >= 2 /\ c =< NumClusters + 1 /\ InChain(c)
    /\ Free \notin Cluster /\ BadCluster \notin Cluster /\ Eoc \notin Cluster
    /\ Free # BadCluster /\ Free # Eoc /\ BadCluster # Eoc
    /\ InChain(BadCluster) /\ ~InChain(Eoc) /\ ~InChain(Free)
    /\ Root \in Cluster
  BY NumClustersAssumption
     DEF Cluster, InChain, Free, BadCluster, Eoc, EocMin, Root

LEMMA AnswersTyped ==
    ASSUME TypeOK, NEW c, NEW e \in Answers(c)
    PROVE  e \in Link /\ (e = BadCluster \/ (c \in Cluster /\ e = fat[c]))
  BY DEF TypeOK, Answers, Link

LEMMA InitIInv == Init => IInv
<1> SUFFICES ASSUME Init PROVE IInv
  OBVIOUS
<1> USE ClusterRange
<1>1. PICK marked \in SUBSET (Cluster \ {Root}) :
         fat = [c \in Cluster |-> IF c = Root THEN Eoc
                                  ELSE IF c \in marked THEN BadCluster ELSE Free]
  BY DEF Init
<1>2. /\ fat \in [Cluster -> Link] /\ fat[Root] = Eoc
      /\ \A c \in Cluster : fat[c] \notin Cluster
  BY <1>1 DEF Link
<1>3. /\ named \in [Cluster -> Naming]
      /\ \A c \in Cluster : named[c] = IF c = Root THEN "own" ELSE "no"
  BY DEF Init, Naming
<1>4. TypeOK
  <2>1. faulty \in BOOLEAN /\ refreed \in BOOLEAN
    BY Zenon DEF Init
  <2>2. QED BY <1>2, <1>3, <2>1 DEF Init, TypeOK
<1>5. NoCrossLink /\ NoDanglingLink
  BY <1>2 DEF NoCrossLink, NoDanglingLink, Apart, Leading
<1>6. HeadsStartChains
  BY <1>2, <1>3 DEF HeadsStartChains, HeadsInOrder, Owned, InUse
<1>7. CallState /\ Faultless
  BY <1>3 DEF Init, CallState, Faultless
<1>8. QED BY <1>4, <1>5, <1>6, <1>7 DEF IInv

LEMMA NextTypeOK == IInv /\ [Next]_vars => TypeOK'
<1> SUFFICES ASSUME TypeOK, CallState, [Next]_vars PROVE TypeOK'
  BY DEF IInv
<1> USE ClusterRange DEF TypeOK, Start, Finish
<1>1. CASE CallAllocate \/ CallCount \/ \E head \in Cluster : CallLength(head)
  BY <1>1 DEF CallAllocate, CallLength, CallCount
<1>2. CASE \E head \in Cluster : CallDelete(head)
  <2>1. refreed' \in BOOLEAN
    BY <1>2, Zenon DEF CallDelete
  <2>2. QED BY <1>2, <2>1 DEF CallDelete
<1>3. CASE \E head \in Cluster : Lose(head) \/ Twin(head)
  <2>1. faulty' \in BOOLEAN
    BY <1>3, Zenon DEF Lose, Twin
  <2>2. QED BY <1>3, <2>1 DEF Lose, Twin, Naming
<1>4. CASE Scan
  <2>1. faulty' \in BOOLEAN
    <3>1. \E b \in {faulty, TRUE} : faulty' = b
      BY <1>4 DEF Scan
    <3>2. QED BY <3>1
  <2>2. cluster' \in Nat /\ pc' \in {"scan", "mark"}
    BY <1>4 DEF Scan
  <2>3. QED BY <1>4, <2>1, <2>2 DEF Scan
<1>5. CASE ScanFull \/ CountEnd \/ LengthEnd
  BY <1>5 DEF ScanFull, CountEnd, LengthEnd
<1>6. CASE Mark
  BY <1>6 DEF Mark, CallState, Link
<1>7. CASE MarkFail \/ Forget
  <2>1. faulty' \in BOOLEAN
    BY <1>7, Zenon DEF MarkFail, Forget
  <2>2. QED BY <1>7, <2>1 DEF MarkFail, Forget
<1>8. CASE FreeFail \/ FreeEnd
  <2>1. faulty' \in BOOLEAN
    BY <1>8, Zenon DEF FreeFail, FreeEnd
  <2>2. QED BY <1>8, <2>1 DEF FreeFail, FreeEnd, Freed
<1>9. CASE Adopt
  BY <1>9 DEF Adopt, CallState, Naming
<1>10. CASE \E last \in Cluster : Extend(last)
  BY <1>10 DEF Extend, CallState, Link
<1>11. CASE GiveBack
  BY <1>11 DEF GiveBack, CallState
<1>12. CASE FreeOne
  <2>1. faulty' \in BOOLEAN
    <3>1. \E b \in {faulty, TRUE} : faulty' = b
      BY <1>12 DEF FreeOne
    <3>2. QED BY <3>1
  <2>2. cluster' \in Link
    BY <1>12, AnswersTyped DEF FreeOne
  <2>3. cluster' \in Nat
    BY <2>2 DEF Link, Free, BadCluster, Eoc
  <2>4. fat' \in [Cluster -> Link]
    BY <1>12 DEF FreeOne, Link
  <2>5. QED BY <1>12, <2>1, <2>3, <2>4 DEF FreeOne
<1>13. CASE Unlink
  BY <1>13 DEF Unlink, Naming
<1>14. CASE UnlinkFail
  <2>1. faulty' \in BOOLEAN
    BY <1>14, Zenon DEF UnlinkFail
  <2>2. QED BY <1>14, <2>1 DEF UnlinkFail, Naming
<1>15. CASE CountOne
  BY <1>15 DEF CountOne
<1>16. CASE LengthOne
  <2>1. cluster' \in Link
    BY <1>16, AnswersTyped DEF LengthOne
  <2>2. cluster' \in Nat
    BY <2>1 DEF Link, Free, BadCluster, Eoc
  <2>3. QED BY <1>16, <2>2 DEF LengthOne
<1>17. CASE UNCHANGED vars
  BY <1>17 DEF vars
<1>18. QED
  BY <1>1, <1>2, <1>3, <1>4, <1>5, <1>6, <1>7, <1>8, <1>9, <1>10, <1>11, <1>12, <1>13, <1>14,
     <1>15, <1>16, <1>17
     DEF Next, Call, Step

\* Nothing goes astray without a failure.
LEMMA NextFaultless == ASSUME IInv, [Next]_vars PROVE Faultless'
<1> SUFFICES ASSUME ~faulty'
             PROVE  /\ ~refreed'
                    /\ \A c \in Cluster : named'[c] \in {"no", "own"}
                    /\ doomed' # 0 => named'[doomed'] = "own"
  BY DEF Faultless
<1>1. /\ named \in [Cluster -> Naming] /\ (~faulty => ~refreed)
      /\ ~faulty => \A c \in Cluster : named[c] \in {"no", "own"}
      /\ ~faulty /\ doomed # 0 => named[doomed] = "own"
  BY DEF IInv, TypeOK, Faultless
<1>2. CASE \E head \in Cluster : CallDelete(head)
  <2>1. PICK head \in Cluster : CallDelete(head)
    BY <1>2
  <2>2. ~faulty /\ named' = named /\ doomed' = head /\ named[head] # "no"
    BY <2>1 DEF CallDelete
  <2>3. named[head] = "own" /\ ~refreed
    BY <1>1, <2>2
  <2>4. ~refreed'
    BY <2>1, <2>3, Zenon DEF CallDelete
  <2>5. QED BY <1>1, <2>2, <2>3, <2>4
<1>3. CASE Adopt
  <2>1. new \in Cluster /\ ~faulty /\ ~refreed /\ refreed' = refreed /\ doomed' = 0 /\ doomed = 0
    BY <1>1, <1>3 DEF Adopt, IInv, CallState
  <2>2. Private(new)
    BY <1>3, <2>1 DEF Adopt, IInv, CallState
  <2>3. named[new] = "no"
    <3>1. named[new] # "own"
      BY <2>1, <2>2, ClusterRange DEF Private, Owned, Cluster
    <3>2. QED BY <1>1, <2>1, <3>1
  <2>4. QED BY <1>1, <1>3, <2>1, <2>3 DEF Adopt
<1>4. CASE Unlink
  <2>1. doomed \in Cluster /\ doomed # 0 /\ ~faulty /\ refreed' = refreed /\ doomed' = 0
    BY <1>4, ClusterRange DEF Unlink, IInv, CallState
  <2>2. named[doomed] = "own"
    BY <1>1, <2>1
  <2>3. QED BY <1>1, <1>4, <2>1, <2>2 DEF Unlink
<1>5. CASE \E head \in Cluster : Lose(head) \/ Twin(head)
  BY <1>5 DEF Lose, Twin
<1>6. CASE UnlinkFail \/ MarkFail \/ Forget \/ FreeFail
  BY <1>6 DEF UnlinkFail, MarkFail, Forget, FreeFail
<1>7. CASE UNCHANGED <<named, refreed, doomed>> /\ (faulty => faulty')
  BY <1>1, <1>7
<1>8. CASE Scan \/ FreeOne
  <2>1. UNCHANGED <<named, refreed, doomed>> /\ (faulty => faulty')
    BY <1>8 DEF Scan, FreeOne
  <2>2. QED BY <1>7, <2>1
<1>9. CASE \/ CallAllocate \/ CallCount \/ (\E head \in Cluster : CallLength(head))
           \/ ScanFull \/ Mark \/ (\E last \in Cluster : Extend(last)) \/ GiveBack \/ FreeEnd
           \/ CountOne \/ CountEnd \/ LengthOne \/ LengthEnd \/ UNCHANGED vars
  BY <1>7, <1>9
     DEF CallAllocate, CallCount, CallLength, ScanFull, Mark, Extend, GiveBack, FreeEnd, Freed,
         CountOne, CountEnd, LengthOne, LengthEnd, vars
<1>10. QED
  BY <1>2, <1>3, <1>4, <1>5, <1>6, <1>8, <1>9 DEF Next, Call, Step

\* Steps that leave the table and its owners alone keep the three invariants
\* about them; CallState is about the call and is looked at step by step.
LEMMA QuietStep ==
    IInv /\ UNCHANGED <<fat, named, doomed>> /\ (refreed => refreed')
      => NoCrossLink' /\ NoDanglingLink' /\ HeadsStartChains'
  BY DEF IInv, NoCrossLink, NoDanglingLink, HeadsStartChains, Apart, Leading, HeadsInOrder,
         Owned, InUse

\* So do those that take something from what is named.
LEMMA LessNamed ==
    ASSUME IInv, UNCHANGED fat, refreed => refreed',
           \A c \in Cluster : Owned(c)' => Owned(c)
    PROVE  NoCrossLink' /\ NoDanglingLink' /\ HeadsStartChains'
  BY DEF IInv, NoCrossLink, NoDanglingLink, HeadsStartChains, Apart, Leading, HeadsInOrder, InUse

LEMMA NextIInv == IInv /\ [Next]_vars => IInv'
<1> SUFFICES ASSUME IInv, [Next]_vars
             PROVE  NoCrossLink' /\ NoDanglingLink' /\ HeadsStartChains' /\ CallState'
  BY NextTypeOK, NextFaultless DEF IInv
<1> USE ClusterRange
<1>t. /\ fat \in [Cluster -> Link] /\ named \in [Cluster -> Naming] /\ cluster \in Nat
      /\ doomed \in Cluster \cup {0} /\ 0 \notin Cluster
  BY DEF IInv, TypeOK, Cluster
<1>i. NoCrossLink /\ NoDanglingLink /\ HeadsStartChains /\ CallState
  BY DEF IInv
<1>1. CASE CallAllocate \/ CallCount
  <2>1. UNCHANGED <<fat, named, doomed, refreed>>
    BY <1>1 DEF CallAllocate, CallCount
  <2>2. CallState'
    BY <1>1, <1>i DEF CallAllocate, CallCount, Start, CallState
  <2>3. QED BY <2>1, <2>2, QuietStep
<1>2. CASE \E head \in Cluster : CallDelete(head)
  <2>1. PICK head \in Cluster : CallDelete(head)
    BY <1>2
  <2>2. /\ pc = "idle" /\ pc' = "free" /\ cluster' = head /\ doomed' = head /\ doomed = 0
        /\ UNCHANGED <<fat, named, new>> /\ named[head] # "no"
        /\ ~refreed' => ~refreed /\ named[head] # "astray"
    BY <2>1, <1>i DEF CallDelete, Start, CallState
  <2>3. ~refreed' => Private(head)'
    <3>1. ~refreed' => Owned(head)
      BY <1>t, <2>2 DEF Owned, Naming
    <3>2. QED
      BY <2>2, <3>1, <1>i DEF HeadsStartChains, HeadsInOrder, Private, Owned, InUse
  <2>4. CallState'
    BY <2>2, <2>3, <1>t DEF CallState, Link
  <2>5. \A c \in Cluster : Owned(c)' => Owned(c)
    BY <2>2, <1>t DEF Owned
  <2>6. refreed => refreed'
    BY <2>1 DEF CallDelete
  <2>7. QED BY <2>2, <2>4, <2>5, <2>6, LessNamed
<1>3. CASE \E head \in Cluster : CallLength(head)
  <2>1. UNCHANGED <<fat, named, doomed, refreed>>
    BY <1>3 DEF CallLength
  <2>2. CallState'
    BY <1>3, <1>i DEF CallLength, Start, CallState, Link
  <2>3. QED BY <2>1, <2>2, QuietStep
<1>4. CASE \E head \in Cluster : Lose(head) \/ Twin(head)
  <2>1. PICK head \in Cluster : Lose(head) \/ Twin(head)
    BY <1>4
  <2>2. /\ pc = "idle" /\ pc' = "idle" /\ UNCHANGED <<fat, doomed, refreed>>
        /\ named[head] = "own" /\ \E w \in Naming : named' = [named EXCEPT ![head] = w]
    BY <2>1 DEF Lose, Twin, Naming
  <2>3. \A c \in Cluster : Owned(c)' => Owned(c)
    BY <2>2, <1>t DEF Owned
  <2>4. CallState'
    BY <2>2, <1>i DEF CallState
  <2>5. QED BY <2>2, <2>3, <2>4, LessNamed
<1>5. CASE Scan
  <2>1. cluster \in Cluster
    BY <1>5, <1>t, <1>i, NumClustersAssumption DEF Scan, CallState, Cluster
  <2>2. UNCHANGED <<fat, named, doomed, refreed>>
    BY <1>5 DEF Scan
  <2>3. CallState'
    BY <1>5, <2>1, <1>t, <1>i, AnswersTyped DEF Scan, CallState, IInv
  <2>4. QED BY <2>2, <2>3, QuietStep
<1>6. CASE ScanFull \/ MarkFail \/ Forget \/ CountEnd \/ LengthEnd
  <2>1. UNCHANGED <<fat, named, doomed, refreed>>
    BY <1>6 DEF ScanFull, MarkFail, Forget, CountEnd, LengthEnd
  <2>2. CallState'
    BY <1>6, <1>i DEF ScanFull, MarkFail, Forget, CountEnd, LengthEnd, Finish, CallState
  <2>3. QED BY <2>1, <2>2, QuietStep
<1>7. CASE FreeFail \/ FreeEnd
  <2>1. UNCHANGED <<fat, named, doomed, refreed>> /\ pc' = IF doomed = 0 THEN "idle" ELSE "unlink"
    BY <1>7 DEF FreeFail, FreeEnd, Freed
  <2>2. CallState'
    BY <2>1, <1>t DEF CallState
  <2>3. QED BY <2>1, <2>2, QuietStep
<1>8. CASE CountOne
  <2>1. UNCHANGED <<fat, named, doomed, refreed>>
    BY <1>8 DEF CountOne
  <2>2. CallState'
    BY <1>8, <1>t, <1>i DEF CountOne, CallState
  <2>3. QED BY <2>1, <2>2, QuietStep
<1>9. CASE Mark
  <2>1. /\ cluster \in Cluster /\ fat[cluster] = Free /\ doomed = 0
        /\ fat' = [fat EXCEPT ![cluster] = Eoc]
        /\ UNCHANGED <<named, doomed, refreed>> /\ new' = cluster /\ pc' = "place"
    BY <1>9, <1>i DEF Mark, CallState
  <2>2. CASE refreed
    BY <2>1, <2>2, <1>t DEF NoCrossLink, NoDanglingLink, HeadsStartChains, CallState
  <2>3. CASE ~refreed
    <3>1. \A d \in Cluster : fat'[d] # cluster
      BY <2>1, <2>3, <1>t, <1>i DEF NoDanglingLink, Leading, InUse
    <3>2. NoCrossLink' /\ NoDanglingLink' /\ HeadsStartChains'
      BY <2>1, <2>3, <1>t, <1>i
         DEF NoCrossLink, NoDanglingLink, HeadsStartChains, Apart, Leading, HeadsInOrder, Owned, InUse
    <3>3. Private(new)'
      <4>1. ~Owned(cluster)
        BY <2>1, <2>3, <1>i DEF HeadsStartChains, HeadsInOrder, InUse
      <4>2. QED BY <2>1, <3>1, <4>1, <1>t DEF Private, Owned, InUse
    <3>4. CallState'
      BY <2>1, <3>3, <1>t DEF CallState
    <3>5. QED BY <3>2, <3>4
  <2>4. QED BY <2>2, <2>3
<1>10. CASE Adopt
  <2>1. /\ new \in Cluster /\ fat[new] = Eoc /\ doomed = 0 /\ pc' = "idle"
        /\ UNCHANGED <<fat, doomed, refreed>> /\ (~refreed => Private(new))
        /\ \A c \in Cluster : c # new => named'[c] = named[c]
    BY <1>10, <1>t, <1>i DEF Adopt, Finish, CallState
  <2>2. \A c \in Cluster : c # new /\ Owned(c)' => Owned(c)
    BY <2>1, Zenon DEF Owned
  <2>3. NoCrossLink' /\ NoDanglingLink' /\ HeadsStartChains'
    BY <2>1, <2>2, <1>i
       DEF NoCrossLink, NoDanglingLink, HeadsStartChains, Apart, Leading, HeadsInOrder, Private, InUse
  <2>4. CallState'
    BY <2>1 DEF CallState
  <2>5. QED BY <2>3, <2>4
<1>11. CASE \E last \in Cluster : Extend(last)
  <2>1. PICK last \in Cluster : Extend(last)
    BY <1>11
  <2>2. /\ new \in Cluster /\ fat[new] = Eoc /\ last # new /\ doomed = 0 /\ pc' = "idle"
        /\ fat[last] = Eoc /\ fat' = [fat EXCEPT ![last] = new]
        /\ UNCHANGED <<named, doomed, refreed>>
    BY <2>1, <1>i DEF Extend, Finish, CallState
  <2>3. CallState'
    BY <2>2 DEF CallState
  <2>4. CASE refreed
    BY <2>2, <2>3, <2>4 DEF NoCrossLink, NoDanglingLink, HeadsStartChains
  <2>5. CASE ~refreed
    <3>1. Private(new)
      BY <2>1, <2>5, <1>i DEF Extend, CallState
    <3>2. NoCrossLink' /\ NoDanglingLink'
      BY <2>2, <2>5, <3>1, <1>t, <1>i
         DEF NoCrossLink, NoDanglingLink, Apart, Leading, Private, InUse
    <3>3. HeadsStartChains'
      BY <2>2, <2>5, <3>1, <1>t, <1>i
         DEF HeadsStartChains, HeadsInOrder, Owned, Private, InUse
    <3>4. QED BY <2>3, <3>2, <3>3
  <2>6. QED BY <2>4, <2>5
<1>12. CASE GiveBack
  <2>1. /\ new \in Cluster /\ fat[new] = Eoc /\ pc' = "free" /\ cluster' = new
        /\ UNCHANGED <<fat, named, doomed, refreed>> /\ (~refreed => Private(new))
    BY <1>12, <1>i DEF GiveBack, CallState
  <2>2. ~refreed => Private(cluster)'
    <3>1. Private(new) <=> Private(cluster)'
      BY <2>1, Zenon DEF Private, Owned, InUse
    <3>2. QED BY <2>1, <3>1
  <2>3. CallState'
    BY <2>1, <2>2 DEF CallState, Link
  <2>4. QED BY <2>1, <2>3, QuietStep
<1>13. CASE FreeOne
  <2>1. /\ cluster \in Cluster /\ pc = "free" /\ pc' = "free"
        /\ fat' = [fat EXCEPT ![cluster] = Free] /\ UNCHANGED <<named, doomed, refreed>>
        /\ cluster' \in Link /\ cluster' \in {fat[cluster], BadCluster}
    BY <1>13, AnswersTyped DEF FreeOne, IInv
  <2>2. CASE refreed
    BY <2>1, <2>2 DEF NoCrossLink, NoDanglingLink, HeadsStartChains, CallState
  <2>3. CASE ~refreed
    <3>1. Private(cluster)
      BY <2>1, <2>3, <1>i DEF CallState
    <3>2. NoCrossLink' /\ NoDanglingLink'
      BY <2>1, <2>3, <3>1, <1>t, <1>i
         DEF NoCrossLink, NoDanglingLink, Apart, Leading, Private, InUse
    <3>3. HeadsStartChains'
      BY <2>1, <2>3, <3>1, <1>t, <1>i
         DEF HeadsStartChains, HeadsInOrder, Owned, Private, InUse
    <3>4. cluster' \in Cluster => Private(cluster)'
      <4>1. SUFFICES ASSUME cluster' \in Cluster PROVE Private(cluster)'
        OBVIOUS
      <4>2. cluster' = fat[cluster] /\ cluster' # cluster
        BY <2>1, <3>1, <4>1 DEF Private
      <4>3. InUse(cluster)'
        BY <2>1, <2>3, <4>1, <4>2, <1>t, <1>i DEF NoDanglingLink, Leading, InUse
      <4>4. ~Owned(cluster)'
        BY <2>1, <2>3, <4>1, <4>2, <1>i DEF HeadsStartChains, HeadsInOrder, Owned
      <4>5. \A d \in Cluster : fat'[d] # cluster'
        BY <2>1, <2>3, <4>1, <4>2, <1>t, <1>i DEF NoCrossLink, Apart
      <4>6. QED BY <4>3, <4>4, <4>5 DEF Private
    <3>5. cluster' # Free
      BY <2>1, <3>1 DEF Private, InUse
    <3>6. CallState'
      BY <2>1, <3>4, <3>5 DEF CallState
    <3>7. QED BY <3>2, <3>3, <3>6
  <2>4. QED BY <2>2, <2>3
<1>14. CASE Unlink \/ UnlinkFail
  <2>1. /\ doomed \in Cluster /\ doomed' = 0 /\ pc' = "idle" /\ UNCHANGED <<fat, refreed>>
        /\ \E w \in {"no", "astray"} : named' = [named EXCEPT ![doomed] = w]
    BY <1>14, <1>i DEF Unlink, UnlinkFail, Finish, CallState
  <2>2. \A c \in Cluster : Owned(c)' => Owned(c)
    BY <2>1, <1>t DEF Owned
  <2>3. CallState'
    BY <2>1 DEF CallState
  <2>4. QED BY <2>1, <2>2, <2>3, LessNamed
<1>15. CASE LengthOne
  <2>1. cluster' \in Link /\ UNCHANGED <<fat, named, doomed, refreed>> /\ pc' = "length" /\ pc = "length"
    BY <1>15, AnswersTyped DEF LengthOne, IInv
  <2>2. CallState'
    BY <2>1, <1>i DEF CallState
  <2>3. QED BY <2>1, <2>2, QuietStep
<1>16. CASE UNCHANGED vars
  <2>1. CallState'
    BY <1>16, <1>i DEF vars, CallState, Private, Owned, InUse
  <2>2. QED BY <1>16, <2>1, QuietStep DEF vars
<1>17. QED
  BY <1>1, <1>2, <1>3, <1>4, <1>5, <1>6, <1>7, <1>8, <1>9, <1>10, <1>11, <1>12, <1>13, <1>14,
     <1>15, <1>16
     DEF Next, Call, Step

\* The inductive invariant holds in every reachable state.
THEOREM Invariance == Spec => []IInv
  BY InitIInv, NextIInv, PTL DEF Spec

\* The table, the loop variables and the results keep their types.
THEOREM TypeCorrect == Spec => []TypeOK
<1>1. IInv => TypeOK
  BY DEF IInv
<1>2. QED BY Invariance, <1>1, PTL

\* No two chains share a cluster, whatever calls are made and whichever transfers
\* fail, until a file is deleted through an entry whose deletion has failed before.
THEOREM ChainsStayApart == Spec => []NoCrossLink
<1>1. IInv => NoCrossLink
  BY DEF IInv
<1>2. QED BY Invariance, <1>1, PTL

\* Until such a deletion a chain never leads into a cluster that the next
\* allocation may hand out.
THEOREM LinksLeadSomewhere == Spec => []NoDanglingLink
<1>1. IInv => NoDanglingLink
  BY DEF IInv
<1>2. QED BY Invariance, <1>1, PTL

\* Until such a deletion, what a directory entry or an open file names is in use
\* and starts a chain: excepted are the entry being deleted, whose chain goes
\* first, and those that could not be deleted.
THEOREM OwnersHoldHeads == Spec => []HeadsStartChains
<1>1. IInv => HeadsStartChains
  BY DEF IInv
<1>2. QED BY Invariance, <1>1, PTL

-----------------------------------------------------------------------------
(* Chains                                                                    *)

LEMMA ChainHasHead == ASSUME NEW f, NEW c \in Cluster PROVE c \in Chain(f, c)
  BY DEF Chain

LEMMA ChainIsClosed ==
    ASSUME NEW f, NEW c
    PROVE  Chain(f, c) \subseteq Cluster /\ Closed(f, Chain(f, c))
  BY DEF Chain, Closed

LEMMA ChainIsLeast ==
    ASSUME NEW f, NEW c, NEW S \in SUBSET Cluster, c \in Cluster => c \in S, Closed(f, S)
    PROVE  Chain(f, c) \subseteq S
  BY DEF Chain

\* Every cluster of a chain that is owned is in use.
LEMMA OwnedInUse ==
    ASSUME IInv, ~refreed, NEW h \in Cluster, Owned(h)
    PROVE  \A c \in Chain(fat, h) : InUse(c)
<1> DEFINE S == {c \in Cluster : InUse(c)}
<1>1. h \in S
  BY DEF IInv, HeadsStartChains, HeadsInOrder
<1>2. S \in SUBSET Cluster /\ Closed(fat, S)
  BY DEF IInv, NoDanglingLink, Leading, Closed
<1>3. Chain(fat, h) \subseteq S
  BY <1>1, <1>2, ChainIsLeast
<1>4. QED BY <1>3

\* A cluster nobody holds or links to is on no chain that starts elsewhere.
LEMMA PrivateApart ==
    ASSUME NEW c, \A d \in Cluster : fat[d] # c, NEW h \in Cluster, h # c
    PROVE  c \notin Chain(fat, h)
<1> DEFINE S == Cluster \ {c}
<1>1. S \in SUBSET Cluster /\ h \in S /\ Closed(fat, S)
  BY DEF Closed
<1>2. Chain(fat, h) \subseteq S
  BY <1>1, ChainIsLeast
<1>3. QED BY <1>2

\* Linking a cluster that had no successor takes nothing from any chain.
LEMMA ChainGrows ==
    ASSUME fat \in [Cluster -> Link], NEW c \in Cluster, fat[c] \notin Cluster, NEW link,
           fat' = [fat EXCEPT ![c] = link], NEW h \in Cluster
    PROVE  Chain(fat, h) \subseteq Chain(fat', h)
<1> DEFINE S == Chain(fat', h)
<1>1. S \in SUBSET Cluster /\ h \in S /\ Closed(fat', S)
  BY ChainIsClosed, ChainHasHead
<1>2. Closed(fat, S)
  BY <1>1 DEF Closed
<1>3. QED BY <1>1, <1>2, ChainIsLeast

\* Freeing the head of a chain leaves the other chains and the rest of its own.
LEMMA ChainSurvives ==
    ASSUME fat \in [Cluster -> Link], NEW c \in Cluster, \A d \in Cluster : fat[d] # c,
           fat' = [fat EXCEPT ![c] = Free], NEW h \in Cluster, h # c
    PROVE  Chain(fat, h) \subseteq Chain(fat', h)
<1> DEFINE S == Chain(fat', h) \ {c}
<1>1. Chain(fat', h) \subseteq Cluster /\ h \in Chain(fat', h) /\ Closed(fat', Chain(fat', h))
  BY ChainIsClosed, ChainHasHead
<1>2. S \in SUBSET Cluster /\ h \in S
  BY <1>1
<1>3. Closed(fat, S)
  BY <1>1 DEF Closed
<1>4. Chain(fat, h) \subseteq S
  BY <1>2, <1>3, ChainIsLeast
<1>5. QED BY <1>4

LEMMA ChainBehead ==
    ASSUME fat \in [Cluster -> Link], NEW c \in Cluster, \A d \in Cluster : fat[d] # c,
           fat' = [fat EXCEPT ![c] = Free]
    PROVE  Chain(fat, c) \subseteq {c} \cup Chain(fat', fat[c])
<1> DEFINE T == Chain(fat', fat[c])
           S == {c} \cup T
<1>1. T \subseteq Cluster /\ Closed(fat', T) /\ (fat[c] \in Cluster => fat[c] \in T)
  BY ChainIsClosed, ChainHasHead
<1>2. S \in SUBSET Cluster /\ Closed(fat, S)
  BY <1>1 DEF Closed
<1>3. c \in S
  OBVIOUS
<1> HIDE DEF S
<1>4. Chain(fat, c) \subseteq S
  BY <1>2, <1>3, ChainIsLeast
<1>5. QED BY <1>4 DEF S

-----------------------------------------------------------------------------
(* Chains that are owned only grow, and no cluster is lost                   *)

LEMMA NextGrows ==
    ASSUME IInv, [Next]_vars, ~refreed', NEW h \in Cluster, Owned(h), NEW c \in Chain(fat, h)
    PROVE  c \in Chain(fat', h) /\ (fat'[c] # fat[c] => fat[c] = Eoc)
<1>0. ~refreed
  BY DEF Next, Call, Step, vars, CallAllocate, CallDelete, CallLength, CallCount, Scan, ScanFull,
         Mark, MarkFail, Adopt, Extend, Forget, GiveBack, Lose, Twin, FreeOne, FreeFail, FreeEnd,
         Freed, Unlink, UnlinkFail, CountOne, CountEnd, LengthOne, LengthEnd
<1>1. fat \in [Cluster -> Link] /\ c \in Cluster /\ InUse(c)
  BY <1>0, OwnedInUse, ChainIsClosed DEF IInv, TypeOK
<1>2. CASE Mark
  <2>1. cluster \in Cluster /\ fat[cluster] = Free /\ fat' = [fat EXCEPT ![cluster] = Eoc]
    BY <1>2 DEF Mark, IInv, CallState
  <2>2. c \in Chain(fat', h)
    BY <1>1, <2>1, ChainGrows, ClusterRange
  <2>3. c # cluster
    BY <1>1, <2>1 DEF InUse
  <2>4. QED BY <1>1, <2>1, <2>2, <2>3
<1>3. CASE \E last \in Cluster : Extend(last)
  <2>1. PICK last \in Cluster : fat[last] = Eoc /\ fat' = [fat EXCEPT ![last] = new]
    BY <1>3 DEF Extend
  <2>2. c \in Chain(fat', h)
    BY <1>1, <2>1, ChainGrows, ClusterRange
  <2>3. QED BY <1>1, <2>1, <2>2
<1>4. CASE FreeOne
  <2>1. cluster \in Cluster /\ Private(cluster) /\ fat' = [fat EXCEPT ![cluster] = Free]
    BY <1>0, <1>4 DEF FreeOne, IInv, CallState
  <2>2. h # cluster /\ c # cluster
    BY <1>1, <2>1, PrivateApart DEF Private
  <2>3. c \in Chain(fat', h)
    BY <1>1, <2>1, <2>2, ChainSurvives DEF Private
  <2>4. QED BY <1>1, <2>1, <2>2, <2>3
<1>5. CASE UNCHANGED fat
  BY <1>5
<1>6. QED
  BY <1>2, <1>3, <1>4, <1>5
     DEF Next, Call, Step, vars, CallAllocate, CallDelete, CallLength, CallCount, Scan, ScanFull,
         MarkFail, Adopt, Forget, GiveBack, Lose, Twin, FreeFail, FreeEnd, Freed, Unlink,
         UnlinkFail, CountOne, CountEnd, LengthOne, LengthEnd

\* Until a second deletion through an entry that went astray, no call takes a
\* cluster from a chain that an entry or a handle names or puts one into its
\* middle, on a disk of any size and whatever transfers fail: only the chain of
\* the entry being deleted is taken apart.
THEOREM HeldChainsGrow == Spec => HeldChainsOnlyGrow
<1>1. IInv /\ [Next]_vars =>
        [~refreed' =>
           \A h \in Cluster : Owned(h) /\ Owned(h)' =>
             \A c \in Chain(fat, h) :
               /\ c \in Chain(fat', h)
               /\ fat'[c] # fat[c] => fat[c] = Eoc]_vars
  BY NextGrows
<1>2. QED BY <1>1, Invariance, PTL DEF Spec, HeldChainsOnlyGrow

\* Who has a cluster
HasEntry(c) == \E h \in Cluster : named[h] # "no" /\ h # doomed /\ c \in Chain(fat, h)
Has(c) ==
    \/ HasEntry(c)
    \/ pc = "place" /\ c = new
    \/ pc = "free" /\ c \in Chain(fat, cluster)

LEMMA NextNoLeak == ASSUME IInv, NoLeak, [Next]_vars PROVE NoLeak'
<1> SUFFICES ASSUME ~faulty', NEW c \in Cluster, InUse(c)' PROVE Has(c)'
  BY DEF NoLeak, Has, HasEntry
<1>1. /\ fat \in [Cluster -> Link] /\ named \in [Cluster -> Naming] /\ 0 \notin Cluster
      /\ NoDanglingLink /\ HeadsStartChains
  BY DEF IInv, TypeOK, Cluster
<1>n. ASSUME ~faulty, NEW d \in Cluster, InUse(d) PROVE Has(d)
  BY <1>n DEF NoLeak, Has, HasEntry
<1>2. CASE Mark
  <2>1. /\ cluster \in Cluster /\ fat[cluster] = Free /\ fat' = [fat EXCEPT ![cluster] = Eoc]
        /\ named' = named /\ doomed' = doomed /\ new' = cluster /\ pc' = "place"
        /\ faulty' = faulty /\ pc = "mark"
    BY <1>2 DEF Mark, IInv, CallState
  <2>2. CASE c = cluster
    BY <2>1, <2>2 DEF Has
  <2>3. CASE c # cluster
    <3>1. PICK h \in Cluster : named[h] # "no" /\ h # doomed /\ c \in Chain(fat, h)
      BY <1>1, <1>n, <2>1, <2>3 DEF Has, HasEntry, InUse
    <3>2. c \in Chain(fat', h)
      BY <1>1, <2>1, <3>1, ChainGrows, ClusterRange
    <3>3. QED BY <2>1, <3>1, <3>2 DEF Has, HasEntry
  <2>4. QED BY <2>2, <2>3
<1>3. CASE Adopt
  <2>1. /\ new \in Cluster /\ fat' = fat /\ doomed' = doomed /\ doomed = 0
        /\ named'[new] # "no" /\ \A h \in Cluster : named[h] # "no" => named'[h] # "no"
        /\ faulty' = faulty /\ pc = "place"
    BY <1>1, <1>3 DEF Adopt, IInv, CallState
  <2>2. HasEntry(c) \/ c = new
    BY <1>n, <2>1 DEF Has, InUse
  <2>3. QED BY <1>1, <2>1, <2>2, ChainHasHead DEF Has, HasEntry
<1>4. CASE \E last \in Cluster : Extend(last)
  <2>1. PICK last \in Cluster :
          /\ pc = "place" /\ last # new /\ fat[last] = Eoc /\ fat' = [fat EXCEPT ![last] = new]
          /\ named' = named /\ doomed' = doomed /\ faulty' = faulty
    BY <1>4 DEF Extend
  <2>2. new \in Cluster /\ fat[new] = Eoc
    BY <2>1 DEF IInv, CallState
  <2>3. \A h \in Cluster : Chain(fat, h) \subseteq Chain(fat', h)
    BY <1>1, <2>1, ChainGrows, ClusterRange
  <2>4. PICK h \in Cluster : named[h] # "no" /\ h # doomed /\ last \in Chain(fat, h)
    BY <1>n, <2>1, ClusterRange DEF Has, HasEntry, InUse
  <2>5. new \in Chain(fat', h)
    <3>1. last \in Chain(fat', h) /\ fat'[last] = new
      BY <1>1, <2>1, <2>3, <2>4
    <3>2. QED BY <2>2, <3>1, ChainIsClosed DEF Closed
  <2>6. CASE c = new
    BY <2>1, <2>4, <2>5, <2>6 DEF Has, HasEntry
  <2>7. CASE c # new
    <3>1. InUse(c)
      BY <1>1, <2>1, ClusterRange DEF InUse
    <3>2. HasEntry(c)
      BY <1>n, <2>1, <2>7, <3>1 DEF Has
    <3>3. QED BY <2>1, <2>3, <3>2 DEF Has, HasEntry
  <2>8. QED BY <2>6, <2>7
<1>5. CASE \E head \in Cluster : CallDelete(head)
  <2>1. PICK head \in Cluster : /\ pc = "idle" /\ pc' = "free" /\ cluster' = head /\ fat' = fat
                                /\ named' = named /\ doomed' = head /\ faulty' = faulty
    BY <1>5 DEF CallDelete, Start
  <2>2. HasEntry(c)
    BY <1>n, <2>1 DEF Has, InUse
  <2>3. QED BY <2>1, <2>2 DEF Has, HasEntry
<1>6. CASE FreeOne
  <2>0. ~faulty /\ ~refreed
    BY <1>6 DEF FreeOne, IInv, Faultless
  <2>1. /\ pc = "free" /\ pc' = "free" /\ cluster \in Cluster /\ Private(cluster)
        /\ fat' = [fat EXCEPT ![cluster] = Free] /\ named' = named /\ doomed' = doomed
    BY <1>6, <2>0 DEF FreeOne, IInv, CallState
  <2>2. cluster' = fat[cluster]
    BY <1>6, <2>1 DEF FreeOne, Misread
  <2>3. c # cluster /\ InUse(c)
    BY <1>1, <2>1 DEF InUse
  <2>4. CASE HasEntry(c)
    <3>1. PICK h \in Cluster : named[h] # "no" /\ h # doomed /\ c \in Chain(fat, h)
      BY <2>4 DEF HasEntry
    <3>2. h # cluster
      <4>1. named[h] = "own"
        BY <1>1, <2>0, <3>1 DEF IInv, Faultless
      <4>2. QED BY <2>1, <3>1, <4>1 DEF Private, Owned
    <3>3. c \in Chain(fat', h)
      BY <1>1, <2>1, <3>1, <3>2, ChainSurvives DEF Private
    <3>4. QED BY <2>1, <3>1, <3>3 DEF Has, HasEntry
  <2>5. CASE c \in Chain(fat, cluster)
    <3>1. c \in Chain(fat', fat[cluster])
      BY <1>1, <2>1, <2>3, <2>5, ChainBehead DEF Private
    <3>2. QED BY <2>1, <2>2, <3>1 DEF Has
  <2>6. QED BY <1>n, <2>0, <2>1, <2>3, <2>4, <2>5 DEF Has
<1>7. CASE FreeEnd
  <2>1. /\ pc = "free" /\ ~InChain(cluster) /\ fat' = fat /\ named' = named /\ faulty' = faulty
        /\ doomed' = doomed
    BY <1>7 DEF FreeEnd, Freed
  <2>2. cluster \notin Cluster
    BY <2>1, ClusterRange
  <2>3. Chain(fat, cluster) \subseteq {}
    BY <2>2, {} \in SUBSET Cluster DEF Chain, Closed
  <2>4. HasEntry(c)
    BY <1>n, <2>1, <2>3 DEF Has, InUse
  <2>5. QED BY <2>1, <2>4 DEF Has, HasEntry
<1>8. CASE GiveBack
  <2>1. /\ pc = "place" /\ pc' = "free" /\ cluster' = new /\ new \in Cluster
        /\ UNCHANGED <<fat, named, doomed, faulty>>
    BY <1>8 DEF GiveBack, IInv, CallState
  <2>2. HasEntry(c) \/ c = new
    BY <1>n, <2>1 DEF Has, InUse
  <2>3. QED BY <2>1, <2>2, ChainHasHead DEF Has, HasEntry
<1>9. CASE Unlink
  <2>1. /\ pc = "unlink" /\ doomed' = 0 /\ UNCHANGED <<fat, faulty>>
        /\ \A h \in Cluster : h # doomed => named'[h] = named[h]
    BY <1>1, <1>9 DEF Unlink
  <2>2. PICK h \in Cluster : named[h] # "no" /\ h # doomed /\ c \in Chain(fat, h)
    BY <1>n, <2>1 DEF Has, HasEntry, InUse
  <2>3. QED BY <1>1, <2>1, <2>2 DEF Has, HasEntry
<1>10. CASE MarkFail \/ Forget \/ FreeFail \/ UnlinkFail
  BY <1>10 DEF MarkFail, Forget, FreeFail, UnlinkFail
<1>11. CASE \E head \in Cluster : Lose(head) \/ Twin(head)
  BY <1>11 DEF Lose, Twin
<1>12. CASE UNCHANGED <<fat, named, doomed>> /\ pc \notin {"place", "free"} /\ (faulty => faulty')
  BY <1>n, <1>12 DEF InUse, Has, HasEntry
<1>13. CASE UNCHANGED vars
  BY <1>n, <1>13 DEF vars, InUse, Has, HasEntry
<1>14. CASE Scan
  <2>1. UNCHANGED <<fat, named, doomed>> /\ pc = "scan" /\ (faulty => faulty')
    BY <1>14 DEF Scan
  <2>2. QED BY <1>12, <2>1
<1>15. CASE ScanFull \/ CountOne \/ CountEnd \/ LengthOne \/ LengthEnd
  BY <1>12, <1>15 DEF ScanFull, CountOne, CountEnd, LengthOne, LengthEnd
<1>16. CASE CallAllocate \/ CallCount \/ \E head \in Cluster : CallLength(head)
  BY <1>12, <1>16 DEF CallAllocate, CallCount, CallLength, Start
<1>17. QED
  BY <1>2, <1>3, <1>4, <1>5, <1>6, <1>7, <1>8, <1>9, <1>10, <1>11, <1>13, <1>14, <1>15, <1>16
     DEF Next, Call, Step

\* As long as no transfer fails and no error path drops a cluster, every cluster
\* in use is on a chain that is named, on the one being freed, or just allocated:
\* allocating, extending and freeing lose nothing, on a disk of any size.
THEOREM NothingIsLost == Spec => []NoLeak
<1>1. Init => NoLeak
  <2> SUFFICES ASSUME Init, NEW c \in Cluster, InUse(c)
               PROVE \E h \in Cluster : named[h] # "no" /\ h # doomed /\ c \in Chain(fat, h)
    BY DEF NoLeak
  <2>1. c = Root /\ named[Root] = "own" /\ doomed = 0 /\ Root # 0
    BY ClusterRange DEF Init, InUse, Root
  <2>2. QED BY <2>1, ChainHasHead
<1>2. IInv /\ NoLeak /\ [Next]_vars => NoLeak'
  BY NextNoLeak
<1>3. QED BY <1>1, <1>2, Invariance, PTL DEF Spec
=============================================================================
