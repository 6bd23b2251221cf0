-------------------------- MODULE Directory_proofs --------------------------
(* Proofs about Directory, for directories of any size.                      *)
EXTENDS Directory, WellFoundedInduction, TLAPS

LEMMA LeastElement ==
    ASSUME NEW S, S \subseteq Nat, S # {}
    PROVE  \E x \in S : \A y \in S : x =< y
<1>1. PICK x \in S : \A y \in S : ~ (<<y, x>> \in OpToRel(<, Nat))
  BY NatLessThanWellFounded, WFMin, Zenon
<1>2. \A y \in S : y \in Nat /\ ~ (y < x)
  BY <1>1 DEF OpToRel
<1>3. QED BY <1>2

LEMMA FirstOfIsFirst ==
    ASSUME NEW S, S \subseteq Nat \ {0}
    PROVE  /\ FirstOf(S) = 0 <=> S = {}
           /\ S # {} => FirstOf(S) \in S /\ \A j \in S : FirstOf(S) =< j
<1>1. CASE S = {}
  BY <1>1 DEF FirstOf
<1>2. CASE S # {}
  <2>1. PICK x \in S : \A y \in S : x =< y
    BY <1>2, LeastElement
  <2>2. FirstOf(S) \in S /\ \A j \in S : FirstOf(S) =< j
    BY <1>2, <2>1 DEF FirstOf
  <2>3. QED BY <1>2, <2>2
<1>3. QED BY <1>1, <1>2

\* A scan sees a beginning of the directory, and all of it if it is not cut short.
LEMMA Scans ==
    /\ NumSlots \in Nat \ {0} /\ NumSlots \in Reach
    /\ \A reach \in Reach : reach \in 0 .. NumSlots /\ (~Cut(reach) => reach = NumSlots)
<1>1. NumClusters \in Nat \ {0} /\ PerCluster \in Nat \ {0}
  BY DirectoryAssumption
<1>2. NumSlots = PerCluster * NumClusters /\ NumSlots \in Nat \ {0}
  BY <1>1 DEF NumSlots
<1>3. \A k \in 0 .. NumClusters : PerCluster * k \in Nat /\ PerCluster * k =< PerCluster * NumClusters
  BY <1>1
<1>4. QED BY <1>1, <1>2, <1>3 DEF Reach, Cut

LEMMA SlotKinds ==
    ASSUME NEW s \in SlotValue
    PROVE  /\ s.kind \in {"end", "free", "lfn", "label", "entry"}
           /\ s.kind = "end" <=> s = End
           /\ s.kind = "free" <=> s = Unused
           /\ s.kind = "entry" <=> s \in [kind : {"entry"}, name : ShortName, value : Value]
           /\ s.kind = "label" <=> s \in [kind : {"label"}, name : Label]
<1>1. End.kind = "end" /\ Unused.kind = "free"
  BY DEF End, Unused
<1>2. \/ s = End \/ s = Unused \/ s \in [kind : {"lfn"}, name : ShortName]
      \/ s \in [kind : {"label"}, name : Label]
      \/ s \in [kind : {"entry"}, name : ShortName, value : Value]
  BY DEF SlotValue
<1>3. QED BY <1>1, <1>2

LEMMA FreeSlot ==
    ASSUME NEW reach \in Reach, FindFree(reach) # 0
    PROVE  /\ FindFree(reach) \in Slot /\ slots[FindFree(reach)].kind \in {"end", "free"}
           /\ \A j \in 1 .. FindFree(reach) - 1 : slots[j].kind \notin {"end", "free"}
<1> DEFINE S == {i \in 1 .. reach : slots[i].kind \in {"end", "free"}}
<1>1. reach \in 0 .. NumSlots /\ S \subseteq Nat \ {0}
  BY Scans
<1>2. FindFree(reach) \in S /\ \A j \in S : FindFree(reach) =< j
  BY <1>1, FirstOfIsFirst DEF FindFree
<1>3. QED BY <1>1, <1>2, Scans DEF Slot

LEMMA FindFinds ==
    ASSUME NEW n, NEW reach \in Reach
    PROVE  LET i == Find(n, reach) IN
           /\ i # 0 => /\ i \in 1 .. reach /\ i \in Slot /\ ~Ended(i) /\ IsEntry(i) /\ slots[i].name = n
                       /\ \A j \in 1 .. i - 1 : ~(~Ended(j) /\ IsEntry(j) /\ slots[j].name = n)
           /\ i = 0 => \A j \in 1 .. reach : ~(~Ended(j) /\ IsEntry(j) /\ slots[j].name = n)
<1> DEFINE S == {i \in 1 .. reach : ~Ended(i) /\ IsEntry(i) /\ slots[i].name = n}
<1>1. reach \in 0 .. NumSlots /\ S \subseteq Nat \ {0}
  BY Scans
<1>2. Find(n, reach) = FirstOf(S)
  BY DEF Find
<1>3. CASE S = {}
  BY <1>1, <1>2, <1>3, FirstOfIsFirst
<1>4. CASE S # {}
  <2>1. Find(n, reach) \in S /\ (\A j \in S : Find(n, reach) =< j) /\ Find(n, reach) # 0
    BY <1>1, <1>2, <1>4, FirstOfIsFirst
  <2>2. QED BY <1>1, <2>1, Scans DEF Slot
<1>5. QED BY <1>3, <1>4

LEMMA FindAnyFinds ==
    ASSUME NEW n, NEW reach \in Reach
    PROVE  LET i == FindAny(n, reach) IN
           /\ i # 0 => /\ i \in Slot /\ ~Ended(i) /\ slots[i].kind \in {"entry", "label"} /\ slots[i].name = n
                       /\ \A j \in 1 .. i - 1 :
                            ~(~Ended(j) /\ slots[j].kind \in {"entry", "label"} /\ slots[j].name = n)
           /\ i = 0 => \A j \in 1 .. reach :
                            ~(~Ended(j) /\ slots[j].kind \in {"entry", "label"} /\ slots[j].name = n)
<1> DEFINE S == {i \in 1 .. reach : ~Ended(i) /\ slots[i].kind \in {"entry", "label"} /\ slots[i].name = n}
<1>1. reach \in 0 .. NumSlots /\ S \subseteq Nat \ {0}
  BY Scans
<1>2. FindAny(n, reach) = FirstOf(S)
  BY DEF FindAny
<1>3. CASE S = {}
  BY <1>1, <1>2, <1>3, FirstOfIsFirst
<1>4. CASE S # {}
  <2>1. FindAny(n, reach) \in S /\ (\A j \in S : FindAny(n, reach) =< j) /\ FindAny(n, reach) # 0
    BY <1>1, <1>2, <1>4, FirstOfIsFirst
  <2>2. QED BY <1>1, <2>1, Scans DEF Slot
<1>5. QED BY <1>3, <1>4

-----------------------------------------------------------------------------
(* What one slot written does to the directory                               *)

\* A new entry in the first slot that is free
PutAt(i, n, v) ==
    /\ i \in Slot /\ slots[i].kind \in {"end", "free"}
    /\ \A j \in 1 .. i - 1 : slots[j].kind \notin {"end", "free"}
    /\ slots' = [slots EXCEPT ![i] = Entry(n, v)]
\* A slot of the name freed or filled
FreeAt(i, n) ==
    /\ i \in Slot /\ ~Ended(i) /\ slots[i].kind \in {"entry", "label"} /\ slots[i].name = n
    /\ slots' = [slots EXCEPT ![i] = Unused]
FillAt(i, n, v) ==
    /\ i \in Slot /\ ~Ended(i) /\ slots[i].kind \in {"entry", "label"} /\ slots[i].name = n
    /\ slots' = [slots EXCEPT ![i] = IF IsEntry(i) THEN [slots[i] EXCEPT !.value = v] ELSE slots[i]]

\* All a step can do to the slots
Written ==
    \/ UNCHANGED slots
    \/ \E i \in Slot, n \in ShortName, v \in Value : PutAt(i, n, v)
    \/ \E i \in Slot, n \in Name : FreeAt(i, n)
    \/ \E i \in Slot, n \in Name, v \in Value : FillAt(i, n, v)

SlotsOK == slots \in [Slot -> SlotValue] /\ NothingBehindEnd

LEMMA WrittenKeepsSlots == ASSUME SlotsOK, Written PROVE SlotsOK'
<1> USE Scans DEF SlotsOK, Slot
<1>1. CASE UNCHANGED slots
  BY <1>1 DEF NothingBehindEnd, Ended
<1>2. ASSUME NEW i \in Slot, NEW n \in ShortName, NEW v \in Value, PutAt(i, n, v) PROVE SlotsOK'
  <2>1. Entry(n, v) \in SlotValue /\ Entry(n, v) # End
    BY DEF Entry, SlotValue, End
  <2>2. slots' \in [Slot -> SlotValue]
    BY <1>2, <2>1 DEF PutAt
  <2>3. \A j \in 1 .. i - 1 : slots[j] # End
    BY <1>2 DEF PutAt, End
  <2>4. \A j \in Slot : slots'[j] # End => ~Ended(j)'
    BY <1>2, <2>1, <2>3 DEF PutAt, NothingBehindEnd, Ended
  <2>5. QED BY <2>2, <2>4 DEF NothingBehindEnd
<1>3. ASSUME NEW i \in Slot, NEW x \in SlotValue, slots[i] # End, x # End, slots' = [slots EXCEPT ![i] = x]
      PROVE  SlotsOK'
  BY <1>3 DEF NothingBehindEnd, Ended
<1>4. ASSUME NEW i \in Slot, NEW n \in Name, FreeAt(i, n) PROVE SlotsOK'
  <2>1. Unused \in SlotValue /\ Unused # End /\ slots[i] # End
    BY <1>4 DEF Unused, End, SlotValue, FreeAt
  <2>2. QED BY <1>3, <1>4, <2>1 DEF FreeAt
<1>5. ASSUME NEW i \in Slot, NEW n \in Name, NEW v \in Value, FillAt(i, n, v) PROVE SlotsOK'
  <2> DEFINE x == IF IsEntry(i) THEN [slots[i] EXCEPT !.value = v] ELSE slots[i]
  <2>1. x \in SlotValue /\ x # End /\ slots[i] # End
    BY <1>5, SlotKinds DEF FillAt, IsEntry, SlotValue, End
  <2>2. QED BY <1>3, <1>5, <2>1 DEF FillAt
<1>6. QED BY <1>1, <1>2, <1>4, <1>5 DEF Written

\* A step writes a slot for the name it answers about, or none.
Touched(n) ==
    \/ UNCHANGED slots
    \/ \E i \in Slot, v \in Value : PutAt(i, Short[n], v) \/ FillAt(i, n, v)
    \/ \E i \in Slot : FreeAt(i, n)

LEMMA ShortNames == \A n \in Name : Short[n] \in ShortName
  BY DirectoryAssumption DEF ShortName

LEMMA StoreDone ==
    ASSUME NEW i, NEW value, NEW call, NEW n, NEW bad \in BOOLEAN, trouble \in BOOLEAN,
           Store(i, value, call, n, bad)
    PROVE  /\ UNCHANGED slots \/ slots' = [slots EXCEPT ![i] = value]
           /\ \E ok \in BOOLEAN : reply' = [op |-> call, name |-> n, ok |-> ok]
           /\ trouble' \in BOOLEAN /\ (trouble => trouble')
           /\ ~trouble' => ~bad /\ slots' = [slots EXCEPT ![i] = value] /\ reply'.ok
<1>1. CASE slots' = [slots EXCEPT ![i] = value] /\ Reply(call, n, TRUE) /\ trouble' = (trouble \/ bad)
  BY <1>1 DEF Reply
<1>2. CASE slots' \in {slots, [slots EXCEPT ![i] = value]} /\ Reply(call, n, FALSE) /\ trouble' = TRUE
  BY <1>2 DEF Reply
<1>3. QED BY <1>1, <1>2 DEF Store

LEMMA RefuseSays ==
    ASSUME NEW n, NEW call, NEW bad \in BOOLEAN, trouble \in BOOLEAN, Refuse(call, n, bad)
    PROVE  /\ UNCHANGED slots
           /\ \E ok \in BOOLEAN : reply' = [op |-> call, name |-> n, ok |-> ok]
           /\ ~reply'.ok
           /\ trouble' \in BOOLEAN /\ (trouble => trouble') /\ (~trouble' => ~bad)
  BY DEF Refuse, Reply

\* What a call may do while no transfer fails, or else under `trouble'
LEMMA CreateTouches ==
    ASSUME NEW n \in Name, NEW v \in Value, NEW reach \in Reach, NEW bad \in BOOLEAN,
           trouble \in BOOLEAN, CreateEntry(n, v, reach, bad)
    PROVE  /\ UNCHANGED slots \/ \E i \in Slot : PutAt(i, Short[n], v)
           /\ \E ok \in BOOLEAN : reply' = [op |-> "create", name |-> n, ok |-> ok]
           /\ trouble' \in BOOLEAN /\ (trouble => trouble')
           /\ ~trouble' => /\ ~bad /\ ~Cut(reach)
                           /\ reply'.ok => \E i \in Slot : PutAt(i, Short[n], v)
                           /\ ~reply'.ok => UNCHANGED slots
<1> DEFINE i == FindFree(reach)
           worse == bad \/ Cut(reach)
<1>1. worse \in BOOLEAN /\ (worse <=> bad \/ Cut(reach))
  BY DEF Cut
<1>2. CASE i # 0 /\ Store(i, Entry(Short[n], v), "create", n, worse)
  <2>1. slots' = [slots EXCEPT ![i] = Entry(Short[n], v)] => i \in Slot /\ PutAt(i, Short[n], v)
    BY <1>2, FreeSlot DEF PutAt
  <2> HIDE DEF i, worse
  <2>2. QED BY <1>1, <1>2, <2>1, StoreDone
<1>3. CASE i = 0 /\ Refuse("create", n, worse)
  <2> HIDE DEF i, worse
  <2>1. QED BY <1>1, <1>3, RefuseSays
<1>4. CASE i = 0 /\ Cut(reach) /\ Reply("create", n, TRUE) /\ trouble' = TRUE /\ UNCHANGED slots
  BY <1>4 DEF Reply
<1>5. QED BY <1>2, <1>3, <1>4 DEF CreateEntry

LEMMA DeleteTouches ==
    ASSUME NEW n \in Name, NEW call, NEW reach \in Reach,
           trouble \in BOOLEAN, Rewrite(n, Freed, call, reach)
    PROVE  /\ UNCHANGED slots \/ \E i \in Slot : FreeAt(i, n)
           /\ \E ok \in BOOLEAN : reply' = [op |-> call, name |-> n, ok |-> ok]
           /\ trouble' \in BOOLEAN /\ (trouble => trouble')
           /\ ~trouble' => /\ ~Cut(reach)
                           /\ IF FindAny(n, reach) # 0 THEN FreeAt(FindAny(n, reach), n) /\ reply'.ok
                              ELSE UNCHANGED slots /\ ~reply'.ok
<1> DEFINE i == FindAny(n, reach)
<1>1. Cut(reach) \in BOOLEAN
  BY DEF Cut
<1>2. CASE i # 0 /\ Store(i, Freed[i], call, n, Cut(reach))
  <2>1. slots' = [slots EXCEPT ![i] = Freed[i]] => i \in Slot /\ FreeAt(i, n)
    BY <1>2, FindAnyFinds DEF FreeAt, Freed
  <2> HIDE DEF i
  <2>2. QED BY <1>1, <1>2, <2>1, StoreDone DEF i
<1>3. CASE i = 0 /\ Refuse(call, n, Cut(reach))
  <2> HIDE DEF i
  <2>1. QED BY <1>1, <1>3, RefuseSays DEF i
<1>4. QED BY <1>2, <1>3 DEF Rewrite

LEMMA UpdateTouches ==
    ASSUME NEW n \in Name, NEW v \in Value, NEW call, NEW reach \in Reach,
           trouble \in BOOLEAN, Rewrite(n, Filled(v), call, reach)
    PROVE  /\ UNCHANGED slots \/ \E i \in Slot : FillAt(i, n, v)
           /\ \E ok \in BOOLEAN : reply' = [op |-> call, name |-> n, ok |-> ok]
           /\ trouble' \in BOOLEAN /\ (trouble => trouble')
           /\ ~trouble' => /\ ~Cut(reach)
                           /\ IF FindAny(n, reach) # 0 THEN FillAt(FindAny(n, reach), n, v) /\ reply'.ok
                              ELSE UNCHANGED slots /\ ~reply'.ok
<1> DEFINE i == FindAny(n, reach)
<1>1. Cut(reach) \in BOOLEAN
  BY DEF Cut
<1>2. CASE i # 0 /\ Store(i, Filled(v)[i], call, n, Cut(reach))
  <2>1. slots' = [slots EXCEPT ![i] = Filled(v)[i]] => i \in Slot /\ FillAt(i, n, v)
    BY <1>2, FindAnyFinds DEF FillAt, Filled
  <2> HIDE DEF i
  <2>2. QED BY <1>1, <1>2, <2>1, StoreDone DEF i
<1>3. CASE i = 0 /\ Refuse(call, n, Cut(reach))
  <2> HIDE DEF i
  <2>1. QED BY <1>1, <1>3, RefuseSays DEF i
<1>4. QED BY <1>2, <1>3 DEF Rewrite

\* A call answers about its own name, and writes to the slots for that name only.
CallDone(call, n) ==
    /\ Touched(n)
    /\ \E ok \in BOOLEAN : reply' = [op |-> call, name |-> n, ok |-> ok]
    /\ trouble' \in BOOLEAN /\ (trouble => trouble')

LEMMA RefuseDone ==
    ASSUME NEW n, NEW call, NEW bad \in BOOLEAN, trouble \in BOOLEAN, Refuse(call, n, bad)
    PROVE  /\ CallDone(call, n)
           /\ UNCHANGED slots /\ ~reply'.ok /\ (~trouble' => ~bad)
  BY DEF Refuse, Reply, CallDone, Touched

LEMMA CreateDone ==
    ASSUME NEW n \in Name, NEW v \in Value, Create(n, v), trouble \in BOOLEAN
    PROVE  CallDone("create", n) /\ UNCHANGED rename
<1>1. PICK seen \in Reach, reach \in Reach :
         \/ Find(n, seen) # 0 /\ Refuse("create", n, Cut(seen))
         \/ Find(n, seen) = 0 /\ CreateEntry(n, v, reach, Cut(seen))
  BY DEF Create
<1>2. Cut(seen) \in BOOLEAN
  BY DEF Cut
<1>3. CASE Refuse("create", n, Cut(seen))
  BY <1>2, <1>3, RefuseDone DEF Create
<1>4. CASE CreateEntry(n, v, reach, Cut(seen))
  BY <1>2, <1>4, CreateTouches DEF Create, CallDone, Touched
<1>5. QED BY <1>1, <1>3, <1>4

LEMMA DeleteDone ==
    ASSUME NEW n \in Name, Delete(n), trouble \in BOOLEAN
    PROVE  CallDone("delete", n) /\ UNCHANGED rename
<1>1. PICK seen \in Reach, reach \in Reach :
         \/ Refuse("delete", n, Cut(seen))
         \/ Rewrite(n, Freed, "delete", reach)
  BY DEF Delete
<1>2. Cut(seen) \in BOOLEAN
  BY DEF Cut
<1>3. CASE Refuse("delete", n, Cut(seen))
  BY <1>2, <1>3, RefuseDone DEF Delete
<1>4. CASE Rewrite(n, Freed, "delete", reach)
  BY <1>4, DeleteTouches DEF Delete, CallDone, Touched
<1>5. QED BY <1>1, <1>3, <1>4

LEMMA UpdateDone ==
    ASSUME NEW n \in Name, NEW v \in Value, Update(n, v), trouble \in BOOLEAN
    PROVE  CallDone("update", n) /\ UNCHANGED rename
  BY UpdateTouches DEF Update, CallDone, Touched

LEMMA RenameDone ==
    ASSUME TypeOK, RenameDelete \/ RenameCut
    PROVE  CallDone("rename", rename[1]) /\ rename[1] \in Name /\ rename' = <<>>
<1>1. rename[1] \in Name
  BY DEF TypeOK, RenameDelete, RenameCut
<1>2. CASE RenameDelete
  BY <1>1, <1>2, DeleteTouches DEF RenameDelete, CallDone, Touched, TypeOK
<1>3. CASE RenameCut
  BY <1>1, <1>3, RefuseDone DEF RenameCut, TypeOK
<1>4. QED BY <1>1, <1>2, <1>3

LEMMA LinkDone ==
    ASSUME TypeOK, NEW old \in Name, NEW new \in Name, RenameCreate(old, new)
    PROVE  \/ CallDone("rename", old) /\ rename' = <<>>
           \/ CallDone("create", new) /\ \E v \in Value : rename' \in {<<>>, <<old, new, v>>}
<1>1. PICK seen \in Reach, reach \in Reach :
         \/ Find(old, seen) = 0 /\ Refuse("rename", old, Cut(seen)) /\ UNCHANGED rename
         \/ /\ Find(old, seen) # 0
            /\ CreateEntry(new, slots[Find(old, seen)].value, reach, Cut(seen))
            /\ rename' = IF reply'.ok THEN <<old, new, slots[Find(old, seen)].value>> ELSE <<>>
  BY DEF RenameCreate
<1>2. Cut(seen) \in BOOLEAN /\ trouble \in BOOLEAN
  BY DEF Cut, TypeOK
<1>3. CASE Refuse("rename", old, Cut(seen)) /\ UNCHANGED rename
  BY <1>2, <1>3, RefuseDone DEF RenameCreate
<1>4. ASSUME Find(old, seen) # 0, CreateEntry(new, slots[Find(old, seen)].value, reach, Cut(seen)),
             rename' = IF reply'.ok THEN <<old, new, slots[Find(old, seen)].value>> ELSE <<>>
      PROVE  CallDone("create", new) /\ \E v \in Value : rename' \in {<<>>, <<old, new, v>>}
  <2>1. slots[Find(old, seen)].value \in Value
    BY <1>4, FindFinds, SlotKinds DEF TypeOK, IsEntry
  <2>2. QED BY <1>2, <1>4, <2>1, CreateTouches DEF CallDone, Touched
<1>5. QED BY <1>1, <1>3, <1>4

LEMMA CallTypes ==
    ASSUME TypeOK, NothingBehindEnd, NEW n \in Name,
           NEW call \in {"create", "delete", "update", "rename"}, CallDone(call, n),
           rename' \in {<<>>} \cup (Name \X Name \X Value)
    PROVE  TypeOK' /\ NothingBehindEnd'
<1>1. Written
  BY ShortNames DEF CallDone, Touched, Written
<1>2. SlotsOK'
  BY <1>1, WrittenKeepsSlots DEF SlotsOK, TypeOK
<1>3. QED BY <1>2 DEF SlotsOK, TypeOK, CallDone

\* Every step is one call on one name.
LEMMA NextCalls ==
    ASSUME TypeOK, Next
    PROVE  \E n \in Name, call \in {"create", "delete", "update", "rename"} :
             /\ CallDone(call, n)
             /\ rename' \in {<<>>} \cup (Name \X Name \X Value)
             /\ rename' # <<>> => n = rename'[2]
<1> USE DEF TypeOK
<1>1. ASSUME NEW n \in Name, NEW v \in Value, Create(n, v) \/ Update(n, v)
      PROVE  \E call \in {"create", "update"} : CallDone(call, n) /\ rename' = <<>>
  BY <1>1, CreateDone, UpdateDone DEF Create, Update
<1>2. ASSUME NEW n \in Name, Delete(n) PROVE CallDone("delete", n) /\ rename' = <<>>
  BY <1>2, DeleteDone DEF Delete
<1>3. ASSUME NEW old \in Name, NEW new \in Name, RenameCreate(old, new)
      PROVE  \E n \in Name, call \in {"create", "rename"} :
               /\ CallDone(call, n) /\ rename' \in {<<>>} \cup (Name \X Name \X Value)
               /\ rename' # <<>> => n = rename'[2]
  BY <1>3, LinkDone
<1>4. CASE RenameDelete \/ RenameCut
  BY <1>4, RenameDone
<1>5. QED BY <1>1, <1>2, <1>3, <1>4 DEF Next

-----------------------------------------------------------------------------
(* Nothing behind the end                                                    *)

LEMMA InitEnd == ASSUME Init PROVE TypeOK /\ NothingBehindEnd
<1>1. TypeOK
  <2>1. PICK n \in Name : reply = [op |-> "none", name |-> n, ok |-> TRUE]
    BY DEF Init
  <2>2. slots \in [Slot -> SlotValue] /\ rename = <<>> /\ trouble = FALSE
    BY DEF Init
  <2>3. QED BY <2>1, <2>2 DEF TypeOK
<1>2. ASSUME NEW i \in Slot, NEW j \in 1 .. i, slots[j] = End PROVE slots[i] = End
  BY <1>2, Scans DEF Init, Slot
<1>3. QED BY <1>1, <1>2 DEF NothingBehindEnd, Ended

\* fat32_create_entry takes the first slot it can and fat32_delete_entry marks
\* no end, so that a scan that stops at FAT32_ENTRY_END misses no entry,
\* whatever transfers fail.
THEOREM EndIsTheEnd == Spec => []NothingBehindEnd
<1>1. Init => TypeOK /\ NothingBehindEnd
  BY InitEnd
<1>2. TypeOK /\ NothingBehindEnd /\ [Next]_vars => (TypeOK /\ NothingBehindEnd)'
  <2> SUFFICES ASSUME TypeOK, NothingBehindEnd, [Next]_vars PROVE (TypeOK /\ NothingBehindEnd)'
    OBVIOUS
  <2>1. CASE Next
    BY <2>1, NextCalls, CallTypes
  <2>2. CASE UNCHANGED vars
    BY <2>2 DEF vars, TypeOK, NothingBehindEnd, Ended
  <2>3. QED BY <2>1, <2>2
<1>3. QED BY <1>1, <1>2, PTL DEF Spec

-----------------------------------------------------------------------------
(* What a name stands for in a directory D                                   *)

Named(D, n) == {i \in Slot : D[i].kind = "entry" /\ D[i].name = n}
Stands(D, n) == IF Named(D, n) = {} THEN Absent ELSE D[FirstOf(Named(D, n))].value

LEMMA NamedFirst ==
    ASSUME NEW D, NEW n
    PROVE  /\ Named(D, n) \subseteq Slot
           /\ Named(D, n) # {} => FirstOf(Named(D, n)) \in Named(D, n)
<1>1. Named(D, n) \subseteq Nat \ {0}
  BY Scans DEF Named, Slot
<1>2. QED BY <1>1, FirstOfIsFirst DEF Named

\* Looking a name up finds what it stands for.
LEMMA FindNamed ==
    ASSUME SlotsOK, NEW n
    PROVE  /\ Find(n, NumSlots) = 0 <=> Named(slots, n) = {}
           /\ Find(n, NumSlots) # 0 => Find(n, NumSlots) \in Named(slots, n)
           /\ Found(n) = Stands(slots, n)
<1>1. {i \in 1 .. NumSlots : ~Ended(i) /\ IsEntry(i) /\ slots[i].name = n} = Named(slots, n)
  BY DEF SlotsOK, NothingBehindEnd, Slot, IsEntry, Named, End
<1>2. Find(n, NumSlots) = FirstOf(Named(slots, n))
  BY <1>1 DEF Find
<1>3. Named(slots, n) \subseteq Nat \ {0}
  BY Scans DEF Named, Slot
<1>4. /\ FirstOf(Named(slots, n)) = 0 <=> Named(slots, n) = {}
      /\ Named(slots, n) # {} => FirstOf(Named(slots, n)) \in Named(slots, n)
  BY <1>3, FirstOfIsFirst
<1>5. QED BY <1>2, <1>4 DEF Found, Stands

LEMMA StandsThere ==
    ASSUME NEW D \in [Slot -> SlotValue], NEW n
    PROVE  /\ Named(D, n) # {} => Stands(D, n) \in Value
           /\ Stands(D, n) = Absent <=> Named(D, n) = {}
<1>1. ASSUME Named(D, n) # {} PROVE Stands(D, n) \in Value
  <2>1. FirstOf(Named(D, n)) \in Named(D, n)
    BY <1>1, NamedFirst
  <2>2. QED BY <1>1, <2>1, SlotKinds DEF Stands, Named
<1>2. QED BY <1>1, DirectoryAssumption DEF Stands

LEMMA StandsOnce ==
    ASSUME NEW D, NEW n, NEW i, Named(D, n) = {i}
    PROVE  Stands(D, n) = D[i].value
  BY NamedFirst DEF Stands

\* Writing a slot that is not, and becomes no entry of another name leaves what
\* the other names stand for.
LEMMA OthersStand ==
    ASSUME NEW n \in Name, NEW i \in Slot, NEW x \in SlotValue,
           slots \in [Slot -> SlotValue], slots' = [slots EXCEPT ![i] = x],
           slots[i].kind = "entry" => slots[i].name = n, x.kind = "entry" => x.name = n
    PROVE  \A m : m # n => Named(slots', m) = Named(slots, m) /\ Stands(slots', m) = Stands(slots, m)
<1> TAKE m
<1> HAVE m # n
<1>1. Named(slots', m) = Named(slots, m) /\ i \notin Named(slots, m)
  BY DEF Named
<1>2. CASE Named(slots, m) = {}
  BY <1>1, <1>2 DEF Stands
<1>3. CASE Named(slots, m) # {}
  <2> DEFINE j == FirstOf(Named(slots, m))
  <2>1. j \in Named(slots, m)
    BY <1>3, NamedFirst
  <2>2. j \in Slot /\ j # i
    BY <1>1, <2>1 DEF Named
  <2>3. slots'[j] = slots[j]
    BY <2>2
  <2>4. Stands(slots, m) = slots[j].value /\ Stands(slots', m) = slots'[j].value
    BY <1>1, <1>3 DEF Stands
  <2>5. QED BY <1>1, <2>3, <2>4
<1>4. QED BY <1>2, <1>3

-----------------------------------------------------------------------------
(* Names stay apart                                                          *)

\* Names are of 8.3 form, and no label is one of them.
Plain == (\A n \in Name : Short[n] = n) /\ Label \cap Name = {}

LEMMA PutNames ==
    ASSUME SlotsOK, NEW i \in Slot, NEW n \in ShortName, NEW v \in Value, PutAt(i, n, v)
    PROVE  /\ Named(slots', n) = Named(slots, n) \cup {i}
           /\ Named(slots, n) = {} => Stands(slots', n) = v
           /\ \A m : m # n => Named(slots', m) = Named(slots, m) /\ Stands(slots', m) = Stands(slots, m)
<1>1. /\ Entry(n, v) \in SlotValue /\ Entry(n, v).kind = "entry" /\ Entry(n, v).name = n
      /\ Entry(n, v).value = v
  BY DEF Entry, SlotValue
<1>2. slots \in [Slot -> SlotValue] /\ slots[i].kind # "entry" /\ slots' = [slots EXCEPT ![i] = Entry(n, v)]
  BY DEF PutAt, SlotsOK
<1>3. Named(slots', n) = Named(slots, n) \cup {i}
  BY <1>1, <1>2 DEF Named
<1>4. ASSUME Named(slots, n) = {} PROVE Stands(slots', n) = v
  <2>1. Named(slots', n) = {i} /\ slots'[i].value = v
    BY <1>1, <1>2, <1>3, <1>4
  <2>2. QED BY <2>1, StandsOnce
<1>5. \A m : m # n => Named(slots', m) = Named(slots, m) /\ Stands(slots', m) = Stands(slots, m)
  BY <1>1, <1>2, OthersStand DEF ShortName
<1>6. QED BY <1>3, <1>4, <1>5

LEMMA FreeNames ==
    ASSUME SlotsOK, NEW i \in Slot, NEW n \in Name, FreeAt(i, n)
    PROVE  /\ Named(slots', n) = Named(slots, n) \ {i}
           /\ Named(slots, n) \subseteq {i} => Stands(slots', n) = Absent
           /\ \A m : m # n => Named(slots', m) = Named(slots, m) /\ Stands(slots', m) = Stands(slots, m)
<1>1. Unused \in SlotValue /\ Unused.kind # "entry"
  BY DEF Unused, SlotValue
<1>2. slots \in [Slot -> SlotValue] /\ slots[i].name = n /\ slots' = [slots EXCEPT ![i] = Unused]
  BY DEF FreeAt, SlotsOK
<1>3. Named(slots', n) = Named(slots, n) \ {i}
  BY <1>1, <1>2 DEF Named
<1>4. Named(slots, n) \subseteq {i} => Stands(slots', n) = Absent
  BY <1>3 DEF Stands
<1>5. \A m : m # n => Named(slots', m) = Named(slots, m) /\ Stands(slots', m) = Stands(slots, m)
  <2>1. slots[i].kind = "entry" => slots[i].name = n
    BY <1>2
  <2>2. Unused.kind = "entry" => Unused.name = n
    BY <1>1
  <2>3. slots \in [Slot -> SlotValue]
    BY <1>2
  <2>4. slots' = [slots EXCEPT ![i] = Unused]
    BY <1>2
  <2>5. QED BY <1>1, <2>1, <2>2, <2>3, <2>4, OthersStand
<1>6. QED BY <1>3, <1>4, <1>5

LEMMA FillNames ==
    ASSUME SlotsOK, NEW i \in Slot, NEW n \in Name, NEW v \in Value, FillAt(i, n, v)
    PROVE  /\ Named(slots', n) = Named(slots, n)
           /\ Named(slots, n) = {i} => Stands(slots', n) = v
           /\ \A m : m # n => Named(slots', m) = Named(slots, m) /\ Stands(slots', m) = Stands(slots, m)
<1> DEFINE x == IF IsEntry(i) THEN [slots[i] EXCEPT !.value = v] ELSE slots[i]
<1>1. slots \in [Slot -> SlotValue] /\ slots[i].name = n /\ slots' = [slots EXCEPT ![i] = x]
  BY DEF FillAt, SlotsOK
<1>2. /\ x \in SlotValue /\ x.kind = slots[i].kind /\ x.name = slots[i].name
      /\ slots[i].kind = "entry" => x.value = v
  <2>1. CASE slots[i].kind = "entry"
    BY <1>1, <2>1, SlotKinds DEF IsEntry, SlotValue
  <2>2. CASE slots[i].kind # "entry"
    BY <1>1, <2>2 DEF IsEntry
  <2>3. QED BY <2>1, <2>2
<1> HIDE DEF x
<1>3. Named(slots', n) = Named(slots, n)
  BY <1>1, <1>2 DEF Named
<1>4. ASSUME Named(slots, n) = {i} PROVE Stands(slots', n) = v
  <2>1. slots[i].kind = "entry"
    BY <1>4 DEF Named
  <2>2. Named(slots', n) = {i} /\ slots'[i].value = v
    BY <1>1, <1>2, <1>3, <1>4, <2>1
  <2>3. QED BY <2>2, StandsOnce
<1>5. \A m : m # n => Named(slots', m) = Named(slots, m) /\ Stands(slots', m) = Stands(slots, m)
  BY <1>1, <1>2, OthersStand
<1>6. QED BY <1>3, <1>4, <1>5

\* A call leaves what every name stands for but its own.
LEMMA CallKeepsOthers ==
    ASSUME SlotsOK, Plain, NEW n \in Name, Touched(n), NEW m, m # n
    PROVE  Stands(slots', m) = Stands(slots, m)
<1>1. Short[n] = n /\ n \in ShortName
  BY DEF Plain, ShortName
<1>2. QED BY <1>1, PutNames, FreeNames, FillNames DEF Touched

-----------------------------------------------------------------------------
(* The invariant                                                             *)

\* No name has two entries; the name a rename started from still has its own.
OneEach == ~trouble => \A n \in Name : \A i, j \in Named(slots, n) : i = j
RenameOK == rename # <<>> /\ ~trouble => Named(slots, rename[1]) # {}
DirInv == TypeOK /\ NothingBehindEnd /\ OneEach

LEMMA InvSlots == ASSUME DirInv PROVE SlotsOK
  BY DEF DirInv, TypeOK, SlotsOK

LEMMA OnlyOne ==
    ASSUME DirInv, ~trouble, NEW n \in Name, NEW i \in Named(slots, n)
    PROVE  Named(slots, n) = {i}
  BY DEF DirInv, OneEach

\* The calls, where no transfer fails
Refused == UNCHANGED slots /\ ~reply'.ok

LEMMA CreateClean ==
    ASSUME DirInv, NEW n \in Name, NEW v \in Value, Create(n, v), ~trouble'
    PROVE  \/ Refused
           \/ reply'.ok /\ Named(slots, n) = {} /\ \E i \in Slot : PutAt(i, Short[n], v)
<1>1. PICK seen \in Reach, reach \in Reach :
         \/ Find(n, seen) # 0 /\ Refuse("create", n, Cut(seen))
         \/ Find(n, seen) = 0 /\ CreateEntry(n, v, reach, Cut(seen))
  BY DEF Create
<1>2. Cut(seen) \in BOOLEAN /\ trouble \in BOOLEAN
  BY DEF Cut, DirInv, TypeOK
<1>3. CASE Refuse("create", n, Cut(seen))
  BY <1>2, <1>3, RefuseSays DEF Refused
<1>4. CASE Find(n, seen) = 0 /\ CreateEntry(n, v, reach, Cut(seen))
  <2>1. ~Cut(seen) /\ (\/ reply'.ok /\ \E i \in Slot : PutAt(i, Short[n], v)
                       \/ ~reply'.ok /\ UNCHANGED slots)
    BY <1>2, <1>4, CreateTouches
  <2>2. Named(slots, n) = {}
    BY <1>4, <2>1, Scans, InvSlots, FindNamed
  <2>3. QED BY <2>1, <2>2 DEF Refused
<1>5. QED BY <1>1, <1>3, <1>4

\* With no label of that name, what fat32_delete_entry comes to is the entry.
LEMMA FindAnyNamed ==
    ASSUME DirInv, NEW n \in Name, NEW reach \in Reach, ~Cut(reach), Label \cap Name = {}
    PROVE  /\ FindAny(n, reach) = 0 <=> Named(slots, n) = {}
           /\ FindAny(n, reach) # 0 => FindAny(n, reach) \in Named(slots, n)
<1> DEFINE i == FindAny(n, reach)
<1>1. reach = NumSlots /\ slots \in [Slot -> SlotValue]
  BY Scans DEF DirInv, TypeOK
<1>2. \A j \in Slot : slots[j].kind = "label" => slots[j].name # n
  BY <1>1, SlotKinds
<1>3. \A j \in Named(slots, n) : j \in 1 .. reach /\ ~Ended(j)
  BY <1>1 DEF Named, Slot, DirInv, NothingBehindEnd, End
<1>4. i = 0 => Named(slots, n) = {}
  BY <1>3, FindAnyFinds DEF Named
<1>5. i # 0 => i \in Named(slots, n)
  BY <1>2, FindAnyFinds DEF Named
<1>6. QED BY <1>4, <1>5

LEMMA DeleteClean ==
    ASSUME DirInv, NEW n \in Name, Delete(n), ~trouble', Label \cap Name = {}
    PROVE  \/ Refused /\ Named(slots, n) = {}
           \/ reply'.ok /\ \E i \in Named(slots, n) : FreeAt(i, n)
<1>1. PICK seen \in Reach, reach \in Reach :
         \/ Find(n, seen) = 0 /\ Refuse("delete", n, Cut(seen))
         \/ Find(n, seen) # 0 /\ Rewrite(n, Freed, "delete", reach)
  BY DEF Delete
<1>2. Cut(seen) \in BOOLEAN /\ trouble \in BOOLEAN
  BY DEF Cut, DirInv, TypeOK
<1>3. CASE Find(n, seen) = 0 /\ Refuse("delete", n, Cut(seen))
  <2>1. Refused /\ ~Cut(seen)
    BY <1>2, <1>3, RefuseSays DEF Refused
  <2>2. QED BY <1>3, <2>1, Scans, InvSlots, FindNamed
<1>4. CASE Find(n, seen) # 0 /\ Rewrite(n, Freed, "delete", reach)
  <2>1. ~Cut(reach) /\ IF FindAny(n, reach) # 0 THEN FreeAt(FindAny(n, reach), n) /\ reply'.ok
                       ELSE UNCHANGED slots /\ ~reply'.ok
    BY <1>2, <1>4, DeleteTouches
  <2>2. QED BY <2>1, FindAnyNamed DEF Refused
<1>5. QED BY <1>1, <1>3, <1>4

LEMMA UpdateClean ==
    ASSUME DirInv, NEW n \in Name, NEW v \in Value, Update(n, v), ~trouble', Label \cap Name = {}
    PROVE  reply'.ok /\ \E i \in Named(slots, n) : FillAt(i, n, v)
<1>1. PICK reach \in Reach : Rewrite(n, Filled(v), "update", reach)
  BY DEF Update
<1>2. Named(slots, n) # {} /\ trouble \in BOOLEAN
  BY InvSlots, FindNamed DEF Update, DirInv, TypeOK
<1>3. ~Cut(reach) /\ IF FindAny(n, reach) # 0 THEN FillAt(FindAny(n, reach), n, v) /\ reply'.ok
                     ELSE UNCHANGED slots /\ ~reply'.ok
  BY <1>1, <1>2, UpdateTouches
<1>4. QED BY <1>2, <1>3, FindAnyNamed

LEMMA LinkClean ==
    ASSUME DirInv, NEW old \in Name, NEW new \in Name, RenameCreate(old, new), ~trouble', ~Overwrite
    PROVE  \/ /\ Refused /\ rename' = <<>>
              /\ \/ reply' = [op |-> "rename", name |-> old, ok |-> FALSE] /\ Named(slots, old) = {}
                 \/ reply' = [op |-> "create", name |-> new, ok |-> FALSE]
           \/ \E v \in Value :
                /\ Named(slots, old) # {} /\ v = slots[Find(old, NumSlots)].value
                /\ Named(slots, new) = {} /\ \E i \in Slot : PutAt(i, Short[new], v)
                /\ rename' = <<old, new, v>>
                /\ reply' = [op |-> "create", name |-> new, ok |-> TRUE]
<1>1. PICK seen \in Reach, reach \in Reach :
         \/ Find(old, seen) = 0 /\ Refuse("rename", old, Cut(seen)) /\ UNCHANGED rename
         \/ /\ Find(old, seen) # 0
            /\ CreateEntry(new, slots[Find(old, seen)].value, reach, Cut(seen))
            /\ rename' = IF reply'.ok THEN <<old, new, slots[Find(old, seen)].value>> ELSE <<>>
  BY DEF RenameCreate
<1>2. Cut(seen) \in BOOLEAN /\ trouble \in BOOLEAN
  BY DEF Cut, DirInv, TypeOK
<1>3. CASE Find(old, seen) = 0 /\ Refuse("rename", old, Cut(seen)) /\ UNCHANGED rename
  <2>1. UNCHANGED slots /\ ~Cut(seen)
    BY <1>2, <1>3, RefuseSays
  <2>2. reply' = [op |-> "rename", name |-> old, ok |-> FALSE]
    BY <1>3 DEF Refuse, Reply
  <2>3. Named(slots, old) = {}
    BY <1>3, <2>1, Scans, InvSlots, FindNamed
  <2>4. QED BY <1>3, <2>1, <2>2, <2>3 DEF Refused, RenameCreate
<1>4. ASSUME Find(old, seen) # 0, CreateEntry(new, slots[Find(old, seen)].value, reach, Cut(seen)),
             rename' = IF reply'.ok THEN <<old, new, slots[Find(old, seen)].value>> ELSE <<>>
      PROVE  \/ Refused /\ rename' = <<>> /\ reply' = [op |-> "create", name |-> new, ok |-> FALSE]
             \/ \E v \in Value :
                /\ Named(slots, old) # {} /\ v = slots[Find(old, NumSlots)].value
                /\ Named(slots, new) = {} /\ \E i \in Slot : PutAt(i, Short[new], v)
                /\ rename' = <<old, new, v>>
                /\ reply' = [op |-> "create", name |-> new, ok |-> TRUE]
  <2> DEFINE v == slots[Find(old, seen)].value
  <2>1. v \in Value
    BY <1>4, FindFinds, SlotKinds DEF DirInv, TypeOK, IsEntry
  <2>2. /\ ~Cut(seen)
        /\ \E ok \in BOOLEAN : reply' = [op |-> "create", name |-> new, ok |-> ok]
        /\ reply'.ok => \E i \in Slot : PutAt(i, Short[new], v)
        /\ ~reply'.ok => UNCHANGED slots
    BY <1>2, <1>4, <2>1, CreateTouches
  <2>3. seen = NumSlots
    BY <2>2, Scans
  <2>4. Named(slots, old) # {} /\ Named(slots, new) = {}
    BY <1>4, <2>3, InvSlots, FindNamed DEF RenameCreate
  <2>5. CASE ~reply'.ok
    <3>1. PICK ok \in BOOLEAN : reply' = [op |-> "create", name |-> new, ok |-> ok]
      BY <2>2
    <3>2. reply' = [op |-> "create", name |-> new, ok |-> FALSE]
      BY <2>5, <3>1
    <3>3. QED BY <1>4, <2>2, <2>5, <3>2 DEF Refused
  <2>6. CASE reply'.ok
    BY <1>4, <2>1, <2>2, <2>3, <2>4, <2>6
  <2>7. QED BY <2>5, <2>6
<1>5. QED BY <1>1, <1>3, <1>4

LEMMA UnlinkClean ==
    ASSUME DirInv, RenameOK, RenameDelete, ~trouble', Label \cap Name = {}
    PROVE  /\ rename[1] \in Name /\ rename' = <<>>
           /\ reply' = [op |-> "rename", name |-> rename[1], ok |-> TRUE]
           /\ \E i \in Named(slots, rename[1]) : FreeAt(i, rename[1])
<1>1. rename[1] \in Name /\ rename' = <<>> /\ trouble \in BOOLEAN
  BY DEF RenameDelete, DirInv, TypeOK
<1>2. PICK reach \in Reach : Rewrite(rename[1], Freed, "rename", reach)
  BY DEF RenameDelete
<1>3. /\ ~Cut(reach) /\ ~trouble
      /\ \E ok \in BOOLEAN : reply' = [op |-> "rename", name |-> rename[1], ok |-> ok]
      /\ IF FindAny(rename[1], reach) # 0 THEN FreeAt(FindAny(rename[1], reach), rename[1]) /\ reply'.ok
         ELSE UNCHANGED slots /\ ~reply'.ok
  BY <1>1, <1>2, DeleteTouches
<1>4. Named(slots, rename[1]) # {}
  BY <1>3 DEF RenameOK, RenameDelete
<1>5. FindAny(rename[1], reach) # 0 /\ FindAny(rename[1], reach) \in Named(slots, rename[1])
  BY <1>1, <1>3, <1>4, FindAnyNamed
<1>6. QED BY <1>1, <1>3, <1>5

-----------------------------------------------------------------------------
(* Names stay apart                                                          *)

LEMMA InitInv == ASSUME Init PROVE DirInv
<1>1. OneEach
  BY DEF Init, OneEach, Named
<1>2. QED BY <1>1, InitEnd DEF DirInv

LEMMA InvIsUnique == ASSUME DirInv PROVE UniqueNames
<1>1. ASSUME NEW i \in Slot, IsEntry(i) PROVE slots[i].name \in Name
  BY <1>1, SlotKinds DEF DirInv, TypeOK, IsEntry, ShortName
<1>2. QED BY <1>1 DEF DirInv, OneEach, UniqueNames, Named, IsEntry

\* Freeing or filling slots gives no name a second entry.
LEMMA RewriteKeepsOneEach ==
    ASSUME DirInv, ~trouble, NEW n \in Name,
           \/ UNCHANGED slots \/ \E i \in Slot : FreeAt(i, n)
           \/ \E i \in Slot, v \in Value : FillAt(i, n, v)
    PROVE  \A m \in Name : \A i, j \in Named(slots', m) : i = j
<1>1. \A m \in Name : Named(slots', m) \subseteq Named(slots, m)
  BY InvSlots, FreeNames, FillNames
<1>2. QED BY <1>1 DEF DirInv, OneEach

\* Nor does a new entry whose name had none.
LEMMA PutKeepsOneEach ==
    ASSUME DirInv, ~trouble, NEW n \in Name, Short[n] = n, Named(slots, n) = {},
           NEW i \in Slot, NEW v \in Value, PutAt(i, Short[n], v)
    PROVE  \A m \in Name : \A j, k \in Named(slots', m) : j = k
<1>1. n \in ShortName /\ PutAt(i, n, v)
  BY DEF ShortName
<1>2. Named(slots', n) = {i} /\ \A m : m # n => Named(slots', m) = Named(slots, m)
  BY <1>1, InvSlots, PutNames
<1>3. QED BY <1>2 DEF DirInv, OneEach

LEMMA NextDirInv ==
    ASSUME DirInv, [Next]_vars, \A n \in Name : Short[n] = n, ~Overwrite
    PROVE  DirInv'
<1>1. CASE UNCHANGED vars
  BY <1>1 DEF vars, DirInv, TypeOK, NothingBehindEnd, Ended, OneEach, Named
<1>2. CASE Next
  <2>1. TypeOK' /\ NothingBehindEnd' /\ (trouble => trouble')
    BY <1>2, NextCalls, CallTypes DEF DirInv, CallDone
  <2>2. ASSUME ~trouble' PROVE \A m \in Name : \A i, j \in Named(slots', m) : i = j
    <3> USE <2>2
    <3>1. ~trouble /\ trouble \in BOOLEAN
      BY <2>1 DEF DirInv, TypeOK
    <3>2. ASSUME NEW n \in Name, NEW v \in Value, Create(n, v)
          PROVE  \A m \in Name : \A i, j \in Named(slots', m) : i = j
      BY <3>1, <3>2, CreateClean, RewriteKeepsOneEach, PutKeepsOneEach DEF Refused
    <3>3. ASSUME NEW n \in Name, NEW v \in Value, Update(n, v)
          PROVE  \A m \in Name : \A i, j \in Named(slots', m) : i = j
      BY <3>1, <3>3, UpdateTouches, RewriteKeepsOneEach DEF Update
    <3>4. ASSUME NEW n \in Name, Delete(n)
          PROVE  \A m \in Name : \A i, j \in Named(slots', m) : i = j
      BY <3>1, <3>4, DeleteTouches, RewriteKeepsOneEach DEF Delete, Refuse
    <3>5. ASSUME NEW old \in Name, NEW new \in Name, RenameCreate(old, new)
          PROVE  \A m \in Name : \A i, j \in Named(slots', m) : i = j
      <4>1. CASE UNCHANGED slots
        BY <3>1, <4>1, RewriteKeepsOneEach
      <4>2. ASSUME NEW v \in Value, Named(slots, new) = {}, NEW i \in Slot, PutAt(i, Short[new], v)
            PROVE  \A m \in Name : \A j, k \in Named(slots', m) : j = k
        BY <3>1, <4>2, PutKeepsOneEach
      <4>3. QED BY <3>5, <4>1, <4>2, LinkClean DEF Refused
    <3>6. CASE RenameDelete \/ RenameCut
      <4>1. rename[1] \in Name
        BY <3>6 DEF DirInv, TypeOK, RenameDelete, RenameCut
      <4>2. QED BY <3>1, <3>6, <4>1, DeleteTouches, RewriteKeepsOneEach DEF RenameDelete, RenameCut, Refuse
    <3>7. QED BY <1>2, <3>2, <3>3, <3>4, <3>5, <3>6 DEF Next
  <2>3. OneEach'
    BY <2>2 DEF OneEach
  <2>4. QED BY <2>1, <2>3 DEF DirInv
<1>3. QED BY <1>1, <1>2

\* As long as no transfer fails no two entries have one name, whatever labels
\* there are: fat32_create_file looks for the name first.
THEOREM NamesStayApart ==
    ASSUME \A n \in Name : Short[n] = n, ~Overwrite
    PROVE  Spec => []UniqueNames
<1>1. Init => DirInv
  BY InitInv
<1>2. DirInv /\ [Next]_vars => DirInv'
  BY NextDirInv
<1>3. DirInv => UniqueNames
  BY InvIsUnique
<1>4. QED BY <1>1, <1>2, <1>3, PTL DEF Spec

-----------------------------------------------------------------------------
(* The directory is a map                                                    *)

EntriesAre == AbstractEntries = [n \in ShortName |-> Stands(slots, n)]

LEMMA EntriesHold == ASSUME DirInv PROVE EntriesAre
  BY InvSlots, FindNamed DEF AbstractEntries, EntriesAre

\* A rename leaves the old name in the directory until it deletes it.
LEMMA NextRenameOK ==
    ASSUME DirInv, RenameOK, [Next]_vars, Plain, ~Overwrite
    PROVE  RenameOK'
<1>1. CASE UNCHANGED vars
  BY <1>1 DEF vars, RenameOK, Named
<1>2. CASE Next
  <2> SUFFICES ASSUME rename' # <<>>, ~trouble' PROVE Named(slots', rename'[1]) # {}
    BY DEF RenameOK
  <2>1. PICK old \in Name, new \in Name : RenameCreate(old, new)
    BY <1>2 DEF Next, Create, Update, Delete, RenameDelete, RenameCut
  <2>2. PICK v \in Value : /\ Named(slots, old) # {} /\ Named(slots, new) = {}
                           /\ \E i \in Slot : PutAt(i, Short[new], v)
                           /\ rename' = <<old, new, v>>
    BY <2>1, LinkClean
  <2>3. Short[new] \in ShortName /\ Short[new] = new /\ old # new
    BY <2>2, ShortNames DEF Plain
  <2>4. Named(slots', old) = Named(slots, old)
    BY <2>2, <2>3, InvSlots, PutNames
  <2>5. QED BY <2>2, <2>4
<1>3. QED BY <1>1, <1>2

LEMMA InitMap == ASSUME Init, Plain PROVE Map!Init /\ RenameOK
<1>1. AbstractEntries \in [ShortName -> Value \cup {Absent}]
  <2>1. slots \in [Slot -> SlotValue]
    BY DEF Init
  <2>2. \A n \in ShortName : Stands(slots, n) \in Value \cup {Absent}
    BY <2>1, StandsThere
  <2>3. QED BY <2>2, InitInv, EntriesHold DEF EntriesAre
<1>2. ShortName = Name
  BY DEF Plain, ShortName
<1>3. rename = <<>> /\ trouble = FALSE
  BY DEF Init
<1>4. \E n \in ShortName : reply = [op |-> "none", name |-> n, ok |-> TRUE]
  BY <1>2 DEF Init
<1>5. QED BY <1>1, <1>3, <1>4 DEF Map!Init, RenameOK

LEMMA EntriesPut ==
    ASSUME EntriesAre, EntriesAre', NEW n \in ShortName,
           \A m : m # n => Stands(slots', m) = Stands(slots, m)
    PROVE  AbstractEntries' = [AbstractEntries EXCEPT ![n] = Stands(slots', n)]
  BY DEF EntriesAre

LEMMA EntriesKept == ASSUME EntriesAre, EntriesAre', UNCHANGED slots PROVE AbstractEntries' = AbstractEntries
  BY DEF EntriesAre, Stands, Named

LEMMA EntryThere ==
    ASSUME DirInv, EntriesAre, NEW n \in ShortName
    PROVE  AbstractEntries[n] = Absent <=> Named(slots, n) = {}
  BY StandsThere DEF EntriesAre, DirInv, TypeOK

\* Writing the one slot of a name
LEMMA PutMaps ==
    ASSUME DirInv, EntriesAre, EntriesAre', NEW n \in ShortName, NEW v \in Value,
           Named(slots, n) = {}, \E i \in Slot : PutAt(i, n, v)
    PROVE  AbstractEntries[n] = Absent /\ AbstractEntries' = [AbstractEntries EXCEPT ![n] = v]
<1>1. Stands(slots', n) = v /\ \A m : m # n => Stands(slots', m) = Stands(slots, m)
  BY InvSlots, PutNames
<1>2. QED BY <1>1, EntriesPut, EntryThere

LEMMA FreeMaps ==
    ASSUME DirInv, EntriesAre, EntriesAre', ~trouble, NEW n \in ShortName,
           NEW i \in Named(slots, n), FreeAt(i, n)
    PROVE  AbstractEntries[n] # Absent /\ AbstractEntries' = [AbstractEntries EXCEPT ![n] = Absent]
<1>1. n \in Name /\ i \in Slot /\ Named(slots, n) = {i}
  BY OnlyOne DEF ShortName, Named
<1>2. Stands(slots', n) = Absent /\ \A m : m # n => Stands(slots', m) = Stands(slots, m)
  BY <1>1, InvSlots, FreeNames
<1>3. QED BY <1>1, <1>2, EntriesPut, EntryThere

LEMMA FillMaps ==
    ASSUME DirInv, EntriesAre, EntriesAre', ~trouble, NEW n \in ShortName, NEW v \in Value,
           NEW i \in Named(slots, n), FillAt(i, n, v)
    PROVE  AbstractEntries[n] # Absent /\ AbstractEntries' = [AbstractEntries EXCEPT ![n] = v]
<1>1. n \in Name /\ i \in Slot /\ Named(slots, n) = {i}
  BY OnlyOne DEF ShortName, Named
<1>2. Stands(slots', n) = v /\ \A m : m # n => Stands(slots', m) = Stands(slots, m)
  BY <1>1, InvSlots, FillNames
<1>3. QED BY <1>1, <1>2, EntriesPut, EntryThere

\* Each call, where no transfer fails, is that of the map.
LEMMA CreateMaps ==
    ASSUME DirInv, EntriesAre, EntriesAre', Plain, ~trouble', NEW n \in Name, NEW v \in Value, Create(n, v)
    PROVE  Map!Create(n, v) \/ Map!Refuse(n)
<1>1. n \in ShortName /\ Short[n] = n
  BY DEF Plain, ShortName
<1>2. /\ rename = <<>> /\ rename' = <<>> /\ trouble' = trouble
      /\ \E ok \in BOOLEAN : reply' = [op |-> "create", name |-> n, ok |-> ok]
  BY CreateDone DEF CallDone, DirInv, TypeOK, Create
<1>3. CASE Refused
  <2>1. AbstractEntries' = AbstractEntries
    BY <1>3, EntriesKept DEF Refused
  <2>2. reply' = [op |-> "create", name |-> n, ok |-> FALSE]
    <3>1. PICK ok \in BOOLEAN : reply' = [op |-> "create", name |-> n, ok |-> ok]
      BY <1>2
    <3>2. QED BY <1>3, <3>1 DEF Refused
  <2>3. QED BY <1>2, <2>1, <2>2 DEF Map!Refuse, Map!Reply
<1>4. CASE reply'.ok /\ Named(slots, n) = {} /\ \E i \in Slot : PutAt(i, Short[n], v)
  <2>1. AbstractEntries[n] = Absent /\ AbstractEntries' = [AbstractEntries EXCEPT ![n] = v]
    BY <1>1, <1>4, PutMaps
  <2>2. reply' = [op |-> "create", name |-> n, ok |-> TRUE]
    BY <1>2, <1>4
  <2>3. QED BY <1>2, <2>1, <2>2 DEF Map!Create, Map!Put, Map!Reply
<1>5. QED BY <1>3, <1>4, CreateClean

LEMMA DeleteMaps ==
    ASSUME DirInv, EntriesAre, EntriesAre', Plain, ~trouble', NEW n \in Name, Delete(n)
    PROVE  Map!Delete(n) \/ Map!Refuse(n)
<1>1. n \in ShortName /\ Label \cap Name = {}
  BY DEF Plain, ShortName
<1>2. /\ rename = <<>> /\ rename' = <<>> /\ trouble' = trouble /\ ~trouble
      /\ \E ok \in BOOLEAN : reply' = [op |-> "delete", name |-> n, ok |-> ok]
  BY DeleteDone DEF CallDone, DirInv, TypeOK, Delete
<1>3. CASE Refused /\ Named(slots, n) = {}
  <2>1. AbstractEntries' = AbstractEntries /\ AbstractEntries[n] = Absent
    BY <1>1, <1>3, EntriesKept, EntryThere DEF Refused
  <2>2. reply' = [op |-> "delete", name |-> n, ok |-> FALSE]
    <3>1. PICK ok \in BOOLEAN : reply' = [op |-> "delete", name |-> n, ok |-> ok]
      BY <1>2
    <3>2. QED BY <1>3, <3>1 DEF Refused
  <2>3. QED BY <1>2, <2>1, <2>2 DEF Map!Refuse, Map!Reply
<1>4. CASE reply'.ok /\ \E i \in Named(slots, n) : FreeAt(i, n)
  <2>1. AbstractEntries[n] # Absent /\ AbstractEntries' = [AbstractEntries EXCEPT ![n] = Absent]
    BY <1>1, <1>2, <1>4, FreeMaps
  <2>2. reply' = [op |-> "delete", name |-> n, ok |-> TRUE]
    BY <1>2, <1>4
  <2>3. QED BY <1>2, <2>1, <2>2 DEF Map!Delete, Map!Put, Map!Reply
<1>5. QED BY <1>1, <1>3, <1>4, DeleteClean

LEMMA UpdateMaps ==
    ASSUME DirInv, EntriesAre, EntriesAre', Plain, ~trouble', NEW n \in Name, NEW v \in Value, Update(n, v)
    PROVE  Map!Update(n, v)
<1>1. n \in ShortName /\ Label \cap Name = {}
  BY DEF Plain, ShortName
<1>2. /\ rename = <<>> /\ rename' = <<>> /\ trouble' = trouble /\ ~trouble
      /\ \E ok \in BOOLEAN : reply' = [op |-> "update", name |-> n, ok |-> ok]
  BY UpdateDone DEF CallDone, DirInv, TypeOK, Update
<1>3. reply'.ok /\ \E i \in Named(slots, n) : FillAt(i, n, v)
  BY <1>1, UpdateClean
<1>4. AbstractEntries[n] # Absent /\ AbstractEntries' = [AbstractEntries EXCEPT ![n] = v]
  BY <1>1, <1>2, <1>3, FillMaps
<1>5. reply' = [op |-> "update", name |-> n, ok |-> TRUE]
  BY <1>2, <1>3
<1>6. QED BY <1>2, <1>4, <1>5 DEF Map!Update, Map!Put, Map!Reply

LEMMA LinkMaps ==
    ASSUME DirInv, EntriesAre, EntriesAre', Plain, ~Overwrite, ~trouble',
           NEW old \in Name, NEW new \in Name, RenameCreate(old, new)
    PROVE  Map!Link(old, new) \/ Map!Refuse(old) \/ Map!Refuse(new)
<1>1. old \in ShortName /\ new \in ShortName /\ Short[new] = new
  BY DEF Plain, ShortName
<1>2. rename = <<>> /\ trouble' = trouble
  BY LinkDone DEF CallDone, DirInv, TypeOK, RenameCreate
<1>3. CASE /\ Refused /\ rename' = <<>>
           /\ \/ reply' = [op |-> "rename", name |-> old, ok |-> FALSE] /\ Named(slots, old) = {}
              \/ reply' = [op |-> "create", name |-> new, ok |-> FALSE]
  <2>1. AbstractEntries' = AbstractEntries /\ (AbstractEntries[old] = Absent <=> Named(slots, old) = {})
    BY <1>1, <1>3, EntriesKept, EntryThere DEF Refused
  <2>2. QED BY <1>2, <1>3, <2>1 DEF Map!Refuse, Map!Reply
<1>4. ASSUME NEW v \in Value,
             Named(slots, old) # {}, v = slots[Find(old, NumSlots)].value,
             Named(slots, new) = {}, \E i \in Slot : PutAt(i, Short[new], v),
             rename' = <<old, new, v>>, reply' = [op |-> "create", name |-> new, ok |-> TRUE]
      PROVE  Map!Link(old, new)
  <2>1. AbstractEntries[new] = Absent /\ AbstractEntries' = [AbstractEntries EXCEPT ![new] = v]
    BY <1>1, <1>4, PutMaps
  <2>2. AbstractEntries[old] # Absent /\ AbstractEntries[old] = v
    <3>1. Found(old) = v /\ Found(old) = Stands(slots, old)
      BY <1>4, InvSlots, FindNamed DEF Found
    <3>2. QED BY <1>1, <1>4, <3>1, EntryThere DEF EntriesAre
  <2>3. QED BY <1>2, <1>4, <2>1, <2>2 DEF Map!Link, Map!Put, Map!Reply
<1>5. QED BY <1>3, <1>4, LinkClean

LEMMA UnlinkMaps ==
    ASSUME DirInv, RenameOK, EntriesAre, EntriesAre', Plain, ~trouble', RenameDelete
    PROVE  Map!Unlink
<1>1. Label \cap Name = {} /\ rename # <<>>
  BY DEF Plain, RenameDelete
<1>2. /\ rename[1] \in Name /\ rename' = <<>>
      /\ reply' = [op |-> "rename", name |-> rename[1], ok |-> TRUE]
      /\ \E i \in Named(slots, rename[1]) : FreeAt(i, rename[1])
  BY <1>1, UnlinkClean
<1>3. trouble' = trouble /\ ~trouble /\ rename[1] \in ShortName
  BY <1>2, RenameDone DEF CallDone, DirInv, TypeOK, Plain, ShortName
<1>4. AbstractEntries' = [AbstractEntries EXCEPT ![rename[1]] = Absent]
  BY <1>2, <1>3, FreeMaps
<1>5. QED BY <1>1, <1>2, <1>3, <1>4 DEF Map!Unlink, Map!Put, Map!Reply

\* Whatever fails, a call leaves alone what the other names stand for.
LEMMA TroubleMaps ==
    ASSUME DirInv, EntriesAre, EntriesAre', Plain, trouble', Next
    PROVE  Map!Spoil
<1>1. PICK n \in Name, call \in {"create", "delete", "update", "rename"} :
             CallDone(call, n) /\ (rename' # <<>> => n = rename'[2])
  BY NextCalls DEF DirInv
<1>2. Touched(n) /\ reply'.name = n
  BY <1>1 DEF CallDone
<1>3. \A m \in ShortName : m # n => AbstractEntries'[m] = AbstractEntries[m]
  BY <1>2, InvSlots, CallKeepsOthers DEF EntriesAre
<1>4. QED BY <1>1, <1>2, <1>3 DEF Map!Spoil

LEMMA NextMap ==
    ASSUME DirInv, RenameOK, EntriesAre, EntriesAre', Plain, ~Overwrite, [Next]_vars
    PROVE  [Map!Next]_(Map!vars)
<1>1. ShortName = Name
  BY DEF Plain, ShortName
<1>2. CASE UNCHANGED vars
  BY <1>2, EntriesKept DEF vars, Map!vars
<1>3. CASE Next /\ trouble'
  BY <1>3, TroubleMaps DEF Map!Next
<1>4. CASE Next /\ ~trouble'
  <2>1. ~RenameCut
    BY <1>4 DEF RenameCut, Refuse
  <2>2. QED
    BY <1>1, <1>4, <2>1, CreateMaps, UpdateMaps, DeleteMaps, LinkMaps, UnlinkMaps DEF Next, Map!Next
<1>5. QED BY <1>2, <1>3, <1>4

\* While names are of 8.3 form, no label is one of them and no one renames to a
\* name that is taken, create, delete, update and rename are those of a map from
\* names to what they stand for, whatever the size of the directory and whichever
\* transfers fail.
THEOREM DirectoryIsAMap ==
    ASSUME Plain, ~Overwrite
    PROVE  Spec => ImplementsDirMap
<1>1. Init => DirInv /\ RenameOK /\ Map!Init
  BY InitInv, InitMap
<1>2. DirInv /\ RenameOK /\ [Next]_vars => (DirInv /\ RenameOK)'
  BY NextDirInv, NextRenameOK DEF Plain
<1>3. DirInv => EntriesAre
  BY EntriesHold
<1>4. DirInv /\ RenameOK /\ EntriesAre /\ EntriesAre' /\ [Next]_vars => [Map!Next]_(Map!vars)
  BY NextMap
<1>5. QED BY <1>1, <1>2, <1>3, <1>4, PTL DEF Spec, ImplementsDirMap, Map!Spec
=============================================================================
