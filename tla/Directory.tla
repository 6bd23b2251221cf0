------------------------------ MODULE Directory ------------------------------
(***************************************************************************)
(* One directory of the FAT32 driver (src/drivers/fat32/directory.c) under *)
(* the operations of file.c that change it.                                *)
(*                                                                         *)
(* The directory is the slots of its clusters in order.  Every operation   *)
(* scans them from the start and writes one of them, and nothing runs in   *)
(* between, so that each function is a step; `reach' says how far a scan   *)
(* got before a transfer failed.                                           *)
(***************************************************************************)
EXTENDS Integers

CONSTANTS
    NumClusters,        \* clusters of the directory, which never grows
    PerCluster,         \* entries_per_cluster
    Name,               \* names a caller may give, in upper case
    Short,              \* what string_to_short_name makes of each
    Label,              \* names a volume label on the disk may have
    Value,              \* what an entry says: first cluster, size, attributes
    Absent,
    Overwrite           \* whether callers rename to names that are taken

ASSUME DirectoryAssumption ==
    /\ NumClusters \in Nat \ {0}
    /\ PerCluster \in Nat \ {0}
    /\ Short \in [Name -> Name]
    /\ \A n \in Name : Short[Short[n]] = Short[n]
    /\ Absent \notin Value
    /\ Overwrite \in BOOLEAN

NumSlots == NumClusters * PerCluster
Slot == 1 .. NumSlots
ShortName == {n \in Name : Short[n] = n}

\* A slot of 32 bytes, by its first byte and attributes.
End == [kind |-> "end"]                     \* FAT32_ENTRY_END
Unused == [kind |-> "free"]                 \* FAT32_ENTRY_FREE
Entry(n, v) == [kind |-> "entry", name |-> n, value |-> v]
SlotValue ==
    {End, Unused}
      \cup [kind : {"lfn"}, name : ShortName]       \* the long name of `name'
      \cup [kind : {"label"}, name : Label]
      \cup [kind : {"entry"}, name : ShortName, value : Value]

VARIABLES
    slots,      \* the directory on the disk
    rename,     \* old name, new name and value of a fat32_rename between its
                \* two writes, or <<>>
    reply,      \* the last call, the name it was about, and whether it succeeded
    trouble     \* history: a transfer failed

vars == <<slots, rename, reply, trouble>>

TypeOK ==
    /\ slots \in [Slot -> SlotValue]
    /\ rename \in {<<>>} \cup (Name \X Name \X Value)
    /\ reply \in [op : {"none", "create", "delete", "update", "rename"},
                  name : Name, ok : BOOLEAN]
    /\ trouble \in BOOLEAN

-----------------------------------------------------------------------------
Ended(i) == \E j \in 1 .. i : slots[j] = End
IsEntry(i) == slots[i].kind = "entry"

\* How many slots a scan sees: all, or those of the clusters before the one
\* that cannot be read or whose link cannot.
Reach == {PerCluster * k : k \in 0 .. NumClusters}
Cut(reach) == reach < NumSlots

\* The first slot of a set, or 0.
FirstOf(S) == IF S = {} THEN 0 ELSE CHOOSE i \in S : \A j \in S : i =< j

\* fat32_find_entry; a name that is not of 8.3 form equals none in the slots.
Find(n, reach) ==
    FirstOf({i \in 1 .. reach : ~Ended(i) /\ IsEntry(i) /\ slots[i].name = n})

\* fat32_delete_entry and fat32_update_entry pass over long names, but not over
\* volume labels.
FindAny(n, reach) ==
    FirstOf({i \in 1 .. reach : /\ ~Ended(i)
                                /\ slots[i].kind \in {"entry", "label"}
                                /\ slots[i].name = n})

\* fat32_find_free_entry
FindFree(reach) ==
    FirstOf({i \in 1 .. reach : slots[i].kind \in {"end", "free"}})

\* A directory another system may have left: names differ, a long name stands
\* before its entry, and nothing lies behind the end.
Init ==
    /\ slots \in [Slot -> SlotValue]
    /\ \A i \in Slot : slots[i] = End => \A j \in i .. NumSlots : slots[j] = End
    /\ \A i, j \in Slot :
         slots[i].kind = slots[j].kind /\ slots[i].kind \in {"entry", "label"} =>
             i = j \/ slots[i].name # slots[j].name
    /\ \A i \in Slot :
         slots[i].kind = "lfn" =>
             /\ i < NumSlots
             /\ slots[i + 1].kind = "entry"
             /\ slots[i + 1].name = slots[i].name
    /\ rename = <<>>
    /\ \E n \in Name : reply = [op |-> "none", name |-> n, ok |-> TRUE]
    /\ trouble = FALSE

Reply(call, n, success) == reply' = [op |-> call, name |-> n, ok |-> success]

\* A slot is written, or the write fails, having reached its sector or not.
Store(i, value, call, n, bad) ==
    \/ /\ slots' = [slots EXCEPT ![i] = value]
       /\ Reply(call, n, TRUE)
       /\ trouble' = (trouble \/ bad)
    \/ /\ slots' \in {slots, [slots EXCEPT ![i] = value]}
       /\ Reply(call, n, FALSE)
       /\ trouble' = TRUE

\* A call that leaves the directory as it is.
Refuse(call, n, bad) ==
    /\ Reply(call, n, FALSE)
    /\ trouble' = (trouble \/ bad)
    /\ UNCHANGED slots

-----------------------------------------------------------------------------
\* fat32_create_entry.  A scan that has lost its way after a failed read of the
\* FAT may find room, and write, where there is no directory.
CreateEntry(n, v, reach, bad) ==
    LET i == FindFree(reach)
    IN  \/ i # 0 /\ Store(i, Entry(Short[n], v), "create", n, bad \/ Cut(reach))
        \/ i = 0 /\ Refuse("create", n, bad \/ Cut(reach))
        \/ /\ i = 0 /\ Cut(reach)
           /\ Reply("create", n, TRUE)
           /\ trouble' = TRUE
           /\ UNCHANGED slots

\* Mutant: fat32_create_file does not look for the name first.
CreateBlind(n, v) ==
    /\ rename = <<>>
    /\ \E reach \in Reach : CreateEntry(n, v, reach, FALSE)
    /\ UNCHANGED rename

\* fat32_create_file, fat32_create_dir: not if the name is found.
Create(n, v) ==
    /\ rename = <<>>
    /\ \E seen, reach \in Reach :
         \/ Find(n, seen) # 0 /\ Refuse("create", n, Cut(seen))
         \/ Find(n, seen) = 0 /\ CreateEntry(n, v, reach, Cut(seen))
    /\ UNCHANGED rename

\* fat32_delete_entry and fat32_update_entry: the first slot of the name, label
\* or not, gets a new first byte or new fields.
Rewrite(n, value, call, reach) ==
    LET i == FindAny(n, reach)
    IN  \/ i # 0 /\ Store(i, value[i], call, n, Cut(reach))
        \/ i = 0 /\ Refuse(call, n, Cut(reach))

\* Mutant: a deleted slot is marked as the end.
FreedAsEnd == [i \in Slot |-> End]

\* What they make of each slot.
Freed == [i \in Slot |-> Unused]                      \* FAT32_ENTRY_FREE
Filled(v) == [i \in Slot |-> IF IsEntry(i) THEN [slots[i] EXCEPT !.value = v]
                             ELSE slots[i]]

\* fat32_delete, for what it does to the directory.
Delete(n) ==
    /\ rename = <<>>
    /\ \E seen, reach \in Reach :
         \/ Find(n, seen) = 0 /\ Refuse("delete", n, Cut(seen))
         \/ Find(n, seen) # 0 /\ Rewrite(n, Freed, "delete", reach)
    /\ UNCHANGED rename

\* fat32_close calls fat32_update_entry by the name the file was opened with,
\* which was in the directory then.
Update(n, v) ==
    /\ rename = <<>>
    /\ Find(n, NumSlots) # 0
    /\ \E reach \in Reach : Rewrite(n, Filled(v), "update", reach)
    /\ UNCHANGED rename

\* fat32_rename first makes the new entry, with the value of the old one; it
\* does not look whether the new name is taken.
RenameCreate(old, new) ==
    /\ rename = <<>>
    /\ Overwrite \/ Find(new, NumSlots) = 0
    /\ \E seen, reach \in Reach :
         \/ /\ Find(old, seen) = 0
            /\ Refuse("rename", old, Cut(seen))
            /\ UNCHANGED rename
         \/ /\ Find(old, seen) # 0
            /\ LET v == slots[Find(old, seen)].value
               IN  /\ CreateEntry(new, v, reach, Cut(seen))
                   /\ rename' = IF reply'.ok THEN <<old, new, v>> ELSE <<>>

\* Mutant: the rename deletes by the new name.
RenameDeleteNew ==
    /\ rename # <<>>
    /\ \E reach \in Reach : Rewrite(rename[2], Freed, "rename", reach)
    /\ rename' = <<>>

\* Then it deletes the old one.
RenameDelete ==
    /\ rename # <<>>
    /\ \E reach \in Reach : Rewrite(rename[1], Freed, "rename", reach)
    /\ rename' = <<>>

\* The power goes between the two: the caller hears nothing.
RenameCut ==
    /\ rename # <<>>
    /\ Refuse("rename", rename[1], TRUE)
    /\ rename' = <<>>

Next ==
    \/ \E n \in Name, v \in Value : Create(n, v) \/ Update(n, v)
    \/ \E n \in Name : Delete(n)
    \/ \E old, new \in Name : RenameCreate(old, new)
    \/ RenameDelete
    \/ RenameCut

Spec == Init /\ [][Next]_vars

-----------------------------------------------------------------------------
\* What a name stands for.
Found(n) == LET i == Find(n, NumSlots)
            IN  IF i = 0 THEN Absent ELSE slots[i].value

\* Where no transfer has failed no two entries have one name: a second would be
\* out of reach, and come to light when the first is deleted.
UniqueNames ==
    ~trouble =>
        \A i, j \in Slot : IsEntry(i) /\ IsEntry(j) /\ slots[i].name = slots[j].name
                               => i = j

\* Every scan stops at the first END slot, so nothing may ever stand behind one,
\* whatever fails: creation takes the first slot it can, and deletion must not
\* leave an END where entries follow.
NothingBehindEnd == \A i \in Slot : slots[i] # End => ~Ended(i)

\* While names are of 8.3 form and there is no label, the directory is a map:
\* an operation changes what its own name stands for, in the way it was asked
\* to, and after failures still nothing but its own name.
AbstractEntries == [n \in ShortName |-> Found(n)]
Map == INSTANCE DirMap WITH Name <- ShortName, entries <- AbstractEntries
ImplementsDirMap == Map!Spec

\* The name `ls' shows is that of the entry: fat32_read_dir collects a long name
\* from the slots before an entry, and deletion leaves those slots there.
Pending[i \in 0 .. NumSlots] ==
    IF i = 0 THEN <<>>
    ELSE CASE slots[i].kind = "lfn" -> <<slots[i].name>>
           [] slots[i].kind = "free" -> Pending[i - 1]
           [] OTHER -> <<>>
ListingIsRight ==
    \A i \in Slot : IsEntry(i) /\ ~Ended(i) => Pending[i - 1] \in {<<>>, <<slots[i].name>>}

\* `touch': a file reported as created can be found by its name.
CreatedIsFound ==
    reply.op = "create" /\ reply.ok /\ ~trouble => Found(reply.name) # Absent

\* `rm': a file reported as deleted is there no more.
DeletedIsGone ==
    reply.op = "delete" /\ reply.ok /\ ~trouble => Found(reply.name) = Absent

\* `mv': when a rename is reported as done, the new name stands for what the old
\* one did.
RenamedIsThere ==
    [][rename # <<>> /\ reply'.ok /\ ~trouble' =>
           \A n \in Name : n = rename[2] => Found(n)' = rename[3]]_vars

=============================================================================
