-------------------------------- MODULE DirMap --------------------------------
(***************************************************************************)
(* What a directory promises its users: a map from names to values (what   *)
(* the name stands for: first cluster, size, attributes) and answers that  *)
(* tell what was done to it.  Names are those of 8.3 form.  Once a         *)
(* transfer has failed there is `trouble', and all that is left is that an *)
(* operation on one name leaves the others alone.                          *)
(***************************************************************************)
CONSTANTS Name, Value,
          Absent            \* the value of a name that is not there

VARIABLES entries,          \* name -> value
          rename,           \* old name, new name and value of a half-made rename
          reply,            \* the last call, its name, and whether it succeeded
          trouble

vars == <<entries, rename, reply, trouble>>

Init ==
    /\ entries \in [Name -> Value \cup {Absent}]
    /\ rename = <<>>
    /\ \E n \in Name : reply = [op |-> "none", name |-> n, ok |-> TRUE]
    /\ trouble = FALSE

Put(n, v) == entries' = [entries EXCEPT ![n] = v]
Reply(call, n, success) == reply' = [op |-> call, name |-> n, ok |-> success]

Create(n, v) ==
    /\ rename = <<>>
    /\ entries[n] = Absent
    /\ Put(n, v)
    /\ Reply("create", n, TRUE)
    /\ UNCHANGED <<rename, trouble>>

Update(n, v) ==
    /\ rename = <<>>
    /\ entries[n] # Absent
    /\ Put(n, v)
    /\ Reply("update", n, TRUE)
    /\ UNCHANGED <<rename, trouble>>

Delete(n) ==
    /\ rename = <<>>
    /\ entries[n] # Absent
    /\ Put(n, Absent)
    /\ Reply("delete", n, TRUE)
    /\ UNCHANGED <<rename, trouble>>

\* In two steps: the value is under both names in between.
Link(old, new) ==
    /\ rename = <<>>
    /\ entries[old] # Absent /\ entries[new] = Absent
    /\ Put(new, entries[old])
    /\ Reply("create", new, TRUE)
    /\ rename' = <<old, new, entries[old]>>
    /\ UNCHANGED trouble

Unlink ==
    /\ rename # <<>>
    /\ Put(rename[1], Absent)
    /\ Reply("rename", rename[1], TRUE)
    /\ rename' = <<>>
    /\ UNCHANGED trouble

\* Only creation may be refused to a caller who asks for what can be done: the
\* directory may be full.
Refuse(n) ==
    /\ rename = <<>>
    /\ \/ Reply("create", n, FALSE)
       \/ entries[n] = Absent /\ \E call \in {"delete", "rename"} : Reply(call, n, FALSE)
    /\ UNCHANGED <<entries, rename, trouble>>

\* A transfer failed, now or before.
Spoil ==
    /\ trouble'
    /\ \A n \in Name : entries'[n] # entries[n] => n = reply'.name
    /\ rename' # <<>> => reply'.name = rename'[2]

Next ==
    \/ Spoil
    \/ \E n \in Name, v \in Value : Create(n, v) \/ Update(n, v)
    \/ \E n \in Name : Delete(n) \/ Refuse(n)
    \/ \E old, new \in Name : Link(old, new)
    \/ Unlink

Spec == Init /\ [][Next]_vars
=============================================================================
