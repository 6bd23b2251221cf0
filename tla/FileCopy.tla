------------------------------ MODULE FileCopy ------------------------------
(***************************************************************************)
(* fat32_copy (src/drivers/fat32/file.c): two open files on one disk, the  *)
(* source read and the target written BufferSize bytes at a time.          *)
(*                                                                         *)
(* The source is the file of FileCursor, the target a second instance of   *)
(* it with the same FAT and disk.  The path of the target is free when the *)
(* copy starts.                                                            *)
(***************************************************************************)
EXTENDS FileCursor, SequencesExt

CONSTANT BufferSize     \* sizeof(copy_buffer)

ASSUME BufferAssumption == BufferSize \in 1 .. MaxMove

VARIABLES
    dstEntry, dstHandle, dstCall,       \* the target and dst_fd
    dstTrouble,                         \* history: what went wrong on its side
    dstExists,                          \* the target has a directory entry
    pc,                                 \* where fat32_copy stands
    goal,                               \* the target's position if the write succeeds
    result,                             \* what it returned, "none" before
    original,                           \* history: the source as it was
    before                              \* history: the FAT as it was

Dst == INSTANCE FileCursor WITH entry <- dstEntry, handle <- dstHandle, call <- dstCall,
                              trouble <- dstTrouble

disk == <<fat, data>>
source == <<entry, handle, call, trouble>>
target == <<dstEntry, dstHandle, dstCall, dstExists, dstTrouble>>
history == <<original, before>>
copyVars == <<disk, source, target, pc, goal, result, history>>

NoFile == [first |-> 0, size |-> 0]

CopyInit ==
    /\ Init
    /\ dstTrouble = {}
    /\ dstEntry = NoFile
    /\ dstHandle = Closed
    /\ dstCall = NoCall
    /\ dstExists = FALSE
    /\ pc = "open"
    /\ goal = 0
    /\ result = "none"
    /\ original = Content(entry.first, entry.size)
    /\ before = fat

-----------------------------------------------------------------------------
Go(from, to) == pc = from /\ pc' = to

OpenSource ==
    /\ Go("open", "create")
    /\ Open
    /\ UNCHANGED <<target, goal, result, history>>

\* fat32_create_file, then fat32_open of what it made.
CreateTarget ==
    /\ Go("create", "copy")
    /\ dstExists' = TRUE
    /\ Dst!Open
    /\ UNCHANGED <<source, goal, result, history>>

\* There is no room for the entry, or it cannot be written.
CreateFail ==
    /\ Go("create", "done")
    /\ Close(TRUE)
    /\ result' = "failed"
    /\ UNCHANGED <<target, goal, history>>

\* No handle is free for the target, or its entry cannot be read again.
OpenFail ==
    /\ Go("create", "abandon")
    /\ dstExists' = TRUE
    /\ UNCHANGED <<disk, source, dstEntry, dstHandle, dstCall, dstTrouble, goal, result, history>>

Read ==
    /\ Go("copy", "reading")
    /\ CallRead(BufferSize)
    /\ UNCHANGED <<target, goal, result, history>>

Reading ==
    /\ pc = "reading"
    /\ Turn
    /\ UNCHANGED <<target, pc, goal, result, history>>

HasRead == pc = "reading" /\ call.op = "none"

\* Nothing was read: the end of the file, or an error, which looks the same.
Finish ==
    /\ HasRead
    /\ call.out = <<>>
    /\ pc' = "close"
    /\ UNCHANGED <<disk, source, target, goal, result, history>>

Write ==
    /\ HasRead
    /\ call.out # <<>>
    /\ pc' = "writing"
    /\ goal' = dstHandle.position + Len(call.out)
    /\ Dst!CallWrite(call.out) \/ Dst!CallWriteFail
    /\ UNCHANGED <<source, dstExists, result, history>>

Writing ==
    /\ pc = "writing"
    /\ Dst!Turn
    /\ UNCHANGED <<source, dstExists, pc, goal, result, history>>

\* Mutant: a short write passes for a whole one.
WrittenUnseen ==
    /\ pc = "writing"
    /\ dstCall.op = "none"
    /\ pc' = "copy"
    /\ UNCHANGED <<disk, source, target, goal, result, history>>

\* The result of fat32_write is compared with the number of bytes it was given.
Written ==
    /\ pc = "writing"
    /\ dstCall.op = "none"
    /\ pc' = IF dstHandle.position = goal THEN "copy" ELSE "abandon"
    /\ UNCHANGED <<disk, source, target, goal, result, history>>

\* fat32_close of both; a handle that was not dirty has nothing to write.
CloseTarget(told) ==
    /\ Go("close", "done")
    /\ Dst!Close(told)
    /\ handle' = Closed
    /\ call' = NoCall
    /\ result' = "copied"
    /\ UNCHANGED <<entry, trouble, dstExists, goal, history>>

\* Mutant: the part of the target that was made is left behind.
AbandonWithoutDelete(told) ==
    /\ Go("abandon", "done")
    /\ IF dstHandle.inUse THEN Dst!Close(told)
                          ELSE UNCHANGED <<disk, dstEntry, dstHandle, dstCall, dstTrouble>>
    /\ handle' = Closed
    /\ call' = NoCall
    /\ result' = "failed"
    /\ UNCHANGED <<entry, trouble, dstExists, goal, history>>

AbandonTarget(told) ==
    /\ Go("abandon", "delete")
    /\ IF dstHandle.inUse THEN Dst!Close(told)
                          ELSE UNCHANGED <<disk, dstEntry, dstHandle, dstCall, dstTrouble>>
    /\ handle' = Closed
    /\ call' = NoCall
    /\ UNCHANGED <<entry, trouble, dstExists, goal, result, history>>

\* The clusters of the chain that starts at c.
ChainOf(c) == {ChainAt(c, k) : k \in 0 .. NumClusters} \cap Cluster

\* fat32_delete frees the chain and marks the entry deleted.
DeleteTarget ==
    /\ Go("delete", "done")
    /\ fat' = [c \in Cluster |->
                 IF c \in ChainOf(dstEntry.first) THEN Free ELSE fat[c]]
    /\ dstEntry' = NoFile
    /\ dstExists' = FALSE
    /\ result' = "failed"
    /\ UNCHANGED <<data, dstTrouble, source, dstHandle, dstCall, goal, history>>

\* Freeing stops at a transfer that fails, or deleting does.
DeleteFail(freed) ==
    /\ Go("delete", "done")
    /\ freed \in SUBSET ChainOf(dstEntry.first)
    /\ fat' = [c \in Cluster |-> IF c \in freed THEN Free ELSE fat[c]]
    /\ dstExists' \in BOOLEAN
    /\ dstTrouble' = dstTrouble \cup {"failed"}
    /\ result' = "failed"
    /\ UNCHANGED <<data, source, dstEntry, dstHandle, dstCall, goal, history>>

\* The system call has returned.
Done == pc = "done" /\ UNCHANGED copyVars

CopyNext ==
    \/ OpenSource \/ CreateTarget \/ CreateFail \/ OpenFail
    \/ Read \/ Reading \/ Finish
    \/ Write \/ Writing \/ Written
    \/ \E told \in BOOLEAN : CloseTarget(told) \/ AbandonTarget(told)
    \/ DeleteTarget
    \/ \E freed \in SUBSET Cluster : DeleteFail(freed)
    \/ Done

\* The copy is one system call: nothing else runs until it returns.
CopySpec == CopyInit /\ [][CopyNext]_copyVars

-----------------------------------------------------------------------------
CopyOf == Content(dstEntry.first, dstEntry.size)

\* FILESYSTEM.md: `cp' is `Copy file'.  Unless a transfer of the target failed, a
\* copy that is reported made begins as the source does; the end is missing only
\* where the source could not be read.  The source stays as it was.
CopyIsFaithful ==
    result = "copied" /\ "failed" \notin dstTrouble =>
        /\ IsPrefix(CopyOf, original)
        /\ "failed" \notin trouble => CopyOf = original
        /\ Content(entry.first, entry.size) = original

\* A copy that fails on a full disk gives back all it took.
FailedCopyLeavesNothing ==
    result = "failed" /\ "failed" \notin dstTrouble => fat = before /\ ~dstExists

\* cp.c prints `failed to copy' unless the copy was made: success is reported
\* only for a copy that is the source.
SuccessMeansCopied == result = "copied" => CopyOf = original
=============================================================================
