------------------------ MODULE FingerprintMetadata ------------------------
(***************************************************************************)
(* The metadata file of a group, save_metadata_locked and                  *)
(* load_metadata_locked of fingerprint/FingerprintHAL.c, system call by    *)
(* system call: every call may fail, the process may die between any two,  *)
(* and a loss of power keeps of an unsynced file what it likes.            *)
(*                                                                         *)
(* FingerprintHAL treats a save as one step; this module shows that it may *)
(* (property Atomic, and FingerprintMetadataProofs).                       *)
(***************************************************************************)
CONSTANTS
    Values,     \* metadata records
    Zero,       \* the ids a missing file stands for
    Torn,       \* a file of the wrong length: load fails
    NoSave,
    NoFile

ASSUME ConstantsAssumption ==
    /\ Zero \notin Values /\ Torn \notin Values /\ Torn # Zero
    /\ NoSave \notin Values /\ NoSave # Zero

\* A file: its content, and whether the disk has it.
File == [data : Values \cup {Torn}, synced : BOOLEAN]

Complete == [data : Values, synced : {TRUE}]

ASSUME NoFileAssumption == NoFile \notin File

VARIABLES
    path,       \* the metadata file, or NoFile
    kept,       \* disk: the file that the name still means after a loss of power
    tmp,        \* the temporary file, or NoFile
    pc,         \* where save_metadata_locked is
    metadata,   \* the value it saves, or NoSave
    answer,     \* its last result
    loaded      \* the ids of the last load

vars == <<path, kept, tmp, pc, metadata, answer, loaded>>
diskVars == <<path, kept>>

Return(result) ==
    pc' = "idle" /\ metadata' = NoSave /\ answer' = result /\ UNCHANGED loaded

Goto(label) == pc' = label /\ UNCHANGED <<metadata, answer, loaded>>

-----------------------------------------------------------------------------
(* save_metadata_locked. *)

Save ==
    /\ pc = "idle"
    /\ metadata' \in Values
    /\ pc' = "open" /\ answer' = "none"
    /\ UNCHANGED <<diskVars, tmp, loaded>>

\* O_CREAT | O_TRUNC: what an earlier attempt has left is cut off.
Open ==
    /\ pc = "open"
    /\ \/ tmp' = [data |-> Torn, synced |-> FALSE] /\ Goto("write")
       \/ Return("error") /\ UNCHANGED tmp
    /\ UNCHANGED diskVars

\* write_exact: until its last write the file is short.
Write ==
    /\ pc = "write"
    /\ \/ tmp' = [tmp EXCEPT !.data = metadata] /\ Goto("fsync")
       \/ UNCHANGED tmp /\ Goto("close_failed")
    /\ UNCHANGED diskVars

\* Mutant: the file is renamed before it is on the disk.
FsyncSkipped == pc = "fsync" /\ Goto("close") /\ UNCHANGED <<diskVars, tmp>>

Fsync ==
    /\ pc = "fsync"
    /\ \/ tmp' = [tmp EXCEPT !.synced = TRUE] /\ Goto("close")
       \/ UNCHANGED tmp /\ Goto("close_failed")
    /\ UNCHANGED diskVars

\* close() runs in any case; its error counts only if nothing failed before.
Close ==
    /\ \/ pc = "close" /\ (Goto("rename") \/ Goto("unlink"))
       \/ pc = "close_failed" /\ Goto("unlink")
    /\ UNCHANGED <<diskVars, tmp>>

Rename ==
    /\ pc = "rename"
    /\ \/ path' = tmp /\ tmp' = NoFile /\ Return("ok")
       \/ UNCHANGED <<path, tmp>> /\ Goto("unlink")
    /\ UNCHANGED kept

Unlink ==
    /\ pc = "unlink"
    /\ tmp' \in {NoFile, tmp}
    /\ Return("error")
    /\ UNCHANGED diskVars

\* load_metadata_locked: zeros for a missing file, and an error, which Torn
\* stands for, for a short one.
Decode(file) == IF file = NoFile THEN Zero ELSE file.data

Load ==
    /\ pc = "idle"
    /\ loaded' = Decode(path)
    /\ UNCHANGED <<diskVars, tmp, pc, metadata, answer>>

-----------------------------------------------------------------------------
(* The environment: writeback, the death of the process, a loss of power. *)

\* The directory reaches the disk.
Writeback == kept' = path /\ UNCHANGED <<path, tmp, pc, metadata, answer, loaded>>

Restart == pc' = "idle" /\ metadata' = NoSave /\ answer' = "none" /\ UNCHANGED loaded

Crash == Restart /\ UNCHANGED <<diskVars, tmp>>

\* What a loss of power may leave of a file.
Survivors(file) ==
    IF file = NoFile THEN {NoFile}
    ELSE {[data |-> file.data, synced |-> TRUE]}
         \cup (IF file.synced THEN {} ELSE {[data |-> Torn, synced |-> TRUE]})

PowerLoss ==
    /\ path' \in Survivors(path) \cup Survivors(kept)
    /\ kept' = path'
    /\ tmp' \in {NoFile} \cup Survivors(tmp)
    /\ Restart

-----------------------------------------------------------------------------
Init ==
    /\ path = NoFile /\ kept = NoFile /\ tmp = NoFile
    /\ pc = "idle" /\ metadata = NoSave /\ answer = "none" /\ loaded = Zero

Next ==
    \/ Save \/ Open \/ Write \/ Fsync \/ Close \/ Rename \/ Unlink \/ Load
    \/ Writeback \/ Crash \/ PowerLoss

Spec == Init /\ [][Next]_vars

-----------------------------------------------------------------------------
(* Properties. *)

\* Every variable has its type, and a file reaches the final name only when it
\* is complete and on the disk (lines 196-203).
TypeOK ==
    /\ path \in Complete \cup {NoFile} /\ kept \in Complete \cup {NoFile}
    /\ tmp \in File \cup {NoFile}
    /\ pc \in {"idle", "open", "write", "fsync", "close", "close_failed", "rename", "unlink"}
    /\ metadata \in Values \cup {NoSave}
    /\ answer \in {"none", "ok", "error"}
    /\ loaded \in Values \cup {Zero}

Register == INSTANCE AtomicMetadata WITH
    value <- Decode(path), durable <- Decode(kept), pending <- metadata

\* The temporary file, fsync and rename implement an atomic register: whatever
\* call fails and whenever the process dies or the power goes, a load finds
\* the old metadata or the new, and a save that returned 0 the new.
Atomic == Register!Spec
=============================================================================
