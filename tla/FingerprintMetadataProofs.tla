--------------------- MODULE FingerprintMetadataProofs ---------------------
(***************************************************************************)
(* The steps of save_metadata_locked implement an atomic register.         *)
(***************************************************************************)
EXTENDS FingerprintMetadata, TLAPS

\* How far the temporary file has got at each point of the save.
SaveInv ==
    /\ pc = "idle" <=> metadata = NoSave
    /\ pc \in {"write", "fsync", "close", "rename"} => tmp # NoFile
    /\ pc \in {"fsync", "close", "rename"} => tmp.data = metadata
    /\ pc \in {"close", "rename"} => tmp.synced = TRUE

Inv == TypeOK /\ SaveInv

LEMMA InitInv == Init => Inv
  BY ConstantsAssumption DEF Init, Inv, TypeOK, SaveInv

\* A loss of power leaves a complete file as it is.
LEMMA CompleteSurvives ==
    ASSUME NEW f \in Complete \cup {NoFile}
    PROVE  Survivors(f) = {f}
  <1>1. CASE f = NoFile
    BY <1>1 DEF Survivors
  <1>2. CASE f # NoFile
    <2>1. f.synced = TRUE /\ f = [data |-> f.data, synced |-> TRUE]
      BY <1>2 DEF Complete
    <2>. QED  BY <1>2, <2>1 DEF Survivors
  <1>. QED  BY <1>1, <1>2

LEMMA SurvivorsAreFiles ==
    ASSUME NEW f \in File \cup {NoFile}
    PROVE  Survivors(f) \subseteq File \cup {NoFile}
  <1>1. CASE f = NoFile
    BY <1>1 DEF Survivors
  <1>2. CASE f # NoFile
    <2>1. f.data \in Values \cup {Torn}
      BY <1>2 DEF File
    <2>2. [data |-> f.data, synced |-> TRUE] \in File /\ [data |-> Torn, synced |-> TRUE] \in File
      BY <2>1 DEF File
    <2>. QED  BY <1>2, <2>2 DEF Survivors
  <1>. QED  BY <1>1, <1>2

LEMMA NextInv == ASSUME Inv, [Next]_vars PROVE Inv'
  <1>. USE DEF Inv, TypeOK, SaveInv, diskVars, Goto, Return
  <1>0. NoSave \notin Values /\ NoFile \notin File
    BY ConstantsAssumption, NoFileAssumption
  <1>1. CASE Save
    BY <1>0, <1>1 DEF Save
  <1>2. CASE Open
    <2>1. CASE /\ tmp' = [data |-> Torn, synced |-> FALSE]
               /\ Goto("write") /\ UNCHANGED diskVars
      <3>1. tmp' \in File
        BY <2>1 DEF File
      <3>2. tmp' # NoFile
        BY <1>0, <3>1
      <3>. QED  BY <1>2, <2>1, <3>1, <3>2 DEF Open
    <2>2. CASE Return("error") /\ UNCHANGED tmp /\ UNCHANGED diskVars
      BY <1>2, <2>2 DEF Open
    <2>. QED  BY <1>2, <2>1, <2>2 DEF Open
  <1>3. CASE Write
    <2>1. CASE tmp' = [tmp EXCEPT !.data = metadata] /\ Goto("fsync") /\ UNCHANGED diskVars
      <3>1. tmp \in File /\ metadata \in Values
        BY <1>3 DEF Write
      <3>2. tmp' \in File /\ tmp'.data = metadata
        BY <2>1, <3>1 DEF File
      <3>. QED  BY <1>0, <1>3, <2>1, <3>2 DEF Write
    <2>2. CASE UNCHANGED tmp /\ Goto("close_failed") /\ UNCHANGED diskVars
      BY <1>3, <2>2 DEF Write
    <2>. QED  BY <1>3, <2>1, <2>2 DEF Write
  <1>4. CASE Fsync
    <2>1. CASE tmp' = [tmp EXCEPT !.synced = TRUE] /\ Goto("close") /\ UNCHANGED diskVars
      <3>1. tmp \in File /\ tmp.data = metadata
        BY <1>4 DEF Fsync
      <3>2. tmp' \in File /\ tmp'.data = metadata /\ tmp'.synced = TRUE
        BY <2>1, <3>1 DEF File
      <3>. QED  BY <1>0, <1>4, <2>1, <3>2 DEF Fsync
    <2>2. CASE UNCHANGED tmp /\ Goto("close_failed") /\ UNCHANGED diskVars
      BY <1>4, <2>2 DEF Fsync
    <2>. QED  BY <1>4, <2>1, <2>2 DEF Fsync
  <1>5. CASE Close
    BY <1>5 DEF Close
  <1>6. CASE Rename
    <2>1. pc = "rename" /\ tmp \in File /\ metadata \in Values
          /\ tmp.data = metadata /\ tmp.synced = TRUE
      BY <1>6 DEF Rename
    <2>2. tmp \in Complete
      BY <2>1 DEF File, Complete
    <2>3. CASE path' = tmp /\ tmp' = NoFile /\ Return("ok") /\ UNCHANGED kept
      BY <2>2, <2>3
    <2>4. CASE UNCHANGED <<path, tmp>> /\ Goto("unlink") /\ UNCHANGED kept
      BY <2>1, <2>4
    <2>. QED  BY <1>6, <2>3, <2>4 DEF Rename
  <1>7. CASE Unlink
    BY <1>7 DEF Unlink
  <1>8. CASE Load
    <2>1. Decode(path) \in Values \cup {Zero}
      BY DEF Decode, Complete
    <2>. QED  BY <1>8, <2>1 DEF Load
  <1>9. CASE Writeback
    BY <1>9 DEF Writeback
  <1>10. CASE Crash
    BY <1>10 DEF Crash, Restart
  <1>11. CASE PowerLoss
    <2>1. path' \in {path, kept} /\ kept' = path'
      BY <1>11, CompleteSurvives DEF PowerLoss
    <2>2. tmp' \in File \cup {NoFile}
      BY <1>11, SurvivorsAreFiles DEF PowerLoss
    <2>. QED  BY <1>11, <2>1, <2>2 DEF PowerLoss, Restart
  <1>12. CASE UNCHANGED vars
    BY <1>12 DEF vars
  <1>. QED  BY <1>1, <1>2, <1>3, <1>4, <1>5, <1>6, <1>7, <1>8, <1>9, <1>10, <1>11, <1>12
            DEF Next

\* Every step of a save is a step of the register or changes nothing in it.
LEMMA StepRefines ==
    ASSUME Inv, [Next]_vars
    PROVE  [Register!Next]_(Register!vars)
  <1>. USE DEF Inv, TypeOK, SaveInv, diskVars, Goto, Return, Register!vars
  <1>0. NoSave \notin Values
    BY ConstantsAssumption
  <1>1. CASE Save
    BY <1>0, <1>1 DEF Save, Register!Next, Register!Begin
  <1>2. CASE Open
    BY <1>2 DEF Open, Register!Next, Register!Abort
  <1>3. CASE Write \/ Fsync \/ Close
    BY <1>3 DEF Write, Fsync, Close
  <1>4. CASE Rename
    <2>1. CASE path' = tmp /\ tmp' = NoFile /\ Return("ok") /\ UNCHANGED kept
      <3>1. pc = "rename" /\ Decode(path)' = metadata
        BY <1>4, <2>1 DEF Rename, Decode
      <3>. QED  BY <2>1, <3>1 DEF Register!Next, Register!Commit
    <2>2. CASE UNCHANGED <<path, tmp>> /\ Goto("unlink") /\ UNCHANGED kept
      BY <2>2
    <2>. QED  BY <1>4, <2>1, <2>2 DEF Rename
  <1>5. CASE Unlink
    BY <1>5 DEF Unlink, Register!Next, Register!Abort
  <1>6. CASE Load
    BY <1>6 DEF Load, Register!Next, Register!Load
  <1>7. CASE Writeback
    BY <1>7 DEF Writeback, Register!Next, Register!Persist
  <1>8. CASE Crash
    BY <1>8 DEF Crash, Restart, Register!Next, Register!Crash
  <1>9. CASE PowerLoss
    <2>1. path' \in {path, kept} /\ kept' = path'
      BY <1>9, CompleteSurvives DEF PowerLoss
    <2>2. Decode(path)' \in {Decode(path), Decode(kept)} /\ Decode(kept)' = Decode(path)'
      BY <2>1
    <2>. QED  BY <1>9, <2>2 DEF PowerLoss, Restart, Register!Next, Register!PowerLoss
  <1>10. CASE UNCHANGED vars
    BY <1>10 DEF vars
  <1>. QED  BY <1>1, <1>2, <1>3, <1>4, <1>5, <1>6, <1>7, <1>8, <1>9, <1>10 DEF Next

-----------------------------------------------------------------------------
\* The inductive invariant of a save.
THEOREM Inductive == Spec => []Inv
  BY InitInv, NextInv, PTL DEF Spec

\* The file under the final name is always complete and on the disk.
THEOREM TypeCorrect == Spec => []TypeOK
  <1>1. Inv => TypeOK
    BY DEF Inv
  <1>. QED  BY <1>1, Inductive, PTL

\* The temporary file, fsync and rename implement the atomic register that
\* FingerprintHAL assumes, for every set of values and every failure.
THEOREM SaveIsAtomic == Spec => Atomic
  <1>1. Init => Register!Init
    BY DEF Init, Register!Init, Decode
  <1>2. Inv /\ [Next]_vars => [Register!Next]_(Register!vars)
    BY StepRefines
  <1>. QED  BY <1>1, <1>2, Inductive, PTL DEF Spec, Atomic, Register!Spec
=============================================================================
