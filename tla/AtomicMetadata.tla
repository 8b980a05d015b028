--------------------------- MODULE AtomicMetadata ---------------------------
(***************************************************************************)
(* What the fingerprint HAL may expect of its metadata file: a register    *)
(* that is replaced as a whole or not at all.  A save that was interrupted *)
(* or has failed leaves the old value; a loss of power may bring back the  *)
(* value that was durable before, never anything else.  FingerprintHAL     *)
(* relies on this: its save_metadata is one step.                          *)
(***************************************************************************)
CONSTANTS Values, Zero, NoSave

VARIABLES
    value,      \* what a load returns
    durable,    \* what a loss of power may bring back
    pending,    \* the value of the save in progress, or NoSave
    answer,     \* what the last save returned: "none", "ok", "error"
    loaded      \* what the last load returned

vars == <<value, durable, pending, answer, loaded>>

Init == value = Zero /\ durable = Zero /\ pending = NoSave /\ answer = "none" /\ loaded = Zero

Begin == pending = NoSave /\ pending' \in Values /\ answer' = "none"
         /\ UNCHANGED <<value, durable, loaded>>

Commit == pending # NoSave /\ value' = pending /\ pending' = NoSave /\ answer' = "ok"
          /\ UNCHANGED <<durable, loaded>>

Abort == pending # NoSave /\ pending' = NoSave /\ answer' = "error"
         /\ UNCHANGED <<value, durable, loaded>>

Load == pending = NoSave /\ loaded' = value /\ UNCHANGED <<value, durable, pending, answer>>

Persist == durable' = value /\ UNCHANGED <<value, pending, answer, loaded>>

\* The process dies; nobody learns how the save ended.
Crash == pending' = NoSave /\ answer' = "none" /\ UNCHANGED <<value, durable, loaded>>

PowerLoss == /\ value' \in {value, durable} /\ durable' = value'
             /\ pending' = NoSave /\ answer' = "none" /\ UNCHANGED loaded

Next == Begin \/ Commit \/ Abort \/ Load \/ Persist \/ Crash \/ PowerLoss

Spec == Init /\ [][Next]_vars
=============================================================================
