------------------------ MODULE IncrementalInstaller ------------------------
(***************************************************************************)
(* The installer that tools/make-system-lib-incremental-v5.sh generates:   *)
(* it checks every row of its manifest, stages all replacements next to    *)
(* their targets and then moves them into place one by one.  Recovery may  *)
(* run it again after it failed or was interrupted.  The file system keeps *)
(* a moved file whole (external).                                          *)
(***************************************************************************)
EXTENDS Integers

CONSTANTS
    Replaced,   \* rows 1..Replaced of the manifest are payload (P)
    Rows,       \* and those up to Rows only verified (V)
    MaxRuns     \* bound on the runs of the installer

ASSUME ManifestAssumption == Replaced \in Nat /\ Rows \in Nat /\ Replaced <= Rows

VARIABLES
    target,     \* what each row's file holds: "base", "new" or "foreign"
    first,      \* and what it held before the first run
    hashes,     \* the recovery has sha256sum
    payload,    \* "new", or "foreign" when the package is damaged
    step, row,  \* where the script is
    staged,     \* rows whose temporary is there and in staged_list
    leftover,   \* a temporary that no run will remove
    exit,       \* how the last run ended
    runs

installVars == <<target, first, hashes, payload, step, row, staged, leftover, exit, runs>>

PayloadRows == 1..Replaced
VerifyRows == (Replaced + 1)..Rows

\* Mutant: a file that was already replaced is refused.
AcceptedBaseOnly(k) == target[k] = "base"

\* The sums the manifest allows; a payload row may be there already.
Accepted(k) == target[k] = "base" \/ (k \in PayloadRows /\ target[k] = "new")

\* Every exit runs cleanup_staged.
Exit(status) == step' = "ended" /\ exit' = status /\ staged' = {}

\* Up to the remount: without sha256sum only the sizes are looked at; a
\* missing tool, file or mount ends the run before anything is changed.
Validate(damaged) ==
    /\ step = "ended" /\ runs < MaxRuns /\ runs' = runs + 1
    /\ payload' = IF damaged THEN "foreign" ELSE "new"
    /\ IF hashes /\ (damaged \/ \E k \in 1..Rows : ~Accepted(k))
       THEN Exit("refused")
       ELSE step' = "stage" /\ exit' = "none" /\ staged' = {}
    /\ row' = 1
    /\ UNCHANGED <<target, first, hashes, leftover>>

EarlyExit ==
    /\ step = "ended" /\ runs < MaxRuns /\ runs' = runs + 1
    /\ Exit("failed")
    /\ UNCHANGED <<target, first, hashes, payload, row, leftover>>

\* A temporary is listed after it was copied, labelled and compared; one
\* that fails on the way is not in the list that the trap cleans.
Stage(ok) ==
    /\ step = "stage" /\ row <= Replaced
    /\ IF ok THEN staged' = staged \union {row} /\ row' = row + 1 /\ UNCHANGED <<step, exit, leftover>>
             ELSE Exit("failed") /\ leftover' = TRUE /\ UNCHANGED row
    /\ UNCHANGED <<target, first, hashes, payload, runs>>

AllStaged ==
    /\ step = "stage" /\ row > Replaced
    /\ step' = "move" /\ row' = 1
    /\ UNCHANGED <<target, first, hashes, payload, staged, leftover, exit, runs>>

\* mv fails, or the sum of the moved file is not as it should be.
Move(result) ==
    /\ step = "move" /\ row <= Replaced
    /\ result = "check_failed" => hashes
    /\ target' = IF result = "mv_failed" THEN target ELSE [target EXCEPT ![row] = payload]
    /\ IF result = "ok"
       THEN staged' = staged \ {row} /\ row' = row + 1 /\ UNCHANGED <<step, exit>>
       ELSE Exit("failed") /\ UNCHANGED row
    /\ UNCHANGED <<first, hashes, payload, leftover, runs>>

Sync ==
    /\ step = "move" /\ row > Replaced
    /\ Exit("ok")
    /\ UNCHANGED <<target, first, hashes, payload, row, leftover, runs>>

\* The script is killed or the battery is pulled: nothing is cleaned.
Interrupted ==
    /\ step # "ended" /\ step' = "ended" /\ exit' = "interrupted"
    /\ leftover' = (leftover \/ staged # {}) /\ staged' = {}
    /\ UNCHANGED <<target, first, hashes, payload, row, runs>>

InstallInit ==
    /\ first \in [1..Rows -> {"base", "new", "foreign"}] /\ target = first
    /\ hashes \in BOOLEAN /\ payload = "new"
    /\ step = "ended" /\ row = 1 /\ staged = {} /\ leftover = FALSE /\ exit = "none" /\ runs = 0

InstallNext ==
    \/ EarlyExit \/ AllStaged \/ Sync \/ Interrupted
    \/ \E flag \in BOOLEAN : Validate(flag) \/ Stage(flag)
    \/ \E result \in {"ok", "mv_failed", "check_failed"} : Move(result)

InstallSpec == InstallInit /\ [][InstallNext]_installVars
-----------------------------------------------------------------------------
(* With sha256sum in the recovery: nothing is replaced on a system with a  *)
(* foreign file, nothing but the package's files arrives, a run that ends  *)
(* well leaves all of them, and a run that was interrupted or failed       *)
(* between two moves can be repeated: only a damaged package or a file     *)
(* that was foreign from the beginning is refused.                         *)
InstallRepeatable ==
    hashes =>
        LET sound(k) == first[k] = "base" \/ (k \in PayloadRows /\ first[k] = "new")
        IN  /\ target # first => \A k \in 1..Rows : sound(k)
            /\ \A k \in 1..Rows : target[k] \in {first[k], "new"} /\ (k \in VerifyRows => target[k] = first[k])
            /\ exit = "ok" => \A k \in PayloadRows : target[k] = "new"
            /\ exit = "refused" => payload = "foreign" \/ \E k \in 1..Rows : ~sound(k)
=============================================================================
