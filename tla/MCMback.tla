------------------------------- MODULE MCMback -------------------------------
(* MbackKeys and MbackMigration share nothing in this abstraction; one run *)
(* checks each of them in the behaviours of its unit.                      *)
EXTENDS MbackKeys, MbackMigration

VARIABLE unit

MCInit ==
    /\ KeysInit /\ MigrationInit /\ unit \in {"keys", "migration"}
    /\ unit = "keys" => \A k \in Keys : legacy[k] = NULL

KeysStep == unit = "keys" /\ KeysNext /\ UNCHANGED <<migrationVars, unit>>
MigrationStep == unit = "migration" /\ MigrationNext /\ UNCHANGED <<keyVars, unit>>

MCSpec == MCInit /\ [][KeysStep \/ MigrationStep]_<<keyVars, migrationVars, unit>>

\* The tap, by default BACK, which an older version stored as 13, and the swipe
\* to the right, by default RECENTS, which the screen does not show.
MCFallback == <<11, 2>>
MCLegacy == {0, 13, 99}
==============================================================================
