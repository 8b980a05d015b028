---------------------------- MODULE MbackMigration ----------------------------
(***************************************************************************)
(* MbackContract.migrateIfNeeded: the mBack settings of a user move from   *)
(* the former LineageSettings keys to Settings.Secure.  The input thread   *)
(* and the main looper of the system server (KeyHandler) and the settings  *)
(* screen (MbackSettingsFragment) all call it, nothing makes it atomic,    *)
(* and either process may die in between.                                  *)
(***************************************************************************)
EXTENDS Integers

CONSTANTS
    Migrators,      \* threads that call migrateIfNeeded
    Screen,         \* the one of them behind the settings screen
    Last,           \* the keys are 1..Last, migrated in this order
    Fallback,       \* the default of each key
    Legacy,         \* values found under a former key
    Pickable,       \* the keys the screen shows
    Choices,        \* values a user picks
    NULL,
    MaxFailures     \* bound on failing writes of a setting

Keys == 1..Last

ASSUME SettingsAssumption ==
    /\ Last \in Nat /\ NULL \notin Int
    /\ Fallback \in [Keys -> Int] /\ Legacy \subseteq Int /\ Choices \subseteq Int
    /\ Pickable \subseteq Keys /\ Screen \in Migrators

MIGRATION_VERSION == 1

VARIABLES
    legacy,     \* former values, NULL when missing
    secure,     \* current values
    version,    \* SECURE_MIGRATION_VERSION
    at,         \* each migrator: 0 outside, k before key k, Last + 1 before the version
    putting,    \* it has found the key missing and is about to write it
    open,       \* the settings screen is shown
    chosen,     \* what the user picked
    hit,        \* keys picked while a migrator was about to write them
    failures

migrationVars == <<legacy, secure, version, at, putting, open, chosen, hit, failures>>

MigrationTypeOK ==
    /\ legacy \in [Keys -> Legacy \union {NULL}]
    /\ secure \in [Keys -> Int \union {NULL}] /\ chosen \in [Keys -> Int \union {NULL}]
    /\ version \in {0, MIGRATION_VERSION} /\ failures \in Nat
    /\ at \in [Migrators -> 0..(Last + 1)]
    /\ putting \subseteq Migrators /\ hit \subseteq Keys /\ open \in BOOLEAN

translateLegacyAction(value, fallback) ==
    CASE value = NULL -> fallback
      [] value \in 0..9 -> value
      [] value = 12 -> 10
      [] value = 13 -> 11
      [] OTHER -> fallback

Migrated(k) == translateLegacyAction(legacy[k], Fallback[k])

\* putSecureInt; its result is not looked at.
Put(k, value) ==
    \/ secure' = [secure EXCEPT ![k] = value] /\ UNCHANGED failures
    \/ failures < MaxFailures /\ failures' = failures + 1 /\ UNCHANGED secure

\* Mutant: a key is written whether it is there or not.
KeyMissingUnchecked(k) == TRUE

KeyMissing(k) == secure[k] = NULL

Begin(m) ==
    /\ at[m] = 0 /\ (m = Screen => ~open)
    /\ IF version >= MIGRATION_VERSION
       THEN UNCHANGED at /\ open' = (open \/ m = Screen)
       ELSE at' = [at EXCEPT ![m] = 1] /\ UNCHANGED open
    /\ UNCHANGED <<legacy, secure, version, putting, chosen, hit, failures>>

Check(m) ==
    /\ at[m] \in Keys /\ m \notin putting
    /\ IF KeyMissing(at[m])
       THEN putting' = putting \union {m} /\ UNCHANGED at
       ELSE at' = [at EXCEPT ![m] = @ + 1] /\ UNCHANGED putting
    /\ UNCHANGED <<legacy, secure, version, open, chosen, hit, failures>>

migrateAction(m) ==
    /\ m \in putting /\ Put(at[m], Migrated(at[m]))
    /\ putting' = putting \ {m} /\ at' = [at EXCEPT ![m] = @ + 1]
    /\ UNCHANGED <<legacy, version, open, chosen, hit>>

\* A version that could not be written leaves the user to the next caller.
Finish(m) ==
    /\ at[m] = Last + 1
    /\ \/ version' = MIGRATION_VERSION /\ UNCHANGED failures
       \/ failures < MaxFailures /\ failures' = failures + 1 /\ UNCHANGED version
    /\ at' = [at EXCEPT ![m] = 0] /\ open' = (open \/ m = Screen)
    /\ UNCHANGED <<legacy, secure, putting, chosen, hit>>

\* onPreferenceChange; a write that fails is shown as not done.
Choose(k, value) ==
    /\ open
    /\ secure' = [secure EXCEPT ![k] = value] /\ chosen' = [chosen EXCEPT ![k] = value]
    /\ hit' = IF \E m \in putting : at[m] = k THEN hit \union {k} ELSE hit
    /\ UNCHANGED <<legacy, version, at, putting, open, failures>>

\* Death of the process of these threads; the settings provider keeps what it has.
Die(threads) ==
    /\ at' = [m \in Migrators |-> IF m \in threads THEN 0 ELSE at[m]]
    /\ putting' = putting \ threads
    /\ open' = (open /\ Screen \notin threads)
    /\ UNCHANGED <<legacy, secure, version, chosen, hit, failures>>

MigrationInit ==
    /\ legacy \in [Keys -> Legacy \union {NULL}] /\ secure = [k \in Keys |-> NULL]
    /\ version = 0 /\ at = [m \in Migrators |-> 0] /\ putting = {} /\ open = FALSE
    /\ chosen = [k \in Keys |-> NULL] /\ hit = {} /\ failures = 0

MigrationNext ==
    \/ \E m \in Migrators : Begin(m) \/ Check(m) \/ migrateAction(m) \/ Finish(m)
    \/ \E k \in Pickable, value \in Choices : Choose(k, value)
    \/ Die({Screen}) \/ Die(Migrators \ {Screen})

MigrationSpec == MigrationInit /\ [][MigrationNext]_migrationVars
-------------------------------------------------------------------------------
(* However the migrations interleave and wherever one dies: when the       *)
(* version says that the user was migrated and no write was refused, every *)
(* key is there and holds the translated former value, or its default, or  *)
(* what the user picked; and what the user picked stays, unless a migrator *)
(* had already found that key missing.                                     *)
MigrationFaithful ==
    /\ version = MIGRATION_VERSION /\ failures = 0 =>
          \A k \in Keys : secure[k] \in {Migrated(k), chosen[k]} \ {NULL}
    /\ \A k \in Keys \ hit : chosen[k] # NULL => secure[k] = chosen[k]
===============================================================================
