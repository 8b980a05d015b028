----------------------------- MODULE LegacyPower -----------------------------
(***************************************************************************)
(* The legacy power HAL (power/PowerHAL.c), which the current product no   *)
(* longer builds.  low_power and the hotplug nodes change under the lock,  *)
(* hence in one step; an interaction hint reads low_power under the lock   *)
(* and writes its two pulses after it released it.                         *)
(***************************************************************************)
EXTENDS Integers, FiniteSets

CONSTANT Callers    \* threads that send hints

ASSUME CallersAssumption == IsFiniteSet(Callers)

VARIABLES
    low_power,
    hotplug,    \* HOTPLUG_PROFILE, _BIG_CLUSTER, _BIG_MINIMUM: TRUE in the saving setting
    refused,    \* those whose last write failed
    pulses,     \* pulses an interaction hint still has to write
    owed, late  \* hints under way when low power came; pulses written since

legacyVars == <<low_power, hotplug, refused, pulses, owed, late>>

Nodes == {"profile", "big_cluster", "big_minimum"}

\* write_node for each of them; nobody looks at the result.
WriteNodes(value) ==
    \E failing \in SUBSET Nodes :
        /\ hotplug' = [n \in Nodes |-> IF n \in failing THEN hotplug[n] ELSE value]
        /\ refused' = failing

m86_power_init ==
    /\ low_power' = FALSE /\ WriteNodes(FALSE)
    /\ owed' = 0 /\ late' = 0
    /\ UNCHANGED pulses

\* POWER_HINT_LOW_POWER; a hint that changes nothing writes nothing.
m86_set_low_power(enabled) ==
    /\ low_power # enabled /\ low_power' = enabled
    /\ WriteNodes(enabled)
    /\ owed' = Cardinality({t \in Callers : pulses[t] > 0}) /\ late' = 0
    /\ UNCHANGED pulses

\* Mutant: hints are not held back.
PulsesAlways == 2

PulsesWanted == IF low_power THEN 0 ELSE 2

\* POWER_HINT_INTERACTION
Interaction(t) ==
    /\ pulses[t] = 0
    /\ pulses' = [pulses EXCEPT ![t] = PulsesWanted]
    /\ UNCHANGED <<low_power, hotplug, refused, owed, late>>

Pulse(t) ==
    /\ pulses[t] > 0
    /\ pulses' = [pulses EXCEPT ![t] = @ - 1]
    /\ late' = IF low_power THEN late + 1 ELSE late
    /\ UNCHANGED <<low_power, hotplug, refused, owed>>

LegacyInit ==
    /\ low_power = FALSE /\ pulses = [t \in Callers |-> 0] /\ owed = 0 /\ late = 0
    /\ hotplug \in [Nodes -> BOOLEAN] /\ refused = Nodes

LegacyNext ==
    \/ m86_power_init
    \/ \E enabled \in BOOLEAN : m86_set_low_power(enabled)
    \/ \E t \in Callers : Interaction(t) \/ Pulse(t)

LegacySpec == LegacyInit /\ [][LegacyNext]_legacyVars
------------------------------------------------------------------------------
(* In low power only the hints that were already under way pulse, each at  *)
(* most twice, and a hotplug node that differs from low_power is one whose *)
(* last write failed.                                                      *)
LowPowerSaves ==
    /\ low_power => late <= 2 * owed
    /\ \A n \in Nodes \ refused : hotplug[n] = low_power
==============================================================================
