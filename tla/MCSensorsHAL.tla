----------------------------- MODULE MCSensorsHAL -----------------------------
(* Instances of SensorsHAL for TLC. *)
EXTENDS SensorsHAL

\* The light sensor and an MCU sensor.
MCSensors == {<<4, 5>>, <<1, 1>>}

\* From 0: a step back within the tolerance, to the origin of the wall clock,
\* and a step ahead that must be seen.
MCOffsets == {-2, 6}
MCMaxCounts == {0, 3}
=============================================================================
