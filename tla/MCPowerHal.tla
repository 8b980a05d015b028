----------------------------- MODULE MCPowerHal -----------------------------
(* Instances of PowerHal for TLC. *)
EXTENDS PowerHal

File(fg, base, active, ticks) ==
    [foreground |-> fg, base |-> base, active |-> active, ticks |-> [s \in Sources |-> ticks]]

\* The shipped values in proportion, an order the check refuses and a default
\* duration that is too long.
MCDefaults == File(1, 1, 2, 1)
MCFiles == {NoFile, File(0, 0, 3, 2), File(1, 3, 2, 1), File(1, 1, 2, 9)}

\* Single nodes, and the second cluster alone or with the boost node.
MCFaultSets == {{"top_app"}, {"cluster1"}, {"profile"}, {"gpu_min"}, {"top_app", "cluster1"}}

\* Cancel, default, one tick, and longer than the longest boost.
MCRequests == {-1, 0, 1, 5}
=============================================================================
