-------------------------- MODULE MCFingerprintHAL --------------------------
(* Instances of FingerprintHAL for TLC. *)
EXTENDS FingerprintHAL, TLC

CONSTANTS c1, c2, w1, w2

\* Thread ids carry no order.
ThreadSymmetry == Permutations(Workers) \cup Permutations(Clients)
=============================================================================
