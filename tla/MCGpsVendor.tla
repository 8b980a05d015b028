---------------------------- MODULE MCGpsVendor ----------------------------
(* Instances of GpsVendor for TLC. *)
EXTENDS GpsVendor

MCSensorList == <<1, 2>>

\* Refused, the fastest, the slowest that fits, and one too slow.
MCPeriodsUs == {-1, 0, 9, 10}
=============================================================================
