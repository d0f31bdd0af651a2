------------------------------ MODULE MCArena ------------------------------
(* A small arena for TLC: a unit is 2 bytes, the device has 5 units.       *)
EXTENDS ArenaProperties
NoStreams == {}
=============================================================================
