----------------------------- MODULE MCTracker -----------------------------
(***************************************************************************)
(* Instances of Tracker for TLC.                                           *)
(***************************************************************************)
EXTENDS TrackerProperties, TLC

CONSTANTS a, b, d, f, k1, k2

ClientSymmetry == Permutations({a, b, d}) \cup Permutations({k1, k2})
=============================================================================
