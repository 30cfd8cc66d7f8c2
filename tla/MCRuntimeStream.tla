--------------------------- MODULE MCRuntimeStream ---------------------------
(* Instances of RuntimeStream for TLC. *)
EXTENDS RuntimeStream, TLC

CONSTANTS d1, d2

\* The devices are interchangeable.
DeviceSymmetry == Permutations(Devices)
=============================================================================
