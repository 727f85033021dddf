--------------------------- MODULE MCExternalPort ---------------------------
(* Instances of ExternalPort for TLC. *)
EXTENDS ExternalPort, TLC

\* Handles are interchangeable.
Symmetry == Permutations(Handle)
=============================================================================
