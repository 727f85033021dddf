----------------------------- MODULE MCDockPort -----------------------------
(* Instances of DockPort for TLC. *)
EXTENDS DockPort, TLC

\* Clients, bridge tasks and handles are interchangeable.
Symmetry == Permutations(Client) \union Permutations(BridgeTask) \union Permutations(Handle)

\* Nothing is claimed once two tasks started or stopped the bridge at once.
Unraced == ~raced
=============================================================================
