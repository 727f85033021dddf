---------------------------- MODULE MCLogStream ----------------------------
(* Instances of LogStream for TLC. *)
EXTENDS LogStream, TLC

\* Of the behaviours in which handlers have overlapped no more is claimed than TypeOK and
\* SubscribersConnected, which hold of every state: the other properties are about the
\* rest, which the run covers to the end.
Undisturbed == ~disturbed
=============================================================================
