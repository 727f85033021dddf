------------------------------ MODULE MCWsAuth ------------------------------
(* Two clients, of which one is closed at a time, so that a check leaves expired *)
(* entries to the next one.                                                      *)
EXTENDS WsAuth

TwoSockets == 1..2
=============================================================================
