---------------------------- MODULE MCNetworkSm ----------------------------
(* Instances of NetworkSm for TLC. *)
EXTENDS NetworkSm

\* What is not combined in the run that checks the invariants; the proofs leave nothing
\* out.  A cable is plugged in, or a phone is connected; WiFi, which Improv uses for one
\* attempt with the credentials, does not roam in it; there is one click in the queue at
\* most; and of the states in which the dock is about to restart, which all lead to the
\* same one, few are looked into.
Apart ==
  /\ conn # "none" => eth # "up" /\ ~ethNews
  /\ sm \in ImprovStep => station # "roaming"
  /\ sm = "REBOOT" => queue = <<>> /\ conn = "none"
  /\ queue # <<"BUTTON_PRESS", "BUTTON_PRESS">>
=============================================================================
