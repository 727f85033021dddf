------------------------------ MODULE MCDisplay ------------------------------
(* The display with one event of each kind: EXT_PORT_MODE changes nothing that   *)
(* is modelled, and the others left out differ from one that is kept only in     *)
(* the screen they show.                                                         *)
EXTENDS Display

SomeInputs == UiEvent \ {"EXT_PORT_MODE", "IDENTIFY", "CHARGING_OFF", "IMPROV_AUTH_REQUIRED",
                          "IMPROV_AUTHORIZED", "IMPROV_END", "OTA_FAIL"}
=============================================================================
