---------------------------- MODULE IrTransmitter ----------------------------
(***************************************************************************)
(* What the infrared service promises its callers: there is one            *)
(* transmitter, it works on one request at a time, and every request it    *)
(* accepts is answered exactly once before the next one is accepted.       *)
(* IrSend, the model of service_ir.cpp, implements this module.            *)
(***************************************************************************)
CONSTANTS Id,       \* the requests, by their message id
          NoId      \* not an Id: "the transmitter is free"

VARIABLES active,   \* the request being transmitted, or NoId
          accepted, \* the requests taken on so far
          answered  \* the requests whose answer went out

vars == <<active, accepted, answered>>

Init == /\ active = NoId
        /\ accepted = {}
        /\ answered = {}

\* A request is taken on only while the transmitter is free, and only once.
Accept == /\ active = NoId
          /\ \E i \in Id \ accepted :
               /\ active' = i
               /\ accepted' = accepted \union {i}
          /\ UNCHANGED answered

\* The one answer of the active request.
Answer == /\ active \in Id \ answered
          /\ answered' = answered \union {active}
          /\ UNCHANGED <<active, accepted>>

\* The transmitter becomes free after the answer, never before it.
Release == /\ active \in answered
           /\ active' = NoId
           /\ UNCHANGED <<accepted, answered>>

Next == Accept \/ Answer \/ Release

Spec == Init /\ [][Next]_vars
=============================================================================
