------------------------------ MODULE GcServer ------------------------------
(***************************************************************************)
(* The GlobalCache server (components/infrared/globalcache_server.cpp):    *)
(* tcp_server_task accepts clients while a slot is free, and a task for     *)
(* each of them serves its commands, of which only the effect on learning   *)
(* is modelled here (for sending see DockIr).                               *)
(*                                                                         *)
(* A client's task is known by its socket, and so is its callback: the      *)
(* socket is free for another client as soon as it is closed.               *)
(***************************************************************************)
EXTENDS IrLearn, Naturals, FiniteSets

CONSTANT MaxClients   \* CONFIG_UCD_GLOBALCACHE_MAX_CLIENTS

ASSUME MaxClientsAssumption == MaxClients \in Nat \ {0}
ASSUME ClientTaskAssumption == Socket \subseteq Task /\ IsFiniteSet(Socket)

VARIABLES
  slots,      \* clientCountSemaphore
  accepting,  \* has the server task taken a slot for the next client?
  command,    \* what the task of the client on a socket does
  asked       \* has that client asked for learned codes?

gcVars == <<slots, accepting, command, asked>>

GcTypeOK ==
  /\ slots \in 0..MaxClients
  /\ accepting \in BOOLEAN
  /\ command \in [Socket -> {"none", "recv", "get_IRL", "end"}]
  /\ asked \in [Socket -> BOOLEAN]

GcInit ==
  /\ slots = MaxClients /\ accepting = FALSE
  /\ command = [s \in Socket |-> "none"]
  /\ asked = [s \in Socket |-> FALSE]

-----------------------------------------------------------------------------
(* tcp_server_task                                                          *)

TakeSlot ==
  /\ ~accepting /\ slots > 0
  /\ accepting' = TRUE /\ slots' = slots - 1
  /\ UNCHANGED <<command, asked, learnVars>>

\* The client is handed over to a task of its own.
Accept(s) ==
  /\ accepting /\ command[s] = "none"
  /\ accepting' = FALSE
  /\ command' = [command EXCEPT ![s] = "recv"]
  /\ UNCHANGED <<slots, asked, learnVars>>

\* accept() fails, or there is no memory for the client or its task.
MutantNotAccepted ==
  /\ accepting /\ accepting' = FALSE
  /\ UNCHANGED <<slots, command, asked, learnVars>>
NotAccepted ==
  /\ accepting /\ accepting' = FALSE
  /\ slots' = slots + 1
  /\ UNCHANGED <<command, asked, learnVars>>

-----------------------------------------------------------------------------
(* socket_task                                                              *)

\* A command arrives, or the client is gone, or cannot be answered ("end").  Any command
\* but stop_IRL first stops learning if it is on, whoever started it; an "end" does too.
MutantReceives(s, c) ==
  /\ command[s] = "recv" /\ step[s] = "none"
  /\ command' = [command EXCEPT ![s] = IF c \in {"get_IRL", "end"} THEN c ELSE "recv"]
  /\ Goes(s, IF (learning /\ c # "end") \/ c = "stop_IRL" THEN "clear" ELSE "none")
  /\ UNCHANGED <<bitVars, override, learnerVars, slots, accepting, asked>>
Receives(s, c) ==
  /\ command[s] = "recv" /\ step[s] = "none"
  /\ command' = [command EXCEPT ![s] = IF c \in {"get_IRL", "end"} THEN c ELSE "recv"]
  /\ Goes(s, IF learning \/ c = "stop_IRL" THEN "clear" ELSE "none")
  /\ UNCHANGED <<bitVars, override, learnerVars, slots, accepting, asked>>

Stops(s) == step[s] = "clear" /\ ClearBits(s) /\ UNCHANGED gcVars

GetsCodes(s) ==
  /\ command[s] = "get_IRL"
  /\ StartOverride(s, s)
  /\ command' = [command EXCEPT ![s] = "recv"]
  /\ asked' = [asked EXCEPT ![s] = TRUE]
  /\ UNCHANGED <<slots, accepting>>

\* close(), and the slot is given back.
Closes(s) ==
  /\ command[s] = "end" /\ step[s] = "none"
  /\ command' = [command EXCEPT ![s] = "none"]
  /\ asked' = [asked EXCEPT ![s] = FALSE]
  /\ slots' = slots + 1
  /\ UNCHANGED <<accepting, learnVars>>

GcServerTask == TakeSlot \/ NotAccepted \/ \E s \in Socket : Accept(s)

GcClientTask(s) ==
  \/ \E c \in {"get_IRL", "stop_IRL", "sendir", "end"} : Receives(s, c)
  \/ Stops(s) \/ GetsCodes(s) \/ Closes(s)
  \/ (SetBits(s) \/ Forget(s)) /\ UNCHANGED gcVars

-----------------------------------------------------------------------------
(* Properties                                                               *)

Serving == {s \in Socket : command[s] # "none"}

\* No slot is lost or made up, whichever step of accepting a client fails and however
\* clients come and go: with all slots taken the server accepts nobody any more.
SlotsConserved ==
  slots + Cardinality(Serving) + (IF accepting THEN 1 ELSE 0) = MaxClients

\* The callback writes to a client that asked for codes.  A socket closed since, or
\* taken by another client, is only named as long as some task is about to forget the
\* callback: the task that closed it did so seeing that learning had been stopped.
CallbackOwned ==
  override \in Socket => asked[override] \/ \E t \in Task : step[t] = "forget"
=============================================================================
