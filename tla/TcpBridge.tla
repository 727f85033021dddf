------------------------------ MODULE TcpBridge ------------------------------
(***************************************************************************)
(* What a serial bridge is to the network: at most one task serves the TCP *)
(* clients of a port; it listens, takes on a few clients at a time, and    *)
(* once it has ended no socket of it is open, so that the next task can    *)
(* listen on the same TCP port.  DockPort, the bridge as the dock starts   *)
(* and stops it, implements this module until two tasks do so at once.     *)
(***************************************************************************)
EXTENDS Naturals, FiniteSets

CONSTANTS Task, NoTask, Client, MaxClients

VARIABLES server,    \* the task that serves the port, or NoTask
          listening, \* does it accept connections?
          conns      \* the connections that are open

vars == <<server, listening, conns>>

Init == /\ server \in Task \union {NoTask}
        /\ listening = FALSE
        /\ conns = {}

\* A task takes over only after the one before has ended.
Starts == /\ server = NoTask
          /\ server' \in Task
          /\ UNCHANGED <<listening, conns>>

Listens == /\ server # NoTask /\ ~listening
           /\ listening' = TRUE
           /\ UNCHANGED <<server, conns>>

Connects == /\ server # NoTask /\ listening
            /\ Cardinality(conns) < MaxClients
            /\ \E c \in Client \ conns : conns' = conns \union {c}
            /\ UNCHANGED <<server, listening>>

Leaves == /\ server # NoTask
          /\ \E c \in conns : conns' = conns \ {c}
          /\ UNCHANGED <<server, listening>>

\* All sockets are closed, and only then, or at once, the task is gone.
Closes == /\ server # NoTask
          /\ listening' = FALSE /\ conns' = {}
          /\ UNCHANGED server

Ends == /\ server # NoTask
        /\ server' = NoTask
        /\ listening' = FALSE /\ conns' = {}

Next == Starts \/ Listens \/ Connects \/ Leaves \/ Closes \/ Ends

Spec == Init /\ [][Next]_vars
=============================================================================
