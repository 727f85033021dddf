----------------------------- MODULE MCDockLearn -----------------------------
(* Learning with GlobalCache clients on a few sockets, and the events that      *)
(* interrupt the learning screen.                                               *)
EXTENDS DockLearn

CONSTANTS s1, httpd, timer

Sockets == {s1}
Tasks == Sockets \union {httpd, timer}
FewInputs == {"CONNECTED", "BUTTON_CLICK"}

\* Of the two ways to ask for codes, raw ones are left to the GlobalCache clients.
RawForClients == step[httpd] # "setRaw"

\* Before the dock is connected nobody can ask for codes, and the second information page
\* is like the first.
FewScreens ==
  /\ ui \in {"BOOT_ANIMATION"} \union ConnectingUi => ~learning /\ learner = "waiting"
  /\ ui # "INFO_NEXT"
=============================================================================
