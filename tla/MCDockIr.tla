------------------------------ MODULE MCDockIr ------------------------------
(* Instances of DockIr for TLC. *)
EXTENDS DockIr

CONSTANTS gc, \* a GlobalCache socket task
          a, b, bad \* codes

MCCode == {a, b, bad}

\* b's protocol sends two frames per command.
MCMinRepeats == [c \in MCCode |-> IF c = b THEN 2 ELSE 1]

\* a asks for one more frame when it is sent once.
MCEmbedded == [c \in MCCode |-> IF c = bad THEN 0 ELSE MCMinRepeats[c]]

Rq(c, n, h, ok, out) == [code |-> c, repeat |-> n, hold |-> h, valid |-> ok, output |-> out]

\* A single shot, a repeat beyond the cap, a press-and-hold, and one request
\* for each way send() can refuse, that of another code among them.
MCRequest == {Rq(a, 0, 0, TRUE, TRUE), Rq(a, 3, 0, TRUE, TRUE), Rq(a, 0, 2, TRUE, TRUE),
              Rq(bad, 1, 0, TRUE, TRUE), Rq(a, 1, 0, FALSE, TRUE), Rq(b, 1, 0, TRUE, FALSE)}

\* A hold longer than any repeat; a repeat beyond the cap.
MCFewRequests == {Rq(a, 0, 0, TRUE, TRUE), Rq(a, 3, 0, TRUE, TRUE), Rq(b, 0, 4, TRUE, TRUE)}
=============================================================================
