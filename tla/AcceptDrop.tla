------------------------------ MODULE AcceptDrop ------------------------------
(***************************************************************************)
(* What the server promises about connections, whichever loop serves them: *)
(* one connection at a time is taken from the accept queue and dropped     *)
(* before the next is taken; none is kept and none is lost but by a stop.  *)
(***************************************************************************)
EXTENDS Integers

CONSTANT Backlog

VARIABLES queue,   \* completed handshakes waiting to be accepted
          open     \* accepted connections not closed yet

vars == <<queue, open>>

Init == queue = 0 /\ open = 0

Arrive == queue < Backlog /\ queue' = queue + 1 /\ UNCHANGED open
Take == queue > 0 /\ open = 0 /\ queue' = queue - 1 /\ open' = 1
Abort == queue > 0 /\ queue' = queue - 1 /\ UNCHANGED open
Drop == open = 1 /\ open' = 0 /\ UNCHANGED queue
Stop == queue' = 0 /\ open' = 0

Next == Arrive \/ Take \/ Abort \/ Drop \/ Stop

Spec == Init /\ [][Next]_vars
=============================================================================
