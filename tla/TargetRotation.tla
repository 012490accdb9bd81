---------------------------- MODULE TargetRotation ----------------------------
(***************************************************************************)
(* What both probes promise about the address they aim at, whatever policy *)
(* picks the next one: the address in use is one the resolver gave, and an *)
(* address that is still answered is given up only after Run consecutive   *)
(* failed cycles of that very address (main.rs RERESOLVE_AFTER_FAILURES,   *)
(* wire_probe.py _ROTATE_AFTER_FAILURES).  Probe.tla implements it.        *)
(***************************************************************************)
EXTENDS Integers

CONSTANTS Addr, NoAddr, Run

VARIABLES answers,   \* the answers the choice was last made from
          current,   \* the address in use, NoAddr before the first answer
          missed     \* consecutive failed cycles of current, counted up to Run

vars == <<answers, current, missed>>

Init == answers = {} /\ current = NoAddr /\ missed = 0

Hit == /\ current # NoAddr
       /\ missed' = 0
       /\ UNCHANGED <<answers, current>>

Miss == /\ current # NoAddr
        /\ missed' = IF missed < Run THEN missed + 1 ELSE Run
        /\ UNCHANGED <<answers, current>>

Adopt ==
  \E S \in SUBSET Addr : \E a \in S :
    /\ a # current => current \notin S \/ missed = Run
    /\ answers' = S
    /\ current' = a
    /\ missed' = IF a = current THEN missed ELSE 0

Restart == answers' = {} /\ current' = NoAddr /\ missed' = 0

Next == Hit \/ Miss \/ Adopt \/ Restart

Spec == Init /\ [][Next]_vars
=============================================================================
