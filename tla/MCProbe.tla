------------------------------- MODULE MCProbe -------------------------------
(* Probe with a bounded resolver: answers of at most MaxAnswers entries.    *)
EXTENDS Probe

CONSTANT MaxAnswers

MCAnswer == UNION {[1..n -> Addr] : n \in 1..MaxAnswers}

=============================================================================
