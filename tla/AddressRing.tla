----------------------------- MODULE AddressRing -----------------------------
(***************************************************************************)
(* The pure half of the address rotation in src/main.rs: adopt and the     *)
(* choice apply_resolution makes.                                          *)
(*                                                                         *)
(* A SocketAddr is the natural number that is its rank in the Ord of       *)
(* std::net::SocketAddr.  A Vec that has been through sort_unstable and    *)
(* dedup is determined by its elements, so it is modelled as a set; the    *)
(* answer of the resolver, whose order counts and which may repeat an      *)
(* address, is a sequence.                                                 *)
(***************************************************************************)
EXTENDS Integers, Sequences, FiniteSetsExt

CONSTANTS Addr,    \* every address the target may ever resolve to
          Answer   \* the resolver's non-empty answers

ASSUME AddrAssumption == Addr \subseteq Nat
ASSUME AnswerAssumption == Answer \subseteq Seq(Addr) \ {<< >>}

-----------------------------------------------------------------------------

\* adopt: the canonical order used for rotation, and the resolver's first choice.
Canonical(fresh) == Range(fresh)
Preferred(fresh) == Head(fresh)

\* The answers the resolver can give while the name publishes the set `zone`.
AnswersFor(zone) == {fresh \in Answer : Range(fresh) = zone}

\* addrs.get(pos + 1), or addrs.first() past the end.
Successor(S, a) ==
  LET above == {b \in S : b > a}
  IN  Min(IF above = {} THEN S ELSE above)

\* Mutants of NextTarget: starting over from the resolver's first answer, and
\* keeping an address that is no longer answered.
NextTarget_StartsOver(S, a, preferred) == preferred
NextTarget_KeepsVanished(S, a, preferred) == IF a \in S THEN Successor(S, a) ELSE a

\* The `next` of apply_resolution: onward from the address in use, or the
\* resolver's preferred address when the one in use is no longer answered.
NextTarget(S, a, preferred) == IF a \in S THEN Successor(S, a) ELSE preferred

-----------------------------------------------------------------------------

\* The addresses met on the ring from x, inclusive, up to c, exclusive.
Arc(S, x, c) ==
  {y \in S : IF x < c THEN x <= y /\ y < c ELSE x <= y \/ y < c}

=============================================================================
