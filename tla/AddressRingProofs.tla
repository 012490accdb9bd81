-------------------------- MODULE AddressRingProofs --------------------------
(***************************************************************************)
(* What Successor returns, and why walking with it is fair: the addresses  *)
(* given up so far stay an arc of the ring, so the walk cannot re-enter    *)
(* them before it has been all the way round.                              *)
(***************************************************************************)
EXTENDS AddressRing, WellFoundedInduction, TLAPS

\* A non-empty set of addresses has a least element, the one Min picks.
LEMMA MinProperty ==
  ASSUME NEW S \in SUBSET Nat, S # {}
  PROVE  Min(S) \in S /\ \A y \in S : Min(S) <= y
PROOF
<1> DEFINE less == {p \in Nat \X Nat : p[1] < p[2]}
<1>1. IsWellFoundedOn(less, Nat)
  BY NatLessThanWellFounded, Zenon DEF OpToRel
<1>2. PICK x \in S : \A y \in S : ~ (<<y, x>> \in less)
  <2> HIDE DEF less
  <2> QED BY <1>1, WFMin, Zenon
<1>3. ASSUME NEW y \in S, y < x PROVE FALSE
  <2>1. <<y, x>> \in Nat \X Nat /\ <<y, x>>[1] < <<y, x>>[2]
    BY <1>3
  <2>2. <<y, x>> \in less
    BY <2>1
  <2> HIDE DEF less
  <2> QED BY <1>2, <2>2
<1>4. \A y \in S : x <= y
  BY <1>3
<1> QED
  BY <1>4 DEF Min

\* The successor of an address of the list is in the list, and is either the
\* next one up with nothing in between, or the least one past the greatest.
LEMMA SuccessorProperty ==
  ASSUME NEW S \in SUBSET Nat, NEW a \in S
  PROVE  /\ Successor(S, a) \in S
         /\ \/ /\ Successor(S, a) > a
               /\ \A b \in S : b <= a \/ b >= Successor(S, a)
            \/ \A b \in S : Successor(S, a) <= b /\ b <= a
PROOF
<1> DEFINE above == {b \in S : b > a}
<1>1. CASE above = {}
  <2>1. Successor(S, a) = Min(S)
    BY <1>1 DEF Successor
  <2> QED
    BY <1>1, <2>1, MinProperty
<1>2. CASE above # {}
  <2>1. Successor(S, a) = Min(above)
    BY <1>2 DEF Successor
  <2>2. Min(above) \in above /\ \A y \in above : Min(above) <= y
    BY <1>2, MinProperty
  <2> QED
    BY <2>1, <2>2
<1> QED
  BY <1>1, <1>2

\* If the addresses given up form an arc that ends just before c, giving up c
\* as well and moving to its successor extends the arc and leaves it, unless
\* the whole ring has now been given up.
LEMMA SweepStep ==
  ASSUME NEW S \in SUBSET Nat, NEW c \in S, NEW T \in SUBSET S,
         c \notin T, T \cup {c} # S,
         \A x \in T : Arc(S, x, c) \subseteq T
  PROVE  /\ Successor(S, c) \notin T \cup {c}
         /\ \A x \in T \cup {c} : Arc(S, x, Successor(S, c)) \subseteq T \cup {c}
PROOF
<1> DEFINE n == Successor(S, c)
<1>1. /\ n \in S
      /\ \/ n > c /\ \A b \in S : b <= c \/ b >= n
         \/ \A b \in S : n <= b /\ b <= c
  BY SuccessorProperty
<1> HIDE DEF n
<1>2. n # c
  <2>1. PICK d \in S : d # c
    OBVIOUS
  <2> QED
    BY <1>1, <2>1
<1>3. n \notin T
  <2> SUFFICES ASSUME n \in T PROVE FALSE
    OBVIOUS
  <2>1. ASSUME NEW d \in S, d # c PROVE d \in T
    <3>1. d \in Arc(S, n, c)
      BY <1>1, <1>2, <2>1 DEF Arc
    <3> QED
      BY <3>1
  <2> QED
    BY <2>1
<1>4. ASSUME NEW x \in T \cup {c}, NEW y \in Arc(S, x, n)
      PROVE  y \in T \cup {c}
  <2>1. CASE x = c
    BY <1>1, <1>2, <1>4, <2>1 DEF Arc
  <2>2. CASE x \in T
    <3>1. y = c \/ y \in Arc(S, x, c)
      BY <1>1, <1>2, <1>3, <1>4, <2>2 DEF Arc
    <3> QED
      BY <2>2, <3>1
  <2> QED
    BY <2>1, <2>2
<1> QED
  BY <1>2, <1>3, <1>4 DEF n

=============================================================================
