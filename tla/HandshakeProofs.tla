--------------------------- MODULE HandshakeProofs ---------------------------
(***************************************************************************)
(* Theorems about Handshake, for every retransmission timeout, timeout and *)
(* bound on the clock.                                                     *)
(***************************************************************************)
EXTENDS Handshake, TLAPS

\* Nothing under way was sent in the future, or after the start if the SYN was
\* sent once; so a sample is at most the time the handshake took, and is all of
\* it if the SYN was sent once.
HInv ==
  /\ TypeOK
  /\ \A p \in flight : p.sent <= now /\ (total_retrans = 0 => p.sent = 0)
  /\ state = "SYN_SENT" => tcpi_rtt = 0 /\ completed = 0
  /\ state # "SYN_SENT" => completed <= now
  /\ state # "SYN_SENT" /\ total_retrans = 0 => tcpi_rtt = completed
  /\ pc = "idle" => state = "SYN_SENT" /\ flight = {} /\ now = 0 /\ outcome = "none"
  /\ pc \in {"connect", "read"} => outcome = "none"
  /\ pc = "read" => state # "SYN_SENT" /\ completed <= elapsed /\ elapsed <= now
  /\ CoversTheHandshake
  /\ NoSchedulingNoise

-----------------------------------------------------------------------------

\* A measurement that has not started satisfies the invariant.
LEMMA InitHInv == Init => HInv
PROOF
  BY RtoAssumption
     DEF Init, HInv, TypeOK, States, Packets, CoversTheHandshake, NoSchedulingNoise

\* Every step of the process, the kernel and the network preserves the invariant.
LEMMA NextHInv == HInv /\ [Next]_vars => HInv'
PROOF
<1> SUFFICES ASSUME HInv, [Next]_vars PROVE HInv'
  OBVIOUS
<1> USE RtoAssumption
    DEF HInv, TypeOK, States, Packets, CoversTheHandshake, NoSchedulingNoise,
        process, clock, sample, host
<1>1. CASE Connect
  BY <1>1 DEF Connect
<1>2. CASE ConnectOk
  BY <1>2 DEF ConnectOk
<1>3. CASE ConnectError
  BY <1>3 DEF ConnectError
<1>4. CASE ReadInfo
  BY <1>4 DEF ReadInfo, Reported, HasSample
<1>5. CASE Again
  BY <1>5 DEF Again
<1>6. CASE Retransmit
  BY <1>6 DEF Retransmit
<1>7. CASE Lose
  BY <1>7 DEF Lose, Open
<1>8. CASE Answer
  BY <1>8 DEF Answer, Open
<1>9. CASE Refuse
  BY <1>9 DEF Refuse
<1>10. CASE Complete
  BY <1>10 DEF Complete, Open
<1>11. CASE Fin
  BY <1>11 DEF Fin, Open
<1>12. CASE Tick
  BY <1>12 DEF Tick, Open
<1>13. CASE UNCHANGED vars
  BY <1>13 DEF vars
<1> QED
  BY <1>1, <1>2, <1>3, <1>4, <1>5, <1>6, <1>7, <1>8, <1>9, <1>10, <1>11, <1>12, <1>13
     DEF Next, Process, Network

\* The invariant holds in every reachable state.
THEOREM HandshakeInvariance == Spec => []HInv
PROOF
  BY InitHInv, NextHInv, PTL DEF Spec

\* The measurement's, the kernel's and the network's state is well typed.
THEOREM TypeCorrect == Spec => []TypeOK
PROOF
<1>1. HInv => TypeOK
  BY DEF HInv
<1> QED
  BY HandshakeInvariance, <1>1, PTL

\* A reported value contains the whole handshake and no more than was waited.
THEOREM CoversTheHandshakeAlways == Spec => []CoversTheHandshake
PROOF
<1>1. HInv => CoversTheHandshake
  BY DEF HInv
<1> QED
  BY HandshakeInvariance, <1>1, PTL

\* A handshake without loss is reported exactly where the kernel tells.
THEOREM NoSchedulingNoiseAlways == Spec => []NoSchedulingNoise
PROOF
<1>1. HInv => NoSchedulingNoise
  BY DEF HInv
<1> QED
  BY HandshakeInvariance, <1>1, PTL

=============================================================================
