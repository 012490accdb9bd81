----------------------------- MODULE ServerProofs -----------------------------
(***************************************************************************)
(* Theorems about Server, for every accept queue and submission queue.     *)
(***************************************************************************)
EXTENDS Server, TLAPS

\* Which loop runs says where it can be, and a completed accept is the only
\* thing besides a Close about to happen that holds a descriptor.
RingInv ==
  /\ TypeOK
  /\ armed \in 0..1 /\ sq \in 0..1 /\ Len(cq) \in 0..1
  /\ mode = "none" =>
       pc \in {"bind", "setup", "exited"} /\ rearm = 0 /\ sq + armed + Len(cq) = 0
  /\ mode = "blocking" =>
       pc \in {"accept", "close", "backoff"} /\ rearm = 0 /\ sq + armed + Len(cq) = 0
  /\ mode = "io_uring" => pc \in {"push", "submit", "wait", "drain", "close", "backoff"}
  /\ OneOutstandingAccept
  /\ sq = 1 => pc = "submit"
  /\ pc = "submit" => sq = 1
  /\ pc = "wait" => rearm = 0
  /\ mode = "io_uring" /\ pc \in {"close", "backoff"} => rearm = 1
  /\ fds = IF pc = "close" \/ (Len(cq) = 1 /\ cq[1] = "conn") THEN 1 ELSE 0

\* An empty completion queue is one.
LEMMA EmptyCq == << >> \in Seq({"conn"} \cup Errors) /\ Len(<< >>) = 0
PROOF
  BY DEF Errors

\* The initial states satisfy the invariant.
LEMMA InitRingInv == Init => RingInv
PROOF
<1> SUFFICES ASSUME Init PROVE RingInv
  OBVIOUS
<1>1. /\ cq \in Seq({"conn"} \cup Errors) /\ Len(cq) = 0
      /\ pc = "bind" /\ mode = "none" /\ rearm = 0 /\ sq = 0 /\ armed = 0
      /\ queue = 0 /\ fds = 0
  BY EmptyCq, Zenon DEF Init
<1>2. table \in {"free", "full"} /\ signal \in {"none", "pending"}
  BY DEF Init
<1>3. TypeOK
  BY <1>1, <1>2, BacklogAssumption, SqSizeAssumption DEF TypeOK, Places
<1> QED
  BY <1>1, <1>3 DEF RingInv, OneOutstandingAccept, Ringing

\* Every step of the server, the kernel and systemd preserves the invariant.
LEMMA RingInvStep == RingInv /\ [Next]_vars => RingInv'
PROOF
<1> SUFFICES ASSUME RingInv, [Next]_vars PROVE RingInv'
  OBVIOUS
<1> USE BacklogAssumption, SqSizeAssumption
    DEF RingInv, TypeOK, Places, OneOutstandingAccept, Ringing, ToPush, ring, kernel
<1>1. CASE Bind
  BY <1>1 DEF Bind
<1>2. CASE SetUp
  BY <1>2 DEF SetUp
<1>3. CASE Push
  BY <1>3 DEF Push
<1>4. CASE Submit
  BY <1>4 DEF Submit
<1>5. CASE WaitOk
  BY <1>5 DEF WaitOk
<1>6. CASE WaitInterrupted
  BY <1>6 DEF WaitInterrupted, AfterInterrupt
<1>7. CASE Drain
  BY <1>7 DEF Drain, Rearms
<1>8. CASE DrainDone
  BY <1>8 DEF DrainDone
<1>9. CASE Close
  BY <1>9 DEF Close, Resume, ClosedDescriptors
<1>10. CASE Backoff
  BY <1>10 DEF Backoff, Resume
<1>11. CASE BlockingAccept
  BY <1>11 DEF BlockingAccept, AcceptResult, Errors
<1>12. CASE Complete
  BY <1>12 DEF Complete, AcceptResult, Errors
<1>13. CASE Fail
  BY <1>13 DEF Fail, End
<1>14. CASE Arrive \/ DescriptorsChange \/ Signal \/ Restart
  BY <1>14 DEF Arrive, DescriptorsChange, Signal, Restart
<1>15. CASE UNCHANGED vars
  BY <1>15 DEF vars
<1> QED
  BY <1>1, <1>2, <1>3, <1>4, <1>5, <1>6, <1>7, <1>8, <1>9, <1>10, <1>11, <1>12, <1>13,
     <1>14, <1>15 DEF Next, Loop, Kernel

\* The strengthening holds in every reachable state.
THEOREM RingInvariance == Spec => []RingInv
PROOF
  BY InitRingInv, RingInvStep, PTL DEF Spec

\* The server's and the kernel's state is well typed.
THEOREM TypeCorrect == Spec => []TypeOK
PROOF
<1>1. RingInv => TypeOK
  BY DEF RingInv
<1> QED
  BY RingInvariance, <1>1, PTL

\* The io_uring loop has exactly one accept outstanding, whatever completes,
\* fails or is interrupted, so it neither goes deaf nor fills a queue.
THEOREM OneOutstandingAcceptAlways == Spec => []OneOutstandingAccept
PROOF
<1>1. RingInv => OneOutstandingAccept
  BY DEF RingInv
<1> QED
  BY RingInvariance, <1>1, PTL

\* No loop holds two accepted descriptors, or one while it waits for the next.
THEOREM NoDescriptorKeptAlways == Spec => []NoDescriptorKept
PROOF
<1>1. RingInv => NoDescriptorKept
  BY DEF RingInv, NoDescriptorKept, OneOutstandingAccept, Ringing, ToPush, TypeOK
<1> QED
  BY RingInvariance, <1>1, PTL

\* No interleaving of signals and completions ends the server; in particular the
\* submission queue is never full when an accept is pushed.
THEOREM EndsOnlyOnAFailedCallAlways == Spec => EndsOnlyOnAFailedCall
PROOF
<1>1. RingInv /\ [Next]_vars
        => [pc # "exited" /\ pc' = "exited" => pc # "push" /\ signal' = signal]_vars
  <2> SUFFICES ASSUME RingInv, [Next]_vars, pc # "exited", pc' = "exited"
               PROVE  pc # "push" /\ signal' = signal
    OBVIOUS
  <2>1. Fail
    BY DEF Next, Loop, Kernel, Bind, SetUp, Push, Submit, WaitOk, WaitInterrupted,
       AfterInterrupt, Drain, DrainDone, Close, Backoff, Resume, BlockingAccept, Complete,
       Arrive, DescriptorsChange, Signal, Restart, vars
  <2> QED
    BY <2>1, SqSizeAssumption DEF Fail, End, RingInv, OneOutstandingAccept, Ringing, ToPush,
       TypeOK
<1> QED
  BY RingInvariance, <1>1, PTL DEF Spec, EndsOnlyOnAFailedCall

-----------------------------------------------------------------------------

\* Every step of the server is a step of AcceptDrop or leaves its connections
\* alone.
LEMMA ConnectionsStep ==
  RingInv /\ [Next]_vars => [Connections!Next]_(Connections!vars)
PROOF
<1> SUFFICES ASSUME RingInv, [Next]_vars PROVE [Connections!Next]_(Connections!vars)
  OBVIOUS
<1> USE DEF kernel, Connections!Next, Connections!vars
<1>1. CASE Close
  BY <1>1 DEF Close, ClosedDescriptors, RingInv, Connections!Drop
<1>2. CASE Complete
  <2>1. fds = 0
    BY <1>2 DEF Complete, RingInv, OneOutstandingAccept, Ringing, ToPush, TypeOK
  <2> QED
    BY <1>2, <2>1 DEF Complete, AcceptResult, Connections!Take, Connections!Abort
<1>3. CASE BlockingAccept
  <2>1. fds = 0
    BY <1>3 DEF BlockingAccept, RingInv, OneOutstandingAccept, Ringing, ToPush, TypeOK
  <2> QED
    BY <1>3, <2>1 DEF BlockingAccept, AcceptResult, Connections!Take, Connections!Abort
<1>4. CASE Arrive
  BY <1>4 DEF Arrive, Connections!Arrive
<1>5. CASE Fail
  BY <1>5 DEF Fail, End, Connections!Stop
<1>6. CASE UNCHANGED <<queue, fds>>
  BY <1>6
<1> QED
  BY <1>1, <1>2, <1>3, <1>4, <1>5, <1>6 DEF Next, Loop, Kernel, Bind, SetUp, Push, Submit,
     WaitOk, WaitInterrupted, Drain, DrainDone, Backoff, DescriptorsChange, Signal, Restart, vars

\* Both accept loops take one connection at a time and drop it before the next.
THEOREM ServerImplementsAcceptDrop == Spec => ImplementsAcceptDrop
PROOF
<1>1. Init => Connections!Init
  BY DEF Init, Connections!Init
<1> QED
  BY RingInvariance, <1>1, ConnectionsStep, PTL DEF Spec, ImplementsAcceptDrop, Connections!Spec

=============================================================================
