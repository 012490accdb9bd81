-------------------------------- MODULE Server --------------------------------
(***************************************************************************)
(* src/server.rs: bind, set up io_uring or fall back to blocking accept,   *)
(* and accept and close connections for ever.  The io_uring loop keeps one *)
(* accept in flight: as an entry of the submission queue, in the kernel,   *)
(* as a completion, or due to be pushed again.  systemd restarts a server  *)
(* that ends.                                                              *)
(***************************************************************************)
EXTENDS Integers, Sequences

CONSTANTS Backlog,   \* completed handshakes the listening socket queues
          SqSize     \* entries of the submission queue (256 in the code)

ASSUME BacklogAssumption == Backlog \in Nat \ {0}
ASSUME SqSizeAssumption == SqSize \in Nat \ {0}

VARIABLES
  \* the server
  pc,         \* the next system call, or place in the loop
  mode,       \* "none" until the loop is chosen, then "io_uring" or "blocking"
  rearm,      \* the local of run_io_uring: 1 when another accept is to be pushed
  \* the ring
  sq,         \* accepts pushed and not submitted
  armed,      \* accepts in the kernel
  cq,         \* results of accepts: "conn" or the name of an errno
  \* the kernel
  queue,      \* completed handshakes waiting to be accepted
  fds,        \* accepted descriptors the process holds
  table,      \* the descriptor table: "free" or "full" (EMFILE, ENFILE)
  signal      \* a signal that interrupts a wait: "none" or "pending"

ring == <<sq, armed, cq>>
kernel == <<queue, fds, table, signal>>
vars == <<pc, mode, rearm, ring, kernel>>

Places == {"bind", "setup", "push", "submit", "wait", "drain", "close",
           "accept", "backoff", "exited"}
Errors == {"EMFILE", "ECONNABORTED", "EAGAIN"}

TypeOK ==
  /\ pc \in Places
  /\ mode \in {"none", "io_uring", "blocking"}
  /\ rearm \in 0..1
  /\ sq \in 0..SqSize
  /\ armed \in Nat
  /\ cq \in Seq({"conn"} \cup Errors)
  /\ queue \in 0..Backlog
  /\ fds \in Nat
  /\ table \in {"free", "full"}
  /\ signal \in {"none", "pending"}

-----------------------------------------------------------------------------

Init ==
  /\ pc = "bind" /\ mode = "none" /\ rearm = 0
  /\ sq = 0 /\ armed = 0 /\ cq = << >>
  /\ queue = 0 /\ fds = 0
  /\ table \in {"free", "full"} /\ signal = "none"

\* The process ends: the kernel closes its ring, its listener and its descriptors.
End ==
  /\ pc' = "exited"
  /\ mode' = "none" /\ rearm' = 0
  /\ sq' = 0 /\ armed' = 0 /\ cq' = << >>
  /\ queue' = 0 /\ fds' = 0
  /\ UNCHANGED <<table, signal>>

Bind ==
  /\ pc = "bind"
  /\ pc' = "setup"
  /\ UNCHANGED <<mode, rearm, ring, kernel>>

\* IoUring::new(256): a ring, or an errno that says io_uring is unavailable.
SetUp ==
  /\ pc = "setup"
  /\ \/ mode' = "io_uring" /\ pc' = "push"
     \/ mode' = "blocking" /\ pc' = "accept"
  /\ UNCHANGED <<rearm, ring, kernel>>

\* push_accept.
Push ==
  /\ pc = "push"
  /\ sq < SqSize
  /\ sq' = sq + 1
  /\ pc' = "submit"
  /\ UNCHANGED <<mode, rearm, armed, cq, kernel>>

\* ring.submit()
Submit ==
  /\ pc = "submit"
  /\ sq' = 0
  /\ armed' = armed + sq
  /\ pc' = "wait"
  /\ rearm' = 0
  /\ UNCHANGED <<mode, cq, kernel>>

\* submit_and_wait(1) returns Ok once there is a completion.
WaitOk ==
  /\ pc = "wait"
  /\ cq # << >>
  /\ pc' = "drain"
  /\ UNCHANGED <<mode, rearm, ring, kernel>>

\* Mutants: EINTR ends the server, or makes it push another accept.
AfterInterrupt_Fatal == "exited"
AfterInterrupt_Rearms == "push"

\* `continue`: wait again.
AfterInterrupt == "wait"

\* The kernel reports EINTR only when it has no completion to return.
WaitInterrupted ==
  /\ pc = "wait"
  /\ cq = << >>
  /\ signal = "pending"
  /\ signal' = "none"
  /\ pc' = AfterInterrupt
  /\ UNCHANGED <<mode, rearm, ring, queue, fds, table>>

\* Any other failure ends the process: bind, IoUring::new, a full submission
\* queue, submit, submit_and_wait.
Fail ==
  /\ pc \in {"bind", "setup", "submit", "wait"} \/ (pc = "push" /\ sq = SqSize)
  /\ End

\* Mutant: an accept that failed is not pushed again.
Rearms_OnSuccess(result) == IF result = "conn" THEN 1 ELSE 0

\* Every completion of the accept, good or bad, makes the loop push another.
Rearms(result) == 1

\* One completion of the `for cqe in &mut cq` loop.
Drain ==
  /\ pc = "drain"
  /\ cq # << >>
  /\ cq' = Tail(cq)
  /\ rearm' = IF rearm = 1 THEN 1 ELSE Rearms(Head(cq))
  /\ pc' = CASE Head(cq) = "conn"   -> "close"
             [] Head(cq) = "EAGAIN" -> "drain"
             [] OTHER               -> "backoff"
  /\ UNCHANGED <<mode, sq, armed, kernel>>

DrainDone ==
  /\ pc = "drain"
  /\ cq = << >>
  /\ pc' = IF rearm = 1 THEN "push" ELSE "wait"
  /\ UNCHANGED <<mode, rearm, ring, kernel>>

Resume == IF mode = "io_uring" THEN "drain" ELSE "accept"

\* Mutants: the accepted descriptor is forgotten, or closed a second time.
ClosedDescriptors_None == 0
ClosedDescriptors_Two == 2

\* The descriptor is closed exactly once.
ClosedDescriptors == 1

\* libc::close, or the drop of the accepted TcpStream.
Close ==
  /\ pc = "close"
  /\ fds' = fds - ClosedDescriptors
  /\ pc' = Resume
  /\ UNCHANGED <<mode, rearm, ring, queue, table, signal>>

\* Sleep ACCEPT_ERROR_BACKOFF.
Backoff ==
  /\ pc = "backoff"
  /\ pc' = Resume
  /\ UNCHANGED <<mode, rearm, ring, kernel>>

\* What accept4 or an accept in the ring does to the queue and the descriptor
\* table: without a descriptor to give out it leaves the connection queued.
AcceptResult(result) ==
  /\ \/ result = "conn" /\ table = "free" /\ queue > 0
        /\ queue' = queue - 1 /\ fds' = fds + 1
     \/ result = "EMFILE" /\ table = "full" /\ UNCHANGED <<queue, fds>>
     \/ result = "ECONNABORTED" /\ queue > 0
        /\ queue' = queue - 1 /\ UNCHANGED fds
     \/ result = "EAGAIN" /\ mode = "io_uring" /\ UNCHANGED <<queue, fds>>
  /\ UNCHANGED <<table, signal>>

\* listener.accept() of run_blocking; std retries EINTR by itself.
BlockingAccept ==
  /\ pc = "accept"
  /\ \E result \in {"conn"} \cup Errors :
       /\ AcceptResult(result)
       /\ pc' = IF result = "conn" THEN "close" ELSE "backoff"
  /\ UNCHANGED <<mode, rearm, ring>>

\* An accept in the kernel completes.
Complete ==
  /\ armed > 0
  /\ armed' = armed - 1
  /\ \E result \in {"conn"} \cup Errors : AcceptResult(result) /\ cq' = Append(cq, result)
  /\ UNCHANGED <<pc, mode, rearm, sq>>

\* A handshake completes in the kernel while the listener exists.
Arrive ==
  /\ pc \notin {"bind", "exited"}
  /\ queue < Backlog
  /\ queue' = queue + 1
  /\ UNCHANGED <<pc, mode, rearm, ring, fds, table, signal>>

DescriptorsChange == /\ table' \in {"free", "full"}
                     /\ UNCHANGED <<pc, mode, rearm, ring, queue, fds, signal>>
Signal == signal' = "pending" /\ UNCHANGED <<pc, mode, rearm, ring, queue, fds, table>>

\* systemd: Restart=always and no start limit.
Restart ==
  /\ pc = "exited"
  /\ pc' = "bind"
  /\ UNCHANGED <<mode, rearm, ring, kernel>>

Loop == Bind \/ SetUp \/ Push \/ Submit \/ WaitOk \/ WaitInterrupted
          \/ Drain \/ DrainDone \/ Close \/ Backoff
Kernel == BlockingAccept \/ Complete

Next == Loop \/ Kernel \/ Fail \/ Arrive \/ DescriptorsChange \/ Signal \/ Restart

\* The loop runs, the kernel completes an accept that can complete, and
\* systemd restarts the server.
Spec == Init /\ [][Next]_vars /\ WF_vars(Loop) /\ WF_vars(Kernel) /\ WF_vars(Restart)

-----------------------------------------------------------------------------

Ringing == mode = "io_uring"
ToPush == IF pc = "push" \/ (pc \in {"drain", "close", "backoff"} /\ rearm = 1) THEN 1 ELSE 0

\* There is exactly one accept at any moment, in the submission queue, in the
\* kernel, completed, or about to be pushed: none is lost, so the server never
\* goes deaf, and none is added, so the queues cannot fill (run_io_uring).
OneOutstandingAccept == Ringing => sq + armed + Len(cq) + ToPush = 1

\* An accepted descriptor is closed before the next accept is even pushed: the
\* process never holds two, and holds none while it waits (run, README.md:346).
NoDescriptorKept ==
  /\ fds <= 1
  /\ sq + armed > 0 \/ pc \in {"accept", "backoff", "push"} => fds = 0

\* The server ends only on a system call that fails: never for a signal, however
\* it falls on completions and re-arming, and never for a full submission queue
\* (run_io_uring's EINTR arm and push_accept).
EndsOnlyOnAFailedCall ==
  [][pc # "exited" /\ pc' = "exited" => pc # "push" /\ signal' = signal]_vars

\* When accepts stop failing and the process stays up, a queued connection is
\* accepted, however many accepts failed or were interrupted before.
QueuedIsServed ==
  (<>[][Kernel => fds' > fds]_vars /\ <>[](pc # "exited")) => []<>(queue = 0 \/ fds = 1)

\* Both loops implement AcceptDrop.
Connections == INSTANCE AcceptDrop WITH open <- fds
ImplementsAcceptDrop == Connections!Spec

=============================================================================
