------------------------------ MODULE Handshake ------------------------------
(***************************************************************************)
(* measure_rtt of src/probe.rs, which _tcp_rtt of the plugin repeats rule  *)
(* for rule: connect within a timeout, then report the round trip of the   *)
(* kernel's tcp_info if it is the handshake's, or else the stopwatch's.    *)
(* The process may be scheduled as late as the host likes.                 *)
(***************************************************************************)
EXTENDS Integers

CONSTANTS Rto,       \* the first retransmission timeout of a SYN, in ticks
          Timeout,   \* the timeout of the measurement, in ticks
          MaxTime    \* where the clock stops: the bound on time

ASSUME RtoAssumption == Rto \in Nat \ {0}
ASSUME TimeoutAssumption == Timeout \in Nat \ {0} /\ MaxTime \in Nat /\ Timeout <= MaxTime

VARIABLES
  \* measure_rtt
  pc,          \* "idle", "connect", "read" (of tcp_info), "done"
  elapsed,     \* the stopwatch around connect_timeout
  outcome,     \* "none", "error" or "rtt"
  value,       \* what is reported with "rtt"
  \* the kernel
  now,         \* time since t0
  state,       \* of the socket
  due,         \* when the SYN is sent again
  tcpi_rtt,    \* 0 while there is no sample
  total_retrans,
  timestamps,  \* "on" or "off": TCP timestamps
  info,        \* what getsockopt(TCP_INFO) returns here: "full", "short" or "error"
  \* the network
  flight,      \* SYNs and SYN-ACKs under way, each with the time of its SYN
  \* history
  completed    \* when the handshake completed

process == <<pc, elapsed, outcome, value>>
clock == <<now, due>>
sample == <<tcpi_rtt, completed>>
host == <<timestamps, info>>
vars == <<process, clock, state, sample, total_retrans, host, flight>>

States == {"SYN_SENT", "ESTABLISHED", "CLOSE_WAIT"}
Packets == [kind : {"SYN", "SYN-ACK"}, sent : Nat]

TypeOK ==
  /\ pc \in {"idle", "connect", "read", "done"}
  /\ outcome \in {"none", "error", "rtt"}
  /\ {elapsed, value, now, due, tcpi_rtt, total_retrans, completed} \subseteq Nat
  /\ state \in States
  /\ timestamps \in {"on", "off"}
  /\ info \in {"full", "short", "error"}
  /\ flight \subseteq Packets

-----------------------------------------------------------------------------

Init ==
  /\ pc = "idle" /\ elapsed = 0 /\ outcome = "none" /\ value = 0
  /\ now = 0 /\ due = Rto /\ state = "SYN_SENT"
  /\ tcpi_rtt = 0 /\ completed = 0 /\ total_retrans = 0
  /\ timestamps \in {"on", "off"}
  /\ info \in {"full", "short", "error"}
  /\ flight = {}

\* t0 is taken and the first SYN leaves.
Connect ==
  /\ pc = "idle"
  /\ pc' = "connect"
  /\ flight' = {[kind |-> "SYN", sent |-> 0]}
  /\ UNCHANGED <<elapsed, outcome, value, clock, state, sample, total_retrans, host>>

\* connect_timeout returns a connected stream, however long after it connected.
ConnectOk ==
  /\ pc = "connect"
  /\ state # "SYN_SENT"
  /\ pc' = "read"
  /\ elapsed' = now
  /\ UNCHANGED <<outcome, value, clock, state, sample, total_retrans, host, flight>>

\* Mutant: the connect is not given the timeout.
TimedOut_Never == FALSE

\* The wait may end without the handshake, or just before it.
TimedOut == now >= Timeout /\ (state = "SYN_SENT" \/ completed >= Timeout)

ConnectError ==
  /\ pc = "connect"
  /\ TimedOut
  /\ pc' = "done"
  /\ outcome' = "error"
  /\ UNCHANGED <<elapsed, value, clock, state, sample, total_retrans, host, flight>>

\* Mutants: CLOSE_WAIT taken for a socket without a sample, and a kernel value
\* trusted after a retransmission.
HasSample_EstablishedOnly ==
  state = "ESTABLISHED" /\ total_retrans = 0 /\ tcpi_rtt # 0
HasSample_Retransmitted == state # "SYN_SENT" /\ tcpi_rtt # 0

\* The rules of rtt_from_blob on a whole struct: a completed handshake (the
\* server's FIN may have come already), no retransmission, a sample.
HasSample == state # "SYN_SENT" /\ total_retrans = 0 /\ tcpi_rtt # 0

\* Mutant: without a sample a sentinel is reported.
Reported_Sentinel == IF info = "full" /\ HasSample THEN tcpi_rtt ELSE -1

\* kernel_rtt_ms of a whole struct, or unwrap_or(elapsed_ms).
Reported == IF info = "full" /\ HasSample THEN tcpi_rtt ELSE elapsed

\* The value is read once and the stream is dropped.
ReadInfo ==
  /\ pc = "read"
  /\ pc' = "done"
  /\ outcome' = "rtt"
  /\ value' = Reported
  /\ UNCHANGED <<elapsed, clock, state, sample, total_retrans, host, flight>>

\* The next measurement starts a socket of its own.
Again ==
  /\ pc = "done"
  /\ pc' = "idle" /\ elapsed' = 0 /\ outcome' = "none" /\ value' = 0
  /\ now' = 0 /\ due' = Rto /\ state' = "SYN_SENT"
  /\ tcpi_rtt' = 0 /\ completed' = 0 /\ total_retrans' = 0
  /\ flight' = {}
  /\ UNCHANGED host

-----------------------------------------------------------------------------
(* The kernel, the network and the server (external).                       *)

Open == pc \in {"connect", "read"}

\* The SYN is sent again at Rto, 3 Rto, 7 Rto, ...
Retransmit ==
  /\ pc = "connect"
  /\ state = "SYN_SENT"
  /\ now = due
  /\ due' = 2 * now + Rto
  /\ total_retrans' = total_retrans + 1
  /\ flight' = flight \cup {[kind |-> "SYN", sent |-> now]}
  /\ UNCHANGED <<process, now, state, sample, host>>

Lose ==
  /\ Open
  /\ \E p \in flight : flight' = flight \ {p}
  /\ UNCHANGED <<process, clock, state, sample, total_retrans, host>>

\* The server answers a SYN.
Answer ==
  /\ Open
  /\ \E p \in flight :
       /\ p.kind = "SYN"
       /\ flight' = (flight \ {p}) \cup {[p EXCEPT !.kind = "SYN-ACK"]}
  /\ UNCHANGED <<process, clock, state, sample, total_retrans, host>>

\* The server's host refuses a SYN.
Refuse ==
  /\ pc = "connect"
  /\ state = "SYN_SENT"
  /\ \E p \in flight : p.kind = "SYN"
  /\ pc' = "done"
  /\ outcome' = "error"
  /\ UNCHANGED <<elapsed, value, clock, state, sample, total_retrans, host, flight>>

\* The first SYN-ACK completes the handshake.  With timestamps the sample is
\* counted from the SYN the server echoes, its first or the one it answers;
\* without them only a SYN sent once gives a sample.
Complete ==
  /\ Open
  /\ state = "SYN_SENT"
  /\ \E p \in flight :
       /\ p.kind = "SYN-ACK"
       /\ flight' = flight \ {p}
       /\ \/ timestamps = "on" /\ tcpi_rtt' \in {now, now - p.sent}
          \/ timestamps = "off" /\ tcpi_rtt' = (IF total_retrans = 0 THEN now ELSE 0)
  /\ completed' = now
  /\ state' = "ESTABLISHED"
  /\ UNCHANGED <<process, clock, total_retrans, host>>

\* The server closes what it accepted.
Fin ==
  /\ Open
  /\ state = "ESTABLISHED"
  /\ state' = "CLOSE_WAIT"
  /\ UNCHANGED <<process, clock, sample, total_retrans, host, flight>>

Tick ==
  /\ Open
  /\ ~ (pc = "connect" /\ state = "SYN_SENT" /\ now = due)
  /\ now' = IF now < MaxTime THEN now + 1 ELSE now
  /\ UNCHANGED <<process, due, state, sample, total_retrans, host, flight>>

Process == Connect \/ ConnectOk \/ ConnectError \/ ReadInfo \/ Again
Network == Lose \/ Answer \/ Refuse \/ Complete \/ Fin
Next == Process \/ Network \/ Retransmit \/ Tick

\* The process is scheduled and time passes; the network promises nothing.
Spec == Init /\ [][Next]_vars /\ WF_vars(Process) /\ WF_vars(Retransmit \/ Tick)

-----------------------------------------------------------------------------

\* What is reported contains the whole handshake, from the first SYN to the
\* SYN-ACK with every retransmission waited for, and never more than the
\* process waited: packet loss is not erased (rtt_from_blob's comment).
CoversTheHandshake ==
  outcome = "rtt" => completed <= value /\ value <= elapsed

\* Where the kernel tells, a handshake without loss is reported exactly, however
\* late the process runs and whether or not the server's FIN came first
\* (measure_rtt's comment, _kernel_rtt_ms).
NoSchedulingNoise ==
  outcome = "rtt" /\ info = "full" /\ total_retrans = 0 /\ completed > 0
    => value = completed

\* A measurement comes back whatever the network does (measure_rtt).
MeasureReturns == (pc = "connect") ~> (pc = "done")

=============================================================================
