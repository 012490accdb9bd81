------------------------------- MODULE Cadence -------------------------------
(***************************************************************************)
(* The probe loop in time: Probe's steps under a command line, with the    *)
(* stopwatch of each cycle and the transports the exporters write to.      *)
(*                                                                         *)
(* Time passes only in blocking calls.  connect is bounded by --timeout;   *)
(* getaddrinfo and a write to a pipe are bounded by nothing; the Unix      *)
(* socket, whose write timeout does not cover its reconnect (CollectdUds), *)
(* is given any time here; a datagram is sent at once.                     *)
(***************************************************************************)
EXTENDS Probe, Cli

CONSTANTS
  Late,         \* how long after its timeout connect may return on a busy host
  MaxElapsed,   \* where the stopwatch stops: the bound on time
  Capacity,     \* lines the Exec pipe holds
  MaxFlight     \* datagrams under way, and errors under way back

ASSUME TimeAssumption ==
  /\ Late \in Nat /\ MaxElapsed \in Nat
  /\ \A args \in CommandLine : Accepts(args) => Interval(args) < MaxElapsed

ASSUME TransportAssumption == {Capacity, MaxFlight} \subseteq Nat \ {0}

VARIABLES
  args,       \* the command line of this process
  elapsed,    \* tick.elapsed()
  overran,    \* the warning of a cycle longer than the interval was printed
  \* Exec: the pipe
  pipe,       \* lines written and not read
  \* Telegraf: the connected socket and its network
  telegraf,   \* "up"; "down": its host answers with an ICMP error; "unroutable"
  flight,     \* datagrams under way
  refused,    \* ICMP errors under way back
  sk_err,     \* the socket holds an error for its next call
  \* history
  delayed,    \* calls other than connect that took time in this cycle
  kept        \* cycles in a row that kept the interval, counted up to R - 1

clock == <<elapsed, overran>>
socket == <<telegraf, flight, refused, sk_err>>
stretch == <<delayed, kept>>
rest == <<args, clock, pipe, socket, stretch>>
cvars == <<vars, rest>>

CadenceTypeOK ==
  /\ TypeOK
  /\ args \in CommandLine
  /\ elapsed \in 0..MaxElapsed
  /\ overran \in BOOLEAN
  /\ pipe \in 0..Capacity
  /\ telegraf \in {"up", "down", "unroutable"}
  /\ flight \in 0..MaxFlight /\ refused \in 0..MaxFlight
  /\ sk_err \in BOOLEAN
  /\ delayed \subseteq {"rotate", "export"}
  /\ kept \in 0 .. R - 1

-----------------------------------------------------------------------------

CadenceInit ==
  /\ Init
  /\ args \in CommandLine
  /\ Accepts(args) => export = Destination(args)
  /\ telegraf \in {"up", "down", "unroutable"}
  /\ elapsed = 0 /\ overran = FALSE
  /\ pipe = 0 /\ flight = 0 /\ refused = 0 /\ sk_err = FALSE
  /\ delayed = {} /\ kept = R - 1

\* main: a Mode::Probe is run, an error exits.
Parse ==
  /\ ParseArgs
  /\ pc' = IF Accepts(args) THEN "resolve" ELSE "exited"
  /\ UNCHANGED rest

StartUp == (StartupResolve \/ OpenExporter) /\ UNCHANGED rest

\* The connect of a cycle returned, in time or late.
Measure == (MeasureOk \/ MeasureErr) /\ UNCHANGED rest

Rotate == RotateTarget /\ UNCHANGED rest

\* Mutant: a cycle exactly as long as the interval counts as an overrun of it.
Overruns_Equal == elapsed >= Interval(args)

\* checked_sub gives None.
Overruns == elapsed > Interval(args)

\* The end of a cycle's export: its length is compared with the interval, and
\* a longer one is warned of once.
EndOfCycle == overran' = (overran \/ (pc' = "sleep" /\ Overruns))

\* write_all to stdout: one line, whole, when there is room for it.
SendExec ==
  /\ export = "exec"
  /\ \/ stdout = "open" /\ pipe < Capacity /\ pipe' = pipe + 1 /\ ExportReturns("ok")
     \/ stdout = "closed" /\ UNCHANGED pipe /\ ExportReturns("BrokenPipe")
  /\ EndOfCycle
  /\ UNCHANGED <<args, elapsed, socket, stretch>>

SendUds ==
  /\ export = "uds"
  /\ \E result \in ExportResults : ExportReturns(result)
  /\ EndOfCycle
  /\ UNCHANGED <<args, elapsed, pipe, socket, stretch>>

\* Mutant: the exporter gives its socket up after an error.
ErrorAfterReturn_Latched == TRUE

\* The error is returned once.
ErrorAfterReturn == FALSE

\* UdpSocket::send: the error of an earlier datagram is returned, and cleared,
\* instead of sending this one.
SendTelegraf ==
  /\ export = "telegraf"
  /\ \/ sk_err /\ ExportReturns("other") /\ sk_err' = ErrorAfterReturn /\ UNCHANGED flight
     \/ ~ sk_err /\ telegraf = "unroutable" /\ ExportReturns("other") /\ UNCHANGED <<sk_err, flight>>
     \/ /\ ~ sk_err /\ telegraf # "unroutable"
        /\ ExportReturns("ok")
        /\ flight' = Min({flight + 1, MaxFlight})
        /\ UNCHANGED sk_err
  /\ EndOfCycle
  /\ UNCHANGED <<args, elapsed, pipe, telegraf, refused, stretch>>

Send == SendExec \/ SendUds \/ SendTelegraf

\* Mutant: once a cycle has outrun the interval the loop does not sleep.
Rested_UnlessOverran == overran \/ elapsed >= Interval(args)

\* sleep(remaining) is over, or there was nothing to sleep.
Rested == elapsed >= Interval(args)

\* The next cycle starts its stopwatch.
Wake ==
  /\ Rested
  /\ Sleep
  /\ elapsed' = 0
  /\ delayed' = {}
  /\ kept' = IF elapsed > Interval(args) THEN 0 ELSE Min({kept + 1, R - 1})
  /\ UNCHANGED <<args, overran, pipe, socket>>

\* A fresh process has a fresh pipe or socket.
Restart ==
  /\ Respawn
  /\ elapsed' = 0 /\ overran' = FALSE
  /\ pipe' = 0 /\ flight' = 0 /\ refused' = 0 /\ sk_err' = FALSE
  /\ delayed' = {} /\ kept' = R - 1
  /\ UNCHANGED <<args, telegraf>>

-----------------------------------------------------------------------------

\* connect_timeout has not given up.
Connecting == elapsed < Timeout(args) + Late

\* The call in progress can go on.
Blocked ==
  \/ pc = "measure" /\ Connecting
  \/ pc = "rotate"
  \/ pc = "export" /\ \/ export = "uds"
                      \/ export = "exec" /\ stdout = "open" /\ pipe = Capacity
  \/ pc = "sleep" /\ ~ Rested

Tick ==
  /\ Blocked
  /\ elapsed' = Min({elapsed + 1, MaxElapsed})
  /\ delayed' = delayed \cup ({pc} \cap {"rotate", "export"})
  /\ UNCHANGED <<vars, args, overran, pipe, socket, kept>>

(* collectd, Telegraf, the network and the resolver (external).             *)

CollectdReads ==
  /\ stdout = "open"
  /\ pipe > 0
  /\ pipe' = pipe - 1
  /\ UNCHANGED <<vars, args, clock, socket, stretch>>

TelegrafChanges ==
  /\ export = "telegraf"
  /\ telegraf' \in {"up", "down", "unroutable"}
  /\ UNCHANGED <<vars, args, clock, pipe, flight, refused, sk_err, stretch>>

\* A datagram arrives, is lost, or is answered with an error.
DatagramEnds ==
  /\ flight > 0
  /\ flight' = flight - 1
  /\ \/ UNCHANGED refused
     \/ telegraf = "down" /\ refused' = Min({refused + 1, MaxFlight})
  /\ UNCHANGED <<vars, args, clock, pipe, telegraf, sk_err, stretch>>

\* The error arrives or is lost.
ErrorEnds ==
  /\ refused > 0
  /\ refused' = refused - 1
  /\ sk_err' \in {sk_err, TRUE}
  /\ UNCHANGED <<vars, args, clock, pipe, telegraf, flight, stretch>>

World == \/ (ZoneChanges \/ NetworkChanges \/ CollectdGoes) /\ UNCHANGED rest
         \/ CollectdReads
         \/ TelegrafChanges
         \/ DatagramEnds
         \/ ErrorEnds

Process == Parse \/ StartUp \/ Measure \/ Rotate \/ Send \/ Wake

CadenceNext == Process \/ Restart \/ Tick \/ World

\* The steps that come: all but the end of a write to the Unix socket.
Proceeds == Parse \/ StartUp \/ Measure \/ Rotate \/ SendExec \/ SendTelegraf \/ Wake

\* The process runs, time passes and a datagram does not stay under way for
\* ever.  Nothing is promised of collectd, of the resolver's answers or of the
\* target; a resolver is assumed to return.
CadenceSpec ==
  /\ CadenceInit /\ [][CadenceNext]_cvars
  /\ WF_cvars(Proceeds) /\ WF_cvars(Tick)
  /\ WF_cvars(DatagramEnds) /\ WF_cvars(ErrorEnds)

-----------------------------------------------------------------------------

\* Whatever --timeout was given, connect holds the probe for a bounded time:
\* "Prevents probes from hanging indefinitely" (cli.rs:34).
NeverHangsInConnect == pc = "measure" => elapsed <= MAX_TIMEOUT_MS + Late

\* Two measurements of one process are at least the minimum interval apart,
\* also after cycles that outran theirs: "Prevents self-DoS" (cli.rs:30).
NeverFloods ==
  [][pc = "sleep" /\ pc' = "measure" => elapsed >= MIN_INTERVAL_MS]_cvars

\* The warning that a cycle outran the interval is printed for a cycle that did,
\* held up by the resolver or the exporter or by a timeout that reaches the
\* interval; and the first cycle that outran it does not go by without it.
OverrunsAreWarnedOf ==
  [][/\ (~ overran /\ overran') => /\ elapsed > Interval(args)
                                 /\ \/ delayed # {}
                                    \/ Timeout(args) + Late > Interval(args)
     /\ (pc = "sleep" /\ pc' = "measure" /\ elapsed > Interval(args)) => overran]_cvars

\* With a datagram exporter and a timeout well below the interval a stuck
\* resolver is all that can hold a cycle up, and "stretches one cycle in five"
\* (rotate_target): between two such cycles R - 1 kept the interval.
StretchesOneCycleInR ==
  /\ export = "telegraf"
  /\ Timeout(args) + Late <= Interval(args)
  /\ pc = "sleep" /\ elapsed > Interval(args)
  => kept = R - 1

\* collectd is announced an interval within half a second of the one kept, or
\* the operator was warned (run_probe's interval_secs).
AnnouncesItsRate ==
  (pc = "measure" /\ export # "telegraf" /\ ~ WarnsOfRate(args)) =>
    LET announced == IntervalSecs(Interval(args)) * SECOND
    IN  /\ 2 * announced <= 2 * Interval(args) + SECOND
        /\ 2 * announced >= 2 * Interval(args) - SECOND

\* Once Telegraf stays up, no point is lost any more to the error of an
\* earlier one (README.md: the error surfaces on the next send, which is skipped).
TelegrafRecovers ==
  <>[](telegraf = "up") => <>[](pc = "export" => ~ sk_err)

=============================================================================
