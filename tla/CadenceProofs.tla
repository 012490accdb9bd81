---------------------------- MODULE CadenceProofs ----------------------------
(***************************************************************************)
(* Theorems about Cadence, for every command line, every capacity of the   *)
(* transports, every length of a run of failures and every lateness: the   *)
(* timed loop is the loop of Probe, and its inductive invariant bounds     *)
(* every cycle.                                                            *)
(***************************************************************************)
EXTENDS Wire, ProbeProofs, SequenceTheorems

\* A cycle's time is connect's, unless it says what else held it up; the sleep
\* does not pass the interval; and with a datagram exporter and a timeout below
\* the interval the countdown says how long ago a resolver held a cycle up.
Accounted ==
  /\ pc \in {"parse", "resolve", "exporter"} => elapsed = 0 /\ ~ overran /\ kept = R - 1
  /\ pc \in {"parse", "resolve", "exporter", "measure"} => delayed = {}
  /\ pc \in {"resolve", "exporter", "measure", "rotate", "export", "sleep"} => Accepts(args)
  /\ pc = "measure" => elapsed <= Timeout(args) + Late
  /\ pc \in {"rotate", "export", "sleep"} /\ delayed = {} =>
       elapsed <= Timeout(args) + Late \/ (pc = "sleep" /\ elapsed <= Interval(args))
  /\ pc = "sleep" /\ elapsed > Interval(args) => overran

CountsStretches ==
  export = "telegraf" /\ Timeout(args) + Late <= Interval(args) =>
    /\ pc = "measure" => kept >= R - failures_until_reresolve
    /\ pc \in {"export", "sleep"} => kept + 1 >= R - failures_until_reresolve
    /\ pc = "rotate" \/ delayed # {} => kept = R - 1 /\ failures_until_reresolve = R
    /\ delayed \subseteq {"rotate"}

\* The exporter is the one of the command line for the life of the process.
ExportAsGiven == Accepts(args) => export = Destination(args)

CInv == CadenceTypeOK /\ IInv /\ Accounted /\ CountsStretches /\ ExportAsGiven

-----------------------------------------------------------------------------

\* The smaller of two numbers.
LEMMA MinOfTwo ==
  ASSUME NEW a \in Nat, NEW b \in Nat
  PROVE  Min({a, b}) = IF a < b THEN a ELSE b
PROOF
<1>1. {a, b} \in SUBSET Nat /\ {a, b} # {}
  OBVIOUS
<1>2. Min({a, b}) \in {a, b} /\ Min({a, b}) <= a /\ Min({a, b}) <= b
  BY <1>1, MinProperty
<1> QED
  BY <1>2

\* The value of an option that has one.
LEMMA OptionProperty ==
  ASSUME NEW S, NEW o \in Option(S), o # << >>
  PROVE  o[1] \in S
PROOF
<1>1. o \in Seq(S) /\ 1 \in DOMAIN o
  BY DEF Option
<1> QED
  BY <1>1

\* The durations of a command line are numbers of ticks.
LEMMA DurationsProperty ==
  ASSUME NEW a \in CommandLine
  PROVE  Interval(a) \in Nat /\ Timeout(a) \in Nat
PROOF
<1>1. a \in Args
  BY CommandLineAssumption
<1>2. ASSUME NEW d \in Durations
      PROVE  ParseDuration(d) \in Nat
  BY LimitsAssumption DEF Durations, ParseDuration
<1>3. ASSUME NEW o \in Option(Durations), o # << >>
      PROVE  o[1] \in Durations
  BY <1>3, OptionProperty
<1>4. a.interval \in Option(Durations) /\ a.timeout \in Option(Durations)
  BY <1>1 DEF Args
<1> QED
  BY <1>2, <1>3, <1>4, LimitsAssumption DEF Interval, Timeout

\* Every step of the timed loop is a step of Probe or leaves it unchanged.
LEMMA CadenceStep == [CadenceNext]_cvars => [Next]_vars
PROOF
<1> SUFFICES ASSUME [CadenceNext]_cvars PROVE [Next]_vars
  OBVIOUS
<1>1. CASE Process
  <2>1. CASE Send
    <3>1. CASE SendExec
      BY <3>1 DEF SendExec, Export, ExportResults, Next, Cycle
    <3>2. CASE SendUds
      BY <3>2 DEF SendUds, Export, Next, Cycle
    <3>3. CASE SendTelegraf
      BY <3>3 DEF SendTelegraf, Export, ExportResults, Next, Cycle
    <3> QED
      BY <2>1, <3>1, <3>2, <3>3 DEF Send
  <2> QED
    BY <1>1, <2>1 DEF Process, Parse, StartUp, Measure, Rotate, Wake, Next, Cycle
<1>2. CASE Restart
  BY <1>2 DEF Restart, Next
<1>3. CASE Tick
  BY <1>3 DEF Tick
<1>4. CASE World
  BY <1>4 DEF World, CollectdReads, TelegrafChanges, DatagramEnds, ErrorEnds, Next
<1>5. CASE UNCHANGED cvars
  BY <1>5 DEF cvars
<1> QED
  BY <1>1, <1>2, <1>3, <1>4, <1>5 DEF CadenceNext

\* The timed loop starts in its inductive invariant.
LEMMA InitCInv == CadenceInit => CInv
PROOF
<1> SUFFICES ASSUME CadenceInit PROVE CInv
  OBVIOUS
<1>1. IInv /\ TypeOK
  BY InitIInv DEF CadenceInit, IInv
<1>2. overran \in BOOLEAN /\ sk_err \in BOOLEAN
  BY Zenon DEF CadenceInit
<1>3. /\ pc = "parse" /\ elapsed = 0 /\ kept = R - 1 /\ delayed = {}
      /\ pipe = 0 /\ flight = 0 /\ refused = 0
      /\ args \in CommandLine /\ telegraf \in {"up", "down", "unroutable"}
  BY DEF CadenceInit, Init
<1>4. ~ overran
  BY Zenon DEF CadenceInit
<1>5. CadenceTypeOK
  BY <1>1, <1>2, <1>3, RunAssumption, TimeAssumption, TransportAssumption DEF CadenceTypeOK, R
<1>6. Accounted
  BY <1>3, <1>4 DEF Accounted
<1>7. CountsStretches
  BY <1>3 DEF CountsStretches
<1>8. ExportAsGiven
  BY DEF CadenceInit, ExportAsGiven
<1> QED
  BY <1>1, <1>5, <1>6, <1>7, <1>8 DEF CInv

\* Neither the command line nor the exporter changes, whatever happens.
LEMMA GivenStays == [CadenceNext]_cvars => args' = args /\ export' = export
PROOF
<1> SUFFICES ASSUME [CadenceNext]_cvars PROVE args' = args /\ export' = export
  OBVIOUS
<1>1. args' = args
  BY DEF CadenceNext, Process, Parse, StartUp, Measure, Rotate, Send, SendExec, SendUds,
     SendTelegraf, Wake, Restart, Tick, World, CollectdReads, TelegrafChanges, DatagramEnds,
     ErrorEnds, rest, cvars
<1>2. export' = export
  BY CadenceStep DEF Next, Cycle, ParseArgs, StartupResolve, OpenExporter, MeasureOk,
     MeasureErr, RotateTarget, Export, ExportReturns, Sleep, Respawn, ZoneChanges,
     NetworkChanges, CollectdGoes, vars, process
<1> QED
  BY <1>1, <1>2

\* Every step of the process, its clock and its world preserves the invariant.
LEMMA NextCInv == CInv /\ [CadenceNext]_cvars => CInv'
PROOF
<1> SUFFICES ASSUME CInv, [CadenceNext]_cvars PROVE CInv'
  OBVIOUS
<1>1. IInv' /\ TypeOK'
  BY CadenceStep, NextIInv DEF CInv, IInv
<1>2. /\ args' = args
      /\ Interval(args) \in Nat /\ Timeout(args) \in Nat
      /\ Accepts(args) => Interval(args) < MaxElapsed
  <2>1. args' = args
    BY GivenStays
  <2> QED
    BY <2>1, DurationsProperty, TimeAssumption DEF CInv, CadenceTypeOK
<1>3. overran' \in BOOLEAN /\ sk_err' \in BOOLEAN
  <2> USE DEF CInv, CadenceTypeOK, rest, clock, socket, stretch
  <2>1. overran \in BOOLEAN /\ sk_err \in BOOLEAN
    OBVIOUS
  <2>2. CASE Send
    <3>1. CASE SendExec
      BY <2>1, <3>1, Zenon DEF SendExec, EndOfCycle
    <3>2. CASE SendUds
      BY <2>1, <3>2, Zenon DEF SendUds, EndOfCycle
    <3>3. CASE SendTelegraf
      BY <2>1, <3>3, Zenon DEF SendTelegraf, EndOfCycle, ErrorAfterReturn
    <3> QED
      BY <2>2, <3>1, <3>2, <3>3 DEF Send
  <2>3. CASE Restart
    BY <2>3, Zenon DEF Restart
  <2>4. CASE ErrorEnds
    <3>1. overran' = overran /\ sk_err' \in {sk_err, TRUE}
      BY <2>4 DEF ErrorEnds
    <3> QED
      BY <2>1, <3>1, Zenon
  <2>5. CASE UNCHANGED <<overran, sk_err>>
    BY <2>1, <2>5, Zenon
  <2>6. \/ Send \/ Restart \/ ErrorEnds
        \/ UNCHANGED <<overran, sk_err>>
    BY DEF CadenceNext, Process, Parse, StartUp, Measure, Rotate, Wake, Tick, World,
       CollectdReads, TelegrafChanges, DatagramEnds, cvars
  <2> QED
    BY <2>2, <2>3, <2>4, <2>5, <2>6
<1>given. ExportAsGiven'
  <2>1. Accepts(args)' = Accepts(args) /\ Destination(args)' = Destination(args)
    BY <1>2 DEF Accepts, Destination, Interval, Timeout
  <2> QED
    BY <2>1, GivenStays DEF CInv, ExportAsGiven
<1> USE <1>1, <1>2, <1>3, <1>given, RunAssumption, TimeAssumption, TransportAssumption
    DEF CInv, CadenceTypeOK, Accounted, CountsStretches, R
<1>4. CASE Parse
  BY <1>4 DEF Parse, ParseArgs, rest, clock, socket, stretch
<1>5. CASE StartUp
  <2>1. UNCHANGED rest
    BY <1>5 DEF StartUp
  <2>2. CASE StartupResolve
    BY <2>1, <2>2 DEF StartupResolve, rest, clock, socket, stretch
  <2>3. CASE OpenExporter
    <3>1. UNCHANGED <<args, elapsed, overran, pipe, telegraf, flight, refused, sk_err,
                      delayed, kept, export, failures_until_reresolve>>
      BY <2>1, <2>3 DEF OpenExporter, rest, clock, socket, stretch
    <3>2. pc = "exporter" /\ pc' \in {"measure", "exited"}
      BY <2>3 DEF OpenExporter
    <3> QED
      BY <3>1, <3>2 DEF TypeOK
  <2> QED
    BY <1>5, <2>2, <2>3 DEF StartUp
<1>6. CASE Measure
  <2>1. UNCHANGED rest
    BY <1>6 DEF Measure
  <2>2. CASE MeasureOk
    BY <2>1, <2>2 DEF MeasureOk, CountdownAfterOk, rest, clock, socket, stretch
  <2>3. CASE MeasureErr
    <3>1. UNCHANGED <<args, elapsed, overran, pipe, telegraf, flight, refused, sk_err,
                      delayed, kept, export>>
      BY <2>1, <2>3 DEF MeasureErr, rest, clock, socket, stretch
    <3>2. /\ pc = "measure"
          /\ pc' = IF failures_until_reresolve = 1 THEN "rotate" ELSE "export"
          /\ failures_until_reresolve' =
               IF failures_until_reresolve = 1 THEN R ELSE failures_until_reresolve - 1
      BY <2>3 DEF MeasureErr, CountdownAfterErr
    <3>3. CadenceTypeOK' /\ Accounted'
      BY <3>1, <3>2 DEF TypeOK
    <3>4. CountsStretches'
      <4>1. delayed' = {} /\ kept' = kept /\ kept \in 0 .. R - 1
        BY <3>1, <3>2
      <4>2. failures_until_reresolve \in 1..R
        BY DEF TypeOK
      <4>3. SUFFICES ASSUME export = "telegraf", Timeout(args) + Late <= Interval(args)
                     PROVE  /\ pc' \in {"export", "sleep"} => kept + 1 >= R - failures_until_reresolve'
                            /\ pc' = "rotate" => kept = R - 1 /\ failures_until_reresolve' = R
        BY <3>1, <3>2, <4>1
      <4>4. kept >= R - failures_until_reresolve
        BY <3>2, <4>3
      <4> QED
        BY <3>2, <4>1, <4>2, <4>4
    <3> QED
      BY <3>3, <3>4
  <2> QED
    BY <1>6, <2>2, <2>3 DEF Measure
<1>7. CASE Rotate
  BY <1>7 DEF Rotate, RotateTarget, rest, clock, socket, stretch
<1>8. CASE SendExec
  <2>1. pipe' \in 0..Capacity
    BY <1>8 DEF SendExec
  <2>2. export = "exec" /\ export' = export
    BY <1>8 DEF SendExec, ExportReturns
  <2>3. pc = "export" /\ pc' \in {"sleep", "exited"}
    BY <1>8 DEF SendExec, ExportReturns
  <2>4. UNCHANGED <<elapsed, socket, stretch>> /\ EndOfCycle
    BY <1>8 DEF SendExec
  <2> QED
    BY <2>1, <2>2, <2>3, <2>4 DEF EndOfCycle, Overruns, socket, stretch
<1>9. CASE SendUds
  BY <1>9 DEF SendUds, ExportReturns, EndOfCycle, Overruns, GivesUp, socket, stretch
<1>10. CASE SendTelegraf
  <2>1. flight' \in 0..MaxFlight
    BY <1>10, MinOfTwo DEF SendTelegraf
  <2>2. export' = export /\ failures_until_reresolve' = failures_until_reresolve
    BY <1>10 DEF SendTelegraf, ExportReturns
  <2>3. pc = "export" /\ pc' \in {"sleep", "exited"}
    BY <1>10 DEF SendTelegraf, ExportReturns
  <2>4. UNCHANGED <<elapsed, pipe, telegraf, refused, stretch>> /\ EndOfCycle
    BY <1>10 DEF SendTelegraf
  <2> QED
    BY <2>1, <2>2, <2>3, <2>4 DEF EndOfCycle, Overruns, stretch
<1>11. CASE Wake
  BY <1>11, MinOfTwo DEF Wake, Rested, Sleep, socket, TypeOK
<1>12. CASE Restart
  <2>1. ~ overran'
    BY <1>12, Zenon DEF Restart
  <2> QED
    BY <1>12, <2>1 DEF Restart, Respawn
<1>13. CASE Tick
  <2>1. UNCHANGED <<vars, args, overran, pipe, socket, kept>>
    BY <1>13 DEF Tick
  <2>2. elapsed' = IF elapsed + 1 < MaxElapsed THEN elapsed + 1 ELSE MaxElapsed
    BY <1>13, MinOfTwo DEF Tick
  <2>3. delayed' = delayed \cup ({pc} \cap {"rotate", "export"})
    BY <1>13 DEF Tick
  <2>4. Blocked
    BY <1>13 DEF Tick
  <2>5. UNCHANGED <<pc, export, failures_until_reresolve, telegraf, flight, refused>>
    BY <2>1 DEF vars, process, socket
  <2>6. CadenceTypeOK'
    BY <2>1, <2>2, <2>3, <2>5
  <2>7. CASE pc = "measure"
    BY <2>1, <2>2, <2>3, <2>4, <2>5, <2>6, <2>7 DEF Blocked, Connecting
  <2>8. CASE pc = "rotate"
    BY <2>1, <2>2, <2>3, <2>5, <2>6, <2>8
  <2>9. CASE pc = "export"
    BY <2>1, <2>2, <2>3, <2>4, <2>5, <2>6, <2>9 DEF Blocked
  <2>10. CASE pc = "sleep"
    BY <2>1, <2>2, <2>3, <2>4, <2>5, <2>6, <2>10 DEF Blocked, Rested
  <2> QED
    BY <2>4, <2>7, <2>8, <2>9, <2>10 DEF Blocked
<1>14. CASE World
  <2>1. UNCHANGED <<pc, export, failures_until_reresolve, args, elapsed, overran, delayed, kept>>
    BY <1>14 DEF World, ZoneChanges, NetworkChanges, CollectdGoes, CollectdReads,
       TelegrafChanges, DatagramEnds, ErrorEnds, rest, clock, stretch, vars, process
  <2>2. /\ pipe' \in 0..Capacity /\ telegraf' \in {"up", "down", "unroutable"}
        /\ flight' \in 0..MaxFlight /\ refused' \in 0..MaxFlight
    <3>1. CASE UNCHANGED rest
      BY <3>1 DEF rest, socket
    <3>2. CASE CollectdReads
      BY <3>2 DEF CollectdReads, socket
    <3>3. CASE TelegrafChanges
      BY <3>3 DEF TelegrafChanges
    <3>4. CASE DatagramEnds
      <4>1. pipe' = pipe /\ telegraf' = telegraf /\ flight' = flight - 1 /\ flight > 0
        BY <3>4 DEF DatagramEnds
      <4>2. refused' = refused \/ refused' = Min({refused + 1, MaxFlight})
        BY <3>4 DEF DatagramEnds
      <4>3. refused' \in 0..MaxFlight
        BY <4>2, MinOfTwo
      <4> QED
        BY <4>1, <4>3
    <3>5. CASE ErrorEnds
      BY <3>5 DEF ErrorEnds
    <3> QED
      BY <1>14, <3>1, <3>2, <3>3, <3>4, <3>5 DEF World
  <2> QED
    BY <2>1, <2>2
<1>15. CASE UNCHANGED cvars
  BY <1>15 DEF cvars, rest, clock, socket, stretch, vars, process
<1> QED
  BY <1>4, <1>5, <1>6, <1>7, <1>8, <1>9, <1>10, <1>11, <1>12, <1>13, <1>14, <1>15
     DEF CadenceNext, Process, Send

-----------------------------------------------------------------------------

\* The timed loop never leaves its inductive invariant.
THEOREM CadenceInvariance == CadenceSpec => []CInv
PROOF
<1> QED
  BY InitCInv, NextCInv, PTL DEF CadenceSpec

\* Every run of the timed loop is a run of Probe's: what Probe promises of the
\* rotation holds whatever the command line, the clock and the transports do.
THEOREM TimedLoopIsProbe == CadenceSpec => Init /\ [][Next]_vars
PROOF
<1>1. CadenceInit => Init
  BY DEF CadenceInit
<1> QED
  BY <1>1, CadenceStep, PTL DEF CadenceSpec

\* Every variable of the timed loop keeps its type.
THEOREM CadenceTypeCorrect == CadenceSpec => []CadenceTypeOK
PROOF
<1>1. CInv => CadenceTypeOK
  BY DEF CInv
<1> QED
  BY <1>1, CadenceInvariance, PTL

\* An accepted --timeout bounds every connect, and with it the time the loop
\* spends in it, whatever command line was given (cli.rs:34).
THEOREM ConnectIsBounded == CadenceSpec => []NeverHangsInConnect
PROOF
<1>1. CInv => NeverHangsInConnect
  <2> SUFFICES ASSUME CInv, pc = "measure" PROVE elapsed <= MAX_TIMEOUT_MS + Late
    BY DEF NeverHangsInConnect
  <2>1. Accepts(args) /\ elapsed <= Timeout(args) + Late
    BY DEF CInv, Accounted
  <2>2. Timeout(args) \in 1..MAX_TIMEOUT_MS
    BY <2>1 DEF Accepts
  <2> QED
    BY <2>1, <2>2, LimitsAssumption, TimeAssumption DEF CInv, CadenceTypeOK
<1> QED
  BY <1>1, CadenceInvariance, PTL

\* A resolver that holds the loop up does so one cycle in R, for every timeout
\* below the interval (rotate_target's comment).
THEOREM OneCycleInRIsStretched == CadenceSpec => []StretchesOneCycleInR
PROOF
<1>1. CInv => StretchesOneCycleInR
  <2> SUFFICES ASSUME CInv, export = "telegraf", Timeout(args) + Late <= Interval(args),
                      pc = "sleep", elapsed > Interval(args)
               PROVE  kept = R - 1
    BY DEF StretchesOneCycleInR
  <2>1. Interval(args) \in Nat /\ Timeout(args) \in Nat
    BY DurationsProperty DEF CInv, CadenceTypeOK
  <2>2. delayed # {}
    BY <2>1, TimeAssumption DEF CInv, CadenceTypeOK, Accounted
  <2> QED
    BY <2>2 DEF CInv, CountsStretches
<1> QED
  BY <1>1, CadenceInvariance, PTL

\* Measurements of one process are at least the minimum interval apart, for
\* every command line and however long earlier cycles took (cli.rs:30).
THEOREM ProbesArePaced == CadenceSpec => NeverFloods
PROOF
<1>1. CInv /\ [CadenceNext]_cvars =>
        [pc = "sleep" /\ pc' = "measure" => elapsed >= MIN_INTERVAL_MS]_cvars
  <2> SUFFICES ASSUME CInv, CadenceNext, pc = "sleep", pc' = "measure"
               PROVE  elapsed >= MIN_INTERVAL_MS
    OBVIOUS
  <2>1. Wake
    BY DEF CadenceNext, Process, Parse, ParseArgs, StartUp, StartupResolve, OpenExporter,
       Measure, MeasureOk, MeasureErr, Rotate, RotateTarget, Send, SendExec, SendUds,
       SendTelegraf, ExportReturns, Restart, Respawn, Tick, World, ZoneChanges,
       NetworkChanges, CollectdGoes, CollectdReads, TelegrafChanges, DatagramEnds,
       ErrorEnds, vars, process
  <2>2. Interval(args) \in MIN_INTERVAL_MS..MAX_INTERVAL_MS
    BY DEF CInv, Accounted, Accepts
  <2> QED
    BY <2>1, <2>2, LimitsAssumption, TimeAssumption DEF Wake, Rested, CInv, CadenceTypeOK
<1> QED
  BY <1>1, CadenceInvariance, PTL DEF CadenceSpec, NeverFloods

\* No overrun goes by without the warning, and no warning is printed for a
\* cycle that nothing held up (run_probe's warned_overrun).
THEOREM OverrunWarningIsTrue == CadenceSpec => OverrunsAreWarnedOf
PROOF
<1> DEFINE Told ==
      /\ (~ overran /\ overran') => /\ elapsed > Interval(args)
                                    /\ \/ delayed # {}
                                       \/ Timeout(args) + Late > Interval(args)
      /\ (pc = "sleep" /\ pc' = "measure" /\ elapsed > Interval(args)) => overran
<1>1. CInv /\ [CadenceNext]_cvars => [Told]_cvars
  <2> SUFFICES ASSUME CInv, CadenceNext PROVE Told
    OBVIOUS
  <2>1. Interval(args) \in Nat /\ Timeout(args) \in Nat
    BY DurationsProperty DEF CInv, CadenceTypeOK
  <2>2. ASSUME ~ overran, overran'
        PROVE  elapsed > Interval(args) /\ (delayed # {} \/ Timeout(args) + Late > Interval(args))
    <3>1. Send
      BY <2>2, Zenon DEF CadenceNext, Process, Parse, StartUp, Measure, Rotate, Wake, Restart,
         Tick, World, CollectdReads, TelegrafChanges, DatagramEnds, ErrorEnds, rest, clock
    <3>2. pc = "export" /\ EndOfCycle
      BY <3>1, Zenon DEF Send, SendExec, SendUds, SendTelegraf, ExportReturns
    <3>3. elapsed > Interval(args)
      BY <2>2, <3>2, Zenon DEF EndOfCycle, Overruns
    <3> QED
      BY <2>1, <3>2, <3>3, TimeAssumption DEF CInv, CadenceTypeOK, Accounted
  <2>3. pc = "sleep" /\ elapsed > Interval(args) => overran
    BY DEF CInv, Accounted
  <2> QED
    BY <2>2, <2>3
<1> QED
  BY <1>1, CadenceInvariance, PTL DEF CadenceSpec, OverrunsAreWarnedOf

\* A rounded quotient is within half of its divisor's unit.
LEMMA RoundedQuotient ==
  ASSUME NEW m \in Nat, NEW d \in Nat \ {0}
  PROVE  LET q == (2 * m + d) \div (2 * d)
         IN  q \in Nat /\ 2 * (q * d) <= 2 * m + d /\ 2 * (q * d) >= 2 * m - d
PROOF
<1> DEFINE a == 2 * m + d
           b == 2 * d
           q == a \div b
<1>1. a \in Nat /\ b \in Nat /\ b > 0
  OBVIOUS
<1> HIDE DEF a, b
<1>2. q \in Int /\ b * q <= a /\ a < b * q + b
  BY <1>1
<1>3. q \in Nat
  BY <1>1, <1>2
<1> QED
  BY <1>2, <1>3 DEF a, b

\* What collectd is announced is within half a second of the interval kept, for
\* every interval of a second or more (run_probe's interval_secs).
THEOREM RateIsAnnounced == CadenceSpec => []AnnouncesItsRate
PROOF
<1>1. CInv => AnnouncesItsRate
  <2> DEFINE announced == IntervalSecs(Interval(args)) * SECOND
  <2> SUFFICES ASSUME CInv, pc = "measure", export # "telegraf", ~ WarnsOfRate(args)
               PROVE  /\ 2 * announced <= 2 * Interval(args) + SECOND
                      /\ 2 * announced >= 2 * Interval(args) - SECOND
    BY DEF AnnouncesItsRate
  <2>1. Interval(args) \in Nat /\ SECOND \in Nat \ {0}
    BY DurationsProperty, LimitsAssumption DEF CInv, CadenceTypeOK
  <2>2. Interval(args) >= SECOND
    <3>1. Destination(args) \in {"exec", "uds"}
      BY DEF CInv, Accounted, ExportAsGiven, CadenceTypeOK, TypeOK, Exporters
    <3> QED
      BY <2>1, <3>1 DEF WarnsOfRate
  <2>3. IntervalSecs(Interval(args)) = (2 * Interval(args) + SECOND) \div (2 * SECOND)
    BY <2>1, <2>2 DEF IntervalSecs
  <2> HIDE DEF announced
  <2>4. announced = ((2 * Interval(args) + SECOND) \div (2 * SECOND)) * SECOND
    BY <2>3 DEF announced
  <2> QED
    BY <2>1, <2>4, RoundedQuotient
<1> QED
  BY <1>1, CadenceInvariance, PTL

-----------------------------------------------------------------------------

\* What Probe promises of the rotation holds of the timed loop: under every
\* command line and with every transport, an address that is still answered is
\* given up only after R failures of it in a row (rotate_target).
THEOREM TimedLoopImplementsTargetRotation == CadenceSpec => ImplementsTargetRotation
PROOF
<1>1. CadenceInit => Rotation!Init
  BY DEF CadenceInit, Init, Rotation!Init
<1>2. CInv /\ [CadenceNext]_cvars => [Rotation!Next]_(Rotation!vars)
  BY CadenceStep, RotationStep DEF CInv
<1> QED
  BY CadenceInvariance, <1>1, <1>2, PTL DEF CadenceSpec, ImplementsTargetRotation, Rotation!Spec

\* And so do the fair sweep, the countdown and the orphan's last measurement,
\* however long a write was blocked or a resolver was stuck (run_probe).
THEOREM TimedLoopKeepsProbe ==
  CadenceSpec => [](EveryAnswerGetsItsTurn /\ CountdownIsARun /\ NoOrphanProbing)
PROOF
<1>1. CInv => EveryAnswerGetsItsTurn /\ CountdownIsARun /\ NoOrphanProbing
  BY DEF CInv, IInv
<1> QED
  BY <1>1, CadenceInvariance, PTL

-----------------------------------------------------------------------------
(* The lines: texts are put together out of names and literals, and cut at   *)
(* the first of a separator.                                                 *)

\* The letters of the names and the words between them.
Symbols ==
  Chars \cup {"PUTVAL", "wire-probe-tcp", "latency-", "interval", "seconds", "N:", "number", "U",
              "tcp_latency", "target", "az", "rtt_ms", "success", "0i", "1i", "timestamp"}
Text == Seq(Symbols)
Separators == {"space", "comma", "=", "/", "newline"}

\* A sequence over a set is one over every larger set.
LEMMA SeqOfMore ==
  ASSUME NEW S, NEW T, S \subseteq T, NEW s \in Seq(S)
  PROVE  s \in Seq(T)
OBVIOUS

\* A sanitized name holds no separator.
LEMMA SanitizedName ==
  ASSUME NEW name \in Names
  PROVE  Sanitize(name) \in Text /\ \A c \in Separators : ~ Holds(Sanitize(name), c)
PROOF
<1> DEFINE letters == Kept \cup {"_"}
<1>1. "_" \in letters /\ letters \subseteq Symbols
  BY DEF Kept, Chars, Symbols
<1>2. \A c \in Separators : c \notin letters
  BY DEF Kept, Separators
<1> HIDE DEF letters
<1>3. Len(name) \in Nat /\ DOMAIN name = 1 .. Len(name)
  BY DEF Names
<1>4. Sanitize(name) \in [1 .. Len(name) -> letters]
  BY <1>1, <1>3 DEF Sanitize, letters
<1>5. Sanitize(name) \in Seq(letters)
  BY <1>3, <1>4
<1>6. Sanitize(name) \in Text
  BY <1>1, <1>5, SeqOfMore DEF Text
<1> QED
  BY <1>2, <1>3, <1>4, <1>6 DEF Holds, Places

\* A separator of a text put together is a separator of one of its parts.
LEMMA HoldsOfConcat ==
  ASSUME NEW S, NEW a \in Seq(S), NEW b \in Seq(S), NEW c
  PROVE  a \o b \in Seq(S) /\ (Holds(a \o b, c) <=> Holds(a, c) \/ Holds(b, c))
PROOF
<1>1. /\ Len(a) \in Nat /\ Len(b) \in Nat /\ DOMAIN a = 1 .. Len(a) /\ DOMAIN b = 1 .. Len(b)
      /\ a \o b \in Seq(S) /\ DOMAIN (a \o b) = 1 .. Len(a) + Len(b)
      /\ \A i \in 1 .. Len(a) + Len(b) : (a \o b)[i] = IF i <= Len(a) THEN a[i] ELSE b[i - Len(a)]
  BY ConcatProperties
<1>2. ASSUME Holds(a, c) PROVE Holds(a \o b, c)
  BY <1>1, <1>2 DEF Holds, Places
<1>3. ASSUME Holds(b, c) PROVE Holds(a \o b, c)
  <2>1. PICK i \in 1 .. Len(b) : b[i] = c
    BY <1>1, <1>3 DEF Holds, Places
  <2>2. Len(a) + i \in 1 .. Len(a) + Len(b) /\ ~ (Len(a) + i <= Len(a)) /\ Len(a) + i - Len(a) = i
    BY <1>1
  <2> QED
    BY <1>1, <2>1, <2>2 DEF Holds, Places
<1>4. ASSUME Holds(a \o b, c) PROVE Holds(a, c) \/ Holds(b, c)
  <2>1. PICK i \in 1 .. Len(a) + Len(b) : (a \o b)[i] = c
    BY <1>1, <1>4 DEF Holds, Places
  <2>2. CASE i <= Len(a)
    BY <1>1, <2>1, <2>2 DEF Holds, Places
  <2>3. CASE ~ (i <= Len(a))
    <3>1. i - Len(a) \in 1 .. Len(b)
      BY <1>1, <2>3
    <3> QED
      BY <1>1, <2>1, <2>3, <3>1 DEF Holds, Places
  <2> QED
    BY <2>2, <2>3
<1> QED
  BY <1>1, <1>2, <1>3, <1>4

\* A text is cut at the first separator, which stands after what holds none.
LEMMA CutAt ==
  ASSUME NEW S, NEW a \in Seq(S), NEW b \in Seq(S), NEW c \in S, ~ Holds(a, c)
  PROVE  /\ Holds(a \o (<<c>> \o b), c)
         /\ Before(a \o (<<c>> \o b), c) = a /\ After(a \o (<<c>> \o b), c) = b
PROOF
<1> DEFINE s == a \o (<<c>> \o b)
           n == Len(a) + 1
<1>1. /\ Len(a) \in Nat /\ DOMAIN a = 1 .. Len(a) /\ n \in Nat /\ n >= 1
      /\ Len(b) \in Nat /\ DOMAIN b = 1 .. Len(b)
  OBVIOUS
<1>2. /\ <<c>> \o b \in Seq(S) /\ Len(<<c>> \o b) = 1 + Len(b)
      /\ \A i \in 1 .. 1 + Len(b) : (<<c>> \o b)[i] = IF i <= 1 THEN c ELSE b[i - 1]
  <2>1. <<c>> \in Seq(S) /\ Len(<<c>>) = 1 /\ <<c>>[1] = c
    OBVIOUS
  <2> QED
    BY <1>1, <2>1, ConcatProperties
<1>3. /\ s \in Seq(S) /\ Len(s) = n + Len(b) /\ DOMAIN s = 1 .. n + Len(b)
      /\ \A i \in 1 .. n + Len(b) : s[i] = IF i <= Len(a) THEN a[i] ELSE (<<c>> \o b)[i - Len(a)]
  <2>1. Len(s) = Len(a) + (1 + Len(b)) /\ s \in Seq(S)
    BY <1>1, <1>2, ConcatProperties
  <2>2. Len(a) + (1 + Len(b)) = n + Len(b)
    BY <1>1
  <2>3. DOMAIN s = 1 .. Len(s)
    BY <2>1
  <2> QED
    BY <1>1, <1>2, <2>1, <2>2, <2>3, ConcatProperties
<1> HIDE DEF s
<1>4. \A i \in 1 .. Len(a) : s[i] = a[i] /\ s[i] # c
  <2>1. \A i \in 1 .. Len(a) : a[i] # c
    BY <1>1 DEF Holds, Places
  <2>2. \A i \in 1 .. Len(a) : i \in 1 .. n + Len(b) /\ i <= Len(a)
    BY <1>1
  <2> QED
    BY <1>3, <2>1, <2>2
<1>5. s[n] = c
  <2>1. n - Len(a) = 1 /\ n \in 1 .. n + Len(b) /\ ~ (n <= Len(a)) /\ 1 \in 1 .. 1 + Len(b)
    BY <1>1
  <2>2. s[n] = (<<c>> \o b)[n - Len(a)]
    BY <1>3, <2>1
  <2>3. (<<c>> \o b)[1] = c
    BY <1>2, <2>1
  <2> QED
    BY <2>1, <2>2, <2>3
<1>6. \A i \in 1 .. Len(b) : s[n + i] = b[i]
  <2> SUFFICES ASSUME NEW i \in 1 .. Len(b) PROVE s[n + i] = b[i]
    OBVIOUS
  <2>1. /\ n + i \in 1 .. n + Len(b) /\ ~ (n + i <= Len(a)) /\ n + i - Len(a) = 1 + i
        /\ 1 + i \in 1 .. 1 + Len(b) /\ ~ (1 + i <= 1) /\ 1 + i - 1 = i
    BY <1>1
  <2>2. s[n + i] = (<<c>> \o b)[n + i - Len(a)]
    BY <1>3, <2>1
  <2>3. (<<c>> \o b)[1 + i] = b[1 + i - 1]
    BY <1>2, <2>1
  <2> QED
    BY <2>1, <2>2, <2>3
<1>7. Holds(s, c)
  BY <1>1, <1>3, <1>5 DEF Holds, Places
<1>8. Cut(s, c) = n
  <2>1. Places(s, c) \in SUBSET Nat /\ n \in Places(s, c)
    BY <1>1, <1>3, <1>5 DEF Places
  <2>2. \A i \in Places(s, c) : i >= n
    BY <1>1, <1>3, <1>4 DEF Places
  <2>3. Min(Places(s, c)) \in Places(s, c) /\ Min(Places(s, c)) <= n
    BY <2>1, MinProperty
  <2> QED
    BY <1>1, <2>1, <2>2, <2>3 DEF Cut
<1>9. Before(s, c) = a
  <2>1. \A i \in 1 .. n - 1 : s[i] \in S
    BY <1>1, <1>3
  <2>2. /\ SubSeq(s, 1, n - 1) \in Seq(S)
        /\ Len(SubSeq(s, 1, n - 1)) = Len(a)
        /\ \A i \in 1 .. Len(a) : SubSeq(s, 1, n - 1)[i] = s[i]
    BY <1>1, <1>3
  <2>3. SubSeq(s, 1, n - 1) = a
    BY <1>1, <1>4, <2>2, SeqEqual
  <2> QED
    BY <1>8, <2>3 DEF Before
<1>10. After(s, c) = b
  <2>1. /\ SubSeq(s, n + 1, n + Len(b)) \in Seq(S)
        /\ Len(SubSeq(s, n + 1, n + Len(b))) = Len(b)
        /\ \A i \in 1 .. Len(b) : SubSeq(s, n + 1, n + Len(b))[i] = s[n + i]
    BY <1>1, <1>3
  <2>2. SubSeq(s, n + 1, n + Len(b)) = b
    BY <1>1, <1>6, <2>1, SeqEqual
  <2> QED
    BY <1>3, <1>8, <2>2 DEF After
<1> QED
  BY <1>3, <1>7, <1>9, <1>10 DEF s

\* The literals of a PUTVAL are texts.
LEMMA PutvalWords ==
  ASSUME NEW v \in {"number", "U"}
  PROVE  /\ {<<"PUTVAL", "space">>, <<"/", "wire-probe-tcp", "/", "latency-">>,
             <<"space", "interval", "=", "seconds", "space", "N:">>, <<v>>, <<"newline">>}
              \subseteq Text
         /\ {<<"N:", v, "newline">>, <<"interval", "=", "seconds">>, <<"latency-">>,
             <<"wire-probe-tcp">>, <<"PUTVAL">>, <<"space">>, <<"/">>, << >>} \subseteq Text
PROOF
<1>1. {"PUTVAL", "wire-probe-tcp", "latency-", "interval", "=", "seconds", "N:", v, "space", "/",
       "newline"} \subseteq Symbols
  BY DEF Symbols, Chars, Kept
<1> HIDE DEF Symbols
<1>2. /\ <<"PUTVAL", "space">> \in Text /\ <<"/", "wire-probe-tcp", "/", "latency-">> \in Text
      /\ <<"space", "interval", "=", "seconds", "space", "N:">> \in Text
      /\ <<v>> \in Text /\ <<"newline">> \in Text
  BY <1>1 DEF Text
<1>3. /\ <<"N:", v, "newline">> \in Text /\ <<"interval", "=", "seconds">> \in Text
      /\ <<"latency-">> \in Text /\ <<"wire-probe-tcp">> \in Text /\ <<"PUTVAL">> \in Text
      /\ <<"space">> \in Text /\ <<"/">> \in Text /\ << >> \in Text
  BY <1>1 DEF Text
<1> QED
  BY <1>2, <1>3

\* And the separators they do not hold.
LEMMA PutvalSeparators ==
  ASSUME NEW v \in {"number", "U"}
  PROVE  /\ \A word \in {<<"PUTVAL", "space">>, <<"/", "wire-probe-tcp", "/", "latency-">>,
                         <<"space", "interval", "=", "seconds", "space", "N:">>, <<v>>} :
              ~ Holds(word, "newline")
         /\ \A word \in {<<"PUTVAL">>, <<"/", "wire-probe-tcp", "/", "latency-">>,
                         <<"interval", "=", "seconds">>, <<"N:", v, "newline">>} :
              ~ Holds(word, "space")
         /\ \A word \in {<<"wire-probe-tcp">>, <<"latency-">>} : ~ Holds(word, "/")
PROOF
<1>1. /\ ~ Holds(<<"PUTVAL", "space">>, "newline")
      /\ ~ Holds(<<"/", "wire-probe-tcp", "/", "latency-">>, "newline")
      /\ ~ Holds(<<"space", "interval", "=", "seconds", "space", "N:">>, "newline")
      /\ ~ Holds(<<v>>, "newline")
  BY DEF Holds, Places
<1>2. /\ ~ Holds(<<"PUTVAL">>, "space")
      /\ ~ Holds(<<"/", "wire-probe-tcp", "/", "latency-">>, "space")
      /\ ~ Holds(<<"interval", "=", "seconds">>, "space")
      /\ ~ Holds(<<"N:", v, "newline">>, "space")
  BY DEF Holds, Places
<1>3. /\ ~ Holds(<<"wire-probe-tcp">>, "/") /\ ~ Holds(<<"latency-">>, "/")
  BY DEF Holds, Places
<1> QED
  BY <1>1, <1>2, <1>3

\* One text after another, by a name of its own: the leaves below need only its laws.
Then(a, b) == a \o b

\* Putting together is associative, and adds no separator of its own.
LEMMA ThenLaws ==
  ASSUME NEW a \in Text, NEW b \in Text
  PROVE  /\ Then(a, b) \in Text
         /\ \A c \in Text : Then(Then(a, b), c) = Then(a, Then(b, c))
         /\ \A c : Holds(Then(a, b), c) <=> Holds(a, c) \/ Holds(b, c)
PROOF
<1>1. a \o b \in Text /\ \A c : Holds(a \o b, c) <=> Holds(a, c) \/ Holds(b, c)
  BY HoldsOfConcat DEF Text
<1>2. \A c \in Text : (a \o b) \o c = a \o (b \o c)
  BY ConcatAssociative DEF Text
<1> QED
  BY <1>1, <1>2 DEF Then

\* How the brackets move over the end of a part.
LEMMA ThenRegrouped ==
  ASSUME NEW a \in Text, NEW b \in Text, NEW c \in Text, NEW d \in Text
  PROVE  Then(Then(a, Then(b, c)), d) = Then(a, Then(b, Then(c, d)))
PROOF
<1>1. Then(b, c) \in Text
  BY ThenLaws
<1>2. Then(Then(a, Then(b, c)), d) = Then(a, Then(Then(b, c), d))
  BY <1>1, ThenLaws
<1>3. Then(Then(b, c), d) = Then(b, Then(c, d))
  BY ThenLaws
<1> QED
  BY <1>2, <1>3

\* Texts without a separator.
Without(c) == {text \in Text : ~ Holds(text, c)}

\* They stay so when they are put together.
LEMMA ThenWithout ==
  ASSUME NEW c, NEW a \in Without(c), NEW b \in Without(c)
  PROVE  Then(a, b) \in Without(c)
BY ThenLaws DEF Without

\* CutAt, of what Then puts together.
LEMMA ThenCut ==
  ASSUME NEW a \in Text, NEW b \in Text, NEW c \in Symbols, ~ Holds(a, c)
  PROVE  /\ Holds(Then(a, Then(<<c>>, b)), c)
         /\ Before(Then(a, Then(<<c>>, b)), c) = a
         /\ After(Then(a, Then(<<c>>, b)), c) = b
BY CutAt DEF Then, Text

\* The literals of a PUTVAL, taken apart at the separators its reader looks for.
LEMMA PutvalTuples ==
  ASSUME NEW v \in {"number", "U"}
  PROVE  /\ <<"PUTVAL", "space">> = Then(<<"PUTVAL">>, <<"space">>)
         /\ <<"/", "wire-probe-tcp", "/", "latency-">> =
              Then(<<"/">>, Then(<<"wire-probe-tcp">>, Then(<<"/">>, <<"latency-">>)))
         /\ Then(Then(<<"space", "interval", "=", "seconds", "space", "N:">>, <<v>>), <<"newline">>) =
              Then(<<"space">>, Then(<<"interval", "=", "seconds">>,
                                     Then(<<"space">>, <<"N:", v, "newline">>)))
BY DEF Then

\* A reader of PUTVAL gets back what was put into the line.
LEMMA PutvalIsRead ==
  ASSUME NEW h \in Text, NEW t \in Text, NEW v \in {"number", "U"},
         \A c \in Separators : ~ Holds(h, c) /\ ~ Holds(t, c)
  PROVE  ReadPutval(<<"PUTVAL", "space">> \o h \o <<"/", "wire-probe-tcp", "/", "latency-">>
                      \o t \o <<"space", "interval", "=", "seconds", "space", "N:">>
                      \o <<v>> \o <<"newline">>) =
           [labels |-> <<h, t>>, value |-> IF v = "U" THEN "failure" ELSE "rtt"]
PROOF
<1> DEFINE head == <<"PUTVAL", "space">>
           middle == <<"/", "wire-probe-tcp", "/", "latency-">>
           option == <<"space", "interval", "=", "seconds", "space", "N:">>
           body == Then(Then(Then(Then(Then(head, h), middle), t), option), <<v>>)
           line == Then(body, <<"newline">>)
           value == <<"N:", v, "newline">>
           seconds == <<"interval", "=", "seconds">>
           values == Then(seconds, Then(<<"space">>, value))
           type == Then(<<"latency-">>, t)
           plugin == Then(<<"wire-probe-tcp">>, Then(<<"/">>, type))
           identifier == Then(h, Then(<<"/">>, plugin))
           arguments == Then(identifier, Then(<<"space">>, values))
<1> SUFFICES ReadPutval(line) = [labels |-> <<h, t>>, value |-> IF v = "U" THEN "failure" ELSE "rtt"]
  BY DEF Then
<1>1. /\ head \in Text /\ middle \in Text /\ option \in Text /\ <<v>> \in Text
      /\ <<"newline">> \in Text /\ value \in Text /\ seconds \in Text /\ <<"latency-">> \in Text
      /\ <<"wire-probe-tcp">> \in Text /\ <<"PUTVAL">> \in Text /\ <<"space">> \in Text
      /\ <<"/">> \in Text /\ << >> \in Text
  BY PutvalWords
<1>2. /\ ~ Holds(head, "newline") /\ ~ Holds(middle, "newline") /\ ~ Holds(option, "newline")
      /\ ~ Holds(<<v>>, "newline") /\ ~ Holds(<<"PUTVAL">>, "space") /\ ~ Holds(middle, "space")
      /\ ~ Holds(seconds, "space") /\ ~ Holds(value, "space")
      /\ ~ Holds(<<"wire-probe-tcp">>, "/") /\ ~ Holds(<<"latency-">>, "/")
  BY PutvalSeparators
<1>3. /\ head = Then(<<"PUTVAL">>, <<"space">>)
      /\ middle = Then(<<"/">>, Then(<<"wire-probe-tcp">>, Then(<<"/">>, <<"latency-">>)))
      /\ Then(Then(option, <<v>>), <<"newline">>) = Then(<<"space">>, values)
  BY PutvalTuples
<1>4. /\ ~ Holds(h, "newline") /\ ~ Holds(h, "space") /\ ~ Holds(h, "/")
      /\ ~ Holds(t, "newline") /\ ~ Holds(t, "space") /\ ~ Holds(t, "/")
  BY DEF Separators
<1>5. {"space", "/", "newline"} \subseteq Symbols
  BY DEF Symbols, Chars
<1> HIDE DEF head, middle, option, body, value, seconds, values, type, plugin, identifier, arguments
<1>6. /\ type \in Text /\ plugin \in Text /\ identifier \in Text /\ values \in Text
      /\ arguments \in Text
  BY <1>1, ThenLaws DEF type, plugin, identifier, values, arguments
<1>7. identifier = Then(h, Then(middle, t))
  BY <1>1, <1>3, ThenLaws DEF identifier, plugin, type
<1>8. line = Then(<<"PUTVAL">>, Then(<<"space">>, arguments))
  <2>1. Then(Then(Then(head, h), middle), t) = Then(head, identifier)
    BY <1>1, <1>7, ThenLaws
  <2>2. Then(head, identifier) = Then(<<"PUTVAL">>, Then(<<"space">>, identifier))
    BY <1>1, <1>3, <1>6, ThenLaws
  <2>3. line = Then(Then(head, identifier), Then(Then(option, <<v>>), <<"newline">>))
    BY <1>1, <1>6, <2>1, ThenLaws DEF line, body
  <2>4. line = Then(Then(<<"PUTVAL">>, Then(<<"space">>, identifier)), Then(<<"space">>, values))
    BY <1>3, <2>2, <2>3
  <2>5. Then(Then(<<"PUTVAL">>, Then(<<"space">>, identifier)), Then(<<"space">>, values)) =
          Then(<<"PUTVAL">>, Then(<<"space">>, Then(identifier, Then(<<"space">>, values))))
    <3>1. Then(<<"space">>, values) \in Text
      BY <1>1, <1>6, ThenLaws
    <3> QED
      BY <1>1, <1>6, <3>1, ThenRegrouped
  <2> QED
    BY <2>4, <2>5 DEF arguments
<1>9. IsLine(line)
  <2>1. body \in Text /\ ~ Holds(body, "newline")
    <3>1. {head, h, middle, t, option, <<v>>} \subseteq Without("newline")
      BY <1>1, <1>2, <1>4 DEF Without
    <3>2. Then(Then(head, h), middle) \in Without("newline")
      BY <3>1, ThenWithout
    <3>3. Then(Then(Then(head, h), middle), t) \in Without("newline")
      BY <3>1, <3>2, ThenWithout
    <3>4. body \in Without("newline")
      BY <3>1, <3>3, ThenWithout DEF body
    <3> QED
      BY <3>4 DEF Without
  <2>2. <<"newline">> = Then(<<"newline">>, << >>)
    BY DEF Then
  <2> QED
    BY <1>1, <1>5, <2>1, <2>2, ThenCut DEF IsLine, line
<1>10. /\ Holds(line, "space") /\ Before(line, "space") = <<"PUTVAL">>
       /\ After(line, "space") = arguments
  BY <1>1, <1>2, <1>5, <1>6, <1>8, ThenCut
<1>11. /\ Holds(arguments, "space") /\ Before(arguments, "space") = identifier
       /\ After(arguments, "space") = values
  <2>1. ~ Holds(identifier, "space")
    BY <1>1, <1>2, <1>4, <1>7, ThenLaws
  <2> QED
    BY <1>5, <1>6, <2>1, ThenCut DEF arguments
<1>12. Holds(values, "space") /\ After(values, "space") = value
  BY <1>1, <1>2, <1>5, ThenCut DEF values
<1>13. /\ Holds(identifier, "/") /\ Before(identifier, "/") = h /\ After(identifier, "/") = plugin
       /\ Holds(plugin, "/") /\ After(plugin, "/") = type
  BY <1>1, <1>2, <1>4, <1>5, <1>6, ThenCut DEF identifier, plugin
<1>14. ~ Holds(type, "/") /\ Tail(type) = t
  <2>1. ~ Holds(type, "/")
    BY <1>1, <1>2, <1>4, ThenLaws DEF type
  <2>2. Tail(type) = t
    BY DEF type, Then, Text
  <2> QED
    BY <2>1, <2>2
<1>15. (CASE value = <<"N:", "U", "newline">> -> "failure"
          [] value = <<"N:", "number", "newline">> -> "rtt"
          [] OTHER -> "none") = IF v = "U" THEN "failure" ELSE "rtt"
  BY DEF value
<1> HIDE DEF line
<1>16. After(After(After(line, "space"), "space"), "space") = value
  BY <1>10, <1>11, <1>12
<1>17. /\ Before(After(line, "space"), "space") = identifier
       /\ After(Before(After(line, "space"), "space"), "/") = plugin
       /\ After(After(Before(After(line, "space"), "space"), "/"), "/") = type
       /\ Before(Before(After(line, "space"), "space"), "/") = h
  BY <1>10, <1>11, <1>13
<1>18. ~ Holds(value, "space")
  BY <1>2
<1> QED
  BY <1>9, <1>10, <1>11, <1>12, <1>13, <1>14, <1>15, <1>16, <1>17, <1>18 DEF ReadPutval

\* The fields of a line of the Influx Line Protocol.
Fields == {<<"rtt_ms", "=", "number", "comma", "success", "=", "1i">>, <<"success", "=", "0i">>}

\* The fields and the literals are texts.
LEMMA IlpWords ==
  /\ Fields \subseteq Text
  /\ {<<"tcp_latency", "comma", "target", "=">>, <<"comma", "az", "=">>,
      <<"space", "timestamp", "newline">>} \subseteq Text
  /\ {<<"tcp_latency">>, <<"comma">>, <<"target">>, <<"=">>, <<"az">>, <<"space">>,
      <<"space", "timestamp">>, <<"timestamp", "newline">>, <<"newline">>, << >>} \subseteq Text
PROOF
<1>1. {"tcp_latency", "comma", "target", "=", "az", "space", "timestamp", "newline", "rtt_ms",
       "number", "success", "1i", "0i"} \subseteq Symbols
  BY DEF Symbols, Chars
<1> HIDE DEF Symbols
<1>2. /\ <<"rtt_ms", "=", "number", "comma", "success", "=", "1i">> \in Text
      /\ <<"success", "=", "0i">> \in Text
      /\ <<"tcp_latency", "comma", "target", "=">> \in Text /\ <<"comma", "az", "=">> \in Text
      /\ <<"space", "timestamp", "newline">> \in Text
  BY <1>1 DEF Text
<1>3. /\ <<"tcp_latency">> \in Text /\ <<"comma">> \in Text /\ <<"target">> \in Text
      /\ <<"=">> \in Text /\ <<"az">> \in Text /\ <<"space">> \in Text
      /\ <<"space", "timestamp">> \in Text /\ <<"timestamp", "newline">> \in Text
      /\ <<"newline">> \in Text /\ << >> \in Text
  BY <1>1 DEF Text
<1> QED
  BY <1>2, <1>3 DEF Fields

\* And the separators they do not hold.
LEMMA IlpSeparators ==
  /\ \A word \in Fields : ~ Holds(word, "space") /\ ~ Holds(word, "newline")
  /\ \A word \in {<<"tcp_latency", "comma", "target", "=">>, <<"comma", "az", "=">>} :
       ~ Holds(word, "space") /\ ~ Holds(word, "newline")
  /\ ~ Holds(<<"space">>, "newline") /\ ~ Holds(<<"space", "timestamp">>, "newline")
  /\ ~ Holds(<<"tcp_latency">>, "comma")
  /\ \A word \in {<<"target">>, <<"az">>} : ~ Holds(word, "comma") /\ ~ Holds(word, "=")
  /\ ~ Holds(<<"=">>, "comma")
PROOF
<1>1. /\ ~ Holds(<<"rtt_ms", "=", "number", "comma", "success", "=", "1i">>, "space")
      /\ ~ Holds(<<"rtt_ms", "=", "number", "comma", "success", "=", "1i">>, "newline")
      /\ ~ Holds(<<"success", "=", "0i">>, "space") /\ ~ Holds(<<"success", "=", "0i">>, "newline")
  BY DEF Holds, Places
<1>2. /\ ~ Holds(<<"tcp_latency", "comma", "target", "=">>, "space")
      /\ ~ Holds(<<"tcp_latency", "comma", "target", "=">>, "newline")
      /\ ~ Holds(<<"comma", "az", "=">>, "space") /\ ~ Holds(<<"comma", "az", "=">>, "newline")
      /\ ~ Holds(<<"space">>, "newline") /\ ~ Holds(<<"space", "timestamp">>, "newline")
  BY DEF Holds, Places
<1>3. /\ ~ Holds(<<"tcp_latency">>, "comma") /\ ~ Holds(<<"=">>, "comma")
      /\ ~ Holds(<<"target">>, "comma") /\ ~ Holds(<<"target">>, "=")
      /\ ~ Holds(<<"az">>, "comma") /\ ~ Holds(<<"az">>, "=")
  BY DEF Holds, Places
<1> QED
  BY <1>1, <1>2, <1>3 DEF Fields

\* The literals, taken apart at the separators the reader looks for.
LEMMA IlpTuples ==
  /\ <<"tcp_latency", "comma", "target", "=">> =
       Then(<<"tcp_latency">>, Then(<<"comma">>, Then(<<"target">>, <<"=">>)))
  /\ <<"comma", "az", "=">> = Then(<<"comma">>, Then(<<"az">>, <<"=">>))
  /\ <<"space", "timestamp", "newline">> = Then(<<"space">>, <<"timestamp", "newline">>)
  /\ <<"space", "timestamp", "newline">> =
       Then(<<"space", "timestamp">>, Then(<<"newline">>, << >>))
BY DEF Then

\* A reader of the Influx Line Protocol gets back what was put into the line.
LEMMA IlpIsRead ==
  ASSUME NEW t \in Text, NEW a \in Text, NEW fields \in Fields, t # << >>, a # << >>,
         \A c \in Separators : ~ Holds(t, c) /\ ~ Holds(a, c)
  PROVE  ReadIlp(<<"tcp_latency", "comma", "target", "=">> \o t \o <<"comma", "az", "=">> \o a
                   \o <<"space">> \o fields \o <<"space", "timestamp", "newline">>) =
           [labels |-> <<t, a>>,
            value |-> IF fields = <<"success", "=", "0i">> THEN "failure" ELSE "rtt"]
PROOF
<1> DEFINE head == <<"tcp_latency", "comma", "target", "=">>
           middle == <<"comma", "az", "=">>
           stamp == <<"timestamp", "newline">>
           end == <<"space", "timestamp", "newline">>
           point == Then(Then(Then(head, t), middle), a)
           body == Then(Then(point, <<"space">>), fields)
           line == Then(body, end)
           first == Then(<<"target">>, Then(<<"=">>, t))
           second == Then(<<"az">>, Then(<<"=">>, a))
           tags == Then(first, Then(<<"comma">>, second))
           others == Then(fields, Then(<<"space">>, stamp))
<1> SUFFICES ReadIlp(line) =
               [labels |-> <<t, a>>,
                value |-> IF fields = <<"success", "=", "0i">> THEN "failure" ELSE "rtt"]
  BY DEF Then
<1>1. /\ head \in Text /\ middle \in Text /\ stamp \in Text /\ end \in Text /\ fields \in Text
      /\ <<"tcp_latency">> \in Text /\ <<"comma">> \in Text /\ <<"target">> \in Text
      /\ <<"=">> \in Text /\ <<"az">> \in Text /\ <<"space">> \in Text
      /\ <<"space", "timestamp">> \in Text /\ <<"newline">> \in Text /\ << >> \in Text
  BY IlpWords
<1>2. /\ {head, middle, t, a} \subseteq Without("space") \cap Without("newline")
      /\ fields \in Without("space") \cap Without("newline")
      /\ <<"space">> \in Without("newline") /\ <<"space", "timestamp">> \in Without("newline")
      /\ <<"tcp_latency">> \in Without("comma")
      /\ {<<"target">>, <<"az">>, <<"=">>, t, a} \subseteq Without("comma")
      /\ {<<"target">>, <<"az">>, t, a} \subseteq Without("=")
  BY <1>1, IlpSeparators DEF Without, Separators
<1>3. /\ head = Then(<<"tcp_latency">>, Then(<<"comma">>, Then(<<"target">>, <<"=">>)))
      /\ middle = Then(<<"comma">>, Then(<<"az">>, <<"=">>))
      /\ end = Then(<<"space">>, stamp)
      /\ end = Then(<<"space", "timestamp">>, Then(<<"newline">>, << >>))
  BY IlpTuples
<1>4. {"space", "=", "comma", "newline"} \subseteq Symbols
  BY DEF Symbols, Chars
<1> HIDE DEF head, middle, stamp, end, point, body, line, first, second, tags, others
<1>5. first \in Text /\ second \in Text /\ tags \in Text /\ others \in Text
  <2>1. first \in Text /\ second \in Text
    BY <1>1, ThenLaws DEF first, second
  <2> QED
    BY <1>1, <2>1, ThenLaws DEF tags, others
<1>6. point \in Without("space") \cap Without("newline")
  <2>1. Then(head, t) \in Without("space") \cap Without("newline")
    BY <1>2, ThenWithout
  <2>2. Then(Then(head, t), middle) \in Without("space") \cap Without("newline")
    BY <1>2, <2>1, ThenWithout
  <2> QED
    BY <1>2, <2>2, ThenWithout DEF point
<1>7. body \in Without("newline")
  <2>1. Then(point, <<"space">>) \in Without("newline")
    BY <1>2, <1>6, ThenWithout
  <2> QED
    BY <1>2, <2>1, ThenWithout DEF body
<1>8. IsLine(line)
  <2>1. Then(body, <<"space", "timestamp">>) \in Without("newline")
    BY <1>2, <1>7, ThenWithout
  <2>2. body \in Text /\ Then(<<"newline">>, << >>) \in Text
    BY <1>1, <1>7, ThenLaws DEF Without
  <2>3. line = Then(Then(body, <<"space", "timestamp">>), Then(<<"newline">>, << >>))
    BY <1>1, <1>3, <2>2, ThenLaws DEF line
  <2> QED
    BY <1>1, <1>4, <2>1, <2>3, ThenCut DEF IsLine, Without
<1>9. line = Then(point, Then(<<"space">>, others))
  <2>1. point \in Text /\ Then(point, <<"space">>) \in Text /\ others = Then(fields, end)
    BY <1>1, <1>3, <1>6, ThenLaws DEF others, Without
  <2>2. line = Then(Then(point, <<"space">>), others)
    BY <1>1, <2>1, ThenLaws DEF line, body
  <2> QED
    BY <1>1, <1>5, <2>1, <2>2, ThenLaws
<1>10. point = Then(<<"tcp_latency">>, Then(<<"comma">>, tags))
  <2>1. Then(head, t) = Then(<<"tcp_latency">>, Then(<<"comma">>, first))
    <3>1. Then(<<"target">>, <<"=">>) \in Text /\ first = Then(Then(<<"target">>, <<"=">>), t)
      BY <1>1, ThenLaws DEF first
    <3> QED
      BY <1>1, <1>3, <3>1, ThenRegrouped
  <2>2. Then(middle, a) = Then(<<"comma">>, second)
    <3>1. Then(<<"az">>, <<"=">>) \in Text /\ second = Then(Then(<<"az">>, <<"=">>), a)
      BY <1>1, ThenLaws DEF second
    <3> QED
      BY <1>1, <1>3, <3>1, ThenLaws
  <2>3. point = Then(Then(head, t), Then(middle, a)) /\ Then(<<"comma">>, second) \in Text
    <3>1. Then(head, t) \in Text
      BY <1>1, ThenLaws
    <3> QED
      BY <1>1, <1>5, <3>1, ThenLaws DEF point
  <2>4. point = Then(Then(<<"tcp_latency">>, Then(<<"comma">>, first)), Then(<<"comma">>, second))
    BY <2>1, <2>2, <2>3
  <2> QED
    BY <1>1, <1>5, <2>3, <2>4, ThenRegrouped DEF tags
<1>11. Holds(line, "space") /\ Before(line, "space") = point /\ After(line, "space") = others
  BY <1>4, <1>5, <1>6, <1>9, ThenCut DEF Without
<1>12. /\ Holds(others, "space") /\ Before(others, "space") = fields
       /\ After(others, "space") = stamp
  BY <1>1, <1>2, <1>4, ThenCut DEF others, Without
<1>13. Holds(point, "comma") /\ After(point, "comma") = tags
  BY <1>1, <1>2, <1>4, <1>5, <1>10, ThenCut DEF Without
<1>14. /\ Holds(tags, "comma") /\ Before(tags, "comma") = first /\ After(tags, "comma") = second
       /\ ~ Holds(second, "comma")
  <2>1. first \in Without("comma") /\ second \in Without("comma")
    <3>1. Then(<<"=">>, t) \in Without("comma") /\ Then(<<"=">>, a) \in Without("comma")
      BY <1>2, ThenWithout
    <3> QED
      BY <1>2, <3>1, ThenWithout DEF first, second
  <2> QED
    BY <1>4, <1>5, <2>1, ThenCut DEF tags, Without
<1>15. IsTag(first) /\ After(first, "=") = t
  <2>1. /\ Holds(first, "=") /\ Before(first, "=") = <<"target">> /\ After(first, "=") = t
    BY <1>1, <1>2, <1>4, ThenCut DEF first, Without
  <2> QED
    BY <1>2, <2>1 DEF IsTag, Without
<1>16. IsTag(second) /\ After(second, "=") = a
  <2>1. /\ Holds(second, "=") /\ Before(second, "=") = <<"az">> /\ After(second, "=") = a
    BY <1>1, <1>2, <1>4, ThenCut DEF second, Without
  <2> QED
    BY <1>2, <2>1 DEF IsTag, Without
<1>17. (CASE fields = <<"success", "=", "0i">> -> "failure"
          [] fields = <<"rtt_ms", "=", "number", "comma", "success", "=", "1i">> -> "rtt"
          [] OTHER -> "none") = IF fields = <<"success", "=", "0i">> THEN "failure" ELSE "rtt"
  BY DEF Fields
<1>18. stamp = <<"timestamp", "newline">>
  BY DEF stamp
<1>19. /\ Before(After(line, "space"), "space") = fields
       /\ After(After(line, "space"), "space") = <<"timestamp", "newline">>
       /\ After(Before(line, "space"), "comma") = tags
       /\ Before(After(Before(line, "space"), "comma"), "comma") = first
       /\ After(After(Before(line, "space"), "comma"), "comma") = second
  BY <1>11, <1>12, <1>13, <1>14, <1>18
<1> QED
  BY <1>8, <1>11, <1>12, <1>13, <1>14, <1>15, <1>16, <1>17, <1>19 DEF ReadIlp

-----------------------------------------------------------------------------

\* The labels of a line are texts that hold no separator.
LEMMA LabelsProperty ==
  ASSUME NEW a \in CommandLine
  PROVE  /\ TargetName(a) \in Text /\ \A c \in Separators : ~ Holds(TargetName(a), c)
         /\ Az(a) \in Text /\ \A c \in Separators : ~ Holds(Az(a), c)
PROOF
<1>1. /\ a.target_name \in Option(Names) /\ a.target \in Option(Names) /\ a.az \in Option(Names)
  BY CommandLineAssumption DEF Args
<1>2. << >> \in Names
  BY DEF Names
<1>3. UnwrapOr(a.target_name, UnwrapOr(a.target, << >>)) \in Names
  BY <1>1, <1>2, OptionProperty DEF UnwrapOr
<1>4. TargetName(a) \in Text /\ \A c \in Separators : ~ Holds(TargetName(a), c)
  BY <1>3, SanitizedName DEF TargetName
<1>5. CASE a.az = << >>
  <2>1. "alphanumeric" \in Symbols
    BY DEF Symbols, Chars, Kept
  <2>2. <<"alphanumeric">> \in Text
    BY <2>1 DEF Text
  <2>3. \A c \in Separators : ~ Holds(<<"alphanumeric">>, c)
    BY DEF Separators, Holds, Places
  <2> QED
    BY <1>4, <1>5, <2>2, <2>3 DEF Az
<1>6. CASE a.az # << >>
  <2>1. a.az[1] \in Names
    BY <1>1, <1>6, OptionProperty
  <2> QED
    BY <1>4, <1>6, <2>1, SanitizedName DEF Az
<1> QED
  BY <1>5, <1>6

\* A cycle that comes to its export has measured something.
Measured == pc \in {"rotate", "export"} => outcome \in {"rtt", "failure"}

\* No step of the loop comes to an export without a measurement.
LEMMA NextMeasured == Measured /\ [Next]_vars => Measured'
BY DEF Measured, Next, Cycle, ParseArgs, StartupResolve, OpenExporter, MeasureOk, MeasureErr,
   RotateTarget, Export, ExportReturns, Sleep, Respawn, ZoneChanges, NetworkChanges,
   CollectdGoes, vars, process

\* Whatever the target, the zone and the host are called, a reader takes one
\* point of one series, named by the sanitized labels, from the line of a cycle
\* (sanitize, build_prefix and format_line of both exporters).
THEOREM LinesArePoints == CadenceSpec => []EveryLineIsOnePoint
PROOF
<1>1. CInv /\ Measured => EveryLineIsOnePoint
  <2> DEFINE t == TargetName(args)
             a == Az(args)
  <2> SUFFICES ASSUME CInv, Measured, pc = "export", t # << >>, a # << >>
               PROVE  IF export = "telegraf"
                      THEN ReadIlp(IlpLine(outcome)) = [labels |-> <<t, a>>, value |-> outcome]
                      ELSE \A host \in HostNames :
                             ReadPutval(PutvalLine(host, outcome)) =
                               [labels |-> <<HostName(host), t>>, value |-> outcome]
    BY DEF EveryLineIsOnePoint
  <2>1. /\ t \in Text /\ \A c \in Separators : ~ Holds(t, c)
        /\ a \in Text /\ \A c \in Separators : ~ Holds(a, c)
    BY LabelsProperty DEF CInv, CadenceTypeOK
  <2>2. outcome \in {"rtt", "failure"}
    BY DEF Measured
  <2>3. ReadIlp(IlpLine(outcome)) = [labels |-> <<t, a>>, value |-> outcome]
    <3>1. IlpFields(outcome) \in Fields
      BY DEF IlpFields, Fields
    <3>2. (IF IlpFields(outcome) = <<"success", "=", "0i">> THEN "failure" ELSE "rtt") = outcome
      BY <2>2 DEF IlpFields
    <3>3. IlpLine(outcome) =
            <<"tcp_latency", "comma", "target", "=">> \o t \o <<"comma", "az", "=">> \o a
              \o <<"space">> \o IlpFields(outcome) \o <<"space", "timestamp", "newline">>
      BY DEF IlpLine, IlpPrefix
    <3> HIDE DEF t, a
    <3>4. ReadIlp(IlpLine(outcome)) =
            [labels |-> <<t, a>>,
             value |-> IF IlpFields(outcome) = <<"success", "=", "0i">> THEN "failure" ELSE "rtt"]
      BY <2>1, <3>1, <3>3, IlpIsRead
    <3> QED
      BY <3>2, <3>4
  <2>4. ASSUME NEW host \in HostNames
        PROVE  ReadPutval(PutvalLine(host, outcome)) =
                 [labels |-> <<HostName(host), t>>, value |-> outcome]
    <3> DEFINE h == HostName(host)
               v == IF outcome = "rtt" THEN "number" ELSE "U"
    <3>1. h \in Text /\ \A c \in Separators : ~ Holds(h, c)
      BY HostNamesAssumption, SanitizedName DEF HostName
    <3>2. v \in {"number", "U"} /\ (IF v = "U" THEN "failure" ELSE "rtt") = outcome
      BY <2>2
    <3>3. PutvalLine(host, outcome) =
            <<"PUTVAL", "space">> \o h \o <<"/", "wire-probe-tcp", "/", "latency-">> \o t
              \o <<"space", "interval", "=", "seconds", "space", "N:">> \o <<v>> \o <<"newline">>
      <4>1. (IF outcome = "rtt" THEN <<"number">> ELSE <<"U">>) = <<v>>
        OBVIOUS
      <4> HIDE DEF h, t, v
      <4> QED
        BY <4>1 DEF PutvalLine, PutvalPrefix, h, t
    <3> HIDE DEF h, t, v
    <3>4. ReadPutval(PutvalLine(host, outcome)) =
            [labels |-> <<h, t>>, value |-> IF v = "U" THEN "failure" ELSE "rtt"]
      BY <2>1, <3>1, <3>2, <3>3, PutvalIsRead
    <3>5. h = HostName(host)
      BY DEF h
    <3> QED
      BY <3>2, <3>4, <3>5
  <2> QED
    BY <2>3, <2>4
<1>2. CadenceInit => Measured
  BY DEF CadenceInit, Init, Measured
<1> QED
  BY <1>1, <1>2, NextMeasured, CadenceStep, CadenceInvariance, PTL DEF CadenceSpec

=============================================================================
