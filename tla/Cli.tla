--------------------------------- MODULE Cli ---------------------------------
(***************************************************************************)
(* The command line of a probe (src/cli.rs) and what run_probe derives     *)
(* from it before its loop.                                                *)
(*                                                                         *)
(* An optional flag is a sequence of at most one value, like an Option.  A *)
(* duration is a number and its suffix.  A name is a sequence of           *)
(* characters, one per kind that sanitize or the wire formats tell apart.  *)
(***************************************************************************)
EXTENDS Integers, Sequences

CONSTANTS
  SECOND,                                             \* 1000 ms; the runs count coarser ticks
  MIN_INTERVAL_MS, MAX_INTERVAL_MS, MAX_TIMEOUT_MS,   \* 100 ms, 24 h, 60 s
  DEFAULT_INTERVAL, DEFAULT_TIMEOUT,                  \* "1000ms", "5000ms"
  CommandLine                                         \* the command lines under study

\* "server" is Server's: no probe is started with it.
Modes == {"help", "version", "missing", "probe", "other"}
Schemes == {"telegraf-udp", "collectd-uds", "collectd-exec", "unknown"}
Kept == {"alphanumeric", "-", "."}
Chars == Kept \cup {"_", "space", "comma", "=", "/", ":", "newline", "non-ASCII"}
Names == Seq(Chars)
Durations == [number : Nat, suffix : {"ms", "s", "none", "unparsable"}]
Option(S) == {s \in Seq(S) : Len(s) <= 1}

Args == [mode : Modes, target : Option(Names), target_name : Option(Names),
         az : Option(Names), interval : Option(Durations), timeout : Option(Durations),
         export : Option(Schemes), leftover : BOOLEAN]

ASSUME LimitsAssumption ==
  /\ {SECOND, MIN_INTERVAL_MS, MAX_INTERVAL_MS, MAX_TIMEOUT_MS} \subseteq Nat \ {0}
  /\ DEFAULT_INTERVAL \in MIN_INTERVAL_MS..MAX_INTERVAL_MS
  /\ DEFAULT_TIMEOUT \in 1..MAX_TIMEOUT_MS

ASSUME CommandLineAssumption == CommandLine \subseteq Args

-----------------------------------------------------------------------------

UnwrapOr(option, default) == IF option = << >> THEN default ELSE option[1]

\* Mutant: only ms is known, an s is read past.
ParseDuration_IgnoresS(d) == d.number

\* parse_duration of a duration that parses: a bare number is milliseconds.
ParseDuration(d) == IF d.suffix = "s" THEN d.number * SECOND ELSE d.number

Interval(args) ==
  IF args.interval = << >> THEN DEFAULT_INTERVAL ELSE ParseDuration(args.interval[1])
Timeout(args) ==
  IF args.timeout = << >> THEN DEFAULT_TIMEOUT ELSE ParseDuration(args.timeout[1])

Parses(option) == option = << >> \/ option[1].suffix # "unparsable"

\* parse returns Mode::Probe: every error path of it ends the process.
Accepts(args) ==
  /\ args.mode = "probe"
  /\ args.target # << >>
  /\ Parses(args.interval) /\ Interval(args) \in MIN_INTERVAL_MS..MAX_INTERVAL_MS
  /\ Parses(args.timeout) /\ Timeout(args) \in 1..MAX_TIMEOUT_MS
  /\ UnwrapOr(args.export, "collectd-exec") # "unknown"
  /\ ~ args.leftover

\* ExportDst, under the names Probe gives the exporters.
Destination(args) ==
  CASE UnwrapOr(args.export, "collectd-exec") = "telegraf-udp"  -> "telegraf"
    [] UnwrapOr(args.export, "collectd-exec") = "collectd-uds"  -> "uds"
    [] OTHER -> "exec"

\* Mutant: a name that is given is used as it is.
Sanitize_Nothing(name) == name

\* sanitize: one character for one.
Sanitize(name) == [i \in DOMAIN name |-> IF name[i] \in Kept THEN name[i] ELSE "_"]

TargetName(args) == Sanitize(UnwrapOr(args.target_name, UnwrapOr(args.target, << >>)))
Az(args) == IF args.az = << >> THEN <<"alphanumeric">> ELSE Sanitize(args.az[1])

-----------------------------------------------------------------------------

\* Mutant: the fraction of an interval above a second is cut off.
IntervalSecs_Truncated(ms) == IF ms < SECOND THEN 1 ELSE ms \div SECOND

\* interval_secs: rounded half away from zero, and at least one.
IntervalSecs(ms) ==
  IF 2 * ms < SECOND THEN 1 ELSE (2 * ms + SECOND) \div (2 * SECOND)

\* The warning of run_probe that collectd is told a rate the probe does not keep.
WarnsOfRate(args) ==
  Destination(args) \in {"exec", "uds"} /\ Interval(args) < SECOND

=============================================================================
