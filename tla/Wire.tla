--------------------------------- MODULE Wire ---------------------------------
(***************************************************************************)
(* The line a cycle exports, and what the readers make of it: the PUTVAL   *)
(* of collectd.rs and the Influx Line Protocol of telegraf.rs.  A line is  *)
(* a sequence of the characters of the names and of words that no name     *)
(* contains, one for each literal or number between separators.  A space,  *)
(* a comma and a newline go by their names.                                *)
(***************************************************************************)
EXTENDS Cadence

CONSTANT HostNames   \* what gethostname may return

ASSUME HostNamesAssumption == HostNames \subseteq Names

-----------------------------------------------------------------------------

\* hostname of main.rs.
HostName(name) == Sanitize(name)

\* build_prefix and format_line of collectd.rs.
PutvalPrefix(host) ==
  <<"PUTVAL", "space">> \o HostName(host) \o <<"/", "wire-probe-tcp", "/", "latency-">>
    \o TargetName(args) \o <<"space", "interval", "=", "seconds", "space", "N:">>

PutvalLine(host, sent) ==
  PutvalPrefix(host) \o (IF sent = "rtt" THEN <<"number">> ELSE <<"U">>) \o <<"newline">>

\* rtt_ms is sent only with a success.
IlpFields(sent) ==
  IF sent = "rtt" THEN <<"rtt_ms", "=", "number", "comma", "success", "=", "1i">>
                  ELSE <<"success", "=", "0i">>

\* build_prefix and format_line of telegraf.rs.
IlpPrefix ==
  <<"tcp_latency", "comma", "target", "=">> \o TargetName(args) \o <<"comma", "az", "=">> \o Az(args)
    \o <<"space">>

IlpLine(sent) == IlpPrefix \o IlpFields(sent) \o <<"space", "timestamp", "newline">>

-----------------------------------------------------------------------------
(* The readers (external), which know nothing but the separators.           *)

Places(s, separator) == {i \in DOMAIN s : s[i] = separator}
Holds(s, separator) == Places(s, separator) # {}

\* What comes before the first separator, and what after it.
Cut(s, separator) == Min(Places(s, separator))
Before(s, separator) == SubSeq(s, 1, Cut(s, separator) - 1)
After(s, separator) == SubSeq(s, Cut(s, separator) + 1, Len(s))

\* A newline ends a line, and nothing else is one.
IsLine(s) == Holds(s, "newline") /\ After(s, "newline") = << >>

Unreadable == [labels |-> << >>, value |-> "none"]

\* A tag has a key and a value, and neither may be empty.
IsTag(s) ==
  /\ Holds(s, "=") /\ ~ Holds(After(s, "="), "=")
  /\ << >> \notin {Before(s, "="), After(s, "=")}

\* A line of three words: a measurement and its tags, the fields, a timestamp.
ReadIlp(s) ==
  LET point == Before(s, "space")
      fields == Before(After(s, "space"), "space")
      tags == After(point, "comma")
      first == Before(tags, "comma")
      second == After(tags, "comma")
  IN  IF /\ IsLine(s)
         /\ Holds(s, "space") /\ Holds(After(s, "space"), "space")
         /\ After(After(s, "space"), "space") = <<"timestamp", "newline">>
         /\ Holds(point, "comma") /\ Holds(tags, "comma") /\ ~ Holds(second, "comma")
         /\ IsTag(first) /\ IsTag(second)
      THEN [labels |-> <<After(first, "="), After(second, "=")>>,
            value |-> CASE fields = <<"success", "=", "0i">> -> "failure"
                        [] fields = <<"rtt_ms", "=", "number", "comma", "success", "=", "1i">> -> "rtt"
                        [] OTHER -> "none"]
      ELSE Unreadable

\* A line of four words: PUTVAL, host/plugin/type-instance, an option, the value.
ReadPutval(s) ==
  LET arguments == After(s, "space")
      identifier == Before(arguments, "space")
      values == After(arguments, "space")
      value == After(values, "space")
      plugin == After(identifier, "/")
      type == After(plugin, "/")
  IN  IF /\ IsLine(s)
         /\ Holds(s, "space") /\ Before(s, "space") = <<"PUTVAL">>
         /\ Holds(arguments, "space") /\ Holds(values, "space") /\ ~ Holds(value, "space")
         /\ Holds(identifier, "/") /\ Holds(plugin, "/") /\ ~ Holds(type, "/")
      THEN [labels |-> <<Before(identifier, "/"), Tail(type)>>,
            value |-> CASE value = <<"N:", "U", "newline">> -> "failure"
                        [] value = <<"N:", "number", "newline">> -> "rtt"
                        [] OTHER -> "none"]
      ELSE Unreadable

-----------------------------------------------------------------------------

\* Whatever the target, the zone and the host are called, what a reader makes
\* of the line of a cycle is one point of one series, named by the sanitized
\* labels, with the outcome of the cycle (sanitize: names "would corrupt the
\* byte stream").  An empty label is excluded: an empty tag is unreadable.
EveryLineIsOnePoint ==
  (pc = "export" /\ TargetName(args) # << >> /\ Az(args) # << >>) =>
    IF export = "telegraf"
    THEN ReadIlp(IlpLine(outcome)) =
           [labels |-> <<TargetName(args), Az(args)>>, value |-> outcome]
    ELSE \A host \in HostNames :
           ReadPutval(PutvalLine(host, outcome)) =
             [labels |-> <<HostName(host), TargetName(args)>>, value |-> outcome]

=============================================================================
