----------------------------- MODULE MCPluginRead -----------------------------
(* PluginRead with a bounded resolver and a few configurations.               *)
EXTENDS PluginRead

CONSTANTS MaxAnswers, Setup

\* Answers of at most MaxAnswers entries in any order: each address once, or one
\* of them twice; an address without sockets comes alone or first.
MCAnswer ==
  LET supported == Addr \ Unsupported
      distinct == {s \in UNION {[1..n -> supported] : n \in 1..MaxAnswers} : IsInjective(s)}
  IN  distinct \cup {<<a>> \o s : a \in {1}, s \in {t \in distinct : Len(t) = 2 /\ 1 \in Range(t)}}
        \cup {<<a>> : a \in Unsupported} \cup Unsupported \X supported

MCUnencodable == {<<".db">>}
\* int() reads over an underscore between digits.
MCNumeral == <<"80">> :> 80 @@ <<"99", "_", "99">> :> 9999 @@ <<"9999">> :> 9999
               @@ <<"70000">> :> 70000

Line(key, value) == [key |-> key, values |-> <<value>>]
NoValue(key) == [key |-> key, values |-> << >>]
Host(raw) == Line("host", raw)

\* One host, with the defaults.
OneHost == << <<Host(<<"db">>)>> >>

\* Two hosts that are one target, so that a pass reads it twice.
SameTarget == << <<Host(<<"db">>), Host(<<"db", ":", "9999">>), Line("timeout", 1)>> >>

\* Two targets that report as db_9999.
Colliding == << <<Host(<<"db", "_", "9999">>), Host(<<"db", ":", "9999">>), Line("port", 80)>> >>

\* A list of settings with an empty one before a host.
BadLine == << <<Line("pingcount", 2), NoValue("aggregate"), Host(<<"db">>)>> >>

\* Two hosts in two blocks that are one target, before and after the lines that
\* decide it, with a duplicate and settings that are left alone.
Shared ==
  << <<Host(<<"db">>), Line("timeout", 0), Line("timeout", 3), NoValue("timeout"),
       Line("pingcount", 2), Line("pingcount", 0), Line("port", 80)>>,
     <<Host(<<"db", ":", "9999">>), Line("port", 9999), NoValue("port"), Line("port", 70000),
       Host(<<"db">>), Line("aggregate", "max"), Line("aggregate", "min")>> >>

\* Every form of a Host value, a name that is no hostname, and three hosts that
\* report as db_9999.
Forms ==
  << <<Host(<<".db">>), Host(<<":", ":", "1">>), Host(<<"[", ":", ":", "1", "]", ":", "80">>),
       Host(<<"[", ":", ":", "1", "]">>)>>,
     <<Line("aggregate", "min"), Line("aggregate", "max"), Line("unknown", 1),
       Host(<<"[", "db">>), Host(<<"db", ":", "70000">>), Host(<<"db", ":", "99", "_", "99">>),
       Host(<<"db", "_", "9999">>), Host(<<"[", "db", "]", ":", "9999">>),
       Host(<<"db", ":", "x">>),
       Host(<< >>)>> >>

\* A timeout that every read fails with, and a line that loses the one after it.
NaNTimeout ==
  << <<Line("timeout", NaN), Host(<<"db">>), NoValue("host"), Line("pingcount", 2)>> >>
Nothing == << << >> >>

MCConfigFiles ==
  CASE Setup = "one host" -> {OneHost}
    [] Setup = "bad line" -> {BadLine}
    [] Setup = "all" -> {SameTarget, Colliding, Shared, Forms, NaNTimeout, Nothing}

MCNode == UNION {UNION {Range(block) : block \in Range(f)} : f \in MCConfigFiles}

=============================================================================
