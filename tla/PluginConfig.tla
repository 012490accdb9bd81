---------------------------- MODULE PluginConfig ----------------------------
(***************************************************************************)
(* config_cb and init_cb of plugin/collectd/wire_probe.py: what collectd   *)
(* calls before the first read, once per <Module wire_probe> block and     *)
(* then once.                                                              *)
(*                                                                         *)
(* The value of a Host line is a sequence of tokens: a bracket, a colon,   *)
(* an underscore, or a piece of text without them.  A number that _numeric *)
(* cannot read is no value at all, since both leave the setting alone.     *)
(***************************************************************************)
EXTENDS Integers, SequencesExt, TLC

CONSTANTS
  Node,           \* the lines of a configuration: a key and at most one value
  ConfigFiles,    \* the configurations under study: sequences of blocks of nodes
  Numeral,        \* what int() makes of the token sequences it can read
  MaxPort, MaxTimeout, MaxPingCount,               \* 65535, 60.0, 100
  DefaultPort, DefaultTimeout, DefaultPingCount    \* 9999, 5.0, 1

NoPort == 0
NaN == -1

ValidPorts == 1..MaxPort

\* t <= 0 and t > 60.0 are both false of a NaN.
ValidTimeouts == (1..MaxTimeout) \cup {NaN}
ValidPingCounts == 1..MaxPingCount
Aggregates == {"avg", "min"}

ASSUME SettingsAssumption ==
  /\ {MaxPort, MaxTimeout, MaxPingCount} \subseteq Nat
  /\ DefaultPort \in ValidPorts
  /\ DefaultTimeout \in ValidTimeouts \ {NaN}
  /\ DefaultPingCount \in ValidPingCounts

ASSUME ConfigFilesAssumption == ConfigFiles \subseteq Seq(Seq(Node))

VARIABLES
  pc,       \* "config" before init_cb; then the place in read_cb (PluginRead)
  file,     \* what is left to configure
  hosts,    \* _hosts: the display name, the hostname and its own port, or NoPort
  default_port, timeout, ping_count, aggregate,
  warned,   \* the pairs of Host values warned of as reporting under one name
  written   \* history: the configuration as it was written

settings == <<default_port, timeout, ping_count, aggregate>>
config == <<file, hosts, settings, warned, written>>

-----------------------------------------------------------------------------

\* _parse_port: None for what is not a number or not a port.
ParsePort(text) ==
  IF text \in DOMAIN Numeral /\ Numeral[text] \in ValidPorts THEN Numeral[text] ELSE NoPort

Places(token, raw) == {i \in DOMAIN raw : raw[i] = token}

\* _split_host_port: brackets are taken off, two colons mean a bare IPv6
\* address, and one is followed by a port.
SplitHostPort(raw) ==
  LET closing == Min(Places("]", raw))
      colon == Min(Places(":", raw))
      after(i) == SubSeq(raw, i + 1, Len(raw))
  IN  IF raw # << >> /\ raw[1] = "["
      THEN IF Places("]", raw) = {} THEN <<raw, NoPort>>
           ELSE << SubSeq(raw, 2, closing - 1),
                   IF closing < Len(raw) /\ raw[closing + 1] = ":"
                   THEN ParsePort(after(closing + 1)) ELSE NoPort >>
      ELSE IF Cardinality(Places(":", raw)) # 1 THEN <<raw, NoPort>>
           ELSE <<SubSeq(raw, 1, colon - 1), ParsePort(after(colon))>>

\* Mutant: a bare hostname takes the global port known when its line is read.
Entry_PortOfTheMoment(raw) ==
  LET port == SplitHostPort(raw)[2]
  IN  [raw |-> raw, hostname |-> SplitHostPort(raw)[1],
       port |-> IF port = NoPort THEN default_port ELSE port]

Entry(raw) ==
  [raw |-> raw, hostname |-> SplitHostPort(raw)[1], port |-> SplitHostPort(raw)[2]]

\* A setting that is read and in range is taken, any other leaves it alone.
Assigned(node, valid, old) ==
  IF node.values # << >> /\ node.values[1] \in valid THEN node.values[1] ELSE old

\* Mutant: a number that cannot be read raises too.
Raises_NotANumber(node) == node.key # "unknown" /\ node.values = << >>

\* node.values[0] of a Host or an Aggregate without a value is an IndexError,
\* and startswith of a Host that is no string an AttributeError: such a value is
\* modelled as none.
Raises(node) == node.key \in {"host", "aggregate"} /\ node.values = << >>

\* One node of config_cb; a key nobody knows is only warned of.
ConfigNode(node) ==
  \/ /\ node.key = "host"
     /\ hosts' = IF \E i \in DOMAIN hosts : hosts[i] = Entry(node.values[1])
                 THEN hosts ELSE Append(hosts, Entry(node.values[1]))
     /\ UNCHANGED settings
  \/ /\ node.key = "port"
     /\ default_port' = Assigned(node, ValidPorts, default_port)
     /\ UNCHANGED <<hosts, timeout, ping_count, aggregate>>
  \/ /\ node.key = "timeout"
     /\ timeout' = Assigned(node, ValidTimeouts, timeout)
     /\ UNCHANGED <<hosts, default_port, ping_count, aggregate>>
  \/ /\ node.key = "pingcount"
     /\ ping_count' = Assigned(node, ValidPingCounts, ping_count)
     /\ UNCHANGED <<hosts, default_port, timeout, aggregate>>
  \/ /\ node.key = "aggregate"
     /\ aggregate' = Assigned(node, Aggregates, aggregate)
     /\ UNCHANGED <<hosts, default_port, timeout, ping_count>>
  \/ node.key = "unknown" /\ UNCHANGED <<hosts, settings>>

ConfigInit ==
  /\ pc = "config"
  /\ file \in ConfigFiles
  /\ written = file
  /\ hosts = << >>
  /\ default_port = DefaultPort /\ timeout = DefaultTimeout
  /\ ping_count = DefaultPingCount /\ aggregate = "avg"
  /\ warned = {}

\* config_cb, one node at a time: an exception leaves it, and collectd goes on
\* to the next block.
ConfigCb ==
  /\ pc = "config"
  /\ file # << >>
  /\ IF file[1] = << >> \/ Raises(file[1][1])
     THEN file' = Tail(file) /\ UNCHANGED <<hosts, settings>>
     ELSE ConfigNode(file[1][1]) /\ file' = <<Tail(file[1])>> \o Tail(file)
  /\ UNCHANGED <<pc, warned, written>>

-----------------------------------------------------------------------------

\* _series_label: the name a host is reported under.
SeriesLabel(entry) ==
  IF entry.port = NoPort THEN entry.hostname
  ELSE entry.hostname \o <<"_", ToString(entry.port)>>

Port(entry) == IF entry.port = NoPort THEN default_port ELSE entry.port
Target(entry) == <<entry.hostname, Port(entry)>>

\* Mutant: the collisions looked for are those of the hostnames.
Seen_Hostname(i) == {j \in 1..i : hosts[j].hostname = hosts[i].hostname}

\* The hosts up to this one that report under its label.
Seen(i) == {j \in 1..i : SeriesLabel(hosts[j]) = SeriesLabel(hosts[i])}

\* _warn_on_label_collisions: seen[label] is the first host of that label.
LabelCollisions ==
  {<<hosts[i].raw, hosts[Min(Seen(i))].raw>> :
     i \in {k \in DOMAIN hosts : hosts[Min(Seen(k))].raw # hosts[k].raw}}

\* init_cb, after the last block.
InitCb ==
  /\ pc = "config"
  /\ file = << >>
  /\ pc' = "idle"
  /\ warned' = LabelCollisions
  /\ UNCHANGED <<file, hosts, settings, written>>

-----------------------------------------------------------------------------

Configured == pc # "config"

\* Every host that goes into one series with another is named in a warning at
\* startup, the third of a series like the first two (_warn_on_label_collisions).
EveryCollisionIsWarned ==
  Configured =>
    \A i, j \in DOMAIN hosts :
      i # j /\ SeriesLabel(hosts[i]) = SeriesLabel(hosts[j])
        => \E pair \in warned : hosts[i].raw \in {pair[1], pair[2]}

\* A line of the file, by its block and its place in it.
Lines == UNION {{b} \X DOMAIN written[b] : b \in DOMAIN written}
At(place) == written[place[1]][place[2]]
Later(p, q) == p[1] > q[1] \/ (p[1] = q[1] /\ p[2] > q[2])

\* The setting is what the last of the lines that gives the key a valid value
\* makes it, and the default if none does.
Says(lines, key, valid, default, setting) ==
  LET those == {p \in lines : /\ At(p).key = key
                              /\ At(p).values # << >> /\ At(p).values[1] \in valid}
  IN  \/ those = {} /\ setting = default
      \/ \E p \in those : setting = At(p).values[1] /\ \A q \in those : ~ Later(q, p)

\* What is probed is what these lines say: each Host value once, on its own port
\* or on the last valid global one, wherever that stands, and each setting.
ConfiguredBy(lines) ==
  LET written_target(split) ==
        <<split[1], IF split[2] = NoPort THEN default_port ELSE split[2]>>
  IN  /\ {Target(hosts[i]) : i \in DOMAIN hosts} =
           {written_target(SplitHostPort(At(p).values[1])) :
              p \in {q \in lines : At(q).key = "host"}}
      /\ \A i, j \in DOMAIN hosts : hosts[i].raw = hosts[j].raw => i = j
      /\ Says(lines, "port", ValidPorts, DefaultPort, default_port)
      /\ Says(lines, "timeout", ValidTimeouts, DefaultTimeout, timeout)
      /\ Says(lines, "pingcount", ValidPingCounts, DefaultPingCount, ping_count)
      /\ Says(lines, "aggregate", Aggregates, "avg", aggregate)

\* A Host or an Aggregate of which nothing can be read.
Unreadable(node) == node.values = << >> /\ node.key \in {"host", "aggregate"}

\* If every Host and Aggregate has a value, what is probed is what all lines of
\* the file say, whatever their order, the order of the blocks, and the numbers
\* that are missing, no numbers or out of range (_numeric: a typo "should be a
\* warning" and leaves nothing half-configured).
ProbesWhatIsWritten ==
  Configured /\ (\A p \in Lines : ~ Unreadable(At(p))) => ConfiguredBy(Lines)

\* What is probed is what all lines of the file say that can be read: a bad value
\* is only warned of, "not an exception" (_numeric's docstring), and does not
\* discard the rest of the block (the plugin's test of that name).
BadLinesAreOnlyWarnedOf ==
  Configured => ConfiguredBy({p \in Lines : ~ Unreadable(At(p))})

=============================================================================
