------------------------------ MODULE MCCadence ------------------------------
(* Cadence and Wire with a resolver of one answer and a few command lines:   *)
(* those accepted meet every exporter and every relation of the timeout to   *)
(* the interval, each of the others fails one check of parse.                *)
EXTENDS Wire

MCAnswer == {<<a>> : a \in Addr}

Given(number, suffix) == <<[number |-> number, suffix |-> suffix]>>

Plain == [mode |-> "probe", target |-> <<<<"alphanumeric", ":">>>>, target_name |-> << >>,
          az |-> << >>, interval |-> << >>, timeout |-> << >>, export |-> << >>,
          leftover |-> FALSE]

Paced(interval, timeout, dst, name) ==
  [Plain EXCEPT !.interval = interval, !.timeout = timeout, !.export = dst,
                !.target_name = <<name>>, !.az = <<name>>]

\* Between them they hold every character that is not kept.
MCHostNames == {<<"/", "alphanumeric", "/">>, <<"_", ":", "non-ASCII">>,
                <<"space", "comma", "=", "newline", "-", "=">>}

MCCommandLine ==
  UNION {
    {Paced(Given(1, "ms"), << >>, e, <<"space", "newline">>) :
       e \in {<< >>, <<"collectd-uds">>, <<"telegraf-udp">>}},
    {Paced(Given(5, "none"), Given(1, "ms"), e, <<"comma", "=", "alphanumeric", "/", "_">>) :
       e \in {<<"collectd-exec">>, <<"telegraf-udp">>}},
    {Paced(Given(1, "s"), Given(3, "ms"), <<"telegraf-udp">>, <<"non-ASCII">>)},
    {[Plain EXCEPT !.interval = Given(3, "s")], [Plain EXCEPT !.timeout = Given(2, "s")],
     [Plain EXCEPT !.interval = Given(0, "s")], [Plain EXCEPT !.timeout = Given(0, "ms")],
     [Plain EXCEPT !.interval = Given(1, "unparsable")], [Plain EXCEPT !.export = <<"unknown">>],
     [Plain EXCEPT !.target = << >>], [Plain EXCEPT !.leftover = TRUE],
     [Plain EXCEPT !.mode = "other"]}}

=============================================================================
