-------------------------------- MODULE Probe --------------------------------
(***************************************************************************)
(* run_probe of src/main.rs: one process that measures, rotates on a run   *)
(* of failures, and exports one point per cycle.  Every blocking call      *)
(* (getaddrinfo, connect, the export write, sleep) ends a step, so the     *)
(* resolver, the network and collectd act between any two of them.         *)
(***************************************************************************)
EXTENDS AddressRing

CONSTANT RERESOLVE_AFTER_FAILURES   \* main.rs: 5

ASSUME RunAssumption == RERESOLVE_AFTER_FAILURES \in Nat \ {0}

NoAddr == -1
Exporters == {"exec", "uds", "telegraf"}
Steps == {"parse", "resolve", "exporter", "measure", "rotate", "export", "sleep", "exited"}

VARIABLES
  \* the process
  pc,                       \* the next blocking call of run_probe
  export,                   \* the exporter the command line asked for
  addrs,                    \* the sorted, deduplicated answers
  current,                  \* the address being probed
  failures_until_reresolve,
  outcome,                  \* what this cycle measured: an rtt or a failure
  \* its environment
  zone,                     \* the answers the name publishes; {} = resolution fails
  up,                       \* the addresses that complete a handshake now
  stdout,                   \* the Exec pipe: "open" or "closed" (collectd gone)
  \* history, read by no guard
  missed,                   \* consecutive failures of current, counted up to the run
  tried,                    \* addresses given up in this sweep of unchanged answers
  orphaned                  \* measurements this process made after stdout closed, up to 2

process == <<pc, export, addrs, current, failures_until_reresolve, outcome>>
environment == <<zone, up, stdout>>
history == <<missed, tried, orphaned>>
vars == <<process, environment, history>>

R == RERESOLVE_AFTER_FAILURES
Started == pc \in {"measure", "rotate", "export", "sleep"}

TypeOK ==
  /\ pc \in Steps
  /\ export \in Exporters
  /\ addrs \in SUBSET Addr
  /\ current \in Addr \cup {NoAddr}
  /\ failures_until_reresolve \in 1..R
  /\ outcome \in {"none", "rtt", "failure"}
  /\ zone \in SUBSET Addr
  /\ up \in SUBSET Addr
  /\ stdout \in {"open", "closed"}
  /\ missed \in 0..R
  /\ tried \in SUBSET Addr
  /\ orphaned \in 0..2

-----------------------------------------------------------------------------

Init ==
  /\ pc = "parse"
  /\ export \in Exporters
  /\ addrs = {}
  /\ current = NoAddr
  /\ failures_until_reresolve = R
  /\ outcome = "none"
  /\ missed = 0
  /\ tried = {}
  /\ orphaned = 0
  /\ zone \in SUBSET Addr
  /\ up \in SUBSET Addr
  /\ stdout = "open"

\* cli::parse: a command line it rejects exits with status 1.
ParseArgs ==
  /\ pc = "parse"
  /\ pc' \in {"resolve", "exited"}
  /\ UNCHANGED <<export, addrs, current, failures_until_reresolve, outcome,
                 environment, history>>

\* resolve(target), then adopt: an error exits with status 1.
StartupResolve ==
  /\ pc = "resolve"
  /\ \/ /\ zone = {}
        /\ pc' = "exited"
        /\ UNCHANGED <<addrs, current>>
     \/ /\ \E fresh \in AnswersFor(zone) : /\ addrs' = Canonical(fresh)
                                          /\ current' = Preferred(fresh)
        /\ pc' = "exporter"
  /\ UNCHANGED <<export, failures_until_reresolve, outcome, environment, history>>

\* Exporter::new: opening a socket can fail, which exits; stdout is always there.
OpenExporter ==
  /\ pc = "exporter"
  /\ \/ pc' = "measure"
     \/ export # "exec" /\ pc' = "exited"
  /\ UNCHANGED <<export, addrs, current, failures_until_reresolve, outcome,
                 environment, history>>

\* Mutants: a success that leaves the countdown where it was, a run of failures
\* that leaves it at zero, and one after which every failure is a run.
CountdownAfterOk_Kept == failures_until_reresolve
CountdownAfterErr_NoReset == failures_until_reresolve - 1
CountdownAfterErr_StaysDown ==
  IF failures_until_reresolve = 1 THEN 1 ELSE failures_until_reresolve - 1

\* The countdown after a measurement: any success restores it, and so does
\* reaching zero, which is what calls rotate_target.
CountdownAfterOk == R
CountdownAfterErr ==
  IF failures_until_reresolve = 1 THEN R ELSE failures_until_reresolve - 1

\* measure_rtt(current) returned Ok.
MeasureOk ==
  /\ pc = "measure"
  /\ current \in up
  /\ outcome' = "rtt"
  /\ failures_until_reresolve' = CountdownAfterOk
  /\ pc' = "export"
  /\ missed' = 0
  /\ orphaned' = IF stdout = "closed" THEN Min({2, orphaned + 1}) ELSE orphaned
  /\ UNCHANGED <<export, addrs, current, environment, tried>>

\* measure_rtt(current) returned Err: count down, and at zero go on to
\* rotate_target in the same cycle.
MeasureErr ==
  /\ pc = "measure"
  /\ current \notin up
  /\ outcome' = "failure"
  /\ failures_until_reresolve' = CountdownAfterErr
  /\ pc' = IF failures_until_reresolve = 1 THEN "rotate" ELSE "export"
  /\ missed' = IF missed < R THEN missed + 1 ELSE R
  /\ orphaned' = IF stdout = "closed" THEN Min({2, orphaned + 1}) ELSE orphaned
  /\ UNCHANGED <<export, addrs, current, environment, tried>>

\* apply_resolution on a non-empty answer, and what history makes of it: a
\* changed answer set starts a new sweep, and so does completing one.
ApplyResolution(fresh) ==
  /\ addrs' = Canonical(fresh)
  /\ current' = NextTarget(Canonical(fresh), current, Preferred(fresh))
  /\ missed' = IF current' = current THEN missed ELSE 0
  /\ tried' = IF addrs' # addrs \/ tried \cup {current} = addrs
              THEN {} ELSE tried \cup {current}

\* rotate_target: a resolver error only warns.
RotateTarget ==
  /\ pc = "rotate"
  /\ \/ zone = {} /\ UNCHANGED <<addrs, current, missed, tried>>
     \/ \E fresh \in AnswersFor(zone) : ApplyResolution(fresh)
  /\ pc' = "export"
  /\ UNCHANGED <<export, failures_until_reresolve, outcome, environment, orphaned>>

\* What exp.send / exp.send_failure can return.  A write to a pipe whose
\* reader is gone is a BrokenPipe; a Unix socket can return one too.
ExportResults ==
  CASE export = "exec"     -> IF stdout = "closed" THEN {"BrokenPipe"} ELSE {"ok", "other"}
    [] export = "uds"      -> {"ok", "BrokenPipe", "other"}
    [] export = "telegraf" -> {"ok", "other"}

\* Mutants: a broken stdout that is only logged, and a broken Unix socket
\* that ends the process as a broken stdout does.
GivesUp_Never(result) == FALSE
GivesUp_AnyExporter(result) == result = "BrokenPipe"

GivesUp(result) == result = "BrokenPipe" /\ export = "exec"

\* The export of this cycle's outcome returned: only a broken stdout ends the
\* process, any other error is logged and the point is lost.
ExportReturns(result) ==
  /\ pc = "export"
  /\ pc' = IF GivesUp(result) THEN "exited" ELSE "sleep"
  /\ UNCHANGED <<export, addrs, current, failures_until_reresolve, outcome,
                 environment, history>>

Export == \E result \in ExportResults : ExportReturns(result)

\* Sleep out the interval, or not at all when the cycle outran it.
Sleep ==
  /\ pc = "sleep"
  /\ pc' = "measure"
  /\ outcome' = "none"
  /\ UNCHANGED <<export, addrs, current, failures_until_reresolve, environment, history>>

\* collectd (Exec) or the operator starts a fresh process with a fresh pipe.
Respawn ==
  /\ pc = "exited"
  /\ pc' = "parse"
  /\ addrs' = {}
  /\ current' = NoAddr
  /\ failures_until_reresolve' = R
  /\ outcome' = "none"
  /\ stdout' = "open"
  /\ missed' = 0
  /\ tried' = {}
  /\ orphaned' = 0
  /\ UNCHANGED <<export, zone, up>>

ZoneChanges == \E z \in SUBSET Addr : zone' = z /\ UNCHANGED <<process, up, stdout, history>>
NetworkChanges == \E u \in SUBSET Addr : up' = u /\ UNCHANGED <<process, zone, stdout, history>>
CollectdGoes == /\ export = "exec" /\ stdout' = "closed"
                /\ UNCHANGED <<process, zone, up, history>>

Cycle == ParseArgs \/ StartupResolve \/ OpenExporter \/ MeasureOk \/ MeasureErr
           \/ RotateTarget \/ Export \/ Sleep

Next == Cycle \/ Respawn \/ ZoneChanges \/ NetworkChanges \/ CollectdGoes

\* The calls that return: measure_rtt by its timeout, a datagram at once; a
\* resolver and a pipe have no bound of their own, but are assumed to.  The
\* reconnect of the Unix socket is not: a collectd that does not accept holds
\* it for ever (CollectdUds).
Returns == ParseArgs \/ StartupResolve \/ OpenExporter \/ MeasureOk \/ MeasureErr
             \/ RotateTarget \/ (export # "uds" /\ Export) \/ Sleep

\* The process runs.  Nothing promises a respawn, a working resolver, a reachable
\* address or a collectd that accepts.
Spec == Init /\ [][Next]_vars /\ WF_vars(Returns)

-----------------------------------------------------------------------------
(***************************************************************************)
(* Properties.                                                             *)
(***************************************************************************)

\* Once it has started, the probe aims at an address of the answers it holds:
\* an address that vanished from them cannot stay selected (apply_resolution).
AimsAtAnAnswer == Started => current \in addrs

\* However often the resolver shuffles the same answers, the probe comes back
\* to an address it gave up only after giving up all the others: no
\* oscillation that leaves the third address unprobed (apply_resolution).
EveryAnswerGetsItsTurn == current \notin tried /\ tried \subseteq addrs

\* The countdown never runs ahead of the failures: when rotate_target is
\* called, the address in use has failed R times in a row and, whatever
\* happened before, the countdown stands at a full run again.
CountdownIsARun ==
  Started => /\ missed >= R - failures_until_reresolve
             /\ pc = "rotate" => missed = R /\ failures_until_reresolve = R

\* An address that is still answered is abandoned only after R consecutive
\* failures of that same address (run_probe's countdown with rotate_target).
LeavesOnlyAfterARun ==
  [][Started /\ current' # current /\ pc' # "parse" /\ current \in addrs'
       => missed = R]_vars

\* After collectd closes the Exec pipe the process measures at most once more:
\* it never becomes an orphan that keeps connecting to the target.
NoOrphanProbing == orphaned <= 1

\* A process whose Exec pipe closed after it started does exit.
OrphanExits == (Started /\ stdout = "closed") ~> (pc = "exited")

\* No export of this process is stuck for ever: what Spec says of the pipe and of
\* datagrams, and collectd has to see to for the Unix socket.
ExportsReturn == []<>(pc # "export")

\* A probe that reports over a socket goes on to the next cycle after each export,
\* whatever that returned: no error of the peer ends it, a broken pipe of the Unix
\* socket neither (run_probe's match on BrokenPipe).  The premise is for the Unix
\* socket, whose reconnect has no timeout; a Telegraf exporter meets it by itself.
SocketProbeKeepsReporting ==
  (export = "uds" => ExportsReturn)
    => []((pc = "measure" /\ export # "exec") => []<>(pc = "sleep"))

\* If the answers stop changing and one of them stays reachable, the probe
\* measures again and again, in whatever order the resolver lists them, unless
\* the process keeps being ended or an export of it never returns.
ReachesAWorkingAddress ==
  \A a \in Addr : (<>[](a \in zone \cap up) /\ <>[][FALSE]_zone /\ ExportsReturn)
                    => ([]<>(outcome = "rtt") \/ []<>(pc = "exited"))

\* What makes the invariants above inductive: before the first cycle nothing
\* has been counted, the sweep is an arc of the ring that ends just before the
\* address in use, and a measurement made for nobody is exported next.
IInv ==
  /\ TypeOK
  /\ pc \in {"parse", "resolve", "exporter"} =>
       tried = {} /\ missed = 0 /\ orphaned = 0 /\ failures_until_reresolve = R
  /\ pc \in {"parse", "resolve"} => current = NoAddr /\ addrs = {}
  /\ pc = "exporter" => current \in addrs
  /\ AimsAtAnAnswer
  /\ EveryAnswerGetsItsTurn
  /\ \A x \in tried : Arc(addrs, x, current) \subseteq tried
  /\ CountdownIsARun
  /\ stdout = "closed" => export = "exec"
  /\ orphaned > 0 => stdout = "closed" /\ pc \in {"rotate", "export", "exited"}
  /\ NoOrphanProbing

\* The probe keeps TargetRotation's promise about the address it aims at.
Rotation == INSTANCE TargetRotation WITH answers <- addrs, Run <- R
ImplementsTargetRotation == Rotation!Spec

=============================================================================
