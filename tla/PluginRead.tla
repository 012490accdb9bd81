------------------------------ MODULE PluginRead ------------------------------
(***************************************************************************)
(* read_cb of plugin/collectd/wire_probe.py: every Interval, one pass over *)
(* the configured hosts on collectd's read thread, within a time budget,   *)
(* rotating among the addresses of a target that keeps failing.            *)
(*                                                                         *)
(* Time is counted in ticks.  Addresses are numbers ordered like the sort  *)
(* key of _rotation_order; an answer of the resolver is a sequence.  Nothing *)
(* is said of the resolver and the network but what they may answer.        *)
(***************************************************************************)
EXTENDS AddressRing, PluginConfig

CONSTANTS
  ReadBudget,     \* _read_budget(): 0.8 of the Interval
  RotateAfter,    \* _ROTATE_AFTER_FAILURES: 5
  ResolveTime,    \* the longest getaddrinfo takes
  Unsupported,    \* addresses of a family the kernel has no sockets for
  Unencodable     \* hostnames that getaddrinfo raises a UnicodeError for

ASSUME BudgetAssumption ==
  {ReadBudget, RotateAfter} \subseteq Nat \ {0} /\ ResolveTime \in Nat
ASSUME UnsupportedAssumption == Unsupported \subseteq Addr

NoAddr == -1

\* Where a count of failures is as good as any above it: the next is a run.
MaxCount == RotateAfter - 1
Hosts == DOMAIN hosts

VARIABLES
  \* read_cb
  host,       \* the host being read
  left,       \* deadline - time.monotonic()
  addrs,      \* this host's answer, << >> for None
  attempts, samples,
  droprate,   \* what was dispatched for it: "none", "nan" or <<lost, attempted>>;
  reported, stddev,   \* and of the samples: which number, or "nan"
  \* _addr_state
  selected, failures,   \* of each state key; failures is counted up to MaxCount
  \* history
  dropped,    \* handshakes of this host that failed in the time of a handshake
  cut,        \* handshakes of this host that the deadline ended before that
  missed,     \* of each target, reads without a sample since its last sample or
              \* turn to another address: those in which a handshake failed,
  starved     \* and those the deadline cut or left none; both up to MaxCount

dispatched == <<droprate, reported, stddev>>
pass == <<host, left, addrs, attempts, samples, dispatched>>
state == <<selected, failures>>
history == <<dropped, cut, missed, starved>>
vars == <<pc, config, pass, state, history>>

Targets == {Target(hosts[i]) : i \in Hosts}

\* Mutant: the rotation state is kept under the name the host is reported by.
StateKey_Label(entry) == SeriesLabel(entry)

\* state_key.
StateKey(entry) == Target(entry)

Keys == {StateKey(hosts[i]) : i \in Hosts}
Key == StateKey(hosts[host])

TypeOK ==
  /\ pc \in {"config", "idle", "host", "ping"}
  /\ default_port \in ValidPorts /\ timeout \in ValidTimeouts
  /\ ping_count \in ValidPingCounts /\ aggregate \in Aggregates
  /\ host \in 1 .. Len(hosts) + 1
  /\ left \in Int
  /\ addrs \in Answer \cup {<< >>}
  /\ attempts \in 0..ping_count /\ samples \in 0..attempts
  /\ droprate \in {<<"none">>, <<"nan">>} \cup ((0..MaxPingCount) \X (1..MaxPingCount))
  /\ reported \in {"nan", "avg", "min"} /\ stddev \in {"nan", "number"}
  /\ dropped \in 0..attempts /\ cut \in 0..attempts
  /\ Configured =>
       /\ selected \in [Keys -> Addr \cup {NoAddr}]
       /\ failures \in [Keys -> 0..MaxCount]
       /\ missed \in [Targets -> 0..MaxCount]
       /\ starved \in [Targets -> 0..MaxCount]

-----------------------------------------------------------------------------

Init ==
  /\ ConfigInit
  /\ host = 1 /\ left = 0
  /\ addrs = << >> /\ attempts = 0 /\ samples = 0
  /\ droprate = <<"none">> /\ reported = "nan" /\ stddev = "nan"
  /\ selected = << >> /\ failures = << >>
  /\ dropped = 0 /\ cut = 0 /\ missed = << >> /\ starved = << >>

\* _addr_state starts empty.
Configure ==
  \/ ConfigCb /\ UNCHANGED <<pass, state, history>>
  \/ /\ InitCb
     /\ selected' = [k \in Keys |-> NoAddr]
     /\ failures' = [k \in Keys |-> 0]
     /\ missed' = [t \in Targets |-> 0]
     /\ starved' = [t \in Targets |-> 0]
     /\ UNCHANGED <<pass, dropped, cut>>

\* collectd calls read_cb.
StartRead ==
  /\ pc = "idle"
  /\ pc' = "host"
  /\ host' = 1
  /\ left' = ReadBudget
  /\ UNCHANGED <<config, addrs, attempts, samples, dispatched, state, history>>

\* The deadline check before a host is resolved.
OutOfBudget == left <= 0

\* The loop ends, or breaks when the budget is gone.
EndRead ==
  /\ pc = "host"
  /\ host > Len(hosts) \/ OutOfBudget
  /\ pc' = "idle"
  /\ UNCHANGED <<config, pass, state, history>>

\* _preferred_address: the address in use, or the resolver's first when there
\* is none or it is no longer answered.
PreferredAddress(answer) ==
  IF selected[Key] \in Range(answer) THEN selected[Key] ELSE Head(answer)

Resolvable == hosts[host].hostname \notin Unencodable

\* _resolve_all and _preferred_address: getaddrinfo takes as long as it takes,
\* and answers what it does, or nothing.
Resolve ==
  /\ pc = "host"
  /\ host <= Len(hosts)
  /\ ~ OutOfBudget
  /\ Resolvable
  /\ \E d \in 0..ResolveTime : left' = left - d
  /\ \/ addrs' = << >> /\ UNCHANGED selected
     \/ /\ addrs' \in Answer
        /\ selected' = [selected EXCEPT ![Key] = PreferredAddress(addrs')]
  /\ attempts' = 0 /\ samples' = 0 /\ dropped' = 0 /\ cut' = 0
  /\ droprate' = <<"none">> /\ reported' = "nan" /\ stddev' = "nan"
  /\ pc' = "ping"
  /\ UNCHANGED <<config, host, failures, missed, starved>>

\* A UnicodeError is no OSError: the exception leaves read_cb.
ResolveRaises ==
  /\ pc = "host"
  /\ host <= Len(hosts)
  /\ ~ OutOfBudget
  /\ ~ Resolvable
  /\ pc' = "idle"
  /\ UNCHANGED <<config, pass, state, history>>

\* Mutants: the connect gets the whole timeout; there is one sample too many.
ConnectTime_Whole == timeout
PingsOver_OneMore == addrs = << >> \/ left <= 0 \/ attempts > ping_count

\* The timeout given to _tcp_rtt, and the end of the loop over samples.
ConnectTime == Min({timeout, left})
PingsOver == addrs = << >> \/ left <= 0 \/ attempts = ping_count

\* socket.socket() raises outside the try, for a family without sockets, and
\* settimeout a ValueError for a NaN, which min(timeout, remaining) returns.
Usable == selected[Key] \notin Unsupported /\ timeout # NaN

\* One _tcp_rtt: the handshake is completed; it fails, refused or after the whole
\* timeout; or its timeout was shortened to the time left, and that is over.  In
\* the last case nothing is known of the address.
Ping ==
  /\ pc = "ping"
  /\ ~ PingsOver
  /\ Usable
  /\ attempts' = attempts + 1
  /\ \E d \in 0..ConnectTime :
       /\ left' = left - d
       /\ \/ samples' = samples + 1 /\ UNCHANGED <<dropped, cut>>
          \/ dropped' = dropped + 1 /\ UNCHANGED <<samples, cut>>
          \/ /\ d = ConnectTime /\ ConnectTime < timeout
             /\ cut' = cut + 1 /\ UNCHANGED <<samples, dropped>>
  /\ UNCHANGED <<pc, config, host, addrs, dispatched, state, missed, starved>>

\* The exception leaves read_cb.
PingRaises ==
  /\ pc = "ping"
  /\ ~ PingsOver
  /\ ~ Usable
  /\ pc' = "idle"
  /\ UNCHANGED <<config, pass, state, history>>

\* Mutants: rotation starts over from the resolver's first answer; and a run of
\* failures is forgotten by nothing but a rotation.
NextInOrder_StartsOver(answer, a) == Head(answer)
AfterSuccess_Kept(count) == count

\* order[(pos + 1) % len(order)] in the sorted answers: the list is not
\* deduplicated, so after an address that is in it twice comes itself.
NextInOrder(answer, a) ==
  IF Cardinality({i \in DOMAIN answer : answer[i] = a}) > 1
  THEN a ELSE Successor(Range(answer), a)

\* The failure count after a cycle with a sample.
AfterSuccess(count) == 0

\* _record_outcome.  No answer, no change; a success resets the count; a run
\* of failures moves on if there is more than one answer.
RecordOutcome ==
  LET count == failures[Key] + 1
      rotates == samples = 0 /\ count >= RotateAfter /\ Len(addrs) >= 2
  IN  IF addrs = << >> THEN UNCHANGED state
      ELSE /\ failures' = [failures EXCEPT ![Key] =
                             IF samples > 0 THEN AfterSuccess(@)
                             ELSE IF rotates THEN 0 ELSE Min({count, MaxCount})]
           /\ selected' = IF rotates
                          THEN [selected EXCEPT ![Key] = NextInOrder(addrs, @)]
                          ELSE selected

\* Mutant: every configured probe counts, attempted or not.
Droprate_OfPingCount ==
  IF addrs = << >> THEN <<1, 1>> ELSE <<ping_count - samples, ping_count>>

Droprate ==
  IF addrs = << >> THEN <<1, 1>>
  ELSE IF attempts = 0 THEN <<"nan">>
  ELSE <<attempts - samples, attempts>>

\* The RTT dispatched is the mean or the minimum of the samples.
Reported == IF samples = 0 THEN "nan" ELSE aggregate

\* One sample has no spread.
Stddev == IF samples > 1 THEN "number" ELSE "nan"

\* The end of a host: _record_outcome, then the three values are dispatched, and
\* what was local to the host is no more.
Report ==
  /\ pc = "ping"
  /\ PingsOver
  /\ RecordOutcome
  /\ droprate' = Droprate /\ reported' = Reported /\ stddev' = Stddev
  /\ LET over == samples > 0 \/ selected' # selected
         more(n) == IF over THEN 0 ELSE Min({n + 1, MaxCount})
     IN  /\ missed' = [missed EXCEPT ![Target(hosts[host])] =
                         IF over \/ dropped > 0 THEN more(@) ELSE @]
         /\ starved' = [starved EXCEPT ![Target(hosts[host])] =
                          IF over \/ (addrs # << >> /\ dropped = 0) THEN more(@) ELSE @]
  /\ pc' = "host"
  /\ host' = host + 1
  /\ addrs' = << >> /\ attempts' = 0 /\ samples' = 0 /\ dropped' = 0 /\ cut' = 0
  /\ UNCHANGED <<config, left>>

ReadCb == StartRead \/ EndRead \/ Resolve \/ ResolveRaises \/ Ping \/ PingRaises \/ Report
Next == Configure \/ ReadCb

\* collectd starts the plugin and keeps calling read_cb; every call returns.
Spec == Init /\ [][Next]_vars /\ WF_vars(Next)

-----------------------------------------------------------------------------

\* The callback outlives its budget only by the one resolution it had started:
\* connects are cut at the deadline, and no host is begun after it (read_cb).
OverrunsOnlyByResolving == left >= Min({0, 1 - ResolveTime})

\* A droprate counts handshakes that were attempted and failed, and an RTT is
\* missing beside it just when all of them did (read_cb's comment on attempts).
\* The budget of the read adds at most one loss of its own: the last handshake,
\* cut short by the deadline.  While there is time left, PingCount of them were
\* attempted and every loss was a failed one; when there never was, nothing is
\* claimed.
InventsAtMostOneLoss ==
  [][pc = "ping" /\ pc' = "host" /\ addrs # << >>
       => \/ left <= 0 /\ droprate' = <<"nan">> /\ reported' = "nan"
          \/ /\ droprate'[1] = dropped + cut
             /\ cut = 0 \/ (cut = 1 /\ left <= 0)
             /\ left > 0 => droprate'[2] = ping_count
             /\ reported' = "nan" <=> droprate'[1] = droprate'[2]]_vars

Turns(target) ==
  \E i \in Hosts : /\ Target(hosts[i]) = target
                   /\ selected'[StateKey(hosts[i])] # selected[StateKey(hosts[i])]

\* The plugin turns to another address of a target only in a read that got no
\* sample, after RotateAfter - 1 such reads in a row since the last sample or
\* turn, in each of which a handshake failed or the deadline left no time for
\* one; a read that could not resolve the name is none (_record_outcome).
RotatesOnlyAfterARun ==
  [][pc = "ping" => \A t \in Targets :
       Turns(t) => samples = 0 /\ missed[t] + starved[t] >= MaxCount]_vars

\* It turns only from an address that failed in this read and those before it:
\* "a probe that was never attempted is not a lost packet" (read_cb), and the
\* message says that the target "failed 5 times" (_record_outcome).
TurnsOnlyOnFailures ==
  [][pc = "ping" => \A t \in Targets :
       Turns(t) => dropped > 0 /\ missed[t] >= MaxCount]_vars

\* No target's failures or successes move or count for another's address, also
\* where the two report under one name (the comment on _addr_state).
TargetsRotateApart ==
  [][\A i \in Hosts :
       pc \in {"host", "ping"} /\ host \in Hosts /\ Target(hosts[i]) # Target(hosts[host])
         => UNCHANGED <<selected[StateKey(hosts[i])], failures[StateKey(hosts[i])]>>]_vars

\* The first host or another of its target is being read.
ReadsFirst == pc = "ping" /\ Target(hosts[host]) = Target(hosts[1])

\* The handshakes of that target with one address are all completed.
Completes(a) ==
  ReadsFirst /\ selected[Key] = a /\ attempts' = attempts + 1 => samples' = samples + 1

\* If the answers of the first host come down to the addresses of Z, each in
\* them once and in any order, and one of these completes every handshake, the
\* target is measured again and again.
Measured(Z) ==
  \A a \in Z \ Unsupported :
    /\ ResolveTime < ReadBudget
    /\ <>[](/\ Configured /\ hosts # << >> /\ timeout # NaN
            /\ hosts[1].hostname \notin Unencodable)
    /\ <>[](ReadsFirst => Range(addrs) = Z /\ Len(addrs) = Cardinality(Z))
    /\ <>[][Completes(a)]_vars
    => []<>(ReadsFirst /\ samples > 0)

\* An address that works is reached behind any number of others: a name "whose
\* first answer never connects" can "be worked past" (_resolve_all).  Premises
\* that the code does not see to are that no exception leaves read_cb, that
\* resolving leaves time for a handshake, and that no answer repeats an address:
\* _rotation_order would keep both copies, and the rotation would stay there.
WorkedPast == \A Z \in SUBSET (Addr \ Unsupported) : Measured(Z)

\* The same of addresses that no socket can be had for, "classically an AAAA in
\* front of a working A" (_resolve_all).
AnyAddressIsWorkedPast == \A Z \in SUBSET Addr : Measured(Z)

=============================================================================
