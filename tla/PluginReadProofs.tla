--------------------------- MODULE PluginReadProofs ---------------------------
(***************************************************************************)
(* Theorems about the collectd plugin, for every configuration, every      *)
(* number of hosts and samples, every budget and any resolver: types, the  *)
(* time budget, the droprate, the series labels, the rotation states and   *)
(* what is configured.                                                     *)
(***************************************************************************)
EXTENDS PluginRead, AddressRingProofs

Entries == {Entry(node.values[1]) : node \in Node}

\* What is left to configure and what has been configured; no Host value is
\* configured twice.
ConfigTyped ==
  /\ file \in Seq(Seq(Node))
  /\ hosts \in Seq(Entries)
  /\ \A i, j \in DOMAIN hosts : hosts[i].raw = hosts[j].raw => i = j
  /\ Configured => warned = LabelCollisions

\* Nothing is read before init_cb; a sample loop is in one of the hosts, at an
\* address of its answer, and every attempt has succeeded, failed or, the last
\* one, met the deadline.
Reading ==
  /\ pc = "config" => host = 1 /\ attempts = 0
  /\ pc = "ping" => host \in Hosts
  /\ pc = "ping" => IF addrs = << >> THEN attempts = 0 ELSE selected[Key] \in Range(addrs)
  /\ samples \in Nat /\ dropped \in Nat /\ cut \in Nat /\ samples + dropped + cut = attempts
  /\ cut = 0 \/ (pc = "ping" /\ cut = 1 /\ left <= 0)

PInv == TypeOK /\ ConfigTyped /\ Reading /\ OverrunsOnlyByResolving

-----------------------------------------------------------------------------

\* The smaller of two integers.
LEMMA MinOfTwoInts ==
  ASSUME NEW a \in Int, NEW b \in Int
  PROVE  Min({a, b}) = IF a <= b THEN a ELSE b
PROOF
<1> DEFINE m == IF a <= b THEN a ELSE b
<1>1. m \in {a, b} /\ \A y \in {a, b} : m <= y
  OBVIOUS
<1>2. Min({a, b}) \in {a, b} /\ \A y \in {a, b} : Min({a, b}) <= y
  BY <1>1 DEF Min
<1> QED
  BY <1>2

\* The entries of an answer are addresses.
LEMMA AnswerProperty ==
  ASSUME NEW answer \in Answer
  PROVE  /\ answer # << >> /\ Head(answer) \in Range(answer)
         /\ Range(answer) \subseteq Addr /\ Range(answer) \in SUBSET Nat
PROOF
<1>1. answer \in Seq(Addr) /\ answer # << >>
  BY AnswerAssumption
<1>2. 1 \in DOMAIN answer /\ Head(answer) = answer[1]
  BY <1>1
<1>3. \A i \in DOMAIN answer : answer[i] \in Addr
  BY <1>1
<1> QED
  BY <1>1, <1>2, <1>3, AddrAssumption DEF Range

\* The rotation stays among the entries of the answer.
LEMMA NextInOrderProperty ==
  ASSUME NEW answer \in Answer, NEW a \in Range(answer)
  PROVE  NextInOrder(answer, a) \in Range(answer)
BY AnswerProperty, SuccessorProperty DEF NextInOrder

\* The most a count of failures is.
LEMMA MaxCountType == MaxCount \in Nat /\ RotateAfter \in Nat /\ MaxCount = RotateAfter - 1
BY BudgetAssumption DEF MaxCount

\* The plugin starts in its inductive invariant.
LEMMA InitPInv == Init => PInv
PROOF
<1> SUFFICES ASSUME Init PROVE PInv
  OBVIOUS
<1>1. TypeOK
  BY SettingsAssumption DEF Init, ConfigInit, TypeOK, Configured, ValidPorts, ValidTimeouts, ValidPingCounts, Aggregates
<1>2. ConfigTyped
  BY ConfigFilesAssumption DEF Init, ConfigInit, ConfigTyped, Configured
<1>3. Reading
  BY DEF Init, ConfigInit, Reading
<1>4. OverrunsOnlyByResolving
  BY MinOfTwoInts, BudgetAssumption DEF Init, OverrunsOnlyByResolving
<1> QED
  BY <1>1, <1>2, <1>3, <1>4 DEF PInv

\* A setting stays valid, whatever is written.
LEMMA AssignedIsValid ==
  ASSUME NEW node, NEW valid, NEW old \in valid
  PROVE  Assigned(node, valid, old) \in valid
BY DEF Assigned

\* One line of the configuration.
LEMMA ConfigNodeStep ==
  ASSUME TypeOK, ConfigTyped, NEW node \in Node, ~ Raises(node), ConfigNode(node)
  PROVE  /\ default_port' \in ValidPorts /\ timeout' \in ValidTimeouts
         /\ ping_count' \in ValidPingCounts /\ aggregate' \in Aggregates
         /\ hosts' \in Seq(Entries)
         /\ \A i, j \in DOMAIN hosts' : hosts'[i].raw = hosts'[j].raw => i = j
PROOF
<1>1. /\ default_port' \in ValidPorts /\ timeout' \in ValidTimeouts
      /\ ping_count' \in ValidPingCounts /\ aggregate' \in Aggregates
  BY AssignedIsValid DEF ConfigNode, TypeOK, settings
<1>2. CASE UNCHANGED hosts
  BY <1>1, <1>2 DEF ConfigTyped
<1>3. CASE hosts' # hosts
  <2> DEFINE e == Entry(node.values[1])
  <2>1. hosts' = Append(hosts, e) /\ ~ \E i \in DOMAIN hosts : hosts[i] = e
    BY <1>3 DEF ConfigNode
  <2>2. e \in Entries
    BY DEF Entries
  <2>3. ASSUME NEW i \in DOMAIN hosts PROVE hosts[i].raw # e.raw
    <3>1. PICK n \in Node : hosts[i] = Entry(n.values[1])
      BY DEF ConfigTyped, Entries
    <3>2. Entry(n.values[1]).raw = n.values[1] /\ e.raw = node.values[1]
      BY DEF Entry
    <3> QED
      BY <2>1, <3>1, <3>2
  <2>4. hosts \in Seq(Entries)
    BY DEF ConfigTyped
  <2> HIDE DEF e
  <2>5. /\ hosts' \in Seq(Entries) /\ DOMAIN hosts' = 1 .. Len(hosts) + 1
        /\ \A i \in DOMAIN hosts : hosts'[i] = hosts[i]
        /\ hosts'[Len(hosts) + 1] = e /\ DOMAIN hosts = 1 .. Len(hosts) /\ Len(hosts) \in Nat
    BY <2>1, <2>2, <2>4
  <2>6. \A i, j \in DOMAIN hosts' : hosts'[i].raw = hosts'[j].raw => i = j
    BY <2>3, <2>5 DEF ConfigTyped
  <2> QED
    BY <1>1, <2>5, <2>6
<1> QED
  BY <1>2, <1>3

\* What is derived from the hosts.
LEMMA HostsStay ==
  ASSUME UNCHANGED <<hosts, default_port>>
  PROVE  /\ Keys' = Keys /\ Targets' = Targets /\ Hosts' = Hosts
         /\ LabelCollisions' = LabelCollisions
PROOF
<1>1. Keys' = Keys /\ Targets' = Targets /\ Hosts' = Hosts
  BY DEF Keys, Targets, StateKey, Target, Port, Hosts
<1>2. LabelCollisions' = LabelCollisions
  BY DEF LabelCollisions, Seen, SeriesLabel
<1> QED
  BY <1>1, <1>2

\* Before init_cb.
LEMMA ConfigureStep == PInv /\ Configure => PInv'
PROOF
<1> SUFFICES ASSUME PInv, Configure PROVE PInv'
  OBVIOUS
<1> USE DEF PInv
<1>1. CASE ConfigCb /\ UNCHANGED <<pass, state, history>>
  <2>1. /\ pc = "config" /\ pc' = pc /\ file # << >> /\ warned' = warned
        /\ UNCHANGED <<host, left, addrs, attempts, samples, droprate, reported, stddev, selected, failures,
                       dropped, cut, missed, starved>>
    BY <1>1 DEF ConfigCb, pass, dispatched, state, history
  <2>2. file \in Seq(Seq(Node)) /\ file[1] \in Seq(Node)
    <3>1. file \in Seq(Seq(Node))
      BY DEF ConfigTyped
    <3>2. 1 \in DOMAIN file
      BY <2>1, <3>1
    <3> QED
      BY <3>1, <3>2
  <2>3. /\ file' \in Seq(Seq(Node))
        /\ default_port' \in ValidPorts /\ timeout' \in ValidTimeouts
        /\ ping_count' \in ValidPingCounts /\ aggregate' \in Aggregates
        /\ hosts' \in Seq(Entries)
        /\ \A i, j \in DOMAIN hosts' : hosts'[i].raw = hosts'[j].raw => i = j
    <3>1. CASE file[1] = << >> \/ Raises(file[1][1])
      <4>1. file' = Tail(file) /\ UNCHANGED <<hosts, default_port, timeout, ping_count, aggregate>>
        BY <1>1, <3>1 DEF ConfigCb, settings
      <4>2. file' \in Seq(Seq(Node))
        BY <2>1, <2>2, <4>1
      <4> QED
        BY <4>1, <4>2 DEF TypeOK, ConfigTyped
    <3>2. CASE ~ (file[1] = << >> \/ Raises(file[1][1]))
      <4>1. ConfigNode(file[1][1]) /\ file' = <<Tail(file[1])>> \o Tail(file)
        BY <1>1, <3>2 DEF ConfigCb
      <4>2. file[1][1] \in Node /\ Tail(file[1]) \in Seq(Node)
        BY <2>2, <3>2
      <4>3. <<Tail(file[1])>> \in Seq(Seq(Node)) /\ Tail(file) \in Seq(Seq(Node))
        BY <2>1, <2>2, <4>2
      <4>4. file' \in Seq(Seq(Node))
        BY <4>1, <4>3
      <4> QED
        BY <3>2, <4>1, <4>2, <4>4, ConfigNodeStep
    <3> QED
      BY <3>1, <3>2
  <2>4. attempts = 0 /\ samples = 0 /\ dropped = 0 /\ cut = 0 /\ host = 1
    BY <2>1 DEF TypeOK, Reading
  <2>5. TypeOK'
    <3>1. Len(hosts') \in Nat /\ ping_count' \in Nat
      BY <2>3, SettingsAssumption DEF ValidPingCounts
    <3> QED
      BY <2>1, <2>3, <2>4, <3>1 DEF TypeOK, Configured
  <2>6. ConfigTyped'
    BY <2>1, <2>3 DEF ConfigTyped, Configured
  <2>7. Reading'
    BY <2>1, <2>4 DEF Reading
  <2>8. OverrunsOnlyByResolving'
    BY <2>1 DEF OverrunsOnlyByResolving
  <2> QED
    BY <2>5, <2>6, <2>7, <2>8
<1>2. CASE Configure /\ InitCb
  <2>1. /\ pc = "config" /\ pc' = "idle" /\ warned' = LabelCollisions
        /\ UNCHANGED <<file, hosts, default_port, timeout, ping_count, aggregate,
                       host, left, addrs, attempts, samples, droprate, reported, stddev,
                       dropped, cut>>
        /\ selected' = [k \in Keys |-> NoAddr]
        /\ failures' = [k \in Keys |-> 0]
        /\ missed' = [t \in Targets |-> 0]
        /\ starved' = [t \in Targets |-> 0]
    BY <1>2 DEF Configure, ConfigCb, InitCb, pass, dispatched, settings
  <2>2. /\ Keys' = Keys /\ Targets' = Targets
        /\ LabelCollisions' = LabelCollisions
    BY <2>1, HostsStay
  <2>3. TypeOK'
    BY <2>1, <2>2, MaxCountType DEF TypeOK
  <2>4. ConfigTyped'
    BY <2>1, <2>2 DEF ConfigTyped
  <2>5. Reading'
    BY <2>1 DEF Reading
  <2>6. OverrunsOnlyByResolving'
    BY <2>1 DEF OverrunsOnlyByResolving
  <2> QED
    BY <2>3, <2>4, <2>5, <2>6
<1> QED
  BY <1>1, <1>2 DEF Configure

\* A step that leaves the configuration alone leaves what is derived from it.
LEMMA ConfigStays ==
  ASSUME UNCHANGED config
  PROVE  /\ UNCHANGED <<file, hosts, default_port, timeout, ping_count, aggregate, warned>>
         /\ Keys' = Keys /\ Targets' = Targets /\ Hosts' = Hosts
         /\ LabelCollisions' = LabelCollisions
BY HostsStay DEF config, settings

\* A step of read_cb preserves it.
LEMMA ReadStep == PInv /\ ReadCb => PInv'
PROOF
<1> SUFFICES ASSUME PInv, ReadCb PROVE PInv'
  OBVIOUS
<1>1. UNCHANGED config
  BY DEF ReadCb, StartRead, EndRead, Resolve, ResolveRaises, Ping, PingRaises, Report
<1>2. /\ UNCHANGED <<file, hosts, default_port, timeout, ping_count, aggregate, warned>>
      /\ Keys' = Keys /\ Targets' = Targets /\ Hosts' = Hosts
      /\ LabelCollisions' = LabelCollisions
  BY <1>1, ConfigStays
<1>3. Configured /\ Configured'
  BY DEF ReadCb, StartRead, EndRead, Resolve, ResolveRaises, Ping, PingRaises, Report,
     Configured
<1>4. ConfigTyped'
  BY <1>2, <1>3 DEF PInv, ConfigTyped
<1>5. /\ Len(hosts) \in Nat /\ Hosts = 1 .. Len(hosts) /\ timeout \in Int /\ ping_count \in Nat
      /\ ResolveTime \in Nat
      /\ Min({0, 1 - ResolveTime}) = IF ResolveTime = 0 THEN 0 ELSE 1 - ResolveTime
  <2>1. Len(hosts) \in Nat /\ Hosts = 1 .. Len(hosts)
    BY DEF PInv, ConfigTyped, Hosts
  <2>2. timeout \in ValidTimeouts /\ ping_count \in ValidPingCounts
    BY DEF PInv, TypeOK
  <2>3. timeout \in Int /\ ping_count \in Nat
    BY <2>2, SettingsAssumption DEF ValidTimeouts, ValidPingCounts, NaN
  <2>4. ResolveTime \in Nat
    BY BudgetAssumption
  <2>5. Min({0, 1 - ResolveTime}) = IF ResolveTime = 0 THEN 0 ELSE 1 - ResolveTime
    BY <2>4, MinOfTwoInts
  <2> QED
    BY <2>1, <2>3, <2>4, <2>5
<1>6. ASSUME pc = "ping" PROVE Key \in Keys /\ Target(hosts[host]) \in Targets
  BY <1>6 DEF PInv, Reading, Key, Keys, Targets
<1> USE DEF PInv
<1>7. CASE StartRead
  <2>1. Reading'
    BY <1>7 DEF StartRead, Reading, history
  <2>2. TypeOK' /\ OverrunsOnlyByResolving'
    BY <1>2, <1>3, <1>5, <1>7, BudgetAssumption
       DEF StartRead, TypeOK, OverrunsOnlyByResolving, dispatched, state, history
  <2> QED
    BY <1>4, <2>1, <2>2
<1>8. CASE EndRead
  BY <1>2, <1>3, <1>4, <1>5, <1>8
     DEF EndRead, TypeOK, Reading, OverrunsOnlyByResolving, pass, dispatched, state, history
<1>9. CASE Resolve
  <2>1. /\ pc = "host" /\ host \in Hosts /\ pc' = "ping" /\ ~ OutOfBudget
        /\ attempts' = 0 /\ samples' = 0 /\ dropped' = 0 /\ cut' = 0
        /\ droprate' = <<"none">> /\ reported' = "nan" /\ stddev' = "nan"
        /\ UNCHANGED <<host, failures, missed, starved>>
    BY <1>5, <1>9 DEF Resolve, TypeOK
  <2>2. PICK d \in 0..ResolveTime : left' = left - d
    BY <1>9 DEF Resolve
  <2>3. left' \in Int /\ left' >= 1 - ResolveTime /\ (ResolveTime = 0 => left' >= 0)
    BY <1>5, <2>1, <2>2 DEF TypeOK, OutOfBudget
  <2>4. Key \in Keys /\ Key' = Key
    BY <1>2, <2>1 DEF Key, Keys, StateKey, Target, Port
  <2>5. /\ addrs' \in Answer \cup {<< >>}
        /\ selected' \in [Keys -> Addr \cup {NoAddr}]
        /\ addrs' # << >> => selected'[Key] \in Range(addrs')
    <3>1. CASE addrs' = << >> /\ UNCHANGED selected
      BY <1>3, <3>1 DEF TypeOK
    <3>2. CASE /\ addrs' \in Answer
               /\ selected' = [selected EXCEPT ![Key] = PreferredAddress(addrs')]
      <4>1. PreferredAddress(addrs') \in Range(addrs') /\ Range(addrs') \subseteq Addr
        BY <3>2, AnswerProperty DEF PreferredAddress
      <4> QED
        BY <1>3, <2>4, <3>2, <4>1 DEF TypeOK
    <3> QED
      BY <1>9, <3>1, <3>2 DEF Resolve
  <2>6. TypeOK'
    BY <1>2, <1>3, <1>5, <2>1, <2>3, <2>5 DEF TypeOK
  <2>7. Reading'
    BY <1>2, <2>1, <2>4, <2>5 DEF Reading
  <2>8. OverrunsOnlyByResolving'
    BY <1>5, <2>3 DEF OverrunsOnlyByResolving
  <2> QED
    BY <1>4, <2>6, <2>7, <2>8
<1>10. CASE ResolveRaises
  BY <1>2, <1>3, <1>4, <1>5, <1>10
     DEF ResolveRaises, TypeOK, Reading, OverrunsOnlyByResolving, pass, dispatched, state, history
<1>11. CASE Ping
  <2>1. /\ pc = "ping" /\ pc' = pc /\ ~ PingsOver /\ attempts' = attempts + 1
        /\ UNCHANGED <<host, addrs, droprate, reported, stddev, selected, failures, missed, starved>>
    BY <1>11 DEF Ping, state, dispatched
  <2>2. left > 0 /\ left \in Int /\ attempts # ping_count /\ attempts \in 0..ping_count
    BY <2>1 DEF PingsOver, TypeOK
  <2>3. /\ samples \in Nat /\ dropped \in Nat /\ cut = 0 /\ attempts \in Nat
        /\ samples + dropped = attempts
    BY <2>1, <2>2 DEF Reading
  <2>4. PICK d \in 0..ConnectTime :
               /\ left' = left - d
               /\ \/ samples' = samples + 1 /\ UNCHANGED <<dropped, cut>>
                  \/ dropped' = dropped + 1 /\ UNCHANGED <<samples, cut>>
                  \/ /\ d = ConnectTime /\ ConnectTime < timeout
                     /\ cut' = cut + 1 /\ UNCHANGED <<samples, dropped>>
    BY <1>11 DEF Ping
  <2>5. /\ ConnectTime \in Int /\ ConnectTime <= left
        /\ ConnectTime < timeout => ConnectTime = left
    <3>1. ConnectTime = IF timeout <= left THEN timeout ELSE left
      BY <1>5, <2>2, MinOfTwoInts DEF ConnectTime
    <3> QED
      BY <1>5, <2>2, <3>1
  <2>6. left' \in Int /\ left' >= 0
    BY <2>2, <2>4, <2>5
  <2>7. /\ samples' \in Nat /\ dropped' \in Nat /\ cut' \in Nat
        /\ samples' + dropped' + cut' = attempts'
    BY <2>1, <2>3, <2>4
  <2>8. cut' = 0 \/ (cut' = 1 /\ left' <= 0)
    BY <2>2, <2>3, <2>4, <2>5
  <2>9. TypeOK'
    <3>1. attempts + 1 \in 0..ping_count
      BY <1>5, <2>2
    <3>2. attempts' \in Nat
      BY <2>1, <2>3
    <3>3. samples' \in 0..attempts' /\ dropped' \in 0..attempts' /\ cut' \in 0..attempts'
      <4>1. \A a, b, c, n \in Nat : a + b + c = n => a \in 0..n /\ b \in 0..n /\ c \in 0..n
        OBVIOUS
      <4> QED
        BY <2>7, <3>2, <4>1
    <3> QED
      BY <1>2, <1>3, <2>1, <2>6, <3>1, <3>3 DEF TypeOK
  <2>10. Reading'
    BY <1>2, <2>1, <2>7, <2>8 DEF Reading, PingsOver, Key, StateKey, Target, Port
  <2>11. OverrunsOnlyByResolving'
    BY <1>5, <2>6 DEF OverrunsOnlyByResolving
  <2> QED
    BY <1>4, <2>9, <2>10, <2>11
<1>12. CASE PingRaises
  BY <1>2, <1>3, <1>4, <1>5, <1>12
     DEF PingRaises, PingsOver, TypeOK, Reading, OverrunsOnlyByResolving, pass, dispatched, state, history
<1>13. CASE Report
  <2>1. /\ pc = "ping" /\ pc' = "host" /\ host' = host + 1 /\ droprate' = Droprate
        /\ addrs' = << >> /\ attempts' = 0 /\ samples' = 0 /\ dropped' = 0 /\ cut' = 0
        /\ left' = left
    BY <1>13 DEF Report
  <2>2. host \in 1 .. Len(hosts) /\ Key \in Keys /\ Target(hosts[host]) \in Targets
    BY <1>5, <1>6, <2>1 DEF Reading
  <2>3. selected' \in [Keys -> Addr \cup {NoAddr}] /\ failures' \in [Keys -> 0..MaxCount]
    <3>1. CASE addrs = << >>
      BY <1>3, <1>13, <3>1 DEF Report, RecordOutcome, state, TypeOK
    <3>2. CASE addrs # << >>
      <4>1. addrs \in Answer /\ selected[Key] \in Range(addrs)
        BY <2>1, <3>2 DEF TypeOK, Reading
      <4>2. NextInOrder(addrs, selected[Key]) \in Addr
        BY <4>1, NextInOrderProperty, AnswerProperty
      <4>3. selected \in [Keys -> Addr \cup {NoAddr}] /\ failures \in [Keys -> 0..MaxCount]
        BY <1>3 DEF TypeOK
      <4>4. selected' \in [Keys -> Addr \cup {NoAddr}]
        BY <1>13, <2>2, <3>2, <4>2, <4>3 DEF Report, RecordOutcome
      <4>5. failures[Key] \in 0..MaxCount /\ MaxCount \in Nat
        BY <2>2, <4>3, MaxCountType
      <4>6. Min({failures[Key] + 1, MaxCount}) \in 0..MaxCount
        BY <4>5, MinOfTwoInts
      <4>7. failures' \in [Keys -> 0..MaxCount]
        BY <1>13, <2>2, <3>2, <4>3, <4>5, <4>6 DEF Report, RecordOutcome, AfterSuccess
      <4> QED
        BY <4>4, <4>7
    <3> QED
      BY <3>1, <3>2
  <2>4. missed' \in [Targets -> 0..MaxCount] /\ starved' \in [Targets -> 0..MaxCount]
    <3>1. /\ missed \in [Targets -> 0..MaxCount] /\ starved \in [Targets -> 0..MaxCount]
          /\ MaxCount \in Nat
      BY <1>3, MaxCountType DEF TypeOK
    <3>2. \A n \in 0..MaxCount : Min({n + 1, MaxCount}) \in 0..MaxCount
      BY <3>1, MinOfTwoInts
    <3> DEFINE over == samples > 0 \/ selected' # selected
               more(n) == IF over THEN 0 ELSE Min({n + 1, MaxCount})
               t == Target(hosts[host])
    <3>3. \A n \in 0..MaxCount : more(n) \in 0..MaxCount
      BY <3>1, <3>2
    <3>4. /\ missed' = [missed EXCEPT ![t] = IF over \/ dropped > 0 THEN more(@) ELSE @]
          /\ starved' = [starved EXCEPT ![t] =
                           IF over \/ (addrs # << >> /\ dropped = 0) THEN more(@) ELSE @]
      BY <1>13 DEF Report
    <3>5. t \in Targets
      BY <2>2
    <3> HIDE DEF over, more, t
    <3> QED
      BY <3>1, <3>3, <3>4, <3>5
  <2>5. droprate' \in {<<"none">>, <<"nan">>} \cup ((0..MaxPingCount) \X (1..MaxPingCount))
    <3>1. /\ attempts \in 0..MaxPingCount /\ samples \in 0..attempts /\ MaxPingCount \in Nat
          /\ 1 <= MaxPingCount
      BY <1>5, SettingsAssumption DEF TypeOK, ValidPingCounts
    <3> QED
      BY <2>1, <3>1 DEF Droprate
  <2>6. reported' \in {"nan", "avg", "min"} /\ stddev' \in {"nan", "number"}
    BY <1>13 DEF Report, Reported, Stddev, TypeOK, Aggregates
  <2>7. TypeOK'
    BY <1>2, <1>3, <1>5, <2>1, <2>2, <2>3, <2>4, <2>5, <2>6 DEF TypeOK
  <2>8. Reading' /\ OverrunsOnlyByResolving'
    BY <2>1 DEF Reading, OverrunsOnlyByResolving
  <2> QED
    BY <1>4, <2>7, <2>8
<1> QED
  BY <1>7, <1>8, <1>9, <1>10, <1>11, <1>12, <1>13 DEF ReadCb

\* So does every step.
LEMMA NextPInv == PInv /\ [Next]_vars => PInv'
PROOF
<1> SUFFICES ASSUME PInv, UNCHANGED vars PROVE PInv'
  BY ConfigureStep, ReadStep DEF Next
<1>1. UNCHANGED config /\ UNCHANGED <<pc, pass, state, history>>
  BY DEF vars
<1>2. /\ UNCHANGED <<file, hosts, default_port, timeout, ping_count, aggregate, warned>>
      /\ Keys' = Keys /\ Targets' = Targets /\ Hosts' = Hosts
      /\ LabelCollisions' = LabelCollisions
  BY <1>1, ConfigStays
<1>3. UNCHANGED <<pc, host, left, addrs, attempts, samples, droprate, reported, stddev, selected, failures,
                  dropped, cut, missed, starved>>
  BY <1>1 DEF pass, dispatched, state, history
<1> QED
  BY <1>2, <1>3 DEF PInv, TypeOK, ConfigTyped, Reading, OverrunsOnlyByResolving, Configured,
     Key, StateKey, Target, Port

-----------------------------------------------------------------------------

\* Types, the configuration, the sample loop and the budget, of every reachable
\* state (config_cb, init_cb and read_cb).
THEOREM PluginInvariance == Spec => []PInv
PROOF
<1>1. Init => PInv
  BY InitPInv
<1>2. PInv /\ [Next]_vars => PInv'
  BY NextPInv
<1> QED
  BY <1>1, <1>2, PTL DEF Spec

\* The types of the plugin's settings, of its hosts and of its rotation states.
THEOREM PluginTypeCorrect == Spec => []TypeOK
PROOF
<1>1. PInv => TypeOK
  BY DEF PInv
<1> QED
  BY <1>1, PluginInvariance, PTL

\* read_cb is late by less than the one resolution it had begun in time,
\* whatever the number of hosts, the timeout and PingCount.
THEOREM BudgetHolds == Spec => []OverrunsOnlyByResolving
PROOF
<1>1. PInv => OverrunsOnlyByResolving
  BY DEF PInv
<1> QED
  BY <1>1, PluginInvariance, PTL

\* What the budget of a read adds to the droprate is at most one loss, and only
\* when there is no time left, whatever the budget, the timeout and PingCount; all
\* other losses are failed handshakes, and while there is time left PingCount of
\* them were attempted (read_cb).
THEOREM OneLossAtMost == Spec => InventsAtMostOneLoss
PROOF
<1> DEFINE OneLoss ==
      pc = "ping" /\ pc' = "host" /\ addrs # << >>
        => \/ left <= 0 /\ droprate' = <<"nan">> /\ reported' = "nan"
           \/ /\ droprate'[1] = dropped + cut
              /\ cut = 0 \/ (cut = 1 /\ left <= 0)
              /\ left > 0 => droprate'[2] = ping_count
              /\ reported' = "nan" <=> droprate'[1] = droprate'[2]
<1>1. PInv /\ [Next]_vars => [OneLoss]_vars
  <2> SUFFICES ASSUME PInv, Next, pc = "ping", pc' = "host", addrs # << >>
               PROVE  \/ left <= 0 /\ droprate' = <<"nan">> /\ reported' = "nan"
                      \/ /\ droprate'[1] = dropped + cut
                         /\ cut = 0 \/ (cut = 1 /\ left <= 0)
                         /\ left > 0 => droprate'[2] = ping_count
                         /\ reported' = "nan" <=> droprate'[1] = droprate'[2]
    OBVIOUS
  <2>1. Report
    BY DEF Next, Configure, ConfigCb, InitCb, ReadCb, StartRead, EndRead, Resolve,
       ResolveRaises, Ping, PingRaises
  <2>2. /\ attempts \in Nat /\ samples \in Nat /\ dropped \in Nat /\ cut \in Nat
        /\ samples + dropped + cut = attempts /\ left \in Int
        /\ cut = 0 \/ (cut = 1 /\ left <= 0)
    BY SettingsAssumption DEF PInv, TypeOK, Reading, ValidPingCounts
  <2>3. reported' = IF samples = 0 THEN "nan" ELSE aggregate
    BY <2>1 DEF Report, Reported
  <2>4. left > 0 => attempts = ping_count /\ attempts # 0
    <3>1. ping_count # 0
      BY SettingsAssumption DEF PInv, TypeOK, ValidPingCounts
    <3> QED
      BY <2>1, <2>2, <3>1 DEF Report, PingsOver
  <2>5. CASE attempts = 0
    BY <2>1, <2>2, <2>3, <2>4, <2>5 DEF Report, Droprate
  <2>6. CASE attempts # 0
    <3>1. droprate'[1] = attempts - samples /\ droprate'[2] = attempts
      BY <2>1, <2>6 DEF Report, Droprate
    <3>2. aggregate # "nan"
      BY DEF PInv, TypeOK, Aggregates
    <3> QED
      BY <2>2, <2>3, <2>4, <3>1, <3>2
  <2> QED
    BY <2>5, <2>6
<1> QED
  BY <1>1, PluginInvariance, PTL DEF Spec, InventsAtMostOneLoss

\* Of two hosts that report under one name, the later is listed with the first
\* of that name, and the first with the later.
LEMMA CollisionIsListed ==
  ASSUME ConfigTyped, NEW i \in DOMAIN hosts, NEW j \in DOMAIN hosts, i # j,
         SeriesLabel(hosts[i]) = SeriesLabel(hosts[j])
  PROVE  \E pair \in LabelCollisions : hosts[i].raw \in {pair[1], pair[2]}
PROOF
<1>1. DOMAIN hosts = 1 .. Len(hosts) /\ Len(hosts) \in Nat
  BY DEF ConfigTyped
<1>2. ASSUME NEW k \in DOMAIN hosts
      PROVE  /\ k \in Seen(k) /\ Seen(k) \subseteq DOMAIN hosts /\ Seen(k) \in SUBSET Nat
             /\ Min(Seen(k)) \in Seen(k) /\ \A l \in Seen(k) : Min(Seen(k)) <= l
  <2>1. k \in Seen(k) /\ Seen(k) \subseteq DOMAIN hosts /\ Seen(k) \in SUBSET Nat
    BY <1>1 DEF Seen
  <2> QED
    BY <2>1, MinProperty
<1>3. ASSUME NEW k \in DOMAIN hosts, Min(Seen(k)) # k
      PROVE  <<hosts[k].raw, hosts[Min(Seen(k))].raw>> \in LabelCollisions
  <2>1. Min(Seen(k)) \in DOMAIN hosts
    BY <1>2
  <2>2. hosts[Min(Seen(k))].raw # hosts[k].raw
    BY <1>3, <2>1 DEF ConfigTyped
  <2> QED
    BY <2>2 DEF LabelCollisions
<1>4. CASE Min(Seen(i)) # i
  <2> DEFINE pair == <<hosts[i].raw, hosts[Min(Seen(i))].raw>>
  <2>1. pair \in LabelCollisions /\ hosts[i].raw \in {pair[1], pair[2]}
    BY <1>3, <1>4
  <2> QED
    BY <2>1
<1>5. CASE Min(Seen(i)) = i
  <2>1. j \notin 1..i
    <3>1. j \in 1..i => j \in Seen(i)
      BY DEF Seen
    <3> QED
      BY <1>1, <1>2, <1>5, <3>1
  <2>2. i \in Seen(j)
    BY <1>1, <2>1 DEF Seen
  <2>3. Min(Seen(j)) = i
    <3>1. Min(Seen(j)) <= i /\ Min(Seen(j)) \in DOMAIN hosts
      BY <1>2, <2>2
    <3>2. SeriesLabel(hosts[Min(Seen(j))]) = SeriesLabel(hosts[i])
      BY <1>2 DEF Seen
    <3>3. Min(Seen(j)) \in Seen(i)
      BY <1>1, <3>1, <3>2 DEF Seen
    <3>4. i <= Min(Seen(j))
      BY <1>2, <1>5, <3>3
    <3> QED
      BY <1>1, <3>1, <3>4
  <2> DEFINE pair == <<hosts[j].raw, hosts[Min(Seen(j))].raw>>
  <2>4. pair \in LabelCollisions
    BY <1>3, <2>3
  <2>5. hosts[i].raw \in {pair[1], pair[2]}
    BY <2>3
  <2> QED
    BY <2>4, <2>5
<1> QED
  BY <1>4, <1>5

\* Of hosts that report under one name, each is named in a warning at startup,
\* however many they are and whatever their names (_warn_on_label_collisions).
THEOREM CollisionsWarned == Spec => []EveryCollisionIsWarned
PROOF
<1>1. PInv => EveryCollisionIsWarned
  <2> SUFFICES ASSUME PInv, Configured, NEW i \in DOMAIN hosts, NEW j \in DOMAIN hosts,
                      i # j, SeriesLabel(hosts[i]) = SeriesLabel(hosts[j])
               PROVE  \E pair \in warned : hosts[i].raw \in {pair[1], pair[2]}
    BY DEF EveryCollisionIsWarned
  <2> QED
    BY CollisionIsListed DEF PInv, ConfigTyped
<1> QED
  BY <1>1, PluginInvariance, PTL

\* A read of one target leaves the address and the failures of every other
\* target alone, also of one that reports under the same name (_addr_state).
THEOREM TargetsApart == Spec => TargetsRotateApart
PROOF
<1> DEFINE Apart ==
      \A i \in Hosts :
        pc \in {"host", "ping"} /\ host \in Hosts /\ Target(hosts[i]) # Target(hosts[host])
          => UNCHANGED <<selected[StateKey(hosts[i])], failures[StateKey(hosts[i])]>>
<1>1. PInv /\ [Next]_vars => [Apart]_vars
  <2> SUFFICES ASSUME PInv, Next, NEW i \in Hosts, pc \in {"host", "ping"}, host \in Hosts,
                      Target(hosts[i]) # Target(hosts[host])
               PROVE  UNCHANGED <<selected[StateKey(hosts[i])], failures[StateKey(hosts[i])]>>
    OBVIOUS
  <2> DEFINE k == StateKey(hosts[i])
  <2>1. UNCHANGED <<hosts, default_port>>
    BY DEF Next, Configure, ConfigCb, InitCb, ReadCb, StartRead, EndRead, Resolve,
       ResolveRaises, Ping, PingRaises, Report, config, settings
  <2>2. k' = k /\ k # Key /\ k \in Keys
    BY <2>1 DEF StateKey, Target, Port, Key, Keys
  <2>3. selected \in [Keys -> Addr \cup {NoAddr}] /\ failures \in [Keys -> 0..MaxCount]
    BY DEF PInv, TypeOK, Configured
  <2> HIDE DEF k
  <2>4. selected'[k] = selected[k] /\ failures'[k] = failures[k]
    <3>1. CASE Resolve
      BY <2>2, <2>3, <3>1 DEF Resolve
    <3>2. CASE Report
      BY <2>2, <2>3, <3>2 DEF Report, RecordOutcome, state
    <3>3. CASE ~ Resolve /\ ~ Report
      BY <3>3 DEF Next, Configure, ConfigCb, InitCb, ReadCb, StartRead, EndRead,
         ResolveRaises, Ping, PingRaises, state
    <3> QED
      BY <3>1, <3>2, <3>3
  <2> QED
    BY <2>2, <2>4 DEF k
<1> QED
  BY <1>1, PluginInvariance, PTL DEF Spec, TargetsRotateApart

-----------------------------------------------------------------------------

\* The failures counted are no more than the reads without a sample.
CountsMisses ==
  Configured => \A k \in Keys : k \in Targets /\ failures[k] <= missed[k] + starved[k]

\* What the end of a host's samples does to the counts of its target.
LEMMA ReportStep ==
  ASSUME PInv, CountsMisses, Report
  PROVE  /\ Key \in Keys /\ Key \in Targets /\ failures'[Key] <= missed'[Key] + starved'[Key]
         /\ selected'[Key] # selected[Key] =>
              samples = 0 /\ missed[Key] + starved[Key] >= MaxCount
         /\ \A k \in Keys : k # Key => /\ failures'[k] = failures[k] /\ missed'[k] = missed[k]
                                      /\ starved'[k] = starved[k] /\ selected'[k] = selected[k]
PROOF
<1> USE DEF PInv
<1>1. /\ pc = "ping" /\ Configured /\ host \in Hosts /\ Key = Target(hosts[host])
      /\ Key \in Keys /\ Key \in Targets
  BY DEF Report, Reading, Configured, Key, Keys, Targets, StateKey
<1>2. /\ failures \in [Keys -> 0..MaxCount] /\ selected \in [Keys -> Addr \cup {NoAddr}]
      /\ missed \in [Targets -> 0..MaxCount] /\ starved \in [Targets -> 0..MaxCount]
  BY <1>1 DEF TypeOK
<1>3. MaxCount \in Nat /\ RotateAfter = MaxCount + 1
  BY MaxCountType
<1>4. /\ failures[Key] \in 0..MaxCount /\ missed[Key] \in 0..MaxCount
      /\ starved[Key] \in 0..MaxCount /\ failures[Key] <= missed[Key] + starved[Key]
  BY <1>1, <1>2 DEF CountsMisses
<1>5. \A n \in 0..MaxCount : Min({n + 1, MaxCount}) = IF n = MaxCount THEN n ELSE n + 1
  BY <1>3, MinOfTwoInts
<1> DEFINE over == samples > 0 \/ selected' # selected
           more(n) == IF over THEN 0 ELSE Min({n + 1, MaxCount})
<1>6. /\ missed' = [missed EXCEPT ![Key] = IF over \/ dropped > 0 THEN more(@) ELSE @]
      /\ starved' = [starved EXCEPT ![Key] =
                       IF over \/ (addrs # << >> /\ dropped = 0) THEN more(@) ELSE @]
  BY <1>1 DEF Report
<1>7. CASE addrs = << >>
  <2>1. samples = 0 /\ dropped = 0
    BY <1>1, <1>7 DEF Reading
  <2>2. UNCHANGED <<selected, failures>>
    BY <1>7 DEF Report, RecordOutcome, state
  <2>3. missed' = missed /\ starved' = starved
    BY <1>2, <1>6, <1>7, <2>1, <2>2
  <2> QED
    BY <1>1, <1>4, <2>2, <2>3
<1>8. CASE addrs # << >>
  <2> DEFINE count == failures[Key] + 1
             rotates == samples = 0 /\ count >= RotateAfter /\ Len(addrs) >= 2
  <2>1. /\ failures' = [failures EXCEPT ![Key] =
                          IF samples > 0 THEN 0
                          ELSE IF rotates THEN 0 ELSE Min({count, MaxCount})]
        /\ selected' = IF rotates
                       THEN [selected EXCEPT ![Key] = NextInOrder(addrs, @)]
                       ELSE selected
    BY <1>8 DEF Report, RecordOutcome, AfterSuccess
  <2>2. dropped \in Nat /\ samples \in Nat
    BY DEF Reading
  <2>3. /\ failures'[Key] = IF samples > 0 \/ rotates THEN 0 ELSE Min({count, MaxCount})
        /\ missed'[Key] = IF over \/ dropped > 0 THEN more(missed[Key]) ELSE missed[Key]
        /\ starved'[Key] = IF over \/ dropped = 0 THEN more(starved[Key]) ELSE starved[Key]
    BY <1>1, <1>2, <1>6, <1>8, <2>1
  <2>4. \A k \in Keys : k # Key => /\ failures'[k] = failures[k] /\ missed'[k] = missed[k]
                                  /\ starved'[k] = starved[k] /\ selected'[k] = selected[k]
    <3>1. ASSUME NEW k \in Keys, k # Key PROVE k \in Targets
      BY <1>1 DEF CountsMisses
    <3> QED
      BY <1>2, <1>6, <2>1, <3>1
  <2>5. CASE over
    <3>1. samples > 0 \/ rotates
      BY <2>1, <2>5
    <3>2. failures'[Key] = 0 /\ missed'[Key] = 0 /\ starved'[Key] = 0
      BY <2>3, <2>5, <3>1
    <3>3. rotates => missed[Key] + starved[Key] >= MaxCount
      BY <1>3, <1>4
    <3>4. selected'[Key] # selected[Key] => rotates
      BY <2>1
    <3> QED
      BY <1>1, <2>4, <3>2, <3>3, <3>4
  <2>6. CASE ~ over
    <3> DEFINE m == missed[Key]
               s == starved[Key]
               f == failures[Key]
               next(n) == IF n = MaxCount THEN n ELSE n + 1
    <3>1. failures'[Key] = 0 \/ failures'[Key] = next(f)
      BY <1>4, <1>5, <2>3
    <3>2. \/ missed'[Key] = next(m) /\ starved'[Key] = s
          \/ missed'[Key] = m /\ starved'[Key] = next(s)
      BY <1>4, <1>5, <2>2, <2>3, <2>6
    <3>3. m \in 0..MaxCount /\ s \in 0..MaxCount /\ f \in 0..MaxCount /\ f <= m + s
      BY <1>4
    <3> HIDE DEF m, s, f
    <3>4. failures'[Key] <= missed'[Key] + starved'[Key]
      BY <1>3, <3>1, <3>2, <3>3
    <3>5. selected'[Key] = selected[Key]
      BY <2>6
    <3> QED
      BY <1>1, <2>4, <3>4, <3>5
  <2> QED
    BY <2>5, <2>6
<1> QED
  BY <1>7, <1>8

\* The counts stay together from any step to the next.
LEMMA CountsMissesStep == PInv /\ CountsMisses /\ [Next]_vars => CountsMisses'
PROOF
<1> SUFFICES ASSUME PInv, CountsMisses, [Next]_vars PROVE CountsMisses'
  OBVIOUS
<1>1. CASE Configure
  <2>1. CASE ConfigCb
    BY <2>1 DEF ConfigCb, CountsMisses, Configured
  <2>2. CASE InitCb /\ ~ ConfigCb
    <3>1. /\ failures' = [k \in Keys |-> 0] /\ missed' = [t \in Targets |-> 0]
          /\ starved' = [t \in Targets |-> 0]
          /\ UNCHANGED <<hosts, default_port>>
      BY <1>1, <2>2 DEF Configure, InitCb, settings
    <3>2. Keys' = Keys /\ Targets' = Targets /\ Keys \subseteq Targets
      BY <3>1 DEF Keys, Targets, Hosts, StateKey, Target, Port
    <3> QED
      BY <3>1, <3>2 DEF CountsMisses
  <2> QED
    BY <1>1, <2>1, <2>2 DEF Configure
<1>2. CASE ~ Configure
  <2>1. Keys' = Keys /\ Targets' = Targets /\ Configured' = Configured
    <3>1. UNCHANGED <<hosts, default_port>> /\ Configured' = Configured
      BY <1>2 DEF Next, ReadCb, StartRead, EndRead, Resolve, ResolveRaises, Ping,
         PingRaises, Report, config, settings, vars, Configured
    <3> QED
      BY <3>1 DEF Keys, Targets, Hosts, StateKey, Target, Port
  <2>2. CASE Report
    BY <2>1, <2>2, ReportStep DEF CountsMisses
  <2>3. CASE ~ Report
    <3>1. UNCHANGED <<failures, missed, starved>>
      BY <1>2, <2>3 DEF Next, ReadCb, StartRead, EndRead, Resolve, ResolveRaises, Ping,
         PingRaises, state, history, vars
    <3> QED
      BY <2>1, <3>1 DEF CountsMisses
  <2> QED
    BY <2>2, <2>3
<1> QED
  BY <1>1, <1>2

\* The plugin turns away from an address only after RotateAfter reads of its
\* target in a row without a sample, this one included, whatever is configured
\* and whatever the resolver answers (_record_outcome).
THEOREM TurnsAfterARun == Spec => RotatesOnlyAfterARun
PROOF
<1> DEFINE AfterARun ==
      pc = "ping" => \A t \in Targets :
        Turns(t) => samples = 0 /\ missed[t] + starved[t] >= MaxCount
<1>1. Init => CountsMisses
  BY DEF Init, ConfigInit, CountsMisses, Configured
<1>2. PInv /\ CountsMisses /\ [Next]_vars => [AfterARun]_vars
  <2> SUFFICES ASSUME PInv, CountsMisses, Next, pc = "ping", NEW t \in Targets, Turns(t)
               PROVE  samples = 0 /\ missed[t] + starved[t] >= MaxCount
    OBVIOUS
  <2>1. PICK i \in Hosts :
          Target(hosts[i]) = t /\ selected'[StateKey(hosts[i])] # selected[StateKey(hosts[i])]
    BY DEF Turns
  <2>2. StateKey(hosts[i]) \in Keys /\ StateKey(hosts[i]) = t
    BY <2>1 DEF Keys, StateKey
  <2>3. Report
    BY <2>1 DEF Next, Configure, ConfigCb, InitCb, ReadCb, StartRead, EndRead, Resolve,
       ResolveRaises, Ping, PingRaises, state
  <2>4. t = Key
    BY <2>1, <2>2, <2>3, ReportStep
  <2> QED
    BY <2>1, <2>2, <2>3, <2>4, ReportStep
<1> QED
  BY <1>1, <1>2, CountsMissesStep, PluginInvariance, PTL DEF Spec, RotatesOnlyAfterARun

-----------------------------------------------------------------------------
(* What is configured against what is written.                               *)

\* How far config_cb has come: the block it is in and the lines of that block it
\* has been through; the lines that count, those before which nothing in their
\* block raises; and those of them it has taken.
Block == Len(written) - Len(file) + 1
Cursor == IF file = << >> THEN 0 ELSE Len(written[Block]) - Len(file[1])
Past(p, block, cursor) == p[1] < block \/ (p[1] = block /\ p[2] <= cursor)
Counting == {p \in Lines : \A k \in 1 .. p[2] : ~ Unreadable(At(<<p[1], k>>))}
Done == {p \in Counting : Past(p, Block, Cursor)}

\* The file that is left is the rest of the block and the blocks after it.
FileIsTheRest ==
  /\ written \in Seq(Seq(Node))
  /\ Len(file) <= Len(written)
  /\ \A i \in 2 .. Len(file) : file[i] = written[Block - 1 + i]
  /\ file # << >> =>
       /\ Len(file[1]) <= Len(written[Block])
       /\ \A k \in 1 .. Len(file[1]) : file[1][k] = At(<<Block, Cursor + k>>)
       /\ \A k \in 1 .. Cursor : ~ Unreadable(At(<<Block, k>>))
  /\ Configured => file = << >>

\* The hosts and the settings are those of the lines so far.
ConfiguredSoFar ==
  /\ {hosts[i] : i \in DOMAIN hosts} =
       {Entry(At(p).values[1]) : p \in {q \in Done : At(q).key = "host"}}
  /\ Says(Done, "port", ValidPorts, DefaultPort, default_port)
  /\ Says(Done, "timeout", ValidTimeouts, DefaultTimeout, timeout)
  /\ Says(Done, "pingcount", ValidPingCounts, DefaultPingCount, ping_count)
  /\ Says(Done, "aggregate", Aggregates, "avg", aggregate)

WInv == FileIsTheRest /\ ConfiguredSoFar

\* One more line after all others: a setting follows it if it can.
LEMMA SaysStep ==
  ASSUME NEW done, NEW p \in Nat \X Nat, \A q \in done : Later(p, q) /\ ~ Later(q, p),
         NEW key, NEW valid, NEW default, NEW old, Says(done, key, valid, default, old)
  PROVE  Says(done \cup {p}, key, valid, default,
              IF At(p).key = key THEN Assigned(At(p), valid, old) ELSE old)
PROOF
<1> DEFINE those(lines) == {q \in lines : /\ At(q).key = key
                                         /\ At(q).values # << >> /\ At(q).values[1] \in valid}
           new == IF At(p).key = key THEN Assigned(At(p), valid, old) ELSE old
<1>1. \/ those(done) = {} /\ old = default
      \/ \E q \in those(done) : old = At(q).values[1] /\ \A r \in those(done) : ~ Later(r, q)
  BY DEF Says
<1>2. CASE p \in those({p})
  <2>1. new = At(p).values[1]
    BY <1>2 DEF Assigned
  <2>2. p \in those(done \cup {p}) /\ \A r \in those(done \cup {p}) : ~ Later(r, p)
    BY <1>2 DEF Later
  <2> QED
    BY <2>1, <2>2 DEF Says
<1>3. CASE p \notin those({p})
  <2>1. new = old
    BY <1>3 DEF Assigned
  <2>2. those(done \cup {p}) = those(done)
    BY <1>3
  <2> QED
    BY <1>1, <2>1, <2>2 DEF Says
<1> QED
  BY <1>2, <1>3

\* What is left of a sequence after its head.
LEMMA RestOf ==
  ASSUME NEW S, NEW s \in Seq(S), s # << >>
  PROVE  /\ Tail(s) \in Seq(S) /\ Len(s) \in Nat /\ Len(s) >= 1 /\ Len(Tail(s)) = Len(s) - 1
         /\ s[1] \in S /\ \A i \in 1 .. Len(s) - 1 : Tail(s)[i] = s[i + 1]
OBVIOUS

\* A sequence with another head.
LEMMA OtherHead ==
  ASSUME NEW S, NEW s \in Seq(S), s # << >>, NEW e \in S
  PROVE  LET t == <<e>> \o Tail(s)
         IN  /\ t # << >> /\ Len(t) = Len(s) /\ t[1] = e
             /\ \A i \in 2 .. Len(s) : t[i] = s[i]
PROOF
<1>1. /\ Tail(s) \in Seq(S) /\ Len(s) \in Nat /\ Len(s) >= 1 /\ Len(Tail(s)) = Len(s) - 1
      /\ \A i \in 1 .. Len(s) - 1 : Tail(s)[i] = s[i + 1]
  BY RestOf
<1>2. <<e>> \in Seq(S) /\ Len(<<e>>) = 1 /\ <<e>>[1] = e
  OBVIOUS
<1>3. /\ Len(<<e>> \o Tail(s)) = Len(s)
      /\ \A i \in 1 .. Len(s) : (<<e>> \o Tail(s))[i] = IF i <= 1 THEN <<e>>[i] ELSE Tail(s)[i - 1]
  BY <1>1, <1>2
<1> QED
  BY <1>1, <1>2, <1>3

\* The order of the lines of a file.
LEMMA NextPast ==
  ASSUME NEW b \in Nat, NEW c \in Nat, NEW q \in Nat \X Nat
  PROVE  /\ Past(q, b, c + 1) <=> Past(q, b, c) \/ q = <<b, c + 1>>
         /\ Past(q, b, c) => Later(<<b, c + 1>>, q) /\ ~ Later(q, <<b, c + 1>>)
PROOF
<1> PICK x \in Nat, y \in Nat : q = <<x, y>>
  OBVIOUS
<1> QED
  BY DEF Past, Later

\* The block config_cb is in, the line it is at, and the lines that count.
LEMMA Position ==
  ASSUME FileIsTheRest, ConfigTyped, file # << >>
  PROVE  /\ Len(file) \in Nat /\ Len(file) >= 1 /\ file[1] \in Seq(Node) /\ Len(file[1]) \in Nat
         /\ Block \in Nat /\ Block >= 1 /\ Block <= Len(written) /\ Len(written) \in Nat
         /\ written[Block] \in Seq(Node) /\ Len(written[Block]) \in Nat
         /\ Cursor \in Nat /\ Len(written[Block]) = Cursor + Len(file[1])
PROOF
<1>1. Len(file) \in Nat /\ Len(file) >= 1 /\ file[1] \in Seq(Node)
  BY RestOf DEF ConfigTyped
<1>2. Len(file[1]) \in Nat
  BY <1>1
<1>3. written \in Seq(Seq(Node)) /\ Len(written) \in Nat
  BY DEF FileIsTheRest
<1>4. Block \in Nat /\ Block >= 1 /\ Block <= Len(written)
  BY <1>1, <1>3 DEF Block, FileIsTheRest
<1>5. written[Block] \in Seq(Node)
  BY <1>3, <1>4
<1>6. Len(written[Block]) \in Nat
  BY <1>5
<1>7. Cursor = Len(written[Block]) - Len(file[1]) /\ Len(file[1]) <= Len(written[Block])
  BY DEF Cursor, FileIsTheRest
<1> QED
  BY <1>1, <1>2, <1>3, <1>4, <1>5, <1>6, <1>7

\* A line that counts is one of the file, and nothing in its block raises up to it.
LEMMA CountingProperty ==
  ASSUME written \in Seq(Seq(Node))
  PROVE  /\ \A q \in Counting : /\ q \in Nat \X Nat /\ q[1] \in 1 .. Len(written)
                             /\ q[2] \in 1 .. Len(written[q[1]])
                             /\ \A k \in 1 .. q[2] : ~ Unreadable(At(<<q[1], k>>))
         /\ \A b \in 1 .. Len(written) : \A c \in 1 .. Len(written[b]) :
              (\A k \in 1 .. c : ~ Unreadable(At(<<b, k>>))) => <<b, c>> \in Counting
PROOF
<1>1. /\ Len(written) \in Nat /\ DOMAIN written = 1 .. Len(written)
      /\ \A b \in 1 .. Len(written) : written[b] \in Seq(Node)
  OBVIOUS
<1>2. \A b \in 1 .. Len(written) : DOMAIN written[b] = 1 .. Len(written[b])
  BY <1>1
<1>3. ASSUME NEW q \in Counting
      PROVE  /\ q \in Nat \X Nat /\ q[1] \in 1 .. Len(written)
             /\ q[2] \in 1 .. Len(written[q[1]])
             /\ \A k \in 1 .. q[2] : ~ Unreadable(At(<<q[1], k>>))
  <2>1. PICK b \in DOMAIN written : q \in {b} \X DOMAIN written[b]
    BY DEF Counting, Lines
  <2>2. q[1] = b /\ q[2] \in 1 .. Len(written[b]) /\ q = <<q[1], q[2]>> /\ b \in 1 .. Len(written)
    BY <1>1, <1>2, <2>1
  <2>3. \A k \in 1 .. q[2] : ~ Unreadable(At(<<q[1], k>>))
    BY DEF Counting
  <2> QED
    BY <1>1, <2>2, <2>3
<1>4. ASSUME NEW b \in 1 .. Len(written), NEW c \in 1 .. Len(written[b]),
             \A k \in 1 .. c : ~ Unreadable(At(<<b, k>>))
      PROVE  <<b, c>> \in Counting
  <2>1. <<b, c>> \in {b} \X DOMAIN written[b]
    BY <1>2
  <2>2. b \in DOMAIN written
    BY <1>1
  <2>3. <<b, c>>[1] = b /\ <<b, c>>[2] = c
    OBVIOUS
  <2> QED
    BY <1>4, <2>1, <2>2, <2>3 DEF Counting, Lines
<1> QED
  BY <1>3, <1>4

\* A line that config_cb takes is one that counts, and the next one.
LEMMA TakenLine ==
  ASSUME FileIsTheRest, ConfigTyped, file # << >>, file[1] # << >>, ~ Raises(file[1][1]),
         file' = <<Tail(file[1])>> \o Tail(file), written' = written, Configured' = Configured
  PROVE  /\ FileIsTheRest'
         /\ At(<<Block, Cursor + 1>>) = file[1][1]
         /\ <<Block, Cursor + 1>> \in Nat \X Nat
         /\ \A q \in Done : Later(<<Block, Cursor + 1>>, q) /\ ~ Later(q, <<Block, Cursor + 1>>)
         /\ Done' = Done \cup {<<Block, Cursor + 1>>}
PROOF
<1>1. /\ Len(file) \in Nat /\ Len(file) >= 1 /\ file[1] \in Seq(Node) /\ Len(file[1]) \in Nat
      /\ Block \in Nat /\ Block >= 1 /\ Block <= Len(written) /\ Len(written) \in Nat
      /\ Cursor \in Nat /\ Len(written[Block]) = Cursor + Len(file[1])
  BY Position
<1>2. /\ Tail(file[1]) \in Seq(Node) /\ Len(file[1]) >= 1 /\ Len(Tail(file[1])) = Len(file[1]) - 1
      /\ \A i \in 1 .. Len(file[1]) - 1 : Tail(file[1])[i] = file[1][i + 1]
  BY <1>1, RestOf
<1>3. /\ file' # << >> /\ Len(file') = Len(file) /\ file'[1] = Tail(file[1])
      /\ \A i \in 2 .. Len(file) : file'[i] = file[i]
  BY <1>2, OtherHead DEF ConfigTyped
<1>4. /\ \A k \in 1 .. Len(file[1]) : file[1][k] = At(<<Block, Cursor + k>>)
      /\ \A k \in 1 .. Cursor : ~ Unreadable(At(<<Block, k>>))
      /\ written \in Seq(Seq(Node)) /\ Len(file) <= Len(written)
      /\ \A i \in 2 .. Len(file) : file[i] = written[Block - 1 + i]
      /\ ~ Configured
  BY DEF FileIsTheRest
<1>5. At(<<Block, Cursor + 1>>) = file[1][1]
  BY <1>1, <1>2, <1>4
<1>6. \A k \in 1 .. Cursor + 1 : ~ Unreadable(At(<<Block, k>>))
  <2>1. ~ Unreadable(At(<<Block, Cursor + 1>>))
    BY <1>5 DEF Raises, Unreadable
  <2>2. \A k \in 1 .. Cursor + 1 : k \in 1 .. Cursor \/ k = Cursor + 1
    BY <1>1
  <2> QED
    BY <1>4, <2>1, <2>2
<1>7. Block' = Block
  BY <1>3 DEF Block
<1>8. Cursor' = Cursor + 1
  <2>1. Cursor' = Len(written[Block]) - Len(Tail(file[1]))
    BY <1>3, <1>7 DEF Cursor
  <2>2. Cursor' = Len(written[Block]) - (Len(file[1]) - 1)
    BY <1>2, <2>1
  <2>3. Cursor' = (Cursor + Len(file[1])) - (Len(file[1]) - 1)
    BY <1>1, <2>2
  <2>4. \A c, f \in Nat : (c + f) - (f - 1) = c + 1
    OBVIOUS
  <2> QED
    BY <1>1, <2>3, <2>4
<1>9. Counting' = Counting
  BY DEF Counting, Lines, At, Unreadable
<1>10. <<Block, Cursor + 1>> \in Counting
  <2>1. Block \in 1 .. Len(written) /\ Cursor + 1 \in 1 .. Len(written[Block])
    BY <1>1, <1>2
  <2> QED
    BY <1>4, <1>6, <2>1, CountingProperty
<1>11. FileIsTheRest'
  <2>1. \A k \in 1 .. Len(file[1]) - 1 : file'[1][k] = At(<<Block, Cursor + 1 + k>>)
    <3> SUFFICES ASSUME NEW k \in 1 .. Len(file[1]) - 1
                 PROVE  file'[1][k] = At(<<Block, Cursor + 1 + k>>)
      OBVIOUS
    <3>1. k + 1 \in 1 .. Len(file[1]) /\ Cursor + (k + 1) = Cursor + 1 + k
      BY <1>1
    <3>2. file'[1][k] = file[1][k + 1]
      BY <1>2, <1>3
    <3> QED
      BY <1>4, <3>1, <3>2
  <2>2. Len(file'[1]) = Len(file[1]) - 1 /\ Len(file'[1]) <= Len(written[Block])
    BY <1>1, <1>2, <1>3
  <2> QED
    BY <1>3, <1>4, <1>6, <1>7, <1>8, <2>1, <2>2 DEF FileIsTheRest, At, Unreadable
<1>12. \A q \in Counting : q \in Nat \X Nat
  BY <1>4, CountingProperty
<1>13. \A q \in Done : Later(<<Block, Cursor + 1>>, q) /\ ~ Later(q, <<Block, Cursor + 1>>)
  BY <1>1, <1>12, NextPast DEF Done
<1>14. Done' = Done \cup {<<Block, Cursor + 1>>}
  <2>1. Done' = {q \in Counting : Past(q, Block, Cursor + 1)}
    BY <1>7, <1>8, <1>9 DEF Done, Past
  <2>2. \A q \in Counting : Past(q, Block, Cursor + 1) <=> Past(q, Block, Cursor) \/ q = <<Block, Cursor + 1>>
    BY <1>1, <1>12, NextPast
  <2> QED
    BY <1>10, <2>1, <2>2 DEF Done
<1>15. <<Block, Cursor + 1>> \in Nat \X Nat
  BY <1>1
<1> QED
  BY <1>5, <1>11, <1>13, <1>14, <1>15

\* Leaving a block, at its end or at an unreadable line, loses no line that counts.
LEMMA LeftBlock ==
  ASSUME FileIsTheRest, ConfigTyped, file # << >>, file[1] = << >> \/ Raises(file[1][1]),
         file' = Tail(file), written' = written, Configured' = Configured
  PROVE  FileIsTheRest' /\ Done' = Done
PROOF
<1>1. /\ Len(file) \in Nat /\ Len(file) >= 1 /\ file[1] \in Seq(Node) /\ Len(file[1]) \in Nat
      /\ Block \in Nat /\ Block >= 1 /\ Block <= Len(written) /\ Len(written) \in Nat
      /\ Cursor \in Nat /\ Len(written[Block]) = Cursor + Len(file[1])
  BY Position
<1>2. /\ \A k \in 1 .. Len(file[1]) : file[1][k] = At(<<Block, Cursor + k>>)
      /\ written \in Seq(Seq(Node)) /\ Len(file) <= Len(written)
      /\ \A i \in 2 .. Len(file) : file[i] = written[Block - 1 + i]
      /\ ~ Configured
  BY DEF FileIsTheRest
<1>3. /\ file' \in Seq(Seq(Node)) /\ Len(file') = Len(file) - 1
      /\ \A i \in 1 .. Len(file) - 1 : file'[i] = file[i + 1]
  BY RestOf DEF ConfigTyped
<1>4. Block' = Block + 1
  BY <1>1, <1>3 DEF Block
<1>5. \A i \in 1 .. Len(file) - 1 : file'[i] = written[Block + i]
  <2> SUFFICES ASSUME NEW i \in 1 .. Len(file) - 1 PROVE file[i + 1] = written[Block + i]
    BY <1>3
  <2>1. i + 1 \in 2 .. Len(file) /\ Block - 1 + (i + 1) = Block + i
    BY <1>1
  <2> QED
    BY <1>2, <2>1
<1>6. file' # << >> => /\ file'[1] = written[Block + 1] /\ file'[1] \in Seq(Node)
                       /\ Len(file'[1]) \in Nat
  <2> SUFFICES ASSUME file' # << >>
               PROVE  /\ file'[1] = written[Block + 1] /\ file'[1] \in Seq(Node)
                      /\ Len(file'[1]) \in Nat
    OBVIOUS
  <2>1. Len(file) - 1 >= 1 /\ file'[1] \in Seq(Node)
    BY <1>3, RestOf
  <2>2. 1 \in 1 .. Len(file) - 1
    BY <1>1, <2>1
  <2>3. Len(file'[1]) \in Nat
    BY <2>1
  <2> QED
    BY <1>5, <2>1, <2>2, <2>3
<1>7. Cursor' = 0
  BY <1>4, <1>6 DEF Cursor
<1>8. Counting' = Counting
  BY DEF Counting, Lines, At, Unreadable
<1>9. FileIsTheRest'
  <2>1. Len(file') <= Len(written)
    BY <1>1, <1>2, <1>3
  <2>2. \A i \in 2 .. Len(file') : file'[i] = written[Block + 1 - 1 + i]
    <3> SUFFICES ASSUME NEW i \in 2 .. Len(file) - 1
                 PROVE  file'[i] = written[Block + 1 - 1 + i]
      BY <1>3
    <3>1. i \in 1 .. Len(file) - 1 /\ Block + 1 - 1 + i = Block + i
      BY <1>1
    <3> QED
      BY <1>5, <3>1
  <2>3. file' # << >> => /\ Len(file'[1]) <= Len(written[Block + 1])
                         /\ \A k \in 1 .. Len(file'[1]) : file'[1][k] = At(<<Block + 1, 0 + k>>)
    BY <1>6 DEF At
  <2>4. \A k \in 1 .. 0 : ~ Unreadable(At(<<Block + 1, k>>))
    OBVIOUS
  <2>5. Len(file') <= Len(written') /\ (Configured' => file' = << >>)
    BY <1>2, <2>1
  <2>6. \A i \in 2 .. Len(file') : file'[i] = written'[Block' - 1 + i]
    BY <1>1, <1>4, <2>2
  <2>7. file' # << >> => /\ Len(file'[1]) <= Len(written'[Block'])
                         /\ \A k \in 1 .. Len(file'[1]) : file'[1][k] = At(<<Block, Cursor + k>>)'
    BY <1>4, <1>7, <2>3 DEF At
  <2>8. \A k \in 1 .. Cursor' : ~ Unreadable(At(<<Block, k>>))'
    BY <1>7, <2>4
  <2> QED
    BY <1>2, <2>5, <2>6, <2>7, <2>8 DEF FileIsTheRest
<1>10. ASSUME NEW q \in Counting, q[1] = Block
       PROVE  q[2] <= Cursor
  <2>1. /\ q[2] \in Nat /\ q[2] <= Len(written[Block])
        /\ \A k \in 1 .. q[2] : ~ Unreadable(At(<<Block, k>>))
    BY <1>1, <1>2, <1>10, CountingProperty
  <2>2. CASE file[1] = << >>
    BY <1>1, <2>1, <2>2
  <2>3. CASE file[1] # << >> /\ Raises(file[1][1])
    <3>1. Unreadable(At(<<Block, Cursor + 1>>))
      <4>1. Len(file[1]) >= 1
        BY <1>1, <2>3, RestOf
      <4>2. At(<<Block, Cursor + 1>>) = file[1][1]
        BY <1>1, <1>2, <4>1
      <4> QED
        BY <2>3, <4>2 DEF Raises, Unreadable
    <3>2. ~ (Cursor + 1 \in 1 .. q[2])
      BY <2>1, <3>1
    <3> QED
      BY <1>1, <2>1, <3>2
  <2> QED
    BY <2>2, <2>3
<1>11. Done' = Done
  <2>1. Done' = {q \in Counting : Past(q, Block + 1, 0)}
    BY <1>4, <1>7, <1>8 DEF Done, Past
  <2>2. ASSUME NEW q \in Counting
        PROVE  Past(q, Block + 1, 0) <=> Past(q, Block, Cursor)
    <3>1. q[1] \in Nat /\ q[2] \in Nat /\ q[2] >= 1
      BY <1>1, <1>2, CountingProperty
    <3> QED
      BY <1>1, <1>10, <3>1 DEF Past
  <2> QED
    BY <2>1, <2>2 DEF Done
<1> QED
  BY <1>9, <1>11

\* What config_cb makes of a line it takes.
LEMMA TakenNode ==
  ASSUME ConfigTyped, NEW node, ConfigNode(node)
  PROVE  /\ {hosts'[i] : i \in DOMAIN hosts'} =
              {hosts[i] : i \in DOMAIN hosts}
                \cup (IF node.key = "host" THEN {Entry(node.values[1])} ELSE {})
         /\ default_port' = IF node.key = "port" THEN Assigned(node, ValidPorts, default_port)
                            ELSE default_port
         /\ timeout' = IF node.key = "timeout" THEN Assigned(node, ValidTimeouts, timeout)
                       ELSE timeout
         /\ ping_count' = IF node.key = "pingcount"
                          THEN Assigned(node, ValidPingCounts, ping_count) ELSE ping_count
         /\ aggregate' = IF node.key = "aggregate" THEN Assigned(node, Aggregates, aggregate)
                         ELSE aggregate
PROOF
<1>1. /\ default_port' = IF node.key = "port" THEN Assigned(node, ValidPorts, default_port)
                         ELSE default_port
      /\ timeout' = IF node.key = "timeout" THEN Assigned(node, ValidTimeouts, timeout)
                    ELSE timeout
      /\ ping_count' = IF node.key = "pingcount"
                       THEN Assigned(node, ValidPingCounts, ping_count) ELSE ping_count
      /\ aggregate' = IF node.key = "aggregate" THEN Assigned(node, Aggregates, aggregate)
                      ELSE aggregate
  BY DEF ConfigNode, settings
<1>2. CASE node.key # "host"
  <2>1. hosts' = hosts
    BY <1>2 DEF ConfigNode
  <2> QED
    BY <1>1, <1>2, <2>1
<1>3. CASE node.key = "host"
  <2> DEFINE e == Entry(node.values[1])
  <2>1. hosts' = IF \E i \in DOMAIN hosts : hosts[i] = e THEN hosts ELSE Append(hosts, e)
    BY <1>3 DEF ConfigNode
  <2> HIDE DEF e
  <2> SUFFICES {hosts'[i] : i \in DOMAIN hosts'} = {hosts[i] : i \in DOMAIN hosts} \cup {e}
    BY <1>1, <1>3 DEF e
  <2>2. CASE \E i \in DOMAIN hosts : hosts[i] = e
    BY <2>1, <2>2
  <2>3. CASE ~ \E i \in DOMAIN hosts : hosts[i] = e
    <3>1. /\ Len(hosts) \in Nat /\ DOMAIN hosts = 1 .. Len(hosts)
          /\ DOMAIN hosts' = 1 .. Len(hosts) + 1 /\ hosts'[Len(hosts) + 1] = e
          /\ \A i \in 1 .. Len(hosts) : hosts'[i] = hosts[i]
      BY <2>1, <2>3 DEF ConfigTyped
    <3>2. 1 .. Len(hosts) + 1 = (1 .. Len(hosts)) \cup {Len(hosts) + 1}
      BY <3>1
    <3> QED
      BY <3>1, <3>2
  <2> QED
    BY <2>2, <2>3
<1> QED
  BY <1>2, <1>3

\* While the file is the same, so is what its lines say.
LEMMA SameFile ==
  ASSUME written' = written,
         Says(Done', "port", ValidPorts, DefaultPort, default_port'),
         Says(Done', "timeout", ValidTimeouts, DefaultTimeout, timeout'),
         Says(Done', "pingcount", ValidPingCounts, DefaultPingCount, ping_count'),
         Says(Done', "aggregate", Aggregates, "avg", aggregate'),
         {hosts'[i] : i \in DOMAIN hosts'} =
           {Entry(At(q).values[1]) : q \in {r \in Done' : At(r).key = "host"}}
  PROVE  ConfiguredSoFar'
PROOF
<1>1. Says(Done, "port", ValidPorts, DefaultPort, default_port)'
  BY DEF Says, At, Later
<1>2. Says(Done, "timeout", ValidTimeouts, DefaultTimeout, timeout)'
  BY DEF Says, At, Later
<1>3. Says(Done, "pingcount", ValidPingCounts, DefaultPingCount, ping_count)'
  BY DEF Says, At, Later
<1>4. Says(Done, "aggregate", Aggregates, "avg", aggregate)'
  BY DEF Says, At, Later
<1>5. ({hosts[i] : i \in DOMAIN hosts} =
         {Entry(At(q).values[1]) : q \in {r \in Done : At(r).key = "host"}})'
  BY DEF At
<1> QED
  BY <1>1, <1>2, <1>3, <1>4, <1>5 DEF ConfiguredSoFar

\* A call of config_cb, a line or the end of a block, preserves WInv.
LEMMA ConfiguredSoFarStep ==
  ASSUME PInv, WInv, ConfigCb
  PROVE  WInv'
PROOF
<1>1. /\ file # << >> /\ written' = written /\ Configured' = Configured /\ ~ Configured
      /\ FileIsTheRest /\ ConfigTyped /\ ConfiguredSoFar
  BY DEF ConfigCb, PInv, WInv, Configured
<1>2. CASE file[1] = << >> \/ Raises(file[1][1])
  <2>1. file' = Tail(file) /\ UNCHANGED <<hosts, settings>>
    BY <1>2 DEF ConfigCb
  <2>2. FileIsTheRest' /\ Done' = Done
    BY <1>1, <1>2, <2>1, LeftBlock
  <2>3. ConfiguredSoFar'
    <3>1. UNCHANGED <<hosts, default_port, timeout, ping_count, aggregate>>
      BY <2>1 DEF settings
    <3> QED
      BY <1>1, <2>2, <3>1, SameFile DEF ConfiguredSoFar
  <2> QED
    BY <2>2, <2>3 DEF WInv
<1>3. CASE file[1] # << >> /\ ~ Raises(file[1][1])
  <2> DEFINE p == <<Block, Cursor + 1>>
             node == file[1][1]
  <2>1. ConfigNode(node) /\ file' = <<Tail(file[1])>> \o Tail(file)
    BY <1>3 DEF ConfigCb
  <2>2. /\ FileIsTheRest' /\ At(p) = node /\ p \in Nat \X Nat
        /\ \A q \in Done : Later(p, q) /\ ~ Later(q, p)
        /\ Done' = Done \cup {p}
    BY <1>1, <1>3, <2>1, TakenLine
  <2>3. /\ {hosts'[i] : i \in DOMAIN hosts'} =
             {hosts[i] : i \in DOMAIN hosts}
               \cup (IF node.key = "host" THEN {Entry(node.values[1])} ELSE {})
        /\ default_port' = IF node.key = "port" THEN Assigned(node, ValidPorts, default_port)
                           ELSE default_port
        /\ timeout' = IF node.key = "timeout" THEN Assigned(node, ValidTimeouts, timeout)
                      ELSE timeout
        /\ ping_count' = IF node.key = "pingcount"
                         THEN Assigned(node, ValidPingCounts, ping_count) ELSE ping_count
        /\ aggregate' = IF node.key = "aggregate" THEN Assigned(node, Aggregates, aggregate)
                        ELSE aggregate
    BY <1>1, <2>1, TakenNode
  <2> HIDE DEF p, node
  <2>4. /\ Says(Done', "port", ValidPorts, DefaultPort, default_port')
        /\ Says(Done', "timeout", ValidTimeouts, DefaultTimeout, timeout')
        /\ Says(Done', "pingcount", ValidPingCounts, DefaultPingCount, ping_count')
        /\ Says(Done', "aggregate", Aggregates, "avg", aggregate')
    <3>1. Says(Done', "port", ValidPorts, DefaultPort, default_port')
      BY <1>1, <2>2, <2>3, SaysStep DEF ConfiguredSoFar
    <3>2. Says(Done', "timeout", ValidTimeouts, DefaultTimeout, timeout')
      BY <1>1, <2>2, <2>3, SaysStep DEF ConfiguredSoFar
    <3>3. Says(Done', "pingcount", ValidPingCounts, DefaultPingCount, ping_count')
      BY <1>1, <2>2, <2>3, SaysStep DEF ConfiguredSoFar
    <3>4. Says(Done', "aggregate", Aggregates, "avg", aggregate')
      BY <1>1, <2>2, <2>3, SaysStep DEF ConfiguredSoFar
    <3> QED
      BY <3>1, <3>2, <3>3, <3>4
  <2>5. {hosts'[i] : i \in DOMAIN hosts'} =
          {Entry(At(q).values[1]) : q \in {r \in Done' : At(r).key = "host"}}
    <3>1. {hosts[i] : i \in DOMAIN hosts} =
            {Entry(At(q).values[1]) : q \in {r \in Done : At(r).key = "host"}}
      BY <1>1 DEF ConfiguredSoFar
    <3>2. {r \in Done' : At(r).key = "host"} =
            {r \in Done : At(r).key = "host"} \cup (IF node.key = "host" THEN {p} ELSE {})
      BY <2>2
    <3> QED
      BY <2>2, <2>3, <3>1, <3>2
  <2>6. ConfiguredSoFar'
    BY <1>1, <2>4, <2>5, SameFile
  <2> QED
    BY <2>2, <2>6 DEF WInv
<1> QED
  BY <1>2, <1>3

\* The configuration follows the file, of every reachable state (config_cb).
LEMMA WrittenInvariance == Spec => []WInv
PROOF
<1>1. Init => WInv
  <2> SUFFICES ASSUME Init PROVE WInv
    OBVIOUS
  <2>1. /\ file = written /\ written \in Seq(Seq(Node)) /\ hosts = << >> /\ ~ Configured
        /\ default_port = DefaultPort /\ timeout = DefaultTimeout
        /\ ping_count = DefaultPingCount /\ aggregate = "avg"
    BY ConfigFilesAssumption DEF Init, ConfigInit, Configured
  <2>2. Len(written) \in Nat /\ Block = 1
    BY <2>1 DEF Block
  <2>3. file # << >> => written[1] \in Seq(Node) /\ Len(written[1]) \in Nat
    <3>1. file # << >> => written[1] \in Seq(Node)
      BY <2>1, RestOf
    <3> QED
      BY <3>1
  <2>4. Cursor = 0
    BY <2>1, <2>2, <2>3 DEF Cursor
  <2>5. FileIsTheRest
    BY <2>1, <2>2, <2>3, <2>4 DEF FileIsTheRest, At
  <2>6. Done = {}
    <3>1. \A q \in Counting : q[1] \in Nat /\ q[1] >= 1 /\ q[2] \in Nat /\ q[2] >= 1
      BY <2>1, <2>2, CountingProperty
    <3>2. \A q \in Counting : ~ Past(q, 1, 0)
      BY <3>1 DEF Past
    <3> QED
      BY <2>2, <2>4, <3>2 DEF Done
  <2>7. ConfiguredSoFar
    BY <2>1, <2>6 DEF ConfiguredSoFar, Says
  <2> QED
    BY <2>5, <2>7 DEF WInv
<1>2. PInv /\ WInv /\ [Next]_vars => WInv'
  <2> SUFFICES ASSUME PInv, WInv, [Next]_vars PROVE WInv'
    OBVIOUS
  <2>1. CASE ConfigCb
    BY <2>1, ConfiguredSoFarStep
  <2>2. CASE ~ ConfigCb
    <3>1. UNCHANGED <<file, hosts, settings, written>>
      BY <2>2 DEF Next, Configure, InitCb, ReadCb, StartRead, EndRead, Resolve,
         ResolveRaises, Ping, PingRaises, Report, config, vars
    <3>2. Configured' => file' = << >>
      BY <2>2, <3>1 DEF Next, Configure, InitCb, ReadCb, StartRead, EndRead, Resolve,
         ResolveRaises, Ping, PingRaises, Report, vars,
         WInv, FileIsTheRest, Configured
    <3>3. Block' = Block /\ Cursor' = Cursor /\ Counting' = Counting
      BY <3>1 DEF Block, Cursor, Counting, Lines, At, Unreadable
    <3>4. Done' = Done
      BY <3>3 DEF Done, Past
    <3>5. FileIsTheRest'
      BY <3>1, <3>2, <3>3 DEF WInv, FileIsTheRest, At, Unreadable
    <3>6. ConfiguredSoFar'
      BY <3>1, <3>4, SameFile DEF WInv, ConfiguredSoFar, settings
    <3> QED
      BY <3>5, <3>6 DEF WInv
  <2> QED
    BY <2>1, <2>2
<1> QED
  BY <1>1, <1>2, PluginInvariance, PTL DEF Spec

\* What a Host or an Aggregate without a value discards is the rest of its block,
\* and no more, whatever the file (config_cb, which collectd calls for each block).
THEOREM LosesOnlyTheRestOfABlock == Spec => [](Configured => ConfiguredBy(Counting))
PROOF
<1>1. PInv /\ WInv => (Configured => ConfiguredBy(Counting))
  <2> SUFFICES ASSUME PInv, WInv, Configured PROVE ConfiguredBy(Counting)
    OBVIOUS
  <2> DEFINE written_target(split) ==
               <<split[1], IF split[2] = NoPort THEN default_port ELSE split[2]>>
  <2>1. FileIsTheRest /\ ConfiguredSoFar /\ ConfigTyped /\ file = << >>
    BY DEF WInv, PInv, FileIsTheRest
  <2>2. Done = Counting
    <3>1. Len(written) \in Nat /\ Block = Len(written) + 1 /\ Cursor = 0
      BY <2>1 DEF FileIsTheRest, Block, Cursor
    <3>2. \A q \in Counting : q[1] \in Nat /\ q[1] <= Len(written)
      BY <2>1, <3>1, CountingProperty DEF FileIsTheRest
    <3> QED
      BY <3>1, <3>2 DEF Done, Past
  <2>3. \A raw : Target(Entry(raw)) = written_target(SplitHostPort(raw))
    BY DEF Target, Port, Entry
  <2>4. {Target(hosts[i]) : i \in DOMAIN hosts} =
          {written_target(SplitHostPort(At(p).values[1])) :
             p \in {q \in Counting : At(q).key = "host"}}
    <3>1. {hosts[i] : i \in DOMAIN hosts} =
            {Entry(At(p).values[1]) : p \in {q \in Counting : At(q).key = "host"}}
      BY <2>1, <2>2 DEF ConfiguredSoFar
    <3>2. {Target(hosts[i]) : i \in DOMAIN hosts} =
            {Target(e) : e \in {hosts[i] : i \in DOMAIN hosts}}
      OBVIOUS
    <3>3. {Target(e) : e \in {hosts[i] : i \in DOMAIN hosts}} =
            {Target(Entry(At(p).values[1])) : p \in {q \in Counting : At(q).key = "host"}}
      BY <3>1
    <3> QED
      BY <2>3, <3>2, <3>3
  <2> QED
    BY <2>1, <2>2, <2>4 DEF ConfiguredBy, ConfigTyped, ConfiguredSoFar
<1> QED
  BY <1>1, WrittenInvariance, PluginInvariance, PTL

\* So if every Host and Aggregate has a value, the plugin probes what the whole
\* file says, whatever the order of its lines and whatever else is wrong in it.
THEOREM ConfiguredAsWritten == Spec => []ProbesWhatIsWritten
PROOF
<1>1. WInv /\ (Configured => ConfiguredBy(Counting)) => ProbesWhatIsWritten
  <2> SUFFICES ASSUME WInv, \A p \in Lines : ~ Unreadable(At(p)) PROVE Counting = Lines
    BY DEF ProbesWhatIsWritten
  <2>1. written \in Seq(Seq(Node))
    BY DEF WInv, FileIsTheRest
  <2> SUFFICES ASSUME NEW p \in Lines, NEW k \in 1 .. p[2] PROVE <<p[1], k>> \in Lines
    BY DEF Counting
  <2>2. PICK b \in DOMAIN written : p \in {b} \X DOMAIN written[b]
    BY DEF Lines
  <2>3. written[b] \in Seq(Node) /\ p[1] = b /\ p[2] \in DOMAIN written[b]
    BY <2>1, <2>2
  <2>4. k \in DOMAIN written[b]
    BY <2>3
  <2> QED
    BY <2>2, <2>3, <2>4 DEF Lines
<1> QED
  BY <1>1, WrittenInvariance, LosesOnlyTheRestOfABlock, PTL

=============================================================================
