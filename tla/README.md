# wire-probe in TLA+

wire-probe measures the TCP handshake time to a host and exports one point per
interval to a metrics collector. This directory models the program, checks the
models with TLC and proves the main safety results with TLAPS.

## The system

| Part | Where | State it keeps | Operations | What makes it hard |
|---|---|---|---|---|
| Probe loop, address rotation | `src/src/main.rs` | address list, address in use, countdown to re-resolution | start, measure, rotate, export, sleep, exit | resolver, network and collectd change between any two blocking calls; fairness of the rotation |
| Handshake measurement | `src/src/probe.rs` | one socket | connect with timeout, read `TCP_INFO` | retransmitted SYN, a FIN before the read, a timeout racing the SYN-ACK, a short kernel struct |
| Collectd exporter | `src/src/exporter/collectd.rs` | a stream (or stdout) and one line | write a line, reconnect | partial writes, stalled or restarted collectd, a pipe that fills |
| Telegraf exporter | `src/src/exporter/telegraf.rs` | a connected UDP socket | send a datagram | the error of one datagram is reported by the next send |
| Accept server | `src/src/server.rs` | listening socket, one outstanding accept | accept and close, back off on errors | one accept in flight, EINTR, fd exhaustion, daemon restart |
| collectd plugin | `src/plugin/collectd/wire_probe.py` | hosts, settings, address and failure count of each target | configure, init, read within a budget | the budget cuts hosts and samples short; hosts share one thread, sometimes a target or a name; lines and blocks in any order |
| Command line | `src/src/cli.rs` | none | parse, sanitize, durations | boundaries of durations; names that hold a separator of the output |
| Time of a cycle | `src/src/main.rs` | stopwatch, a latched warning | measure, warn, sleep the rest | calls without a timeout; cycles longer than the interval |
| Installers and release | `install.sh`, `install-plugin.sh`, `release.yml` | files on disk, published assets | download, verify, replace | interruption between steps, concurrent publication |

How they interact: the probe calls the measurement, the resolver and an
exporter one after the other on one thread. The exporters talk to collectd or
Telegraf over a pipe, a Unix stream or UDP. A probe's (or the plugin's)
handshakes are what the server accepts and closes. systemd restarts the
server; collectd restarts an Exec probe and calls the plugin's `read`.


### What makes each part correct

- **Probe loop and rotation.** The probe always aims at an address of its
  current answers; leaves an answered address only after a full run of failures
  of that address; tries every answer before it returns to one, however the
  resolver orders them; reaches a working address; an Exec probe whose reader is
  gone exits, a socket probe goes on as long as its exports return.
- **Collectd Unix-socket exporter.** A line made of two points reaches collectd
  only over a stream whose reconnect was refused; a restart of collectd costs one
  point; whole lines flow again when collectd reads again; a send always comes
  back while collectd accepts.
- **Accept server.** Exactly one accept is outstanding; descriptors never pile
  up; signals and accept errors do not end the server; queued connections are
  served; whichever loop runs does the same.
- **Plugin read cycle.** The time budget holds up to one resolution, and adds at most
  one loss of its own to a droprate; a target's address is left only after a run of reads
  without a sample, though not always of reads of that address: one chosen because the old
  one vanished inherits its count. A working address is reached behind others, and no target's
  failures count for another.
- **Plugin configuration.** If every Host and Aggregate has a value, what is probed is
  what all lines of the file say, in any order; two hosts never share a series without a warning.
- **Handshake measurement.** The value reported is never less than the handshake
  took nor more than was waited, and is exact when no SYN was lost; a measurement
  comes back.
- **Time of a cycle, exporters, command line.** Measurements keep their distance;
  a cycle that outran the interval is warned of, and a stuck resolver stretches one in
  five at most; a line is one point of one series whatever the names; the interval
  announced is the one kept; Telegraf's errors cost no more points once it is back; an
  Exec probe blocked in a write exits when collectd goes away.
- **Installer, release.** Whatever is interrupted or runs at the same time, the
  installed binary is absent, old or new, never partial, and of a build whose
  digest was published; what a publish job put out that ran alone can be installed.
  (The plugin's installer is not modelled yet.)

## The modules

| Module | Models | Uses |
|---|---|---|
| `AddressRing` | `adopt`, and the choice of `apply_resolution` (`main.rs`), as operators on sets and sequences | |
| `Probe` | `run_probe`, `rotate_target`, `apply_resolution` and the environment | `AddressRing`; `INSTANCE TargetRotation` |
| `TargetRotation` | abstract: what a probe promises about the address it aims at | |
| `CollectdUds` | `CollectdExporter` on a Unix socket, and collectd at the other end | |
| `Server` | `server.rs`, the kernel's side of accept and io_uring, systemd's restart | `INSTANCE AcceptDrop` |
| `AcceptDrop` | abstract: connections are taken one at a time and dropped | |
| `Cli` | `parse`, `parse_duration`, `parse_export`, `sanitize`, and what `run_probe` derives from them | |
| `Cadence` | `Probe` in time, under a command line, with the transport of each exporter | `Probe`, `Cli` |
| `Wire` | the lines of the two formats, and what their readers make of them | `Cadence` |
| `PluginConfig` | `config_cb` and `init_cb` of the plugin | |
| `PluginRead` | `read_cb` of the plugin with its budget and rotation, after any configuration | `AddressRing`, `PluginConfig` |
| `Handshake` | `measure_rtt` over a connecting socket, its retransmission timer, the network and the server | |
| `Release` | the publish job of `release.yml` and the public assets | |
| `Install` | `install.sh` run by several shells during a publication | `Release` |
| `MCProbe`, `MCPluginRead`, `MCCadence` | bounded resolvers, configurations and command lines for TLC | the module they name (`MCCadence`: `Wire`) |
| `AddressRingProofs`, `ProbeProofs`, `CadenceProofs`, `CollectdUdsProofs`, `ServerProofs`, `HandshakeProofs`, `InstallProofs`, `PluginReadProofs` | theorems | the module they name (`CadenceProofs`: `Wire` too; `PluginReadProofs`: `PluginConfig` too), `TLAPS` |

### Probe

`pc` is the blocking call `run_probe` makes next: `resolve`, `exporter`
(`Exporter::new`), `measure`, `rotate` (`rotate_target`), `export`, `sleep`. Every
action is the code from one blocking call to the next, so the resolver
(`ZoneChanges`), the network (`NetworkChanges`) and collectd (`CollectdGoes`) act
between any two calls, which is all the concurrency a single-threaded process
meets. `addrs`, `current` and `failures_until_reresolve` are the locals of the
same names. `addrs` is a set, since `adopt` sorts and deduplicates; an answer of
the resolver is a sequence, whose order and repetitions count. A name that does
not resolve has the empty `zone`. `missed`, `tried` and `orphaned` are history:
no guard reads them. Not modelled here: the value of the measurement (it is
`Handshake`), and time and lines (they are `Cadence` and `Wire`). The target is resolved again after every run of failures (`RotateTarget`),
not only "once at startup" as README.md:130 has it, and when that resolver call
fails the selection stays where it is until the next run.

### Cli, Cadence, Wire

`args` is one command line: an optional flag is a sequence of at most one value, a
duration a number and its suffix, a name a sequence of kinds of characters, one for
each that `sanitize` or a line format tells apart. `Accepts` is every way `parse` does not
end the process. `Cadence` extends `Probe`: each of its actions is one of `Probe`'s with
what it does to the stopwatch (`elapsed`, `tick.elapsed()`), the latched warning
(`overran`), the Exec pipe (`pipe`) and the Telegraf socket (`sk_err`, the error of a
datagram, which its next call returns and clears). `Tick` is time, which passes only in
a blocking call: `connect` for at most `--timeout` and what a busy host adds (`Late`);
`getaddrinfo`, a full pipe and the Unix socket's reconnect for any time. `telegraf` is
`down` when its host answers a datagram with an error, which travels (`refused`) and may
be lost. `delayed` and `kept` are history. That an Exec probe whose collectd neither
reads nor exits stays in its write for ever is what README.md:366 says of it, and what
`Blocked` shows. A write that a pipe takes in part is one step here: no other write comes between.

`Wire` builds the line of the cycle, and reads it with a reader that knows only the
separators and cuts a text at the first of one (`Before`, `After`). A space, a comma and a
newline go by their names. Two things nothing in the repository promises are left out of
`EveryLineIsOnePoint`: an explicit empty `--target-name` or `--az` makes an empty tag, and
different names that `sanitize` maps to the same one report into one series.

### CollectdUds

A line is two pieces, a `head` and a `tail` with the newline: enough for a write
that is torn. `pc` is the place in `flush_line`: idle, in `write_all`, or in
`connect_uds`. `buf` and `peer` are the stream in use; a replaced stream is never
written again, so all that is kept of it is its place in collectd's accept
queue (`queued`), which is what can block the next `connect`. `Stop` closes the
listener and leaves accepted connections to their readers; `Exit` ends the process.
`left` is what of `self.buf` is unwritten, which `format_line` resets. The buffer
holds at least one line. A write that times out is taken to have found no room at
all; a partial write before it is the `Write` steps that came before. `stale` is
history: a torn line is on the stream and its reconnect was refused.

### Server

`pc` is the next system call of `run_blocking` or `run_io_uring`; `sq`, `armed`
and `cq` are where accepts of the ring are. One completion of the
`for cqe in &mut cq` loop is one step, with its close or backoff as the next one.
The errors of an accept are represented by one error that leaves the connection
queued (`EMFILE`), one that removes it (`ECONNABORTED`) and one the loop treats as
transient (`EAGAIN`). `Fail` is every `?` of the two functions: the process ends,
the kernel closes its descriptors, and systemd starts another. `table` is whether
the process can get a descriptor, which others on the host decide.

### PluginConfig and PluginRead

`file` is what is left to configure: a sequence of `<Module>` blocks, each a sequence of
lines, as collectd hands them to `config_cb` one block at a time. A Host value is a
sequence of tokens; `Numeral` is what `int()` makes of a text. A value that is no
number and one out of range do the same, so both are outside the valid set. A Host or an
Aggregate without a value raises an `IndexError`, and a Host that is no string an
`AttributeError`; both lose the rest of the block, and are one case here (`Raises`).
`ProbesWhatIsWritten` takes all lines of a file at their word and has as its premise that there is
no such line; what the repository says of one is `BadLinesAreOnlyWarnedOf`, which fails. `Timeout nan` passes the range checks and is a valid timeout of the model.
`written` is history. `InitCb` is the warning about names; collectd calls
`config_cb` and `init_cb` before any `read_cb`, so `read_cb`'s snapshot of the settings
against "a concurrent reload" (wire_probe.py:420) is not needed there, and a reload during a pass is not modelled.

A tick of `left` is a unit of `time.monotonic()`; a resolution takes up to
`ResolveTime` ticks, a connect up to its timeout. `selected` and `failures` are
`_addr_state`, a function of the state keys; `addrs` is the answer of this pass, a sequence,
as the code keeps it. `_rotation_order` does not deduplicate it: behind an address that is in
it twice comes the same address, so the rotation stays there (`NextInOrder`). The runs have such
answers, and that there are none is a premise of `WorkedPast`. The resolver gives any
answer of `Answer` or none, and a handshake has any outcome: a sample, a failure, or a timeout
that had been shortened to what was left of the budget (wire_probe.py:478), after which nothing
is known of the address. An exception that leaves `read_cb` ends
the pass: `ResolveRaises` is the `UnicodeError` of a name that cannot be encoded,
which is no `OSError`; `PingRaises` that of `socket.socket()` outside the `try`, or the
`ValueError` of `settimeout(nan)`. `droprate` keeps what was dispatched as the pair it is
computed from, `reported` and `stddev` whether there is a number and of what.
`dropped`, `cut`, `missed` and `starved` are history: of a host, the handshakes that failed and those
the deadline cut; of a target, which two hosts may share, the reads without a sample since its last
sample or turn, by whether a handshake failed in them or the deadline left time for none.
These counts and `failures` stop at `MaxCount`, one below a run, from where the next is a run.

### Handshake

`pc` is the place in `measure_rtt`: before the connect, in `connect_timeout`, before
`getsockopt`, done. Time is counted in ticks from `t0`. `ConnectOk` may come any time
after the handshake, which is the scheduling delay the stopwatch picks up and the
kernel does not; `elapsed` is that stopwatch. `flight` holds SYNs and SYN-ACKs with the time
of the SYN they come from, so a late answer to a first SYN, an answer to a
retransmitted one and both together are told apart. `Complete` is the
kernel's choice of a sample: with timestamps it may count from either, without them it
takes none after a retransmission. `info` is a `tcp_info` that is whole, short or refused; the
byte offsets and the milliseconds are layout. `_tcp_rtt` and `_kernel_rtt_ms` of the
plugin (`wire_probe.py:174-235`) follow the same rules with the same comments. `Again` starts the
next measurement; only the host's settings carry over. `MaxTime` stops the clock, not
the system.

### Release and Install

A build is a number and stands for an archive and its digest; `assets` says of which
build the public archive is and which one `SHA256SUMS` lists. `gh release create`
publishes at once (gh uploads to a draft first); `gh release upload --clobber`
deletes and uploads asset by asset, in any order, and may be cut short (`Abort`). It also
fills a release that was made by hand without assets. `uploading` is kept for each build's job:
`release.yml` has no concurrency group, so a job of a push and one started by hand for the same
tag can overlap and leave the archive of one build beside the sums of another for good. `disturbed`
is history: a job was cut short or ran beside another since one last began alone.
A first publication that is cut short is not modelled: what it leaves is up to gh.

In `Install`, `pc[p]` is the next command of the shell `p`. `staged[p]` is
`.wire-probe.<pid>` and outlives a killed run; a pid runs the script again and again,
which stands for pids that are reused. `cp` is two steps, between which the file is
`Part`; a file that was there keeps its mode, a new one gets 755 less the umask.
`CommandFails` is `die` or `set -e` at any command; `Kill` a signal, after which the
`EXIT` trap may or may not run (shells differ, and nothing runs after `SIGKILL`). Not modelled: power
loss, after which a rename without `fsync` promises nothing, and a script cut short in
the pipe to `sh`, but for a cut between two commands, which is a kill.

## The runs

The passing runs take from two seconds to a minute and a half; the largest is
`install` (610,000 states).

| Run | Question | Bounds |
|---|---|---|
| `probe` | rotation and countdown; a working address is reached, an orphan measures at most once, a socket probe whose exports return reports; `Probe` implements `TargetRotation` | 3 addresses, answers of up to 3 entries in any order with repetitions, run of 2 |
| `uds` | what a collectd that stalls, stops and comes back costs, and that whole lines flow again | buffer of 2.5 lines, accept queue of 2 |
| `server` | both loops under signals, failed calls, a full descriptor table and restarts; queued connections are served; `Server` implements `AcceptDrop` | accept queue of 3, submission queue of 2 |
| `handshake` | what is reported against what the handshake took | retransmission timeout of 2, timeout of 7, clock up to 9: two retransmissions, and a tick past the timeout |
| `install` | what is installed while runs are killed and a release is replaced, and that what a job published that ran alone can be installed | 2 shells, one with `INSECURE=1`, 2 builds, whose jobs may overlap |
| `cadence` | the time of a cycle, its warnings, lines, the announced interval; Telegraf recovers, an orphan exits | 15 command lines on both sides of every limit, a second of 3 ticks, timeouts of 1, 3 and 4, intervals of 1, 3 and 5, clock up to 6, run of 3, pipe of 2 lines, one datagram and one error under way |
| `plugin` | what is probed against what is written, budget, droprate, names, rotation states, rotation, a working address is reached | 6 configurations of up to 2 blocks, 2 samples, resolution of 2 ticks, timeout of 1 to 3, budget of 3, run of 2, 3 addresses and one of an unusable family, answers of up to 3 entries in any order, of which one may be repeated, one name that cannot be encoded |

Three addresses are what it takes for a rotation to oscillate between two and
miss one; two would always work. A run of 2 tells a run from a single failure; the
code's run of 5 is covered by the proofs. An odd socket buffer lets a write be torn
at the head; two places in a queue let it fill with replaced streams. A submission
queue of 2 lets a second accept be pushed by a mistaken loop and be seen. In
`plugin` the longest resolution and timeout reach the deadline in every
possible way: before a host, before a sample and inside one. In `handshake`, SYNs
leave at 0, 2 and 6, so answers overlap, are lost and arrive on either side of the
timeout. In `cadence`, the clock passes the longest interval by a tick, a timeout can
end before, at and after the interval, and the rounding of an interval to seconds is met
below half a second, above it and at a whole one. The
configurations of `plugin` are two targets with one name; two hosts of one target, in one block and
in two, where a later line makes them one, with duplicates and settings out of range or without a
value; every form of a Host value, and three hosts of one name; a `Timeout nan`, and a Host without
a value before a last line; and an empty file. In `install`, two shells are what one needs to meddle with the other's file,
and two builds what makes an archive and its sums disagree.

The remaining runs each check one statement of a document or a comment that the code
does not keep:

| Run | The statement | What the code does |
|---|---|---|
| `uds_torn_line` | collectd.rs:115-116: reconnecting after any write error discards the torn frame | when the reconnect is refused the torn stream stays, and a reader that outlived its listener reads half a line and a line as one |
| `uds_blocked_connect` | README.md:365: a stalled collectd is bounded by the write timeout | `connect` has none; replaced streams fill the accept queue of a collectd that stopped accepting |
| `plugin_slow_resolver` | wire_probe.py:463-464, 488-489: what was not attempted is not a loss | a pass without attempts is counted as a failure of the address, and so is one whose only connect the deadline cut |
| `plugin_bad_line` | wire_probe.py:291-294 and test_wire_probe.py:328: a bad value is only warned of and does not discard the rest of the block | an Aggregate or a Host without a value raises out of `config_cb`, and the rest of the block is lost |
| `plugin_unsupported_family` | wire_probe.py:84-86, 218: an unusable AAAA is worked past | the exception leaves `read_cb` before the failure is recorded, and the hosts after it are not read |

### Fairness

Only what the program or the host's scheduling gives is assumed.

- `Probe`: `WF(Returns)`, which is `Cycle` without an export to the Unix socket. The loop has
  no wait but blocking calls; the connect has a timeout, the sleep an end. That the resolver and
  the Exec pipe return is an assumption (neither has a timeout in the code). An export to the
  Unix socket may reconnect, which has none either (collectd.rs:145) and which
  `uds_blocked_connect` shows to block for ever: that these return is no assumption but a premise
  (`ExportsReturn`) of `SocketProbeKeepsReporting` and `ReachesAWorkingAddress`. `SendReturns`
  says when they do: while collectd accepts. Nothing is assumed of names, network, collectd or a respawn.
- `CollectdUds`: `WF(Send)` and `WF(FlushLine)`: the probe runs and the kernel reports
  a full buffer after the write timeout. `AcceptingSpec` adds a collectd whose main
  thread runs: it accepts, finishes stopping and is started again. Without it
  `SendReturns` fails (`uds_blocked_connect`). That readers do not stall is a
  premise of `DeliversAgain`, not an assumption of the specification.
- `Server`: `WF(Loop)`, `WF(Kernel)` (an accept that can complete does), `WF(Restart)`
  (`Restart=always` without a start limit). `QueuedIsServed` has as its premise that
  accepts stop failing and the process stays up.
- `Handshake`: `WF(Process)` (the process is scheduled some time) and
  `WF(Retransmit \/ Tick)` (time passes). The network and the server promise nothing.
- `Install`: `WF(Step(p))`: a script that runs goes on. That somebody runs it again, that
  nothing is interrupted any more, that the uploads have ended and that the last of them ran alone
  are premises of `ReleaseIsInstallable`.
- `Cadence`: `WF(Proceeds)`, `WF(Tick)`: the process runs, but for an export to the Unix socket,
  and time passes; `WF(DatagramEnds)`, `WF(ErrorEnds)`: nothing stays under way for ever. A
  resolver is assumed to return; nothing is assumed of collectd, which need not read the pipe, of Telegraf or of the target.
- `PluginRead`: `WF(Next)`: collectd starts the plugin, keeps calling
  `read_cb`, and calls in it return.

## What is proved

The theorems hold for every value of the constants the modules' assumptions
allow: any set of addresses (natural numbers, in the order of `SocketAddr`) and any
non-empty answers over them, any run length of at least one; any buffer that
holds a line; any queue sizes; any command lines and limits; any configuration files.

**Probe.** `ProbeProofs` proves `IInv` inductive. `EveryAnswerGetsItsTurn` alone
is not: that the next address has not been tried needs the shape of the sweep.
`IInv` says that the addresses given up form an arc of the ring that ends just
before the one in use: with each, every address from it up to `current` has been
given up too. `SweepStep` (`AddressRingProofs`) is the step of that argument: the
successor of `current` is outside the arc unless the arc is the whole ring, in
which case a new sweep starts; and the longer arc has the same shape. It rests on
`SuccessorProperty`, which rests on the existence of a least element of a set of
naturals. The countdown needs that `missed` is at least what it has counted, and
the exit needs that a measurement made with a closed pipe is followed by its
export. From `IInv` follow type correctness, `AimsAtAnAnswer`,
`EveryAnswerGetsItsTurn`, `CountdownIsARun`, `NoOrphanProbing`, the action property
`LeavesOnlyAfterARun`, and that `Probe` implements `TargetRotation`.

**Cadence.** `TimedLoopIsProbe`: every behaviour of the timed loop is one of `Probe`, so
`Probe`'s invariants hold of it; `CInv` builds on `IInv`. `Accounted`: the time of a
cycle is its connect's unless `delayed` says what else took it, and the sleep does not
pass the interval. `CountsStretches`: with a datagram exporter and a timeout below the
interval, `failures_until_reresolve` says how many cycles ago a resolver held one up, since it is
restored before `rotate_target` is called. `ExportAsGiven`: the exporter stays the one of the
command line. It gives `CadenceTypeOK`, that no connect lasts
longer than the longest timeout (`ConnectIsBounded`), `StretchesOneCycleInR`,
`NeverFloods`, `OverrunsAreWarnedOf`, and `AnnouncesItsRate`, from the bounds of a rounded
quotient. `TimedLoopImplementsTargetRotation` and `TimedLoopKeepsProbe` say of the timed loop
what `ProbeProofs` says of `Probe`: whatever the command line, however long a write was
blocked or a resolver stuck, it implements `TargetRotation` and keeps `Probe`'s invariants.

**Lines.** `EveryLineIsOnePoint`, for names of any length. A sanitized name holds no separator
(`SanitizedName`), a text put together holds the separators of its parts and no other
(`HoldsOfConcat`), and a cut at a separator gives back what was put on either side of it, when
what stands before holds none (`CutAt`). `PutvalIsRead` and `IlpIsRead` follow each cut of a
reader through the line, so they hold of any names without separators; `LabelsProperty` says
that those of a command line are, and `Measured` that a cycle at its export has an outcome. To keep
the prover from looking into concatenations, the proofs write them as `Then`, of which only the laws are used.

**CollectdUds.** `LossInv`: after a reconnect the stream is open, and empty but
for what the current send wrote, so that send cannot find it full or broken
while collectd stays as it is. It gives `TypeOK` and `LosesOnePointAtATime`.
`FrameInv`: unless the stream is stale, every head in the buffer is followed by its
tail, but for the last piece, whose line is being written or was torn, and a torn
one is left behind only by a refused reconnect, which makes the stream stale. It gives
`CorruptsOnlyAStaleStream` for every behaviour of collectd; the stronger
`NoCorruptLine` is false, as `uds_torn_line` shows.

**Server.** `RingInv`: the four places an accept can be add up to one, which loop
runs fixes the places it can be at, and a descriptor is held exactly while a
completed accept waits to be drained or its close is next. It gives `TypeOK`,
`OneOutstandingAccept`, `NoDescriptorKept`, `EndsOnlyOnAFailedCall` (a push cannot
fail, since the submission queue never holds two), and that every step is a step of
`AcceptDrop` or a stutter.

**Handshake.** `HInv`: whatever is under way was sent in the past, and at time 0 if
the SYN was sent once. So a sample without retransmission is the time the handshake
took, which is what `HasSample` lets through; and everything else is the stopwatch,
which was read after the handshake completed. It gives `TypeOK`,
`CoversTheHandshake` and `NoSchedulingNoise` for every timeout and retransmission
timeout.

**Install.** `InstallInv`: a shell past the check holds a listed build, since the sums it
saw were public; what it stages is what it holds, at 755 before the rename; and a
file in a shell that does not stage was left by a kill. It gives `TypeOK`,
`WholeAndExecutable`, `OnlyListedBuilds` and `OnlyAKillLeavesAFile` for any number of
shells and publications. That no two shells share a staging file, which `$$` gives,
is what the argument rests on.

**PluginRead.** `PInv`: no Host value is configured twice, so the first host of a name has a
value that every other host of that name differs from, which gives
`EveryCollisionIsWarned`; every attempt has succeeded, failed or been cut, and one that was cut is
the last of its host, with no time left, which gives `InventsAtMostOneLoss`; a sample loop is at an address of its answer, which keeps the
rotation among addresses; and time is left whenever a connect begins, which gives
`OverrunsOnlyByResolving` with the connect's timeout. `TargetsRotateApart` follows
because the state key is the target.

`TurnsAfterARun` is `RotatesOnlyAfterARun` for every behaviour: with any hosts, any of them sharing a
target, any answers and any resolver, an address is left only after a run of reads without a sample.
Its invariant `CountsMisses` is that `failures` never counts more than `missed` and `starved`
together. That `missed` alone is enough (`TurnsOnlyOnFailures`) is false, as
`plugin_slow_resolver` shows.

**PluginConfig.** `ConfiguredAsWritten` is `ProbesWhatIsWritten` for files of any number of blocks
and lines. It follows from `LosesOnlyTheRestOfABlock`, which is about every file: what is probed
is what the lines say before which nothing in their block raises (`Counting`), so
an exception costs the rest of its block and nothing of another. The property says what a file means by
the positions of its lines (`Later`), where the code goes through them one by one. `WInv` relates
the two: the file that is left is the rest of the one written (`FileIsTheRest`), and the hosts and
settings are those of the lines gone through (`ConfiguredSoFar`): one more line adds
its position, and nothing else, to what has been gone through.

**Model-checked only.** Every liveness property (proofs under fairness and `ENABLED`
are out of the prover's reach): `ReachesAWorkingAddress`, `OrphanExits`,
`SocketProbeKeepsReporting`, `DeliversAgain`, `SendReturns`, `QueuedIsServed`, `MeasureReturns`,
`ReleaseIsInstallable`, `TelegrafRecovers`, `WorkedPast`. Every safety property of the passing runs is
proved.

## Not modelled

- The plugin's installer (`install-plugin.sh`). It stages and renames the plugin as
  `install.sh` does the binary; of its own it has an example configuration that is downloaded
  straight to its final name (listed under `hazards`).
- The plugin's tests, which were read as a statement of what it is meant to do.
- In `release.yml`, what builds and tests; in `install.sh`, the choice of version and platform.
- The arithmetic of mean, deviation and milliseconds, the formatting of numbers, wording of logs
  and the banner, `print_help`; timestamps of points, and with them that a point that waited in a stalled Unix
  socket is stamped when collectd reads it (listed under `hazards`).
- Time at the server: what 50 ms between two failed accepts cost against a rate of probes.
- A partial write to the Exec pipe, power loss, a reload of collectd during a read.

## Plan

In the order the behaviour matters. The first twelve items are done.

1. `AddressRing`, `Probe`, `TargetRotation`: safety, liveness, refinement, proofs.
2. `CollectdUds`: framing, recovery, boundedness, proofs.
3. `Server`, `AcceptDrop`: the outstanding accept, descriptors, service, refinement, proofs.
4. `PluginRead`: budget, droprate, rotation.
5. `Handshake`: the reported value against the handshake's true time, proofs.
6. Disagreements with the documentation met on the way, as runs of their own.
7. `Release`, `Install`: interruption at every step and publication during a
   download; proofs.
8. `Cli`, `Cadence`, `Wire`: the command line, the time of a cycle, the three
   transports and the two line formats, composed with `Probe`; proofs.
9. `PluginConfig`, composed with `PluginRead`: targets that share a rotation state, names,
   several blocks in any order.
10. Proofs of the plugin: types, budget, droprate, names, rotation states.
11. Proofs of the rate, of the lines and of the timed loop's refinement (`CadenceProofs`).
12. Proofs of the configuration, and of the plugin's rotation (`PluginReadProofs`).
13. `PluginInstall`: interruption at every step; the example configuration; plugin and
    configuration of one revision.
14. `CollectdUds` composed with `Cadence`: its write timeout and reconnect in time, and
    the time stamps of points that wait.
15. `Probe` composed with `Server`: the accept queue, the backoff and the rate of probes.
