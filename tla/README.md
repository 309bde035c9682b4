# Verification of beep-revival

beep-revival turns a discontinued speaker dial into an open AirPlay, LMS and multi-room
speaker. This directory holds TLA+ models of its programs, TLC configurations
that check them on small instances, and TLAPS proofs. Paths below are relative
to the repository's `src/`; a bare `replaynet.c` is
`feed/replaynet/src/replaynet.c`.

To repeat a check: `tlc -config FanoutSafe.cfg MCFanout.tla`; to repeat the
proofs: `tlapm FanoutProofs.tla`. `PROJECT.json` lists the runs, the module and
lines each definition stands for, and, for each property, a plausible bug (a
*fault* operator in the module) that makes TLC refute it.

## 1. Inventory

### 1.1 The multi-room engine, replaynet (`replaynet.c`)

One daemon per speaker (`run_node`). It keeps a *claim* (which group it plays,
which it volunteers to source), gossips it by multicast once a second, and keeps
a table of the claims it hears. Twice a second a deterministic *consensus* over
the table decides whether this speaker is the source of a group. The daemon
forks two children: a *player* (`run_sink_alsa`), which accepts one source over
TCP and plays it on the DAC, and, while it is a source, a *fan-out*
(`run_fanout`), which reads PCM from a FIFO and streams it to every member of
the group, the daemon's own player included. `run_source` and `run_sink` are the
point-to-point forms of the two, for a file.

| part | state | operations | correct when |
|---|---|---|---|
| consensus | none (a function of the table) | `rn_assign_groups` | all nodes with the same information agree; a result is stable |
| node daemon | `self`, `peers`, `cur_ips`, timers | gossip, control commands, expiry, consensus, reaping | the member list is who asked lately; the household converges |
| fan-out | `sock`, `skips`, `pend`, control pipe | `+ip`, `-ip`, retry, pacing, send, exit | one stream per member asked for; members do not disturb one another; nobody is forgotten |
| source pacing | `pace_start`, `track_samples` | wait, read, reopen | no stall, no burst |
| wire | socket, `read_full`, `write_full`, headers | frame, split, parse, end | whole messages in order; an end is clean only if the source closed |
| clock lock | `inflight_t1`, estimator | PING, PONG, lock | the offset is within half a round trip; it never moves once locked; every sink gets that far |
| jitter buffer | `struct pcmring` | push, pop, drop | a bounded queue of frames |
| playout | `rx_next_src`, `played_src`, anchor | read, anchor, re-anchor, servo, period | the label the servo steers by is the true source index; a playout ends when its source is gone |
| resampler | window, position, step | feed, compact, pull, trim, snap | the sound is continuous |
| schedule servo | error, DAC delay | drop, insert | the room gets onto the common schedule and stays |
| transport codec | average, streak, codec | `rn_codec_decide` | no flapping |

They interact by messages (gossip and audio over a lossy network; commands over
a pipe), by process events (exit, SIGTERM, `waitpid`), and through the single
connection a player accepts. What is hard: a speaker that dies, returns, or
changes its mind while others still hold an older view; a table with fewer slots
than devices; a child that is gone before its parent knows; skipped chunks;
streams that are cut in the middle of a message; arithmetic at its edges.

### 1.2 The device

| part | state | operations | correct when |
|---|---|---|---|
| `beepd`, the dial (`feed/beepd`) | press and release counts, gesture fold, ladder of the ring | poll of the STM8, gestures | a gesture is the finger's, and the ring announced it |
| `beepd`, the ring | animation counter, flags read from files | frame, refresh | pictures in range and distinct; flags up to date |
| volume (`beepd`, `beep-action`, `beep-airplay-volume`, rpcd) | Master, volume file | turn, tap, AirPlay, watch, restart | the file follows Master |
| `beep-i2s` (`feed/beep-i2s`) | descriptor ring, `hw_idx`, stereo block, divider | open, hw_params, prepare, trigger, interrupt, hw_free | engine, handler and ALSA agree on every descriptor |
| Wi-Fi switch (`rpcd/beep`, `netcheck-loop`, `wifi-revert`, `wifi-setup-*`) | wireless config, snapshot, markers, setup AP | join, confirm, revert, fall back to AP | a device in its network is never thrown out of it, but by one race that is named; a failed join ends in the old network or the setup AP |
| audio ownership (`beep-source`, `beep-airplay-mode`, `beep-group`, rpcd) | which service runs and is enabled | AirPlay 1/2, LMS on/off, group | one owner of the speaker |
| firmware gate (`beep-action`, `beep-ota`, rpcd) | presence flag, image, verification | confirm, upload, verify, flash | nothing is flashed that was not verified in a confirmed window |
| temporary SSH (`rpcd/beep`, `netcheck-loop`) | setting, dropbear, expiry | enable, expire, reboot | the setting and the daemon agree |

These parts interact through files in `/tmp` and `/var/run`, UCI settings, init
scripts, ALSA controls and ubus calls, with no locks. What is hard: two scripts
in flight at once; a reboot between two steps; a poll that is lost; an interrupt
that is late; a timer of an earlier request acting on a later one.

## 2. Modules

### 2.1 The multi-room engine

| module | models | state → code |
|---|---|---|
| `Grouping` | `rn_assign_groups` 506–553 and its helpers | pure operators over a sequence of devices; each in-place loop is one operator |
| `GroupRules` | the three documented rules, as sets | the reference definition `Grouping` is checked against |
| `Node` | `run_node` 2055–2263 | `claim` = `self`, `peers` = `peers[]` with `last_seen` as an age, `cur` = `cur_ips`, `due` = the 500 ms consensus timer |
| `MCNode`, `MCGrouping` | histories and properties of one node; every configuration of three devices | `told` is a history variable: what each peer last said and when |
| `MCCluster` | the household | — |
| `Fanout`, `MCFanout` | `run_fanout` 961–1168, `fanout_try_add`, `fanout_remove`, `member_diff`, `spawn_fanout`, the reaping in `run_node` | `sock`, `skips`, `pend` are the arrays of the same names; `up` is the far end of a socket; `player` the child at the other end; `pc` the place in the loop; `cur`, `twice` = `cur_ips`, `unwritten` the commands the daemon has yet to `write()` |
| `Handshake` | the fan-out's pacing wait, its answers to PINGs, phase 1 of the player | `late`: the pacing target is in the past; `up`, `down`: what is in the sockets |
| `Pacing` | the pacing of `run_fanout` and `run_source`, with the width of the arithmetic | `paceStart`, `samples` = `pace_start`, `track_samples` |
| `Wire` | one connection of `run_fanout` or `run_source`: framing of chunks and PONGs, joins in mid-stream, skipped chunks, partial reads and writes, ends of a stream | a byte knows its message and its place in it; `buf` is what `read_full` has so far; `fanned`: which source; `track` = `track_samples`; `missed` is a history: frames of the track this peer was not sent since its last chunk |
| `Channel` | what the wire promises: whole messages in order | abstract specification |
| `Numbers` | `be*_put/get`, headers, `le16_*`, `pcm_host_to_le`, `cubic_q16`, `rn_drift_decide` | pure operators |
| `ClockSync` | lock phase of `run_sink_alsa`, `sink_handle_pong`, `source_answer_ping` | `now` is the sink's clock; `theta`, `bestRtt`, `samples` as in `struct clock_est` |
| `Codec` | `rn_codec_decide` 703–718 | `ema`, `clean`, `codec` = `ema_x1000`, `clean_chunks`, `group_codec` |
| `PcmRing` | `struct pcmring` 402–446, byte by byte | `rbuf`, `rhead`, `rcount` |
| `Fifo` | what it promises: a bounded queue | abstract specification |
| `Playout`, `MCPlayout` | `run_sink_alsa` 1575–1820 (drop/insert servo) with the part of `run_fanout` one sink sees | `ring` holds source indices, which the program does not know; `played` = `played_src` |
| `Resampler` | the `--resample` branch: `rn_rsmp_*`, 1813–1891 | `win`, `ri`, `frac`, `step` = the fields of `rs` |
| `Schedule` | the drop/insert servo as a closed loop with a DAC, a network and a feed of their own | `lag` is the schedule less `played_src`; `depth`, `queue` are the frames in the ring and in the DAC |
| `MCStreams` | the ten parts of a stream, one at a time | — |

`Node` EXTENDS `Grouping`: the consensus tick runs the modelled algorithm, not
an abstraction of it. `Node` and `Fanout` meet at the member list: what `Node`
puts in `cur` is what `Fanout` takes as a new member set. `Fanout` allows any
set, in any order, and, with `DupMembers`, a member named twice, which `Node`
produces when a stale second entry of a peer is in its table; so whatever holds
of `Fanout` holds for every sequence of member sets that `Node` can produce.
The parts of a stream meet in the same way: each takes from the one before it
whatever that one may give. `Wire` shows that a player sees whole messages in
order; `Playout` starts from whole messages, and loses chunks as `Fanout`'s slots
do; `Resampler` and `Schedule` start from a true label and from a ring that is a
queue, which `Playout` and `PcmRing` show.

### 2.2 The device

| module | models | state → code |
|---|---|---|
| `DmaRing` | the playback half of `beep-i2s.c` with the MBOX engine | `own` = the OWN bits, `hwIdx` = `hw_idx`; `pos` is the engine's descriptor; `filled` what ALSA believes unplayed |
| `Dial` | `beepd`'s loop, 545–675: counters, folding, ladder of the ring, requests of the v1 controller | times as ages in polls of 42 ms |
| `LedRing` | the animations 227–486, a detent's way to the arc | `frame` = `anim`; a picture is 24 brightnesses before the store to a byte |
| `RingFlags` | the refresh of `beepd`'s five flags from files that others truncate and rewrite | `copy` = `beepd`'s copy, `meant` what the last writer meant |
| `Volume` | Master, the file, the scripts that set one and then the other, `beepd`'s watch | `lastMaster`, `hold`, `pending` as in `main`; a script is two commands |
| `WifiSwitch` | `set_wifi`, `netcheck-loop`, `wifi-revert`, `wifi-setup-*`, the hold of the knob, reboots | `prev` = the snapshot directory, `joining` = the deadline in the marker, `rpc` and `wd` the place in each script, look by look; `cfg` is what `uci get` shows, `saved` what is committed, `live` what the radio runs |
| `AudioOwner` | `beep-airplay-mode`, `beep-group`, `beep-source`, `set_lms`, `set_group` | a script is the sequence of its commands, `todo`; `boots` = enabled, `runs` = running and as what |
| `MCDevice` | the seven parts, one at a time, and their properties | — |

In `MCStreams` and `MCDevice` the first variable (`stream`, `device`) picks, in
the initial state, the part whose behaviour this is; the other parts stay where
they start. The parts named there share no variable, so the behaviours of their
product show nothing that those of each part do not, and every property is about
one part. Where parts do share state they are one module: `Volume` has all
writers of the file, `WifiSwitch` both scripts and the radio, `DmaRing` engine,
handler and callbacks.

### 2.3 Abstractions

- *Nodes and addresses.* A node's id and its address stand for each other;
  "127.0.0.1" is the node itself. Ids are integers ordered as `strcmp` orders
  them; `NONE` is both "-1" (no group) and the empty id of an unused slot.
- *Time in `Node`* is counted in gossip periods. An age stops counting at
  `Grace`, beyond which the code does not distinguish. A datagram is heard at
  once or lost: since nothing repeats it and the next carries the current claim,
  a late datagram is a lost one followed by a later one, unless a claim
  overtakes the next from the same sender, which is not modelled.
- *A claim's timestamp* is 0 or 1: the code's voluntary claims carry the
  daemon's uptime, yet every daemon sets it to its own `now`, and only its
  comparison with that of a claim on the same group matters; `BecomeSource`
  claims the node's own id, so no two nodes volunteer for one group.
  `MCGrouping` varies timestamps freely.
- *Time in `Fanout`* does not appear: pacing may end at once, a retry may come
  at any pass, giving up may happen whenever a member is away. A chunk's bytes
  are not modelled, nor are partial writes: a slot takes a chunk or lags. (Bytes
  and partial writes are `Wire`'s.)
- *`Playout`*: a chunk (1152 frames) and an ALSA period (441) are the same unit
  of audio, since the label is counted in frames and only their order matters. What
  the clock and the DAC's fill level say is left open: the servo may drop any
  amount up to its step at any period above its floor, so the label is true
  whatever the schedule error is. `Schedule` closes that loop and leaves out the
  label. The same division holds between `Resampler`'s `Trim` and its error.
- *`Schedule`*: a step of the sink takes no time unless it blocks; host and
  network are rough (anything may stall) or calm, and calm may end at any time.
- *`ClockSync`*: clocks differ by a constant; drift over a lock phase of less
  than a second is below the rounding of the estimate.
- *`Numbers`*: widths are constants (a byte of 4 values, fractions of 16ths), so
  that TLC tries every value; nothing in the code depends on 256 or 65536 but
  through them.
- *`Dial`*: time in polls; two events within one poll have no order, as for the
  code, which sees counts.
- *`Volume`*: three levels for the ring's 25; `beepd`'s watch and its write of the
  file are two steps, a script's commands one each.
- *`DmaRing`*: one CPU, so callbacks do not interleave with the handler; the
  engine runs beside both and may complete any number of descriptors between two
  reads of the handler.
- *`WifiSwitch`*: a step is a command that reads or writes what another program
  writes or reads: each look of the watchdog (`mode`, `ap_up`, `sta_ok`, `joining`,
  `armed`), the keys of `set_wifi` (name, password and mode are one), the commit and
  the `wifi reload` of every script on their own. `uci get` sees what is staged, and a
  commit keeps what anybody has staged. Of the configuration only the wireless part
  is kept. A radio that does not start (`ensure_radio`) is left out.
- *`Wire`*: a fan-out may skip a chunk for a peer whenever the socket is not empty and
  send it whenever it is not full: when `poll` calls a socket writable is the kernel's.
- *`AudioOwner`*: services do what their configuration says when started; the
  `enable`/`start` of one service is one command.

## 3. Runs

| run | instance | shows | states |
|---|---|---|---|
| `NodeTable` | rules: 3 devices, 2 groups, 2 timestamps, 2 signals. Daemon: 2 peers, 2 slots, 2 commands | `OrderIndependent`: the in-place loops yield, in every order of the table, the result of the documented rules. `Stable`: a result is a fixed point. `WellFormed`: no group has two sources, none is silent that could have one. With slots reused: `MembersAskedRecently`, and a source listens to its own group; `LeaveUnlessStale` and `GraceUnlessEvicted`, what is left of two promises that do not hold as documented | 460 k |
| `NodeCluster` | 2 full daemons and a third node, 2 commands | `Converges`: fair gossip brings both daemons to the one right source and members | 94 k |
| `FanoutSafe` | 3 remotes, 3 slots, 2 member changes, 1 failure, doubles in the list, crashes | `OneConnection`, `Undisturbed` | 850 k |
| `FanoutLive` | 2 remotes, 3 slots, 3 changes, 1 failure | `OnlyAskedFor`; `Settles`, as long as there was no failure | 110 k |
| `Streams` | one source, one sink, ten parts | clock: `OffsetBound`, `Frozen`; buffer: `RingPromised`; codec: `NoFlapping`; playout and resampler: `LabelTrue`, `Seamless`, `Ends`; wire: `Promised`, `Contiguous`, `Ends`; handshake: `Starts`; arithmetic: `Arithmetic`; pacing: `Paced`; servo: `InSync` | 423 k |
| `Device` | seven parts | driver: `RingAgreed`, `Fed`, `StallReported`; dial: `Heard`, `NoPhantom`, `Armed`; ring: `Pictures`, `UpToDate`; volume: `FileTrue`; Wi-Fi: `AntiDeauth`, `Home`; speaker: `OneOwner` | 341 k |
| `FanoutForgotten`, `FanoutOrphan`, `PlayoutSkip`, `ResamplerStale`, `WifiStranded`, `DmaFreed` | the same parts | violations, section 6 | |

Every run of the first six also checks one type invariant. `RingPromised` and
`Promised` are refinements: the byte ring implements the queue of `Fifo`, and the
framed connection the channel of `Channel`, under the refinement mappings
`PcmRing!Queue` and `Wire!Promise`.

### 3.1 Bounds, and why they suffice

- `MaxCommands`, `MaxChanges`, `MaxFailures`, `MaxTrack`, `MaxEpoch`, `MaxTime`,
  `MaxSent`, `MaxIndex`, `MaxPings`, `MaxFrames`, `MaxEvents` bound
  counters that only grow. Each is large enough for the shortest scenario of
  its kind: for the node, become source, let a peer join and leave, restart; for
  the fan-out, start, replace one member by another, restart; for Wi-Fi, submit
  a network, a reboot or a second submission, a hold. `FanoutSafe` has two changes
  of the members, each of any size and with up to three members listed twice, and each
  written command by command; `FanoutLive` has three.
- `Slots` is 2 instead of 32: reuse, overflow and a stale second entry need one
  slot more than live peers, or one fewer; both happen with two.
- `FanoutMax` is 3 instead of 16 with four possible members (the loopback and
  three remotes): the table and the pending list are each full, in some run, while
  another member is added. `MaxSkips` is 1 instead of 500: a slot lags, recovers, and is dropped.
- `TTL` = 1 and `Grace` = 3 instead of 6 and 15 periods: live, expired within
  the grace period and forgotten stay distinct. `NodeCluster` leaves `Tick` out:
  convergence under gossip that is on time.
- `Playout` in units: `Buffer` 2, `RingMax` 3, `NetMax` 2: the ring overflows
  during the lock phase, is trimmed at start and upon a re-anchor, and runs dry.
- `ClockSync`: offset −3 (odd and negative, so that C's rounding shows), a lock
  of two samples, six ticks: a ping times out and its answer comes late.
- `PcmRing`: six bytes, chunks of two and four, so that copies wrap at every
  even place. The theorems have no bound.
- `Wire`: headers of two bytes and pieces of one: each piece is split at every
  place it can be; a socket holds four bytes, so writes are partial. `MaxIndex`: the
  track has four frames, two chunks of two, so a member joins before, within or
  after the first and a fan-out skips one between two it sends.
- `Resampler`: frames in sixths, a period of five and a window of 15; steps of
  4/6 to 8/6 take the last frame of a period from every place.
- `Schedule`: a period of 2, a DAC of 3, a schedule 6 ahead. The target has to
  cover the DAC, a period, the floor and the network's jitter, as the code's 2 s do by
  far: with a target, less the skew, of only 4 the servo of such an instance does hunt.
- `Pacing`: times modulo 120, a clock that starts at 40 and wraps the product of
  samples and nanoseconds several times.
- `Codec`, `LedRing` and `Numbers` have the code's constants or all values.
- `DmaRing`: rings of two and three descriptors and three kinds of streams: a lap
  of the ring, a ring of another length than the one before, other byte
  orders and rates, periods longer than the fixed wait.
- `Dial`: holds at 4 and 6 polls, three changes of the button between two polls, one
  failed transfer in a row.
- `Volume`: three levels, two scripts, one watch of hold-off. `RingFlags`: a wait
  of 15 polls, more than one cycle of refreshes.
- `WifiSwitch`: a network that can be joined and one that cannot, a start with or
  without one, a window of two ticks. The theorem `AntiDeauth` has no bound.
- `AudioOwner` has no bounds: two callers.

Deadlock is not checked (`CHECK_DEADLOCK FALSE`) where a system really stops: a
playout that is done, a stream that ended, a fan-out that stopped with nothing
left to change (`Fanout*`, `Playout*`, `Resampler*`, `Streams`). It is checked in
`NodeTable`, `NodeCluster`, `Device` and the violations of `MCDevice`.

### 3.2 Fairness

- `Node.Fairness`: each daemon gossips every second and polls every 200 ms, so
  each pair hears each other again and again (a datagram is lost now and then,
  not for ever), and a consensus falls due and is run.
- `Fanout.FairSpec`: audio flows, so the loop turns (`WF(FanoutStep)`); the retry of a
  pending member is strong, for its player listens only in between; children are
  reaped, players respawned and commands written by the daemon's loop. No fairness is put on
  member changes, failures or the daemon's death.
- `StreamsSpec`: the steps of the program whose progress is asked for. Playout:
  the sink's own steps; the source need not send, skip or close. Wire: the player
  reads what is there; the source may stop for good. Handshake: the fan-out's loop
  turns, each sink sends a due PING and reads, unless it got stuck. Schedule: the sink
  runs, reads, and time passes; calm is a premise of `InSync`, not an assumption.
- `Device.Spec`: an interrupt that is due is served; `set_wifi`, the watchdog, the
  script a hold started, the radio and the clock go on. No fairness for owners, mains or air.

## 4. Proofs

Every safety property and action property of the passing runs is also a
theorem, for every value of the constants: any number of
nodes, members, slots, scripts and networks, buffers, chunks and periods of any
size, any threshold, and any bound on the counters. Two more kinds of theorems
go beyond the runs: of the liveness properties that have one, the *safety half* (what
is never lost on the way, 4.3), and of three findings the exact condition
under which the refuted promise holds (section 6). The theorems are about the
specifications TLC runs (`HSpec`, `Fanout.Spec`, `StreamsSpec`, `MCDevice.Spec`): a
lemma per part says that a step of the whole is a step of the part or leaves
it alone.

| module | theorems (property) |
|---|---|
| `GroupingProofs` | the lemmas on `rn_assign_groups` that `NodeProofs` cites |
| `NodeProofs` | `NodeTypes` (`TypeOK`), `OrderTheorem` (`OrderIndependent`), `StableTheorem` (`Stable`), `WellFormedTheorem` (`WellFormed`), `MembersTheorem` (`MembersAskedRecently`), `LeaveTheorem` (`LeaveUnlessStale`), `GraceTheorem` (`GraceUnlessEvicted`); `RightTheorem`, `AgreementTheorem` (safety half of `Converges`) |
| `FanoutProofs` | `TypesTheorem` (`TypeOK`), `OneConnectionTheorem`, `OnlyAskedForTheorem`, `UndisturbedTheorem` (the properties of these names); `ExactTheorem` (safety half of `Settles`), `KeptTheorem` (`NobodyForgotten` while nothing failed) |
| `PlayoutProofs` | `LabelTheorem`: `LabelTrue` of the playout alone; the ranges of the playout |
| `WireProofs` | `PromisedTheorem` (`Promised`), `ContiguousTheorem` (`Contiguous`) |
| `StreamProofs` | `AllTypesTheorem` (`AllTypeOK`), `OffsetTheorem` (`OffsetBound`), `FrozenTheorem`, `NoFlappingTheorem`, `RingPromisedTheorem`, `PacedTheorem`, `SeamlessTheorem`, `LabelTheorem` (`LabelTrue`); `AnsweredTheorem` (safety half of `Starts`), `ConservedTheorem` (of `InSync`); `ShortOnlyDryTheorem`, `FullPeriodsTheorem` (`FullPeriods`, conditions) |
| `NumbersProofs` | `ArithmeticTheorem` (`Arithmetic`) |
| `DeviceProofs` | `TypesTheorem` (`TypeOK`), `FileTheorem` (`FileTrue`), `UpToDateTheorem`, `HeardTheorem`, `NoPhantomTheorem`, `ArmedTheorem`, `OwnerTheorem` (`OneOwner`), `AntiDeauthTheorem`, `RingAgreedTheorem`, `FedTheorem`, `PicturesTheorem`; `StallTheorem` (safety half of `StallReported`), `WayHomeTheorem` (of `Home`); `OnlyLongTheorem`, `FreedTheorem` (`FreedAfterLast`, conditions) |

### 4.1 What they assume

Each module's `ASSUME`, which TLC evaluates on the instances: sizes are natural
numbers, where the code needs it positive ones. Beyond that:

- `CodecThresholds`: FLAC from 20 % of skips on, back after a window of 112 chunks or
  more (the code has 600).
- `FramesAssumption`: the jitter buffer, the chunks and the periods are whole frames.
- `NumbersAssumption`: a byte has at least four values.
- `GraceTheorem`, `RightTheorem`, `AgreementTheorem`: no more nodes than a fan-out
  has slots.
- `OnlyAskedForTheorem`: the member list names nobody twice (section 6).
- `ExactTheorem`, `KeptTheorem`: `Fits`, that and a slot for every member.
- The theorems on the DMA ring (`RingAgreed`, `Fed`, `OnlyLong`, `Freed`, `Stall`) and
  `TypesTheorem` of the device: `~Reentry`, `hw_params` is called once for each
  `hw_free` (section 6). `FreedTheorem`: moreover `ShortPeriods`, no period lasts
  longer than 20 ms, which the driver does not see to.
- `ShortOnlyDryTheorem`: `RoomAssumption`, the window has room for a
  period, its margin and four frames (441 + 64 + 4 of the code's 2048), and `MarginAssumption`, the
  margin covers what the largest trim takes off a period (86680 of 62·65536).
  `FullPeriodsTheorem`: `SlowTrim`, no trim takes more than one frame off a period. The
  code's largest does (86680/65536 frames), so this is what a repair could rely on.
- `ConservedTheorem`: `SchedAssumption`, the schedule's target and the DAC together
  cover a period and the skew; the code's 2 s do.
- `PacedTheorem`: `[]AnchorNotZero`, no gap ends in the very nanosecond that makes
  `pace_start` 0, its own mark of "not started". `PacedOnAnOldHost` gets rid of it
  for a host that was up longer than it plays.

### 4.2 The arguments

- *Consensus.* Each in-place loop has an invariant over the devices done so far.
  Rule 1, `Met`: the keeper of a claim was never knocked out, and a device that has met
  its rivals and still claims is the only one to; the order in which they meet
  does not matter because `Loses` is a strict order. Rule 3, `Held`: whoever has
  been elected is the one that `ElectedAt` names over the configuration *before* the
  loop, so elections of different groups do not see each other. Together
  (`RoleRule`): the loops give each device the role of the rules over the *set* of
  devices. A result is `Settled` (one claimant per group, with a listener, none
  silent that could have one), and a settled configuration is a fixed point.
- *Node.* `NodeInv` relates each entry of a peer table to what its observer was
  told: an entry is no newer than its peer's word on that group (`Told`), a live one
  is the last word (`LastWord`), nothing kept is newer than the last word
  (`NothingNewer`), live entries are of different peers (`Single`), and what is no
  longer live is older than the TTL (`Outlived`), which is why a word that finds the
  table full leaves no entry as new as itself. `Lowest` counts slots: of
  the code's 32 only as many are used as there are other nodes, so a list of 16 is not
  cut. That a source listens to its own group takes both halves: a configuration made
  of a table has distinct devices (`ConfigOf`), a voluntary source claims the group it
  listens to (`Claims`), and an elected one is elected by its own group (`RoleRule`).
- *Agreement.* `Informed`: a daemon's live entries are what all other nodes say of
  themselves, and it keeps no other word. A claim then stands unopposed (`ClaimsUnopposed`), since a node volunteers only
  for the group of its own name, so what `RoleRule` makes of the table is what the
  rules make of the household: `RightSource`. The member list is the group's
  listeners because nobody in an up-to-date table is cut or kept for the grace
  period's sake. `AgreedStays` then goes through the actions: what is heard changes no
  entry, and a consensus concludes again what it concluded before.
- *Fan-out.* `Conn`: no two slots hold the same ip, and a player is connected
  exactly when a slot holds it and is up; adding to the least free slot keeps it because
  `There` looks at every slot, half-dead ones included. `AskedInv`: nobody is pending
  twice, listed twice at the start, or both (`Single`); whoever is connected, pending
  or still to be tried is wanted or about to be removed (`Serves`); a "+" still in
  the pipe is for a member that is wanted or that a later "-" takes back
  (`PipeInOrder`). The last is what `member_diff` is worth: it compares with the
  *previous* list, not with what the fan-out has done so far, and that suffices because
  the pipe keeps the order. `Undisturbed` follows step by step: a slot is emptied by a
  removal of its member, by an error of its own, or with the whole process. The pending
  table is counted by a fold over the set of members; `SumsDiffer` shows by induction
  on the size of that set that one entry more makes the sum one more, so it
  never exceeds the table.
- *Fan-out, exactly.* While nothing failed: `PipeRight`, the last command still in the
  pipe that names a member says whether it is wanted; `ServedRight`, a member no command
  names is served, pending or still to be tried exactly if it is wanted. `Exact` is the
  case of an empty pipe. An addition finds room because those served, pending and to be
  tried are distinct members, and all members fit.
- *Clock lock.* Of each PING under way, `ClockInv` says that it was sent no later than
  now, of the one being served that it was read after being sent, and of each PONG that
  `t1 <= rx - Offset <= tx - Offset <= now`; the bound is then the arithmetic of the
  estimate, C's rounding towards zero included.
- *Codec.* An eighth is taken off the average by each chunk that goes through, so that
  after seven of them it is at most `W7`, far enough below the threshold that one skip
  does not reach it; on FLAC, nine of the average go with each clean chunk until it is
  78, which is where C's truncation stops helping.
- *Jitter buffer.* The content as a queue is read off byte by byte from the head, modulo
  the length; lemmas say what a push that wraps leaves at each place, and
  that advancing the head drops a prefix. `Aligned`: sums and remainders of whole
  frames are whole frames.
- *Pacing.* `PaceInv`: what was sent since the last anchor had its time, but for the chunk
  in hand; `Nanos` is monotone, and the nanoseconds of two counts differ by those of
  their difference and a rounding.
- *Handshake.* `Answered` is inductive: a PING goes from the sink into its socket, a
  PONG is written where the PING is taken out, the pacing wait and the drain take out
  no PING without answering it, and a sink waits no longer once it has read its PONG.
- *Schedule.* `Conserved` is a law of conservation: what the servo drops or plays
  leaves the ring and is added to the label at once, the period in hand counts until it is
  written, silence moves neither; only an epoch yet to be anchored may leave the
  label ahead.
- *Wire.* The invariant is about the bytes still to come: what the player has of a
  piece, what is in the socket, what `write_full` still holds. They form a chain,
  each byte followed by the next of its message or the first of the next (`Stream`),
  which starts where the player stands and ends where the source does (`Ending`): with
  the message begun last, at a message's end after a close, within one if the source
  died writing. Every read takes a prefix, so the pieces assembled are those sent;
  `Promised` is the refinement with the channel's content read off the chain. For
  `Contiguous` there is a function `idx` from message numbers to frame counts that both
  ends agree with (`Counts`): the source's track less what this peer was not sent since
  its last chunk (`Heard`), a PONG leaving it alone and a skip as well (`SkipStep`).
- *Labels.* While nothing is lost, ring and socket run on, index by index, to
  the source's next chunk (`Chain`), and the label is `rxNext` less what the ring holds;
  drops at the head keep the chain, and where a re-anchor starts anew, `Whole` is the
  chain itself. Lost chunks or not, indices rise, so the label stays among
  those sent (`RangeInv`). `StreamProofs` cites both for the playout that is
  a part of its specification. The resampler's: `RsInv`, the ring holds the newest frames
  in order, the label counts on from them, and what left the ring last was
  the newest.
- *Resampler.* `SpliceMeans` turns "no splice" into two facts, the window runs on
  and abuts the ring; feeding and compacting keep them (`FeedShape`), and a period reads
  exactly as far as `Produced` says (`ProducedReach`), so the next one starts there.
- *Short periods.* A period reads beyond the window only if the trim takes more off it
  than the frame the guard spares (`ShortReach`), and then the window holds less than a
  period and the margin; `FedOrDry`: when a period is computed the window has the margin or
  the ring is empty. So stale frames take a ring that ran dry and a trim of more than a
  frame.
- *Arithmetic.* A number is its digits: `PowerReads` and `GetReads` unroll the recursive
  `be*_get`, `PutGet` shows that the digits put are the digits got, and two headers that
  differ in a byte differ when read. The cubic's jump at a frame is bounded by
  the three roundings at the seam.
- *Volume.* Not excused, one script is at work at most, and when it comes to write the
  file Master is what it will write (`Settled`). *Flags.* A flag's turn that lies
  within the polls since which nothing changed makes the copy right. *Dial.* `DialInv`:
  taps are counted against releases, the press `beepd` knows of is no longer than the
  real one while no frame is missing, the ring shows the tier of the hold, and each
  failed transfer costs two polls.
- *Owner.* `OwnerInv`: at rest one of three has the speaker (`Owned`), and a script at
  work is at some command of a known program with everything done that the commands
  before it do (`Within`); each program is shown to lead from `Owned` to `Owned`.
- *Wi-Fi.* `Consented`: every configuration in use, committed or in the snapshot that
  shows the AP beside a network was asked for, and so is the one being edited except
  between `set_wifi`'s first key and its last (`enable`, `handover`); whoever reloads or
  commits just then, or is about to, has crossed it. `WayKept`: the snapshot is taken
  before the network is changed, holds only configurations that get home, and goes only
  once the one in use does; while the watchdog only looks at a device at rest, the
  radio runs what is configured or the AP is about to come (`Alone`).
- *Pictures.* The frame counter has no bound: each animation is a function of the frame
  modulo its period, and its brightnesses are bounded by lemmas of arithmetic; a comet's LED
  at 130 is one that orbit and join never show; the LEDs of a hold are counted tier by
  tier.
- *DMA.* `Phases`: what the order of the callbacks ensures. `Places`: the arc from
  `hw_idx` to the engine said place by place, so that a completion adds its last place
  and the handler takes its first, and the whole ring is told from none of it by one
  OWN bit. `Counted`: ALSA's count by the cardinality of what was given back.
  For a stall, `Noticed`: an engine halts only with all descriptors back and an
  interrupt due; ALSA's count then has nothing left to play, so the walk over such a ring
  stops the stream before it comes to an end.
  For the freed ring, `StraysStep`: of all steps only the end of `hw_free`'s wait strands the
  engine, and only in a period longer than the wait.

Induction over numbers and sets is done with the least counterexample
(`NatLessThanWellFounded`, `WFMin`), for the induction theorems of the library take an
operator, which the provers at hand cannot instantiate.

### 4.3 Only model-checked

Seven liveness properties: liveness under fairness and `ENABLED` are beyond the prover.
Of each of them a theorem says what must not get lost on the way, for every value of
the constants; that the way is taken is TLC's.

| property | proved of it | left to TLC |
|---|---|---|
| `Converges` | `RightTheorem`: a consensus over true gossip is right; `AgreementTheorem`: agreement stays | gossip and consensus bring every daemon there |
| `Settles` | `ExactTheorem`: with the pipe read, the fan-out has exactly the members | the pipe is read, and those pending get connected |
| `Starts` | `AnsweredTheorem`: no PING is left without an answer | the sinks get their samples, and the chunk goes out |
| `InSync` | `ConservedTheorem`: the error servoed on is the true one | in calm, the servo brings it within its deadband and a frame |
| `StallReported` | `StallTheorem`: a stall is in the handler's sight until it stops the stream | the handler runs |
| `Home` | `WayHomeTheorem`: there is always a configuration to get home with | the watchdog takes it |
| `Ends` | `PromisedTheorem`, of the wire: an end is clean only after all that was sent; of the playout nothing but `LabelTrue` | what was sent is played or read to its end |

## 5. Hazards

`PROJECT.json` lists, with its line, each step of the code that is hard to test,
and the properties that cover it. Three have none:

- `replaynet.c` 2235: `fork` fails. `spawn_fanout` returns −1, which `fanout == 0`
  takes for a running fan-out; it is not tried again while the node sources, and
  `kill(-1, SIGTERM)` is what stopping it then amounts to.
- 1775: an overflow after 58 hours without a re-anchor; the times of `Schedule`
  are relative and unbounded.
- 1150: a fan-out blocked in the reopening of its FIFO reads no commands until
  the pipe is full, and then the daemon blocks as well; the pipe of `Fanout` is
  unbounded.

## 6. Findings

Each is a run that TLC ends with a counterexample.

- `FanoutForgotten`: a member dropped upon a write error, as stuck, or given up
  on is never tried again while the daemon still lists it, as long as another member
  keeps the fan-out going (left with nobody it exits, and the next one gets the whole
  list). In the trace the loopback's player is up while that of a remote member exits;
  the property asks for such a pair. `KeptTheorem`: it takes such a failure; changes of
  the members alone, however many, forget nobody.
- `FanoutOrphan`: the fan-out waits for `POLLIN` to learn that its daemon died;
  a pipe without a writer reports only `POLLHUP`.
- `PlayoutSkip`: `played_src` is computed once per anchor; after a skipped chunk
  it is off until the next one.
- `ResamplerStale`: a period is written whenever the window holds 444 frames;
  at the largest step the last frame lies beyond them, and the one left from an
  earlier period is played. `ShortOnlyDryTheorem`: only when the ring has run dry and
  the trim takes more than a frame off the period; `FullPeriodsTheorem`: with smaller
  trims never.
- `WifiStranded`: between `wifi-revert arm` (`rpcd/beep` 143) and `wifi reload` (182) a
  look of the watchdog takes the snapshot away: the *old* network is still up and is
  taken for the success of the join (`netcheck-loop` 106), or it is down, there is no
  marker yet (178) and the join is reverted before it began (123), and then goes on. A
  counterexample of TLC may be of either kind.
- `DmaFreed`: `hw_free` waits 20 ms, a period may last 23. `OnlyLongTheorem`: it takes a
  period longer than the wait; `FreedTheorem`: with none, the comment is right.

Some promises of comments hold only with an exception, which the property states
and which TLC needs:

- `LeaveUnlessStale` (1938: "a clean double-tap LEAVE is still immediate"):
  `peer_find` sees only slots in use and `peer_slot` gives out the
  first that is not. A peer that comes back after its TTL may take another slot,
  and its stale entry keeps it in the member list after it leaves.
- `GraceUnlessEvicted` (1936): the slot of a silent member may be given to
  another peer within the grace period.
- `OnlyAskedFor`: with a stale second entry the initial list names a member
  twice; both go to the pending list and a removal takes one. Its theorem assumes
  `DupMembers = FALSE`.
- `Settles`: with a full table, an addition written before the removal that makes
  room for it finds no slot and counts as done; `FanoutLive` has a slot to spare.
- `LabelTrue` of the resampler: after the servo's snap the window's label is off
  until the splice has passed.
- `AntiDeauth` (`netcheck-loop` 129: "do NOT auto-raise the setup AP for a *configured*
  STA"): `crossed`. The watchdog reads `mode` (95) and then asks `ap_up` (97); if
  `set_wifi` sets the mode and disables the AP (146-154) between the two,
  `wifi-setup-enable` disables the client just configured, and nobody held the knob. The
  same if the watchdog reverts or reloads between the first of these keys and the commit.
  `crossed` holds only after such a step, lapses once the device is online with no AP
  configured, and TLC finds `AntiDeauth` violated without it, or with any of the
  watchdog's reachable places in it (`ap_up`, `revert`, `apply`) left out.
- `Contiguous` (1338: "audio seq gap: expected ..."): on a fan-out's connection a chunk does not
  carry on where the one before it ended, but beyond it by what the peer was not sent.
- `Home`: `raced`, that is `WifiStranded`'s overlap, a look between the snapshot's
  directory and its content, one before the joining marker is set (from the setup
  AP the join is then reverted at once), or a reboot, which loses the snapshot.
- `FileTrue`: changes of Master that meet, or that a watch passes over within
  600 ms of a turn: `last_master` is updated although the write is skipped, and
  the file stays stale until the next change.
- `OneOwner` (`beep-airplay-mode` 39: "exactly one of {AirPlay, LMS} owns the
  speaker at any time"): a change of the group or a double-tap while LMS plays
  brings AirPlay up beside it; two scripts that overlap can leave AirPlay 2
  with the engine up; a switch to AirPlay 1 repairs nothing, because `beep-group`
  restarts shairport only if it found the *engine* lacking something; `beep-source
  lms on` and `airplay on` bypass the exclusion. Until the next switch to AirPlay
  2 or LMS the property asks for nothing.
- `Dial`: a press and a release within one poll lose the hold or the second tap,
  since presses are folded first; a tap in just the poll in which the burst
  lapses discards the burst. `NoPhantom` says that what *is* fired was meant.
- `UpToDate`: a flag file is truncated and then written, so a refresh in between
  shows the spinner for up to a cycle of 12 polls; `steady` waits that out.

Where code and comments differ without a property at stake: `beepd.c` 621 says
the mixer is tried every ~5 s (it is 384 polls, 16 s); the header of `beepd.c`
gives 340 and 5000 ms for times that are 380 and 10000; 1878 says silence is
written when the window is short (the code waits 5 ms). With `Reentry = TRUE`
(`hw_params` called again without `hw_free`, which nothing in the driver forbids)
TLC finds `RingAgreed` violated: the handler keeps the `hw_idx` of the old ring.

## 7. Not modelled, and why

- *Firmware gate*: one CGI request from top to bottom; what it checks, external
  programs check. *Temporary SSH*: a setting, a service and a wall-clock expiry.
- *Boot and first-boot scripts, `led-*`*: straight-line, no second actor. Their
  result is the initial state of `AudioOwner`, `WifiSwitch` and `Dial`.
- *Simulation* (`run_simulate`): a numeric experiment without state of the
  program's own; the self-test and the command line.
- *libFLAC, TCP, ALSA's core, netifd, procd, the STM8*: external; modelled as the
  code uses them.
- *64-bit overflow at 1775*, *a bounded command pipe*, *a failing `fork`*: section 5.
- *A lost descriptor at 1056*: a peer noticed dead in the pacing wait has its slot
  cleared without `close()`; descriptors are not in the models.
- *Random placement of party sparks*; the encoding of both serial protocols of the
  STM8; pin setup, probing and the divider's arithmetic of the driver.
- *The web page* (presentation; its calls are the rpcd operations), image
  building, device tree, recovery overlay, the snapcast package, and third-party
  reference code (`driver-i2s/reference`, `notes/franzflasch`).
