# AI Agent Monitor: verification development

TLA+ models of the desktop app: how a device is paired and authorized, how the
token reaches the disk, how the three transports (BLE, iroh, LAN) tie an
authorization to a link, a queue and a switch, how a snapshot is gated, sealed and
delivered, and where its numbers come from. Each model is checked with TLC on small
instances. Every safety property of the passing runs is also proved with TLAPS, for all
values of the constants, with the inductive invariant behind it.
File names without a directory are under `app/src-tauri/src/`.

1. [The system](#1-the-system)
2. [Inventory](#2-inventory)
3. [Modules](#3-modules-and-how-they-correspond-to-the-code)
4. [What the runs check](#4-what-the-runs-check)
5. [Fairness](#5-fairness)
6. [What is proved](#6-what-is-proved)
7. [Findings and observations](#7-findings-and-observations)
8. [Not modelled](#8-not-modelled)
9. [Plan](#9-plan)

To check a run: `tlc -config MCPairing.cfg MCPairing.tla`. To check the proofs:
`tlapm PairingProofs.tla`, and the same for `PeerStoreProofs`, `LanProofs`, `PhonesProofs`,
`BleProofs`, `MirrorProofs`, `SharingProofs` and `ReadingsProofs`. `PROJECT.json` lists the components, runs, mutants (for
each property a changed definition under which TLC must find it violated), the
source lines of each definition, the hazards, the findings and the theorems.

## 1. The system

A Tauri desktop app watches three coding agents (Claude Code, Codex, Antigravity),
adds up their token use and mirrors a snapshot to paired devices: an iPhone/iPad
app and a "CYD" ESP32 display.

```
 watchers ──channel──► Aggregator ──250 ms tick──► EmitGate ──► front end
 (file tails, RPC)                      │
                                        │ pairing mutex, then one bridge after the other
                 ┌──────────────────────┼─────────────────────┐
             BleBridge            NetworkBridge            LanBridge
           MacPeripheral           iroh / QUIC        server: WebSocket, mDNS
         (CoreBluetooth, main      task per            listener, pump, task per
          thread)                  connection          connection
                 └──────── requests ────┼─────────────────────┘
                                        ▼
                       PairingManager (one, behind a tokio mutex)
                                        │ token list
                                        ▼
                     PeerStore: paired-peers.json (tmp file + rename)
```

All three transports share ONE `PairingManager`. A device sends a request (`HELLO`,
`CODE`, `AUTH`, `PROOF`, or the v2 forms with a key exchange); the manager answers and
possibly authorizes the *central*, the identity of that link. A transport sends
snapshots to authorized centrals only, sealed if the session is v2. Whatever ends a
link must end the authorization, which is the recurrent difficulty: the link, the
transport's lists, the shared manager and the switch change in different tasks,
under different locks, at different times.

## 2. Inventory

For each part: the state it keeps, what it does, with whom it interacts, what is
hard, and what makes it correct.

**Pairing manager** (`ble/pairing.rs`). State: the pairing window (code, start,
attempts left), tokens, authorized centrals, nonces, handshakes, sealed channels.
Operations: `begin_pairing`, `reset_pairing_window`, `handle` for each request,
`revoke_token`, `revoke_all`, `end_session(s)`, `end_all_sessions`. Called by all
transports and commands under one mutex. Hard: every request of every central in
every order, v1 and v2 mixed, expiry by a wall clock that can be set back,
revocation between a challenge and its answer. Correct: the guesses and grants of a
window are bounded; a session stands on a paired token and a channel on that
session; a revoked token stays out; a nonce and a handshake are spent once.

**Peer store** (`peers.rs`; `save_paired_peers`, start-up and `persist_and_drop` in
`lib.rs`). State: the file, its temporary sibling, the legacy lists. Operations:
load, migrate, save (probe, remove, create_new, write, rename). Hard: kills and I/O
errors between system calls, and savers in several tasks, which copy the list under
the pairing mutex and write it after releasing it. Correct: the store is never torn,
what was reported as saved is kept, what was reported as unpaired stays out.

**LAN server and bridge** (`lan/server.rs`, `lan/mod.rs`; the event loop and
`lan_set_enabled` in `lib.rs`). State: the generation of the listener, slots, sinks
(send queues), a deadline per connection, the bounded event queue; in the bridge the
handle of the current listener and the connected centrals. Hard: off and on again
while the old listener still ends, late notices of it, a deadline racing an
authentication, peers that never read, unpairing a device that is talking. Correct:
the handle is the current listener's, authorizations end with links, authorized
connections are spared by the deadline, strangers give their slot back.

**Network bridge** (`network/mod.rs`; accept loop, tick and `network_set_enabled` in
`lib.rs`). State: the switch and one snapshot stream per device. Hard: two mutexes
taken by tasks and by the tick, awaits between a check and its use, a device that
reconnects while its old task still runs. Correct: mutexes are taken in one order,
no stream outlives its task, one line at most goes out after a revocation.

**BLE bridge and link** (`ble/mod.rs`, `ble/macos.rs`, `ble/send_queue.rs`,
`ble/framing.rs`; the event loop, `ble_set_enabled` in `lib.rs`). State: a copy of the
subscribers on the runtime's side, the subscribers and the send queues on the main
thread, the radio's back pressure, a Reassembler in each client. Hard: two threads
joined by two queues, so that each acts on what the other was; power that goes
without a word about the links; a radio that refuses chunks in the middle of a frame.
Correct: frames arrive whole and in order, "a queue is the permission to send", no
queue stays paused, authorizations end with links.

**iOS BLE client** (`ios/Sources/BLETransport`). State: the connection's state with its
timer, the v2 handshake under way and which request was sent last, a code that was typed, a
session's channel, the token in the keychain. Operations: CoreBluetooth's callbacks, the
code entered by the user. Talks to the Mac's Auth characteristic, whose answers are
notifications that nobody repeats. Hard: an answer carries no number and is read by what was
sent last; the service goes and comes back while the link stays; the switch has two halves.
Correct: both sides come to one session; no code, token or grant is wasted; the phone never
waits for what cannot come.

**Mirror tick** (`lib.rs:1486-1614`), **session channel** (`crypto/channel.rs`) and **emit
gate** (`emitter.rs`). State: a gate per transport (the last hash and when it was
emitted), a channel per v2 session with a counter in each direction. Operations: every
250 ms the tick asks each transport's gate, seals under the pairing mutex for BLE,
network and LAN in turn, releases it, then writes. Hard: what is sealed is written
later, when the session may have been renewed or revoked; the gate takes a snapshot for
sent before it is; a clock set back. Correct: no key seals twice with one counter; the
device can open every frame of its own key; a change is not withheld for ever.

**Aggregator** (`aggregator/`). State per agent: a ring of cells of the last five hours, a
ring of stamps for the rate, the stamps of a day, the sessions. Operations: `push`,
`snapshot`, both under one mutex. Hard: files replayed in any order, slots that two
buckets share, pruning with a clock that moves both ways. Correct: totals, rate, anchor
of the window and list of sessions equal their definition over all events.

**Watchers** (`watchers/`). State: an offset per file. Operations: scan, watch and notices
(Claude, Antigravity), poll (Codex), a tail each; Antigravity's rows hold blobs of a
binary format. Hard: other programs append in halves of lines, truncate and rotate while
the watcher scans and registers. Correct: each whole line counts once, in order.

**Quota state** (`quota_proxy.rs`, `watchers/codex_rpc.rs`, the tickers and the card in
`lib.rs`). State: percentage and reset of two windows, each in a mutex of its own, when
they came, an in-flight guard, a cache file. Operations: headers that pass the proxy,
lines of rollouts, queries with a timeout, the ticker. Hard: answers that bring only one
window or no reset, answers late or lost, a restart. Correct: what the card shows belongs
to the present window; the weekly value is asked for even if traffic brings the other.

**Settings** (`settings.rs`, commands and restore in `lib.rs`) and **network identity**
(`network/identity.rs`). State: settings in memory and on disk, the bridges' switches, the
endpoint's key. Hard: a bridge is switched under one lock and the setting saved under
another, the restore runs beside commands, writes fail. Correct: the next start finds what
the user left.

**LAN discovery** (`lan/discovery.rs`, `advertise` in `lan/mod.rs`). State: the live
publication and its daemon; a thread per teardown. Hard: publishing that fails half way,
acknowledgements that do not come, goodbyes that are repeated only while the daemon runs.
Correct: no announcement is left that nobody can withdraw.

**Wire formats** (`ble/wire.rs`, `types.rs`): projections of the snapshot, without
state.
**Other clients**: the iOS network client, the multi-Mac fleet and the widget
(`ios/Sources`), the CYD firmware's transports and its authentication machine
(`firmware/cyd`). Each has its own reconnection, back-off and token store.
**Presentation**: the Svelte front end, tray, iOS views, CYD screens.

## 3. Modules and how they correspond to the code

| module | models | composed of |
|---|---|---|
| `Access` | what the pairing service promises: windows, grants, sessions, final revocation | abstract |
| `Pairing` | `PairingManager`, request by request | implements `Access` |
| `PairingProofs` | theorems about `Pairing` | extends `Pairing` |
| `PeerStore` | `save_paired_peers`, the system calls of `save_to`, crashes, start-up | |
| `PeerStoreProofs` | theorems about `PeerStore` | extends `PeerStore` |
| `LanServer` | listener, accept, connection, writer and pump tasks of `lan/server.rs` | |
| `Lan` | `LanBridge`, its event loop and commands | extends `LanServer` |
| `LanProofs` | theorems about `Lan` and `LanServer` | extends `Lan` |
| `Network` | `NetworkBridge`, connection tasks, tick, commands | |
| `SendQueue`, `Framing` | pure operators: `SendQueue`, `Reassembler` | |
| `Ble` | bridge, event loop, main thread, radio, devices | extends both |
| `BleProofs` | theorems about `Ble` | extends `Ble` |
| `BleAuth` | an iPhone pairs and authenticates over BLE, with the Mac's side of it | |
| `PhonesProofs` | theorems about `Network` and `BleAuth` | extends both |
| `EmitGate`, `SealedChannel` | pure operators: `EmitGate`, `SealedChannel` | |
| `Mirror` | a snapshot's way: tick, gate, seal, write, link, device | extends both |
| `MirrorProofs` | theorems about `Mirror` | extends `Mirror` |
| `Switches` | settings, switches, restore, network identity over restarts | |
| `Discovery` | the announcement of the listener, its daemons and teardown threads | |
| `LanTimers` | heartbeat and deadline of one LAN connection, with a clock | |
| `SharingProofs` | theorems about `Switches`, `Discovery` and `LanTimers` | extends them |
| `Usage` | one agent's `AgentBucket` | |
| `Watchers` | the three watchers and the programs that write the files | |
| `Quota` | one agent's quota slots and all who write them | |
| `ReadingsProofs` | theorems about `Quota`, `Usage` and `Watchers` | extends them |
| `Protobuf` | pure operators: the parser of Antigravity's blobs | |
| `MCReadings` | sum of `Usage`, `Watchers`, `Quota`; assumptions on `Protobuf` | extends them |
| `MCOutput` | sum of `Mirror`, `Switches`, `Discovery`, `LanTimers` | extends them |
| `MCPhones` | sum of `Network`, `BleAuth` | extends them |
| other `MC*` | instances for TLC | |

Conventions. One action is what one task does without giving up control: between two
awaits, or under one lock. Where a lock is held across an await (the bridge mutex
while the tick writes) it is a variable. A variable has the name of the field it
models; variables under "history" record what happened and are read by no guard,
except where a comment says so. A line `\* Mutant:` starts a changed form of the
definition after it, which the model itself does not use.

**Pairing.** `handle` sweeps expired nonces and handshakes before it looks at the
request (`LiveNonces`, `LiveHandshakes`); each request is one action with the
outcomes the code has (granted, wrong code, locked, expired, unknown). Keys and HMACs
are tuples of what they were derived from, random draws are serial numbers, the clock
is `now`, which goes back unless `Monotonic`. Ghost fields: the window a handshake
was begun in, the number of uses of a nonce, of installations of a key.

**PeerStore.** A saver's `pc` follows `save_to`: collect the list (under the mutex),
probe the temporary name, remove a leftover, `create_new`, write, rename. A file is an
inode, so that a handle keeps writing to what was renamed meanwhile. Any step may fail
or the app may be killed. `overlap` becomes true when two saves are under way at
once: most of the module's promises hold until then only (see section 7).

**LanServer, Lan.** A listener waits for the previous one to release the port,
binds, reports, serves, stops. A connection takes a slot, upgrades, registers its
sink, announces itself, talks, and reports its end, each through the one bounded event
queue; `await` on a full queue is a guard, `try_send` an outcome. The authentication
deadline, heartbeat and writer are separate tasks. `Lan` adds the bridge: the event
loop takes an event, and for a disconnection asks which session to end *before* it
takes the connection off the list.

**Network.** `at[k]` is the place of connection `k`'s task between two awaits of the
loop at `lib.rs:1190-1256`; `mutex` and `tick` make the lock order and the long
write explicit.

**Ble.** Two queues join the runtime and the main thread: `posts` are closures run by
`with_delegate`, `events` are what the delegate's callbacks report. The radio takes any
number of chunks and refuses the next (`PumpAll`), and owes a "ready" from then on. A
device hears chunks only while it subscribes to the Snapshot characteristic, and puts
them together by the rules of `framing.rs`. The replies on the Auth characteristic are in
`BleAuth`. Left out: advertising, and the throttle (a snapshot may come at any time, which
allows more than the code does).

**BleAuth.** One phone and one Mac. A request's number also names what is drawn for it:
its ephemeral key, the Mac's, and the token that answers it. On the Mac a request passes
from the main thread's `events` to the event loop (`Answer*`), the reply as one packet or
two through `posts` to the main thread (`Notify`), which may have it refused, and over the
link (`down`). On the phone `Hear` puts packets together (`Arrived`) and reads the answer by
`v2.sent` (`Advance` is `decideV2` and `advance`). `SwitchOff` and `SwitchOn` are the half
of `ble_set_enabled` under the bridge's mutex, `FinishOff` and `FinishOn` the one under the
pairing mutex. The Mac's part of the handshake is `Pairing`'s, reduced to v2 and one device;
that revocation, budgets and expiry are right is `Pairing`'s subject, so a window, a nonce or
a handshake expires here at any time, within `MaxBreaks`. Left out: v1; the event of the
Snapshot subscription, which lists a device that is listed already; `stop` and `start` by
the user, Bluetooth off or denied; a keychain that fails; snapshots and their version.

**Mirror.** What the three transports' tick has in common, for one device: `HasTargets`
and `Served` differ by transport as `prepare_snapshot` and `on_snapshot` do. BLE queues a
frame in the tick, the others hold it as a batch that `SendPrepared` writes after the
pairing mutex is released; the tick is one sequential task, so the next tick waits
(`MayTick`). A session has a number, and its keys and the frames' counters are symbolic.
The device adopts a session's keys when the reply reaches it, before or after frames
that are on the link; frames are lost at will. `others` stands for a second device, which
makes the gate open where this one is not served. Not in it: the lists and queues of each
transport, which are in `Ble`, `Network` and `Lan`.

**Switches.** A command is two steps, the bridge (`Flip`) and the saved setting
(`SaveSwitch`); the restore looks at the three switches in turn. Files are replaced by a
rename, so they hold the old or the new contents. `choice` stands for `enabled_agents` and
the poll interval: saved first, in force only if that succeeded.

**Discovery.** A daemon serves its commands in order, in its own time, and repeats a
goodbye after `Resend`; the thread that tears a publication down waits for the
acknowledgement and for the repeat. Either may fail to start. `Label` is `sanitize_label`.

**LanTimers.** `LanServer` has no clock: there, a heartbeat or a deadline may come at any
time. Here the constants of the code (ping 30 s, idle 90 s, deadline 150 s, code 120 s) are
related to each other.

**Usage.** The clock is set forth and back; an event has any stamp up to now. `log` is the
history of all events against which the pruned state is compared. Four counters are one,
and an event counts one token.

**Watchers.** A line is two cells, text and newline, so that half of one can be written,
read over, or cut off. `Parsed` is the set of places where a whole line ends among those just
read, `LinesAt` the lines that end there. `Register`, `StartScan` and notices come in the
order each watcher has them: Claude registers first, Antigravity scans first, Codex polls.
Each read may fail or break off after any line (`CannotRead`, `BreaksOff`); a file in a deeper
directory is watched and not scanned by Claude's (`Listed`).

**Quota.** A percentage is known by the number of the vendor's window it was measured in.
What one answer brings is a list of writes (`Answered`, `Observed`, `RateLimits`), and
`WriteSlot` does one, other writers between, because each slot has its own mutex. The
callers are the button (or start) and the ticker. Which headers a response has, of the
utilizations and the resets, is one of `Responses`; a reset that is no larger than 1e9 counts
as missing. Antigravity's query has no timeout, so nothing bounds how long it takes.

**Protobuf.** The four loops of the code walk alike, so `Walk` yields the fields up to where
the walk breaks off and why; the three messages and `decode_file_uri` are folds over it. A
panic of the thread is an outcome.

**Sums.** The components of `MCReadings` share no state, nor do those of `MCOutput` or
`MCPhones`. Their product would say nothing more than each alone, so one behaviour moves one
component, named by `part`, while the others rest in one initial state: the states are the sum.
`Parts` of `MCReadings` says which may move in a run.

## 4. What the runs check

Each property's comment in its module names the code it is about. "Bounds" lists the
constants; all runs end with the whole state space searched.

| run | what it asks | bounds |
|---|---|---|
| `pairing` | all requests of two centrals interleaved: `SessionSound`, `WindowBudget`, `RevokedStaysOut`, `UsedOnce`, `HandshakeOutlivesWindow`, the inductive `IInv` (`TypeOK` is part of it), and refinement of `Access` | 2 centrals, 2 tokens, 2 attempts, 2 windows, 2 draws, time 0..2, clock only advances |
| `peer_store` | `SavesAreSafe`: the store is never torn unless saves overlap, a leftover never blocks, and what overlapping saves tear is mended; `ToldIsStored`: what was reported as saved or unpaired is so at the next start, unless saves overlap | 2 savers, 2 tokens (one legacy), 3 files, 1 I/O error, 2 kills |
| `unpair_undone_by_a_save` | violation of `RevocationLasts` (section 7) | 2 savers, 3 files, no faults |
| `lan` | `TypeOK`, `ListenerIsCurrent`, `GhostOnlyFromUnpair`, `AuthorizedIsMarked` | 1 connection and 2 listeners, or 2 connections and 1 listener (`BoundedSpec`); 1 slot, queues of 1 and 2 |
| `lan_fair` | `StrangersLeave`, `UnpairedLeave`, `LinkEndsSession`; `SwitchSettles`: the LAN that is switched on is announced, shows an error or is switched off, however the listener before it ends | 1 connection and 1 listener, or 3 listeners and a connection that never speaks (`QuietSpec`); an event queue of 1 |
| `phones` | network: two connections of one device against tick, switch and unpair: `NoOrphanStream`, `OneLateLine`; BLE: `SessionsMatch`, `NothingIsWasted` (code, token, grant), `DeviceGivesUp` | network: 1 device, 2 connections; BLE: paired before or not, 4 requests, 1 window, 1 attempt, 1 code typed, 1 break |
| `network_fair` | `AuthIsHandled` (no deadlock or starvation over the two mutexes), `StaleStreamGoes` | 1 connection |
| `network_session_outlives_link` | violation of `NoGhost` (section 7) | 1 device, 2 connections |
| `ble` | `FramesAreWhole`, `QueueIsAuthorized`, `GhostOnlyFromSwitch`, `WaitingIsOwed` | 1 device, 2 frames of 2 chunks, 2 events and 2 closures waiting |
| `ble_chunks_reach_others` | violation of `OwnChunksOnly` (section 7) | 2 devices, 1 frame |
| `readings` | `TotalsAreExact`, `AnchorOpensWindow`, `ListIsRecent` of Usage; `EachLineOnce` of Watchers; `ShownIsOfThisWindow`, `WeeklyComes` of Quota; the assumptions on Protobuf | usage: 1 session, 3 events, time 0..8, buckets of 2, 2 cells, 6 kept; watchers: 2 files (one of pings, the other in a deeper directory), 3 lines, 1 cut; quota: each agent, windows of 2 and 3, time 0..4, stale after 1 and 2, queries of 1, responses with both headers of both windows, or with a utilization of one and a reset of the other; protobuf: words of 24 bits, counts of 14 |
| `output` | `NoNonceReuse`, `OwnFramesOpen`, `ShownInTime` of Mirror; `RestartFindsAll` of Switches; `AdvertIsWithdrawn` of Discovery; `TimersAreFair` of LanTimers; the assumption on labels | mirror: each transport, 2 contents, 3 ticks, 2 sessions, 2 frames under way; switches: BLE and LAN, 2 commands at a time, 3 starts, 1 fault; discovery: 2 daemons, 8 moments, waits of 3 and 2, repeat after 1; timers: in units of 10 s, as in the code, up to 270 s |

Why the bounds are enough for the cases that matter:

- *pairing*: a race over one window or token needs two centrals; a budget is exceeded
  by the attempt after the second; a nonce or handshake is misused by the second draw;
  expiry needs a nonce that is dead (TTL 0) while the window lives (TTL 1). The proofs
  of section 6 cover all other values.
- *peer store*: two savers are enough for every overlap of two, two tokens for a list
  that is newer than another, two kills for a crash during the recovery from one. With
  `Unreadable` set a store that exists may fail to be read; it is off (section 7).
- *lan*: two generations for a late notice of the first; a queue of one is full when
  one is waiting. A listener may lose its patience with the one before at any moment and
  go on while that one still has the port. Three listeners let one wait for another that
  waits itself; who connects says nothing there (`QuietSpec`), since frames have nothing
  to do with the switch but to fill the queue, which a connection's notices do too.
- *phones*: two connections with one device id for every confusion of an old and a new
  connection. Over BLE four requests are a pairing with the re-authentication after it, or
  two attempts; a break is a switch thrown off (and on again, which is free), a lost link, a
  closed or expired window, an expired nonce or handshake, or an unpairing. Two breaks in one
  behaviour are beyond what TLC can search here.
- *ble*: two frames of two chunks allow a frame to be cut, replaced or followed by
  another at every place; one device suffices because the bridge and the queues treat
  centrals separately but for the repeated chunk, which the last run is about: in `ble`
  no chunk can go astray and `spilt` stays false. Frame numbers do not wrap (the byte
  in the header does, after 256 frames, and a chunk 0 always starts anew).

- *pairing*: the run has a clock that only advances, without which `HandshakeOutlivesWindow`
  is false; the theorems of section 6 cover a clock set back, and so did the same instance
  with `Monotonic = FALSE` (599 529 states, all other properties hold).
- *readings*: a slot is shared by the third bucket of two cells, and the lookback of 6 lets
  a stamp slide out of it within the 8 moments; three events are an early one, one of the
  slot's next bucket and one between. Three lines in two files order two files against
  each other and leave a line to append while the scan is between them; the cut may fall
  inside a line. A read may fail, or break off, each time. One file lies in a deeper
  directory, the other in the one that pings go to.
- *quota*: windows of 2 and 3 end at different times, and 4 moments see two ends of one and
  one of the other. A response with a utilization of the shorter
  window and a reset of the longer is the half of both that harms, for the resets of the
  shorter are past most often; the theorem is for all sixteen kinds.
- *output*: two sessions are a renewal, with frames of the first still under way; three
  ticks exceed the repeat interval of 2. Two crossing commands need two commands; three
  starts are one that saves, one that cannot read what was saved, and one that can. Two daemons are a publication that is torn down beside a new one,
  and 8 moments see all its waits. The timers' clock runs beyond the deadline plus the
  code's life.

The type invariants of PeerStore, Network, Ble, Usage, Watchers and Quota hold in these
instances too and are stated in the modules; that of Pairing is a conjunct of `IInv`.
`Protobuf` has no state: TLC evaluates its assumptions, which compare the parser with an
encoder, over a few thousand messages, and over every short buffer of a few bytes.

`CHECK_DEADLOCK FALSE` stands where the system may rest for good: the store runs out of
files, the LAN and BLE instances out of listeners or frames with every link gone, the components
of `readings` and `output` out of time, events or starts.
`phones` and `pairing` check for deadlock; in `phones` the BLE part may rest, for its bounds
end it, while the two mutexes of the network part may not. Symmetry is used for safety
properties only.

Several properties hold with an exemption that says exactly when they do not:
`~overlap` in PeerStore, `dropped` in Lan, `outrun` and `cut` in Ble, `crossed`, `mixed`,
`hurried`, `swept` and `dropped` in BleAuth, `setBack` in Mirror, `crossed` and `unread` in
Switches, `wentBack`, `NoneTooLate` and `InOrder` in Usage, `cuts`, `broken`, `missed` and
`DeepFile` in Watchers, `spoilt` and `halved` in Quota. These are not conveniences; each is a
race or an edge of the code described in section 7, and what a property exempts it does not
show.

## 5. Fairness

Only `lan_fair` and `network_fair` assume any.

- `Lan!FairSpec`: weak fairness of the event loop, of commands that have begun, of the
  listener, pump and writer tasks and of the timers (heartbeat, deadline): tokio runs a
  task that can run, and a timer fires. A listener need not lose its patience with the one
  before it: it binds for certain only once that one has ended, which the model has to show. Strong fairness where a task waits for room in
  the event queue, since other tasks may fill it between: tokio's bounded channel
  grants permits in order of arrival. Nothing is assumed of peers, of what they send or
  read, nor of the user.
- `Network!FairSpec`: strong fairness of each connection task and of the tick, because
  both wait for mutexes that others take and release; tokio's mutex is first come first
  served. Strong fairness of `PrepareSnapshot` also stands for the gate: a snapshot is
  due again after at most five seconds (`emitter.rs`), whatever its content. A write to
  a peer that stops reading is assumed to end when the connection's idle timeout closes
  it, as `network/mod.rs:142-147` has it; a peer that kept its connection alive without
  ever reading is outside of this assumption, and nothing in the code bounds it.

Elsewhere "in time" is safety: `LanTimers`, `Discovery`, `Mirror` and `Quota` have clocks,
and the clock does not pass a timer that is due (the guards of `PassInstant`, `PassMoment`,
`Pass`), so `TimersAreFair` and `WeeklyComes` say how late something can be at most, and
`ShownInTime` what must have happened by then. That timers are punctual is the
assumption; what waits for others (a daemon, a peer, a write) may take any time, and
`Advance` counts a tick that did not run as a disturbance.

`Ble` needs no fairness: "no queue is forgotten" is stated as the invariant that a
waiting queue is paused and the radio owes the callback.

## 6. What is proved

`PairingProofs` proves, for any sets of centrals and tokens and any values of the
limits, from the assumptions `ConstantsAssumption` and `NoneAssumption` of `Pairing`:

| theorem | says |
|---|---|
| `TypeCorrect` | `Spec => []TypeOK`; attempts never go below zero |
| `Invariance` | `Spec => []IInv` |
| `SessionsSound` | a session stands on a paired token, its channel on that token |
| `RevocationFinal` | a revoked token opens no session again |
| `WindowBudgets` | wrong codes and grants are bounded by the windows opened |
| `FreshnessUsedOnce` | a nonce authorizes once, a handshake yields one channel |
| `HumanPaceRespected` | if `Monotonic`, a handshake outlives the window it was begun in |
| `Refinement` | `Spec => ImplementsAccess` |

The argument. `WindowBudget` is not inductive. It says the misses so far are bounded by
the windows opened; to survive a wrong code one must know that the open window still has
an attempt to pay for it, so `BudgetInv` adds what is left in it to the sum, and for
grants the window itself. "Used once" (`UsedOnce`) survives a proof only if a nonce that
is still in the map was never used, was already drawn, and is in the map for one central
only: `NonceInv`, and the same for handshakes, `HandshakeInv`. A draw is then fresh
because all that was drawn is below `serial`. `HandshakeOutlivesWindow` compares two ages;
`ClockInv` says a handshake of the open window has the same lifetime and began no
earlier, and needs a clock that is not set back: with one that is, TLC finds it false,
which is why the theorem assumes `Monotonic`. `SessionSound` and `RevokedStaysOut` are
inductive given the types. `IInv` is the conjunction, and TLC checks it in the pairing
run. The step lemmas have one case per action, and the requests share `NonceShrink`,
`NonceDraw`, `NonceUse` and their handshake counterparts: a request removes entries, draws
one, or spends one. `Refinement` maps the abstract window to "a code may still be tried",
so expiry by the clock is a `CloseWindow` and most requests stutter; it uses
`SessionSound` for what a disconnection leaves.

**PeerStore**, for any savers, tokens and files, with any number of faults and kills
(`StoreAssumption`):

| theorem | says |
|---|---|
| `PeerStoreTypes` | the types of the store and its savers |
| `SavesAreSafeAlways` | `Spec => []SavesAreSafe`: never torn, never stuck, mended, unless saves overlap |
| `ToldIsKept` | if an existing store can be read, `Spec => []ToldIsStored` |

While one save runs, the list it carries is still the list in memory, and the file it
writes is the temporary one (`AloneInv`); a file that is not whole is being written,
unless something failed (`WriterInv`). What the user was told holds in memory and on the
disk at once (`ToldInv`), and a start carries the second over into the first. The theorem
needs `~Unreadable`: with a store that cannot be read it is false (section 7).

**LanServer and Lan**, for any connections, generations, slots and queues:

| theorem | says |
|---|---|
| `LanTypesOK` | `Spec => []TypeOK`: among others one listener has the port, and slots are not exceeded |
| `HandleIsCurrent` | `Spec => []ListenerIsCurrent`: the bridge's handle is the listener last switched on |
| `NoOtherGhost` | `Spec => []GhostOnlyFromUnpair`: a session without its link only as section 7 has it |
| `ServerIsTold` | `Spec => []AuthorizedIsMarked`: the deadline spares whom the manager authorized |

The difficulty is what a queue says when it is read. `HandleInv` gives each notice in it
what was true when it was sent and cannot cease to be: whoever reported a failed bind is
done, whoever reported to listen still does or was told to stop. `LinkInv` does the same
for connections, whose numbers are not used again. No listener is assumed to find the one
before it done. `CountInv` counts connections per slot, by cardinality, because accepts and
ends may come in any order.

**Ble**, for any centrals, frames and bounds of the two queues:

| theorem | says |
|---|---|
| `BleIsTyped` | `Spec => []BleTypes` |
| `NoQueueIsForgotten` | `Spec => []WaitingIsOwed` |
| `OnlyAuthorizedAreQueued` | `Spec => []QueueIsAuthorized` |
| `NoGhostOfALink` | `Spec => []GhostOnlyFromSwitch` |
| `FramesStayWhole` | `Spec => []FramesAreWhole`, for frames of any number of chunks |

Here each invariant speaks of a position in one of the queues between the threads and of
what stands behind it. A frame that is offered to a central is for an authorized one, or
a drop follows it (`OfferInv`); an `AuthWrite`, a request being handled and an
authorization are each followed by what ends them, in the queue or in what the loop is
doing (`SessionInv`), where "is linked" means that the list of the runtime will have the
central in it once the queue is read. `EndInv` says which links are not preceded by an end
of their own; the others are `outrun`, and so is a central that comes back before a frame
for its last link was queued (`Leftover`). `LinkInv` ties the lists of the main thread to the
links. A central may subscribe between a switch-off and the stop that it posted: no order of
the two is assumed, and the stop makes such a link one of `cut`.

That frames are whole needs a device to be in step with the front of its queue (`Agree`):
it holds just the chunks of the current frame that went out, or it missed the first of
them. A frame is newer than the one before because the frames of a queue, and those that
the closures still offer, are in the order in which they were made (`Ascending`, `Fresh`).
`pump` may hand any number of chunks to the radio in one step, so what the device hears is
a fold, and the lemmas on it go by induction over the chunks.

**Network and BleAuth**, for any devices and connections, and any bounds:

| theorem | says |
|---|---|
| `NetworkTypes` | `Spec => []TypeOK` |
| `StreamsEnd` | `Spec => []NoOrphanStream` |
| `AtMostOneLateLine` | `Spec => []OneLateLine` |
| `OneAtTheManager` | no two requests are handled at once, nor one while the tick seals |
| `DeviceNeverHangs` | `BleAuthSpec => []DeviceGivesUp` |
| `SidesAgree` | `BleAuthSpec => []SessionsMatch` |
| `PairingIsNotWasted` | `BleAuthSpec => []NothingIsWasted` |

`HoldInv`: a mutex is held by one task, at a place where the code holds it. From this the
last but one follows, and that a stream is registered by a task that will take it off
(`StreamInv`). A device that is authorized, or whose line the tick has sealed, was sent
nothing late so far (`LateInv`), which pays for the one line. On the phone, `DeviceInv`:
behind the word that the service changed nothing comes until it has rediscovered; while
it discovers or subscribes it awaits no answer, unless a code was entered in a hurry; and
while it scans nothing of a link is left.

The last two rest on the order of requests and answers along the whole round trip
(`OrderInv`): those that wait for the Mac increase, and are newer than all that is
answered; answers are under way in the order of their requests, the packet that completes
one behind the other. For the sessions (`MatchInv`), a key is known by the request it was
drawn for. The key that the phone agreed on is older than any that is on its way still, of
which none is newer than the Mac's (`KeyInv`, `CodedInv`); so where a code or a proof bears
the Mac's present key, no other key is on the way, and it is the phone's last request or the
phone has begun anew (`RightIsLast`). Then the channel the phone opens on the answer has the
keys that the Mac took for its session (`GrantedInv`, `ProofInv`), and while it stands no
request waits that could replace that session (`ChannelInv`).

For what the user did (`WasteInv`), unless an answer was misread: a code or a proof stands
under the exchange just before it, and the Mac has the handshake of that exchange or none
(`UncrossedInv`), so the right code is found right. What the Mac drew for a proof it keeps
until the proof comes (`KeepInv`): it could go with a handshake that ends in time or with a
switch, which is `swept`, with an unpair, and then the token is no longer known, or with the
end of the last link, which is taken before what was asked over this one (`GoneInv`). A token
that was granted is on its way, or the device has had it or a later one (`GrantInv`).
`SidesAgree` holds even where answers are read as those to other requests, only not where
one was made of halves of two.

**EmitGate, SealedChannel and Mirror**, for any transport, contents, bounds and, for the
last, any periods with `Throttle <= Repeat` (`GateAssumption`):

| theorem | says |
|---|---|
| `CountersUsedOnce` | `MirrorSpec => []NoNonceReuse`: no key seals twice with one counter |
| `OrderIsKept` | `MirrorSpec => []OwnFramesOpen`: what reaches the device opens, if it is of its key |
| `NothingWithheld` | `MirrorSpec => []ShownInTime`: a gate that holds back only what is shown or will be |

For the first, `SealedInv`: a key is made once, by the renewal with its number, and
everything it has sealed is below the counter of the channel that holds it (or the
channel holds a newer key). For the second, `OrderInv`: the one frame that may wait
outside the lock is newer than all on the link, the link is in order, and what is on it is
newer than what the device has accepted under the same key. A renewal between sealing
and writing disturbs neither, because it changes the key, and a key the device has
adopted has accepted nothing yet. For the third, `ShownInv`: what the gate emitted after
the last disturbance is on its way or shown, and a tick that nothing disturbed leaves a
gate whose last emission is younger than `Repeat`. Of a clock that is set back only the
types are claimed (`GateInv`).

**Switches, Discovery and LanTimers**, for any switches, commands and faults, any daemons
and waits, and any periods their assumptions allow:

| theorem | says |
|---|---|
| `SwitchesAreTyped` | the types of settings, bridges and commands |
| `RestartAlwaysFindsAll` | `SwitchesSpec => []RestartFindsAll` |
| `AdvertIsAlwaysWithdrawn` | `DiscoverySpec => []AdvertIsWithdrawn` |
| `TimersFair` | `LanTimersSpec => []TimersAreFair` |

Of a switch that no command has crossed (`SwitchInv`): what it shows, what is saved and
the user's last wish agree, or the command that will make them agree is under way; and
what is on disk is what memory holds, unless a write failed or the start could not read the
file, until the next save. Of a publication
(`DiscoveryInv`): what its daemon still has to do follows from where its teardown stands,
and a repeat is due within `Resend`, so a thread that waits that long and its margin finds
it done. The timers need what held at the last ping: it found the device not silent for
`Idle` (`PingInv`), and a device that is there has answered it or is within its time for
the oldest ping without an answer (`AnswerInv`).

**Quota, Usage and Watchers**, for any lengths of windows and periods, any sessions and events,
any finite set of files (`WatchersAssumption`) and any lines:

| theorem | says |
|---|---|
| `WeeklyIsNotStarved` | `QuotaSpec => []WeeklyComes` |
| `CardShowsThisWindow` | `QuotaSpec => []ShownIsOfThisWindow` |
| `OnlyTheRecentAreListed` | `UsageSpec => []ListIsRecent` |
| `TotalsStayExact` | `UsageSpec => []TotalsAreExact` |
| `AnchorStaysRight` | `UsageSpec => []AnchorOpensWindow` |
| `EveryLineOnce` | `WatchersSpec => []EachLineOnce` |
| `QuotaIsTyped` | `QuotaSpec => []QuotaTypeOK`: among others no slot holds a window that has not begun |
| `UsageIsTyped` | `UsageSpec => []UsageTypeOK`: counters saturate, and the ring has no more entries than the log |
| `WatchersAreTyped` | `WatchersSpec => []WatchersTypeOK`: only lines that were written are sent or give limits |

`WeeklyInv`: one query runs at a time, whoever runs it asked before the patience was over,
and when none runs it is not over yet. `CardInv`: the percentage and the reset of a
window are of the same window, except between the two writes that belong together, and
then the rest of the list says what follows, and except in a window of `halved`; the cache
and an answer under way hold nothing of the future. Which headers a response has is left
open: `Halves` says of which window they leave one half behind. `SessionInv`: a session bears
the stamp of the usage that came last, or that stamp is older than a bucket; if usages come
in the order of their stamps it is the newest. The induction is over steps, with the log
growing at its end.

For the totals, `CellInv`: a cell holds the newest bucket of its slot and counts its
usages, up to saturation. No two cells count one usage, so the sum over the cells, a fold,
is the number of usages in a union of disjoint sets, and a usage is in none only if its
bucket is too old or was `taken`. The ring (`RingInv`) has, from every stamp on that
`prune` must keep, as many entries as the log has usages.

For the anchor the invariant (`TimesInv`) says only that no stamp within the lookback is
missing and none is invented; the rest is about two definitions. The walk of the code keeps
the last start it has found and passes over what is less than a window after it;
`WindowStarts` defines all starts at once. That a set of starts exists is a lemma, without
which the `CHOOSE` would say nothing (`WindowStartsAre`). By induction over the stamps the
walk's start is the last of that set so far, if the first stamp kept is one (`AnchorIsLast`).

For the watchers, `InStep` relates a file that was not cut to its offset and to what was
sent: each newline follows its own text, the offset is at the end of a line, of the lines
that are to be passed on just those before it were sent, in their order, and half a line was
neither sent nor found by a poll. `WillBeRead` accounts for each line that was not read: its
file is on the list of the scan, a notice is in the channel, the last read of its file failed
or broke off, Codex' poll did not find it, Antigravity missed it before the watch was
registered, or it is in a deeper directory, of which Claude's scan takes no note. Besides, a line is in one file
(`Disjoint`), notices are collected by the time they are needed (`Staged`), and the limits
are those of the line before some offset (`LimitsAreRead`). One `Tailed` reads any number of
lines: what it sends is a fold over the ends of lines between two offsets, and that the fold
yields them in order is shown by induction too.

The ranges of the three type invariants follow from these invariants with a few facts more
(`QuotaRange`, `UsageRange`, `WatchersRange`), which are inductive beside them. That a line may
be there when the watcher starts needs a bound of one line at least: `WatchersAssumption`
has `MaxLines` positive.

*Induction over data* in `BleProofs` and `ReadingsProofs` is not that of the library, which
takes the statement as an operator. A statement is put as the set of the numbers it
holds for, and the lemma `Inductive` says that such a set contains all of `Nat`; it follows
from the least element that every set of numbers has (`WellFoundedInduction`).

In all of them TLC has checked the inductive invariant, or the conjuncts that the run's
properties do not state, on the instance of the run before it was proved.

What stays with TLC, and why:

- *Liveness and ENABLED*: `StrangersLeave`, `UnpairedLeave`, `LinkEndsSession`,
  `SwitchSettles` (`lan_fair`), `AuthIsHandled`, `StaleStreamGoes` (`network_fair`), and the absence of deadlock.
- *The parser of the blobs* (`Protobuf`): what it computes for every input is an induction
  over a recursive walk that has not been done; TLC compares it with an encoder.

Every invariant of the passing runs is the statement of a theorem, and so are
`ImplementsAccess` and `RevokedStaysOut`: of what the passing runs check only the six
properties under *Liveness* are not proved, and the absence of deadlock.

## 7. Findings and observations

Checked by a run that TLC must find violated:

1. **An unpaired device comes back** (`unpair_undone_by_a_save`, `lib.rs:325`).
   `save_paired_peers` copies the tokens under the mutex and writes without it. A save for
   another device that copied before the unpair may write after the unpair's own save:
   the store then holds the revoked token, and at the next start it is loaded.
2. **A session outlives its link** (`network_session_outlives_link`, `lib.rs:1254`). At the
   end of a QUIC connection only `forget_central` is called, and nothing on this transport
   calls `end_session`.
3. **A refused chunk is sent to everybody** (`ble_chunks_reach_others`, `ble/macos.rs:187`).
   When `updateValue` for one central is refused because the radio's queue is full, it
   is repeated at once with no list of receivers, that is for all subscribers.
Stated in the modules and false of the code, each the other side of an exemption of a
property that a run does check; TLC finds each violated in the instance of `readings` when it
stands there as the invariant:

- **A fresh percentage is shown as 0** (`FreshIsShown` of Quota, `quota_proxy.rs:252`). The
  utilization and the reset of a window are headers of their own. A response with the first
  and without the second, at a time when the reset kept is past, leaves that reset where it
  is, and the card takes the percentage for one of a window that ended. `apply_usage_pct`
  deletes such a reset, `observe` does not, and the comment at `quota_proxy.rs:96-98` takes
  it that both always come together. `ShownIsOfThisWindow` exempts the window (`halved`).
- **A deeper transcript is not read at the start** (`StartReadsEachFile` of Watchers,
  `watchers/claude.rs:209`). The watch is recursive, the scan lists one level: what such a
  file holds is missing in the totals until the file is written again. `EachLineOnce`
  exempts it until then (`DeepFile`).
- **An older usage hides a session** (`UsedIsListed` of Usage, `aggregator/mod.rs:104`).
  `last_event_at` is the stamp of the event that came last. When several files have lines of
  one session, an older one that is replayed after a newer makes the session look idle, and
  it is dropped from the list. `ListIsRecent` exempts such a session (`InOrder`).

Seen while modelling, within the models but not claimed by a property:

- *BLE, off and on again.* `ble_set_enabled(false)` reads the served centrals, stops, and
  ends their sessions after another wait (`lib.rs:121-128`). A device that subscribes and
  authenticates again in between loses its new session while its queue stays
  (`outrun`). The same happens when its link comes back before the event loop has taken
  the end of the last one.
- *BLE, a late request.* An `AuthWrite` queued before the switch went off authorizes its
  central afterwards, with no link to end it (`cut`). A `Subscribed` queued then puts a
  central back on the list that `stop` has cleared. A central may also subscribe, and be
  authorized, between the switch-off and the stop, which is a closure posted to the main
  thread (`lib.rs:121-128`, `ble/macos.rs:498-524`); its session was not among those
  collected, and whether a callback tells of its end is up to the system.
- *BLE, an answer is read by what was sent last* (`BLEClient.swift:743`). A second code that
  is entered before the first was answered (`PairingViewController.swift:87`, the button is
  not disabled) starts a new handshake; the answer to the old request is then read as that
  to the new one, and as it does not fit, the phone discards a token that may be valid
  (`crossed`, `hurried`). An `AuthWrite` of the connection before is answered on the present
  one, with the same effect.
- *BLE, halves of answers.* All frames of answers have the number 0xFF, and
  `authReassembler` is not reset when the service changes, although the comment at
  `BLEClient.swift:261-264` says that every path resets: the half of an old answer may be
  completed by the half of a new one (`mixed`). What comes of it may be read as a grant, on
  which the phone opens a channel that is not the Mac's session. It takes six requests, two
  switches and two refused packets, beyond the bounds of the run; TLC finds it from the
  state in which the first half of a grant has been kept.
- *BLE, off and on again, the phone's side.* Ending the sessions after the wait also ends a
  handshake begun since, so that `PROOF2` is rejected and the phone discards a valid token
  (`swept`). So does one that the Mac let expire.
- *BLE, a lost grant.* If a packet of `Granted2` is refused by the radio, the token is on the
  Mac and in its list of devices, and no device has it (`dropped`).
- *LAN, unpairing a device that talks.* `unpair` revokes first and drops the connections
  later (`lib.rs:475`, `lan/mod.rs:316`). A device that pairs again on the same
  connection in between is authorized, taken off the list, and no later event ends it:
  the reason for `dropped` in `GhostOnlyFromUnpair`.
- *Network, the switch is read early.* It is looked at before the request is read
  (`lib.rs:1219`), so a request under way still authorizes while sharing is off; the
  comment there says it is looked at just before.
- *Network, streams.* `register_snapshot_sender` is guarded by `has_snapshot_sender`
  (`lib.rs:1243`), so a stream is never replaced as `network/mod.rs:127-129` says; the end
  of an old connection removes the newer one's stream, for both have the device's id; a
  stream may be registered after the switch went off (`lib.rs:1245`), until the tick
  removes it.
- *Network, a peer that does not read.* The tick writes under the bridge mutex. A request
  on this transport takes the pairing mutex and then waits for the bridge, so pairing on
  all transports waits too, for as long as the write does, although
  `lib.rs:1603-1606` releases the pairing mutex early to avoid just that.
- *Peer store, overlapping saves* share the name of the temporary file
  (`peers.rs:150-157`): one may remove, or rename half written, the other's. The torn file
  is visible until its writer is done (`SavesRecover`), and for good if it is killed then.
- *Peer store, a read error* other than "not found" is taken for a missing store and
  migrated over (`peers.rs:114`).
- *Gate.* If the wall clock is set back, every snapshot is held back until it has caught up
  (`emitter.rs:21`); `ShownInTime` exempts it.
- *Switches.* Of two commands for one switch that cross, or one that crosses the restore,
  the settings file may keep the one that lost (`lib.rs:513`); `RestartFindsAll` exempts it.
  A `settings.json` that cannot be read or parsed counts as none, without a word
  (`settings.rs:57-63`), and the next save writes the defaults over it (`unread`).
- *LAN, off and on again.* A new listener waits three seconds for the old one
  (`lan/server.rs:567`). If that one needs longer, the new one meets the port of its own
  predecessor, and the panel shows an error that comes from nobody else.
- *Aggregator.* When the oldest stamp kept slides out of the lookback, every later boundary
  of the five-hour windows may move (`aggregator/mod.rs:170`; the comment at 119-120 takes
  the anchor for right). An old event that is replayed last erases the current bucket's
  cell if it shares its slot (`rotating.rs:29`). Stamps of the future are dropped for good by
  the next snapshot, and a preview is lost when its session is pruned.
- *Watchers.* A file that cannot be opened consumes its notice; if Codex' poll meets it the
  first time it counts as known at offset 0, so its old lines pass at the next poll
  (`watchers/codex.rs:282-290`). A file that was truncated and has grown past the offset is read on from the
  middle of a line. On Codex' first pass the limits end up as those of the *oldest* of the
  threads looked at, because they are read newest first and each sets the limits
  (`watchers/codex.rs:364`; the comment at 272-273 means the newest).
- *Blobs.* `pos + len` may wrap near 2^64 (`watchers/antigravity.rs:145`), and the slice that
  follows panics and ends the watcher's thread; so does a time stamp beyond the clock's
  range in `parse_step_timestamp`. `decode_file_uri` makes a character of each escaped byte,
  which garbles paths that are not ASCII (`watchers/antigravity.rs:381-386`).
- *Quota.* Antigravity's pollers have no in-flight guard, and every slot has its own mutex,
  so two writers can mix their slots; a query under way when its window ends leaves the
  old percentage without a reset (both are `spoilt`). The cache file is written in place,
  so a kill can leave one that does not parse; `load_persisted` does not set
  `last_updated`, so the ticker asks at once after a start.
- *Discovery.* At the app's end `Drop` only spawns the teardown thread, which ends with the
  process, so the goodbye that `lan/discovery.rs:185-187` counts on may not go out.
- *Timers.* The deadline counts from the connection, not from the window: a code shown more
  than 30 s into a connection (`AUTH_DEADLINE` minus the window's two minutes) may outlive
  it, and the deadline then cuts a person who types in time. A device that takes longer than `IDLE_TIMEOUT - PING_INTERVAL` (60 s, not 90 s)
  over a Pong may be cut, for `last_seen` counts from before the ping
  (`lan/server.rs:176-183`).
- *Documentation.* `lan/server.rs:28-46` says nothing bounds a peer before the HTTP
  request; the code has a semaphore and a ten-second limit. `emitter.rs:35` says unchanged
  content is suppressed for ever; it is sent again after five seconds.

## 8. Not modelled

- *Data and presentation*: the wire formats, the parsers of JSON lines in the watchers,
  smoothing of the rate, the front end, tray, iOS views and the CYD's screens, the
  golden vectors and vendored crates: no protocol state.
- *Cryptography* is symbolic in `Pairing` and `SealedChannel`. That the primitives are right,
  and the golden vectors between Rust, Swift and C++, is the tests' part.
- *Replies*: the HTTP pages of the LAN server and of the quota proxy, status commands, the
  pairing panel.
- *I/O behind one call*: iroh's connection set-up, CoreBluetooth's own queues (modelled by
  what the callbacks may say), the pipes to `codex` and the pass-through of the proxy.
- *The app's end* in Discovery: the process ends, and what its daemons announced is
  forgotten by the devices' caches in time.
- *Authentication inside Lan, Network, Ble and Mirror* is "the request authorizes the central
  or does not"; which it is, `Pairing` says.
- *Clients*: but for the iOS BLE client, the iOS app and the CYD firmware are peers that may
  send any request at any time; their own reconnection, back-off and token slots are not modelled, nor is the app's
  fleet of several Macs.

## 9. Plan

Done: pairing with its abstract specification and proofs; the peer store; the three
transports; the iOS BLE client against the Mac; the way of a snapshot; discovery, timers and
settings; the readings.

Next, in this order:

1. `MirrorClient` and `CydAuth`: the other clients' connection machines (`ios/Sources`,
   `firmware/cyd/src/transport.cpp`), closed against `Access`.
2. Ble: two devices in one passing run.
3. The pairing panel and the commands that begin and end a window, against `Access`.

Compositions: each transport against `Access` as the abstract pairing service, so that
"sent to" implies "has a session" for the three at once.

Theorems next: that `Ble`, `Network` and `Lan` each implement `Access` in this sense, and
that `Protobuf` reads back what its encoder writes, for buffers of any length.
