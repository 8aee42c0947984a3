# A TLA+ model of spl-rust

spl-rust carries HTTP between a paired device and its home over one mutual-TLS
connection, the *carrier*, either direct or through a relay. The carrier is
multiplexed into streams with per-stream credit windows. A public *bridge*
routes browsers to journals that keep such a carrier to it.

These modules model the carrier from end to end (flow control, both muxes, the
coordinator that drives the dialer, the home's driver and pipes), the components
of a device and a home around it (client, tokens, pairing, relay service,
journal bridge), and the bridge (registry, leases, keys, certificates). TLC
checks their properties on small instances. The safety of seven components (flow
control, the listener's mux, the transport client, the carriers of the journal
bridge, the home relay, the bridge's registry and its leases) is also proved with
TLAPS, for every size.

## The system and its parts

Sources are under `src/crates/`.

| part | source | module | what is hard about it |
|---|---|---|---|
| Flow control of a stream | `spl-core/src/mux.rs`, `spl-home/src/mux.rs` | `CreditFlow`, `BytePipe`, `CreditFlowProofs` | withheld grants against a sender that waits for a whole chunk |
| Frame format, decoders | `spl-core/src/frame.rs`, `spl-home/src/mux.rs` | `MuxFrames`, `FrameFeed` | bytes cut anywhere, payloads skipped before they arrive |
| Listener mux | `spl-home/src/mux.rs` | `MuxAcceptor`, `AcceptorAnyPeer`, `AcceptorProofs` | any frame in any order; slots freed on several paths |
| Home driver, handles, tally | `spl-home/src/connection.rs` | `HomeDriver`, `HomePipe`, `CarrierTally` | handles, driver and readers on different threads |
| Dialer mux, coordinator | `spl-core/src/mux.rs`, `spl-transport/src/journal_bridge_carrier.rs` | `CarrierDialer`, `DialerAnyPeer`, `MuxLink` | late frames of forgotten streams, bounded queues |
| Carriers of the journal bridge | `journal_bridge_carrier.rs`, `journal_bridge.rs`, `handshake.rs` | `BridgeCarrier`, `BridgeCarrierProofs` | late outcomes of replaced carriers, redial, shutdown |
| A forwarded request | `journal_bridge.rs`, `journal_bridge_carrier.rs` | `JournalForward` | a `select!` loop that drops half-done steps |
| The local gate | `journal_bridge.rs`, `spl-core/src/bridge.rs` | `LocalGate` | one-time links, cookies, attribution, redirects |
| Transport client | `client.rs`, `request.rs`, `lib.rs` | `TransportClient`, `TransportClientProofs` | refresh, fence and replay under cancellation |
| One-shot exchange | `connection.rs` of spl-transport | `OneShot` | answers that overtake the request |
| Web socket carrier | `relay.rs` | `WsDuplex` | message boundaries, which end comes first |
| HTTP readers | `relay_http.rs`, `spl-core/src/http.rs`, `mux.rs` | `HttpReply` | chunk framing cut anywhere, two readers |
| Relay tokens | `relay_token.rs`, `relay_pairing.rs`, `jwt.rs`, `relay_access.rs` | `RelayToken` | integer limits, downgrades, spelling of origins |
| Pairing, pair window | `pairing.rs`, `relay_pairing.rs`, `tls.rs`, `spki_pin.rs`, `pairlink.rs`, `crockford.rs`, `pair_window.rs` | `Pairing`, `PairLink`, `PairingCases` | one nonce, several candidates, three pins |
| Home relay service | `home_relay.rs` | `HomeRelay`, `HomePipe`, `HomeRelayProofs` | stop against running tasks, admission |
| Bridge registry, router | `spl-bridge/src/registry.rs`, `lib.rs`, `routed.rs` | `BridgeRouter`, `BridgeRouterProofs` | replacement, drain, unanswered clients |
| ClientHello reader | `spl-bridge/src/sni.rs` | `ClientHello` | records and peeks that split the hello |
| Bridge frame dialer | `spl-bridge/src/frame_dialer.rs` | `BridgeDialer` | callers that leave, a writer that stalls |
| Leases, proof of possession | `lease.rs`, `pop_auth.rs` | `PopLease`, `PopLeaseProofs` | two clocks, nonce slots |
| Signing keys | `pop_auth.rs` | `JwksKeys` | single flight, stale keys |
| Certificates | `control_cert.rs`, `bin/spl-bridge-activate.rs`, `bin/spl-bridge.rs` | `CertActivation` | crashes between steps of two processes |

A request travels from the journal bridge through the coordinator and the dialer
mux over the carrier to the listener mux, then through the home driver to a
handle; the home relay's pipe copies between that handle and the local server.
The reply goes the same way back.

## Modules

Data is abstracted to what the properties tell apart: bytes to lengths or
offsets, frames to their stream id, flags, length and credit, keys and tokens to
model values with the relations the code checks between them. Control is kept:
one action per handler, poll or task step, split where the code awaits, so that
a cancellation or another task can come in between.

- `BytePipe` is the promise of one direction of a stream: what is read is a
  prefix of what was written, and the end comes after all of it. `CreditFlow` is
  shown to implement it by refinement, and so is the read side of `WsDuplex`.
- `CreditFlow` has both kinds of sender and both channels. `CreditFlowProofs`
  holds its theorems.
- `MuxAcceptor` has one action per frame handler and call. Each leaves its
  `MuxOutput` in `out`, which the module that runs the acceptor reads in the same
  step. `AcceptorAnyPeer` runs it against a peer that sends any decodable frame
  and keeps the history of each stream. `AcceptorProofs` holds its theorems.
- `HomeDriver` is `run_driver`, `flush_ready` and `deliver_output`: a turn is a
  frame or a command and then one step per flushed stream. `HomePipe` adds
  `pipe_stream`, `pump_stream` and the polls of `HomeStream`.
- `CarrierTally` is what the driver publishes about itself through atomics. Each
  atomic is the sequence of its values, and `record_answers` and `snapshot` are
  split at every access. A load returns any value at least as new as the reader's
  last, which is all a relaxed one promises.
- `CarrierDialer` is `CarrierDemux`, `WindowedUpload`, the coordinator's loop and
  `StreamRx`. A turn is one `select!` branch, then the routing of each item, the
  retries and the pump, in the code's order. `DialerAnyPeer` runs it against any
  peer; `MuxLink` joins it to the acceptor with two channels.
- `BridgeCarrier` is `MuxCarrier`: the slot with the current carrier, the dial,
  the hand-over of a request to a coordinator or back, the live guard of each
  task, the status record with the refusal tracker, and shutdown.
- `JournalForward` is one request in `forward_upstream`: the upload with its body
  budget, the response forwarder with its writes to the caller, and the delivery
  queue, with every branch that the loop may drop halfway.
- `LocalGate` is the request gate: bootstrap links, the capability cookie, and
  what the rewriting of headers, cookies and redirects does.
- `TransportClient` has calls with a replay policy, and the blocking task that
  publishes a token and outlives a cancelled call.
- `OneShot`, `WsDuplex`, `HttpReply`, `FrameFeed`, `ClientHello` and `RelayToken`
  are sequential code against an environment that cuts, delays or chooses its
  input; their properties compare the result with a reference reading.
- `PairLink` is the pair link down to its bits; `Pairing` the devices, the
  candidates they try and the window at the home. `PairingCases` lists the links,
  chains and certificates of the instance.
- `HomeRelay` is the listen loop, tunnel tasks, admission and `stop()`, and the
  carrier drivers, which no task owns.
- `BridgeRouter` is the registry, the admission of journals and the path of a
  client; `BridgeDialer` one connection with its coordinator, reader and writer
  tasks; `PopLease` registrations under a lease with a monotonic and a wall
  clock; `JwksKeys` the key aggregator; `CertActivation` the activation tool and
  the bridge's loader over one directory.

### Runs over several components

Components that share no state are checked in one run: `Slots` declares one
`part` variable and thirteen slots, and `MCBridge`, `MCEnds` and `MCProgress`
instantiate each component on the first of the slots. The first state chooses the
part; every step is a step of that component, and every property speaks of the
part it names. The state space is the disjoint union of the components' own.
`MCLink`, `MCHomePipe` and `MCCreditFlow` do the same under the components' own
variable names. `MCLink` and `MCCreditFlow` extend the module that theorems are
about, so its properties are the very definitions the proofs use; its variables
rest while another part moves. Assumptions on constants of components that are
only instantiated are operators there, and the MC modules assume them.

## Runs

| run | instance | what it shows |
|---|---|---|
| `credit_flow` | one direction, window 4, threshold 2, chunk 3, stage 3, 8 bytes; and both ends with one id, window 2, request and reply longer than the window, resets and stops | For both kinds of sender: bytes and grants arrive in order and in full, no end is refused, the receiver's assertions hold (`StreamIsSound`), the direction implements `BytePipe` (`PipeSpec`), every byte supplied is read and shutdown reaches the reader (`EverythingArrives`). 8 bytes is two windows, so credit runs out and is returned. Chunk + threshold is window + 1, the tightest that cannot stall; the code's constants leave more room. Over both ends, a request ends for its application and its slot at the home comes back (`RequestsEnd`). |
| `home_pipe` | one stream with window 2, stage 2, reply 4, all failures, two threads; and two streams with window 1, stage 2, replies of 3, one thread | Stage, held bytes, credit and readiness agree (`PipeAccounts`); CLOSE follows the whole reply and slots are freed (`PipeEnds`); long replies arrive (`RepliesArrive`). |
| `link` | the listener alone, ids 1, 2 and 3, window 3, one slot; both ends, window 3, reply 4; the dialer alone, window 2, any frame; two uploads, window 1 | For every sequence of frames and calls the listener's table holds exactly the open streams, windows add up and the cap holds (`AcceptorBooks`); events and frames of a stream keep their order and no id is opened twice (`AcceptorSteps`). Id 2 has the wrong parity; payloads reach one byte above the window. With frames crossing in flight the ends agree on streams, credit and responses (`LinkAgrees`); the dialer's tables, credit, uploads and deliveries are consistent whatever arrives (`DialerBooks`); no honest end accuses the other, and the frames of a stream keep their order (`FramesAreSound`). |
| `bridge` | one caller against any frame, two callers that compete; two registrations and two clients; two keys; three certificate generations; two journals and two nonces; every hello of up to two extensions | Frames to a journal are in order and its credit exact; a serving registration is the one routed to; unanswered clients are closed early only for causes that say nothing of their label; keys are recent; the active certificate is complete and fits its key, and when nothing more is asked of the bridge it serves the active one, unless a read failed or it was never signalled; leases keep their deadlines and slots and a retired one stays so; a client is routed where its hello says. |
| `ends` | two calls, requests, carriers, browsers, devices; three tunnels; tokens over a 5-bit integer; every cut of small messages | Nothing that may not be repeated is sent twice; tokens are durable before they are live, published only inside the fence and only improve; the relay's and the bridge's accounts are true and stops final (no carrier begins to be driven once `stop()` has returned); forwarded bodies are intact; links admit once; the journal sees its own cookies, headers and redirects; pairing is pinned and single; cuts of the bytes do not matter; the web socket is a byte pipe; a tally shows a silence that lasts, and the first reason to stop. |
| `progress` | the components with tasks, smaller | Callers are answered (`CallsReturn`), what is told to end does (`WorkEnds`), nothing is kept for nobody (`NothingIsKept`). |

Every instance is the smallest in which the window runs out, each queue fills,
each limit is reached and each race has its two actors. `MaxCredit` stands for
2^31 - 1 and is small enough that a grant can pass it. Names starting with `Max`
are bounds of the model unless the module says which limit of the code they are.
`bridge` and `ends` use symmetry over `x1` and `x2`, which stand for the two
callers, clients, lookups, journals, calls, requests, browsers or devices of a part
(and `bridge` over nonces); no definition orders them or chooses from them. A lease
lasts at most 8 units of its clock, so `MaxTime` 9 lets one lapse.

Six runs check a statement of the repository's documents and find it violated:

| run | statement | what the code does |
|---|---|---|
| `half_close` | session.md:229, half-close keeps its meaning | `pump_stream` returns at the end of the peer's direction. Dropping the handle resets the stream, and a reply not read from the socket by then is lost. |
| `forgotten_stream` | framing.md:97 and 112, a stream is forgotten once both sides closed or one reset it | A home that closes before it has sent a whole response head: `CarrierDemux` forgets the stream on that CLOSE although its own upload has not ended. Neither CLOSE nor RESET follows, so the home keeps the slot until the carrier ends. |
| `reset_parked` | framing.md:47, RESET aborts the stream | A pipe whose writer waits for room in the stage is woken neither by a RESET nor by the end of the carrier, and never returns. |
| `lost_wake` | config.rs:24, the stage's bound on backpressure | `reserve_staging` stores its waker after it saw the stage full. If another thread releases the whole stage in between, nothing wakes the writer. |
| `tally_race` | connection.rs:81 of spl-home, a racing reader over-reports a silence | Stores and loads are `Ordering::Relaxed`: a snapshot may see the new instant with the old high-water and report less than the silence that has just ended. |
| `stop_driver` | home_relay.rs:474, `stop()` awaits all tunnel work | `HomeConnection::accept` spawns the carrier's driver and drops its handle. The driver of an aborted tunnel keeps its socket until the peer ends the carrier or opens another stream. `StopIsFinal` is what does hold: no driver starts any more. |

`link` shows the other side of `forgotten_stream`. A response head that arrives
before the upload has ended makes the dialer reset the stream, so a home that
always sends a head never loses a slot, even when it replies early.

### Statements that do not hold and have no run

Modelling met further statements that the code does not keep to the letter. Six
are in the modules, with a comment, and no configuration lists them:

- `WriterSelfTerminates` (`BridgeDialer`): registry.rs:203 counts on the carrier
  tasks ending by themselves; a writer blocked on a journal that has stopped
  reading does not.
- `DrainRetiresAll` (`BridgeRouter`): RUNBOOK.md has every registered journal
  retired on SIGTERM; one that commits after `shutdown_all` emptied the map is
  not.
- `EveryStopReturns` (`HomeRelay`): if the `stop()` that collects the tasks is
  dropped, another that waits for it is not told. `WorkEnds` excludes that case.
- `HookAfterRelease` (`TransportClient`): client.rs:194 says that the persist hook
  is called after the refresh mutex was released; `persist_token` runs before the
  guard is dropped.
- `LaterReadAgrees` (`Pairing`): pairing.rs:386 says that later reads take the
  certificate it checks as the CA. With an empty first bundle they do not: the
  check flattens the bundles and later reads look into the first one only.

- `NothingAfterClose` (`BridgeDialer`): framing.md:46 says that the sender of CLOSE
  sends no more. A caller that drops a write which waits for credit and then shuts
  the stream down is closed at once, and the bytes of that write follow when credit
  comes. Nobody in the bridge does this; the stream's interface allows it.
  `JournalStreamsExact` is checked with such callers: what precedes CLOSE is exact.

In `ClientHello`, a hello longer than the windows below the last
may be refused when it arrives slowly, which `RoutingIsExact` allows for.

### Fairness

In `CreditFlow` the tasks that pump frames, the carrier, and the reading
application keep going; nothing is assumed of the application that writes. In
`HomePipe` the runtime polls every task that can move (weak fairness for the
driver and each pipe), and the peer grants back the credit of what it has read.
The driver reads the carrier only between its turns, so a WINDOW is
intermittently readable; its `select!` prefers the carrier, which is why strong
fairness is justified there.

In `MuxLink` a turn of the coordinator that has begun goes on (weak fairness
within a turn). A branch of its `select!` is open only between turns, so each
branch has strong fairness: tokio's `select!` picks among the ready branches at
random and starves none for good. The home moves only between the coordinator's
turns in this model, which is why its reads and its application, which in the
code run on their own, also have strong fairness. The application that waits for
the response keeps receiving (weak fairness), and a home
whose carrier has ended notices it. Resets and the end of the carrier may happen
but are not assumed to.

`progress` uses weak fairness only: the runtime polls tasks that can move,
timers that are armed fire, and a supervised process that died is started again.
Network outcomes are fair only in that an exchange with a deadline ends somehow.
Callers, peers, failures, cancellations, resets and stalls are never assumed. A
stalled journal excuses `BridgeDialer`'s calls, except an open on a connection
that is gone. In `JournalForward` a write to the local caller has no deadline: it
completes or fails only for a caller that goes on reading, and a request whose caller
has stopped is ended by a shutdown alone. `WorkEnds` says exactly that. In
`TransportClient` the close of a connection after its response has no deadline
either; it is taken to complete.

`RepliesArrive` is checked with driver and handle on one thread. With two
threads it is false, which is the `lost_wake` run.

Deadlock is not checked where a finished stream, call or process is a legal end;
that nobody waits for ever is what the runs with fairness check.

## Proofs

`CreditFlowProofs` proves, for all sizes that satisfy the assumptions of
`CreditFlow`, the type invariant, `InOrder`, `Conservation`,
`NoFlowControlError`, `ConsumeNeverPanics`, `EofIsComplete`, their conjunction
`StreamIsSound`, and that `Spec` implements `BytePipe`. The inductive invariant
`IInv` adds to those that the order of the counters is fed, sent, got, read,
granted, regained, and that a CLOSE is the last frame on its channel. The order
is needed because the refusals are comparisons of a frame's length with the
credit left: only when the intervals in flight close the gap between the two
ends, and the credit is conserved, does that comparison always succeed. Nothing
but the sizes is assumed.

`AcceptorProofs` proves, for every window, threshold, chunk, credit cap, stream
limit and set of ids, and a peer that may send any decodable frame: the type
invariant, `WindowAccounting`, `TableMatchesHistory`, `WithinLimit` (together
`AcceptorBooks`), and the action properties `NeverReopened` and `OrderlyLife`
(together `AcceptorSteps`). The inductive invariant `IInv` adds `OpenedBelow`,
that an id with a history was opened and is not above `peer_high_water`. Without
it a fresh OPEN could meet an id that is over, and its new entry would contradict
the history. It also says that the table is finite, which the count against the
limit needs. A handler's output is reduced to the kinds of events and terminal
flags it contains (`Kinds`, `Written`). Four lemmas then cover every handler: one
for a step that removes a stream, one for a step that changes it, one that opens
it, one that keeps the table. The order of events follows from the invariant in
the state before the step.

The five proofs that follow are about components whose state is shared by several
tasks. Each assumes one definition about its constants, which the MC modules
assert and TLC evaluates, and holds for any number of calls, requests, carriers,
registrations, clients, journals, tunnels and so on. Each inductive invariant was
model-checked on the component's instance before it was proved.

`TransportClientProofs` (from `ClientConstants`: at least one attempt and one
transient retry) proves `NothingSentTwice`, `LiveIsDurable`, `PublicationIsFenced`
and `NoLostRefresh`, and that at most one call refreshes or publishes at a time
(`SingleFlight`). The invariant has to follow the refresh lock past the end of the
call that took it: a publication that outlives a cancelled call still holds it
(`LockHeld`), still replaces the token it started from (`Replacing`), and keeps
the consumer's fence where the permit found it (`InSection`). That a request was
written once follows from a stronger fact: a call under way has not written a
request it may not repeat (`Unsent`).

`BridgeCarrierProofs` (from `CarrierConstants`: a refusal limit and a queue of at
least one) proves `NothingSentTwice`, `CarrierStatusIsTrue` and `StopIsFinal`. A
request may be claimed once because it is in at most one queue, at most once, and
goes back only from a carrier whose coordinator is gone (`CallOK`, `QueueOK`). The
status is true because only the carrier in the slot, or the one that shutdown
took, runs (`Slotted`), and because the slot is locked during a dial only when its
carrier is dead (`Locked`). Refusals are counted once because the newest attempt
is not counted while its outcome is open, and late outcomes of older ones are
dropped (`Attempts`).

`HomeRelayProofs` (from `RelayConstants`: a ceiling of at least one) proves
`RelayAccounts`. Every task that runs is kept for `stop()` or was aborted by it
(`Handles`), which is why none is left when a call has returned. Drivers are not
among them; that none starts after that (`NoDriverAfterStop`) follows because only a
tunnel task in its handshake starts one. The newest
refusal is in the health record or in the hands of a task that will report it
(`Refusals`), although several tasks may write numbers they read earlier.

`BridgeRouterProofs` (from `RouterConstants`: the limits are natural numbers)
proves `ServingIsCurrent` and `EarlyCloseHasCause`. An entry of the map is of a
registration for that name whose watcher has yet to remove it (`Entries`), so a
watcher that compares generations never removes another's entry; a routed client
holds a registration, never a candidate (`Routes`). A splice may end early because
the client left, the journal had answered, or the journal aborted the stream or ended;
the invariant ties each to the state it leaves behind.

`PopLeaseProofs` (from `LeaseConstants`) proves `LeaseIsKept` and
`RetiredIsFinal`. The assumption that matters is `AttemptTimeout < RenewalWindow`,
10 s and 120 s in the code: without it an attempt started in time could end after
the lease. As long as nothing went wrong, the monotonic deadline agrees with the
system clock and the next attempt, or the one that runs, ends before it
(`OnTime`); a lapsed lease is met by a reconciliation that was set before it
lapsed (`Watched`), whatever the clock did since.

In these proofs most actions change one record of a function. One lemma per kind of
record says what such a change has to keep, and each action's step shows that its
own record does. The action properties are proved in the same step as the
invariant (`Kept`).

All proofs rest only on the named assumptions about constants, which TLC also
evaluates. Liveness and fairness stay with TLC, and so does what the recursive
readers of `HttpReply`, `FrameFeed`, `ClientHello` and `OneShot` compute: the
prover handles neither. The other components are only model-checked so far.

## Not modelled

- TLS, signatures and certificate encoding: a handshake ends in one of the
  outcomes the code tells apart, and keys are values with relations.
- Configuration, serialised records, tracing and error texts.
- `HomePipe`: a poll of a handle is atomic except for the one gap that
  `lost_wake` is about; frames that cross on the carrier are in `MuxLink`. A home
  that resets a stream does so with reason CANCEL; the dialer treats the other
  reason the same. `reserve_listener_id` of the acceptor is used by a test only.
- `CarrierDialer`: the command queue is unbounded, ids do not wrap, bodies are
  not chunked; the bounded queue and the body budget are in `JournalForward`,
  chunks in `HttpReply`.
- `BridgeCarrier`: the keepalive is a step that may fail (its count of probes is
  abstracted), a dial suspends at least once, and `last_failure`, contact times
  and the status broadcast are left out.
- `HomeRelay`: `listen_generation`, timestamps and `last_failure`.
- `LocalGate`: the static bootstrap mode, the gate switched off, and the reading
  of the request head's bytes.
- `BridgeRouter`: bytes of the PROXY header and of the splice.
- `CertActivation`: options and output.

## What is left

Proofs of the safety core of more components: `KeyIsRecent` of `JwksKeys`, the
activation of `CertActivation`, `TokenOnlyImproves` of `RelayToken`, the tables and
the credit of `CarrierDialer` for any peer, the staging account of `HomeDriver`.
