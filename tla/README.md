# A verification of libp2p-relay-holepunching

TLA+ models of the programs and protocols of this repository, model checked
with TLC, with theorems checked by TLAPS.

## The system

A *node runner* and a *mobile client* behind NATs meet through a DHT bootstrap
server and a circuit relay, get connected (directly, or over the relay until
hole punching replaces it), and then exchange requests: ping, status, info,
start a stream, stop the stream. A *chat client*, older than both, does with
plain PING lines over a stream what the others do with messages; so do the two
themselves for the streams that other programs open to them. A *signed* ping
protocol is the earlier form of the messages.

| Component | Source | State | Operations | Hard behaviour |
|---|---|---|---|---|
| `sendProtoMessage` | `ping/ping.go` | a call's two streams | one message per stream, one retry | connectedness read twice, partial writes, a nil stream, concurrent calls |
| stream control | `ping/{ping,startstream,stopstream,status}.go` | the package variable `isStreaming` | test, assign, read again | no lock, concurrent handlers, one flag for all peers |
| exchange | `ping/*.go`, end of `main` in `node_runner`, `mobile_client` | the loop, the handlers, the unbuffered `done` channel | six requests, one select, a handler per message at each end | lost and reordered messages, handlers that block for ever, tokens that end the wrong exchange |
| start-up of the node runner | `node_runner/main.go`, `shared/shared.go` | 30 s context, reservation, announcement | a sequence with fatal and ignored errors | the context ends under the DHT that still uses it |
| start-up and discovery of the client | `mobile_client/main.go`, `shared/shared.go` | table of connected peers | announce, register, search once, connect directly or by relay | the order of announcing, registering and searching at two processes |
| PING/PONG stream | `handleStream` in `node_runner`, `mobile_client`, `chat`, `relay`; `pingPeer`, `manualStream`, `connectToPeers` | one stream, both ends | write a line, read with retries, answer, close | short reads, EOF retries, no deadlines, streams that are dropped without `Close` |
| chat client | `chat/main.go` | the map `connectedPeers` | start-up, `connectToPeers`, a ping per peer and tick, each in a goroutine | concurrent map writes, pings that pile up, a peer marked for a stream to the relay |
| signed protocol | `protocols/customprotocol.go` | table of pending requests under a mutex | store, sign, send, verify, match answers | answers before the send returns, entries that no answer removes, restarts that lose the table |
| relay | `relay/main.go` | libp2p's | start-up, `handleStream`, log of events | that of the PING/PONG stream |
| bootstrap server | `boot/main.go` | libp2p's | start-up | - |
| key tools, experiments | `keymaker`, `junk` | none | - | - |

The loop of each process calls `sendProtoMessage` for each request of its
script. At the other end libp2p starts a goroutine per stream, which reads the
message to its end and calls the handler of its protocol. The handler of a
request uses the flag, sends the response (with `sendProtoMessage` again, on a
new stream), and then hands a token to `done`; so does the handler of the
response. The loop takes one token, or times out, and goes on to the next peer.

What makes each part correct:

* a send: at most one delivery per call, none for a call that failed, an end
  for every call;
* the flag: answers that agree with the flag, one owner per change of it;
* the exchange: every exchange ends, every handler that waits is known to the
  channel and only those, every response answers a handled request;
* discovery: whoever can be found can be talked to; of those that are found
  nobody is passed over;
* a PING/PONG stream: a PONG means that the peer read the line, neither end
  waits for ever, and nobody forgets to close;
* the chat client: whoever is found or marked has registered its handler, a client that runs survives
  its peers, and whoever stays connected comes to be marked;
* the signed protocol: an answer finds its request in the table, once.

## Modules

| Module | Models | Role |
|---|---|---|
| `Messenger` | what a send promises: a result, a message in flight, deliveries | abstract specification |
| `SendProto` | `sendProtoMessage`, one action per branch, for concurrent calls | implements `Messenger` |
| `StreamControl` | the flag and the handlers of start, stop and status | component |
| `StreamHistory` | `StreamControl` with the history of who wrote over whom | component with history variables |
| `PingProtocol` | loops, handlers and `done` channels of all nodes | takes its network from `Messenger` and its flag from `StreamControl`, implements `RequestTable` |
| `Rendezvous` | what programs that look each other up in the DHT promise: whom they find, and who gets connected | abstract specification, with its invariant proved |
| `Discovery` | both main functions up to their loops and the connections that sends make again, with DHT, relay, crashes and restarts | implements `Rendezvous` |
| `StreamPing` | the PING/PONG stream, from either end, with four purposes of the opener | component |
| `RequestTable` | what the two ping protocols promise to those who ask: from the call to the answer | abstract specification |
| `SignedPing` | calls, tables, handlers and signatures of the signed protocol, with restarts | uses `Messenger`, implements `RequestTable` |
| `Chat` | main function, search and ticker of the chat clients, with relay, DHT and restarts | implements `Rendezvous` |
| `MCSendProto`, `MCStreamHistory`, `MCPingProtocol`, `MCDiscovery`, `MCStreamPing`, `MCSignedPing`, `MCChat` | | values of the constants for TLC |
| `SendProtoProofs`, `StreamHistoryProofs`, `PingProtocolProofs`, `DiscoveryProofs`, `StreamPingProofs`, `SignedPingProofs`, `ChatProofs` | | theorems |

### SendProto

`pc` is the place of a call in the function; `first` and `retry` are its two
streams, seen from both ends: `open` (ours to write), `closed` (the end is on
its way), `reset`, `handled` (the peer read the end and started its handler).
`CheckConnected` and `CheckLimited`/`Refuse` are the two readings of
`Connectedness`; `LinkChange` may come between them. A write may fail on a
stream that is not reset (a connection write timeout), which is why the code
resets it. `RetryOpenFails` is the nil stream: the call panics and `up` becomes
false for every call of the process. A limited connection, for which the code has
its own branch, comes from a relay with limits: the address of the relay is an argument, and
`src/relay` is one without. Marshalling and the data are left out:
`proto.Marshal` cannot fail for what the callers pass.

### StreamControl and StreamHistory

`Test`, `Write` and `Answer` are the three accesses to the flag of a handler, each a step:
the mutex declared next to it is never locked. Go's memory model leaves the outcome of
the race to the build; for a one-byte variable, with calls between the accesses,
the outcomes are those of some order of the accesses. `over[c]` is who wrote
between `c`'s test and its answer, `writers[n]` who gave the flag its present
value, `overtaken` the stops after whose beginning a start wrote.

Every message has its own stream, so a stop may be handled before the start it
is to undo. `StopUndoneOnlyByAnotherStart` says what the flag can then be: a
stop that found a stream leaves the flag off, unless yet another start sets it.
`LeftOnOnlyIfOvertaken` says when a process streams on after a stop, whatever the
stop found: only if a start set the flag when the stop had begun.

### PingProtocol

A `Request` is a call of the five request functions, identified by who asks
whom, in which tick, at which step of the script; a `Message` is a request or
its response. `loop[n]` is the goroutine at the end of `main`; `handler[m]` the
goroutine that handles a message; `done[n]` the queue of goroutines blocked on
the process's channel. Go's channels are first in, first out, and a select that
waits takes a sender before its timer: `SelectTimeout` needs an empty queue.
Sends use `Messenger`'s actions, so they may be lost, late and reordered; the
fault counter bounds lost messages, failing sends over a connection, panics and
cut links. A send to a peer that is not connected fails and is no fault. A node that panics
does not return: nothing in the repository restarts it.

`Called`, `Settled` and `Passed` relate a request to the loop that sends it:
what its call came to, and whether the loop has gone past it. The refinement
mapping of `RequestTable` needs no table: a request is pending from its call until
the handler of its response starts.

### Discovery

`stage[n]` is where a process is in its main function; `RunnerNext` and
`ClientNext` are the order of the calls. `context` are the processes whose
context lives: the runner's ends after 30 seconds, and with it dials, the
explicit reservation and the goroutine of `dutil.Advertise` that `announceSelf`
leaves behind (`advertiser`). `record` is what the DHT lists under the common
name, `reserved` who can be reached over the relay. The client's search yields
(`yielded`) into a channel (`found`) that `connectToPeers` reads; `dialling` is
the peer it is at. Both directions of `Connected` of `PingProtocol` come from
here: the loop takes its peers from the connections (`links`), not from
`connectedPeers`, which nothing reads.

Sends connect too: `sendProtoMessage` tests the connection (`FindConnected`: the
process is then in `sending` with the peer), and `NewStream`, at once or after a
failed write, dials the peer if the connection has been lost meanwhile
(`Redial`). The peer may have started again by then. `peerstore` is whose
addresses a process has since it started, from its search or from a connection.

Either dial may fail for any reason, the relayed one too (`RelayedFails`): the code
logs the error and goes on, and `missed` keeps whom it has missed so. Assumed of
libp2p are only these: the DHT is one place that a process reaches through any server
it is connected to; a lookup that ends with such a server has found at least those
who were listed when it started and still are; the relay connects nobody who
holds no reservation, and drops that of a peer whose connection it loses; AutoRelay
may reserve at any time. `relayAddresses` has one entry, because the relay is given by one address.
A process may crash or come back under its old identity at any moment; a
connection may be cut (also with the relay, which drops the reservation) and a
record may expire. `troubled`, `restarted`, `owed`, `missed` and `introduced` are history.

`Rendezvous` leaves out how: `listed` is `record`, `known` is `peerstore`, `met` the
`links` between processes. Meeting needs no connection of a certain kind, only
that one of the two knows the other: it has found it listed, or was connected to
it before, in its present life. A process that ends knows nobody when it
starts again, but others may know it still and dial it.

### StreamPing

`role[s]` is what a stream is opened for, chosen once: `ping` (`pingPeer`),
`test` (`manualStream`, which says TEST), `touch` and `hold` (`connectToPeers` of
the chat client, which closes the stream it only tried, and of the mobile client,
which drops it). `pc` is the goroutine that opens the stream, `handler` that of
`handleStream`; `question` and `answer` are the two directions, `closed` the ends
that are closed. A `Read` may return less than the line ("part"), as may a write
that fails; `Reset` loses the stream at any moment. `Answers` tells the four
copies of `handleStream` apart: only the runner's answers TEST. Its
"noder" goes into a buffer that is never flushed, so nothing of it is sent.
`NewStreamFails` counts the attempts of `manualStream`, `tries` those of the
handler after `io.EOF`. Who pings whom, and when, is `Chat`'s.

Not all of this code runs: the calls of `pingPeer` in the mobile client (line 558) and
the node runner (line 407), and that of `manualStream` (mobile client, line 326), are
commented out. Streams are opened today by `pingPeer` of the chat client (`ping`) and by both
`connectToPeers` (`touch`, `hold`). The three copies of `pingPeer` do the same;
`test` models code that is kept and not called.

### RequestTable and SignedPing

`caller[q]` is a call of `Ping`, `requests[n]` the table of a process, accessed
under its mutex in one step. `Receive` reads and verifies a message: a signature
names the key and the data it was made with, and is removed from the data before
they are verified. `SendRequest` and `OnPingRequest` use `Messenger`'s actions,
because `sendProtoMessage` of this package is a single attempt of the same
shape. `Restart` ends a process and starts it under its identity: the table,
its goroutines and what was on its way to it are gone. `answered` and
`forgotten` are history. `TakeToken` is the program that reads the package's
channel; no program of the repository imports the package, which was
written against message types that the generated code has not kept, so nothing
is assumed of it. `RequestTable` has for each request a status and
whether its peer has served it; the refinement mapping computes both. `src/ping`
gave the table up: `PingProtocol` implements `RequestTable` by one stream, one handler per message.

### Chat

`stage[c]` is where the main function is, `After` the order of its calls: the
chat client registers `handleStream` before it announces itself. `trying[c]` is
the peer `connectToPeers` is at, directly (`dial`, `open`) or by the relay
(`relay`, `stream`). `relayAddresses` holds the relay's own address, so that
the second way connects to the relay and opens the stream there, and the peer is
marked for it (`StreamToRelay`). Streams open over any connection, direct or relayed: `src/relay`
grants infinite limits (`relay/main.go:136` and `164`), so what it carries is no limited connection,
and `links` does not tell the two apart. The name of its
protocol is that of libp2p's own ping service, which echoes 32 bytes and never
says PONG; a ping it holds is `deaf`, and ends by its timeout. `Tick` starts a ping for every peer,
the relay too; `pinger` are the goroutines. The writes of `connectedPeers` take
time (`BeginWrite`, `EndWrite`), and two at once `clash`: Go's runtime may end
the process (`FatalWrite`) or let a write be lost. `Redial` is the dial hidden in
`NewStream`. A process may be killed (`Kill`, a fault) and started again under its
identity (`Restart`), with the record of its former life still in the DHT: it can
then be found, connected and marked before it has registered `handleStream`, which is why
`ChatInv` speaks of those that have registered or have started again. Of the chat
client too `Rendezvous` is the promise, with `peerstore` for `known`: the
ticker pings whoever is connected, and neither it nor `Redial` brings two clients
together of which none knew the other.

A definition in brackets, "[A bug it must not have: ...]", is a variant of the
definition below it. No specification uses it; put in its place, it breaks the
property it is listed with in `PROJECT.json`, which shows that the property
depends on that part of the code.

## What is checked

| Run | Specification and bounds | Properties |
|---|---|---|
| `send_proto` | `SendProto!FairSpec`; two calls to one peer, one to another; every change of link and loss of streams | `SendInv`, `AtMostOnce`, `Promise` (implements `Messenger`), `CallsReturn` |
| `stream_history` | six handlers: two starts, two stops, a status on one flag, a start on another | `HistoryInv`, `TornOnlyByOverlap`, `TwoWritersOverlap`, `StopUndoneOnlyByAnotherStart`, `LeftOnOnlyIfOvertaken` |
| `ping_protocol` | two nodes, both ask `<<ping, start>>` once, one fault | `PingInv`, `RepliesFollowRequests`, `StreamsWereAsked`, `ScriptInOrder`, `HandlersPileUp` |
| `ping_exchanges` | a client and two runners, `<<ping>>`, three faults | `Answers` (implements `RequestTable`), `TokensArePast`, `LoopEnds` |
| `discovery` | `Discovery!FairSpec`; a runner, a client, a bootstrap server and the relay; any crashes, one restart, cut link or expired record | `DiscoveryInv`, `ServedUnlessStale`, `NobodyPassedOver`, `Promise` (implements `Rendezvous`), `StartupEnds`, `StaysFindable` |
| `stream_ping` | `StreamPing!FairSpec`; two streams, one to a runner and one to another program, each for any of the four purposes; any resets | `StreamInv`, `OnlyDroppedStay`, `NeverBothWait`, `EndIsFinal`, `PingsReturn`, `HandlersReturn` |
| `signed_ping` | `SignedPing!FairSpec`; two requests from one process to another and one back; two failed sends, lost messages or restarts | `SignedInv`, `FailedStayPending`, `Promise` (implements `RequestTable`), `AnsweredUnlessFault` |
| `chat` | `Chat!FairSpec`; two clients and the relay, two pings at a time of one of them; one failed ping, cut connection or kill; one start of a process that ended | `ChatInv`, `DiesOnlyOfMap`, `Promise` (implements `Rendezvous`), `StartupEnds`, `PingsEnd`, `MarkedInTheEnd` |

The invariant that is named after its module's subject (`SendInv`, `PingInv`, ...) is in each
run the inductive one of the proofs. Of what the theorems derive from it the runs list what
says most about the program; "What is proved" names the rest.

Three calls cover two that share a peer and one whose peer keeps its links. In
`stream_history` every pair of kinds meets on one flag, and two of the kinds
that write are there twice. Scripts are shorter than the code's six requests
(`ExchangeScript`), because every message has its own stream and goroutine and
the full script adds more of the same kind; the two-step script has the
request whose failing response does not end its handler (ping) and one that uses the flag.
`ScriptInOrder` needs two steps and both kinds of send, `HandlersPileUp` handlers
of both nodes at one channel; `TokensArePast` needs two peers, so that an answer of the first can
come during the exchange with the second. Later ticks are left to the proofs, which
have any number of them.

One runner and one client suffice for `discovery`, because a client's
connections do not depend on those of others; the one fault lets a process
come back and be met by what it left with others. `ServedUnlessStale` holds only for pairs of
a runner and a client: a client announces itself before it has registered its
protocols, so another client may be connected to it too early. It excepts
restarted processes: a runner that is found by its old record and holds a reservation
again before it registers (the readme's "transient issue where an unknown
persistent stays between sessions"), and either process when the other dials it
again in the middle of a send. `NobodyPassedOver` says when a client does not meet
somebody who was listed when it searched: it dialled that peer directly and over the relay
and failed twice, or a fault struck one of the two. Whoever is listed later is
missed too: the client searches once. `StaysFindable` ends with
the context: a runner whose context ends before its first advertisement got
through runs for ever without ever being found.

Streams do not touch each other: one of each kind of handler, with every purpose
of the opener, is every case, and the attempts are as many as the code's (five).
`OnlyDroppedStay` and `HandlersReturn` say which streams are never closed: those
of `connectToPeers` of the mobile client, always, and of `manualStream` when its
write fails; the handler at the other end then reads for ever. `EndIsFinal` says
that the five reads after `io.EOF` only delay the return. In `signed_ping` two
requests share a table and a peer, and the third makes both processes asker
and answerer; with two faults a restart can meet a message that is lost or
that came late. `FailedStayPending` is what
the code does, and a leak: nothing but a restart removes the entry. In `chat` two
pings at a time are what it takes to clash, and the other client's
pings are left out, because what it writes is its own map. One fault and one restart make a client
ping, or be found by, one that has come back; `MaxRestart` bounds the starts apart from the
faults, because a client may also end by itself. That pings pile up, because each tick
starts new ones, is not measured: the model has a fixed number at a time. `DiesOnlyOfMap`
holds because every error after start-up is logged; two answers that come
at the same time are enough to end it. A kill from outside is not its own death and is told apart
by the count of faults. `MarkedInTheEnd` excepts
clients whose writes clash, the one case in which a mark is lost.

The flaws found while modelling, each with a run that TLC refutes:

* `send_panic` (`NoPanic`): the peer goes away during a send, the retry cannot
  open a stream, and the process panics.
* `status_torn` (`StatusNotTorn`): the two fields of a status answer contradict each other.
* `ping_stale` (`CompletedMeansAnswered`): "exchange completed" on the token of
  the handler of a peer's request, before any answer. What does hold is
  `TokensArePast`: the token is that of a request of a peer, or of an answer to
  something the loop has already sent and gone past, in this exchange or before.
* `ping_held` (`NoHandlerHeld`): one exchange without faults leaves handlers
  blocked. What does hold is `HandlersPileUp`: of the handlers that came to the
  channel all are still there but one per exchange of the process. An exchange
  blocks a handler per message at both ends, so they pile up, with their open inbound
  streams; the limit on those is what both programs lift in `createHost`.

## Fairness

`CallsReturn` assumes that a call that can take a step takes one: Go schedules
its goroutine, and `NewStream` and `Write` return (libp2p bounds negotiation
and dialling; the write is a few bytes). `LoopEnds` assumes the same of the
loop, with its tickers and timers, and of the handlers. `StartupEnds` and `StaysFindable` assume that
the main goroutine and the advertiser run and that dials, sleeps and lookups come to
an end, whatever their outcome. `PingsReturn` and `HandlersReturn` assume that
both goroutines of a stream run, that `NewStream` and writes return and sleeps
end; a read that finds nothing is not enabled, so no deadline is assumed, as
the code has none. `AnsweredUnlessFault` assumes that calls and handlers run and
that a stream that is not reset is read; not that anybody receives from the channel. The
properties of `Chat` assume that main, the ticker and the goroutines of the pings run and that
dials, lookups and libp2p's ping handler (it has a timeout) come to an end; not
that a client advertises, that a process starts again or that lost connections
return. `MarkedInTheEnd` asks for a connection that lasts from some time on. Nothing is assumed of
the network: messages may be lost, links cut and peers gone for ever.

## What is proved

For any number of calls, peers, processes and handlers, any script and any bounds:

* `SendProtoProofs`: `SendInv` is inductive: a call that has a second stream
  has reset the first, only a return of true closes a stream, and only in four
  places of the code does a call hold an open one. The invariant is needed because
  the properties speak of delivered streams, while the code decides their fate when
  it resets or closes them. From it `AtMostOnce`, `HandledMeansTrue` (whatever was
  handled was reported as sent), and `PromiseKept`: every step is a step of
  `Messenger` or invisible. `CallsAdvance` gives every place of the code a rank that
  each step of a call increases: seven steps at most, and the call has returned.
* `StreamHistoryProofs`: `HistoryInv` is inductive. To know that an answer was
  overlapped one must know it of every handler under way:
  `KnowsUnlessOverwritten` says that the flag is what the handler tested or
  wrote unless somebody overlapped it, `PendingOverlaps` that a handler about to
  write what is already there has been overlapped by all who wrote it.
  `StreamsWereStarted` keeps a start for every flag that is on or was seen on,
  from which `StopUndoneOnlyByAnotherStart` finds its two. `PendingOvertaken` says of a stop that
  has found no stream and not answered what `LeftOnOnlyIfOvertaken` says of one that is done.
* `PingProtocolProofs`: `PingInv` is inductive: types, range of the loops,
  `QueueHoldsBlocked` with two lemmas on sequences without repetitions, and
  `MessagesInOrder`, which keeps the handler of a message behind the call that sent it
  and the response behind the handler. From it `RepliesFollowRequests` and
  `AnswersHolds`: every step is a step of `RequestTable` or invisible to it.
  `OneReleasePerExchange` counts the exchanges begun against the handlers let go
  (`ReleasesPaid`); with `QueueHoldsBlocked` and a lemma on the length of such
  queues it gives `HandlersPileUp`.
  `ScriptInOrder` is inductive with `PingInv`: `SentInOrder` ties the call of each
  request to where its loop stands, and the peers still to be asked do not include the present one.
  `TokensArePast` needs both: the queue holds only blocked handlers, a handler blocks
  only after its message was sent, and what was sent the loop has gone past.
  `StreamsWereAsked` strengthens to `SetByStart` and `FlagInOrder`: a handler that is at
  the flag has received its request, and a flag that is on was set by a start that found it off.
* `DiscoveryProofs`: `DiscoveryInv` is inductive, with crashes, restarts and
  faults without bound on their places. `FoundAreReady` follows the readiness of
  a runner from its advertiser through the record and the channel to the dial, `SendersServe`
  that of both ends of a send, which may dial again; together they
  give `ServedUnlessStale`. `SearchInv` says that a peer owed to a client
  is still in the lookup, in the channel, being dialled, connected or dialled in vain, which
  gives `NobodyPassedOver`. `DialsWhatItFound` and `KnownWereMet` are inductive and make every
  connection, the repeated ones too, one of `Rendezvous`: `PromiseHolds`.
* `Rendezvous`: of two parties that are connected one has once found the other
  (`MetWereFound`), however often they lost and made connections and whoever started again
  meanwhile. The theorem is about the abstract specification and reaches the programs
  through the refinements: `ConnectedWereFound` of `DiscoveryProofs` and `ChatProofs` has no
  other proof.
* `StreamPingProofs`: `StreamInv` is inductive: each end knows of the other what
  the stream tells it, and `EndSeen` that after the end nothing can be unread.
  From it `PongAnswersPing` (a PONG is read only after the handler read the line),
  `OnlyDroppedStay` and the action property `EndIsFinal`. `NeverBothWait` is inductive
  with it: while pingPeer waits, its line is unread, or the handler has read it and
  will answer or close. It is the part of `PingsReturn` that needs no fairness.
* `SignedPingProofs`: `SignedInv` is inductive. `TableOK` keeps each request in
  exactly one of table, answered and forgotten; `OrderOK` keeps a message behind
  the one that caused it, without which an answer could find no entry. From it
  `UnknownOnlyAfterRestart` (a response finds no request only at a process that has lost
  its table), `FailedStayPending`, and `PromiseHolds`: every step is
  a step of `RequestTable` or invisible. `OnItsWay`, with `Unharmed` as its invariant and the lemma that every
  signature is accepted by whoever verifies it, is the part of `AnsweredUnlessFault`
  that needs no fairness: until something fails, no step drops a request.
* `ChatProofs`: `ChatInv` is inductive: `FoundOK` follows that a peer has registered
  from its advertiser through record and search to the pings, `StageOK` that pings
  come only after the search. From it `MainHasMapAlone`
  (`connectToPeers` never writes the map together with a ping),
  and the action property `DiesOnlyOfMap`. `KnowEachOther` follows whose addresses a client
  has through dials, tickers and pings, and gives `PromiseHolds`.

The assumptions are the named ones of the modules, on the types of the
constants. `HandledMeansTrue`, `CallsAdvance`, `OneReleasePerExchange`, `DialsWhatItFound`, `KnownWereMet`,
`PongAnswersPing`, `UnknownOnlyAfterRestart`, `OnItsWay`, `MainHasMapAlone` and `KnowEachOther`
are proved and in no run: they are parts or consequences
of what the runs check, or the proofs say more than a small instance could.

Only model checked: what needs fairness, which is out of the prover's reach
(`CallsReturn`, `LoopEnds`, `StartupEnds` of both modules, `StaysFindable`, `PingsReturn`,
`HandlersReturn`, `AnsweredUnlessFault`, `PingsEnd`, `MarkedInTheEnd`).

## Plan

The modules of the plan are written and their safety properties proved, as is what
holds in place of the refuted statements. What is left are the safety halves of
more liveness properties, as `OnItsWay` is that of `AnsweredUnlessFault`: of
`MarkedInTheEnd` and `StaysFindable` they are still to be stated. The pure helpers of
`shared` were to have a module of their own and have none: they are a lookup in two
tables and a filter, which `Discovery` contains, and there is no algorithm to compare
with a reference.

## Not modelled

* `boot/main.go`: starts a DHT server and waits; no state of its own.
* `relay/main.go` but for its `handleStream`: start-up of libp2p's relay service, and a
  goroutine that logs events. What the relay does is libp2p's, and appears in `Discovery` and
  `Chat` as the others see it.
* Of `shared/shared.go`: parsing of arguments, keys and addresses, which happens once and
  depends on nothing that changes. `setupDHTRefresh` of relay and chat client only refreshes
  and logs libp2p's routing table.
* `keymaker` and `junk`: one-shot printing of keys, and discarded experiments.
* `ping/pb/p2p.pb.go`: generated; protobuf's encoding is left out, because no
  property is about it and both ends use the same types.
* Contents and wording of messages, logs, configuration of the hosts; libp2p
  itself (connections, DHT, relay, hole punching) beyond what the code sees of
  it; wall-clock time.
