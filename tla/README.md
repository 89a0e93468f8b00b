# psrpc in TLA+

`github.com/livekit/psrpc` is RPC over a publish/subscribe bus: single-response calls whose
server is chosen by bids, calls that a queue hands to one server, calls answered by many,
and bidirectional streams. Its state is small and its concurrency is not: every call, every
request, every stream end and every subscription has goroutines of its own, and they meet
through channels of fixed size, maps looked up under a lock and used after it, timers, and a
bus that may lose, reorder or repeat what it carries.

This directory holds TLA+ modules of those parts, TLC configurations that check them on small
instances, TLAPS proofs of the most important results for every instance, and
`PROJECT.json`, which relates each definition to the lines it models.

## 1. Inventory

| component | state it keeps | operations | what makes it correct |
|---|---|---|---|
| unary call (`pkg/client/rpc.go`, `client.go`) | per call: claim and response channel, context, selection locals; shared: two maps, one dispatcher goroutine, the closed fuse | `RequestSingle`/`newRPC`, dispatcher, `Close` | the call returns; it grants one server and no other; its result is the one of a server that handled this request; the dispatcher neither blocks nor leaks |
| server selection (`selectServerUntil`) | best bid so far, collected claims, held error, timers | one step per bid, response, timer | the granted bid is the one that the options describe; an error response held back is reported if no bid is granted; it ends |
| unary handler (`pkg/server/rpc.go`) | subscriptions, `claims` map, wait group, `drained`, `complete` | run loop, one task per request, claim negotiation, `close` | a server runs the handler only if it was chosen; the run loop never blocks; a graceful close waits for exactly the requests taken |
| server registry (`pkg/server/server.go`, `registration.go`) | `handlers` map, `active` group, shutdown fuse | register (alone or as a group), deregister, `Close(force)` | every live handler can be reached through the map; a failed group leaves nothing; `Close` returns and leaves nothing |
| stream (`internal/stream`, both `stream.go`) | per end: `acks`, `pending`, `closed`, context, receive channel, map entry | `Send`, `HandleStream`, `Recv`, `Close`, `runClientStream` | no send on, and no second close of, a closed channel; `Send` tells the truth; `Close` waits, returns and releases |
| stream opening and handler (`pkg/client/stream.go`, `pkg/server/stream.go`) | server: `streams`, `claims`, `draining`; client: ack and receive channel, map entry | `OpenStream`, `runClientStream`, `handleOpenRequest`, claim, `close` | only the chosen server serves; an acknowledged stream is held; an open that fails leaves nothing at the client; close leaves no stream it found |
| multi call (`pkg/client/multi.go`) | two channels, timer, map entry | `RequestMulti`, `handleResponses`, `Recv`, `Close` | what was taken is delivered; the dispatcher does not wait for it without cause; it ends |
| local transport and subscriptions (`pkg/bus`) | per channel: list of subscriptions with reused slots, round-robin index; per subscription: channel, forwarder | publish, subscribe, unsubscribe, forward | every open subscriber gets a message, one member of a queue does; no send on a closed channel; no lock-order deadlock |
| Redis transport | desired, current and dirty channels, write-op queue, publish queue, queue lock | reconcile, dispatch, read | what is subscribed follows what is wanted; each queue message is taken once |
| NATS transport | routers shared by local channels, each with a lock, routes and a NATS subscription | subscribe, route, unsubscribe | a router with subscribers is fed; no send on a closed channel; a message reaches every open route |
| retry and interceptor chain | local to a call: attempt, timeout, start; the chain's shared counter | `retry`, `next` | attempts are as many, as long and as far apart as configured; the handler is inside its interceptors |
| channel names, errors, payload, metadata | none | pure conversions | different topics, purposes and clients have different channels; an error keeps its code; content arrives whole or not at all |
| options, metrics, generator | none | setters, observation, text | |

How they interact. A call publishes a request; each subscribed handler starts a task, which
bids on the client's claim channel; the dispatcher routes bids and responses to the call; the
call publishes one grant, which every handler's run loop routes to the task that waits for
it. Streams share the same dispatcher and run loops. A server owns the handlers and closes
them; a handler tells the server with `onCompleted`. Everything goes through
`bus.MessageBus`, whose subscriptions forward from a transport.

What is hard: messages applied out of order or twice, timers against late answers, blocking
sends made by goroutines that others depend on, state used after the lock that protected it,
closes that race with everything. `PROJECT.json` lists these under `hazards`, each at its
line, with the properties that cover it, or a note saying why none does yet.

## 2. Modules

| module | models | composed of |
|---|---|---|
| `Selection` | the branches of `selectServerUntil` as operators on its locals | |
| `SelectionLoop` | that loop alone, fed by an arbitrary environment, with a log of what it saw | `Selection` |
| `RPCNet` | the bus between a client and the servers of one method, and the clock | `Selection` |
| `RPCClient` | `newRPC`, the dispatcher of `NewRPCClient`, `Close` | `RPCNet` |
| `RPCHandler` | `rpcHandlerImpl`: run loop, tasks, claims, close | `RPCNet` |
| `UnaryRPC` | the whole of a unary RPC, with its properties | `RPCClient`, `RPCHandler`, `Assignment` |
| `Assignment` | abstract: what a request that is given to one server promises, be it a call or a stream | |
| `UnaryRPCProofs` | theorems about `UnaryRPC`: choices, grants, close, results, the refinement, claim channels | `UnaryRPC` |
| `MultiRPC` | a multi call and its dispatcher against the same handlers | `RPCHandler` |
| `StreamOpen` | `OpenStream`, `runClientStream` and `streamHandler` until, and after, a stream is open | `Assignment` |
| `Stream` | the two ends of an open stream and what is between them | |
| `LocalBus` | one channel of the in-process transport and its subscriptions | |
| `RPCServer` | the handler registry, grouped registration, `Close` | |
| `RedisBus` | the Redis transport of one process: readers, reconciler, read worker, publish queues | |
| `NATSBus` | the NATS transport of one process: routers, plain subscriptions, callbacks | |
| `Channels` | channel names and how each transport matches them, as operators | |
| `Errors` | error codes and their conversions, as operators | |
| `Payload` | compression, its cap, and metadata of a context, as operators | |
| `CallStack` | the layers around one call: context, names, nested retries, payload, chain of interceptors, error | `Channels`, `Errors`, `Payload` |

`MultiRPCProofs`, `StreamOpenProofs`, `StreamProofs`, `RPCServerProofs`, `RedisBusProofs` and
`NATSBusProofs` hold the theorems about the modules they are named after. `LayerProofs` holds those
about `SelectionLoop`, `LocalBus` and `CallStack`: the smaller parts above and below a call, which
share no names, so that one module extends all three (hence `LoopInit`, `BusInit`, `StackInit`).

`MC*.tla` give the constants values. Definitions named `Mut...` are plausible mistakes in the
definition that follows them; they are used by nothing, and `PROJECT.json` says which property
each one breaks.

### How state and actions correspond to the code

**Unary RPC.** A call is `callPc[r]`: `publish`, `select` (inside `selectServerUntil`),
`grant`, `wait` (the last loop of `newRPC`), `return` (its deferred calls), `done`. `bidChan`
and `resChan` are the contents of its channels, `registered` its map entries. The dispatcher
takes a message, looks the channel up (`RouteClaim`, `RouteResponse`) and sends it in a second
step (`SendClaim`, `SendResponse`) which waits for room, as the code does outside the lock. A
task `<<s, r, c>>` is one goroutine started by the run loop of server `s` for copy `c` of
request `r`; `claims` is the map of the handler, `claimChan` the channel of each task, and
`routing[s]` what the run loop is sending. `close` is `BeginClose` and its two endings;
`drained` is the channel of that name. A message in flight is a member of a set: taking it is
an action that may come in any order or never, so loss, delay and reordering need no action of
their own; `Copies` says how often it can be taken. `expired` is the clock as seen through
`Request.Expiry`. Request payloads, metadata and hooks carry no control and are left out; a
payload that does not decode is a choice, at the server (`RejectMalformed`) and at the client
(`Meanings`, a result `malformed`), as is a publication that fails.
The affinity of a server is any member of `Affinities`; a negative one declines.

**Selection.** One operator per branch: `OnClaim`, `OnErrorResponse`, `OnDone`, `AcceptsNow`.
A `SelectionFunc` of the application is an arbitrary choice among the claims it is given, or a
refusal.

**Refinement.** `ImplementsAssignment` maps `Assignment`'s `owner` to the choice of each call,
`started` to the servers whose task has entered the handler, and `answer` to the server of the
success that a call returned. Every step of `UnaryRPC` is then a step of `Assignment` or leaves
its three variables alone (`ClaimsAssign` proves it). `StreamOpen` implements the same
specification: `owner` is the choice, `started` are the servers that have inserted the stream, and
`answer` is the server whose acknowledgement opened it (`OpensAreAssigned`).

**Multi call.** `sendPc` is `RequestMulti` (it returns once the request is published), `worker`
the goroutine of `handleResponses`; `inner` is the channel the dispatcher fills, `outer` the one
the caller reads, `holding` the response `Recv` is blocked with. A caller reads until the channel
is closed, or (not in `readers`) reads nothing; what `Recv` gave up at the close of the client is
`dropped`. A method that needs no claim is assumed, as the
generator makes multi methods.

**Stream opening.** An end is `open`, `closing` (`setClosed` has run) or `released`; closers meet
at `setClosed`, and only the one that wins releases. `callPc` goes through `OpenStream`, and on to
the caller's use of the stream. A task is one `handleOpenRequest`; `drain` are the goroutines
`close` starts, one per stream in its snapshot.

**Stream.** An end has one goroutine that calls `HandleStream` (`loop[e]`), any number of
sends and three possible callers of `Close`: the application, the goroutine started for a
malformed message, and `runClientStream`. `Pending(e)` is the `pending` wait group. `Release`
is the common end of both ways to close. `Route` looks a stream up in the map of its adapter
and passes the packet on in a separate step, because the map and the stream have different
locks.

**Local bus.** A subscriber holds the lock of the transport while it waits for the lock of its
list (`lOwner`); a publisher holds the lock of a list while it writes (`Holders`). A list is its
slots; a dispatch is described by the indices it visits (`Start`, `Distance`, `Earliest`), and a
subscription takes the free index that the code finds (`FreeIndex`). The list that a publisher found
may have left the map when it dispatches. `subPc` follows `Close` of the subscription through `done`,
`onClose`, `close(msgChan)` and the wait for the forwarder.

**NATS transport.** A router is named after the subscription that created it; `mu` is the lock of
the transport, which `Join` and `Leave` hold while they wait for the lock of the router, which a
callback holds while `todo` is not empty. `Create` is the call of NATS outside the lock. `nats`
and `pending` stand for the broker: a message goes to the NATS subscriptions that are live when
it is published, and `Unsubscribe` does not wait for a callback that runs.

**Layers of a call.** `work` is the stage a call is at, with its data. A string is a sequence of
pieces; a payload is its length, plain and compressed; time is counted, and only attempts and
waits advance it. Two levels of `retry` are nested as `ChainClientInterceptors` nests the one of
the client around the one of the request. `WaitEnds` and `WaitIsCut` are both possible when the
timer and the context are done, as in the select. The counter `i` of the server's chain is shared
by its interceptors, each of which may call `next` up to `MaxNextCalls` times.

**Server registry.** Each group of registrations is one goroutine that goes through
`RegistererSlice.Register`; a handler is `<<group, position>>`, and its `state` follows
registration, `closeOnce` and `onCompleted`. Registrations overlap each other and `Close` as they
may in the code. Two history variables note where that matters: `raced` the keys that two calls of
`RegisterHandler` found free at the same time, `late` the handlers of calls that had found the
server open when `Close` broke its fuse. `core.Fuse` is a library: whether `Once` breaks the fuse
before or after its callback, and whether a second caller waits, are chosen in `Init` among the
`Fuses` of the instance.

**Redis transport.** The lock of the transport is held across steps only by the read worker,
while `writes` is not empty. `Reconcile` is one critical section of `run`: it accounts for the
last batch and makes the next one from the channels that are dirty by then; the two commands
are steps of their own without the lock. A list and its operation, token and dirty mark change
in one step, as under the lock. `redis` is what is subscribed at the server, which is external:
a failed `Subscribe` may have been carried out, a failed `Unsubscribe` has not. A pipeline is
executed one command at a time, so that subscriptions change in between, and a failure drops
the rest of it. A failed receive loses what was on the connection.

## 3. Runs

All bounds are constants of the cfg. `CHECK_DEADLOCK` is off everywhere because each of these
systems may legitimately stop: calls return, subscribers and servers close.

| run | instance | shows |
|---|---|---|
| `unary_claim` | 1 call that selects between 2 servers, one of which may close; a client that may close | only the chosen server runs, so at most one; neither run loop nor dispatcher blocks on a claim; a graceful close is quiet; nothing stuck but a dispatcher with two answers to one call; `UnaryRPC` implements `Assignment` |
| `unary_queue` | a queue RPC with a server that predates `NoClaim` and bids, a bus with an inbox, 2 servers that may close; with fairness | a success is of a server that handled the request, an error of one that took it, "nothing received it" is said only when nothing did; calls return, tasks end, closes return, run loops exit |
| `multi` | 1 call, 4 servers, both channels of 1; a caller that reads or does not | responses taken are delivered; the dispatcher waits only for a flooded call; nothing stuck |
| `stream_open` | 1 stream with or without a claim, 2 servers, one of which may close | `StreamOpen` implements `Assignment`, so only the chosen serves; an acknowledged stream is held; a close drains what it found; nothing stuck |
| `stream` | 2 sends in either direction to a receive channel of 1; every closer at both ends; a caller whose context may end | no panic; an acknowledged message was received; a close waits; nothing stuck |
| `local_bus` | 2 subscriptions of either kind, 1 publisher of 3 messages, channels of 1; with fairness | delivery to all, or to one of a queue; no send on a closed channel; nobody stays behind a lock |
| `server` | a group of 2 and a group of 1 that share a key; a `Shutdown` and a `Kill`; requests that may never end | live handlers are mapped unless two registrations found their key free at once; a failed group is undone; `Shutdown` is quiet but for registrations that began before it; closes and deregistrations return, or wait for such a request, or (a `Shutdown`) for a handler that its callback missed |
| `redis_bus` | 2 readers on one or two channels, of either kind; 2 messages, channels of 1, one failure of Redis anywhere | no send on a closed channel; settled channels are what Redis has; order kept and nothing twice; nothing stuck |
| `nats` | 3 subscriptions of one subject, one of them of the other kind, and a plain one; 2 messages, channels of 1 | no panic; an open subscription has a live NATS subscription behind it and no second; messages reach the open; nothing stuck |
| `nats_queue` | 2 queue subscriptions of one channel on one bus | **violated**, see section 6 |
| `layers` | 106 pairs of method and topic; 3 metadata operations; two retry levels with up to 4 attempts; payloads around threshold and cap; chains of up to 3 that call `next` up to twice; every error; and, in `SelectionLoop`, up to 3 bids of 2 servers, with affinity 0, 1 or 2, five option sets and any error responses | channels are isolated; content arrives whole; an error that has a text and a code keeps the code; the handler is guarded; retries are as configured; the grant is the one a declarative reference over the whole log prescribes, and held errors are reported |
| `errors_keep_code` | every error of a handler | that any error with a code keeps it: **violated**, see section 6 |

Why the bounds suffice for what is asked. The conflicts of a unary RPC are between two bids
for one request, or between a bid, a grant, a timer and a close of one server: two servers and
one request have them all, and requests share nothing but the dispatcher and the run loop,
which are busy with one message at a time in either case. `ChannelSize` 2 is a bid per server.
For streams a receive channel of one is full after one message. For the local bus, three
messages fill a subscription (one in its channel, one in its forwarder) and block the
publisher on it. For the registry, the group of two has a first registration to roll back and
the second group races for its key; the two `Fuses` are one like `sync.Once` and one that differs
from it in both respects (the theorems are about any). A multi call needs four answers to fill both
of its channels, hold one in `Recv` and leave one with the dispatcher. For NATS, three subscriptions are a
creator, one that joins while it creates, and one that comes when the entry has gone. A level of
retries has a maximum of one, two or none, so that two levels end at one, two or four attempts while
`MaxTries` lets four be made (that two levels of two make no fifth is left to the theorem). Three
interceptors are needed for one to be skipped. `layers` is one model of two modules that share no
state: a behaviour is one of either with the other at rest. For Redis, one message fills a reader and
the next blocks the read worker on it; two readers make a channel wanted, unwanted and wanted again
while a batch is under way, and one failure is retried. The theorems of section 5 have no bounds.

The type invariants (`TypeOK` of each module) are proved for every module that has proofs, as a
theorem or as a part of its inductive invariant (`BusTypeOK` in `BusInv` for `LocalBus`, `CallTypes`
for `CallStack`).

## 4. Fairness

* Weak fairness of the steps of a goroutine that can run: the Go scheduler is fair enough for
  that, and a select with a ready branch takes one.
* Weak fairness of the clock and of timers.
* No fairness for taking a message off the bus: every message may be lost. The exception is a
  request still buffered in a closing subscription, which is in the process already.
* No fairness for anything applications decide: calling, sending, reading, cancelling,
  closing, and in `RPCServer` the end of a request. `LocalBus` assumes that an application reads
  a subscription until it closes it (otherwise a full channel blocks its publishers by design).

Two runs check liveness under fairness, `unary_queue` and `local_bus`. The others ask the same as an
invariant, which can be checked on millions of states, where a temporal check takes too long. Their
behaviours are finite, because no step can be undone and the calls, messages and failures are
bounded (in `RPCServer` requests come and go without end, but disable no step of the others for
good), so what must happen eventually is what holds whenever no goroutine can go on by itself.
`FairStep` of each module says what goes on by itself: the steps that are, or would be, weakly fair.
`Settled` is what has happened when no such step is possible, and `NothingStuck` says so, in
`UnaryRPC` and `RPCServer` as `Settled \/ ENABLED FairStep`. In `Stream`, `StreamOpen`, `MultiRPC`,
`RedisBus` and `NATSBus` `CanGoOn` gives the guards of the fair steps in terms of the state, and
`NothingStuck` says that whenever `CanGoOn` holds a fair step is possible, and that otherwise the
system is `Settled`. The second half is proved for every instance (section 5). In `MultiRPC`,
`RedisBus` and `NATSBus` it takes the application to read what it has open; in `Stream` and
`StreamOpen` nobody has to read and a handler need not return.

## 5. Proofs

The theorems hold for every value of the constants that the `ASSUME`s of the modules allow: any
sets of servers, requests, streams, subscriptions, messages and handlers, any channel sizes, and
where a count is bounded for TLC (messages, failures, attempts) any bound.

| module | theorem | states | if |
|---|---|---|---|
| `UnaryRPCProofs` | `TypeCorrect` | `[]TypeOK` | |
| | `ChosenServerRuns` | `[]OnlyChosenRuns` | |
| | `AtMostOneServer` | `[]SingleServer` | |
| | `OneGrant` | `ChoiceIsFinal` | |
| | `GracefulCloseWaits` | `[]GracefulCloseIsQuiet` | |
| | `AnswersAreReal` | `[]ResultIsTheServers` | |
| | `ClaimsAssign` | `ImplementsAssignment` | a claim is required and no queue is used |
| | `NoClaimBlocks` | `[]ClaimsNeverBlock` | messages come once, and there are at most `ChannelSize` servers |
| `LayerProofs` | `BestIsGranted` | `[]GrantsTheBest` | |
| | `ErrorIsReported` | `[]HeldErrorIsReported` | |
| | `LocalBusNeverPanics` | `[]NoPanic` | |
| | `LocalBusDelivers` | `DeliversAsSubscribed` | |
| | `ChainGuardsHandler` | `[]HandlerIsGuarded` | |
| | `ErrorsArrive` | `[]ErrorsSurvive` | |
| | `RetriesFollowOptions` | `[]RetriesAreAsConfigured` | |
| | `PayloadArrivesWhole` | `[](MetadataIsSafe /\ PayloadArrives)` | |
| `MultiRPCProofs` | `NothingDropped` | `[]TakenIsDelivered` | messages come once |
| | `OnlyFloodsBlock` | `[]BlockedMeansFlooded` | messages come once, and the servers are finitely many |
| | `GoesOnOrSettled` | `[](CanGoOn \/ Settled)` | messages come once, and the servers are finitely many |
| `StreamOpenProofs` | `ChosenServes` | `[]OnlyChosenServes` | |
| | `AckedHeld` | `[]AckedIsHeld` | |
| | `CloseHasDrained` | `[]CloseDrains` | |
| | `OpensAreAssigned` | `ImplementsAssignment` | |
| | `GoesOnOrSettled` | `[](CanGoOn \/ Settled)` | |
| `StreamProofs` | `TypeCorrect` | `[]TypeOK` | |
| | `NeverPanics` | `[]NoPanic` | |
| | `SendIsReceived` | `[]SentMeansReceived` | |
| | `CloseHasWaited` | `[]CloseWaits` | |
| | `GoesOnOrSettled` | `[](CanGoOn \/ Settled)` | |
| `RPCServerProofs` | `HandlersMapped` | `[]EveryHandlerIsMapped` | |
| | `QuietShutdown` | `[]ShutdownIsQuiet` | |
| `RedisBusProofs` | `NeverPanics` | `[]NoPanic` | |
| | `SettledStaysRight` | `[]SettledIsSubscribed` | |
| | `ReadersInOrder` | `[]InOrder` | |
| | `GoesOnOrSettled` | `[](CanGoOn \/ Settled)` | |
| `NATSBusProofs` | `NeverPanics` | `[]NoPanic` | |
| | `OpenReachable` | `[]OpenIsReachable` | |
| | `SubscriberGetsIt` | `[]EverySubscriberGetsIt` | |
| | `GoesOnOrSettled` | `[](CanGoOn \/ Settled)` | |

The conditions of the last column are those of the code. A method that is a queue requires a claim,
which the code generator guarantees (an `ASSUME` of `RPCNet`). `NoClaimBlocks`, `OnlyFloodsBlock` and
`NothingDropped` are about channels of fixed size and about what comes out of them once, so they need
a bus that does not repeat (`OneCopy`) and, for
claims, no more bidders than the channel has room for; section 6 says what happens
otherwise, and TLC finds a counterexample as soon as a message can come twice or a claim channel is
smaller than the number of servers. `GoesOnOrSettled` is the second half
of `NothingStuck`; the first, that `CanGoOn` is enough for `ENABLED FairStep`, is left to the runs,
because the prover has no rules for `ENABLED`.

### Unary RPC

`OnlyChosenRuns` looks at a task that runs and at a decision made long before,
elsewhere. Between them the decision travels as a message, so the invariant has to say that
every carrier of it agrees with it. `AgreeInv` does: a grant on the bus, in the hands of a run
loop or in the channel of a task names the server that the caller chose, and a task that has
been granted is a chosen one. It is kept because a choice is made once (`ChoiceInv`: a call
before its grant has chosen nobody, and one about to grant has chosen somebody), which also
gives `OneGrant`. For servers that run a queue request without any claim `AtMostOneServer`
needs another reason: the bus has put the request in flight to one server only
(`QueueOnce`). `IInv` is the conjunction with `TypeOK`. Each action is one step of the proof
that it is inductive; a step of the client may only choose, or publish a grant for its choice
(`ChoosesOnce`), and a step of a server only moves grants.

`GracefulCloseWaits` has an invariant of its own, `DrainInv`: a handler whose loop has drained
has no subscription and nothing left to take, and one whose graceful close has returned is
drained and has no task in flight. It depends on the order in `close` and in the run loop: the
subscription ends, the loop finds it empty, and only then is the count of tasks waited for.

The result of a call is far from the server it speaks of in the same way: a response is
published, taken by the dispatcher, put in a channel and read. `AnswerInv` says of each of these
places that the response there is backed, by a task that has responded (or, for an error, has
refused a request that does not decode), or, if it names no server, by a request that reached
nobody. Two more facts make it inductive. A task that is over stays over: its request is in
flight once, published once, so no run loop takes it again (`Fresh`). And a call that is still
running has no result (`ResultOpen`), so a result is given once. `AnswersAreReal` is
what it says of results.

`ClaimsAssign` needs both invariants. A step of the client chooses, concludes or continues
(`ClientConcludes`): an `Assign`, an `Answer` by a server that ran, or a stutter. A server enters
the handler only by leaving a claim that was granted, which `GrantedChosen` makes a `Start` of
the owner; it never runs unclaimed because without a queue every server needs the claim.

`NoClaimBlocks` says that neither the run loop of a server nor the dispatcher of the client waits
for room. A claim channel of a task holds one grant, so the invariant says that the grant of a
request to a server exists once: in flight (`GrantInFlight`), in the hands of the run loop
(`GrantRouted`) or in the channel (`GrantHeld`), with a caller that is past granting. The channel of
a call has `ChannelSize` places, so the invariant says the same of bids (`BidsOnce`: each is in
flight, with the dispatcher or in the channel once, and its task has bid). The bids in a channel and
the one being sent are then an injection into the servers, and the channel has room.

### Selection

The loop keeps a running maximum, `GrantsTheBest` speaks of the whole history. `LoopInv` relates
them while the loop runs: what is kept is the earliest of the highest eligible bids so far, or
nothing if none is above zero (`KeptIsBest`); the claims collected for a `SelectionFunc` are
eligible (`KeptAreEligible`); the counter is the length of the history and the held error is that of
an error seen. A bid that is consumed is compared with the kept one only, and transitivity of the
order does the rest.

### Multi call

`TakenIsDelivered` has two halves. That a response taken is read, in the caller's channel, with
`Recv` or dropped at a close is an account that every step of the call keeps (`Accounted`), given
that `Recv` is the one place that holds a response between the two channels (`Emptied`). That it is
in one of these places only (`Once`) needs that the dispatcher does not bring it again: a response is
in flight, with the dispatcher or in `inner` once, or has been taken (`BlockInv`).

`BlockedMeansFlooded` counts: every response of a call is in flight, with the dispatcher or in
`inner` once, and its task has answered (`ResponsesOnce`), so the responses that fill the channel are
those of as many servers.

### Streams

`NoPanic` of `Stream` is about a receive channel that two goroutines use and four may close.
`OneReleaser` says who may: until a stream is set closed nobody, and then only the goroutine that
set it, one of the local closers or the one that handles the peer's close; and while it has yet to
release, the channel is open. A goroutine that receives holds a message (`HandlesOne`), which
`Pending` counts, so a local closer that is done waiting finds nobody at the channel.
`SentMeansReceived` follows the acknowledgement back: in flight, in the inbox, or taken, it is one of
a message that was accepted (`AcksAreTrue`).

In `StreamOpen`, a task past its claim is that of the chosen server (`ServedIsChosen`), because the
choice is made once (`ChosenLate`). An acknowledgement anywhere follows the insertion of a stream
(`AckAfterInsert`), which each task does once (`TakenOnce`, `InsertedOnce`). `Drained` carries the
snapshot of a close: each stream in it is closed, or a goroutine has been started to close it and
has not ended.

`OpensAreAssigned` uses the same invariant. A step of the client chooses, is acknowledged or leaves
the mapped state alone (`ClientAssigns`); that the acknowledgement is an `Answer` needs it to be by a
server that inserted, and with a claim only the chosen one did (`AckedByServer`). A step of a server
inserts for its owner or is a stutter (`ServerAssigns`).

### Nothing stuck

Who waits has to be waiting for somebody who can go on. The proof of `CanGoOn \/ Settled` takes a
state in which no guard holds and follows each waiter to what it waits for (`NothingLeft`), which
takes an invariant about ends that are on their way out:

* `Stream`, `EndsGo`: an end that is closed has been released, or its owner (a closer, or the
  goroutine that handles the peer's close) has yet to; what was released is out of the map.
* `StreamOpen`, `EndsLeft`: an end that is `closing` has a goroutine that will release it, and one
  whose opener or `runClientStream` has left is not open.
* `NATSBus`, `Heard`: messages and callbacks are at subscriptions that NATS has known, so a callback
  that waits is writing, and what it writes to is read or closed. The locks of transport and router
  are then followed in the order they are taken.
* `RedisBus`, `Tokens`: a dirty channel has an operation or a batch on its way, an operation has the
  token of the write worker, and a message of a queue that of the publisher. The channels hold one
  token, so this is where a wake-up could be lost.
* `MultiRPC`: `BlockedMeansFlooded` and `Emptied` (a worker that has not begun or has left has no
  entry in the map); hence the two conditions.

### Local bus

`NoPanic` is about an index. A subscription is closed after its slot was given up, and the slot may
by then be another's. `Slotted` says that slots and indices of the subscriptions in a list are
inverse to each other; `Mapped` that the map has the list of each of them and that `subCount` is
their number, so that a list is dropped with the last one; `Locked` who has the lock of the
transport; `Writing` that a publisher has yet to write only to subscriptions that are in the list
whose lock it holds, and `Closed` that a closed channel is of one that is not. `LocalBusDelivers`
follows a publication: whoever was open when it began has the message, is about to be written to,
or is in a list still ahead, and of a queue at most one has it (`Delivers`).

### Layers of a call

`ChainInv` gives the interceptors that run while none has called `next` twice: they are the first
ones in order, each but the last has called `next` once, and the shared counter is at the one that
follows. `ErrorsArrive` needs only that what is being returned is one of the errors a handler can
return, and what it becomes on the wire (`ReplyInv`); the rest is about the conversions
(`CodesKeepTheirClass`, `HTTPStatuses`).

`RetriesAreAsConfigured` speaks of the k-th attempt of a call, the code of the counters of two nested
loops. `Place` is the number that the two counters stand for, and `CountInv` that it is the length of
the history; that the loops can be told from the number again (`PlaceTells`) is division with
remainder by the maximum of the inner loop. Writing it down showed that the reference overlapped
itself where a level has no maximum, and it was restated. `WaitInv` relates the clocks of the loops
and a wait under way to the last attempt, `StageInv` an error to what the attempt recorded, and
`HistoryInv` is the property itself for the attempts so far.

`PayloadArrivesWhole` is all of `ContentArrivesWhole` but the values of the metadata: no order of the
operations writes to a nil map (`ContextInv`), and a body of any size arrives whole or is refused
over the cap (`BodyArrives`).

### Server registry

`ServerInv` says how far each group has come, handler by handler (`Progress`, `Undone`); that the
history has noted what may disturb the rest, a second registration of a key that is being made and
one that was under way when the fuse broke (`Apart`); that the map has the handlers that live, and a
free key for the one being registered, but for the keys raced for (`MapFits`); that `active` is the
number of handlers counted and not completed, raced for or not (`CountFits`); and where requests in
flight may be (`WorkFits`). A graceful `Close` returns when `active` is zero, so by `CountFits`
nobody is left, and who comes after it is late (`QuietAfter`).

### Redis

Three parts that share the types. `Listed` and `Held`: the lists hold the readers between
subscribe and unsubscribe, once each, and those still to be written to cannot be removed because the
read worker has the lock. `Batch`: what the write worker is carrying out, phase by phase, against
what is current and what Redis has; a channel that is neither dirty nor in a batch is then as it is
wanted. `Order`: for one channel, the numbers of messages grow from what a reader has read, through
its channel, the message being written, the connection, the batch, to the queue. `ReadersInOrder` is
the first link of that chain, and no link can be proved without the next.

### NATS

`NoPanic` rests on `todo` being a part of `routes` while a callback runs, which holds because who
takes a route out needs the lock of the router. For `OpenIsReachable`, a router with routes has a
live NATS subscription, or its maker is creating it or has failed (`Reachable`), and the live one is
under the subject (`Routers`, `Locked`: entry and lock of the transport). `EverySubscriberGetsIt` is
inductive with these: what is due to a subscription that is open is in the hands of NATS, being
written by a callback that has yet to come to it, or written.

### Only model-checked

* Liveness under fairness, which is out of the prover's reach: `NothingHangs` of `UnaryRPC` and
  `CallsReturn` of `LocalBus`.
* `NothingStuck` of `UnaryRPC` (with the end of selection) and of `RPCServer`.
* That a guard of `CanGoOn` is enough for `ENABLED FairStep`, as above.
* `ChannelsAreIsolated`, and the values of the metadata in `ContentArrivesWhole` (`MetadataArrives`):
  names and metadata are folds over sequences, and what they compute is known by induction over
  the sequence, for which the prover has no usable rule.

## 6. Where the code and what is said of it differ

* `nats_queue`. Queue subscriptions of one channel on one NATS bus share a router, and
  `router.write` (`pkg/bus/natsbus/natsbus.go:257`) hands a message to every route of its Local
  part: each of them gets it. `README.md:323` promises exactly one member of the group. Members on
  different buses are told apart by NATS.
* `errors_keep_code`. An error is recognised at the client by its text (`pkg/client/rpc.go:219`), so
  `NewErrorf(code, "")` arrives as a success; `README.md:420` says that errors are unmarshalled "with
  the original error code". `ErrorsSurvive` is about errors that have a text.

The modules show more, each by changing a constant or dropping an exception that a property
names.

* Two servers answer one call (both find the request malformed, say), and the call returns with the
  first answer unread: the dispatcher waits for ever for room in the channel of that call
  (`pkg/client/client.go:187`, capacity 1, no select), later calls of the client get nothing, and its
  goroutine outlives `Close`. `.oss-scanner/threat_model.md:68-70` says that closing a client must not
  leave goroutines behind. It is `DispatcherBlocked`, the exception in `Settled` of `UnaryRPC`: without
  it `NothingStuck` fails. In `MultiRPC` the same happens to a flooded call, the exception there.
* `RegisterHandler` looks for a handler of its key (`pkg/server/server.go:75`) and inserts its own
  later (`server.go:97`). Two calls for one key may both succeed: the second entry replaces the first,
  both are counted in `active`, and a `Shutdown`, even long after, closes the one in the map and waits
  for the other for ever (`server.go:182`). The threat model says in the same lines that closing must
  not deadlock. Such keys are in `raced`; without it `EveryHandlerIsMapped` and, by `Missed`,
  `NothingStuck` fail.
* The same function checks the shutdown fuse first (`server.go:68`) and inserts and runs its handler
  last: one that is under way when `Close` begins may serve after `Close` has returned, or, if `active`
  counts it in time, make `Close` wait for ever; the threat model forbids both. Such handlers are in
  `late`; without it `ShutdownIsQuiet` and `NothingStuck` fail. That the properties except nothing else
  says that these two races are all there is.
* A grant delivered twice while its task is in `claimRequest` blocks the run loop for good
  (`pkg/server/rpc.go:180`; `.oss-scanner/threat_model.md:70` says that duplicated messages must
  not). With `Copies = {1, 2}` `ClaimsNeverBlock` fails.
* When the context given to `OpenStream` ends, a pending `Send` returns `s.Err()`, which is nil
  until something has closed the stream (`internal/stream/stream.go:244`): success for a message
  nobody received, against `README.md:190`. It is the exception in `SentMeansReceived`.
* A stream whose open was under way when the close of its handler began is inserted after the
  snapshot and outlives the handler (`pkg/server/stream.go:202`): hence `held` in `CloseDrains`.
* A subscription that joins a NATS router while its creation is failing stays open and deaf
  (`natsbus.go:152-158`): the exception in `OpenIsReachable`. One that is open but not read holds
  the lock of its router, and whoever subscribes or closes then holds the lock of the transport.
* `NewError(OK, ...)` arrives as `unknown` (`Errors.SendResponse`), and so does any error without a
  code, which is therefore not retried at the client though it would be at the server.
  `ErrorsSurvive` leaves the first out.
* Nested retries: the outer level measures the wait after a report of no subscriber from the start
  of the whole inner loop, so after an inner loop of several attempts nothing of the wait is left
  (`pkg/middleware/retry.go:129-131`). With `Timeout` 0 and `Backoff` b the second attempt has a
  timeout of b alone. `MaxAttempts` 0 retries for as long as the context lives. A deadline that
  passes during a wait is reported as canceled.
* An interceptor that calls `next` twice goes on from where the chain got to, past those in the
  middle (`internal/interceptors/interceptor.go:56`): the exception in `HandlerIsGuarded`.
* Topic parts that are empty leave no trace in a channel name, so topics that differ in them
  collide; the instance has none. A byte that is not UTF-8 is escaped as U+FFFD
  (`pkg/info/channels.go:172` ranges over runes), so topics that differ in such bytes collide too;
  the model has valid characters only. A last part `Q` shares the NATS subject of a queue method;
  the Local part tells them apart. Client IDs are not escaped in NATS subjects.
* Metadata that was appended wins over what is set later (`ExpectedMetadata`).
* If an `Unsubscribe` reports an error although it was carried out, the channel stays in
  `currentChannels` (`redisbus.go:280`); a reader that subscribes before the retry finds nothing
  to reconcile and receives nothing. Whether the client library behaves so is outside this
  repository; `RedisBus` assumes that it does not.

## 7. Not modelled

Metrics and tracing, option setters, identifiers (assumed distinct), error details and the code
generator: observation or text without an order of events. The test wrapper of the bus. The
brokers themselves are outside the repository; the modules take from them only what the code
relies on. Process crashes (nothing is persisted, so a crash is a peer that goes silent, which
loss covers) and the memory model of Go below mutexes and channels are left out. Of the parts
that are modelled: the lock of Redis queues between processes and its expiry, an `IsRecoverable`
or `GetRetryParameters` of the application, and the retry of a stream's `Send` (which sends again
a message that timed out but was received).

## 8. Plan

Done: the modules of section 2, the runs of section 3 and the theorems of section 5. What could
follow is the lock of Redis queues between several processes, with its expiry; the other hazards
that no property covers are the bid of a legacy server on a queue, which theorems cover, and the
inline send of a grant to a stream handler, whose twin in the unary handler is checked.

## 9. Running

    tlc -config MCUnaryClaim.cfg MCUnaryRPC
    tlapm UnaryRPCProofs.tla

The module for each cfg is in `PROJECT.json` under `runs`. The longest runs are `layers`,
`unary_claim`, `server`, `stream` and `unary_queue`, of one to three minutes on two workers; the
proofs of all modules take about ten minutes, `LayerProofs`, `UnaryRPCProofs` and `RedisBusProofs`
the longest.
