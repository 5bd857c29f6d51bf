# A TLA+ development for noa

noa is a Rust SDK and tunneller for OpenZiti. It authenticates to a controller,
creates sessions for services, opens multiplexed channels to edge routers, and
carries TCP and UDP flows over connections of those channels, from the dialing
side and from the hosting side. This directory models the parts of it where
several tasks share state, checks them with TLC and proves some of the results
with TLAPS.

Paths below are relative to `src/src/` of the repository tree.

## Inventory

| component | state | operations | used by / uses |
|---|---|---|---|
| edge channel `edge/data/{channel,channel_state,rxloop,wire}.rs` | `closed`, `close_notify`, the maps `waiters`, `conns`, `binds`, the write half under a mutex, the id and sequence counters | `dial`, `send_bind`, `update_token`, `rx_loop`, the latency probe, `mark_closed`, `close`, `Drop` | shared by all connections to one router; pooled by the client |
| connection halves `edge/data/conn.rs` | `sent_fin`, the receive key, the queue | `read`, `write`, `close_write`, `close` | read and written by the splice |
| accept handshake `edge/data/accept.rs`, inspection | the queue of Dial frames, `waiters` | `accept_pending`, success and failure replies, start timeout | hosting |
| transport `channel/` | none beyond the stream | `read_message`, `write_message`, hello | channel |
| splice `tunnel/proxy.rs`, `tunnel/intercept/splice_kill.rs` | two pumps, a cancellation token | half-close, kill, full close | socket and connection |
| api session `edge/client`, `edge/refresh`, `edge/reauth.rs` | `token`, `expires_at`, `reauth_lock` | `with_reauth_retry`, `do_reauthenticate`, OIDC exchange, the refresh timer, `refresh` | every request to the controller |
| dial sessions `edge/client/sessions*.rs`, `edge/conn`, `edge/session_refresh` | the cache `dial_sessions` | lookup, insert, evict, probe, recache, the hourly tick | `connect` |
| session certificate `edge/session_cert*.rs` | certificate and its lock | `ensure_fresh`, `invalidate` | opening of channels after a password login |
| router channels `edge/channel`, `edge/client/pool.rs` | `channel_pool`, `live_channels` | reuse, fan-out of connects, background openers, eviction, the push of a token | `connect`, the refresh timer |
| hosting `edge/bind`, `tunnel/host` | the bind's queue, one task per child | bind, `accept_pending`, dial of the target, reply | channel, splice |
| listener manager `edge/listener_manager` | set of listeners, back-off | open, close, refresh of listeners | nothing in the repository but its tests |
| service poll `edge/service_refresh.rs`, `edge/services.rs`, `edge/client/services.rs` | the cache of services, `last_service_update` | check, fetch, diff: added, changed, removed | session cache, intercept |
| OIDC login `edge/oidc` | none | a sequence of requests | client |
| enrolment `enroll/` | files | a one-shot sequence | command line |
| UDP relay `tunnel/udp`, `tunnel/intercept/udp` | the map of vconns, their queues and flags | route a datagram, create, sweep, relay, drain, kill | connection |
| intercept `tunnel/intercept/{resolve,dns,routes,combined}`, `flows.rs`, `tcp.rs` | entries and wildcards, names and addresses, route counts, the flow registry | apply a service event, look up, allocate an address, start and kill flows | service poll, splice, UDP relay |
| DNS of the intercept `tunnel/intercept/{dns_server,proxy_resolve,udp/upstream.rs,dns_tcp}` | pending queries by id, connections by domain | answer, forward, proxy, match an answer, evict | intercept, connection |
| address resolution `tunnel/resolve` | none | config and dial options to a target | hosting |

What is hard in it: the maps of a channel are emptied once, by whoever wins
`mark_closed`, while calls go on registering; the read loop serves all
connections and may be parked by one of them; a caller's timeout may drop a call
at any `await`; half-close and full close of two directions interleave with
kills, socket errors and the loss of the channel; tokens and sessions are read,
used over the network and written back while somebody else replaces them; two
locks are taken around the same certificate; connects race to fill one pool; a
hosted child exists before its router knows and may have to be taken back; the
service list changes while it is fetched, and what it installs is shared between
services and counted; queues outlive the tasks that read them; and answers are
matched to queries by ids that clients reuse. The list of hazards, with the
line where each bites and the properties that would catch it, is `hazards` in
PROJECT.json.

What makes each component correct: a channel loses, duplicates and misroutes
nothing while it lives, and releases everybody when it dies; connection ids are
unique and in the client's half of the range; a spliced flow delivers a prefix,
and all of it at a clean end, and ends; the token only moves forward, one
authentication replaces it, and no session that is known to be dead comes back;
a router has one channel, which is in the pool and gets the current token; a
refused child leaves nothing behind and its router knows; what the intercept has
installed is what the service list says; a queued datagram is written and a
proxied query is answered or given up.

## Modules

`EdgeChannel` models the channel. A *call* is one invocation of `dial`,
`send_bind` or `update_token`; its sequence number and connection id are its
identity. A step is one critical section: what the code does under one lock, or
between two awaits where no other task can tell. `waiters`, `conns` and `binds`
are the maps' keys; `queue` and `got` the bounded queue of a connection and what
its reader has taken; `rx`, `frame`, `notified` the read loop with the frame in
its hand and its `Notified` future; `teardown` and `closer` the steps of
`mark_closed` (compare-exchange, notify, clear the three maps) and the task that
won it, which alone goes on through them; `writer` the holder of the write half;
`wire` the outbound transport, which can stall or fail; `inbox` and `eof` what
comes from the router. The router is external: it answers requests it was sent,
accepting or refusing, sends numbered frames to streams it has accepted, and
stray ones. The crypto of a dial is its stream header, which is written after
the reply. `EdgeChannelProofs` has the theorems.

`ConnIdAlloc` models `alloc_conn_id` at the grain of its atomic operations
(`fetch_add`, the two map lookups, the rewinding `store`) over a counter modulo
`Modulus`, 2^32 in the code.

`EdgeHost` models the hosting end of a channel: the accept loop of a binding, one
handler per inbound Dial (dial the target, check, register the waiter, reply,
await the start, withdraw if it does not come, send the stream header) and the
read loop as far as it concerns them. It takes the channel as `EdgeChannel` shows
it to be, with `mark_closed` and a write as one step each, unless the transport
stalls: then no write is taken or refused any more. A Dial's headers are
its `form`: good or bad token, id from the router or not, no key, a good or a bad
one.

`RouterPool` models `open_or_reuse_pooled_channel`: a *flow* is one invocation,
with an opener task per address; `pool` and `live` are the two registries, which
hold a channel strongly and weakly. The token is reduced to whether it is the
current one: `current` for the openers that carry it, `fresh` for the channels
whose router has it, `latest` for the pushes that read it. There are two sorts of
pushers, which race: the timer, and a connect (`Expired` are those that may meet a
401) that renews the token in `with_reauth_retry` before it goes on
(`oidc_session_refresh`). Each exchanges the token or finds it exchanged, reads it,
takes its snapshot of the live channels and tells them one after the other, so a
push may write an older token over a newer one. A push may hang in the write of
`update_token`, which its timeout does not cover; a connect's is then dropped by
the connect timeout, the timer's stays. The other requests that recover from a 401
(the service list, the session certificate) and `refresh()` push by the same
function; they are further pushers like these and not modelled on their own.

`Splice` models a TCP flow: two ends, each with the two pumps of `splice` or
`splice_until_killed`, over the read and write halves of a connection. What an
end writes is its `log`, which the other reads in order: this is what
`EdgeChannel`'s `NothingLost` gives it; a channel that dies loses what was on its
way. A write to the channel, or its wait for the channel's lock, may hang for good
(`Stall`). Both pumps run under one `join!`, so an
interleaving point is an await. A chunk is one read of the socket.

`Pipe` is what a splice promises: a stream each way, in order and gap-free, which
ends cleanly only when all of it has arrived, or is cut. `Splice` implements it
with `sent` the chunks taken from a socket, `delivered` those written to the other
and `ended` read off the read half (`ImplementsPipe`).

`ApiSession` models the token, the cache of dial sessions and the session
certificate, shared by concurrent connects (`connect_inner` with
`with_reauth_retry`, `get_or_create_dial_session`, `dial_with_refresh_retry` and
the opening of a channel), the refresh timer, the hourly session tick, the
public `refresh()` and the service poll. Tokens and sessions are numbered as the
controller mints them; the controller (external) expires tokens, and with a
legacy token its sessions, and deletes sessions. There is one service, because
the cache keeps one entry per service and only the clear after a
re-authentication concerns several. A session kind is `legacy`, `oidc` or
`parked` (OIDC without a refresh token), a login `cert` or `updb` (password, with
a session certificate). `ApiSessionProofs` has the theorems.

`Intercept` models the service poll and all that an event of it changes, on the
one thread where it runs: the cache and its diff, the resolver's tables, the DNS
with its owners per name and per domain and its cyclic address pool, the route
counts and the kill of flows. The poll's two requests are two steps, so that the
list may change between them. The events of a poll are applied one per step
(`RemovedEvent`, `UpsertEvent`), and the addresses of a config one per step after
that (`InstallAddress`): `svc_poll_loop` goes through them without an await, so
until it is through (`Applying`) nothing else on the thread takes a step, and only
the controller may. That is the code's loop written as steps instead of a fold. A
`Vec` is a set of records with their position in it, `at`; what a map does not hold
is `NoHost`, `NoConfig`, `NoService` or the empty set of owners. A network is the set
of addresses in it, which may be synthetic ones, the device's own and those of
other networks; the first entry that has the address wins, and only without one are
the domains looked at. Lookups by address
and class of traffic start flows; a query under a domain allocates an address.
`InterceptProofs` has the theorems.

`UdpRelay` models both UDP relays, which differ in the kill: the loop with its map
and the sweep, each vconn's task with connect, the two pumps under `join!`, the
`done` signal between them, the drain of a snapshot of the queue and the close.
Connect, writes and close may hang.

`DnsForward` models the DNS queries that are not answered from the tables: the
ones forwarded to every upstream server and the ones proxied to the service of
their domain, with the manager's map of connections, its pending queries and the
connection tasks, whose events reach the loop later, and which may hang in a write.

How they fit together: `Splice` stands on `EdgeChannel` (an end's log is read in
order), `EdgeHost` and `RouterPool` on it too (teardown and writes as single
steps); `RouterPool` has the opening that `ApiSession` treats as one operation,
and `ApiSession` the renewal that `RouterPool` treats as one step; `Intercept`
kills what `Splice` and `UdpRelay` run, and decides the service of a domain that
`DnsForward` asks.

Definitions whose comment begins with *Fault* are variants of the definition
that follows them, with a plausible mistake; no specification uses them. Each
property is shown to fail under one of them (`mutants` in PROJECT.json).

`MC*` modules declare the model values and `MC*_<run>.cfg` the instances.

## Runs

| run | instance | shows |
|---|---|---|
| channel_calls | an encrypted dial that may be cancelled, a bind and a push, two of them at a time; queue of 1, 2 frames per stream; reading may end, writing fail, the owner or the conn go, strays come | `NothingLost`, `NoFalseEof`, `NoZombies`, `RepliesDelivered`, `NoLeaks` |
| channel_liveness | one dial with a reader that need not read, the probe, a wire that stalls, the owner's close | `SendersReleased`, `StallReleased` |
| channel_awaiters | one bind, which its caller's timeout may drop; reading ends | a violation of `EveryAwaiterWoken`, below |
| splice_flow | an encrypted flow of 2 chunks each way; the dialer's end may be killed and its client may stop reading, the host's socket may fail and its header may be missing, the channel may die, a write of the dialer's end may hang | `ImplementsPipe`, `BothWaysComplete`, `SpliceEnds`, `KillEnds` |
| conn_ids | two connections and a bind, a counter modulo 12 | `IdsUsable`, `UniqueUnlessRaced` |
| session_cache | two connects, the tick and `refresh()`; the first token may expire; one other failure | `NoResurrection`, `OneReauthPerToken`, `ExpiryRecovered`, `PurgeOnlyDead` |
| session_reauth | one connect, cancellable, and the timer, for every kind of session and login; expiry, deletion, removal of the service | `TokenNeverBack`, `FlowEnds`, `TypeOK` with the holders of both locks |
| hosting | two Dials of four forms; queue of 1, 1 data frame; the transport fails or stalls, the channel closes, the router unbinds and inspects | `NoChildLeak`, `RouterTold`, `FirstDataKept`, `HandlerEnds` |
| routers | two connects over two routers, one shared; hang-ups, cancelled connects, renewals and pushes by the timer and by a connect, pushes that hang | `NoOrphans`, `FailsOnlyIfAllFail`, `TokenArrives`, `OpenersEnd` |
| intercept | six service lists, two changes, one failed request, five names, three networks, two of which overlap and one of which has a synthetic address in it, one flow | `UpToDate`, `RoutesMatch`, `DnsOwned`, `ResolvesToOwner`, `FlowsCurrent`, `Converges` |
| udp | one source, a queue of 2, 2 vconns, 4 datagrams, kills, writes that hang | `Relayed`, `NoBlackHole`, `VconnEnds` |
| dns | three queries out of three kinds with a reused id, two servers, one domain that moves once, 2 connections | `NoLostQuery`, `AnswersOwn`, `TaskEnds` |

`channel_awaiters` ends in a violation: `send_bind` passes the teardown, and its
waiter is inserted into the map that was just cleared, so the close does not wake
it, and if the write half still takes the Bind it awaits a reply that nobody can
deliver. `rxloop.rs:20` says that the loop wakes every awaiter, and `channel.rs:360`
that `send_bind` returns `ChannelClosed` then. It does not wait for ever: its caller
bounds it (`edge/bind/flow.rs:128`) and returns `BindTimedOut`, after 60 s by
default. The run allows that timeout; the invariant is violated before it fires.

The `TypeOK` of the other modules documents the shape of their state; where there
are proofs it is proved.

Why the bounds are enough. A queue of capacity 1 with 2 frames is full and parks
the read loop, which is what the code's capacity of 4 does later. The channel's
hazards are between two calls, or a call and the teardown, so `TwoCalls` leaves
out the states where a third has begun; calls do not multiply steps, and
`EdgeChannelProofs` covers any number of them for the invariants it proves. One
frame in flight is enough for a reply and a frame to follow each other, since the
read loop holds another. For `Splice`, two chunks tell a gap from a reorder and
leave one behind another. `Modulus` 12 gives 4 usable ids for three callers, so
the counter is rewound over ids that are in use. In `ApiSession` the last token
the controller mints (`MaxTokens` is 2) does not expire, so one expiry strikes at
every point; `MaxSessions` is two per connect, which is all they can create, and
one to begin with; `MaxErrors` counts the failures that are neither a 401 nor a
dead session. In `EdgeHost` the forms cover both sources of the id, encryption and
both refusals; two Dials with a queue of 1 make the second wait, and `unbind`
close the queue behind the first. In `RouterPool` the second connect shares one
router, which gives the race for an address, and the first has another, which
gives the partial failure; one connect that may meet a 401 and the timer are the
two pushers that race. In `Intercept` the lists swap configs, lose one, lose a
permission, rename a service and reuse a name under another id; `Mask` 6 gives 5
addresses of which 2 are reserved, so that the pool is exhausted; one of the names
is empty, and a config serves the domain `*.` above it, so that a reserved address
has the name of a host; two changes meet every point of a poll and a poll of its
own. Of its networks one is around the DNS server's address and one of the pool's,
the others share an address. In `UdpRelay` 4 datagrams fill a queue of 2 once and go
on to a second vconn. In `DnsForward` the third query can reuse the id of one that is
pending or was given up.

Deadlock. `Splice`, `ConnIdAlloc`, `RouterPool`, `Intercept`, `UdpRelay` and
`DnsForward` are checked for it. The others may stop: a channel that is closed, or
whose router says nothing more, connects that have all ended, a binding that is
gone.

Fairness. Nowhere is it assumed that a write to a channel ends. The code does not
bound one (`edge/data/conn.rs:289-357`, `edge/data/channel_state.rs:314-317`,
`tunnel/intercept/proxy_resolve/task.rs:61`; `edge/data/accept.rs:156-162` and
`tunnel/intercept/udp/pump.rs:260-267` say so), and neither the teardown of the
channel nor a kill ends it. So every model of tasks that wait in such a write has
a step with which the transport takes no more (a connect's dial, in `ApiSession`, is
under the connect timeout), and each liveness property about such a task names the
write that hangs as its one exception:
`SpliceEnds`, `KillEnds`, `HandlerEnds`, `VconnEnds` and `TaskEnds` say that the task
ends or is in a write that hangs, `TokenArrives` that the token arrives or the
timer's push hangs. What they show is that there is no other place to wait for ever.
In `Splice` only the dialer's end, the one that may be killed, has writes that hang
(`Stalls`), to keep the run small; its peer is then one that hears nothing more.

Beyond that: `EdgeChannel`: the runtime polls every task that can go on and its
timers fire; nothing is assumed of the router, the transport, the callers'
timeouts, a reader or the owner. `Splice`: pumps are polled; sockets need not say
anything, nor take what is written to them unless their client is one that reads
to the end (`drains`, chosen at the start). `ApiSession`: requests are answered or
fail (the HTTP client has timeouts), tasks are polled, and since tokio's mutexes
are FIFO, whoever asks for one again and again while it becomes free gets it
(strong fairness). `EdgeHost`: the accept loop and the handlers are polled;
dialing the target and awaiting the start are timed; nothing is assumed of the
router. `RouterPool`: flows, openers and pushes are polled, a handshake ends
(`ROUTER_DIAL_TIMEOUT`), and the connect timeout drops a flow whose push hangs; the
timer keeps running and its token exchange succeeds some time; strong fairness of
`Push` says that a router which stays connected does not refuse every push of the
timer, without which no token could arrive. `Intercept`: the poll's timer fires, the
loop over the events goes on, and a fetch ends one way or the other (the HTTP client
has timeouts), which is all that `[]<>(poll # "list")` says. `UdpRelay`: a vconn's
task is polled and, where it does not hang, goes on; a peer need not answer.
`DnsForward`: the loop takes its events and the tasks are polled; nothing is assumed
of a server, a peer or the clients.

### Disagreements with the comments that no run shows

Four more were found while modelling. They need no property to be seen, and the
models include them as the code has them.

- `edge/conn/flow.rs:43` calls the connect timeout's drop "cancel-safe, as the
  drop tears down any partial channel via `EdgeChannel`'s `Drop`". The channel is
  pooled and stays: a dial dropped between the bytes of a frame leaves a torn
  frame on it, which `tunnel/udp/pump.rs:217` says costs the peer the framing of
  every connection, and its entries in the maps.
- `edge/data/channel_state.rs:293` says that `update_token` is "Bounded by
  `timeout` so a non-responding router cannot hang the caller"; the write lock and
  the write (314-317) are awaited outside the timeout. A push that hangs there holds
  the refresh timer, which is the exception in `TokenArrives`.
- `edge/client/auth.rs:393` says that the clear after a re-authentication keeps
  `get_or_create_dial_session` from returning a stale session;
  `cache_dial_session` inserts a session whose creation was under way at the
  clear. The next connect that uses it evicts it.
- `edge/refresh/store.rs:38` says of a refresh's store "ONLY if the live token
  still equals the one the GET was issued with"; `refresh()`
  (`edge/client/construct.rs:681`) stores without the comparison, and may undo a
  re-authentication by the timer.

## Proofs

`EdgeChannelProofs` proves, for any sets of calls, queue capacity and bounds,
under `CallsAssumption` (the sets of dials, binds and pushes are disjoint, and
their members are not the names of the other tasks) and `BoundsAssumption`:

- `TypeCorrect`: `TypeOK`, with the fact that a frame in the read loop's hand
  belongs to a stream;
- `NoZombiesCorrect`: once `mark_closed` has run, no connection or bind is
  registered;
- `NoFalseEofCorrect`: a reader's sender is dropped only if the channel is closed;
- `NoLeaksCorrect`: on a live channel a failed call has nothing registered;
- `RepliesDeliveredCorrect`: the answer to a call that waits is with it, or on its
  way to a waiter that is still armed;
- `NothingLostCorrect`: the frames that the router sent to a connection or bind are
  with its reader, in its queue, in the read loop's hand or in flight, in order and
  without a gap.

None of the others is inductive. For `NoZombies`, `NoFalseEof` and `NoLeaks` the
invariant is
`TypeOK /\ Phase /\ StaysClear /\ Entries`:

- `Phase`: `closed` holds exactly from the compare-exchange on;
- `StaysClear`: a map that the teardown has passed stays empty. It needs `Phase`,
  because a registration is refused by `closed`, not by `teardown`;
- `Entries` follows an entry through the life of its call: `Unarmed` (no waiter
  before the call arms it), `Answered` (a delivered reply has taken the waiter
  out), `Disarmed` (past the reply or the clean-up there is none), `Registered`
  (between registration and clean-up the entry is in its map, or the channel is
  closed), `Gone` (a failed call has no entry) and `LeftBehind` (only a failing
  transport makes `close` leave one).

`TypeStep`, `CloseStep` and `EntriesStep` prove that each part is preserved, one
step per action; `NoZombies`, `NoFalseEof` and `NoLeaks` follow from the
invariant without further induction.

The other two need what is in flight, `InFlightInv`, on top of it: `Answers` (the
router answers a call once; its answer is in the inbox or with the call, and the
waiter stays armed until then), `Coherent` (the frames of a stream are in the inbox
in the order of their numbers, and only after an acceptance) and, for a call that
is `Whole` (it has not begun to end, and nobody but the read loop closes the
channel), `Kept`: what its reader has, what is queued and what is in the read
loop's hand are the first frames in order, and all the rest is in the inbox.
`Kept` needs `Registered`, since a frame for a connection that is not in the map
is discarded; and `Closing`, since the read loop gives up a frame in its hand only
when somebody has closed the channel. `AnswersStep`, `CoherentStep` and `KeptStep`
go through the actions; the lemmas before them say what taking a frame from the
inbox and adding one does to each part.

`ApiSessionProofs` proves, for any number of connects, tokens and sessions, under
`SessionAssumption` (no connect is named like a timer, and the bounds are
positive; that there are enough session numbers for every connect is not used):

- `TypeCorrect`: `TypeOK`, with the fact that `reauth_lock` and the certificate's
  lock are held by exactly the actor that is in the section they guard;
- `NoResurrectionCorrect`: an evicted session is never cached again;
- `OneReauthPerTokenCorrect` and `TokenNeverBackCorrect`: whoever authenticates
  does it for the current token, and the token only moves forward. Both assume
  that `refresh()` is not called (`"refresh" \notin Events`): it stores its answer
  without the lock, and the token can go back;
- `PurgeOnlyDeadCorrect`: the tick takes only dead sessions out of the cache;
- `ExpiryRecoveredCorrect`: a connect that is alone survives the expiry of a legacy
  api session at any of its steps, beside the timer, the tick and the service poll.
  It too assumes that `refresh()` is not called, and it is stated for legacy
  sessions. Of an OIDC login it is not true, as TLC shows: the token expires under
  the probe for edge routers, the timer exchanges it, and the second probe finds the
  session alive, since that outlives its token; the connect then returns the first
  probe's 401.

The invariant has two independent halves. For the cache it is `Fresh` (a session
between its creation and its insertion is in nobody else's hand, and neither in
the cache nor evicted) and `Known` (only minted sessions were ever cached);
`NoResurrection` alone is not inductive, as the blind insert of
`cache_dial_session` could bring anything back. For the token it is `Held` (from
the lock's gate to its release nobody else is in that section), `Later` (a token
about to be stored is newer than the one in use) and `Quiet`; the lock's part
needs `Renewing` (only a connect that is after the certificate waits for it).
`PurgeOnlyDead` adds `Purging` to the cache's half: while the tick is about to
purge, the session it found dead is minted and dead, so what it takes out, if that
is still there, is the same session and not a new one.
`ExpiryRecovered` needs an invariant of its own, `Recovering`. `Ahead` says that no
request and no session has a token that the client has not had; `Turn` that tokens
take turns while nothing else goes wrong: each is minted after the one before it has
expired, and the sessions that exist are those of the one that is valid. So with one
expired token there are at most two tokens, and the second is valid (`Expired`).
`Fine` then follows the connect through both attempts of a request and both dials: at
the second attempt it uses the second token, at the second dial a session of the
second token, and a failed dial or probe means that the session was one of the first.
`Begun` and `Apart` are for the other connects: they are over, or have not begun.
`TypedStep`, `HeldStep`, `MintedStep`, `CacheStep`, `TokenStep`, `PurgeStep`,
`AheadStep`, `TurnStep`, `ApartStep` and `RecoverStep` have one step per action.

`SpliceProofs` proves, for any number of chunks, under `SpliceAssumption` (the
types of the constants):

- `InOrderCorrect`: what arrives is a gap-free prefix of what was sent;
- `FinMeansAllCorrect`: a read half that stopped at a FIN has passed on all that
  the other end took from its socket;
- `WireGrammarCorrect`: header, data, at most one FIN and at most one StateClosed,
  in this order;
- `BothWaysCompleteCorrect`: when both ends have closed, and no kill, error or loss
  of the channel came between, each client has all that the other one sent;
- `Refinement`: `Spec => ImplementsPipe`, by a step of `Pipe` or a stutter for each
  action.

The invariant (`InvCorrect`) is `TypeOK` and, for each end, `LogInv`, `WriterInv`
and `ReaderInv`. `LogInv` places every frame of the log: a chunk by its number
right after the header, a FIN after everything taken from the socket. That is
true of a FIN only because a chunk is never given up while a FIN may still
follow, which is `WriterInv`: until the write side is closed the log lags behind
the socket by the chunk that is being written and no more, and where it lags for
good, `sent_fin` is set or the channel is dead. `ReaderInv` ties what a reader has
written to its socket to the position it has read the log up to, so that at a FIN
it has written everything. `Refinement` uses the invariant where `Pipe` has a
guard: `Send` must not follow a clean end, and `EndCleanly` needs all delivered.

`BothWaysComplete` needs more than what a log holds: that of two ends one closes
first (`CloseInv`). A read half that stopped at a StateClosed was told so by an end
that sent no FIN and did not itself stop at one, so the two cannot blame each
other for the missing FINs.

`ConnectingProofs` has what a connect gets while others connect too: a channel to
a router, and an id on it. Of `RouterPool` it proves, for any number of connects
and routers, under `PoolAssumption`: `PoolTypeCorrect`; `NoOrphansCorrect`, which
is inductive with the types alone, since an opener stores under the pool's lock
what it finds absent or dead; and `FailsOnlyIfAllFailCorrect`, which is not: it
needs `Spawned` (a connect has no opener before it fans out; those that it has
heard from while it waits had no channel; and when it fails it has heard from
all) and `Renewing` (a connect pushes only while it renews the token, so that the
end of its push cannot put a connect that fans out, or failed, back).

Of `ConnIdAlloc` it proves, for any number of callers and any width of the
counter: `AllocTypeCorrect`, `IdsUsableCorrect` and `UniqueUnlessRacedCorrect`.
`AllocAssumption` has it that there are at most as many callers as ids above the
usable range (2^31 in the code): otherwise so many of them could have drawn an id
above the range at once that the counter wraps before the first of them rewinds
it. The invariant has one part for each half of the hypothesis: `FirstTurn` (until
it is rewound the counter is ahead of all ids, these differ, and every number
drawn above the range is in some caller's hand, which bounds them by the callers)
and `Alone` (what a caller saw in the maps is still so if no other allocates);
`InRange` and `Found` give `IdsUsable`.

`EdgeHostProofs` proves, for any number of Dials of any forms and any capacity of
the bind's queue, under `HostAssumption`: `TypeCorrect`, `NoChildLeakCorrect`,
`RouterToldCorrect` and `FirstDataKeptCorrect`. The three say what is true at the
end of a handler; the invariant says it at each of its positions: `Maps` (in which
maps the child is), `Told` (what the router has been told of it) and `Kept` (none
of its data was discarded). That no two handlers work on one Dial is `Queued`: a
Dial is in the bind's queue at most once, and only before it has a handler.

`UdpRelayProofs` proves, for any number of sources, vconns and datagrams and any
depth of the queues: `TypeCorrect`, `RelayedCorrect` and `NoBlackHoleCorrect`. The
invariant is, per vconn, `Fifo` (what was accepted is what was written, what is in
hand and what is queued, in this order), `Stopping` (the flag is up before a pump
stops, and the snapshot that is drained is the whole queue, because the loop adds
nothing once the flag is up) and `Fresh`.

`DnsForwardProofs` proves, for any number of queries, servers, domains, services
and connections, under `DnsAssumption` (the types of the constants; the servers
are finitely many, so that two of them count as more than one): `TypeCorrect`,
`NoLostQueryCorrect` and `AnswersOwnCorrect`. The invariant: `Waits` (a table holds
a query under its own id), `Working` (a task that is not closed will come to its
jobs), `Once` (a proxied query is in one place at a time: one queue, one hand, one
connection, or the events), `Tokens` (as long as it is in one, its id is its own,
or was given up) and `Requests` (the same of what a server owes, or several were
asked). `Once` is what makes an event the last of its query: without it a second
answer could be taken for that of the next query with this id.

`InterceptProofs` proves, for any set of service lists and configs, any size of the
address pool and any number of names, flows, changes and errors:

- `TypeCorrect`;
- `InstalledUpToDate`: once the stamp is the controller's and the events are
  applied, what is installed is what the list says;
- `RoutesCounted`: a route's count is the number of times that the installed configs
  name it;
- `NamesOwned`: names and addresses belong to each other one to one, and a name goes
  with its last owner and not before;
- `FlowsGoToOwner`: a flow goes to an installed service that has a network around the
  address, or names the host that the address was given to or a domain above it; one
  to the device's own addresses, or to one that no name has, goes to none without
  such a network;
- `FlowsUnderInstalled`: a flow that was not killed runs under the installed config.

`InterceptAssumption` gives the constants their types, a name at most once per list
(the controller's names are unique), and domains that nest (a domain of a domain of
a name is a domain of that name). It leaves out a pool of a `/31`, which has no
address to give.

The invariant is `Inv`, in three groups. `TableInv` is about the tables while a
config is being installed: `AddrsInstalled` (the addresses still to come are of
the config that is installed), `EntriesInstalled` and `WildcardsInstalled` (so are
the entries and wildcards that there are; and an entry for a host has the address
that the DNS has for it, and its service is an owner of the name, which is what
keeps the address from being given to another name while the entry stands),
`HostsUnder` (a name was looked up under a domain it is in) and `ReservedTaken`,
beside `NamesHeld`, the half of `DnsOwned` that says what a name must have; the
other half, `NamesKept`, is in `EntriesInstalled` and `WildcardsInstalled`.
`ResolvesToOwner` follows from it without further induction (`ResolvesWhere`); it
needs the comparison of addresses in `reverse_lookup_domain`, since a name may be
both a host's and a reserved address's. For the routes, `RoutesMatch` is inductive
with `OccurrencesFinite`: replacing one service's config takes the old mentions
out of the set of all of them and puts the new ones in, and since the old ones
were counted, `delete` does not stop at zero early (`CountReplaced`). For the
poll, `EventsCached` says that the events to come are for what is cached now, one
for each name, and that a name without one has its config installed (`Follows`);
`CacheFollows` that the cache is the list if the stamps are equal. `UpToDate` is
the two together when there are no events left. Why the stamp is safe: it is read
before the list, so a list fetched under it is as new or newer, and a change after
the stamp makes the stamps differ.

### Only model-checked

- Liveness under fairness, which is out of the prover's reach: `SendersReleased`,
  `StallReleased`, `SpliceEnds`, `KillEnds`, `FlowEnds`, `HandlerEnds`,
  `TokenArrives`, `OpenersEnd`, `Converges`, `VconnEnds`, `TaskEnds`.

Every other property of a passing run is a theorem too, with the hypotheses on
`refresh()` and on the kind of session that are named above.

## Not modelled

The layout of frames and headers, JSON and JWT, TLS and the cipher, logging,
and the argument parsing: sequential conversions with tests of their own. The
bytes of a frame are only told apart as whole, failed and torn. Times are not
modelled: a timer may fire at any moment. Sequence numbers do not wrap in the
model (2^31 frames on one channel are needed). `conn_ids` documents a race of
the rewind with a concurrent allocation by the hypothesis of
`UniqueUnlessRaced`; it needs 2^31 allocations on one channel.

The listener manager: its functions decide what to open and close from a state
they are given, and the loop that would call them and keep that state is not in
the repository. Enrolment, the OIDC login and the other logins: one task, one
request after the other, nothing shared. `tunnel/resolve`: pure functions of a
config; `EdgeHost` takes a target or a refusal. DNS over TCP: one query at a time
on a connection of its own. The device and the userspace TCP stack: a library.

Of the modelled parts: the service list is fetched as one page (a list that
changes between two pages may be seen torn, until the next change of the stamp);
two spellings of one network are two networks, and names are unique within a list, as the
controller has them; errors of the commands that set routes are only logged by the
code, and left out; a hostname that finds the address pool exhausted is skipped,
here as in the code; an address that is given to another name while a client still
has the old answer is not told apart, as clients keep no state here; the posture
frames of a channel; the end of the UDP intercept's own loop; a DNS reply that
finds the egress queue full is dropped by the code, and always sent here.

How much of the source this is: about half of the repository's Rust lines are
tests, and much of the rest is doc comments and declarations; the bodies of the
functions that are not tests come to about 10,900 lines, of which the map covers
some 4,900. What is left of them is mostly the encodings, the logins, enrolment
and the command line.

## Plan

1. An abstract specification of the channel as a set of independent streams, which
   `EdgeChannel` implements and `Splice` and `EdgeHost` use.
2. The listener manager, once there is a loop that drives it.
3. Enrolment: the order of its writes, against a crash.
