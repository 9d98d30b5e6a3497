# Agent United: TLA+ models and proofs

Agent United is a chat workspace for people and agents. A workspace runs as an
*instance*: one Go server (`src/apps/api`) with Postgres and redis. Clients
reach it over REST, server-sent events and websockets, and, when it sits behind
a home router, through a *relay*, a public server to which the instance keeps a
websocket tunnel. Around it stand a central identity service, a Stripe webhook
receiver, SDKs, a web client, a desktop app and an iOS app.

This directory holds models of the concurrent parts of that system in TLA+, the
TLC configurations that check small instances, and TLAPS proofs of what is true
for every instance. The source of each definition is in `PROJECT.json` (`map`).

| Module | What it is |
| --- | --- |
| `RelayTunnel` | the tunnel: clients, reconnects, registrations, the registry, plain HTTP requests |
| `PublicRequest` | what the relay promises of one public HTTP request; `RelayTunnel` implements it |
| `LossyStream` | what the relay promises of one proxied event stream |
| `EventFeed` | what the instance promises of one event stream of a user |
| `RelayStream` | event streams proxied over one tunnel connection; implements `LossyStream` |
| `RealtimeHub` | how a sent message reaches streams and sockets of one instance |
| `ChannelMembers` | channels, members, roles and conversations of two, with overlapping calls |
| `Accounts` | users, invites, identities and password resets, with overlapping calls |
| `Bootstrap` | provisioning of an instance, its failures, retries and recovery |
| `WebhookDelivery` | the goroutine that tells webhooks about a message |
| `SdkSocket` | the realtime client of the TypeScript SDK |
| `ChatSocket`, `DesktopSocket` | connection and conversation of the web client and of the desktop app |
| `ChatPage`, `ChatComposer`, `MessageItem`, `ChatPanels` | the web client's chat page, in four parts |
| `WebSession`, `WebBilling`, `WebSettings` | the web client's other pages |
| `DesktopShell` | the main process of the desktop app |
| `*_proofs` | inductive invariants and theorems (section 9) |
| `MC*` | values of the constants for TLC, and runs that put several modules side by side |

To check: `tlc -config <run>.cfg <module>.tla`, with the module `PROJECT.json`
names for the run; `tlapm <module>_proofs.tla`.

On the server's side a module is written over a set of processes with a program
counter each (`cpc`, `spc`, `dpc`, `phase`, ...), one action per stretch of code
that no other process can interleave with. A lock held for one lookup or update
makes that lookup or update atomic and nothing more; a database statement or
redis command is one step; what lies between two of them is not. On the clients'
side a callback, a React handler or an effect runs to its end in one step, and
what interleaves are requests under way, timers and events. Definitions whose
comment says *Mutant of X* are plausible bugs: each property is shown to fail
when `X` is replaced by one of them, and they take no part in the specification.

## 1. Inventory

Paths are below `src/apps/api/internal` unless they start with `src/`.

### Relay (`relay/`)

* **State.** Instance: the manager's mode, token and cancel function
  (`manager.go`); per client a reconnect loop, a session and the websockets it
  opened locally (`client.go`). Server (`server.go`): the map of connections by
  id, and per connection the reply channels of requests under way. Redis:
  `relay:subdomain:<sub>`, the id of the connection serving it, with a lifetime
  of two minutes that the heartbeat renews.
* **Operations.** Start, UpdateToken; dial, register, heartbeat, read loop,
  cleanup; public HTTP, event-stream and websocket requests.
* **Interaction.** The manager cancels a context and starts a goroutine; client
  and server talk over one websocket; server goroutines meet in the connection
  map, the registry and reply channels.
* **Hard.** Broken links at every point; two registrations of one subdomain at
  once; three goroutines that may each notice the end of a connection; a
  request that waits on a tunnel which broke; a read loop shared by all
  streams, which therefore must not block.
* **Correct when.** A request reaches only the instance that owns its
  subdomain; at most one client is live; nothing leaks; every request is
  answered; the tunnel comes back after a fault; streams keep their order and
  one stalled reader holds up no other.

### Realtime delivery (`api/handlers`)

* **State.** The hub's two maps of subscribers per channel (`ws_hub.go`), each
  stream's event channel of 128 (`events_handler.go`), each socket's
  connection.
* **Operations.** Open, cut and close a stream; open, subscribe, ping and drop a
  socket; send a message by POST or by a websocket frame, with the membership
  check, the insert, the hub broadcast and the Centrifugo publish.
* **Hard.** The broadcast works on snapshots taken under a lock it has released;
  streams close their event channel meanwhile; several goroutines write to one
  socket; buffers fill; membership changes.
* **Correct when.** No subscriber gets a message twice or is skipped because of
  another; a stream keeps the order of messages; whoever is finished is
  forgotten by the hub; cut streams end and queues drain.

### Accounts and invites (`service/auth_service.go`, `invite_service.go`)

* **State.** Users (password hash, kind of account, central identity), invites,
  reset tokens: rows.
* **Operations.** Register, change and reset a password; create and accept an
  invite.
* **Hard.** Each is several statements without a transaction: check-then-act,
  a write of a row read earlier, tokens that must be used once, failures
  between two statements.
* **Correct when.** An invite lets one call pass; an identity belongs to one
  user; a row is never half a local and half a central account.

### Bootstrap (`service/bootstrap_service.go`)

Ten kinds of row, one insert after the other; a retry is refused or recovered.
Hard: any insert may fail, two first calls may overlap, a retry may meet a call
that is still under way. Correct when an answer of success is true.

### Channels and members (`service/channel_service.go`)

Channels, roles and conversations of two as rows; create, find, rename, delete,
add, remove, leave, mark as read. Hard: a role is read with one statement and
the write is another. Correct when a conversation of two stays one, whatever
overlaps.

### Webhook delivery (`service/webhook_service.go`)

Webhooks and delivery rows; one goroutine per event that posts to each webhook
in turn with up to three attempts. Hard: failing statements, deletion
meanwhile, death of the process. Correct when each webhook found is served in
the end, none too often, and the rows tell the truth.

### Reconnecting clients (`src/packages/typescript/src/realtime.ts`, `src/apps/web/src/hooks/useWebSocket.ts`, `src/apps/desktop/src/services`)

A socket, a reconnect timer and an intent (connected or not), changed by
callbacks of sockets that may be old; lists of messages filled by loads,
sockets and answers at once. Correct when one intent has one line of sockets
that comes back, and what is shown is shown once and belongs where it is shown.

### Pages of the web client (`src/apps/web/src/pages`, `components`, `services`)

State of React components, and the browser's storage, which tabs share. No
request is ever cancelled, an answer sets whatever is there when it comes, and
a handler sees the state of the render it was made in. Correct when an answer is
about what is shown, a form is sent once, a draft survives a failure, and a
link's token goes to the instance the link names.

### Desktop main process (`src/apps/desktop/src/main.ts`)

The window, menus and links, settings, and a queue of notifications with a
timer. Correct when every notification let through is shown once and in order.

### Billing, pairing, central identity, iOS

`service/billing_service.go` and `src/apps/billing-webhook` keep a subscription
row, a redis copy of it and `relay:token:<token>`, which the relay client also
writes. `handlers/pairing_handler.go` changes a config file, the environment and
the relay manager one after the other. `src/apps/central/main.go` has accounts and
claims of the hosted service. The iOS app has the same shape of socket as the
SDK. These are not modelled yet.

### Without logic worth a model

Request authentication (a pure check), email (one call), file storage (disk),
integrations (adapters), configuration, models, SDK methods (typed HTTP calls),
presentation, docs, build and deployment. `PROJECT.json` lists each with its
reason.

## 2. Plan

In order of what would hurt most:

1. `RelayTunnel`, `RelayStream` over `LossyStream`, `RealtimeHub`. *Done* (the hub
   for the creation of messages).
2. The reconnecting clients. *Done* for SDK, web client and desktop app.
3. The web client's pages and the desktop's main process. *Done.*
4. `ChannelMembers`, `Accounts`, `Bootstrap`, `WebhookDelivery`. *Done*, within
   what section 10 names.
5. Billing: Stripe events out of order, row, redis copy, and the two writers of
   `relay:token:<token>`.
6. Pairing: file, environment and manager with restarts, over `RelayTunnel`'s
   `UpdateToken`.
7. Edits and deletes of messages, whose fan-out joins `RealtimeHub`; the central
   identity service, whose claims join `Accounts`; the iOS socket.

Compositions: `RelayTunnel` implements `PublicRequest`, `RelayStream` implements
`LossyStream` and `RealtimeHub` implements `EventFeed`, once per request or stream; `ChatSocket` and
`DesktopSocket` hold as much of the instance as their pages need. The services
share no rows a property relates, so they are checked side by side and not
interleaved. A module that puts `RealtimeHub`'s stream in place of the local
response of `RelayStream`, `EventFeed` feeding `LossyStream`, is the composition
still worth writing; a chunk there is what one read of up to 4096 bytes returned
(`client.go:219`), so a message may lie across two chunks.

## 3. RelayTunnel

| Model | Code |
| --- | --- |
| `started`, `tunnel`, `mtoken`, `running` | `Manager.parentCtx`, `deploymentMode`, `token`, `cancel` |
| `cpc`, `ctoken`, `cancelled`, `cconn` | the goroutine of `Client.Start`, the token it was made with, its context, the connection of `runSession` |
| `owner`, `link` | a websocket between client and server; it breaks once, for good |
| `spc`, `beating`, `clients` | `handleTunnel` of a connection, its heartbeat goroutine, the keys of `Server.clients` |
| `key` | redis `relay:subdomain:<sub>` |
| `rpc`, `rsub`, `rconn`, `work`, `answer` | one `handlePublicHTTP` and the `handleRequest` it causes |

`Start` and `UpdateToken` run under the manager's mutex and are one step each.
A client's life is `LoopTop`, `Dial` (which takes no context), a session that
only its connection can end (`SessionEnds`) and `BackoffElapses`. Registration
is three steps, because the map insert, the `redis.Set` and the reply are not
atomic: `Register`, `SetKey`, `SendRegistered`. The end of a connection is noticed
by up to three goroutines: `SendRegisteredFails`, `HeartbeatFails`,
`ReadLoopEnds`. A request is `Lookup`, `GetClient`, `ReadBody`, `SendRequest`, then
`Respond` or `Timeout`. Between `GetClient` and `SendRequest` the handler reads the
whole public body (`rpc` "reading"), which nothing limits in time; it may meanwhile
hold a connection that is gone. Faults are `LinkBreaks`, `DialFails`, `KeyLost`, a
failing Set and a failing Get, which is answered like a key that is not there
(`server.go:283`).

Abstracted: tokens are admitted or not (`Admitted`), their subdomain is a
function (`SubOf`, a hash that may collide), the length of backoff and timeouts
is left out (any timer may fire whenever it is waited on), bodies and headers
are one status. A connection id and a client object are used once.

**Runs.** `Instance_safety` has the tunnel as one of its four parts: three
tokens, one refused, two clients, three connections, one request, one broken
link and one redis fault; about the smallest instance in which a replaced
client, its successor and a reconnect coexist. Beside `RelayInv` it checks that
each request implements `PublicRequest`: only the instance of its subdomain is
ever handed it, acts on it at most once, and the answer is that instance's own, a
refusal of a request nobody acts on, or a timeout, after which it may still be
acted on. `RelayTunnel_live`: with one
broken link and one failure or loss in redis, every request ends
(`RequestAnswered`), unless its public never finishes the body or a tunnel that
stays up never takes the write of it (`Untimed`: the timer of 30 s is armed only after
both, `server.go:305-320`), and the current client's session is served for good once
the operator rests (`Reconnects`). `RelayTunnel_reachable` shows a disagreement: the
map insert and the `redis.Set` of one connection may be overtaken by those of
its successor, so the key may end up naming the dead one, and the successor's
heartbeat keeps that key alive: public requests get "workspace offline" while
the tunnel is up.

Also true of the code, and in the model, without a run of its own: `UpdateToken`
cancels a context `runSession` never looks at, so the old tunnel stays
registered; an error of `redis.Set` is dropped (`server.go:137`).

**Fairness.** A goroutine that can take a step takes it: registration, read
loop, heartbeat (its ticker fires for ever), reconnect loop, timers. Nothing is
assumed of operators, the public, the network or redis: `ReadBody` is not fair, and
`SendRequest` is so only once the link has broken, when a write that was blocked
fails or is buffered. The few bytes of a registration, its answer or a ping are
taken to be written, although no deadline guards them either. Faults are bounded, so
"once faults cease" is part of every behaviour.

**What `RelayInv` leaves open.** The server may go on serving a session whose client
was replaced: `OneLiveClient` is about the clients the manager knows, and a context
that was cancelled is no reason for `runSession` to end (below).

**Proved**, for all sets of tokens, clients, connections, subdomains and
requests, from `ConstantsOK` (the refused tokens' subdomains are as arbitrary as
the others'): `RelayInv` is inductive, and with it type correctness,
`RoutedToOwnSubdomain`, `OneLiveClient`, `OneLinkPerClient` and
`FinishedIsForgotten` (the last three are conjuncts of `RelayInv` or follow from
it, and no run checks them by themselves). None of these is inductive alone. Isolation needs that a key
only ever names a connection whose owner's token hashes to that key's
subdomain, and that a connection's owner and token never change once dialled;
the single live client needs that `running` is the client started last and that
nothing runs before `Start`; a single link needs that a session is exactly a
client with a connection.

The refinement of `PublicRequest` hides connections, clients, the registry and
the manager; `Public(r)` maps the handler's and the instance's side of one
request. It needs that the two sides agree (`RequestsKnown`: only the write to the
tunnel sets the instance to work, and an answer ends the handler), and that the
subdomain of the connection a request was written to is the request's own after
every later step too, which is isolation in the next state: tokens of clients
and owners of connections never change under a request.

## 4. RelayStream and LossyStream

| Model | Code |
| --- | --- |
| `h`, `ended` | `handlePublicSSE` of a request and why it returned |
| `startCh`, `chunkCh`, `endCh` | its three reply channels; only `chunkCh` can fill (`Cap`, 256 in the code) |
| `wire`, `toInst`, `up` | the tunnel connection: frames to the server in order, requests to the instance |
| `c`, `sent` | `handleSSERequest` of a stream; chunks it read locally and wrote |
| `pub`, `out` | the public client, and the chunks written to it |
| `dropped` | history: chunks the read loop threw away |

A chunk is its number. `ReadFrame` is one turn of the server's `readLoop`, which
serves all streams of the connection and drops what does not fit. The handler
waits for the headers (`TakeStart`, `Timeout`, `ContextDone`), then selects among
chunk, end and context (`WriteChunk`, `TakeEnd`, `ContextDone`) in any order, as Go
does; inside a write to a stalled client it selects nothing. `Request` and
`Write` on a broken link either fail or are lost. `LinkBreaks` loses any suffix of
what is under way. A failing local call sends a plain response
(`LocalFails`), which no stream handler looks up.

`LossyStream` is the promise to one public client: it is written an ascending
selection of the chunks the instance sent, until the response is closed.
`ImplementsLossyStream` instantiates it once per stream, with `got` the chunks
written and `closed` the handler's return.

**Runs.** `RelayStream_streams`: two streams share the connection; the first sends
one chunk more than its channel holds, the second starts and ends, so a full
queue, a stalled client and a healthy neighbour meet. It checks the invariant,
`AccountedFor` (while the link is up, only a full queue loses a chunk), the
refinement, `Answered` (no request waits for ever) and `EndsWithInstance` (a
stream the instance ended ends for its public client, unless that client
itself stalls or the link breaks; the clients of other streams do not matter).
The end signal may overtake queued chunks (`server.go:399`), so a response can
lose its tail although nothing was dropped; `LossyStream` allows it.

`EndsWithInstance` says nothing about a broken link, because the code does
nothing then: a streaming handler is not told that its tunnel is gone and waits
until its own client leaves. `Answered` does hold on a broken link, through the
15 second timer.

**Fairness.** The read loop, the client's receive loop, handlers that can select
and the 15 second timer. A stalled client, the local API and the network owe
nothing, so nothing is promised to a client that stalls.

**Proved**, for every set of streams, every capacity and every number of
chunks: `StreamInv`, `AccountedFor`, and that every step of `RelayStream` is, for
each stream, a step of `LossyStream` or none. `StreamInv` says that wire,
channel and response hold ascending chunk numbers, each stage behind the next;
order at the public client alone is not inductive, since it depends on what is
still queued and under way. It also says that a handler that returned has
nothing in its channels, and that one that has not begun has sent nothing,
which `AccountedFor` needs at its start.

## 5. RealtimeHub

| Model | Code |
| --- | --- |
| `sseSubs`, `chans` | the two maps of `Hub` |
| `spc`, `listed`, `todo`, `buf`, `got` | `EventsHandler.Stream`: where it is, the channels it listed once, those still to (un)subscribe, its event channel, what was written |
| `cut` | streams whose context is done: the client left, or the server's 15 s deadlines passed |
| `wpc`, `open`, `pending`, `writing`, `wgot` | a websocket's read loop, its connection, who is about to write or inside `WriteMessage`, what arrived |
| `mpc`, `left` | the handler of one message; streams its broadcast has still to send to |
| `member`, `changes` | `channel_members` and the number of changes so far |
| `audience`, `dropped`, `spoilt` | history: who was subscribed when the call came in; refused by a full channel; lost in a failing write |
| `crashed` | a goroutine of its own panicked and the process died |

`Accept` is the membership check, `Store` the insert, `Snapshot` the copy of the
subscribers under the lock, `Deliver` one non-blocking send, `Finish` the rest
(Centrifugo, whose failure is only logged). `DeliverPanics` is the send on a
channel its stream has closed: in a request it is recovered and ends that
request's broadcast. A write to a socket has a beginning and an end; two at
once are what gorilla/websocket forbids, and `WritesClash` lets the build do
what it can: panic in either of the two writers while the other goes on, or spoil
both frames. A panic of the read loop's reply is recovered and ends that socket; one
of a ping or of a broadcast's goroutine ends the process.

**Runs.** `RealtimeHub_fanout` has two scenes: two streams of one user, a channel
of capacity one, two messages and a join or leave, so that the second message
may find a full or a drained queue, or one stream closing; and a socket that
itself sends a message, beside a POST and a stream. `Messages_live` has, beside
webhooks (section 6), one stream and two messages: a message whose sender was
answered before another was stored never comes after it (`InOrder`), the stream
is an `EventFeed` (`ImplementsFeed`), and under fairness cut streams end
and queues drain. Two runs show disagreements with
the documentation: a stream that closes between snapshot and send aborts the
broadcast for everyone behind it (`RealtimeHub_aborted`); two writers on one
socket lose the message or the process (`RealtimeHub_writers`).

Also true of the code, without a run: a channel joined after a stream opened is
never streamed to it (`events_handler.go:38`), and the server's 15 s deadlines end
every stream (`cmd/server/main.go:79`).

`EventFeed` is the promise to one client: the messages that were stored, of the
channels its user was in when it asked and no conversation of two, each at most
once, until the stream is over; messages may be missing, and are: a write to a
connection that is gone is lost, and nothing replays it on reconnect, which
`agent-connect.md:130` speaks of. `Feed(s)` instantiates
it with the messages the database has, the handler of `s` as its phase, what the
handler listed as its scope, and `got[s]` as what the client was told. Queues,
buffers, snapshots, the maps of the hub and every other stream and socket are
hidden, and a step of those is a stutter.

`NobodySkipped` is stated of broadcasts that ran to their end (`Finish`); the
panic is the business of `RealtimeHub_aborted`.

**Fairness.** Streams, writers (a blocked write ends at its deadline), read
loops and message handlers. Members, clients and networks owe nothing.

**Proved**, for all users, channels, streams, sockets, messages and capacities:
`HubInv`, and with it type correctness (a channel never exceeds its capacity),
`HubForgets`, `AtMostOnce` and `NobodySkipped`. `HubInv` says exactly which
streams each channel lists, by where their handlers are; that a read loop does
one thing at a time; that a message still to be sent to a stream is not already
on its way there; and that whoever was subscribed when a call came in stays
subscribed until the snapshot and has the message after it. The last part is
what makes `NobodySkipped` inductive: at `Finish` nothing but the history says
who should have been served. That nothing is delivered twice (`AtMostOnce`) is a
consequence no run checks by itself.

`ToldInOrder` (`InOrder`) is an argument about two messages. Once the call of `a`
is answered and `b` is not sent yet, `b` is neither read nor queued anywhere,
and nobody will be sent `a` again (`HubInv`); from then on no stream has `b`
before `a`, neither in what was read, nor in its queue, nor across the two
(`After`), because a queue only grows at its end and only its head is written.
`StreamsImplementFeed` (`ImplementsFeed`) needs one invariant more, `InScope`:
whatever a stream is being sent, has queued or has written is of a channel its
handler listed; without it a step that writes would not be a `Tell`.
`StreamsTruthful` is then what `EventFeed` promises, said of every stream. The
same invariant gives `CutShortOnlyByClosedStream`: a broadcast that never reaches
its end (`RealtimeHub_aborted`) always has a closed stream of the message's
channel to blame, so the panic on a closed channel is the only thing that cuts
a broadcast short.

## 6. The services of an instance

Every call is a sequence of statements, each one step; any of them may fail,
and what was written before stays. Calls overlap as their sets (`RoomCalls`,
`Tasks`, `Boots`) allow.

### ChannelMembers

| Model | Code |
| --- | --- |
| `kind`, `title` | rows of `channels`; conversations are named `dm-<first>-<second>` |
| `role`, `marked` | rows of `channel_members` and `user_channel_reads` |
| `at`, `req`, `held` | a call: where it is, its parameters, the role `RemoveMember` has read |

A call checks membership (`CheckMember`, in the handler), reads the name
(`ReadName`), checks a role (`CheckRole`, `CheckTarget`), then writes (`Rename`,
`Delete`, `AddMember`, `RemoveMember`, `MarkRead`), or is refused by a
constraint (`NameIsTaken`, `WriteRefused`). `CreateChannel` and
`CreateConversation` are transactions; `FindConversation` is not part of one.

`DmStays`: a conversation of two is never renamed, deleted or joined by a
third, and nobody in it gets rights over it, however the calls overlap. It
holds because a role is never raised and a row never changes kind, so a check
that has become stale was at least never about a conversation; `RoomInv` says
this, and says that calls about to write know their room.

`DmStays` is about conversations of two only. Known of this code, permitted by the
module, and not contradicted by its documentation: two people who
open each other's conversation at once get two (`channel_repository.go:438`);
one reopened after someone has left, or whose name a channel has taken, is
refused for ever; an update of the topic alone writes back the name it has read
and undoes a rename (`channel_handler.go:161`); an owner may be removed by a call
that read the role before a promotion (`channel_service.go:252`); the last owner
may leave (`:264`).

### Accounts

| Model | Code |
| --- | --- |
| `users`, `hash`, `authType`, `central` | rows of `users` |
| `invUser`, `invState`, `invLate` | rows of `invites`; those past their time |
| `rstUser`, `rstState` | rows of `password_reset_tokens` |
| `phase`, `task` | a call |
| `passed` | history: calls that consumed an invite |

`ValidateToken`, `ReadUser`, `LinkIdentity`, `ConsumeToken` and `Welcome` are
`AcceptInvite`; `FindResetToken`, `ReadUser`, `ResetPassword` and
`DeleteResetToken` a reset; `CheckLimit` (or `NoLimit`, when no subscription can
be read), `FindUser`, `CreateUser` and `CreateInvite` an invitation. `WriteRow` is
the one UPDATE of `user_repository.go`, which writes hash, kind of account and
identity together, the last two from a row `GetByID` did not read them into.

`AccountsInv`: an invite is consumed once, by the one call that goes on
(`AcceptedOnce`, which rests on the condition in `ConsumeToken`'s UPDATE);
every row is wholly local or wholly central and no identity is on two rows
(`IdentityWhole`); tokens belong to users who are there (`TokensHaveUsers`).

`RowsKeepOwners` is about steps: a user's row changes only by the `UPDATE` of a
call that acts for that very user, and that user is the one of the invite or the
reset token the call came with, although the token was read two statements
earlier and may have been used, expired or deleted since. And a token keeps its
user, and once used up stays so (`TokensStand`).

What these properties leave open, because the code does (they say who writes a row,
not that no write is lost): the loser of a race for an invite has already overwritten the identity; a reset token read by two calls
is used by both (`auth_service.go:288`); a change or reset of a password undoes a
central identity linked meanwhile, and even one linked before; two invitations
may pass the limit together (`invite_service.go:363`); at the limit nobody who
is already a user can be invited again.

### Bootstrap

`bpc`, `breq`, `bstep` are a call, its request and the insert it is at; `rows[b]`
what call `b` has written; `bfound` the earlier call a recovery has found. A
call looks its address up (`LookUpFinds`, `LookUpFindsNone`), counts users
(`CountUsers`), inserts (`Insert`, `InsertConflicts`) or recovers (`ListAgents`,
`RecoveryKey`, `FindSubscription`).

`BootInv`: what an answer of success names exists, all of it for a call that was
carried out, user, agent, key and subscription for a recovered one; and of calls
for one channel at most one is carried out. `Bootstrap_atomic` shows that the
provisioning is not atomic, as a comment and an example say it is: a call that
fails leaves its rows, and a retry is then refused, or recovered without the
channel.

### WebhookDelivery

| Model | Code |
| --- | --- |
| `hook`, `row` | rows of `webhooks` and `webhook_deliveries` |
| `dpc`, `waiting`, `serving`, `tries`, `outcome` | the goroutine of an event: its list, the webhook it serves, attempt and status of the delivery in memory |
| `posts`, `accepted`, `skipped`, `stale` | history: attempts, answers seen, webhooks without a row, rows whose update failed |

`ListWebhooks`, then for each webhook `CreateDelivery` (or no row, and no post),
attempts (`AttemptSucceeds`, `AttemptFails`), the wait (`BackoffEnds`) and the
update of the row (`UpdateDelivery`, `UpdateFails`). Webhooks are created and
deleted meanwhile; `ProcessDies` loses the goroutines, and nothing resumes them.

`DeliveryInv`: a webhook that accepted an event is not sent it again, none more
than `MaxTries` times, one deleted before its turn not at all, and none that was
begun is left before it accepted the event or had its `MaxTries` attempts, unless
the process dies; a row that says
success is true, and a row the goroutine has left says how it ended, unless its
last update failed. `DeliveryEnds`: every webhook found is served in the end,
whatever those before it answer, unless the process dies. A slow endpoint does
delay those behind it.

**Runs.** `Instance_safety` and `Messages_live` choose one part at the start; the
parts share no state, so their state spaces add up and nothing is lost.
Channels: three people, two rooms, three calls of which two overlap, names that
may look like a conversation's. Accounts: two addresses, two identities, two
invites, one reset token, four calls, two at once. Bootstrap: three calls, of
which two overlap. Webhooks: three, one event, three attempts, two failing
statements, one death. Calls, rows, connections and client objects are
interchangeable, so the first that is unused comes next (`InTurn`); addresses
are, so the first call has the first (`AtMostTwo`).

**Fairness** (`Messages_live`). A goroutine runs: a post ends at its timeout of
30 s and a sleep ends. Nothing is assumed of callers or of the database.

## 7. Reconnecting clients

`SdkSocket`: `sdkSocket` and `sdkTimer` are the fields, `sdkState` and
`sdkTimers` what really exists, `sdkCall` the application's call a socket goes
back to. An old socket's close clears the field that names a newer one.
`SdkInv` says what still holds: one call of `connect()` never has two sockets or
two timers, every promise open has a socket that will settle it, and after a
single `connect()` a `disconnect()` leaves nothing that connects again.
`SdkRecovers`: a client that was not told to stop has a socket again after its
last fault.

`ChatSocket`: the two effects of `useWebSocket.ts`, sockets with the channel of
their closure, the refs they share (`wsRef`, `timeoutRef`, `attempts`), the load,
and at the instance the stored messages of each channel in their order,
subscribed sockets and what is under way to each. `chain` names the run of the effect a socket goes back to.
`Break` is `onerror`, which says "disconnected" at once; `Closed` is `onclose`.
`ChatInv`: that line never forks, the selected channel has one unless the page
gave up, and "connected" is never shown when no socket has opened.
`ShownOnce`: no message twice, by whatever way it came. `StaysShown`: once
loaded, nothing disappears. `ChannelReconnects`: liveness. `Clients_current`
shows a disagreement with a comment of the hook: a cleaned-up socket arms a
timer, comes back for its own channel, and shows that channel's messages in the
selected one.

`DesktopSocket`: two instances of the service, of which the first is abandoned
after the first render and goes on reconnecting (`deskBound` is the other), and
the loads of several channels. `DeskInv`, `DeskOwnChannel` as their comments
say; an older load of the same channel may still put back what a newer one has shown,
which `DeskOwnChannel` does not forbid. The renderer never subscribes (`useWebSocket.ts:337`), so nothing comes over
its socket.

**Run.** `Clients_sockets`: one client at a time; two calls and two disconnects of
the SDK, two changes of channel on the web, and enough sockets that each may
break and come back. **Fairness** is of the browser: it delivers the events of a
socket (`SdkSteps`, `SocketSteps`) and fires timers; faults are bounded.

## 8. Pages and the desktop's main process

`Clients_pages` runs one page at a time. The user's moves are bounded and
unordered; requests answer in any order, or fail.

| Module | Properties |
| --- | --- |
| `ChatPage` | `CreatedStays`: a channel created here stays listed until it is deleted here, whatever load or answer comes after |
| `ChatComposer` | `ComposerInv`: one send at a time, of the text shown or, once a mention was clicked during it, of the one before; an accepted text is not in the box to be sent again; `DraftSafe`: a failed send keeps the draft, and so does the answer to a box that is gone, with the one exception below; `NoticeTruthful`: "no agent has replied" stands only under a last message of one's own |
| `MessageItem` | `OneRequest`: an item on the page has one request of its own under way at most, edit or delete, and an edit is of the text in its open box |
| `ChatPanels` | `OneCreation`: closing and opening the modal again does not create a channel twice, while the chat page stays mounted |
| `WebSession` | `LinkReachesItsInstance`: whatever other tabs and links have stored, the token of a link goes to the instance the link names |
| `WebBilling` | `SubdomainOfName`: of a name that could be claimed, "available" or "taken" is the answer about this name; `WelcomeSettles`: the page after a payment welcomes exactly when a poll has said the plan is paid, and keeps to it, gives up only after 30 s without that, and is stuck in two cases only (below) |
| `WebSettings` | `OneCallPerFlag`: each saving flag stands for one request of those it guards, and is set exactly while that one, or the loading after it, runs; so no older answer replaces a secret shown once |
| `DesktopShell` | `NotifyInv`: every notification let through is shown once, in order |

State variables carry the names of the components' state behind a prefix
(`pg`, `cmp`, `itm`, `new`, `desc`, `dm`, `mem`, `find`, `tab`, `st`, `sub`, `pr`,
`wl`, `tn`, `pair`, `prof`, `pw`, `ag`, `key`, `hk`, `in`, `sh`); a request under way
is a record in a set, with the mount or the opening it belongs to.

**The edges of these properties**, where the code does not do more.

* Composer: a send disables the text but not the list of members. A mention clicked
  while the text before it is being sent changes the box, and the success of that send
  clears it, unsent (`MessageInput.tsx:104`). `DraftSafe` names this one exception
  (`cmpLate` is the text concerned) and forbids every other loss.
* Message: `isLoading` belongs to a mount. Select another channel, or search, and come
  back, and the item is new: a second edit or a deletion may then overlap with the
  first request (`ItmLeave`, `ItmReturn`). `OneRequest` is of one mount, and says that
  an answer to an earlier one touches nothing.
* Subdomain: names that are blank, reserved or invalid do not count `requestIdRef` up
  (`SubdomainClaimSection.tsx:60-80`), so a check that was under way may mark such a
  name "available"; the instance refuses it. The property is restricted to names that
  can be claimed.
* After a payment: neither the interval nor the safety timeout is armed before the
  first poll is answered (`WelcomePage.tsx:56`), so a page whose first poll hangs says
  "confirming" for as long as it does; and a safety timeout that runs before the last
  tick (timers of a hidden tab) stops the polling and says nothing (`:76`). In every
  other state of "confirming" somebody is still going to end it.
* Settings: flags are separate. A profile and a password may be saved at once, and the
  retry and the replay of a delivery (`WebhooksTab.tsx:142-164`) and the removal of an
  integration (`IntegrationSettingsPage.tsx:54-60`) have no flag: any number may be
  under way.
* Chat page: nobody else, in another tab or as another user, deletes a channel, and
  the page is not left and mounted again while a creation is under way.
* Links: a token may have expired whenever it is looked at (`Routes`), and the page of
  a new password goes to the sign-in page 2 s after its success, whatever the tab shows
  by then (`ResetNavigates`).

Several panels (members, search, prices, the tunnel's and the pairing page, menus) are
modelled with their handlers and carry no property of their own beyond their type.

What these pages do that a user may not expect, without a text that says
otherwise: the automatic selection of a first channel takes the place of a
conversation from the route (`ChatPage.tsx:101`); a 401 for an earlier token
removes a newer one (`api.ts:31`); deliveries of an earlier webhook are shown under
the selected one (`WebhooksTab.tsx:86`); the name saved is the one typed by then
(`TunnelDashboardPage.tsx:66`); results of an earlier search, members of an earlier
channel (`SearchResultsPanel.tsx:33`, `MemberListPanel.tsx:79`); an edit leaves
the list as it was (`ChatPage.tsx:597`).

## 9. What is proved

All proofs are for every value of the constants, from the named assumptions of
the modules (`ConstantsOK`, `RoomsOK`, `AccountsOK`, ...), and have the same shape:
an invariant that is inductive, shown to hold at the start and to be kept by
each action, and what follows from it.

| Proof module | Theorems |
| --- | --- |
| `RelayTunnel_proofs` | `RelayInvariant`, `RelayTypeCorrect`, `RequestIsolation`, `SingleLiveClient`, `NoLeakedConnection`, `RequestsImplementPublicRequest`, `AnswersTruthful` |
| `RelayStream_proofs` | `StreamInvariant`, `StreamTypes`, `ChunksAccountedFor`, `RelayImplementsLossyStream`, `ReadAsSent` |
| `RealtimeHub_proofs` | `HubInvariant`, `HubTypes`, `HubForgetsClosed`, `DeliveredAtMostOnce`, `FanOutComplete`, `ToldInOrder`, `StreamsImplementFeed`, `StreamsTruthful`, `CutShortOnlyByClosedStream` |
| `Services_proofs` | `RoomsAgree`, `ConversationsStay`, `AccountsAgree`, `RowsKeepTheirOwners`, `BootstrapAnswersTrue`, `DeliveriesTellTruth` |
| `ClientSockets_proofs` | `SdkNeverMultiplies`, `SelectedChannelKept`, `ConversationShownOnce`, `NothingDisappears` |
| `DesktopApp_proofs` | `DeskNeverForks`, `ChannelShowsItsOwn`, `NotificationsInOrder` |
| `WebChat_proofs` | `OneRequestPerMessage`, `TextSentOnce`, `DraftKept`, `NoticeHolds`, `CreatesOnce`, `CreatedChannelStays` |
| `WebAccount_proofs` | `LinksGoHome`, `FlagGuardsOneCall`, `SubdomainChecked`, `WelcomeStays` |

Why the invariants of the services say more than what is wanted of them:
`DmStays` needs that whoever has a role in a conversation is a plain member
(`DmRows`), that rows of members go with their room (`NoRowNoMember`), and that
a call past its checks is not about to change a conversation (`CallsKnowRoom`).
`AccountsInv` needs that a call about to write knows a user who is there.
`RowsKeepOwners` needs, beyond that, that a call past the check of its token acts
for the token's user (`HoldersKnown`), which is kept because tokens keep theirs.
`BootInv` needs that rows are written in order (`InOrderOfInserts`) and that the
user a recovery found stays (`FoundStays`), since an answer of success is about
rows of another call. `DeliveryInv` needs what a goroutine knows between two
attempts (`ServingKnown`), that what nobody has begun to serve is untouched
(`UntouchedWaiting`), and that rows go with their webhook (`RowsHaveHooks`).

The clients' lists. `ShownOnce` is not inductive: an answer replaces or extends
what is shown, so `TalkInv` says of everything that may still be appended what
the property says of what is shown: the rows of a channel repeat nothing and are
of that channel, the answer to the load and every frame under way is of stored
messages, and a message of one's own is stored exactly from the moment its
request was carried out. `StaysShown` follows from the same facts, step by step.
On the desktop (`DeskTalkInv`) the answer of a load carries its own channel, and
that is all that keeps the channels apart, since no load is ever cancelled. The
stored messages are kept per channel, as `ORDER BY` of a query by channel returns
them, so that no proof depends on how a list is filtered.

The pages. `TextSentOnce` and `DraftKept` follow the number of an edit: a text that was
sent is older than every later edit, so a text in the box is never one that was
accepted; `cmpLate` singles out the text made during a send, which is what the
exception of `DraftSafe` is about. `FlagGuardsOneCall` needs of keys and webhooks that the
loading after a request belongs to the flag still, and that the secret on the page is
no younger than any request under way. `WelcomeStays` needs that both timers come with
the first answer, and that an answer that ends the wait ends the interval with it.

Every safety invariant and action property that a passing run checks is stated by
a theorem. Only model-checked: liveness (`RequestAnswered`, `Reconnects`,
`Answered`, `EndsWithInstance`, `StreamEnds`, `QueueDrains`, `DeliveryEnds`,
`SdkRecovers`, `ChannelReconnects`), since fairness and ENABLED are out of the
prover's reach; and the five violations, which are counterexamples. The safety
half of `DeliveryEnds`, that no webhook begun is given up before its last attempt, is
part of `DeliveryInv` and proved.

## 10. Bounds, deadlock, and what is not modelled

TLC's bounds are the sizes of the sets and the constants named `Max...`, with the
channel capacities. One or two of everything is where every interleaving in the
inventory happens: each property relates at most two processes of a kind and one
message to another, and the proofs remove the bounds for safety. What the bounds
do limit is liveness, which is checked for one or two faults.

`CHECK_DEADLOCK FALSE` is stated everywhere, because every part may really come
to rest: all messages sent, all requests answered, all moves made, the window
closed, the process dead.

Symmetry is used where values are interchangeable and no liveness is checked:
streams and posted messages of the hub, browser tabs. Calls, connections and
client objects come in the order of their numbers instead (`InTurn`).

Not modelled: token verification and its refresh; the relay's token cache,
billing and pairing (left for later); proxied websockets, which this build
cannot open, since `handleWSOpen` hands the upgrade headers of the public request
to a dialer that refuses them; typing indicators, edits and deletes in the hub;
what Centrifugo delivers; login, profile fields and the rows of the welcome
message; the central identity service; the iOS app; the desktop's settings and
invite windows. Hazards known there, for whoever goes on: the config file that
two handlers load, change and write (`pairing_handler.go:138`), and memory changed
before the file (`:129`); subscription events out of order, twice or for an older
plan (`billing_service.go:126`, `:187`, `:273`), two Stripe customers from two
checkouts (`:50`), a mail marked as sent before it is (`:306`); a claim consumed
twice (`central/main.go:728`); the reconnect timer of `AUWebSocketManager.swift:257`;
an instance never told that its public client left (`relay/server.go:410`); a late
`ws_opened` and a full `dataCh` (`:446`, `:245`); JWKS unreachable at start
(`relay/jwks.go:61`); the websocket path of a message, which takes other steps
than the REST path (`websocket_handler_v2.go:134`), and pings whose goroutine
outlives the socket (`:96`); the deletion of a message, announced to nobody
(`message_handler.go:383`); a welcome conversation that fails after the invite was
consumed (`invite_service.go:128`).
