# The Tunnelit relay in TLA+

The relay (Rust, tokio, axum, SQLite) gives a device behind a NAT public TCP
and UDP ports. The device keeps a WebSocket to the relay; a user claims it with a
six-digit code and creates tunnels for it in a dashboard; for every enabled
tunnel of a connected device the relay listens on a public port and carries the
clients' bytes over the WebSocket. This directory models the control plane, which
decides who is connected, what is listened on and for whom, and the data path of a
tunnel, from its clients to its device and back. Both are checked with TLC on small
instances, and their safety properties are proved with TLAPS for all instances.
Each has an abstract specification, which it is proved to implement.

## The system

| Part | State it keeps | Operations |
|---|---|---|
| `state.rs` AppState | `allocated_ports`, `agent_senders`, `pending_claims`, `tunnel_tasks`, `tcp_conn_senders`, `live_traffic`, login sessions, each under its own async lock | `allocate_port`, `free_port`, `record_traffic` |
| `db.rs` | tables users, agents, tunnels behind one async mutex | queries, one statement each, no transaction |
| `tunnel_manager.rs` | none of its own: one proxy task per started tunnel | `start_tunnel_listener`, `stop_tunnel_listener` |
| `ws_handler.rs` | per connection: `authenticated_agent_id`, `current_claim_code`, the channel to the sending task | frames RequestClaim, Auth, Data, CloseConnection, Ping; the clean-up at the end |
| `admin.rs` | none of its own | register, login, logout; create, update, toggle, delete a tunnel; delete an agent; ban, unban; claim; generate a token; launcher scripts, which make an agent in the same way; listings |
| `tcp_proxy.rs`, `udp_proxy.rs` | per listener: its socket, the channel to the device; UDP also two address maps | accept or receive, forward, close |
| `main.rs` | – | start from the database file, two HTTP servers |

Connections and requests are tasks that interleave at every `.await`. They share
AppState and nothing else; a proxy task has a clone of the channel of the
connection it was started for. What is hard here:

* handlers are chains of short critical sections. What one section reads (a row,
  a sender, a claim code) may be stale in the next one;
* some locks are kept across awaits: `agent_senders` (read) by create, update and
  toggle to their end, `allocated_ports` by toggle while it starts a listener,
  the database by a ban through its whole loop. They are taken in different
  orders, and tokio's RwLock makes readers wait behind a queued writer;
* `JoinHandle::abort` does not wait, so a socket outlives the entry of its task;
* an agent may have an old connection that has not been noticed as dead and a new
  one; each cleans up in the name of the agent, not of the connection;
* a hyper handler can be dropped at any await when its client goes away;
* a restart keeps the tables and forgets everything else;
* the device is told of a TCP client before the client is in the registry, so its
  first answers may be dropped; both sides may close a connection, the channel may
  close, and the listener may be aborted, at any await of the task of a client.

What makes each part correct:

* connections: an agent is reached through a connection that presented its token;
  the end of a connection removes its registration and its listeners, and leaves
  no agent online behind it;
* tunnel manager: one stoppable proxy task per tunnel; an enabled tunnel of a
  connected agent is served;
* agents and tunnels: no row without its agent, nothing deleted comes back, a
  claim is confirmed once and reaches the device that asked for it, one active
  tunnel per public port;
* locks: every handler ends;
* proxies: the device is told of a connection first and once, then gets what the
  client sent without a gap, then at most one close; a client gets what the device
  sent for it in order and once, over TCP without a gap; `tcp_conn_senders` has
  entries of live tasks only; a client that went away is noticed;
* accounts: the port of a tunnel is its user's and nobody else's.

## The modules

Control plane. `AppState` declares the constants, the variables, the type
invariant and the initial state, and translates the locks and the queries.
`TunnelManager`, `AgentSession` and `AdminApi` are the handlers. `Relay` composes
them: `Next` is a step of any process, of a proxy task, or a restart. It also has
the fairness and the properties. `Custody` is the abstract specification: what
happens to an agent, and nothing of rows, locks, channels or listeners. `MCRelay`
gives TLC its instances.

Data path. `ConnRegistry` is what one tunnel's clients, proxy task, WebSocket and
device share, with the steps of all but the proxy. `TcpProxy` and `UdpProxy` are the
two proxies. `DataPlane` composes them for one tunnel of either protocol, with the
end of the listener, the fairness and the properties. `Circuits` is the abstract
specification: what a device and a client see of a connection, and nothing of how it
is done. `MCDataPlane` gives TLC its instances.

The two models meet at the life of a proxy task, which appears in both: it starts
(`StartBind`; the initial state of `DataPlane`), is dropped after an abort (`Reap`;
`Stop`), or sees its channel closed (`ListenerExits`; `LoopTop` and `Accept`).

Proofs: `RelayProofs`, `OwnerProofs`, `RowProofs`, `LockProofs`, `SessionProofs`,
`CleanupProofs` and `CustodyProofs` about `Relay`; `DataPlaneProofs`.

`Custody` is a small state machine. An agent is unknown, enrolled by a device that
waits for a user, owned, or removed, and each of these is entered once; it has at
most one owner; a peer may have its token; and its traffic may go to peers. `Relay`
implements it under the mapping `Book`: the stage is read off the row, a row with a
code being one that waits (`StageOf`), the owner is the user of the row (`OwnerOf`),
the keys are what the peers of the connections know, and an agent is attached to the
connection it is registered under and to those its proxy tasks were started for
(`Reach`).

| TLA+ | code |
|---|---|
| `agents`, `tunnels`, `users` | the tables, as sets of records; a column that no code reads to decide something is left out |
| `issued` | the ids and codes drawn so far, because `Uuid::new_v4` does not repeat one |
| `allocated`, `senders`, `pending` | `allocated_ports`, `agent_senders`, `pending_claims`; a channel is the connection that reads it |
| `listeners` | the proxy tasks with the sockets they hold. `handle` says where the JoinHandle is: with the process that spawned it, in `tunnel_tasks`, dropped (`"nobody"`), or aborted with the socket still open |
| `held` | who holds a lock across an await; `"writers"` is the queue of writers of `agent_senders` |
| `sess` | the locals of `handle_socket`; `knows` is the peer's own state: the agents whose token it has |
| `pc`, `job` | where a handler is and its other locals |
| `proto`, `listener`, `cur` | a tunnel's protocol; where the loop of its proxy is, and the connection it has at hand |
| `registry` | the keys of `tcp_conn_senders`; `rx` is the channel behind an entry |
| `log`, `view` | what was put into the device's channel for a connection, and the part the device has received. The order between connections is left out: nothing looks at it |
| `task` | the spawned task of a connection: for TCP the `select!` loop and its way out, for UDP the task of an address. The keys of the two address maps are the connections that have one |
| `client`, `csent`, `nread`, `out`, `got` | a client: its end of the stream, what it sent, what the relay read of it, what is being written to it and what reached it |
| `dsent`, `dclosed`, `handled` | the frames of the device for a connection, and how many of them `handle_socket` has handled |
| `sending`, `receiving` | the device's channel is open; the receive loop of its WebSocket runs |

A critical section is one action. Two awaits in a row are one action only where
nothing else can tell: `RequestClaim` inserts in `pending_claims` while it holds
the database, and the lock of `pending_claims` is never kept; the first read of
`update_tunnel` takes only the agent of the row, which never changes. Where two locks
are taken one after the other, each wait is a step: `delete_tunnel` gives
`agent_senders` back before it locks the database (`DeleteNotify`, `DeleteRow`), and
`delete_agent` takes the channel and the row under two locks (`DeleteAgentSender`,
`DeleteAgentRow`). The three
calls inside `start_tunnel_listener` are `StartStop`, `StartBind` (or
`StartBindFails`) and `StartInsert`; every caller goes through these.

`Ops` names what the environment does, so a run can say which part of the API it
exercises: the API calls, and `break` (a sending task fails), `cancel` (a request
is dropped), `restart`, `bind_fails` (another program has the port), `collide` (a
claim code is drawn twice), `reproto` (an update may change the protocol). In
`DataPlane` it holds `break` (the channel to the device closes), `disconnect` (the
device goes) and `stop` (the listener is aborted).

Bytes are chunks: the pieces in which they are read, numbered per connection and
direction. A connection is written as its id, since a stream, or a UDP address, is
given one id and an id is drawn once.

Definitions under a comment that begins with "Faulty" are not part of the
specification. Each is a plausible mistake in the definition below it; put in its
place it makes a property of a run fail, which shows that the property depends on
that piece of code.

## The runs

`dataplane` and `deviceClose` are instances of `MCDataPlane`, the others of
`MCRelay`. They say `CHECK_DEADLOCK FALSE` because the connections, ids, codes and
chunks of an instance run out and then nothing is left to do; that nothing is stuck
before is what `NoWaitCycle`, `HandlersReturn`, `GoneIsCleared` and `ForwarderEnds`
say.

| run | instance | properties |
|---|---|---|
| sessions (pass) | one agent with a tunnel, two connections, one request that toggles, updates or deletes; sending tasks break, binds fail | `TypeOK`, `StartsForRegistered`, `CleanupComplete`, `NoDeadSender`, `HandlersAdvance` |
| rows (pass) | from an empty database, two users, two agents, two tunnels, two ports; two requests of every kind that changes rows, registration included, cancelled anywhere, with restarts; an update keeps the protocol | `RowsHaveAgents`, `PortsArePersonal`, `DeletedStaysDeleted` |
| claims (pass) | an owned agent with a tunnel, two connections, two codes, two users, one request that confirms codes for either, restarts | `TrafficToOwner`, `OwnerIsFixed`, `OnlineHasConnection`, `ImplementsCustody` |
| progress (pass) | one connection and two requests among toggle, update and ban, under `FairSpec` | `NoWaitCycle`, `HandlersReturn` |
| dataplane (pass) | one connection, TCP or UDP, three chunks in each direction; the client, the device, the channel and the listener may end anywhere, under `FairSpec` | `TypeOK`, `RegistryMatchesTasks`, `NothingLost`, `ImplementsCircuits`, `GoneIsCleared`, `ForwarderEnds` |
| agentDeleted (violation) | an agent is deleted while connected | `StopsAllListeners` |
| claimedGone (violation) | a waiting device is claimed and disconnects | `LeavesNoSender` |
| resync (violation) | an update while connected | `EnabledAreServed` |
| sharedPort (violation) | create, toggle | `OneTunnelPerPort` |
| waiter (violation) | a device authenticates while its code is confirmed | `WaiterIsClaimable` |
| unstoppable (violation) | two updates or a reconnection at the same time | `NoUnstoppableListener` |
| deviceClose (violation) | a TCP connection the device closes, under `FairSpec` | `DeviceCloseEndsClient` |

**What the passing runs show.** An old connection and its successor can overlap in
every way and still nothing stays registered under a connection that is over
(`NoDeadSender`), and no listener that can still be stopped is left behind for a
tunnel that exists (`CleanupComplete`). These hold because the clean-up removes too
much rather than too little: the end of an old connection also removes what the new
one registered, which no property objects to, because no document says that a
reconnection survives. The two hold on the instance of `sessions`, where connections
authenticate for one agent and no claim is being confirmed, and the code promises
them only there: a claim can register a waiter that is already over (`claimedGone`),
and an agent deleted while connected keeps its listeners (`agentDeleted`).

The column `is_online` does go stale, that is, says online with no connection behind
it. `OnlineHasConnection` says in which ways: the relay dies, since nothing resets the
column at the start; a claim is confirmed, since it sets a device online that has not
authenticated, and whose end will then not be noticed; a connection authenticates as
another agent, and forgets the one before. It is checked in `claims`, where all three
happen, and proved without a hypothesis. What it excludes is the fourth way: that a
connection ends, in whatever overlap with others, and leaves its agent online.

A request that starts listeners does so for the connection that is registered then and
until it returns (`StartsForRegistered`), which is what the read lock it keeps is good
for. The foreign key and the form of the UPDATE statements keep the tables consistent
in spite of the gaps between look-up and write. A tunnel has the port of its user and
of nobody else, although the port is read and written in two acquisitions of the
database lock while others register (`PortsArePersonal`). A confirmed claim reaches
the device that asked for the code (`TrafficToOwner`) and an owner never changes
(`OwnerIsFixed`), provided no two codes are equal: in the code they are random numbers
below 1000000 and nothing compares them, and with `"collide"` in `Ops` the property
fails. `ImplementsCustody` says this of the whole life of an agent: it is enrolled
once, claimed once, and nobody is attached to it without its token, or while it waits
for its claim. An agent may be attached after it was removed, by a handler that took
its channel before (`agentDeleted` shows what is left of one). In `claims` the agents
that enroll themselves stand beside one that has an owner from the start, as a user's
request makes it. No two handlers wait for each other's locks (`NoWaitCycle`),
although the locks are not taken in one order everywhere, and no handler starts over
(`HandlersAdvance`): whatever it meets, it goes on with the next step, row or stage.

On the data path, `ImplementsCircuits` says that what a client sent reaches the device
as an unbroken prefix after the announcement, and that a client receives chunks of the
device in order and each at most once. Over TCP they have no gap either, so losses are
confined to the ends: they may start late (the entry comes after the announcement) and
end early (the client, the channel or the listener went). Over UDP one in the middle
may be missing too: the relay ignores an error of `send_to` and sends the next one.
`NothingLost` says the same of what the relay has taken over and not yet handed on:
while a connection is served, each chunk read from the client is in the device's
channel, and each frame handled for a registered connection is behind the ones before,
up to the call of `send_to`. `RegistryMatchesTasks` holds between any two awaits: the
device's close, the task's own removal and a late registration act on the same entry,
and none of them leaves an entry without its task. A client whose end of the stream is
reported gone is noticed even by a task that is busy writing to it (`GoneIsCleared`).
When the device closes the connection of a UDP address that is registered, the task of
the address empties its channel and ends, even if the listener is gone
(`ForwarderEnds`), unless the device's connection ends before the close is handled. A close that is handled before the registration is another matter:
see the facts below.

**What the violated runs show** is recorded under `findings` in `PROJECT.json`,
each against the line of the repository that says otherwise:

* `agentDeleted`: `delete_agent` removes the rows first; the clean-up of the
  connection then finds no tunnel to stop, and listeners and ports stay.
* `claimedGone`: only the frame Auth makes a connection clean up after itself; one
  that was registered by a claim does not.
* `resync`: the aborted task still has the port when the new bind runs.
* `sharedPort`: toggle takes a port without asking whether it is taken.
* `waiter`: a device files itself under a code that was just given up.
* `unstoppable`: two starts of one tunnel, one after the other between stop and
  insert; the first task can never be aborted. In the run the update changes the
  protocol, so both binds succeed. That is not the only way (with `break` in `Ops`
  instead of `reproto`, the first task ends on its own between its bind and its
  insert, and the insert of its handle drops that of the second, running one).
* `deviceClose`: the frame CloseConnection removes the sender of a TCP client; its
  task then has one branch of `select!` less and waits for the client, whose stream
  stays open for as long as the client likes.

**Bounds.** One agent is enough where the property speaks of one agent and its
connections, two connections are the least for "old and new", two requests for
races between handlers; three ids of agents give each of two devices one of its
own beside the existing one, and two codes let a device hold one and ask for
another; two users and two ports are the least for ports to be confused. A behaviour
ends when the ids are used up; nothing else is bounded. On the data path `MaxChunks`
bounds the chunks a peer sends: three are a first, a middle and a last one, enough
for one to be lost on either side of one that arrives. One connection suffices
there, because connections meet only in the loop of the proxy, which has one at hand
(`cur`), and in the set of keys; instances with two connections (one chunk) were
checked too, and the proofs hold for any number. One request is enough in
`claims` besides two connections: it may confirm any number of codes for either user,
one after the other, and two confirmations meet in one critical section, the look-up
of the code with its UPDATE; the proofs hold for any number of requests. `rows`
leaves the protocol of a tunnel alone, which none of its properties looks at. Distinct
states: sessions 1.4 million, rows 1.1 million, claims 0.9 million, progress 130
thousand, dataplane 250 thousand.
Symmetry is used for connections, requests, tunnels and codes where the instance
does not tell them apart, and never in a run with a liveness property.

**Fairness.** `FairSpec` of `Relay` assumes strong fairness of the progress of each
connection and request. tokio polls every task that was woken, and its Mutex and
RwLock serve waiters in order of arrival, so a waiter is not passed over for ever
by others that keep taking the lock; weak fairness would not express that,
because a lock that changes hands is not continuously free. Because `"writers"`
models the queue of writers, a reader waits for them as it does in tokio. No
fairness is assumed for peers and clients, for the next frame or request, for the
reaping of aborted tasks, or for a proxy to notice that its channel is closed:
that happens only when the next client comes. `FairSpec` of `DataPlane` assumes weak
fairness of the tasks of the relay, each of which waits for an event that stays
there: a frame to handle, bytes or an end to read, a chunk in `rx`, the registry's
lock. Writing to a client is fair only once the client is gone, when the write fails
or goes nowhere: a client that lives need not read. Clients, the device, the channel
and the listener are not fair.

**Facts of the code that are modelled and that no property contradicts.** A port
stays allocated when the insertion of a new tunnel fails or its request is
dropped. After a restart `allocated` is empty while tunnels are enabled, and
`online` is what it was. A connection that was claimed while it waited never sets
`authenticated_agent_id`, so its end removes neither its registration nor its
listeners unless it authenticated again. A connection that authenticates for a
second agent cleans up for the second one only. A ban ends neither the sessions of
the user nor the listeners that a reconnecting device starts. Two creations may take
one subdomain. A range of one port makes the modulus of `allocate_dedicated_port`
zero, and the registration panics (the guard of `Register`). When a TCP listener is
aborted with an accepted client, the device was told of it and is never told of its
end. The tasks and registry entries of UDP addresses outlive the listener until the
device closes them; if the device closes one before its task has registered it, the
removal finds nothing, the registration comes after it, and task and entry stay for
good. A TCP client that vanishes without the socket reporting it (there is no
keepalive) is outside the model: the code cannot tell it from one that is silent.

## What is proved

All theorems hold for any finite or infinite sets of users, agents, tunnels, codes,
connections and requests, any number of chunks, and any `Ops`. They use the named
assumptions `ProcsDisjoint`, `IdsDistinct`, `LastPortType`, `TokensType` and
`Rows0Type` of `AppState`, `ProtocolsType` and `MaxChunksType` of `ConnRegistry`, each
one on what the constants are, and the hypotheses given here. `IdsDistinct` says that
no id of an agent is the id of a tunnel or a claim code: ids are random UUIDs, codes
have six digits. Every safety property of the
passing runs is proved.

| theorem | module | hypothesis | property |
|---|---|---|---|
| `TypeCorrect` | `RelayProofs` | none | `TypeOK` |
| `TrafficStaysWithOwner` | `OwnerProofs` | `DistinctCodes` | `TrafficToOwner` |
| `RowsKeepAgents` | `RowProofs` | `RowsHaveAgents0` | `RowsHaveAgents` |
| `OwnerStaysFixed` | `RowProofs` | `Owners0` | `OwnerIsFixed` |
| `DeletedTunnelsStayDeleted` | `RowProofs` | none | `DeletedStaysDeleted` |
| `PortsStayPersonal` | `RowProofs` | `Ports0` | `PortsArePersonal` |
| `StartsStayRegistered` | `LockProofs` | none | `StartsForRegistered` |
| `NoDeadlock` | `LockProofs` | none | `NoWaitCycle` |
| `NoSenderIsDead` | `SessionProofs` | `NoClaims` | `NoDeadSender` |
| `OnlineStaysConnected` | `SessionProofs` | none | `OnlineHasConnection` |
| `CleanupLeavesNothing` | `CleanupProofs` | `NoClaims`, `TunnelIds0` | `CleanupComplete` |
| `HandlersOnlyAdvance` | `LockProofs` | none | `HandlersAdvance` |
| `ControlPlaneImplements` | `CustodyProofs` | `DistinctCodes`, `Owners0`, `OwnedOrOpen0` | `ImplementsCustody` |
| `ServedOnlyWhenClaimed` | `CustodyProofs` | the same | `Safe` of `Custody` |
| `AgentsOnlyAdvance` | `CustodyProofs` | the same | `Forward` of `Custody` |
| `DataTypes` | `DataPlaneProofs` | none | `TypeOK` of `ConnRegistry` |
| `RegistryAgrees` | `DataPlaneProofs` | none | `RegistryMatchesTasks` |
| `ServedWithoutLoss` | `DataPlaneProofs` | none | `NothingLost` |
| `DataPathImplements` | `DataPlaneProofs` | none | `ImplementsCircuits` |
| `DataPathIntact` | `DataPlaneProofs` | none | `Intact` of `Circuits` |

The hypotheses whose names end in 0 say of the rows in the database file what the
property, or the primary keys, say of all rows later. The others are on what
happens, and each is needed: without it the code does not have the property.

**Types.** `TypeCorrect` has one lemma per action. Two facts carry it: an optional
value with a member is that member (`OptMember`), and every helper of control flow
(`Goto`, `Begin`, `Finish`, `NextRow`, ...) keeps the types of `pc`, `job` and `held`.

**Owners.** `DistinctCodes` says that no two agents are given the same claim code:
not in the database file, and not by a draw (`"collide"` is not in `Ops`). Without it
the property is false, and TLC finds it so with `"collide"` in `Ops`.
`TrafficToOwner` is not inductive: it says nothing of what is on its way to
`agent_senders`. The invariant `OwnerInv` adds
* `CodesInv`: a code leads to at most one agent, through its row or through the
  request that has just confirmed it (`LeadsTo`), and whoever is filed under the
  code, in `pending_claims` or in `current_claim_code` (`FiledUnder`), has that
  agent's token. The second half of `LeadsTo` is what makes the claim go through:
  between the UPDATE and the removal of the waiter the code is in no row;
* `AuthedInv`: a connection authenticated only with tokens it has;
* `WorksForOwner`: a handler that was given a channel works for agents, and for
  rows of agents, whose token the peer behind the channel has;
* `LocalsFit`: the locals of the handlers that get their channel half-way hold
  no agent and no rows that the channel was not given for.

TLC checked `OwnerInv` as an invariant first, on the instance of `claims` and on
an extension of `sessions`. The proof has one lemma per action; most are instances
of `QuietStep` (nothing about codes and locals changes) or `QuieterStep` (nor
about traffic); the others (`RequestClaim`, `AuthRead`, `AuthPending`,
`ClaimRow`, `ClaimTake`, `ClaimRegister`, `Restart`) are proved part by part.

**Rows and ports.** `RowProofs` begins with `StepRows`: a step is one of those that
write a row (`Writes`) or leaves the tables alone, so each theorem looks at those
actions only. `RowsKeepAgents` assumes that the database file satisfies the foreign
key, which SQLite enforces: no PRAGMA asks for it, but the library that the feature
`bundled` of rusqlite builds has foreign keys on by default. `OwnerStaysFixed` needs
`OwnersInv`: an id names one row and is never drawn again, and a code is open only
while the agent has no owner. It holds even where codes collide.
`DeletedTunnelsStayDeleted` needs types only: the UPDATE statements select by id.
`PortsStayPersonal` rests on `PortsInv`: ids and ports of users are unique, every
tunnel has a user with its port (`HasOwner`), and so has the row a creation has in
hand (`CreatesForOwner`), because a user's row keeps its id and port for good.

**Locks.** `StartsStayRegistered`: writers of `agent_senders` wait until nobody reads
it, so `ChannelFits` is inductive: a request that reads the map holds the channel
that the agents of all its rows, the one at hand and those to come, are registered
under.

`NoDeadlock` needs no single order of the locks, which the code does not have: update
reads `agent_senders` and then waits for the database; a ban holds the database and
then waits for `allocated_ports`; toggle holds `agent_senders` and `allocated_ports`
while it starts a listener. `HoldsInv` says of each lock in which places of which handlers it may be
held. From it follows a rank: who holds `allocated_ports` waits for nothing, who holds
the database waits for `allocated_ports` at most, who reads `agent_senders` for these
two, and who queues as a writer for the readers. So a set of handlers that all wait
for one of the set would have a member below the lowest rank. `WaitsFor` has the locks
that are kept across an await. Those taken and given back within one step
(`pending_claims`, `tunnel_tasks`, `live_traffic`, `tcp_conn_senders`, and most
acquisitions of the others) cannot be part of a cycle, because their holder waits for
nothing. With `HandlersReturn` of `progress`, TLC also checks that nobody is passed
over for ever.

`HandlersOnlyAdvance` is the part of `HandlersReturn` that no fairness is needed for.
`Course` puts the places of all handlers into eight stages. A step of a handler leads
to a later stage (`Climbs` names these moves one by one), or it is one of the two
loops over rows: it takes the row at hand off the list, which gets smaller, or goes
on with it in the order of `RowSteps`, while the list stays. The list is read on the
way into the stage, so it does not grow again. Queueing for a lock, which happens once
for each wait, changes neither. A table has finitely many rows, so a handler that is
let through its locks comes to its end, and `NoDeadlock` says that those it waits for
are not waiting for it. What remains of `HandlersReturn` is that locks are granted in
order of arrival, which is the fairness assumed in `progress`.

**Custody.** A step of `Relay` is one of `Custody` if an agent that is attached is
known to the peer, which is `TrafficToOwner` with `OwnerInv`, and no longer waits for
its claim. The latter is not inductive: the agent may be on its way to
`agent_senders`. `CustodyInv` says it of every agent in use: registered, served by a
proxy task, authenticated by a connection, or in the hands of a handler that has a
channel or is about to take one (`InUse`). All of these are settled (`Settled`): their
id was drawn and no row with it has a code. Settled agents stay so, since a code is
written only with a new row, whose id is new. `OwnersInv` gives the rest: one row for
an id, and an open code only without an owner, so that a claim is `Own` and happens
once. `OwnedOrOpen0` says that in the database file a row without a code has an owner;
the relay never writes another. `DistinctCodes` is needed as for the owners. The proof shows
action by action that `CustodyInv` stays and which step of `Custody` is taken:
`RequestClaim` is `Enroll`,
`ClaimRow` and `GenerateToken` are `Own`, `DeleteAgentRow` is `Remove`,
`AuthRegister`, `ClaimRegister` and `StartBind` are `Attach`, and the others are
`Detach` or change nothing `Custody` knows of. TLC checked `CustodyInv` on the
instances of `claims` and `sessions` first. `ServedOnlyWhenClaimed` and
`AgentsOnlyAdvance` then follow from the steps of `Custody` alone: the first says what
holds of an agent at any time, the second that it never goes back, so that an agent
that was claimed or removed is not open to a claim again.

**The end of a connection.** `NoClaims` excludes the confirmation of claims, which
registers a waiter whether or not it has authenticated, or is still there
(`claimedGone`). `NoSenderIsDead` then rests on `SendersInv`, the same from the
removal of the sender on, and `NoClaimRuns`. `OnlineStaysConnected` needs types only,
because it is about one step: a step that puts an agent online is the one of a claim or
of a connection that is behind the agent (`Behind`), and a connection stops being
behind its agent by going past `CleanupOffline`, which has set the row offline, by a
second Auth, or by a restart.

`CleanupLeavesNothing` puts four invariants beside these and `LockInv`:
* `NamesInv`: an id names one tunnel of one agent wherever it is said, in the table,
  in locals or by a proxy task; and nobody has heard of the row a creation is about
  to insert. So an old task cannot belong to a new tunnel, and the clean-up, which
  selects by agent, meets every tunnel its tasks serve;
* `GivenInv`: whoever may start a listener either holds the read lock (a request) or
  goes through its own channel (a connection);
* `SpawnedInv`: a task whose handle is not filed yet is in the hands of the process
  that spawned it, through the channel that process has;
* `CleanInv`: after the sender is removed no task of the agent through that
  connection is in anybody's hands, and, once the list is read, each one in
  `tunnel_tasks` whose tunnel is still in the table is on the rest of the list.

The step that matters is `StartBind`: through a connection past the removal of its
sender no request starts anything (`LockInv` and `SendersInv` contradict each other)
and the connection itself is past its own loop. TLC checked the four invariants on an
extension of `sessions` with two tunnels, all requests, cancellation and restarts.

**The data path.** The abstract variables are variables of `DataPlane`, so the
mapping is the identity on what the two sides sent and received and forgets the rest;
the proof is about the values. `Faithful` is the invariant: beside types and
`RegistryMatchesTasks`,
* `ProtocolFits`, `CurAtHand`: each protocol has its own states, and the connection
  the loop has at hand is where the loop left it;
* `WireOK`: the log of a connection is New, then the chunks 1, 2, ... that were read,
  then nothing or one Close after which the task sends no more. While the relay
  serves it and the channel is open, the log holds every chunk that was read, but the
  datagram at hand (`Unsent`);
* `SeenOK`: what the device received is a prefix of the log;
* `PipeOK`: what is being written and what waits in `rx`, over TCP behind what reached
  the client, is one run of consecutive numbers (`Pipe`, `Run`), and while the entry is
  in the registry it ends with the last frame handled. A connection that loses its
  entry never gets it back, which is why the run has no gap. Over UDP what reached the
  client is ordered and lies below the run (`GotOK`), so a datagram whose `send_to`
  fails leaves a gap there and nowhere else.

From `Faithful`, a step in which the device receives something is `Announce`,
`Deliver` or `End`, one in which a client receives something is `Receive`, and all
others are the peers' own steps or stutter. `ServedWithoutLoss` is what `WireOK` and
`PipeOK` say together of a connection that is served. `DataPathIntact` follows from
the steps of `Circuits` alone and spells out what a device and a client have in hand
in every state.

**Only model-checked:** the liveness properties `HandlersReturn`, `GoneIsCleared` and
`ForwarderEnds`; liveness under fairness, and ENABLED, are beyond the prover. That
the lists of `HandlersOnlyAdvance` are finite is not stated either: the theorems
hold for infinite tables too. No
operator is recursive, so no proof needs induction over data.

## What is not modelled

* `login`, `logout`, `admin_login` and the two maps of session tokens: they are read
  only to tell who sends a request. A user without a token is a user that does not
  act, and nothing in the model depends on when a user acts. The ban flag is read by
  the login alone, so a banned user with a token still acts.
* `record_traffic`, `live_traffic` and the columns `bytes_in`/`bytes_out`: they
  only add up, and nothing reads them to decide.
* Listings, the text of the launcher scripts, the two HTML pages, serde and base64: no
  state of the relay changes in them. The one change a launcher script makes, an agent
  for a user that has none, is `GenerateToken`. A frame that does not parse is ignored.
* `allocate_port(None)`: no caller.
* Errors of SQLite other than the foreign key and the unique columns.
* Argument parsing and the two listening sockets of `main.rs`.

## Plan

Done: AppState, TunnelManager, AgentSession, AdminApi and Relay with accounts; the
data path of both protocols; an abstract specification of each and the proof that it
is implemented; deadlock freedom; the proofs of all safety properties of the passing
runs.

Left: login sessions, for the question of what a ban ends: one variable and four
operations, of use only together with a statement of what a ban should end.
