# A TLA+ model of heli's battle, gate, gamer and server protocols

This directory specifies, model-checks and proves parts of heli, a Go game
server made of an auth, a gate, a logic and a battle service.  The modules are
translated from the code; `PROJECT.json` maps every definition to its lines.

- [The system](#the-system): components, state, operations, what is hard
- [The modules](#the-modules): what models what, and what was abstracted
- [The runs](#the-runs): what TLC checks, the bounds, the fairness
- [Mutants](#mutants)
- [The proofs](#the-proofs): what holds for every value of the constants
- [Findings](#findings): where the code and its documents disagree, and facts
  about the code met on the way
- [What is not modelled](#what-is-not-modelled) and the [plan](#plan)

Run from this directory: `tlc -config <run>.cfg <MC module>` for a run, `tlapm
<...>Proofs.tla` for the proofs.

## The system

A client holds one connection to a gate and, while it plays, one to the battle
service.  The servers register in etcd and find each other there
(`deps/etcd`, `deps/service_mgr`), connect (`deps/netmgr`) and talk by
asynchronous messages and by request and response (`deps/rpc_mgr`).
Every server is built on `deps/server`: a network manager with one reader and
one writer goroutine per connection, a timer manager, and an async pool.

| component | state | operations | what is hard | what makes it correct |
|---|---|---|---|---|
| battle room, `service/battle/sync/room.go` | players' gold and mana, towers, the grid index, miners, waves, monsters, base, tick, outcome, pending deltas | build, reroll, merge, buy a miner, advance to a tick, start, abort, snapshot, flush, mark and build the settlement | long sequences of legal operations; two indexes; catch-up loops; several end conditions due at once | indexes agree, gold is conserved, miners and monsters on schedule, damage counted once, outcome sound and final |
| battle deltas, `room.go`, `sync/proto_adapter.go` | the list of changes since the last flush | append on every change, flush, snapshot | a change without its delta leaves every client wrong for good | snapshot and deltas are the room |
| battle service, `service/battle/battleapp` | rooms by id, joined sessions, the loop and its channels, last settlement | create, join, op, tick, broadcast, settle, stop the loop | handlers, tick goroutine and settlement goroutine share a room and take its lock separately for each access | nothing withheld from a session, one settlement of the room's outcome, goroutines end in order |
| settlement on logic, `service/logic/module/battle` | settled battles (in memory) | validate, remember, credit | duplicates; the memory is lost on a restart | one credit per battle |
| server-to-server RPC, `deps/rpc_mgr` | table of calls in progress | request (blocking or not), response, failed send, timeout, sweep, stop | five parties race to finish one call | one verdict per call, every call is taken from the table and no blocking caller waits for ever, Stop leaves nothing |
| gamers, `service/logic/actor`, `module/system` | gamers by id and by session, task queue, online state | login, reconnect, kick, switch out, drain, stop | two indexes changed in steps of their own, by the RPC pool, the drain and the stop; the session changed outside the gamer's goroutine; tasks against stop | a live gamer is reachable by session; login runs before the messages of its session; accepted tasks run |
| sequence numbers and resend, `service/gate/gateuser`, `gatesvr.go` | per user: session, numbers sent and received, unacknowledged messages | number and send, accept and acknowledge, resend, replace session, remove the user a minute after a disconnect | 16 bit numbers wrap; sends go through NetMgr's goroutine, resends do not; queues drop; a reconnect may fail | nothing lost that can still be resent, no request twice, messages not mixed up |
| gate login, `service/gate/module/login`, `gate_user_mgr.go` | agents' users and routes, the table of users | login, reconnect, logout, kick, disconnect, cache timer, switch logic | several calls to redis and logic, any of them may fail, while the session may be stopped or another device may log in | one connection per gamer, the one its user has; a user whose session ended is cleared and removed in time |
| online data, `src/cache`, `deps/redis` | one redis hash per gamer, a lock per account | read, write whole, lock | shared by auth and every gate | no lost update |
| auth and login queue, `service/auth/controller` | sessions, waiting players | authenticate, use a role, queue | a limit shared by concurrent requests | limit kept, order kept, nobody waits for ever |
| registration, `deps/etcd/registrar.go` | the key in etcd with its lease, the lease the registrar believes in, the registration lock | register, keep alive, register again, update, close | leases that run out or are wrongly believed lost, calls that fail with or without effect, a successor of the same key | a live lease has its key; a lost registration is made again; a closed instance goes away |
| discovery, `deps/service_mgr`, `etcd_watcher.go` | instances in order, index, hash ring, network status; watch revision | watch, break, snapshot, add, replace, remove | lost watches, deletions missed, two indexes | indexes agree, the table converges to the registry |
| links between servers, `deps/netmgr`, `gate/serverlisten.go` | sessions, the session of each instance, the task queue of NetMgr | dial, hello, register, break, reconnect, remove | four goroutines and a queue per link; tasks that come late | messages go only to a session that is held; a healthy instance is linked to, unless its hello was dropped |
| timers, `deps/timer_mgr` | heap and map of timers, two channels | add, cancel, fire, reschedule, stop | add, cancel and tick come in any order; a late loop | on schedule, no time fired twice, every timer fires |
| async pool, `deps/async` | a channel per worker, counters | post, run, drain, stop | full channels, tasks around stop | tasks of a key in order, accepted tasks run |
| event bus, `deps/eventbus` | subscribers | subscribe, publish | nothing publishes in the servers | |
| document persisters, `deps/mongoclient` | pending field changes | load, set, unset, save | a save that fails | the document is what memory holds |
| life cycle and dispatch, `deps/server`, `src/msghandler`, `deps/router` | running pools, calls in progress, routes | start, stop, dispatch | tasks that block in calls whose responses another pool handles, while the pools are stopped | responses are handled as long as requests wait; stop ends |
| network queues, `deps/netmgr` | connections and their write queues | accept, send, receive, close | socket I/O | |
| logic's business modules, `service/logic/module/*` | per-player data | item, task, shop, ... | none of their own: one task queue per player | |
| robot, kitex demo | | load generator, demonstration | | |
| logging, encodings, ids, configuration, `deps/x*`, `deps/fastid` | | | | |

How the modelled parts interact: a client's `BattleJoinREQ` and `BattleOpREQ`
run as handlers of the battle service, each in the goroutine of its
connection.  Each room has a ticker goroutine (`startRoomLoop`) that advances
the room one tick, broadcasts what changed and, once the room is closed,
starts one settlement goroutine.  That goroutine marks the room settled,
builds the settlement, reports it to logic with one blocking RPC
(`SendRequestWithBlock`, the calls of `RpcMgr`) and stops the ticker
goroutine.  `battleRoom.mu` is held for one access at a time and never across
two, so everything between two accesses interleaves.

At the gate a client's login and reconnect run in the reader goroutine of its
connection, under the account lock in redis, and wait there for redis and
logic; logout runs on the async pool without the lock.  They change the user
in the table of `GateUserMgr` and ask `NetMgr`'s goroutine to kick sessions.  A
session that is taken out of `NetMgr.sessMap` is stopped by a goroutine of its
own, which first calls `ClientDisconnectHandler`: that clears the user's
session and arms the timer that removes the user a minute later.  What logic
sends to the client is numbered and kept in the user, and sent again after a
reconnect.

A logic server keeps one `Gamer` per player, with a task queue and a goroutine.
Login, reconnect and switch-out arrive as RPC requests, which the pool runs one
after the other for a gamer; a kick arrives on the pool of s2s messages; the
messages of the client are queued by the reader of the gate's connection.  All
of them, the gray drain and the stop change the two maps of `GamerManager` and
the session of the gamer, each in steps of its own.

Below this every server has the same parts.  `Registrar` puts its instance into
etcd under a lease.  `ClientWatcher` hands changes of the other instances to
`service_mgr.Manager`, whose event reaches `serverlisten.go`, which connects or
removes.  NetMgr's one goroutine starts, registers and gives up connections by
tasks; readers post what they receive to `AsyncPool`s, one for requests, one
for responses, one for s2s messages, and `stop` ends these one after the other.

## The modules

| module | models | how it corresponds |
|---|---|---|
| `BattleRoom` | `Room` | a variable per field, an action per method: `BuildTower`, `RerollTower`, `MergeTower`, `BuyMiner`, `AdvanceTick` (one round of `AdvanceToTick` with `produceMinerMana`, `spawnWaveMonsters`, `advanceMonsters`, `cleanupFinishedWaves`, `checkFinishConditions` in that order), `Start`, `Abort`, `MarkSettled`, `FlushDeltas`; `SnapshotView` and `ApplyDeltas` are what a receiver makes of a `Snapshot` and of a list of `Delta`s |
| `BattleDeltas` | snapshot and deltas | `BattleRoom` with `mirror`, a receiver that applies every flushed batch |
| `BattleSettlement` | abstract | the promise: one outcome is decided, that outcome is reported once |
| `BattleService` | `battleapp` | extends `BattleRoom`; `pc` holds the next step of each handler and of the tick goroutine, `settlePc` that of the settlement goroutine; each step is one access under the room's lock, or one send; a client that has lost a message has no view |
| `RpcMgr` | `deps/rpc_mgr` | the table, the caller's goroutine, the network, the peer's `RpcMessageHandler`, the sweeper and `Stop`, one action per critical section and one per run of the callbacks |
| `SeqAck` | `gateuser/gate_user.go`, the route handlers, `SendMsg2Sess` | one user: `Route` numbers and keeps a message under the lock, `Post` and `NetSend` are the task queue, `ReplaceSess` and `ResendUnAckMessages` the two locked steps of a reconnect, `RefuseReconnect` its failure, `ClearSess` and `DelOffline` the disconnect handler and the timer it arms, `ClientRoute` the acceptance of a request |
| `GateSession` | `module/login`, `gate_user_mgr.go`, the end of a session | one gamer, any number of its sessions; `handler` holds the step of each session's reader, `ending` that of its `stop()`, `logout` that of its logout; each step is one access to redis, the table, the agent or one answer of logic |
| `GamerSession` | `logic/actor`, `logic/module/system` | one gamer id and the gamers made for it; `req` is the request the pool works on, `kick` the kick, `drain` the gray drain, `stopPc` the stop; one action per access to a map or to the session state, one per task a gamer runs; `givenUp` holds the sessions whose login failed at the gate |
| `TimerMgr` | `deps/timer_mgr` | `mainLoop` with one action per branch of its `select`; `AddTimer` and `CancelTimer` as the check of `running` and the send |
| `AsyncPool` | `deps/async` | any number of pools; a worker takes, runs, sees `quit`, counts what is left, drains and ends |
| `ServerKernel` | `deps/server/service.go`, `msghandler/server_handler.go` | extends `AsyncPool`: readers post requests, responses and messages, tasks block in calls, `stop` stops the pools in its order |
| `Registrar` | `deps/etcd/registrar.go` | `Register`, `keepAliveLoop` and `reRegister` as the steps of `loop`; `UpdateSelf` as the steps of `upc`; etcd, external, as keys, leases and transactions |
| `Discovery` | `etcd_watcher.go`, `service_mgr` | a log of the registry, external, of which the watcher passes on a snapshot or the next change; `HandleEvent` is `updateAndTriggerInstance` |
| `ServerLinks` | `gate/serverlisten.go`, `netmgr.go`, `tcp.go` | extends `Discovery`: a link is a `tcpMsgQue`; `conn`, `hello` say how far dial, start, hello and stop are, and that a hello was dropped for good; `tasks` is NetMgr's channel |
| `MC...` | | values of the constants for TLC |
| `BattleRoomProofs`, `BattleServiceProofs` (also of `BattleDeltas`), `RpcMgrProofs`, `GateSessionProofs`, `GamerSessionProofs`, `SeqAckProofs`, `ServerKernelProofs` (also of `AsyncPool` and `TimerMgr`), `DiscoveryProofs` (of `Registrar`, `Discovery` and `ServerLinks`) | | the theorems |

`BattleService` conjoins the actions of `BattleRoom` with the step that calls
them, so the room inside the service is the room that was checked alone; it
refines `BattleSettlement` under the mapping stated at `Settlements`.
`ServerKernel` and `ServerLinks` compose in the same way: posts, workers and the
stop of a pool are `AsyncPool`'s, the events that connect and remove links are
`Discovery`'s.

What was abstracted, and why that is sound:

- *Room.*  Monster HP, type, route and reward are never changed or never read
  by the room.  A monster is named by its wave and number instead of the id it
  is given.  An operation that is refused changes nothing and is a disabled
  action.  `AdvanceToTick(t)` is a loop of rounds; the service calls it with
  the next tick, so one round is one action.
- *Deltas.*  The list is kept as the last value for each player, tower and
  monster.  Every `Delta` carries absolute values and `FlushDeltas` hands out
  the whole list, so a receiver cannot tell the two apart.  The deltas and
  snapshots the clients get never carry the base's HP, the state or the
  outcome of the room; those are not part of the view.
- *Service.*  One room: rooms share nothing but the map they are found in.
  The token check of a join is stateless.  The dispatcher is not wired in
  `battlesvr.go` at this commit, so its guarantee (one request of a connection
  at a time) is taken from `src/msghandler` and `deps/netmgr`.  A connection
  is a FIFO, so sending and receiving are one step.  A client that gets deltas
  before the snapshot of its own join keeps them.  Any send to a client may be
  lost (`SendMsg2Sess` and `Send` drop what a full channel does not take, and
  what is for a session that is gone, and nobody sends it again); which client
  loses which message is free, and one that has lost any shows nothing that
  could be relied on until it joins again.
- *RPC.*  Client and server read one clock; the code uses each machine's own
  (and `xtime` may be shifted by a GM command).  A message is lost or arrives;
  it is not duplicated (TCP).  A full queue of the peer answers an error at
  any time, which is `ServeRefuse`.
- *Sequence numbers.*  A message is its place in the order of routing, and
  carries that number modulo `SeqMod`.  The client is not in the repository
  (the robot neither orders nor acknowledges); it is assumed to take messages
  in the order of their numbers, to acknowledge the last one it took, and to
  repeat or increase the number of its requests.  Its acknowledgement travels
  as the message it stands for; the numbers on the wire are its `Number`.
  `Window` is assumed below half of the range and bounds two things that the
  code does not bound: the messages kept at a time, and how many messages are
  routed beyond what the client has or has said in a request that is on its way
  (`Acks`).  The code relies on 32768 messages not being routed to a client in
  a minute, or before it reads the first of them.  The second bound is needed:
  without it expired messages leave `SendQueue` while the client falls behind
  by more than half of the range, and a later acknowledgement, or the client's
  own comparison, takes a number for an older one.
  A connection is a FIFO of the capacity of `cwrite`; its other direction
  carries any number of requests, new ones and repeated ones mixed.  `Repeats`,
  also below half of the range, says how far back a client repeats: a request
  older by 32768 numbers would be taken for a new one.  The login's and the
  reconnect's other steps are `GateSession`'s: here a reconnect fails or gets
  the session.  One user object is followed up to its removal; no reconnect
  succeeds after that, and the login that has to follow makes another object.
  An accepted request that the rate limit or a missing route then stops is
  taken as handled.
- *Gate.*  One gamer, one gate.  Logic and redis answer or fail.  The hash in
  redis is its token and session.  `CanReconnect`'s limit per minute may refuse
  at any time.  A session makes one attempt.  The wait of 20ms after a kick
  ends at any time.  The account lock does not expire: a watch dog refreshes
  it.  `Stopping` of the whole gate is left out.

- *Gamers.*  One gamer id; gamers with different ids share only the maps.  What
  a task does to the player's data is left out: a task is its kind and the
  session it names.  A gate gives each session one login or one reconnect, in
  the order of their numbers.  Loading a player's document succeeds.  A session
  whose login has failed for the gate sends for as long as the model likes; the
  code ends that by a kick.  A message added to a task channel that has just been
  closed makes the reader of the gate's connection panic, which closes that
  connection with all its sessions; here only the message is lost.
- *Timers.*  The unit of time is the tick.  A timer is added once and cancelled
  at most once; what the callback does and in which goroutine is left out.  The
  heap is the set of active timers: only which are due matters.  The clock does
  not go back; the code logs such a jump (`detectTimeJump`), and its timers then
  wait until the clock is where it was.
- *Pools and kernel.*  A task is its key, its number among the accepted tasks
  of the key, and the call whose response it brings, if any; the numbers
  exist only in the model.  The hash of a key is a constant function.  The table
  of calls is `RpcMgr`'s: here a call waits, is answered or expires.  The front
  connections are left out.
- *Registration.*  etcd is what this code needs of it: a key has a value and a
  lease, transactions are atomic, a lease runs out unless it is kept.  A put or
  a revoke that fails may have been applied.  A value is its version.
- *Discovery and links.*  One service.  An event is an instance and its
  status; an instance keeps its address while it is listed.  An event never gets
  lost between watcher and manager (their channels block).  NetMgr's channel
  does not fill up (it holds 100000 tasks), and NetMgr is not stopped.  A hello
  or its answer may be dropped, by the pool of either side or by a full write
  channel.

## The runs

| run | properties | instance, and why it is enough |
|---|---|---|
| `room` | `TypeOK`, `GridConsistent`, `GoldConserved`, `MinersOnSchedule`, `MonstersOnSchedule`, `DamageAccounted`, `OutcomeSound`, `MirrorComplete` | `BattleDeltas` with two players, two grids, 4 gold, levels up to 2, flushed at any moments: both players compete for a grid, a merge is reached and refused at the highest level, a miner pays twice, one player has the default deck; two overlapping waves with different gaps, speeds and paths, and an empty one; the third arrival takes the base below zero, ends the last wave and meets the timeout, so defeat, timeout and victory are due at once |
| `service` | `OutcomeSound`, `ReportsOneOutcome`, `ClientsConverge`, `BattleEnds` | two clients, two requests each, any message to them lost: join against join, join against operation, operation against tick, all of it against the settlement; each client can afford one tower, two monsters walk over three ticks, and the timeout comes due on the tick of the victory (the one end of a battle that this run reaches; the others are `room`'s and the theorem's).  Miners, with which an operation and a tick change the same player, and sessions that share a player are left to the theorem |
| `rpc` | `OneVerdict`, `StopIsFinal`, `NoStartAfterTimeout`, `EveryCallEnds` | one blocking and one non-blocking call; four moments, so a message may be early, in time for one side only, or late |
| `seq_ack` | `NothingLost`, `RequestsOnce`, `NoMixUp`, `EventuallyDelivered` | six numbers and three loads (`Loads`): six messages and three requests, so the messages' numbers wrap, on two sessions and over two moments, of which the second is past the age limit and the removal timer; six requests, two on their way on each session, so theirs wrap, repeated and mixed across a reconnect; three sessions, so a second reconnect follows one that failed, succeeded or came after the removal.  A write channel of two, which overflows |
| `gate_logins` | `GateTypeOK`, `EventuallyOneSession` | two sessions, each of which logs in or reconnects and may log out; the timer is due while a second one is armed; one reconnect uses up the token |
| `gamers` | `Reachable`, `LoginRunsFirst`, `EveryTaskRuns` | three sessions, so a login can meet a reconnect that is queued behind another; two gamers, so one is switched out and replaced; a queue of two, which fills; one message, also of a session whose login has failed, kick, switch and drain each, at any moment, and the stop |
| `timers` | `OnSchedule`, `FiresOncePerTime`, `EveryTimerFires` | a timer that starts at once and repeats for ever and one that fires twice, with different intervals; channels of one; six moments, so the loop may be late by more than an interval |
| `kernel` | `KeyOrder`, `StopRunsAccepted`, `ResponsesHandled`, `ServerStops` | three pools, the one of requests with two workers; two requests of one key, a message without one and the responses to two calls; channels of one, which fill; the calls are made by requests or by the message, before or across the stop |
| `registrar` | `OwnerKeepsKey`, `RegistersAgain`, `ClosedIsGone` | an instance and its successor with the same key; three leases for the first, so it registers again, is refused and tries once more; an update at any moment, across the change of lease; two faults, so a loss and a failed call meet |
| `discovery` | `IndexConsistent`, `TableFollows`, `EveryInstanceListed` | three instances, so the last entry moves to the place of a removed one and one stays; five changes, one break of the watch |
| `links` | `AgentIsHeld`, `EventuallyLinked` | one instance that comes, stops, goes and comes back; three links, the most that two announcements and one reconnect make; one break of the connection, one of the watch, one hello dropped at a time |
| `discovery_stale` | `GoneIsForgotten`, violated | see [Findings](#findings) |

The type invariants of `RpcMgr`, `GamerSession`, `ServerKernel`, `Registrar`,
`Discovery` and `ServerLinks` are in no run: they are proved.  That a timeout
precedes a victory of the same tick is reached in `service`, that a defeat
precedes both in `room`.

Bounds.  A room's behaviour is finite by its own configuration (gold, levels,
the timeout), so the room runs need no bound.  `MaxRequests` bounds the
requests of a session: two are enough for any pair of critical sections of a
handler to meet, since a handler keeps no state between requests but the
binding.  `MaxTime` bounds the clock of `RpcMgr`, and `RoomToWait` lets no call
start so late that its timeout falls beyond it.  In `SeqAck` and `GateSession`
sessions, messages, requests and the clock are bounded by the constants whose
comment says so; the last session of `SeqAck` does not break, for there is none
to come back with; what a full channel refuses on it is therefore excepted from
`EventuallyDelivered` (`refused`): in the code, too, only a reconnect repairs
that.  Each behaviour of `SeqAck` has one load, because all of them at once are
beyond TLC; the theorems hold for any set of loads.  Two sessions are enough in
`GateSession` because the code compares a session with one other at a time.  The sixteen bits
of the code are `SeqMod`: only half of the range and its end matter, and with
six numbers both are reached.  In `GamerSession`, `ServerKernel`, `Registrar`,
`Discovery` and `ServerLinks` the number of requests, posts, leases, changes
and breaks is bounded by constants named in the modules; these bounds only end
a behaviour, and the theorems below hold for every value of them.  The clock of
`TimerMgr` stops at `MaxTime`, and `EveryTimerFires` speaks of timers that are
due by then.  Where `CHECK_DEADLOCK` is off,
the system comes to rest: requests are used up, the battle is settled, calls
are finished, servers stopped, changes used up.  `room` keeps deadlock checking
on: a closed room can still be flushed.

Fairness, and what in the code justifies it:

- Weak fairness of `AdvanceTick` in `BattleRoom` and `BattleDeltas`: the
  `time.Ticker` of `startRoomLoop`, which does not end before the room is
  closed.  Players owe nothing.  `BattleEnds` rests on the ticks of the service.
- In `BattleService`, weak fairness of the tick goroutine, of the settlement
  goroutine (its only blocking call has a timeout) and of each handler that has
  started: goroutines are scheduled and `sync.Mutex` hands on.  Strong
  fairness of `LoopExit`: Go's `select` chooses at random among the ready
  cases, so the ticker cannot hide a closed `stopCh` for ever.  No fairness for
  starting a request.
- In `SeqAck`, weak fairness of NetMgr's goroutine, of the rest of a handler
  that has begun, of the client's reading, and of its reconnect once its
  connection is broken.  Neither time nor new messages or requests.
- In `GateSession`, weak fairness of each handler that has begun (every call in
  it has a timeout; `RedLock` fails at once if the lock is held), of NetMgr's
  goroutine with its login timeout, and of `stop()`.  None for clients, broken
  connections or time.
- In `RpcMgr`, weak fairness of time, of each caller, of the callbacks, of the
  sweeper and of `Stop` once called.  None for the network or the peer, and
  nobody has to call or to stop.
- In `GamerSession`, weak fairness of each gamer's goroutine and of the three
  workers (RPC pool, s2s pool, drain) within what they have begun.  No request,
  message, kick or stop has to come.
- In `TimerMgr`, strong fairness of the branches of `mainLoop`'s `select`, which
  picks at random among those that are ready; weak fairness of the clock, of the
  end of the loop, and of callers that have begun to add or cancel.
- In `ServerKernel`, weak fairness of `stop` once it has begun, of each worker,
  and of the timeout of each call.  Nobody has to post, and nothing is assumed
  about how a worker chooses between its channel and `quit`: posts are bounded.
- In `Registrar`, weak fairness of the registrar's goroutine, of updates that
  have begun, and of the end of a lease that nobody keeps; strong fairness of
  getting the registration lock, which others hold for a while.  Faults are
  bounded: etcd answers in the end.
- In `Discovery`, weak fairness of the watcher's and of the manager's goroutine.
- In `ServerLinks`, weak fairness also of every goroutine of a link, of NetMgr's,
  and of the end of a dial; strong fairness of a successful dial of an instance
  that is registered as healthy: not every one of them fails.

## Mutants

For each property of a passing run `PROJECT.json` names a definition and a
faulty variant of it, which stands right before the definition in the module
and is used nowhere.  Put in place of the definition, it makes TLC find the
property violated.

| variant | the slip it makes |
|---|---|
| `CanAffordAnything` | costs are taken without being checked |
| `KeepGrid` | a merge forgets to free the grid of its material |
| `MergeableAnyLevel` | a merge does not compare the levels |
| `PayoutsOneLate`, `SpawningLate` | `>` for `>=` in the catch-up loops |
| `HPAfterRecount` | arrived monsters are charged again every tick |
| `OutcomeVictoryFirst` | victory before timeout |
| `FinishedWhenSpawned` | a wave is finished while its monsters still walk |
| `ResourceDeltaForgotten` | a delta is missing |
| `AddresseesWithSnapshot` | sessions are added to the broadcast only after their snapshot |
| `SettleDueWithoutLoop` | the test for the loop is inverted |
| `RetrySend` | a failed report is repeated |
| `TakenKept` | the call stays in the table after it was taken |
| `MayRegisterUnchecked` | no second look at `stopped` under the lock |
| `ExpiredBlockingOnly` | the sweep passes over non-blocking calls |
| `NarrowNumber` | the number on the wire has fewer bits |
| `GreaterUnwrapped` | numbers are compared without regard to the wrap |
| `ReplayAccepted` | the last request is accepted once more |
| `SwappedAck` | `UpdateAck` is called with its arguments swapped |
| `EvictNobody` | the session that had the user is not kicked |
| `LockIgnored` | the account lock is not looked at |
| `NeverTooLate` | the peer does not look at the age of a request |
| `ReconnectFindUnindexed` | a reconnect deletes the old entry of the index and sets no new one |
| `LoginFindAnswers` | login answers before its task is queued |
| `RunsUntilStopped` | a stopped gamer leaves its queue |
| `NextTimeFromNow` | the next time is counted from the moment of firing |
| `ExhaustedOneLate` | a counted timer fires once more |
| `DueExactly` | a timer is due only at its very time |
| `TargetShortest` | a task goes to the worker with the shortest channel |
| `RemainingNone`, `RemainingOneMore` | a worker drains nothing; it waits for one task too many |
| `StopOrderResponsesFirst` | the pool of responses is stopped before that of requests |
| `MayPutAnyway` | the key is put although it is there |
| `KeepLease` | a failed registration keeps the lost lease |
| `KeptAfterClose` | a closed registrar goes on keeping its lease alive |
| `IndexWithoutMove` | the index of the entry that moves is not changed |
| `ReplacedUnlessStopping` | an instance that stops keeps its old entry |
| `PresentHealthy` | the snapshot leaves out instances that stop |
| `RegistersAnyway` | a session that is over is registered |
| `ReconnectsRegistered` | only a session that had been registered is tried again |

## The proofs

Each theorem holds for every value of the constants that satisfies the
assumption of its module: `ConfigAssumption`, `SessionAssumption`, `RpcAssumption`, `GateAssumption`,
`GamerParameters`, `PoolParameters` with `KernelParameters`,
`TimerParameters`, `SeqAckAssumption`, `RegistrarParameters`,
`DiscoveryParameters`, `LinkParameters`.
`ConfigAssumption` says what `createRoom` and `AddPlayer` enforce or what a
configuration is: at least one player, each with a tower to draw, natural
amounts.  `SessionAssumption` gives each session a player; any number of
sessions may share one.  `RpcAssumption` says that the client's timeout is longer than the
server's, as the constants of the package are.  `PoolParameters` wants at least
one worker and one place per channel and a hash that stays within the pool;
`TimerParameters` wants intervals of at least one tick, as `AddTimer` does.
`SeqAckAssumption` wants an even number of numbers, as 16 bits give, fewer
than half of them in flight, and no request repeated from further back.  The others say that bounds are natural numbers and that names differ.

| theorem | states | argument |
|---|---|---|
| `RoomTypeCorrect` | `TypeOK` | inductive by itself; the level bound needs `Mergeable`, the natural amounts `CanAfford` |
| `GridIndexCorrect` | `GridConsistent` | inductive with `TypeOK`: new ids are above all towers, a merge frees the one grid of its material |
| `MinersStayOnSchedule` | `MinersOnSchedule` | inductive with `TypeOK`; at most one interval passes per tick, so the quotient in `Payouts` is 0 or 1 rounds |
| `GoldIsConserved` | `GoldConserved` | inductive with `TypeOK`: `Builds` is a sum of one unit per build, written as a cardinality; a merge takes one tower's units from its place and adds as many to another's, and `2 ^ (n-1)` doubles with the level |
| `MonstersStayOnSchedule` | `MonstersOnSchedule` | with `WaveInv`, below: a wave spawns one monster per gap, so the number spawned is the number due, and a step of one monster adds one tick to the ticks it has walked |
| `DamageIsAccounted` | `DamageAccounted` | with `WaveInv`: a tick charges the monsters that arrive in it, none of which had arrived, so the cardinalities add up |
| `OutcomeIsSound` | `OutcomeSound` | with `WaveInv` and `DamageAccounted`: every wave finished is every monster arrived; `Outcome` is evaluated after each tick, and no other operation touches what it reads |
| `ClosedRoomIsFinal` | `ClosedIsFinal` | no action but the tick, `Start` and `Abort` touches those variables, and each has the state in its guard |
| `DeltasComplete` | `MirrorComplete` | strengthened by `MergedAllocated`: ids of merged towers are allocated and not on the board, so a build never revives one; per operation the new delta overwrites exactly what the operation changed |
| `PendingDeltasCurrent` | `PendingIsCurrent` | from the former: applying a batch twice is applying it once |
| `ClientsStayInStep` | `ClientsConverge` | `ServiceInv`, below |
| `ServiceRunsTheRoom` | the room's `Init` and `[Next]_roomVars` | step by step: what the service does to the room is an action of the room |
| `OutcomeStaysSound` | `OutcomeSound`, for `ServiceSpec` | the room's invariants, from the former |
| `OutcomeIsReportedOnce` | `OutcomeInit` and `[OutcomeNext]` of `BattleSettlement` under the mapping `Settlements`, the safety half of `ReportsOneOutcome` | `EndInv`, below: a tick that closes the room maps to `Decide`, the send to `Report`, every other step to a stutter |
| `RpcTypeCorrect` | `RpcTypeOK` | `RpcInv`, below |
| `OneVerdictPerCall` | `OneVerdict` | `RpcInv`: a call in the table has no verdict; each party that took one has one verdict to give |
| `StopLeavesNothing` | `StopIsFinal` | `RpcInv`: after `StopTake` nothing registers, and each stage of `Stop` waits for the callbacks it has to |
| `LateRequestsRefused` | `NoStartAfterTimeout` | `RpcInv`: who timed out did so `ClientWait` after the id was made, which the peer sees as too late |
| `GateTypeCorrect` | `GateTypeOK` | `GateInv`: only `LoginLock` and `ReconnectLock` enter the locked part, when nobody is in it, and only `Unlock` leaves it |
| `OnlineUserIsKept` | `OnlineIsKept` | `GateInv`; its last part makes the two login paths, which overwrite the user, keep it in the table |
| `GamerTypeCorrect` | `GamerTypeOK` | `GamerInv`, below |
| `GamersStayReachable` | `Reachable` | `IndexInv`: the session a request is about to index leads to its gamer already, or this one was stopped; a delete by session stops what the session led to; a reconnect's new session is not the old one it deletes, because nothing in memory knows it (`KnownInv`) |
| `LoginsRunFirst` | `LoginRunsFirst` | `OrderInv`: a message is queued only for an answered session or one the gate has given up on (`QueueInv`); a login or online task only for the session of the request, which is not answered (`ReqInv`), so a message of that session that stands before it is of a login given up |
| `PoolTypeCorrect` | `PoolTypeOK` | `PoolInv`, below |
| `KeysStayInOrder` | `KeyOrder` | `PoolInv`: the tasks of a key stand in one line, in their order, and none is missing, so the one that runs is the next |
| `StopRunsWhatWasAccepted` | `StopRunsAccepted` | `PoolInv`: what a draining worker counts covers all that was accepted before the stop, because later tasks stand behind them |
| `ResponsesOutliveRequests` | `ResponsesHandled` | `KernelInv`, below: the pool of requests has ended before that of responses is told to stop, and a waiting call keeps its worker from ending |
| `TimersStayOnSchedule` | `OnSchedule` | `TimerInv`, below |
| `NoTimeFiresTwice` | `FiresOncePerTime` | `TimerInv`: an active timer is due at its first time or an interval after its last, and has callbacks left |
| `NumbersAreNotMixedUp` | `NoMixUp` | `SeqInv`, below: what is on its way to the client is at most `Window` before what the client has, so of those only the next message has the next number |
| `NoMessageIsLost` | `NothingLost` | `SeqInv`: what the client has said is at most `Window` behind, so an acknowledgement drops no message after the one it names, however many requests carry an older one; the queue is emptied only with the user object |
| `RequestsAreHandledOnce` | `RequestsOnce` | `SeqInv`: the requests on their way stand, within a session and from one session to the next, at most `Repeats` before any that was sent before them, and so before the last one accepted (`RequestInv`); at that distance a number is greater only if it is a later request's |
| `RegistrarTypeCorrect` | `RegistrarTypeOK` | inductive by itself |
| `OwnersKeepTheirKeys` | `OwnerKeepsKey` | `RegistrarInv`, below: each put is conditional, on the key being absent or on the lease it has |
| `DiscoveryTypeCorrect` | `DiscoveryTypeOK` | `DiscoveryInv` |
| `TableIsIndexed` | `IndexConsistent` | `DiscoveryInv`, the two with the finiteness of the index: an index names the entry of its own instance, so two instances never share a place and the last entry may move |
| `TableFollowsRegistry` | `TableFollows` | inductive with `DiscoveryInv`: lemmas about `Latest` say what one more event, a snapshot, and the handling of the first event do to the status that the table with its pending events will have |
| `LinksTypeCorrect` | `LinksTypeOK` | `LinksInv`: `DiscoveryInv`, `LinksTypeOK`, `AgentIsHeld` |
| `AgentsAreHeld` | `AgentIsHeld` | `LinksInv`: whatever takes a session out of NetMgr's map drops its agent in the same task, and a new link object is one that nothing refers to |

`RpcInv` is the conjunction of `RpcTypes`, `TableInv` (who may have taken a
call that is, or is no longer, in the table), `VerdictInv` (how many callbacks
have run for each value of `taken`), `StopInv` (what each stage of `Stop` has
achieved) and `TimeInv` (waiting callers' timeouts are at least `ClientWait`
after their request).

`WaveInv` says how far each wave has been spawned: the monsters of a wave that
exist are the first `spawned` of it, never more than its number, and a finished
wave has spawned them all.

`ServiceInv` compares views, batches and what is pending thing by thing (a
player's resources, a tower, a miner, a monster).  `RoomInv` says that what is
pending of a thing is what the room holds of it, and each operation has a lemma
that what it changes is pending afterwards.  `BatchInv` says that a batch exists
from its flush to its send and has a number of its own.  As long as nothing has
been overtaken: batches have been addressed in the order of their flushes, and a
session that gets one gets every later one (`OrderInv`); for a thing that is not
pending, the newest batch that mentions it is right (`LatestInv`); and what a
joined client has of a thing is what the room has, unless the thing is pending
or in a batch on its way to that client (`SyncedInv`; a client that has lost a
message has no view, and none is asked of it).  A send of the oldest
batch keeps this, because for the things it mentions either a later batch is on
its way to the same client or it has the last word.

`EndInv` is the conjunction of `TypeOK`, `RoomEnd` (the clock starts at 0 and
reaches the timeout only in the tick that closes the room; a closed room has an
outcome and its tick) and `SettleInv` (the settlement goroutine runs once, on a
closed room, has reported nothing before its send, and sends what the room says).

`GateInv` is the conjunction of `GateTypes`, `LockHeld` (both of `GateTypeOK`)
and `BoundIsThere`: a user with a session is in the table.

`GamerInv` is the conjunction of `GamerTypeOK`, `ReqInv` (what each step of a
request may count on), `KnownInv` (sessions in memory have asked to come in,
and none is the one that has just arrived), `QueueInv`, `OrderInv` and
`IndexInv`.  Neither property is inductive without the others: that a session
is new is what keeps a reconnect from deleting the entry it has just made.

`PoolInv` looks at the line of each worker, the task it runs and those in its
channel.  Taking a task does not change the line, a post appends to it, the end
of a task takes its first.  `Sound` says what stands in the lines: numbers of
accepted tasks, those of a key at its worker, not finished, increasing, in no
two lines.  `Complete` says that for a key the lines hold all that is accepted
and not finished, `Counted` how many that are (by cardinality, for tasks without
a key as well), and `StopInv` that what a worker will leave behind was accepted
after the stop.

`KernelInv` adds to `PoolInv` that a waiting call blocks a task of another pool
than that of responses (`CallInv`), that responses stand in the channels of
their own pool only (`CarriesInv`), and how far the stop is when a pool is told
to stop or has ended (`StageInv`).

`TimerInv` is the conjunction of `TimerTypes`, `AddChanInv` (a timer stands in
the channel once while it is queued) and `ScheduleInv` (before its first
callback the next time of a timer is the one it was added for, afterwards an
interval after the last, which is a whole number of intervals after the first).

`SeqInv` is the conjunction of `SeqTypeOK`, `QueueInv` (`SendQueue` holds the
last messages routed, without a gap), `AcksInv` (what the client has, or has
said, is at most `Window` messages behind), `NothingLost`, `RequestInv` (a
request on its way is at most `Repeats` before those sent before it on its
session or an earlier one and, on the session of the user or the client,
before the last one accepted, whose number is `ack`) and
`LinkInv`: messages wait with NetMgr in the order of routing (`OrderInv`),
nothing is sent on a session before the user object has it (`SessionInv`), and
on the client's session no message, with NetMgr or on the wire, is more than
`Window` before what is ahead of it or what the client has (`ReachInv`).  The
argument is about messages; lemmas about `Number` and `IsSeqGreater` turn
"at most `Window` apart" into what the code compares.  `AcksInv` is where the
bound on what is in flight is needed.

`RegistrarInv` is the conjunction of `RegistrarTypeOK`, `KeyInv` (a key names a
lease that is alive and whose registrar has this key), `LeaseInv` (leases are
numbered upwards, so a new one is nobody's), `StoreInv` (between the put and the
store of the lease the key is there already) and `OwnerKeepsKey`.

Each invariant was first checked by TLC on the instance of its run.

Only model-checked: everything temporal that needs fairness (`BattleEnds`, the
liveness part of `ReportsOneOutcome`, `EveryCallEnds`, `EventuallyDelivered`,
`EventuallyOneSession`, `EveryTaskRuns`, `EveryTimerFires`, `ServerStops`,
`RegistersAgain`, `ClosedIsGone`, `EveryInstanceListed`, `EventuallyLinked`),
which the prover does not handle, nor `ENABLED`.

## Findings

- `discovery_stale`: after a break of the watch, `loadSnapshot`
  (`etcd_watcher.go:129`) makes an event of every key that is there and none of
  a key that has gone, and nobody compares the two.  An instance whose key was
  deleted while the watch was broken stays listed for ever; it is still picked
  and connected to, and the gate's login handler (`handler.go`, about line 130)
  keeps refusing a gamer whose `LogicSvrId` names it.  The READMEs of
  `service_mgr` (line 29) and `etcd` (line 28) say that the table reflects the
  healthy peers and that a snapshot leaves no gap to fill.

Facts of the code met on the way, which no run reports:

*Battle.*  `reqBattleOp` broadcasts before it returns its response
(`handler.go:99`, where the comments at lines 77 and 82 have it the other way
round).  The state is read in one critical section and the operation applied in
the next, so an operation may change a room that has closed in between
(`battlesvr.go:333`; its outcome stays, which `ReportsOneOutcome` checks).
Broadcasts can overtake each other (`battlesvr.go:303`): two flushes may be
addressed or sent in the other order, and an older value then stands at the
client until the next change.  A session whose player another session took over
and that joins again (`room_manager.go:131` allows it) may get a batch after its
snapshot that was addressed to it before; the attempt to prove `ClientsConverge`
met this one, which needs two sessions of one player.  `ClientsConverge` speaks
of histories without either (`overtaken`), and of clients that lost no message
since their join: a broadcast or snapshot that a full channel refuses is dropped
without a word (`battlesvr.go:291`, `msgque.go:97`), nothing is sent again, and
the protocol has no way to notice.  `OpId` is required but never compared,
so a repeated operation is applied again; rooms are never removed from the
manager; the report to logic is not retried; a handler may flush the deltas of
the closing tick, so the settlement may be under way before they are sent.

*RPC.*  A response that arrives after `expireAt` but before the sweep takes the
call and is dropped without calling either callback (`rpc_mgr.go:213`), so a
caller that does not block never hears of it; `EveryCallEnds` says that the call
is taken, not that a callback ran.

*Gate.*  A session that is stopped while its login or reconnect waits is bound
to the user afterwards (`handler.go:120`, `handler.go:224`); its disconnect
handler has run already.  Logout takes no lock, and a login that is under way
writes back the token it deletes (`handler.go:288`; `deps/redis/README.md:28`
says that the three are serialised).  The removal timer of an earlier disconnect
is still armed after the next and removes the user early (`gatesvr.go:320`).
With the user go its numbers and whatever was not acknowledged, so a client that
comes back later has to log in and starts anew.
`SendQueue` drops messages after one minute, where the comment at
`gate_user.go:44` says two.  The kick of a reconnect that failed names the
gamer, whom the agent of that session does not carry yet, and does nothing: the
connection stays until the login timeout.  Requests pipelined behind the reconnect
are handled once it has succeeded, those behind one that failed are dropped.

*Gamers.*  The gate binds user and route before it asks logic to log in
(`handler.go:120`, `handler.go:150`); when that call fails or times out, messages
of the connection are routed until the kick has run, and a gamer that has the
session already takes them before the login task or without one.
`LoginRunsFirst` excepts these sessions (`givenUp`).  A login of a gamer in memory leaves the index by session as it is; a
switch-out then deletes the gamer by id without stopping it, and the drain of
the stale entry removes the id's newer gamer.  A reconnect's queued task that
a login overtakes sets the older session again.  A kick that has loaded the
state stores it as offline over a session that came online meanwhile.  A login
that meets a stopped gamer is answered without an error.  The first messages
after a reconnect are dropped until its task has run; a reconnect whose task is
refused has replaced the index already.  A login that is past the check of
`Stopping` may make a gamer after `GamerManager.Stop`.

*Timers.*  A cancel that is handled before its add is lost
(`timer_mgr_test.go:339` acknowledges it); an add that races with `Stop` is
accepted and never fires.

*Pools and stop.*  Tasks accepted after the workers have ended never run; the
connections are read until after the pools are gone, so their requesters time
out.  Calls made by tasks of the s2s pool while the server stops time out,
because the pool of responses is gone.  A worker adds itself to the wait group
inside its goroutine.

*Registration.*  `reRegister` means to revoke the current lease, but the loop
has cleared `leaseID`, so a lease wrongly believed lost makes the
re-registration fail until it runs out.  Two updates at once can leave the older
value in etcd, and copies of `UpdateSelf` may be applied out of order.

*Links.*  An update of an instance never connects: after a deletion that a
snapshot stepped over, the returning instance is not connected to, which is
why `EventuallyLinked` assumes `[]~missed`.  The delayed stop of an old session
marks a freshly connected instance as unconnected.  A hello, or its answer, that the
async pool refuses (`server_handler.go:136`) or a full write channel drops leaves
the link open and unregistered, for as long as it stays open; `EventuallyLinked`
excepts an instance for which such a link is all there is (`Unheard`).  A removal that precedes the registration
leaves a session to an instance that is offline.

## What is not modelled

The components of the table above that have no module, each with its reason in
`PROJECT.json`: libraries without protocol state, generated code, business data
without concurrency of its own, the event bus, in which the servers publish
nothing, and the parts planned below.  More than half of the repository's
lines are generated protobuf code, which has no behaviour of its own.  Within
the modelled components: of the battle service, creating a room by RPC and the
token check of a join; of `RpcMgr`, `Start` called twice; of the gate, the
orchestration of a switch of the logic server, the rate limit, a second gate and
the stop of the whole server; of logic, what tasks do to a player's data; of
discovery, the picks, which only read the table; of the life cycle, `Start`,
reload and the front connections (`StopFront`); of the network, the accepting
side, framing, and `NetMgr.Stop`.

## Plan

1. The switch of the logic server, composing `GateSession` with two instances
   of `GamerSession`; the gate and logic ids in the online data, two gates,
   auth.
2. `BattleReport`: the settlement on logic with `RpcMgr`'s outcomes, composed
   with `BattleSettlement`; restarts of logic.
3. `Persister`, `LoginQueue`; `NetMgr.Stop` and the accepting side in
   `ServerLinks`.
4. Proofs: `BattleReport` and the composed gate and logic, once they are
   written.
