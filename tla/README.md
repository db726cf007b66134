# PPChat in TLA+

PPChat is an instant-messaging back end in Go. Gateway nodes hold websockets; data
nodes number messages, store them in MongoDB and tell the gateways; Kafka carries
the traffic between them, Redis holds sequence segments and online presence, Consul
or Nacos hold the addresses of the nodes. This directory models the parts of it
where a wrong step is hard to provoke with a test, checks them with TLC, and proves
the main theorems with TLAPS.

Read the modules in this order. The way of a message: `KafkaConsumer` (how it reaches
a handler), `SeqIssuer` and `SeqAlloc` (how it is numbered), `MessageLog` and
`MsgIngest` (how it is stored and announced), `ConnManager` (the table of sockets),
`Relay` (how it is written to them). Who is there to receive it: `Presence` (sessions in
Redis) and `GatewaySession` (a websocket and its presence). Beside them `Balancer` and
`ServiceRegistry` (which node to call), `UserSessions` (logging in and checking a
token), `EventStore` (the ChatBox event log and its two views). The eight `_proofs`
modules come last; each `MC` module is the instance its `.cfg` files check.

Some definitions are preceded by a variant under the comment "Mutation": it is used by
nothing and shows which bug the property of the same section would catch.

## The system

Paths are below `src/`. "Hard" names the behaviour a unit test would hardly reach,
"correct" what has to hold.

| Component | State it keeps | Operations | Hard | Correct |
|---|---|---|---|---|
| Kafka consumer `service/dispatcher/kafka/consumer.go` | per claim: `next`, `pendingOK`, `ackC`, `inflight`, the ants pool; at the broker: the committed offset | `ConsumeClaim`, `StartConsumerGroup` | workers finish in any order, panics, rebalances, crashes, two bounded channels and a blocking pool | nothing is committed that no handler completed; the window does not get stuck |
| Kafka producers, topics, handler registry `service/dispatcher/kafka/*` | maps of topics and handlers | `EnsureTopics`, `RegisterHandler`, `SelectTopicByUser`, `SendMessage` | registered names against consumed names | each consumed topic has its handler; one user always gets one topic |
| Sequence allocator `module/chat/seq/{seq,db}.go` | Redis `seq:blk:*` (`curr`, `end`), Mongo `seq_conversation` (`issued_seq`, `max_seq`, `min_seq`) | `Malloc`, `AllocSegment`, `AdvanceCommit`, `AdvanceMin`, `RaiseIssuedFloor` | two stores without a transaction, lost replies, expiry, several data nodes | a number is issued once; `min <= max <= issued` |
| Message ingest `module/message/message_data_msg.go`, `module/chat/seq/index.go` | Mongo `message`, `seq_conversation`, `conversation` | `HandlerTopicMessage`, `EnsureSeqConversation`, `EnsureTwoSidesByKnownConvID`, `UpdateMaxSeq`, `InsertMessage` | at-least-once delivery, concurrent workers on one conversation, errors that are dropped, crashes between commands | what is announced is stored and readable |
| Connection manager `service/chat/conn_manager.go` | `bySnow`, `byUser`, `conns` under one mutex | add, bind, remove, sweep, evict, send | three indexes of one thing, sockets written outside the lock, a sweep against a heartbeat | the indexes agree; a user's list holds only the user's sockets |
| Gateway session `service/chat/ws_server.go`, `module/message/handler/*` | one read loop, one write goroutine and one `WsConn` per socket, a queue per handler | connect, auth, ping, data, disconnect | a goroutine that exits under a full queue, `done` that nobody closes | a disconnected session releases everything |
| Relay `service/chat/router.go` | `WsRelayBound` (8192), one goroutine | `RelayMsg`, `LoopRelayData` | the only reader may end, writers then block | a relayed message is eventually written or dropped |
| Presence `service/storage/online.go` | Redis session keys, per-user and per-node indexes by expiry | `Connect`, `Authorize`, `HeartbeatAuthorized`, `Offline`, sweeps, `GetUserGateway` | keys and indexes expire apart, scripts and pipelines | an authorised session is listed; a listed gateway has a session |
| Offline queue `service/storage/redis_messages.go` | Redis list | `EnqueueOffline`, `FetchOffline` | read and trim are two calls | no message lost or returned twice |
| NATS bus `service/natsx` | route and subscription maps, idempotency store | `StartNats`, `RegisterRoute`, `RegisterHandler`, `Subscribe`, `PullConsume`, `PublishOnce` | start-up race, redelivery, mark before handling | a message is handled, and handled once |
| Registry `service/registry` | watched lists, weights, methods | `StartWatch`, `StopWatch`, `Pick`, `RegisterMethod`, `UnregisterMethod`, TTL report | stale lists, watcher that ended, names that differ | picks are weighted and from the latest list |
| RPC manager `service/rpc/client_manager.go` | connection, `healthy` | `connect`, `healthLoop`, `pingLoop`, `reconnect` | two loops reconnect at once | one live connection, two loops |
| Mongo manager `service/mgo/mgo.go` | client, ready channel | `StartAsync`, `WaitReady`, `GetDB` | loss after ready | no use of a closed client |
| User sessions `module/user/service/user.go` | Mongo `user_session`, Redis whitelist | `Login`, `Verify`, `ReLoginArchiveAndReplace` | two logins, verify against re-login | a replaced token is refused |
| ChatBox events `module/chatBox/store` | `conv_seq`, `conversation_events`, two timelines | `AppendEvent`, projector | repeated events, projector restart | one number per event |
| Snowflake ids `tools/ids/snowid.go` | last time, sequence, node id | `next` | clock going back, overflow, node ids | ids are unique |

How they interact. A client's DATA frame is read by the gateway's `HandleWS`, whose
data handler produces it to a Kafka topic chosen by the receiver. A data node's
`ConsumeClaim` hands it to a worker, the worker runs `HandlerTopicMessage`: a number
from `Malloc`, the two conversation documents, the message, the watermark. It asks
presence for the gateway of the sender and produces two frames to that gateway's
topic. The gateway's `ConsumeClaim` runs the same function, whose other branch puts
the frame on `WsRelayBound`; `LoopRelayData` takes it from there and writes it to the
sockets that the connection manager lists for the user.

`PROJECT.json` lists every component with its status and every hazard at its line.

## The plan

Done, most important first: `KafkaConsumer`; `SeqAlloc` with the abstract `SeqIssuer`;
`MsgIngest` with the abstract `MessageLog`, which uses `SeqIssuer`'s promise in place of
the allocator and `KafkaConsumer`'s (any worker, at least once) in place of the
consumer; `ConnManager`; `Presence`, extended by `GatewaySession`; `Relay`, which extends
`ConnManager`; `Balancer`, extended by `ServiceRegistry`; `UserSessions`; `EventStore`;
and proofs of every safety property and refinement the passing runs check.

Open: a module for the snowflake ids (clock steps and sequence
overflow); modules for the RPC manager, the NATS bus and the offline queue once the
program starts them.

Modules that are proved about use no RECURSIVE operator and take their bounds as
constants with named assumptions.

## KafkaConsumer

One partition of one topic, as the goroutine of `ConsumeClaim` and its pool see it.

| Variable | Code |
|---|---|
| `main`, `cur` | program counter of the loop and the message it holds: `select`, waiting for a token (`slot`, line 73), in `pool.Submit` (`submit`, 83), sending a negative ack itself (`nack`, 80 and 99), in the window loop (`advance`, 109-118) |
| `next`, `pendingOK`, `ackC`, `inflight` | the variables of the same names |
| `running`, `acking` | workers inside the handler, and back from it and about to send |
| `pos`, `marked`, `committed`, `revoked` | sarama: what `claim.Messages()` delivers next, the session's mark, the broker's offset, the end of the session |
| `first`, `succeeded`, `handled` | history, for the properties |

Each `case` of the `select` is an action, each channel operation that may block is
an action with the room as its guard, and a turn of the window loop is one step so
that the auto-commit may fall between two turns. A panic gives the token back and
sends no ack (line 38 and the deferred release of line 85). A handler that outlives
its claim can no longer reach this partition's offsets (the `session` and `ackC` it
knows are dead), so the model drops it; that the same message is handled again by
the next claim is kept.

Fairness (`FairSpec`): the runtime schedules the loop and the workers, and handlers
return or panic. Nothing obliges a producer, a rebalance, a crash or the commit
timer. Weak fairness of `ReceiveAck` is weaker than Go's `select`, which chooses
among the ready cases at random.

Runs.
- `consumer` (pass): `TypeOK`; `MarkedOnlyHandled`; `CommittedOnlyHandled`, which spans
  claims, crashes and auto-commits; `InflightNeverBinds`, the semaphore of 4096 never
  stops the loop before the pool of 32 does; `PrefixGetsMarked`, a handled prefix is
  marked, whatever order the acks arrived in, unless the claim ends or the loop is
  wedged (`Wedged` is spelled out in the module). Four offsets, two claims, a pool of
  two, a semaphore of three, room for two acks: out-of-order pairs, a gap in the
  window, a full pool, a full channel and a resumption after a crash all happen.

Two things the property excuses or the run avoids. `Wedged`: the loop blocks in
`pool.Submit` while each worker blocks on `ackC`, which only the loop reads, so that
the claim stops for ever; the cfg gives `ackC` room for two where the code has 2048, and
the state needs `ackC` full and the pool waiting. And a group without a committed
offset: `InitialOffset()` is then -1, `next` never equals an offset and nothing is ever
marked, which `FreshGroupNeverCommits` proves; the run starts with offset 0.

## SeqIssuer and SeqAlloc

`SeqIssuer` says what an allocator promises: it takes runs of consecutive positive
numbers that nobody took before. It says nothing about order or gaps.

`SeqAlloc` is one conversation. `issued`, `maxSeq`, `minSeq` are its Mongo document,
`curr`, `last` its Redis key (both fields 0 when the key is absent: the script
answers "not found" or "used up" and `Malloc` treats the two alike). `pc`, `need`,
`tries`, `own` are the locals of each call of `Malloc`: `fast` is the attempt of
lines 94-105, `alloc`, `set` and `issue` the three commands of the loop. Each script
and each Mongo update is one step; each of them may also fail, with or without
having run, and a `luaSetSegment` that the caller gave up on may run later (`late`).
The key may expire at any moment. `AdvanceCommit`, `AdvanceMin` and `RaiseIssuedFloor`
come from other callers at any time; `AdvanceCommit` is called for numbers that were
returned. `taken` and `granted` are history. The conversation has one Mongo document:
were its unique index missing, which `EnsureIndexes` may fail to build, overlapping
upserts of a first `AllocSegment` could insert two.

Runs, with two callers and blocks of two numbers where the code has 256: the segment
runs out, callers refill together, runs of one and two numbers do and do not fit.
- `seqalloc` (pass): `TypeOK`; `UniqueSeqs`; `WatermarksOrdered`; `IssuerSpec`, the
  allocator implements `SeqIssuer` under the mapping that is the identity on `taken`,
  so even a run whose reply was lost is not used again.
- `seq_resend` (violation of `UniqueSeqs`): the same with `SetSegmentResent`. The
  options of `redis.go` leave go-redis' retries on, so a command whose reply timed
  out is sent again, and `luaSetSegment` is not idempotent once a number was taken.
  This is the assumption that the passing run and the theorems rest on: a
  `luaSetSegment` runs at most once.

Numbers need not grow from call to call: an older block that is loaded last sends a
later call back to smaller numbers. `SeqIssuer` therefore promises no order.

## MessageLog and MsgIngest

`MessageLog` is what the two ends of a conversation may rely on: a readable message
stays readable, and nothing is announced before it is readable. Readable is the range
of `model/seq.go:31`, `(MinSeq, MaxSeq]` of the pair's conversation.

`MsgIngest` is `HandlerTopicMessage` on a data node, for one pair of users, in any
number of workers. One action per Mongo command: `EnsureIndexes` (its error and the
failure to build a unique index over duplicates are dropped, as in the code),
`EnsureSeqConversation` (its error leaves `convId` empty: conversation `NoConv`),
`Malloc` (its error is overwritten at line 60 and leaves 0), the count and the two
branches of `EnsureTwoSidesByKnownConvID` with the insert, the duplicate key, the find
and the raise of each side, `InsertMessage`, `UpdateMaxSeq` with the early return of
lines 87-90, and the two produce calls, whose errors `MessageProducerHandler` drops.
A sender without a gateway gets a topic no node reads, which is the same as the
dropped frame. A failed command may have run. `acked` is the set of messages some
call returned nil for, which is what marks them in `KafkaConsumer`.

Runs, with two workers, two messages, three deliveries and two faults (failed
commands or crashes): one redelivery, overtaking, a failure in each half of the
handler and a second one during the recovery all fit. Workers, messages and sides
are interchangeable, and the model is symmetric in them.
- `ingest` (pass): `TypeOK`; `WatermarkIsStored`, `max_seq` names a stored message
  whatever fails; `OneMessagePerSeq`, only messages stored with number 0, and only
  while the index could not be built, share a number; `LogSpec`, the handler
  implements `MessageLog` (readable: stored with a number of `1 .. max_seq`; announced:
  framed to a gateway or acknowledged to Kafka by a call that got a conversation and a
  number, `Numbered`).

What the code does and no property forbids: a call whose `Malloc` or
`EnsureSeqConversation` failed announces a message nobody can read (below); and a message
that is delivered twice is stored twice, under two numbers.

## ConnManager

The table of sockets of one gateway, under any caller.

| Variable | Code |
|---|---|
| `bySnow`, `byUser`, `conns` | the three maps; a member of `Conns` is a socket, its snow id and its `WsConn` at once, because ids are generated per socket |
| `userOf` | `WsConn.UserId`, and `Authorized` where it is not empty |
| `clock`, `created` | `CreatedAt`, as the order in which connections were created |
| `expired` | `ExpireAt` has passed: `Expire` adds to it, `BindUser` and `Heartbeat` take from it |
| `closing`, `evicted`, `closed` | the sweeper's list after the unlock, the goroutines of `ensureRoomForUserLocked`, the sockets the manager closed |
| `stopped` | `stopCh` is closed |

An operation holds the mutex from its first look at a map to its last change, so it
is one step; an operation that finds nothing and returns an error changes nothing and
has no step. The loop of the sweeper over `bySnow` and the repair of `conns` inside it
end in the same place for each order of the map, which `Drop` states for the whole
set: an entry of `conns` whose connection leaves moves to any of the rest of the list,
or goes with the last. The gateway calls `AddUnauth`, `BindUser`, `RemoveBySnow`,
`Remove` and the sweeper, and sets no limit; the rest of the interface is modelled
with them. `EvictOldest` is taken to be set with a limit.

`FairSpec`: the ticker fires while the sweeper is not stopped, and goroutines with
sockets to close run.

Runs, with three sockets and two users: a user with a full list and a newcomer, a
connection that changes its user with another left behind, a sweep of two at once.
- `conns` (pass), at most two sockets per user: `IndexesAgree`;
  `RegisteredIffOpen`, a socket is in the table exactly while nobody closed it or set
  out to; `LegacyIsOwnOrMoved`, what every operation owes the older index;
  `ExpiredIsClosed`.

The older index may keep pointing at a connection that was bound to another user since;
`GetAll` reads it, so that `Relay` can only say a frame goes to connections that are or
were its addressee's.

## Relay

`Relay` extends `ConnManager` with the goroutines around its table: the consumer's
workers in `RelayMsg`, the one goroutine of `LoopRelayData`, and what happens to the
connections meanwhile (`Arrive`, `Authenticate`, `PeerLeaves`, `WriterEnds`, the
ping goroutine whose write fails, and `SweepsMeanwhile`, the manager's sweeper, which
closes working sockets too: 300 s after they came without an AUTH, 200 h after it,
since nobody calls `Heartbeat`). The gateways set no limit of connections per user
(`MaxPerUser = 0`), so that there are no evictions.

| Variable | Code |
|---|---|
| `held` | frames whose worker is inside `RelayMsg` |
| `queue` | `WsRelayBound` |
| `taken`, `frame`, `first`, `rest` | what `LoopRelayData` took out, what it is writing, and the connections still to be written to: the result of `GetAll`, the older index's entry first |
| `dead` | the goroutine panicked and its deferred `recover` ended it |
| `broken` | sockets whose writes fail |
| `sent`, `past` | history: writes, and the users each connection was bound to |

The list is taken under the manager's lock and the writes happen outside it, so each
write is a step and any operation may fall between two. A write that fails closes the
socket and removes every connection of the addressee (`Remove`). A frame with a session
id whose connection is gone ends the goroutine (`Panic`).

Fairness: the relay goroutine takes and writes; a worker's send on the channel is
strongly fair, because the runtime serves blocked senders when there is room; the ping of
a connection comes every 25 s, so that of the connections that failed one goes on.
Nothing obliges Kafka, a client or the sweeper.

Runs, with a channel of one (8192 in the code), one worker (32), a frame for all
connections of a user and one for a single connection, and two connections that may
belong to two users, one of which may be expired at a time (`MaxExpired`): a full
channel, a connection that leaves, breaks, expires or changes its user between two
writes, and a frame for one that is gone.
- `relay` (pass): `WrittenToItsAddressee`; `ClosedForItsUser`, what a failed write costs
  others whose time is not up; `RelayedUnlessDead`; `BrokenLeaves`, a socket that fails
  leaves the table though nobody tells the table directly.
- `relay_dies` (violation of `Relayed`): the panic on the nil socket ends the only
  goroutine that reads the channel; every later frame stays where it is.

## Presence

Redis as `service/storage/online.go` uses it, under any caller. Each script and each
transaction is one action, and `Tick` lets a unit of time pass.

| Variable | Redis |
|---|---|
| `unauth[c]`, `auth[u][c]` | the session keys, as the time they have left (0: no key) |
| `nidxu[c]`, `nidx[u][c]` | the scores in the gateway's index of unauthenticated sessions and in the user's index on the gateway, as the time until they are due (`NoEntry`: not a member) |
| `nidxuLeft[n]`, `nidxLeft[u][n]` | the time those indexes have left |
| `used` | snow ids generated so far |

Keeping times as what is left makes the state space finite without a bound on the clock.
It also makes one clock of two: scores are times of the gateway, keys expire by the clock
of Redis, and what is shown holds as far as the two agree.

Run, with two connections to one gateway and two users, and times of 1 to 7 in which, as
in the code, the index a heartbeat renews lives shorter than the session:
- `presence` (pass): `ListedAsItLives`, what an index says of a session is true of its
  key; `AnswersHold`, for `IsOnline` and `GetNewestSession`; `UnlistedIsQuiet`, only a
  session that missed its heartbeats for as long as one keeps an index can be missing
  from it, whatever the user's other sessions do; `OneSessionPerConn`; `UnauthIsListed`.

## GatewaySession

`GatewaySession` extends `Presence` with the sockets of a gateway: the read loop of
`HandleWS`, the handlers of CONN, AUTH and PING, and the goroutine the ping handler
starts.

| Variable | Code |
|---|---|
| `reader` | the read loop: `none`, `reading`, `binding` (between the two halves of AUTH), `done` and `lost` (ended, with its session taken offline or not) |
| `session`, `claim`, `auths` | the connection and the user the AUTH frame in work names; frames read |
| `writer`, `ping`, `missed` | ping goroutines that run, time to their tick, heartbeats in a row that Redis refused |
| `registered`, `bound` | in the connection table, `WsConn.UserId` |
| `gone` | the socket is broken |
| `granted` | history: whom `Authorize` authorised the connection for, whether or not the reply came |
| `strayed` | history: granted and not bound, or bound to another than the granted, and not renewed by a heartbeat since |
| `late` | history: bound when its own read loop had gone offline |

The two loops share the `WsConn` only: each ends on its own error and neither tells the
other, and `HandleWS` waits for a `done` nobody closes. AUTH is two steps, in the read
loop of one connection and for the session the frame names, which may be another's:
`AuthFrame` and `BindUser`. `Authorize` may also fail (`AuthLost`), having run or not,
and then nothing is bound; one whose caller gave up is taken to run before its handler
returns. The handler ignores that `Authorize` returned false, so a connection whose
session expired in Redis is bound to a user it was not authorised for.

Fairness, one weak condition for the whole system: time passes, a ticker that is due
fires or a handler that has begun ends. Time waits for the other two (a ticker is
punctual, and a mutex is all that separates the halves of AUTH), so none of them is
passed over. Nothing is assumed of clients, of breaks or of Redis.

Run, with a connection of each of two users, whose clients may name either connection in
their AUTH frames; at most two AUTH frames in all and one refused heartbeat in a row
(`MaxAuths`, `MaxMissed`). Times: a ping every 1, a session and the index a heartbeat
renews 3 (the `presence` run has the index live shorter, as in the code), an index after
an authorisation 6:
- `sessions` (pass): `BoundIsListed`, while both loops run the user is found, refused
  heartbeats included, except, by name, where it strayed; `UngrantedIsInvisible`, nobody
  is found whom `Authorize` did not grant; `OfflineStaysOffline`, the ping goroutine that
  outlives the read loop does not bring a session back, except, by name, one bound late;
  `EndedIsForgotten`, after a crash or a refused `Offline` presence forgets the connection
  in time.

## Balancer and ServiceRegistry

`Balancer` is the smooth weighted round robin of `registry.go`: `current` of each
instance and the pick of any of the highest, since Consul lists instances in no order.
`ServiceRegistry` extends it with `manager.go` over Consul, which is external: a check
passes for `TTL` after a report, is critical afterwards, and after another `Reap` the
service is deregistered.

| Variable | Code |
|---|---|
| `alive`, `mine`, `due` | nodes that run, that have the method in `methodInfos`, time to their next report |
| `name`, `passing`, `critical` | Consul: the name a service ID has, and its check |
| `watching`, `last`, `cancelled` | `st.watching`, the watch `st.cancel` cancels, contexts that are done |
| `pc`, `got`, `changed` | where each watch goroutine is, the list it holds, whether Consul's index is ahead of its own |
| `all`, `author` | `st.all` and, as history, the watch that stored it |

`UpdateMethodMetaReplace` registers the same service ID under another name than
`RegisterMethod`, which takes the node out of the list. `StopWatch` does not interrupt a
query, so a stopped goroutine may apply one more list after its successor did.

Fairness: time, reporters and goroutines go on; `Answer` is strongly fair, that is, a
query that is asked again and again is answered at last.

Run, with a node of weight 2 beside a constant instance without a weight, a TTL of 3 and
reports at most 2 apart (10 s, and 5 s with a jitter), and two watches:
- `registry` (pass): `OutOnlyAfterFailure`, punctual reports that succeed keep a node
  listed; `CacheFollows`, no change falls between two queries; `FairShares`, in each
  cycle an instance is picked as often as it weighs and is never a full turn ahead;
  `Converges`, what stays in Consul's list comes into the cache, late lists of stopped
  watches notwithstanding.

## UserSessions

`ReLoginArchiveAndReplace` and `Verify` of `user.go`, call by call. `docs` and `log` are
the collections `user_session` and `user_session_log`, `key` what Redis holds for a
token's hash (a session, `Negative` for `-`, or nothing). Logins go through `lpc`, with
`old` the session they found; checks through `cpc`, with `asks` and `sid`. `gone`,
`raced`, `seen` and `before` are history. There is no unique index, so upserts that
overlap insert a session each; a login that fails in Mongo or crashes ends where it is.
`slow` lets a Mongo deadline pass, which `Verify` takes for a session that is not there.

Fairness: a request that has begun goes on, and a `-` in Redis ends with its 30 s.

Run, with three logins on one device, two of them in one second and so with the same
token, one check, and a token that may expire (`MayExpire`):
- `users` (pass): `ReplacedIsRefused`, a check never accepts a session that was replaced
  before it began, whatever `Verify` wrote back to Redis; `LostOnlyToARace`, a session
  that is replaced without being archived was not seen by its replacer;
  `NegativeFades`, a good token is not refused for ever.

## EventStore

`AppendEvent` and the projector of `module/chatBox/store`, for one conversation. No process
of this commit calls the package; what is modelled is how its operations would behave under
any caller that follows up on numbers it was given.
`counters` is `conv_seq` (one number per document), `events` is `conversation_events` in
the order of commits, `calls` the open transactions with what their snapshot saw,
`replies` the numbers returned for each event. `pos` is how far the change stream came,
`public` and `private` are the two collections by number, and `missed` says that the
projector was down or a write failed. `Deny` says which of the four lists of `VisDeny` an
event fills in.

A counter's document is locked by the transaction that raises it; a counter that does
not exist cannot be locked, so two first transactions may make one each. An event that
is stored already takes a number all the same.

Run, with a public message that denies tags, one a deny list keeps from the customer, and
an edit, a redaction and a publication of the latter, appended by two callers in any order
and more than once (at most six numbers):
- `events` (pass), one counter: `RepliesAddressTheirEvent`, no reply names another
  event's number; `PrivateStaysPrivate`, through restarts and failed writes, nothing shows
  of a message that is not open (public without a deny list; by name also one of tags
  alone) before it is published; `TimelineIsProjection`, an undisturbed projector shows
  each message that is open or published as it was last edited (by name also blank, when
  published and not edited since), nothing of what was redacted, and no other message.
  Whether an edit that follows a redaction shows again is left open.

With two counters, which the run leaves out (`MaxCounters` is 1) and the properties
exclude by name (`OneCounter`), both of the first two events get number 1.

## Where the code parts from its comments, or from what one expects

Met while modelling. The modules do what the code does; where a property would be false
for it, the property leaves the case out under a name of its own.

| Code | It does | Comment | Name |
|---|---|---|---|
| `seq.go:45` | a `luaSetSegment` sent twice takes numbers back | `seq.go:39`, `index.go:229` | violated by `seq_resend` |
| `router.go:154` | closing a socket that is `nil` ends the relay | `router.go:153` | violated by `relay_dies` |
| `message_data_msg.go:42,59-60` | a message whose conversation or number could not be had is stored under `""` or 0; with 0 it may be acknowledged and framed to both ends | `model/seq.go:31`: the readable range is `(MinSeq, MaxSeq]` | `MsgIngest!Numbered` |
| `consumer.go:80` | the loop and its workers may wait for each other | | `KafkaConsumer!Wedged` |
| `auth.go:111-117` | an `Authorize` that ran but lost its reply leaves the connection granted and unbound | | `strayed` in `BoundIsListed` |
| `auth.go:112,119` | the session is the frame's, not the socket's: another's AUTH may bind a connection that just went offline, and its ticker then renews it | | `late` in `OfflineStaysOffline` |
| `projector.go:23` | a deny list of tags alone leaves the message public | `projector.go:19`: public and an empty deny list | `EventStore!TagsOnly` |
| `projector.go:108,170` | a published note has no content: `anyToMap` does not take the `bson.M` it was read into | `projector.go:92`: read private, write public | `EventStore!Blank` |
| `repo.go:32` | with no counter yet, two transactions may make one each | | `EventStore!OneCounter` |

## Proofs

Checked by TLAPS for every value of the constants under their assumptions. The
assumptions (`CapAssumption`, `BlockAssumption` and so on) are what the code
guarantees: positive capacities, a pool smaller than the semaphore (32 < 4096), a
block at least as long as the run asked for (`defaultBlock`), an index that does not
outlive a sweep or two lives of a session (`TTLAssumption`: 120, 300 and 3600 s),
reports closer than the check's TTL (`RegistryAssumption`), finitely many instances
with integer weights (`BalancerAssumption`), follow-ups that are about
messages (`EventAssumption`), values that are told apart (`DistinctAssumption`,
`SessionsAssumption`). TLC evaluates them in every run.

`KafkaConsumer_proofs`. `MarkedOnlyHandled` is not inductive: it needs to know where the
marks come from. The invariant adds that every offset in `pendingOK` and every
positive ack in `ackC` or `acking` belongs to an offset that succeeded in this claim;
that `next` is at least `first`, all offsets of `first .. next - 1` succeeded, and
`marked` is at most `next`; that the committed offset covers only handled ones; and
that `inflight` counts exactly the workers plus the message the loop is about to
submit. From it: `TypeCorrect`, `MarksAreHandled`, `CommitsAreHandled`, `InflightIsSlack`.
`FreshGroupNeverCommits` proves, for a group that has no committed offset, that `next`,
`marked` and `committed` stay -1 for ever.

`SeqAlloc_proofs`. The argument is that every number lives in one place. The rest of
the cached segment (`curr + 1 .. last`), the segment that each call holds between
`AllocSegment` and `SetSegment`, the segments of delayed commands, and the numbers
above `issued` are pairwise disjoint, and none contains a taken number; the ones that
may still be loaded lie within `1 .. issued`. `AllocSegment` creates a place above all others, `SetSegment`
moves one to the cache and forgets what was there, `Consume` moves numbers from the
cache to `taken`. Every grant is a set of taken numbers, so a new one is disjoint
from the old ones. From it: `SeqsAreUnique`, `WatermarksStayOrdered`, `TypeCorrect`
(with the separate fact that a call inside the loop has iterations left), and
`ImplementsIssuer`, whose step is that each transition takes a fresh run or leaves
`taken` alone.

`Relay_proofs`, first part: the table. `IndexesAgree`, `RegisteredIffOpen` and
`LegacyIsOwnOrMoved` are inductive together, once it is added that a connection that was
never added appears nowhere (`FreshIsUnknown`: else adding it could put a closed socket
in the table). The work is in two lemmas, one for the operations that put a connection
in a list (`JoinKeepsIndexes`, with the eviction that may hit the connection itself) and
one for those that take some out (`DropKeepsIndexes`). `UnlimitedListsAreLive` adds that
without a limit nothing is ever evicted, so that a list holds live connections only.

Second part: the relay. `RelayUsesTheTable` shows that `RelaySpec` implements the `Spec`
of `ConnManager`, so the table's theorems hold beside it (`TableHoldsBesideRelay`).
`FramesReachTheirUser` is about a list read under the lock and used after it, so its
invariant says where each frame is (`FramesMoveOn`: with one worker, once in the channel,
or taken), that whatever the goroutine has in hand was the addressee's at some time
(`InHand`, `BoundBefore`), and bounds what was written plus what is still to be written
(`Owed`): the only connection that can get a frame twice is the one the older index named.
`OnlyAUsersOwnAreClosed` rests on `BoundBefore` as well, and on what the sweeper has in
hand (`closing`) being expired: whatever else the manager is about to close was removed
for a user of whom a socket broke.

`MsgIngest_proofs`. Two ideas. `Numbers`: a number other than 0 belongs to one call at a
time, was taken from the allocator, and is not stored before that call inserts;
hence no two stored messages share one. `Published`: a call writes the watermark only
after its message is stored and frames it only after it is readable; hence the
watermark names a stored message and what is announced is readable. `ImplementsLog`
follows step by step: a step of a call either leaves `Readable` and `Announced` alone,
adds to `Readable`, or announces what is readable. Calls without a number announce too,
but not in `Announced`; what they store has number 0 or another conversation and so is
never in `Readable`.

`GatewaySession_proofs`, first part: the online store. An index that lists a session has
the session's own time to live, so the two expire together unless the index goes first.
That needs `IndexLasts`: the time since a session was renewed and the time its index has
left add up to at least `UserIndexTTL`; a tick moves a unit from the second to the first,
and no heartbeat or departure of another session takes the sum below it. `UnauthOutlived`
is its counterpart for the unauthenticated index. `UnusedIsUnknown` and
`OneSessionPerConn` keep a session from being authorised twice.

Second part: the gateways. `SessionsUsePresence` shows that each step of a handler, of the
ticker or of a read loop is one of the store's operations or leaves the store alone, and
`SessionsInductive` adds what the handlers know (`HandlerInv`): that an authorisation ends
the unauthenticated session for good, so a second AUTH is refused, whichever socket it
came over and whether or not the first reply was lost; and that a grant that is neither bound nor strayed is with the one handler that is about to bind it
(`Pending`). From it `OnlyGrantedAreVisible` and `NothingRevives`. `ServedAreFound` adds up
time: a session that is served and did not stray is no older than the heartbeats refused
since its last renewal and the time its ticker has run (`ServedIsRenewed`); a heartbeat
that finds the session renews it and ends the straying. It has a hypothesis, `HeartbeatsOutrun`: `MaxMissed + 1` intervals
are shorter than the life of a session and of its index. The code has no such check; it
holds for an interval of 25 s against 120 s with up to three refusals in a row, and for
the constants of `sessions.cfg`. With more refusals the session expires and the
statement is false.

`UserSessions_proofs`. A login that has not inserted yet is not in `docs` and was never
replaced (`NotYet`), so a session does not come back; a check that accepts or fills
holds a session of its own token that was not replaced when it began (`HoldsItsOwn`); a
login that saw one session has archived it before it replaces it (`SeenIsArchived`).

`EventStore_proofs`. While there is one counter, no event and no reply is above it
(`LogInv`), so a transaction's number is new; a follow-up names a number that was
returned for its target, so with the uniqueness of replies it changes only documents
of its own message (`AboutItsMessage`), and a document gets into the public collection
only with a public message or a publication.

`TimelineFollowsTheLog` needs more than `Readable`, which is what the customer may read and
no invariant by itself. `Follows` says of a number exactly what is there: its message is the
one entry of the log that made it, its content that of the last edit or redaction since it
became visible, and it is visible from the first publication if the message is for
agents. `ProjectionInv` says that every number follows the log up to `pos`, unless an
event was missed. Commits append to the log without changing what was read
(`CommitGrows`); a step of the projector reads the next entry, which changes one number
(`MessageFollows`, `ChangeFollows`, `PublishFollows`) and no other (`FollowsUntouched`).
At the end `SeenIsReadable` and `FollowsIsShown` lead back to `Readable`; `PublicIsOpen` is
where the lists `isPublic` looks at meet the four there are.

`ServiceRegistry_proofs`. `ReportedInTime`: the check of a node that has reported passes
for longer than the next report is away. `IndexIsOfList`: a watch whose index is
current holds the current list, or has stored it.

`EveryInstanceGetsItsShare` is about the balancer under every list the watches apply. The
invariant has the currents add up to 0 (`AddUpToZero`) and each of them above minus the
total (`Settled`). The raised currents then add up to the total, so the one picked, being
highest, is positive and stays above minus the total when it is lowered. When the turns
of a cycle are used up, each current is a multiple of the total; above minus the total
that is at least 0, and as they add up to 0 all of them are: every instance was picked as
often as it weighs. Sums would call for induction over sets, and the library's induction
theorems cannot be used. `SubsetInduction` states it for a set of subsets instead of a
predicate, from the least cardinality of a counterexample (`LeastNumber`); `IsSum` is a sum
that may be unfolded at any element, `SumExists` that there is one, and `SumOfFold` that
`MapThenSumSet` of the community modules, which chooses the order, agrees with it.

Only model-checked: liveness, which TLAPS does not reach. `PrefixGetsMarked`,
`ExpiredIsClosed`, `EndedIsForgotten`, `RelayedUnlessDead`, `BrokenLeaves`, `Converges` and
`NegativeFades` hold on the instances of the runs. The two properties that runs violate
stay with TLC, which shows the counterexample.

## Bounds

What would grow without end is capped by a constant that is a guard of the action that
would pass it: `LogSize` and `MaxClaims` (KafkaConsumer), `MaxIssued`, `MaxCalls` and
`MaxResends` (SeqAlloc), `MaxSeq`, `MaxDeliveries` and `MaxFaults` (MsgIngest),
`MaxMissed` and `MaxAuths` (GatewaySession), `MaxExpired` (Relay), `MayExpire` (UserSessions), `MaxCounters`
and `MaxSeq` (EventStore). Connections, logins and watches are used once each, so their
sets are bounds too. `RelayCap` and `Workers` are the code's own capacities, made small.
Times are counted down and need no bound.

TLC's deadlock check is off where a run stops because its bounds or its finite inputs
are used up (`consumer`, `seqalloc`, `seq_resend`, `ingest`, `relay`, `relay_dies`). The
states in which the code itself stops are in the properties: the consumer's `Wedged` is
an excuse of `PrefixGetsMarked`, the relay's `dead` that of `RelayedUnlessDead`.

## Not modelled

- The NATS bus, the client acknowledgement handler, `ClientMsgIndex`, the offline queue,
  `redis_presence.go`, the gateway's gRPC stream (`routerConn`) and `fanout.go`: no
  process of this commit starts or calls them. The gateway control service reads a
  registry nothing is added to, and the RPC manager serves calls to it.
- The offline queue is worth a module as soon as something calls it: `FetchOffline` reads
  and trims in two commands, a fetch of the whole list trims nothing (`LTRIM 0 -1`), and
  a batch comes newest first.
- The MongoDB manager: start-up, a ready channel and a reconnect. The modules take Mongo
  commands that may fail at any time. To be looked at: `NewMongoDB` connects twice,
  drops the error of the second time and then uses its client (mongo.go:99).
- Snowflake ids: the members of `Conns` and the ids of events are taken to be unique.
- In modelled components: `Send`, `SendOne` and `BroadcastUser` of the connection
  manager, which iterate over a map after the unlock and change nothing; the DATA and
  RELAY handlers of a gateway, which pick a topic and produce, and the queues before its
  handlers; the filtered `Pick`, which builds a balancer for one call; `methodsvc`, a
  wrapper; registration and the password check of `Login`; the queries of `api.go`.
- Generated protobuf code (most of the lines of the repository), configuration, logging,
  error types, JWT signing and HTTP filters, document types, process mains, and the
  wrappers of the Mongo and Nacos clients: they keep no state that interacts, or only
  pass it on.
