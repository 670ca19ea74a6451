# Verification of sdk-dslink-c

This directory holds TLA+ models of the DSLink broker and SDK in this repository, the
TLC configurations that model-check them, and proofs that TLAPS checks. All source
paths are relative to `src/`.

## 1. The system

The repository holds a DSA *broker* (`broker/`) and the C *SDK* (`sdk/`) that dslinks
and the broker are built from. Dslinks connect to the broker over a websocket. A dslink
may be a *requester* (it lists nodes, subscribes to values, invokes actions, sets
values) or a *responder* (it owns nodes), or both. The broker owns nodes of its own
(`/data`, `/sys`) and forwards what concerns the nodes of a responder
(`/downstream/<name>/...`, `/upstream/<name>/...`) to that responder.

Broker and SDK each run on one libuv loop, with `UV_THREADPOOL_SIZE=1`. A handler is
therefore atomic; what interleaves is handlers, timers, socket events, asynchronous
file operations of the storage, and the processes at the two ends of a socket.

| Component | Files | State | Operations | Interacts with |
|---|---|---|---|---|
| Subscription delivery and qos | `subscription.c`, `msg_subscribe.c`, `msg_unsubscribe.c`, part of `remote_dslink.c` and `node_serialization.c` | `req_sub_paths`, `req_sub_sids`, a `SubRequester` each (sid, qos, message queue, send-window counter, qosQueue), `pendingAcks` of the link's node | subscribe, unsubscribe, value update, ack, link up, link down, reload | sub streams, storage, ws |
| Remote sub streams | `stream.c`, `node.c`, `msg_subscribe.c` | `BrokerSubStream` (respSid, respQos, requesters), `resp_sub_streams`, `remote_pending_sub`, `local_pending_sub` | subscribe through, update, responder connects and leaves | subscription delivery, links |
| List streams | `msg_list.c`, `msg_list_remote.c`, `stream.c` | `BrokerListStream` (clients, cache, responder rid), link stream tables | list, close, update, responder connects and leaves | node tree, links |
| Invoke streams | `msg_invoke.c`, `msg_close.c`, `stream.c` | `BrokerInvokeStream` with one rid on each side | invoke, response, close from either side, link lost | links |
| Message handling | `msg_handler.c`, `msg_set.c`, `msg_remove.c`, `net/ws.c`, `net/ws_handler.c` | `msgId`, ping timer | dispatch, ack, frame receive and send | all of the above |
| Links | `handshake.c`, `broker.c`, `remote_dslink.c` | `client_connecting`, `node->link` | conn request, ws upgrade, duplicate connect, close | tokens, node tree, streams |
| Node tree and data nodes | `node/*.c`, `data/*.c` | children, values, attributes | create, delete, update value, save timer | list and sub streams |
| Storage | `sdk/src/storage/json_file.c`, `storage.c` | group, key and value table, one save chain per key | push, pull, store, traverse, destroy | subscription delivery |
| Permissions | `permission/permission.c`, `sys/permission_action.c` | permission lists of virtual nodes, groups of a link | resolve, set | every request |
| Upstream | `upstream/*.c` | an outgoing link per upstream node, poll and timer handles | connect, handshake, reconnect, stop | links |
| System actions | `sys/*.c` | tokens, throughput counters | add, remove, regenerate token, clear connections | links, node tree |
| Query | `query/query.c` | a query per invoke stream | parse, list and subscribe the matches | list and sub streams |
| Config and HTTP | `config.c`, `net/server.c`, `net/http.c` | limits, listening sockets | start, accept, parse | links |
| Collections | `sdk/src/col/*.c` | ring buffer, vector, map, list | push, pop, search, erase | all |
| SDK link | `sdk/src/dslink.c`, `ws.c`, `handshake.c`, `requester.c`, `node.c`, `msg/*.c` | vector of tasks from other threads, request and stream tables, node tree of the responder | connect and reconnect, asynchronous calls from other threads, requests and responses | the broker |

### What is hard here

* *Acks and the send window.* Four pieces of state have to move together for every
  subscription: the ring of queued messages, the id in each entry, the counter
  `messageOutputQueueCount` and the vector `pendingAcks`. They are changed by value
  updates, acks, overflow, resubscription and the end of a session.
* *Sessions.* Message ids start again with every connection, while subscriptions of
  qos 2 and 3 and their queues live on. Restart of the broker keeps what the storage
  holds.
* *Identity.* The same subscription is known by a path, by a sid chosen by the client
  (which may be used again for another path) and by a sid chosen by the broker.
* *Streams with two ends.* List and invoke streams end from either side, or because
  either link is lost, in any order.
* *Asynchronous saves.* A store is a chain of file operations; another store or a
  delete of the same key may come in between.
* *Delayed saves.* Data nodes, permission lists and downstream nodes are saved 100 ms after a change, values at once.
* *Connection attempts.* An upstream connection goes through four states, each with a handle of its own that the next
  state, or a failure, has to stop.
* *Threads.* The SDK's thread-safe calls meet the loop in one vector, whose locks do nothing unless the application
  replaces them.

### What makes each component correct

* Delivery: values in the order written, none lost while the client acknowledges and the
  ring does not overflow, the counter equal to the pending acks, no id of an old session,
  no sid at a freed subscription, a stored record that mirrors the qosQueue, and a file that gives it back after a
  restart once its save has ended.
* Sub streams: a responder is asked for exactly the paths somebody subscribes, at the
  highest qos asked for, also after it connects again.
* List streams: every requester sees the current children and attributes, also when it
  joins late; one list request per remote path.
* Invoke: each of the two rids is freed once; a closed stream sends no more.
* Links: at most one live link per node; the link of an older session never touches the
  newer one.
* Storage: what is read after a restart is a value once stored, and the last one when
  the chain ended.
* Data nodes: a value that was set is on disk, a restart restores the nodes and their permission lists, a
  subscription waits only for a node that is not there (or that the code skipped when it came, section 5).
* Permissions: a list can add to what the lists above it grant, and never takes away; the link of a node acts with the
  groups the node has now.
* Upstream: each enabled upstream broker has one poll with one armed handle of the event loop, whatever fails; polls and
  files follow the configuration.
* SDK: a request gets its callback at most once per response; asynchronous calls run on
  the loop in their order.

## 2. Modules

### SubDelivery

Delivery of value updates from the broker to one requester, whose subscriptions are to
value nodes of the broker. For such a node the sub stream exists exactly while the path
is subscribed, and its `last_value` is the value of the node, so neither needs a
variable of its own.

| Variable | Code |
|---|---|
| `link` | `node->link` is not NULL |
| `live`, `sub` | `req_sub_paths` and the `SubRequester` of each path |
| `sids` | `req_sub_sids` |
| `sub[p].queue` | `messageQueue`, each entry with its `msg_id` (0: not sent) |
| `sub[p].out` | `messageOutputQueueCount`, an unsigned number that wraps at `CountMax` |
| `sub[p].pend` | the entries of `pendingAcks` for this subscription |
| `freed` | entries of `pendingAcks` whose subscription has been freed |
| `store` | `store->root` of the qos storage: the record of each path |
| `file` | what the file of each record may hold at this moment: a set of contents |
| `value` | the value of the node; values are numbered 1, 2, ... in the order they are written |
| `wire` | the messages sent in this session; position i is `msg` i |
| `acked`, `ackUpTo` | the highest ack received; the ack that `check_subscription_ack` is working on |

`sub[p].owed`, `sub[p].got` and `written` are history: the values handed to the
subscription, those that the client acknowledged, and how many values were written.

| Action | Code |
|---|---|
| `Publish` | `broker_node_update_value` down to `broker_update_sub_req` |
| `Subscribe` (`SubscribeSame`, `Resubscribe`, `SubscribeNew`) | `handle_subscribe`, the closed response included |
| `Unsubscribe` | `handle_unsubscribe` |
| `Ack`, `AckStep` | `check_subscription_ack`: the search, then one step for each iteration of its loop |
| `Connect`, `Disconnect` | `broker_dslink_connect`; `broker_remote_dslink_free` |
| `SaveEnds` | the last file operation of the saves of a record ends |
| `Restart` | the process stops at any moment; `broker_load_qos_storage` reads the files |

The functions in between (`SendQueued`, `UpdateSubReq`, `UpdateSubQos`, ...) are operators
on a record of the subscription, the session log, the stored record and its file, so that an
action is the composition of the calls its handler makes.

`serialize_qos_queue` changes `store->root` in the handler, but the file only in a chain of
file operations that `json_storage_trigger_save` starts: it is truncated, then written, and the next store may
begin another chain before. JsonStorage has these chains in detail. Here `file` is the set of
contents a restart could find: during a save the old record, nothing (truncated), or the new one; of
overlapping saves also `Torn`, a shorter record with the tail of a longer one behind it, which does not parse.
`SaveEnds` picks the one that stays. A restart that finds nothing, or a file that does not parse, has no
subscription: the value is lost, which the code does not prevent (section 5).

A requester is assumed to be in `conns.json` when its records are loaded, and its node is not freed by `clear_conns`
while it is away (SubStreams has both).

Memory that is used after it is freed appears in one place. When a subscription without
a message queue (qos 3) is freed, its entries of `pendingAcks` stay. They are kept in
`freed`, and a new `SubRequester` either gets that block of memory, and with it the
entries, or does not.

The operators whose comment starts with `Mutant` are not part of the specification. Each
is an altered form of the operator that follows it, with one plausible mistake (a
dropped guard, a missing reset, a swapped order); put in its place, it breaks the
property it was written for. They document what each property is sensitive to.

### Runs of SubDelivery

| Run | Question | Bounds |
|---|---|---|
| `sub_queue` | Does the queue keep its shape, are values in order, is none lost, does the queue drain? (`QueueShape`, which also says that no id outlives its session, `InOrder`, `NothingLost`, `QueueDrains`) | one path, two sids, qos 0 and 2, ring 3, window 2, 5 values, 4 messages a session; acks one by one, no overflow |
| `sub_two` | Do sids stay right when two paths contend for them, and does the counter stay equal to the pending acks under cumulative acks and overflow? (`SidTable`, `AckAccounting`, `Addressed`) | two paths, two sids, qos 0 and 2, ring 2, window 2, 3 values, 3 messages |
| `sub_qos3` | Does the store mirror the qosQueue, is a kept value only given up for a message, and does a restart keep it once its save has ended? (`StoreMirrors`, `KeptUntilSent`) | two paths, one sid, qos 2 and 3, ring 2, 2 values, one message a session, 4 contents of files at a time, restarts at any moment of a save |
| `sub_order` | Does the order survive a cumulative ack? It does not: see section 5 | one path, ring 4, window 2 |

A window of 2 and a ring of 3 are the smallest with a part in flight of more than one
message and an unsent part behind it. Five values fill the ring and go past it. Two
sids are enough for a move, and two paths for a collision. `MaxValue` bounds the values
written to a node, `MaxMsgs` the session in which requests are taken (value updates
and queued sends may make the log longer). `CountMax` stands for `UINT32_MAX`; a wrapped
counter is far outside the window in the model as in the code. `MaxContents` bounds what the files may hold
when a value or a request comes: four allow a save under way for each of two paths, or two overlapping saves of one. `sub_qos3`
compares states without the histories `owed` and `got` (`WithoutHistory`), which none of its properties reads.

`CumulativeAcks` and `MayOverflow` are assumptions about the environment, not the code.
The client of this SDK acknowledges each message in turn (`sdk/src/ws.c:355-364`); the
broker accepts acks that cover more (`subscription.c:69`). With cumulative acks or an
overflowing ring the queue need not drain, and values are lost by design, so `QueueDrains`
and `NothingLost` are checked without them.

Fairness: `WF(AckStep)`, because a handler runs to its end, and `WF(Ack)`, because the
client answers every message that holds requests or responses with an ack. The client is
not assumed to subscribe, publish or connect.

### SubStreams

The responder's side of subscriptions: several requesters, one remote responder, both ends
of its connection. Requests (`toResp`) and updates (`fromResp`) travel over FIFO channels that
are lost with the connection.

| Variable | Code |
|---|---|
| `known`, `up`, `rup` | the responder has a `DownstreamNode`; its `link`; the connected requesters |
| `sub` | the `SubRequester` of a requester and a path |
| `stream` | `resp_sub_streams` and `resp_sub_sids`: the `BrokerSubStream` of a path (sid, qos, requesters, last value) |
| `pending` | `remote_pending_sub` of the responder |
| `sid` | `node->sid` |
| `pathSub`, `sidSub` | the SDK's `value_path_subs` and `value_sid_subs` |
| `val`, `count` | the responder's nodes; how many values it has published |

The broker's functions (`UpdateStreamQos`, `SubscribeRemote`, `FreeSub`, ...) are operators on a
record of its variables; actions are the handlers: subscribe (new, or a change of qos), unsubscribe,
requester leaves or comes back, responder connects, disconnects or is cleared, update, and a restart of the
broker that keeps what was serialized. The SDK's end handles requests and publishes values. Where the code walks a map or a list and
calls a function for each entry, the model has a recursive function over the entries in some order (`Freed`, `Joined`); `Asks` is the burst of
requests that a responder gets when it connects. `WillUse` says what the responder makes of its tables and the requests under way.

`clear_conns` frees the node of every dslink that is absent. With the node of a requester go the subscriptions of qos 2 it
left behind (`node.c:267`), whether the responder is connected or not: `ClearConns` frees them one by one in any order (`Freed`), which may end
streams and lower their qos. With the node of the responder go its streams, and the remaining subscriptions wait again (`NodeFreed`).
`clear_conns` and `broker_node_free` remove entries of the maps they iterate (`node.c:267-273`).
The model takes the outcome in which the iteration survives; a crash at any
moment is `Restart`. qos 3 (the storage) is in SubDelivery only.

Run `streams`: two requesters, two paths, three sids, two values, one message under way in a direction
when a handler starts. Two requesters and two paths are the smallest instance with a stream that is
shared and a sid that is used again for another path; three sids allow a path to be subscribed, left
and subscribed again. It checks that a subscription is in exactly one place (`InOnePlace`), that the
responder's tables follow the streams and a stream's qos covers that of each of its requesters (`ResponderInStep`), that a
value never reaches another path's subscription (`RightPath`), that everybody has the present value when nothing is under way (`QuietIsCurrent`) and that no subscription goes back to an older
value (`NeverBack`).

### ListStreams

Lists of nodes of the broker (`Local`) and of one responder (`Remote`).

| Variable | Code |
|---|---|
| `node`, `link`, `nodeRid` | the responder's `DownstreamNode`, its `link` and `rid` |
| `virtual` | `children_permissions`: the keys below which an attribute is kept |
| `stream` | `list_streams` of the node and `list_stream` of a local node: responder rid, `requester_links`, `updates_cache` |
| `reqTab`, `respTab` | `requester_streams` of each requester, `responder_streams` of the responder's link |
| `toBroker`, `toReq`, `toResp`, `fromResp` | messages under way |
| `content` | children and attributes of every node |
| `open`, `subs` | the SDK's `open_streams` and `list_subs` |
| `view` | what a requester knows of each rid |
| `lost` | history: lists whose stream was freed with the node of the responder |

A cache is abstracted to three facts: whether it begins with `$base` or `$is`, whether it holds
`$disconnectedTs`, and its other names. Messages carry the same.

| Action | Code |
|---|---|
| `ClientList`, `ClientClose`, `Receive` | `dslink_requester_list`, `dslink_requester_close`, `dslink_response_handle` |
| `JoinList`, `RefuseList` | `broker_msg_handle_list`, `broker_list_self`, `broker_list_dslink` |
| `CloseList`, `Disconnect` | `broker_msg_handle_close`; `broker_remote_dslink_free`, both through `requester_stream_closed` |
| `ListResponse` | `broker_list_dslink_response` |
| `RespConnect`, `RespDisconnect`, `FreeNode` | `broker_dslink_connect`, `broker_dslink_disconnect`, `clear_conns` with `broker_node_free` |
| `SetAttribute`, `LocalChange` | `broker_msg_check_set_arrtribtues`, `broker_msg_handle_remove`; changes of local nodes |
| `RespList`, `RespClose`, `RespChange` | the SDK's `dslink_response_list`, close, and changes of its nodes |

Maps are iterated in any order (`Orders`). A requester that is away and one that has just connected are the
same state. What `cache_sent` would select is not in the model: nothing in the repository
sets it, so the whole cache is sent after every response, and a removal is told by what the
cache, which starts with `$base` or `$is`, no longer holds. A requester therefore starts anew
at either, as the broker itself does at `msg_list_remote.c:122-145`. That is an assumption about the requester's application: the
SDK hands it the updates as they are.

Assumptions: the listed nodes exist at the responder (the SDK sends no answer for a missing one);
requesters use a rid once in a session (`dslink_requester_incr_rid`); the responder is not one of the
requesters; nodes of the broker are not removed; whether a request is permitted is a nondeterministic
choice. The root path of the responder, to which the broker adds link data and groups, and the static
lists below `/defs` are left out.

| Run | Question | Bounds |
|---|---|---|
| `lists` | Do the tables of both ends agree (`TablesAgree`, `ResponderInStep`), and does every list show what its node has when nothing is under way (`QuietIsCurrent`)? | two requesters, two rids, a local and a remote path, one name, two lists at a time, two rids at the responder, two messages under way when one is added |

Two lists at a time are the smallest with a stream that is shared, with a late joiner, and with a
second list of the same path by one requester. Two rids at the responder allow one reconnection, after
which the old rid must not be used. `QuietIsCurrent` exempts `lost` lists: after `clear_conns` their
requesters are told nothing and the lists go silent, which is how the code is.

### InvokeStreams

Invocations between dslinks, each of which may be requester and responder, also of its own actions.

| Variable | Code |
|---|---|
| `streams` | the allocated `BrokerInvokeStream`s: requester and its rid, responder and its rid |
| `reqTab`, `respTab` | `requester_streams` and `responder_streams` of each link |
| `nodeRid` | `node->rid` |
| `toBroker`, `toLink` | messages under way in the two directions of a connection |
| `client` | what a requester knows of each rid |
| `active`, `ended` | the responder's `open_streams` and those its application has ended |

Actions: `ForwardInvoke`, `ReplaceInvoke`, `RefuseInvoke` (`broker_msg_handle_invoke`), `CloseStream`
(`broker_msg_handle_close`), `ForwardResponse` (`broker_handle_resp`), `Connect`, `Disconnect` (both loops of
`broker_remote_dslink_free`), and the SDK's ends. The links in `SdkLinks` use a rid once a session, as
this SDK does; the others may use it again while its invocation is open, which the broker handles at
`msg_invoke.c:119`.

Run `invoke`: two links, of which one is of this SDK; two rids each; two rids of the broker per responder and two
invocations. A second invocation is enough for a rid that is used again and for two streams of one link, whose
loss ends both. A permission that is not enough is a nondeterministic refusal. Invocations of the
broker's own actions, and the continuous invoke of a query, are not modelled. The
loss of a connection is seen by both its ends in one step: what is under way is gone at that moment.

### Links, Sessions and TokenCounts

How a dslink gets a session: a conn request over HTTP, answered with a salt and a path, then a ws request on a second
socket, whose `auth` proves the salt and which becomes the session; and all again, five seconds after every failure. It
is also the life of the `DownstreamNode`s, from which names are given. `Sessions` holds what the broker keeps of its dslinks and the properties of it,
`TokenCounts` the counts of tokens; `Links` extends both with the dslinks, the messages and the actions.

| Variable | Code |
|---|---|
| `byDsId`, `byName` | `client_connecting`, which holds every attempt under its dsId and under its name |
| `links` | the `RemoteDSLink`s. A salt stands for the link it was made for: `auth` of a ws request is right exactly if the salt is |
| `nodes` | `broker->downstream->children`: `dsId`, `link`, and `$$dsId` and `$$token` of `meta` |
| `saving`, `conns` | `saveConnsHandler` is running; `conns.json` |
| `tokens`, `tokenFiles` | `$$count` of the children of `/sys/tokens/root`; their files. These, `used` and the functions of token.c that count are in `TokenCounts` |
| `tokensOn`, `listed` | `broker_enable_token`; `broker->downstream->list_stream` is there |
| `overtaken`, `orphans` | history: an attempt was given the name of another one; the sessions whose node was given up while they went on |
| `phase`, `reply` | where the dslink is in `dslink_init_do`; the answer on its way to it |
| `requests` | HTTP requests on their way, those of a dslink that was killed included |

| Action | Code |
|---|---|
| `HandleConn`, `HandleWs` | `handle_conn` and `handle_ws` with their `broker_handshake_*` functions |
| `LinkEnds`, `LinkSilent` | a read of zero bytes or an error, then `broker_close_link`; `dslink_handle_ping` |
| `ClearConns`, `DeleteToken` | the two system actions |
| `ListDownstream` | somebody begins or ends to list `/downstream` (`msg_list.c:245, 78`); with tokens only, because nothing else reads it |
| `Save`, `Restart` | `broker_save_downstream_nodes`; the process stops, then `load_tokens` and `broker_load_downstream_nodes` |
| `SendConn`, `ConnAnswer`, `WsAnswer`, `SocketEnds`, `Quit` | the steps of `dslink_init_do`; `Quit` is a kill, or a socket the dslink gives up |

`HandleConn` and `HandleWs` are atomic because the broker reads, handles and answers a request in one callback. What
interleaves is the two requests of an attempt with those of other attempts of the same dslink (after `Quit` the old ones
may still arrive) and of other dslinks, with closes, and with the save timer.

The names a dslink may get are, by `handshake.c:133-136`, its dsId `p-xyz...` without the hash and the dash, then with the dash, then with one more
character of the hash each: `p`, `p-`, `p-x`, ..., the whole dsId at last. Two dslinks of one prefix therefore share at least two names.
`NameIndex` is the search of lines 138-164: a name that is connecting for another dslink is skipped, and the next one is looked up among the nodes, but
not in `client_connecting`. With three dslinks of one prefix an attempt can so be given the name of another one, whose
entry is overwritten; `overtaken` says that this has happened, and what follows is not claimed.

Run `links`: two dslinks of one prefix whose hashes begin differently (`p`, `p-`, then `pa` or `pb`),
one token that may be used once and one without a count which is managed, two faults (kills, silent links,
`clearConns`, a deleted token, restarts), five salts. Two dslinks are the smallest with a contended name;
two faults are enough for a request of a killed attempt to arrive between the two of the next one, and for a second
failure on top. Two dslinks do not overtake each other: for one that is connecting there is one name to skip. It checks:

* `AttemptsAgree`: unless overtaken, the two entries of `client_connecting` and the attempts match; none is left behind.
* `SessionsAgree`: unless overtaken, an open link and the `link` of the node with its name point at each other, and the node is the dslink's own.
  The code breaks the first for a session whose node is given up by a conn request with a token while `/downstream` is listed, and for
  one whose node is detached when such a session ends (section 5). Exactly these sessions are in `orphans`, until they end; a listing that has
  ended since does not matter.
* `NodesSaved`: unless overtaken and without tokens, `conns.json` mirrors the nodes whenever no save is due.
* `TokenUses`: a token is not used more often than its count, restarts included.
* `Reconnects`: without tokens, when the faults are over every dslink gets its session and keeps it. With tokens it need not: a count may
  be used up by attempts.

Fairness (`FairSpec`): the loop of the broker comes to each request and each ended socket; a dslink goes on with its steps and
retries after five seconds for ever (`dslink.c:704`).

Not in the model: malformed requests and failing allocations; `dslink_close` (a dslink that stops for good); two processes with one dsId;
adding a token, the file `append`, and `$$group`; a storage path other than the working directory
(tokens are saved there, but looked up in `token/`).

### JsonStorage

The asynchronous saves of `json_file.c`. `mem` is `store->root`, `file` the files; `pool` and `done` are the
operations that wait for the worker thread and the callbacks that wait for the loop; `queue`, `waiting` and `timer` are
`save_queue`, `waiting` and `timer_setup`. `Store`, `Delete`, `Push`, `Pull` and `Tick` are the calls; `PoolStep` and `Callback` the two
threads; `Restart` is the end of the process at any moment followed by `json_storage_load`. A value is
a version and a size, because a write over a longer content leaves a tail.

Run `stores`: two keys, three changes, three chains, values of two sizes. Deletes and values that get shorter
break some of what one would expect (section 5), so the history variable `plain` holds while neither has happened:

* `LastWriteWins`: when the chains of a key have ended, the value its file took last is the record in memory; and unless the key is
  `raced`, a restart would read exactly this record from the file, or none if it was deleted. `raced` is history: the key's last
  save was of a value shorter than one that was still under way, whose tail may stay behind it, or its last delete came while a save was under way, which
  makes the file again. A later save or delete with nothing under way ends the race.
* `WaitingCovered`: while `plain`, the counter that holds the save timer back is covered by chains under way.
* `RestartKeeps`: while `plain`, a record without a chain under way is found by a restart.
* `QueueSaved`: while `plain`, what is in the save queue is saved by a tick.

Three chains are needed for two overlapping saves of a key next to one of another. Fairness
(`FairSpec`): the worker and the loop go on, and the timer, which is a repeating one, fires again. File operations are assumed
not to fail; that the names of a group and a key are joined to one entry of the save queue (so that two pairs may collide), and
`destroy_group`, are not modelled.

### Upstream

The broker's connections to other brokers. `config` is `/sys/upstream`, `files` its files, `poll` the
`UpstreamPoll` of each node of `/upstream`: its status, its armed handles (`on`), its link and the delay before the next
attempt. The name of an entry and the value of its child `name` are two things, which the code confuses.

| Action | Code |
|---|---|
| `Retry`, `CheckConn`, `Answer` | the callbacks of the three handles before the websocket: `upstrem_handle_reconnect`, `upstream_check_conn`, `connect_conn_callback` with `upstream_handshake_handle_ws` |
| `IoFails`, `Silent` | `upstream_io_handler` with a failed socket; `dslink_handle_ping` after 90 seconds |
| `Add`, `SetEnabled`, `SetName`, `Delete` | `add_upstream_invoke`, `upstream_enable_changed`, a set on the child `name`, `delete_upstream_invoke` |
| `Restart` | the process stops; `init_sys_upstream_node` and `load_upstreams` |

Run `upstream`: two names, four failures or restarts, delays of one and two. Two names are the smallest set in which a
rename can hit another entry; four failures let every state fail, and one fail again after a restart.

* `OneHandle`: a poll has exactly the handle of its status, so it neither tries twice at once nor stops trying, and the node
  has its link exactly while the websocket is polled. A poll that the code drops is exempted: an answer without `wsUri`,
  `tempKey` or `salt` (`upstream_handshake.c:264`), and a silent link (`handshake.c:271`).
* `ConfigFollowed`: until a name is set, files and polls follow the configuration, also after a restart.
* `ComesUp`: an upstream that stays enabled is connected in the end, unless it was dropped.

Fairness (`FairSpec`): timers fire, and an upstream broker that took a connection answers or closes it. Failures are bounded,
so that attempts succeed in the end. What streams do when the link of the upstream node comes and goes is as for
a `DownstreamNode` (SubStreams, ListStreams).

### DataNodes

The nodes below `/data` with their files and subscriptions, and the permission lists and groups every request is checked
against.

| Variable | Code |
|---|---|
| `nodes`, `value` | the nodes below `/data` and their values |
| `file`, `saved`, `due` | the value files of `data/`; `data.json`; `saveDataHandler` is running |
| `list`, `listed` | `permissionList` of every path; nodes that loading gave a child `?permissions` |
| `group`, `meta`, `session` | `node->groups`, `$$group` of the dslink's node; the groups of the node's link |
| `orphans` | the groups of links that lost the node (`handshake.c:192`) and go on |
| `publishers` | the groups of links with an open invocation of `/data/publish` |
| `conns`, `dueConns` | `conns.json`; `saveConnsHandler` is running |
| `sub`, `got` | a subscription by path: waiting in `local_pending_sub` or joined; the value it was sent |

Whoever has invoked `/data/publish` goes on publishing through the open stream, without another look at its permission (`data.c:236-275`), until its link
ends. `stray`, `published` and `skipped` are history: they name the nodes for which the code does not keep a promise (section 5).

| Action | Code |
|---|---|
| `Set`, `Publish` | `broker_msg_handle_set`, `on_publish_invoked` and its continuous form, both with `broker_create_dynamic_data_node` |
| `AddNode`, `DeleteNode` | `on_add_node_invoked`, `on_add_value_invoked`; `on_delete_node_invoked` |
| `SetList`, `UpdateGroup` | `update_permissions` with `set_permission_list`; `update_permission_group`, which closes the node's link only |
| `TokenGroup` | a granted conn request with a token: its `$$group`, if it has one, and, while `/downstream` is listed, the node taken from its link |
| `OrphanEnds` | `broker_close_link` of a link that lost the node: it takes the node from the present link as well, if it finds it by name |
| `Subscribe`, `Unsubscribe`, `Connect`, `Disconnect` | `broker_add_new_subscription`, `broker_free_sub_requester`, the session of the dslink |
| `Save`, `SaveConns`, `Restart` | the two save timers; the process stops, then both files, the values and the lists are loaded |

`Levels` descends from the root to every path (`get_permission`) and applies `Raised` at each: a list can only raise the levels,
`CONFIG` for one group ends the descent, and the highest level of the groups counts. It and `Above`, the paths above a path, are
recursive functions on the tree of paths; `ParentsEnd` says that going up from any path ends (a path above another is shorter).

Run `data`: `/data/a` with `/data/a/b` below it, a virtual node of a dslink, an operator and a dslink, one group, two permission
lists, four operations. One node below another is needed for a delete that takes a node with it, and for a set that makes
two nodes; four operations are enough to set a list, load it by a restart and change something again.

* `ValuesOnDisk`: a value that was set is in its file at every moment, and a file does not outlive a node that was deleted by
  name.
* `RestartRestores`: once saved, a restart has every node with its permission list, brings no deleted node back but those
  that stray files call for, and gives the dslink's node the group it was given last, by an action or by a token.
* `SubsAttached`: a subscription waits only while its node does not exist, and has its value. It exempts the node that a set makes
  for a subscription that waits for it (`skipped`), which the code leaves waiting (section 5).
* `GrantsReachDown`: nobody may do less at a path than above it.
* `SessionGroups`: the link that a node has acts with the groups the node has now. A link that lost its node acts with its old ones until it ends (section 5).

Each file is written in one step. The limit `permit` of a request and subscriptions that outlive the broker are left out.

### Ringbuffer, BoundedQueue and AsyncTasks

`Ringbuffer` has the code's index arithmetic with its case distinctions; `effect` is what the last call returned
and released. `BoundedQueue` is what `ringbuffer.h` promises. The property `IsBoundedQueue` is the refinement, with the contents
in the order of `rb_at` as the queue.

`AsyncTasks` is the thread-safe API (`dslink_run_safe` and the others). A call copies its task into the vector (`Copy`), then counts
it and wakes the loop (`Count`); the loop swaps the vector (`Process`) and runs the tasks (`Run`), whose callbacks may call the API
again; it is away between two connections (`Reconnect`). `lock_tasks_data` does nothing, so the two halves of a call interleave
with other calls and the swap, and the increment of the size may work on a value read before. `overlapped` is history: that has
happened. `TasksKept` says that otherwise no task is lost, reordered or run twice, and none waits without a wakeup.

Run `queues` (MCQueues) checks both. They share nothing, so each is explored while the other is at its start, which adds
their states instead of multiplying them. Four slots and three elements are the smallest ring at which the front, the middle and
the wrapped part differ; two threads, callbacks and four tasks allow a vector that is filled while another is being worked on.

## 3. Proofs

The proofs hold for all values of the constants that satisfy the assumptions of the module.

`SubDelivery_proofs`:

* `TypeCorrect`: `Spec => []TypeOK`. The lemmas before it type each function of
  subscription.c (`SendQueued`, `UpdateSubReq`, ...), and the theorem has one step for
  each action.
* `SidTableCorrect`: `Spec => []SidTable`. The invariant is inductive together with
  `TypeOK`: that a path which is not live is `Blank` is what makes a freed subscription
  lose its sid.
* `AckAccountingCorrect`: without qos 3, `Spec => []AckAccounting`. `AckAccounting` alone is not
  inductive: an ack needs to know that an id belongs to one subscription and lies in the
  session log, a disconnect that the ids of the queue are among the pending ones or
  cleared, a free that the subscription has a queue whenever it has pending acks, and a
  restart that no record exists. `AccountingInv` states these. The assumption that there is no
  qos 3 is needed: a freed qos 3 subscription leaves entries in `pendingAcks`.
* `StoreMirrorsAlways`: `Spec => []StoreMirrors`, by `MirrorInv`, which says of every path, subscribed or not, that its record
  is its queue at qos 3, and below it none, or an empty one with an empty queue. Each function of subscription.c keeps it
  (`UpdateSubReqMirrored`, `UpdateSubQosMirrored`, ...), so each handler does.
* `KeptUntilSentAlways`: `Spec => KeptUntilSent`. Only `UpdateSubReq` without a link and `FlushQosQueue` change the queue of a subscription that lives
  on (`UpdateSubReqKeeps`, `FlushQosQueueKept`). A restart that finds the file of a record whose save has ended needs `MirrorInv`: what the file holds is what
  was in memory. Without that condition the theorem does not hold: during a save the file is empty or old.
* `QueueShapeAlways`, `InOrderAlways` and `NothingLostAlways`, for clients and rings that are `Sequential`: no qos 3, one ack for each message,
  and no value more than the ring holds. Each of the three conditions is needed: `sub_order` breaks the order with one ack for two messages, a full ring
  drops values, and the queue of qos 3 is another one. `OrderInv` says of every live subscription that its queue is a part in flight and a part
  that is not sent (`Shaped`), that its values rise (`Rising`), that the log of the session holds each entry in flight under its id (`Tracked`), that no message
  that was sent is newer than one that waits (`Ahead`), and what `InOrder` and `NothingLost` say of one path (`Logged`, `Held`). Order alone
  is not inductive: that a freed entry is the first of the queue (`FirstPending`) rests on the shape, and this on one ack for each message.
  `SendQueuedOrdered`, `EnqueuedOrdered`, `AckOneOrdered` and `RepliedOrders` say it of the functions.
* `AddressedAlways`: without qos 3, `Spec => Addressed`. `SidTable` says what an entry of the table points to; a message is addressed by the sid its
  subscription carries, so the invariant is the converse (`SidsKnown`). A freed subscription of qos 3 answers without it.

`InvokeStreams_proofs`:

* `TypeCorrect` and `TablesAlwaysAgree`: `Spec => []TypeOK` and `Spec => []TablesAgree`, by one inductive invariant. It
  states the tables as functions of the set of streams (`TablesOf`), from which freeing and adding a stream are
  a lemma each (`FreeAgrees`, `AddAgrees`), and that a rid of the broker is never used twice in a session (`Placed`): this
  is why a new stream finds its slot empty.
* `EndsAgreeAlways` and `OwnResponsesAlways`: `Spec => []EndsAgree` and `Spec => []OwnResponses`, by `EndInv`. For every rid of a requester it
  relates the SDK's view, the broker's table and both channels (`Requested`): of an invocation that is open there is exactly one of a request on its way,
  a stream, or a last response on its way; and nothing follows the last response. The same for every rid of a responder (`Serving`). That
  responses are to the right invocation is `SaidInv`: all that is under way about a rid of the broker is about one invocation, and nothing is
  about a rid that was not used yet. `RequestedGrows`, `RequestedTaken`, `ServingGrows`, ... say what sending and taking a message does to these,
  for any channel; the lemmas `...Ends` apply them, one for each action.

`ListStreams_proofs`, for any number of requesters, remote and local paths:

* `TypeCorrect` and `TablesAlwaysAgree`: `Spec => []TypeOK` and `Spec => []TablesAgree`, by `IInv`. It holds the agreement of streams with
  the rows of requesters (`Joined`) and with those of the responder (`Listed`), and what makes both inductive (`RidsUnasked`): a rid with which a list
  is on its way has no row and is asked with once, so the row a join writes is new. A join, leaving some paths and a new order of rids are a lemma each
  (`JoinedAdds`, `JoinedLeaves`, `ListedAnew`), for any tables. 
* `ResponderAlwaysInStep`: `Spec => []ResponderInStep`, by `StepInv`. The property speaks of a channel that is empty; `InStep` says of any channel that a
  responder which reads it ends where the broker is: a rid is asked for once and closed at most once, after that; what is listed or asked for has its row or
  is closed in the channel; and between two lists of a path the first one is closed, which is why the close of an older rid never removes
  the `list_subs` entry of the newer one. `InStepAsks`, `InStepTells`, `InStepLists`, `InStepCloses` and `InStepAnew` say what sending and taking
  a request does to it. `AwayInv` adds that nothing is kept while the responder is away.
* `QuietIsCurrentAlways`: `Spec => []QuietIsCurrent`, by `ShowInv`. The property again speaks of empty channels; the invariant says where any channel leads.
  `Follows(q, i, v, c)`: a requester with the view `v` that takes the messages `q` ends with the cache `c`, because the last message that says
  something of a name, or of the responder, says what `c` has. Every open list is still asked for, refused, or follows the cache of its stream (`Shows`), and
  `AsksKnown` keeps the three apart: what a requester has asked for is its last list of the path, and what it closes is not open.
  `ComesToHold(q, i, c, names)` is the same for the reports of the responder and the cache, and `Feeds` says that the responder is still to be asked
  for a stream or that its reports lead to what the node has; with the responder away the cache has `$disconnectedTs`, and that of a local node is always current
  (`RemoteInv`, `LocalInv`). The last message decides, so it does not matter that the cache a requester is sent has some of the updates behind it in the
  channel already. Only lists in `lost` are exempt. `FollowsUpdates`, `FollowsChange`, `FollowsTaken`, `HoldsListed`, `HoldsTaken`, ... say
  what sending and taking a message does to these, for any channel.

`JsonStorage_proofs`:

* `TypeCorrect`: besides the types, that a chain which has opened a file that was not unlinked finds it when it writes.
* `WaitingCoveredAlways`: `Spec => []WaitingCovered`. A tick counts exactly the chains it adds, and
  only the last callback of a chain counts down.
* `LastWriteWinsAlways`: `Spec => []LastWriteWins`. `LastInv` says that of the chains of a key that will still write, the last one writes
  the record in memory, and that the file took it last if there is none. `RaceInv` adds for every key that is not raced what else is in the file: the
  sizes of file and chains do not fall in the order in which the chains write (`Sized`), so a write leaves no rest of an older one behind it; or there is no
  record, no chain and nothing in the file (`Absent`). `Precedes` orders the chains by how far they are and, at the same
  stage, by their place in `pool` or `done`; the worker and the loop move operations to other slots but keep this order (`MovedLast`), and a new
  chain is behind all others (`ExtendedLast`).
* `RestartKeepsAlways`: `Spec => RestartKeeps`. `PlainInv`: as long as nothing was deleted or got shorter, no chain under way is longer than
  the record, so no key is raced.

`Queues_proofs`, of both modules of the run `queues`:

* `TypeCorrect`: every slot that `rb_at` reaches was written.
* `RingbufferIsBoundedQueue`: `Spec => IsBoundedQueue` for every size. The lemmas `PushMoves`, `PushFullMoves` and `PopMoves` say how the slot
  of an index moves with each call; with them each operation maps to the operation of the queue on `Contents`.
* `TasksKeptAlways`: `Task!Spec => []TasksKept`, for any threads and any number of tasks. `QueueInv` says that while no calls overlapped there is at most one
  under way, whose task is in the cell behind those that are counted (`OneCall`): so counting appends exactly this task.
* `QueuesCompose`: a run of both modules at once is a run of each.

`Connections_proofs`, of Upstream and, as the instance `Down`, of Links:

* `OneHandleAlways`: `Spec => []OneHandle`, for any set of names and any limit of the delay. `PollInv` says that every poll is `Good`: of its type, with
  the one handle of its status. A callback first takes its handle off (`FiredBare`), which leaves a poll that is `Bare`; clearing keeps it so
  (`ClearedIsBare`), and connecting or reconnecting makes it good again (`DialedGood`, `ReconnectedGood`).
* `ConfigFollowedAlways`: `Spec => []ConfigFollowed`. `ConfigInv` adds that the child `name` of an entry is its name until one is set;
  without that, enabling an entry could start the poll of another.
* `TypeCorrect`: `Spec => []TypeOK`, of Upstream.
* `TokenUsesAlways`: `Down!Spec => []TokenUses` for all counts, when every dslink comes with a token, any number of dslinks and any number of restarts and kills. The invariant
  `TokenInv` says that what is left and what was used of a token make up its first count, and that the files hold what the
  nodes hold: `token_used` saves before the answer leaves, so a restart gives nothing back.
* `AttemptsAgreeAlways`, `SessionsAgreeAlways` and `NodesSavedAlways`: `Down!Spec => []` of each, by one invariant, for any number of
  dslinks, links, failures and restarts, and dslinks that share any number of names. `LinkInv` is `SessInv` until an attempt is overtaken.
  * `Agree` is `AttemptsAgree` with the types, for any tables and links. Ending or opening an attempt removes both of its entries (`AgreeLeft`), and
    a new one is entered under a dsId and a name that are free (`AgreeEntered`): the name is free because nothing was overtaken.
  * `Owned` says that the link of a node is open and has its name, and that an attempt has the name of no other dslink's node; `Seated` that
    every open link, but for orphans, is the link of its dslink's own node; `Going` that orphans are open and no node's. A session that is replaced closes with
    the node in hand, so these hold in every order of conn and ws requests, the late ones of a killed dslink included.
  * `ConnsOk` and `Kept` say what conns.json holds: a restart gives a name only to a dslink that may have it.
  * They assume `Named`: the last name a dslink can get, which is its whole dsId, is no name of another dslink. The search for a name goes up
    through the names and ends at the latest there (`SearchEnds`), and the name it ends with is no other dslink's node (`NameFits`).
  * That the invariant holds only until an attempt is overtaken is the code: three dslinks of one prefix get there (section 5).

`SubStreams_proofs`, for any finite sets of requesters and paths:

* `TypeCorrect`: `Spec => []TypeOK`.
* `InOnePlaceAlways`, `ResponderInStepAlways`, `RightPathAlways` and `QuietIsCurrentAlways`: `Spec => []` of each, and `NeverBackAlways`:
  `Spec => NeverBack`, all by one invariant `Inv`. A function of the broker works on the record of the broker's variables, so
  its lemma is about any such record `b`, and `Held(b)` is the broker's part of the invariant. It is kept by each call
  (`SubscribeRemote`, `FreeSub`, ...), and so by the loops that call them for one entry after the other: `Walk` is the
  induction along a recursive function over a sequence, stated about sets. `clear_conns` is the walk over all subscriptions that absent requesters left, then,
  if the responder is absent as well, `NodeFreedStep`.
* `Held` says where subscriptions are (`Placed`), that streams cover the qos of their requesters (`Covered`), and what the broker, the channels and the
  responder agree on (`Agreed`, `Ordered`, `Current`).
* `InStep` is what `ResponderInStep` needs of any channel of requests: every sid that the responder uses or is asked for, other than the present one, is
  dropped later in the channel; the present one is asked for or in use and never dropped; and between two sids of one path the first is dropped. The last
  part is why `dslink_response_unsub` never removes the entry of a newer sid.
* `OwnedBy` gives each sid that was handed out one path, for as long as it is in use anywhere: `clear_conns` starts the sids again from 0, but
  only while no connection is there that could still carry an old one. This is `RightPath`.
* `Ordered` says that no value in a subscription or a stream is newer than those under way and the responder's own, `InOrder` that those under
  way are in their order: this is `NeverBack`. `Current` says of every stream that its sid is being asked for, or the present value is the last one
  under way for it, or it has arrived everywhere: with nothing under way, this is `QuietIsCurrent`.

`DataNodes_proofs`, for any tree of paths, lists and groups:

* `ValuesOnDiskAlways`: `Spec => []ValuesOnDisk`. With the types of values and files the property is inductive; the delete of a
  node with others below it is the step that needs `stray`.
* `SessionGroupsAlways`: `Spec => []SessionGroups`, with `OwnGroup`: the links that lost the node still have the group that is their dsId
  (`SessionInv`). What can take the node from its link, or change the group, leaves the node without one (`OrphanedKeeps`).
* `RestartRestoresAlways`: `Spec => []RestartRestores`. `RestartInv` says that `conns.json`, while it is not to be saved, has the group; that the nodes, and the paths that data.json holds, each
  contain with a path all above it (`Rooted`); that every value file has its node or is stray (`FilesKnown`); and that data.json, while it
  is not to be saved, holds the nodes but for those that value files call back (`InDataJson`). A restart keeps it because what files call back comes
  with the nodes above it.
* `SubsAttachedAlways`: `Spec => []SubsAttached`, on top of `TreeOK`: of the nodes that a write makes, each but the last is the parent of the next one
  (`MissingParents`), so the search at the parents misses only the node that is written.
* `GrantsReachDownAlways`: `Spec => []GrantsReachDown`, for any lists, and the groups of every link, orphans included. `RaisedIs`: no list lowers a level; `LevelsIs`: the levels of a path are
  those of the path above it, raised.

The recursive functions are unfolded by `TreeRecursion`, which is proved from `TreeInduction`: a set that holds the root, and with the path above it
every path, holds all of them. Both are stated about sets, where the provers need no operator as a parameter; `Least` gets the same for numbers from
the well-foundedness of `<`.

Only model-checked: liveness (`QueueDrains`, `QueueSaved`, `Reconnects`, `ComesUp`), which needs fairness and ENABLED, and the order of delivery with
cumulative acks or full rings.

## 4. Plan

Done: SubDelivery, SubStreams, JsonStorage, InvokeStreams, ListStreams, Links, Ringbuffer, Upstream, DataNodes (with the permissions) and
AsyncTasks. What is left, in the order of importance:

1. `Vector`: search and erasure against sequences.
2. `KeepAlive`: the pings of both ends against their limits of 60 and 90 seconds.
3. `Query`, with the broker as a requester of its own streams.
4. The rest of the SDK's requester: its subscriptions, set and remove, `dslink_close`.

## 5. What the checks found

* `sub_order`. `subscription.c:330` says that a message is added to the queue first "to keep
  message order in all cases". `check_subscription_ack` (line 71) walks the covered entries
  from the last to the first. With an ack that covers two messages, its first iteration
  pops both entries but has decremented the counter once, so `sendQueuedMessages` starts at
  the second unsent entry and sends it. In the second iteration `removeFromMessageQueue` finds nothing to
  remove and returns 0, so nothing is sent. The first unsent value, which is older, stays in the queue, also when the newer one is
  acknowledged; a later publish sends it. Two values of one path leave in the wrong order.

Observed while modelling, without a run of its own:

* `json_file.c:133` counts a delete down that was never counted up: the first delete wraps the counter, and no
  tick saves anything again until enough callbacks have counted it down.
* `json_file.c:79`: of two overlapping saves of one key, the shorter one leaves the tail of the longer behind it (`raced`): the file does
  not parse, and the next start has no record. A save under way at a delete that has not opened the file
  yet makes it again.
* A record is on disk only some file operations after `dslink_storage_store` has returned (`json_file.c:107-158`). A crash in between finds the older record, or an
  empty file after the truncating open: values kept for a qos 3 requester, and its subscription, are lost (`OnDisk`).
* A freed qos 3 subscription leaves its entries in `pendingAcks` (`subscription.c:176`).
* `handshake.c:192`: with tokens, while `/downstream` is listed, a conn request of a dslink whose older session is open sets
  `node->link` to NULL; the older session lives on beside the new one, also after the listing, and its end detaches the new one (`orphans`). When the
  group of the node changes, `permission_action.c:151` finds no link to close, so the older session keeps its old groups.
* `handshake.c:141-155`: the search for a name steps over one that another dslink is connecting with, and does not look the longer one up in
  `client_connecting`. Three dslinks of one prefix that connect at a time can get one name (`overtaken`): the third overwrites the entry of the second.
* `data.c:236-275`: the permission for `/data/publish` is checked when it is invoked; through the open stream a link goes on publishing after it has lost it.
* `token.c:499` says that with a managed token all dslinks associated with it are deleted. `clear_managed_link` finds them
  by their nodes: a dslink between conn and ws, whose node is deleted, makes a new one with its ws request and is connected.
* With tokens `handshake.c:333` does not save the `$$dsId` of a node that the conn request has made; if it is saved in between, the node is skipped by the next start.
* A `$$group` of a token is written to `meta` (`handshake.c:197`), but `node->groups` is only set when the nodes are loaded: it has no effect before a restart.
* `cache_sent` of a list stream is never set (`msg_list_remote.c:181`).
* An attribute that is set on a path of a responder is kept below the path with its
  slash (`msg_set.c:50`: `out` is `/p1`, so the tree is entered at the empty name); the reset of a list cache looks for it below the path
  without the slash (`stream.c:263`, commented "set downstream virtual attribute") and finds none. The list shows the attribute
  until the responder's list starts anew.
* `data.c:226` hands the *parent* of a new node to `handle_pending_sub`, so a subscription that waits for a node which a set
  makes stays pending. `test/dart/broker/sub_nonexistent_node_test.dart` sets a node that a subscription waits for and expects
  its value. `SubsAttached` names such subscriptions in `skipped`.
* `on_delete_node_invoked` removes the value file of its node and frees the nodes below it, whose files stay: after a restart they, and
  the nodes above them, exist again with their values (`stray`).
* `node_serialization.c:226` lacks an `else`: a permission list that is loaded also becomes a child `?permissions` of
  its node. The next save writes the list and then the child under the same key, and the restart after it finds no list (`listed`).
* `permission.c:288` saves after a change of a list below `/data/`, but not of `/data` itself.
* A value that is published is not written to its file; one that is set is (`published`).
* An upstream is started by the value of its child `name` and stopped by the name of its entry (`upstream_sys_node.c:135`): after the
  child was set, disabling or deleting the entry leaves its connection running. The child is not saved either.
* An upstream whose answer lacks `wsUri`, `tempKey` or `salt` is never tried again (`upstream_handshake.c:264`). One that was silent for
  90 seconds is closed by `dslink_handle_ping`, and its poll keeps a pointer to the freed link.
* `lock_tasks_data` and `unlock_tasks_data` are empty (`dslink.c:1020`), below a comment that calls the API thread-safe: two threads may
  write one slot of the vector, or a call may be lost against the swap (`overlapped`). `test/sdk/thread_safe_api_test.c` calls it from one thread and from its callbacks.

## 6. Not modelled

Queries, the searches and erasures of the vector and the rest of the SDK's requester: planned above. The broker's static nodes, its invocations of
its own actions, the attributes that are serialized, and failing allocations and file operations are left out throughout. Parsing of configuration, HTTP and JSON, base64, crypto,
sockets and logging hold no state that other components depend on. Frames of
the websocket are the messages of the models. `PROJECT.json` lists every part with its status.
