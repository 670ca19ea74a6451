----------------------------- MODULE ListStreams -----------------------------
(***************************************************************************)
(* Lists of nodes through the broker. Requesters that list the same path   *)
(* share one BrokerListStream. The stream of a node of the broker (Local)  *)
(* passes on every change of the node. The stream of a node of a responder *)
(* (Remote) stands for one list request to the responder, keeps a cache of *)
(* the updates, and outlives the responder's connections.                  *)
(*                                                                         *)
(* The dslinks are those of this SDK, with one responder. Every direction  *)
(* of a connection is a FIFO channel that is lost with the connection.     *)
(***************************************************************************)
EXTENDS Integers, Sequences, FiniteSets, Functions

CONSTANTS
  Reqs,       \* requesters
  Remote,     \* paths of the responder, below its root
  Local,      \* paths of nodes of the broker
  Rids,       \* rids that a requester uses, each once in a session
  Names,      \* children and attributes of a node
  Attr,       \* an attribute that the broker keeps for a remote path
  None,
  MaxRid,     \* bound: rids the broker uses with the responder's node
  MaxLists,   \* bound: lists that are asked for in the sessions under way
  MaxQueue    \* bound: messages under way when a dslink or a change adds one

ASSUME ListConstants ==
  /\ IsFiniteSet(Remote) /\ Remote \cap Local = {}
  /\ Attr \notin Names /\ None \notin Rids \cup Remote \cup Local
  /\ {MaxRid, MaxLists, MaxQueue} \subseteq Nat

VARIABLES
  node,       \* the DownstreamNode of the responder exists
  link,       \* node->link is set: the responder is connected
  nodeRid,    \* node->rid
  virtual,    \* children_permissions of the node: keys with the attribute
  stream,     \* list_streams of the node, and the list_stream of local nodes
  reqTab,     \* requester_streams of each link: the path of the stream
  respTab,    \* responder_streams of the responder's link
  toBroker,   \* messages of each requester on their way to the broker
  toReq,      \* messages on their way to each requester
  toResp,     \* messages on their way to the responder
  fromResp,   \* messages of the responder on their way to the broker
  content,    \* the children and attributes of every node
  open,       \* responder: open_streams
  subs,       \* responder: list_subs
  view,       \* requester: what it knows of each rid
  lost        \* history: rids whose stream was freed with its node

broker    == <<node, link, nodeRid, virtual, stream, reqTab, respTab>>
responder == <<content, open, subs>>
vars == <<broker, toBroker, toReq, toResp, fromResp, responder, view, lost>>

Paths == Remote \cup Local
PRids == 1..MaxRid
Items == Names \cup {Attr}

\* updates_cache: whether it starts with $base or $is, with which a reader
\* starts anew; $disconnectedTs; and the other names
Cache == [head : BOOLEAN, disc : BOOLEAN, names : SUBSET Items]
NoUpdates == [head |-> FALSE, disc |-> FALSE, names |-> {}]
Offline   == [head |-> FALSE, disc |-> TRUE, names |-> {}]

\* requester_links: the rid of each requester, or None
Stream == [rid : 0..MaxRid, links : [Reqs -> Rids \cup {None}], cache : Cache]
NoLinks == [r \in Reqs |-> None]
ASSUME NoStreamIsNone == None \notin Stream
Alone(links, r) == \A q \in Reqs \ {r} : links[q] = None

FromReq == [kind : {"list"}, rid : Rids, path : Paths] \cup [kind : {"close"}, rid : Rids]
ToReq == [kind : {"updates"}, rid : Rids, cache : Cache]
           \cup [kind : {"change"}, rid : Rids, name : Items, present : BOOLEAN]
           \cup [kind : {"closed"}, rid : Rids]
ToResp == [kind : {"list"}, rid : PRids, path : Remote] \cup [kind : {"close"}, rid : PRids]
FromResp == [kind : {"updates"}, rid : PRids, names : SUBSET Names]
              \cup [kind : {"change"}, rid : PRids, name : Names, present : BOOLEAN]

Updates(rid, cache) == [kind |-> "updates", rid |-> rid, cache |-> cache]
Change(rid, n, present) == [kind |-> "change", rid |-> rid, name |-> n, present |-> present]
List(rid, p) == [kind |-> "list", rid |-> rid, path |-> p]
Close(rid) == [kind |-> "close", rid |-> rid]
Closed(rid) == [kind |-> "closed", rid |-> rid]

\* A requester's view of a rid. It is "open" while it is the last list of its
\* path; of the other ones the requester keeps nothing.
View == [path : Paths \cup {None}, state : {"unused", "open", "replaced", "closed", "ended"},
         disc : BOOLEAN, names : SUBSET Items]
Seen(p, state) == [path |-> p, state |-> state, disc |-> FALSE, names |-> {}]
Unused == Seen(None, "unused")

Orders(S) == {q \in [1..Cardinality(S) -> S] : IsInjective(q)}
With(S, n, present) == IF present THEN S \cup {n} ELSE S \ {n}
UnderWay == Len(toResp) + Len(fromResp)
  + SumFunctionOnSet([r \in Reqs |-> Len(toBroker[r]) + Len(toReq[r])], Reqs)
Room == UnderWay < MaxQueue

-----------------------------------------------------------------------------
\* The key under which an attribute of p is stored (the path with its slash),
\* and the one under which the reset of a cache looks for it (without)
SetKey(p) == <<"/", p>>
ResetKey(p) == <<"", p>>

\* broker_stream_list_reset_remote_cache while the responder is connected
Reset(p) == [head |-> TRUE, disc |-> FALSE, names |-> {a \in {Attr} : ResetKey(p) \in virtual}]

\* build_list_cache, for a new stream of a node of the broker
OwnCache(p) == [head |-> TRUE, disc |-> FALSE, names |-> content[p]]

\* One message to every requester in a stream; msg maps its rid to the message
ToAll(links, msg) ==
  [r \in Reqs |-> IF links[r] = None THEN toReq[r] ELSE Append(toReq[r], msg[links[r]])]

\* Mutant: the older rid is kept.
TabAddedKeepsOld(tab, links, r, rid, p) == [tab EXCEPT ![r][rid] = p]

\* broker_add_requester_list_stream: an older rid for the same path is dropped
Added(links, r, rid) == [links EXCEPT ![r] = rid]
TabAdded(tab, links, r, rid, p) ==
  [tab EXCEPT ![r] = [i \in Rids |-> IF i = rid THEN p ELSE IF i = links[r] THEN None ELSE @[i]]]

\* Mutant: a requester that joins is not sent the cache.
FirstUpdatesNone(r, rid, cache) == toReq

\* send_list_updates: nothing is sent of an empty cache
FirstUpdates(r, rid, cache) ==
  IF cache = NoUpdates THEN toReq ELSE [toReq EXCEPT ![r] = Append(@, Updates(rid, cache))]

-----------------------------------------------------------------------------
StillOpen == {e \in lost : view'[e[1]][e[2]].state = "open"}

\* dslink_requester_list
ClientList(r, rid, p) ==
  /\ view[r][rid] = Unused /\ Room
  /\ Cardinality({e \in Reqs \X Rids : view[e[1]][e[2]] # Unused}) < MaxLists
  /\ view' = [view EXCEPT ![r] = [i \in Rids |-> IF i = rid THEN Seen(p, "open")
                ELSE IF @[i].state = "open" /\ @[i].path = p THEN Seen(p, "replaced") ELSE @[i]]]
  /\ toBroker' = [toBroker EXCEPT ![r] = Append(@, List(rid, p))]
  /\ lost' = StillOpen
  /\ UNCHANGED <<broker, toReq, toResp, fromResp, responder>>

\* dslink_requester_close
ClientClose(r, rid) ==
  /\ view[r][rid].state \in {"open", "replaced"} /\ Room
  /\ view' = [view EXCEPT ![r][rid] = Seen(@.path, "closed")]
  /\ toBroker' = [toBroker EXCEPT ![r] = Append(@, Close(rid))]
  /\ lost' = StillOpen
  /\ UNCHANGED <<broker, toReq, toResp, fromResp, responder>>

\* What broker_handle_req takes from r
Request(r, kind) ==
  /\ toBroker[r] # <<>> /\ Head(toBroker[r]).kind = kind
  /\ toBroker' = [toBroker EXCEPT ![r] = Tail(@)]

\* broker_msg_handle_list: the permission is not enough, or no node has the path
RefuseList(r) ==
  /\ Request(r, "list")
  /\ toReq' = [toReq EXCEPT ![r] = Append(@, Closed(Head(toBroker[r]).rid))]
  /\ UNCHANGED <<broker, toResp, fromResp, responder, view, lost>>

\* broker_list_self and broker_list_dslink: the stream of the path is joined,
\* after it was made if there is none. That of a remote path is made with a
\* request to the responder, or for the time being with an empty cache.
JoinList(r) ==
  LET rid == Head(toBroker[r]).rid
      p   == Head(toBroker[r]).path
      new == nodeRid + 1
      join(s) == /\ stream' = [stream EXCEPT ![p] = [s EXCEPT !.links = Added(s.links, r, rid)]]
                 /\ reqTab' = TabAdded(reqTab, s.links, r, rid, p)
      made(i, cache) == [rid |-> i, links |-> NoLinks, cache |-> cache]
  IN
  /\ Request(r, "list") /\ (p \in Remote => node)
  /\ \/ /\ stream[p] # None /\ join(stream[p])
        /\ toReq' = FirstUpdates(r, rid, stream[p].cache)
        /\ UNCHANGED <<nodeRid, respTab, toResp>>
     \/ /\ stream[p] = None /\ p \in Local
        /\ join(made(0, OwnCache(p))) /\ toReq' = FirstUpdates(r, rid, OwnCache(p))
        /\ UNCHANGED <<nodeRid, respTab, toResp>>
     \/ /\ stream[p] = None /\ p \in Remote /\ ~link
        /\ join(made(0, Offline)) /\ toReq' = FirstUpdates(r, rid, Offline)
        /\ UNCHANGED <<nodeRid, respTab, toResp>>
     \/ /\ stream[p] = None /\ p \in Remote /\ link /\ new <= MaxRid
        /\ join(made(new, NoUpdates)) /\ nodeRid' = new
        /\ respTab' = [respTab EXCEPT ![new] = p]
        /\ toResp' = Append(toResp, List(new, p)) /\ UNCHANGED toReq
  /\ UNCHANGED <<node, link, virtual, fromResp, responder, view, lost>>

\* Mutant: the responder is not told.
LeaveAllSilently(r, ps) ==
  LET ends == {p \in ps : Alone(stream[p].links, r)} IN
  /\ stream' = [p \in Paths |-> IF p \in ends THEN None
                  ELSE IF p \in ps THEN [stream[p] EXCEPT !.links[r] = None] ELSE stream[p]]
  /\ respTab' = [i \in PRids |-> IF respTab[i] \in ends THEN None ELSE respTab[i]]
  /\ UNCHANGED toResp

\* broker_list_req_closed and requester_stream_closed, for the paths ps that r
\* leaves: a stream goes with its last requester, and the responder is told.
LeaveAll(r, ps) ==
  LET ends == {p \in ps : Alone(stream[p].links, r)}
      told == {stream[p].rid : p \in ends \cap Remote} IN
  /\ stream' = [p \in Paths |-> IF p \in ends THEN None
                  ELSE IF p \in ps THEN [stream[p] EXCEPT !.links[r] = None] ELSE stream[p]]
  /\ IF link THEN /\ \E order \in Orders(told) : toResp' = toResp \o [i \in DOMAIN order |-> Close(order[i])]
                  /\ respTab' = [i \in PRids |-> IF i \in told THEN None ELSE respTab[i]]
     ELSE UNCHANGED <<toResp, respTab>>

\* broker_msg_handle_close
CloseList(r) ==
  LET rid == Head(toBroker[r]).rid
      p   == reqTab[r][rid]
  IN
  /\ Request(r, "close")
  /\ LeaveAll(r, {p} \ {None})
  /\ reqTab' = [reqTab EXCEPT ![r][rid] = None]
  /\ UNCHANGED <<node, link, nodeRid, virtual, toReq, fromResp, responder, view, lost>>

\* broker_close_link and broker_remote_dslink_free of a requester. While it is
\* away it is like one that has connected again and asked for nothing yet.
Disconnect(r) ==
  /\ LeaveAll(r, {reqTab[r][i] : i \in Rids} \ {None})
  /\ reqTab' = [reqTab EXCEPT ![r] = [i \in Rids |-> None]]
  /\ toBroker' = [toBroker EXCEPT ![r] = <<>>] /\ toReq' = [toReq EXCEPT ![r] = <<>>]
  /\ view' = [view EXCEPT ![r] = [i \in Rids |-> Unused]]
  /\ lost' = {e \in lost : e[1] # r}
  /\ UNCHANGED <<node, link, nodeRid, virtual, fromResp, responder>>

-----------------------------------------------------------------------------

\* broker_list_dslink_response. The updates of a list start with $is, which
\* resets the cache; all of the cache is sent after every response, because
\* cache_sent is never set.
ListResponse ==
  LET m == Head(fromResp)
      p == respTab[m.rid]
      s == stream[p]
      reset == Reset(p)
      cache == IF m.kind = "updates" THEN [reset EXCEPT !.names = @ \cup m.names]
               ELSE [s.cache EXCEPT !.names = With(@, m.name, m.present)]
  IN
  /\ link /\ fromResp # <<>> /\ fromResp' = Tail(fromResp)
  /\ IF p = None THEN UNCHANGED <<stream, toReq>>
     ELSE /\ stream' = [stream EXCEPT ![p].cache = cache]
          /\ toReq' = ToAll(s.links, [rid \in Rids |-> Updates(rid, cache)])
  /\ UNCHANGED <<node, link, nodeRid, virtual, reqTab, respTab, toBroker, toResp, responder, view, lost>>

\* broker_dslink_connect: every stream of the node is listed again. The SDK has
\* built its tables and its nodes anew.
RespConnect ==
  /\ ~link /\ link' = TRUE /\ node' = TRUE
  /\ \E order \in Orders({p \in Remote : stream[p] # None}) :
       LET rid(p) == nodeRid + (CHOOSE i \in DOMAIN order : order[i] = p) IN
       /\ nodeRid + Len(order) <= MaxRid /\ nodeRid' = nodeRid + Len(order)
       /\ stream' = [p \in Paths |-> IF p \in Range(order) THEN [stream[p] EXCEPT !.rid = rid(p)] ELSE stream[p]]
       /\ respTab' = [i \in PRids |-> IF i - nodeRid \in DOMAIN order THEN order[i - nodeRid] ELSE None]
       /\ toResp' = [i \in DOMAIN order |-> List(nodeRid + i, order[i])]
  /\ \E built \in [Remote -> SUBSET Names] :
       content' = [p \in Paths |-> IF p \in Remote THEN built[p] ELSE content[p]]
  /\ UNCHANGED <<virtual, reqTab, toBroker, toReq, fromResp, open, subs, view, lost>>

\* broker_close_link of the responder and broker_dslink_disconnect: every
\* stream starts over with $disconnectedTs, which its requesters are sent.
RespDisconnect ==
  /\ link /\ link' = FALSE
  /\ stream' = [p \in Paths |-> IF p \in Remote /\ stream[p] # None
                                THEN [stream[p] EXCEPT !.cache = Offline] ELSE stream[p]]
  /\ \E sent \in [Reqs -> UNION {Orders({p \in Remote : stream[p] # None /\ stream[p].links[r] # None}) : r \in Reqs}] :
       /\ \A r \in Reqs : sent[r] \in Orders({p \in Remote : stream[p] # None /\ stream[p].links[r] # None})
       /\ toReq' = [r \in Reqs |-> toReq[r] \o
                     [i \in DOMAIN sent[r] |-> Updates(stream[sent[r][i]].links[r], Offline)]]
  /\ respTab' = [i \in PRids |-> None]
  /\ toResp' = <<>> /\ fromResp' = <<>>
  /\ open' = [i \in PRids |-> None] /\ subs' = [p \in Remote |-> 0]
  /\ UNCHANGED <<node, nodeRid, virtual, reqTab, toBroker, content, view, lost>>

\* clear_conns and broker_node_free: the streams of the node are freed; their
\* requesters are not told. A node of that name begins with new rids.
FreeNode ==
  LET freed == {p \in Remote : stream[p] # None} IN
  /\ node /\ ~link /\ node' = FALSE
  /\ stream' = [p \in Paths |-> IF p \in freed THEN None ELSE stream[p]]
  /\ lost' = lost \cup {e \in Reqs \X Rids : reqTab[e[1]][e[2]] \in freed /\ view[e[1]][e[2]].state = "open"}
  /\ reqTab' = [r \in Reqs |-> [i \in Rids |-> IF reqTab[r][i] \in freed THEN None ELSE reqTab[r][i]]]
  /\ nodeRid' = 0 /\ virtual' = {}
  /\ UNCHANGED <<link, respTab, toBroker, toReq, toResp, fromResp, responder, view>>

\* update_list_attribute and update_list_child: the change of one name
Changed(p, n, present) ==
  IF stream[p] = None THEN UNCHANGED <<stream, toReq>>
  ELSE /\ stream' = [stream EXCEPT ![p].cache.names = With(@, n, present)]
       /\ toReq' = ToAll(stream[p].links, [rid \in Rids |-> Change(rid, n, present)])

\* set_downstream_attribute through a set or remove request
SetAttribute(p, present) ==
  /\ node /\ Room
  /\ virtual' = With(virtual, SetKey(p), present)
  /\ Changed(p, Attr, present)
  /\ UNCHANGED <<node, link, nodeRid, reqTab, respTab, toBroker, toResp, fromResp, responder, view, lost>>

\* A child of a node of the broker is added or removed, or an attribute is set.
LocalChange(p, n) ==
  /\ Room
  /\ content' = [content EXCEPT ![p] = With(@, n, n \notin @)]
  /\ Changed(p, n, n \notin content[p])
  /\ UNCHANGED <<node, link, nodeRid, virtual, reqTab, respTab, toBroker, toResp, fromResp, open, subs, view, lost>>

-----------------------------------------------------------------------------
\* dslink_response_list
RespList ==
  LET m == Head(toResp) IN
  /\ link /\ toResp # <<>> /\ m.kind = "list" /\ toResp' = Tail(toResp)
  /\ open' = [open EXCEPT ![m.rid] = m.path] /\ subs' = [subs EXCEPT ![m.path] = m.rid]
  /\ fromResp' = Append(fromResp, [kind |-> "updates", rid |-> m.rid, names |-> content[m.path]])
  /\ UNCHANGED <<broker, toBroker, toReq, content, view, lost>>

\* dslink_request_handle of a close
RespClose ==
  LET m == Head(toResp)
      p == open[m.rid]
  IN
  /\ link /\ toResp # <<>> /\ m.kind = "close" /\ toResp' = Tail(toResp)
  /\ open' = [open EXCEPT ![m.rid] = None]
  /\ subs' = IF p = None THEN subs ELSE [subs EXCEPT ![p] = 0]
  /\ UNCHANGED <<broker, toBroker, toReq, fromResp, content, view, lost>>

\* dslink_node_add_child, dslink_node_remove and dslink_node_set_meta
RespChange(p, n) ==
  LET present == n \notin content[p] IN
  /\ link /\ Room
  /\ content' = [content EXCEPT ![p] = With(@, n, present)]
  /\ fromResp' = IF subs[p] = 0 THEN fromResp ELSE Append(fromResp, Change(subs[p], n, present))
  /\ UNCHANGED <<broker, toBroker, toReq, toResp, open, subs, view, lost>>

\* What a requester makes of a message, from its view v of the rid. Like the
\* broker itself, when it lists a node of an upstream broker, it starts anew
\* with $base or $is.
Shown(v, m) ==
  IF m.kind = "closed" THEN Seen(v.path, "ended")
  ELSE IF v.state # "open" THEN v
  ELSE IF m.kind = "change" THEN [v EXCEPT !.names = With(@, m.name, m.present)]
  ELSE IF m.cache.head THEN [v EXCEPT !.disc = m.cache.disc, !.names = m.cache.names]
  ELSE [v EXCEPT !.disc = @ \/ m.cache.disc, !.names = @ \cup m.cache.names]

\* A requester takes a message.
Receive(r) ==
  LET m == Head(toReq[r]) IN
  /\ toReq[r] # <<>> /\ toReq' = [toReq EXCEPT ![r] = Tail(@)]
  /\ view' = [view EXCEPT ![r][m.rid] = Shown(@, m)]
  /\ UNCHANGED <<broker, toBroker, toResp, fromResp, responder, lost>>

Init ==
  /\ node = FALSE /\ link = FALSE /\ nodeRid = 0 /\ virtual = {}
  /\ stream = [p \in Paths |-> None]
  /\ reqTab = [r \in Reqs |-> [i \in Rids |-> None]] /\ respTab = [i \in PRids |-> None]
  /\ toBroker = [r \in Reqs |-> <<>>] /\ toReq = [r \in Reqs |-> <<>>]
  /\ toResp = <<>> /\ fromResp = <<>>
  /\ content = [p \in Paths |-> {}] /\ open = [i \in PRids |-> None] /\ subs = [p \in Remote |-> 0]
  /\ view = [r \in Reqs |-> [i \in Rids |-> Unused]]
  /\ lost = {}

Next ==
  \/ \E r \in Reqs :
       \/ Disconnect(r)
       \/ \E rid \in Rids : ClientClose(r, rid) \/ \E p \in Paths : ClientList(r, rid, p)
       \/ RefuseList(r)
       \/ JoinList(r)
       \/ CloseList(r)
       \/ Receive(r)
  \/ ListResponse
  \/ RespConnect
  \/ RespDisconnect
  \/ FreeNode
  \/ \E p \in Remote, present \in BOOLEAN : SetAttribute(p, present)
  \/ \E p \in Local, n \in Names : LocalChange(p, n)
  \/ RespList
  \/ RespClose
  \/ \E p \in Remote, n \in Names : RespChange(p, n)

Spec == Init /\ [][Next]_vars
-----------------------------------------------------------------------------
(***************************************************************************)
(* Properties.                                                             *)
(***************************************************************************)
\* The type of every variable.
TypeOK ==
  /\ node \in BOOLEAN /\ link \in BOOLEAN /\ nodeRid \in 0..MaxRid
  /\ virtual \subseteq {SetKey(p) : p \in Remote}
  /\ stream \in [Paths -> Stream \cup {None}]
  /\ reqTab \in [Reqs -> [Rids -> Paths \cup {None}]] /\ respTab \in [PRids -> Remote \cup {None}]
  /\ toBroker \in [Reqs -> Seq(FromReq)] /\ toReq \in [Reqs -> Seq(ToReq)]
  /\ toResp \in Seq(ToResp) /\ fromResp \in Seq(FromResp)
  /\ content \in [Paths -> SUBSET Names]
  /\ open \in [PRids -> Remote \cup {None}] /\ subs \in [Remote -> 0..MaxRid]
  /\ view \in [Reqs -> [Rids -> View]]
  /\ lost \subseteq Reqs \X Rids

\* A stream has requesters; requester_streams and
\* requester_links are inverses of each other; and responder_streams holds
\* the streams of remote paths under their rids while the responder is there.
TablesAgree ==
  /\ \A r \in Reqs, i \in Rids : reqTab[r][i] # None =>
       stream[reqTab[r][i]] # None /\ stream[reqTab[r][i]].links[r] = i
  /\ \A p \in Paths : stream[p] # None =>
       /\ stream[p].links # NoLinks
       /\ \A r \in Reqs : stream[p].links[r] # None => reqTab[r][stream[p].links[r]] = p
  /\ \A p \in Remote : stream[p] # None => node /\ (link => respTab[stream[p].rid] = p)
  /\ \A i \in PRids : respTab[i] # None =>
       link /\ i <= nodeRid /\ stream[respTab[i]] # None /\ stream[respTab[i]].rid = i

\* When it has handled every request, the responder lists exactly what the
\* broker has streams for, and reports changes under the right rid.
ResponderInStep ==
  link /\ toResp = <<>> =>
    /\ open = respTab
    /\ \A p \in Remote : subs[p] = IF stream[p] = None THEN 0 ELSE stream[p].rid

Quiet == toResp = <<>> /\ fromResp = <<>> /\ \A r \in Reqs : toBroker[r] = <<>> /\ toReq[r] = <<>>
\* The lists that a requester relies on: open, the last one of its path
Relied == {e \in Reqs \X Rids : view[e[1]][e[2]].state = "open"}

\* When nothing is under way, every list shows what its node has now, or that
\* its responder is not there, also to requesters that joined late and across
\* reconnections. Only the lists of a node that was freed are forgotten.
QuietIsCurrent ==
  Quiet => \A e \in Relied \ lost :
    LET v == view[e[1]][e[2]] IN
    IF v.path \in Remote /\ ~link THEN v.disc
    ELSE ~v.disc /\ v.names \ {Attr} = content[v.path]

=============================================================================
