---------------------------- MODULE InvokeStreams ----------------------------
(***************************************************************************)
(* Invocations of actions through the broker. An invocation that reaches   *)
(* a responder is a BrokerInvokeStream with a rid on either side; it is    *)
(* entered in requester_streams of the requester's link and in             *)
(* responder_streams of the responder's link. It ends when the responder   *)
(* closes it, when the requester closes it, or when either link is lost.   *)
(*                                                                         *)
(* Every link may be a requester and a responder, also of its own actions. *)
(* The dslinks are those of this SDK, or others that use a rid again while *)
(* its invocation is open. Every direction of a connection is a FIFO       *)
(* channel that is lost with the connection.                               *)
(***************************************************************************)
EXTENDS Integers, Sequences, FiniteSets, Functions

CONSTANTS
  Links,      \* dslinks
  NoStream,
  Rids,       \* rids that requesters use
  MaxRid,     \* bound: rids the broker uses with one responder
  MaxInv,     \* bound: invocations
  MaxQueue,   \* bound: messages under way in one direction when one is added
  SdkLinks    \* links that use a rid once in a session, as this SDK does

ASSUME InvokeConstants ==
  /\ IsFiniteSet(Links) /\ IsFiniteSet(Rids)
  /\ MaxRid \in Nat /\ MaxInv \in Nat /\ MaxQueue \in Nat /\ SdkLinks \subseteq Links

VARIABLES
  up,         \* links that are connected
  streams,    \* the BrokerInvokeStreams that are allocated
  reqTab,     \* requester_streams of each link
  respTab,    \* responder_streams of each link
  nodeRid,    \* node->rid: the last rid used with the responder
  toBroker,   \* messages of each link on their way to the broker
  toLink,     \* messages on their way to each link
  client,     \* requester: what it knows of each rid
  active,     \* responder: open_streams, with the invocation each serves
  ended,      \* responder: those of them its application has ended
  made        \* how many invocations were made

tables == <<streams, reqTab, respTab, nodeRid>>
vars == <<up, tables, toBroker, toLink, client, active, ended, made>>

PRids == 1..MaxRid
Invs  == 1..MaxInv
Stream == [req : Links, rrid : Rids, resp : Links, prid : PRids]
ASSUME NoStreamIsNone == NoStream \notin Stream

\* Messages of a link to the broker, and of the broker to a link. A response
\* carries the invocation it answers (inv), for the properties; 0: the
\* broker's own.
FromLink ==
  [kind : {"invoke"}, rid : Rids, to : Links, inv : Invs]
  \cup [kind : {"close"}, rid : Rids]
  \cup [kind : {"resp"}, rid : PRids, closed : BOOLEAN, inv : Invs]
FromBroker ==
  [kind : {"invoke"}, rid : PRids, inv : Invs]
  \cup [kind : {"close"}, rid : PRids]
  \cup [kind : {"resp"}, rid : Rids, closed : BOOLEAN, inv : Invs \cup {0}]
Response(rid, closed, inv) == [kind |-> "resp", rid |-> rid, closed |-> closed, inv |-> inv]
Invoke(rid, inv) == [kind |-> "invoke", rid |-> rid, inv |-> inv]
Close(rid) == [kind |-> "close", rid |-> rid]

\* A requester's view of a rid: the invocation it stands for, and whether the
\* requester has closed it or seen its end.
View == [inv : Invs \cup {0}, state : {"unused", "open", "closed", "ended"}]
Unused == [inv |-> 0, state |-> "unused"]

-----------------------------------------------------------------------------
\* dslink_map_set and dslink_map_remove on the tables
SetReq(tab, s)  == [tab EXCEPT ![s.req][s.rrid] = s]
SetResp(tab, s) == [tab EXCEPT ![s.resp][s.prid] = s]
DropReq(tab, s) == [tab EXCEPT ![s.req][s.rrid] = NoStream]
DropResp(tab, s) == [tab EXCEPT ![s.resp][s.prid] = NoStream]

\* broker_ws_send_obj: one message for m, which is lost if m is gone
Sent(m, msg) == IF m \in up THEN [toLink EXCEPT ![m] = Append(@, msg)] ELSE toLink

\* Mutant: the stream stays in the responder's table.
FreeStreamRequesterOnly(s) ==
  /\ streams' = streams \ {s}
  /\ reqTab' = DropReq(reqTab, s) /\ respTab' = respTab
\* broker_stream_free of an invoke stream
FreeStream(s) ==
  /\ streams' = streams \ {s}
  /\ reqTab' = DropReq(reqTab, s) /\ respTab' = DropResp(respTab, s)

-----------------------------------------------------------------------------
Connect(l) ==
  /\ l \notin up /\ up' = up \cup {l}
  /\ UNCHANGED <<tables, toBroker, toLink, client, active, ended, made>>

\* dslink_requester_invoke
ClientInvoke(l, rid, to) ==
  /\ l \in up /\ made < MaxInv /\ Len(toBroker[l]) < MaxQueue
  /\ l \in SdkLinks => client[l][rid] = Unused
  /\ made' = made + 1
  /\ client' = [client EXCEPT ![l][rid] = [inv |-> made + 1, state |-> "open"]]
  /\ toBroker' = [toBroker EXCEPT ![l] =
                   Append(@, [kind |-> "invoke", rid |-> rid, to |-> to, inv |-> made + 1])]
  /\ UNCHANGED <<up, tables, toLink, active, ended>>

\* dslink_requester_close: the handler of the rid stays
ClientClose(l, rid) ==
  /\ l \in up /\ client[l][rid].state = "open" /\ Len(toBroker[l]) < MaxQueue
  /\ client' = [client EXCEPT ![l][rid].state = "closed"]
  /\ toBroker' = [toBroker EXCEPT ![l] = Append(@, Close(rid))]
  /\ UNCHANGED <<up, tables, toLink, active, ended, made>>

\* What broker_handle_req takes from l
Request(l, kind) ==
  /\ l \in up /\ toBroker[l] # <<>> /\ Head(toBroker[l]).kind = kind
  /\ toBroker' = [toBroker EXCEPT ![l] = Tail(@)]

\* broker_msg_handle_invoke: there is no such node or the permission is not
\* enough; or the link of the node is lost, which is found after a rid was taken
RefuseInvoke(l) ==
  LET to == Head(toBroker[l]).to IN
  /\ Request(l, "invoke")
  /\ toLink' = Sent(l, Response(Head(toBroker[l]).rid, TRUE, 0))
  /\ \/ UNCHANGED nodeRid
     \/ /\ to \notin up /\ nodeRid[to] < MaxRid
        /\ nodeRid' = [nodeRid EXCEPT ![to] = @ + 1]
  /\ UNCHANGED <<up, streams, reqTab, respTab, client, active, ended, made>>

\* Mutant: the rid of the responder is not advanced.
ForwardInvokeSameRid(l) ==
  LET m   == Head(toBroker[l])
      s   == [req |-> l, rrid |-> m.rid, resp |-> m.to, prid |-> 1]
  IN
  /\ Request(l, "invoke") /\ m.to \in up /\ reqTab[l][m.rid] = NoStream
  /\ streams' = streams \cup {s}
  /\ reqTab' = SetReq(reqTab, s) /\ respTab' = SetResp(respTab, s)
  /\ toLink' = Sent(m.to, Invoke(1, m.inv))
  /\ UNCHANGED <<up, nodeRid, client, active, ended, made>>
\* broker_msg_handle_invoke of a responder that is connected, under a rid that
\* the requester does not use
ForwardInvoke(l) ==
  LET m   == Head(toBroker[l])
      rid == nodeRid[m.to] + 1
      s   == [req |-> l, rrid |-> m.rid, resp |-> m.to, prid |-> rid]
  IN
  /\ Request(l, "invoke") /\ m.to \in up /\ rid <= MaxRid /\ reqTab[l][m.rid] = NoStream
  /\ nodeRid' = [nodeRid EXCEPT ![m.to] = rid]
  /\ streams' = streams \cup {s}
  /\ reqTab' = SetReq(reqTab, s) /\ respTab' = SetResp(respTab, s)
  /\ toLink' = Sent(m.to, Invoke(rid, m.inv))
  /\ UNCHANGED <<up, client, active, ended, made>>

\* broker_msg_handle_invoke under a rid that is in use: the old stream is
\* closed at its responder and freed
ReplaceInvoke(l) ==
  LET m   == Head(toBroker[l])
      rid == nodeRid[m.to] + 1
      s   == [req |-> l, rrid |-> m.rid, resp |-> m.to, prid |-> rid]
      old == reqTab[l][m.rid]
      closed == Sent(old.resp, Close(old.prid))
  IN
  /\ Request(l, "invoke") /\ m.to \in up /\ rid <= MaxRid /\ old # NoStream
  /\ nodeRid' = [nodeRid EXCEPT ![m.to] = rid]
  /\ streams' = (streams \ {old}) \cup {s}
  /\ reqTab' = SetReq(reqTab, s)
  /\ respTab' = DropResp(SetResp(respTab, s), old)
  /\ toLink' = [closed EXCEPT ![m.to] = Append(@, Invoke(rid, m.inv))]
  /\ UNCHANGED <<up, client, active, ended, made>>

\* broker_msg_handle_close, requester_stream_closed and remote_invoke_req_closed
CloseStream(l) ==
  LET s == reqTab[l][Head(toBroker[l]).rid] IN
  /\ Request(l, "close")
  /\ IF s = NoStream THEN UNCHANGED <<streams, reqTab, respTab, toLink>>
     ELSE FreeStream(s) /\ toLink' = Sent(s.resp, Close(s.prid))
  /\ UNCHANGED <<up, nodeRid, client, active, ended, made>>

\* broker_handle_resp of an invocation; a rid that is not known is ignored
ForwardResponse(l) ==
  LET m == Head(toBroker[l])
      s == respTab[l][m.rid]
  IN
  /\ Request(l, "resp")
  /\ toLink' = IF s = NoStream THEN toLink ELSE Sent(s.req, Response(s.rrid, m.closed, m.inv))
  /\ IF s # NoStream /\ m.closed THEN FreeStream(s) ELSE UNCHANGED <<streams, reqTab, respTab>>
  /\ UNCHANGED <<up, nodeRid, client, active, ended, made>>

\* What m is told when l is lost: of the streams that l requested, and then of
\* those that it served, each in the order of a table
Asked(l, m)  == {Close(s.prid) : s \in {t \in streams : t.req = l /\ t.resp = m}}
Served(l, m) == {Response(s.rrid, TRUE, 0) : s \in {t \in streams : t.resp = l /\ t.req = m}}
Orders(S) == {q \in [1..Cardinality(S) -> S] : IsInjective(q)}
Told(l, m) == {toLink[m] \o a \o b : a \in Orders(Asked(l, m)), b \in Orders(Served(l, m))}

\* Mutant: the requesters of a lost responder are told nothing.
DisconnectSilently(l) ==
  LET asked(m) == {toLink[m] \o a : a \in Orders(Asked(l, m))} IN
  /\ l \in up /\ up' = up \ {l}
  /\ streams' = {s \in streams : s.req # l /\ s.resp # l}
  /\ reqTab' = [m \in Links |-> [r \in Rids |->
                 IF reqTab[m][r] \in streams' THEN reqTab[m][r] ELSE NoStream]]
  /\ respTab' = [m \in Links |-> [r \in PRids |->
                  IF respTab[m][r] \in streams' THEN respTab[m][r] ELSE NoStream]]
  /\ toLink' \in {q \in [Links -> UNION {asked(m) : m \in Links} \cup {<<>>}] :
                    \A m \in Links : IF m = l THEN q[m] = <<>> ELSE q[m] \in asked(m)}
  /\ toBroker' = [toBroker EXCEPT ![l] = <<>>]
  /\ client' = [client EXCEPT ![l] = [r \in Rids |-> Unused]]
  /\ active' = [active EXCEPT ![l] = {}] /\ ended' = [ended EXCEPT ![l] = {}]
  /\ UNCHANGED <<nodeRid, made>>
\* broker_close_link and broker_remote_dslink_free: the streams it requested
\* are closed at their responders, then those it served are closed at their
\* requesters, in the order of the tables; all are freed. A dslink that lost
\* its connection starts again with new tables.
Disconnect(l) ==
  /\ l \in up /\ up' = up \ {l}
  /\ streams' = {s \in streams : s.req # l /\ s.resp # l}
  /\ reqTab' = [m \in Links |-> [r \in Rids |->
                 IF reqTab[m][r] \in streams' THEN reqTab[m][r] ELSE NoStream]]
  /\ respTab' = [m \in Links |-> [r \in PRids |->
                  IF respTab[m][r] \in streams' THEN respTab[m][r] ELSE NoStream]]
  /\ toLink' \in {q \in [Links -> UNION {Told(l, m) : m \in Links} \cup {<<>>}] :
                    \A m \in Links : IF m = l THEN q[m] = <<>> ELSE q[m] \in Told(l, m)}
  /\ toBroker' = [toBroker EXCEPT ![l] = <<>>]
  /\ client' = [client EXCEPT ![l] = [r \in Rids |-> Unused]]
  /\ active' = [active EXCEPT ![l] = {}] /\ ended' = [ended EXCEPT ![l] = {}]
  /\ UNCHANGED <<nodeRid, made>>

-----------------------------------------------------------------------------
\* What a dslink takes from the broker
Receive(l, kind) ==
  /\ l \in up /\ toLink[l] # <<>> /\ Head(toLink[l]).kind = kind
  /\ toLink' = [toLink EXCEPT ![l] = Tail(@)]

\* dslink_request_handle of an invoke: no such action, and no answer; an action
\* that answers and is done; or one that keeps its stream
ReceiveInvoke(l) ==
  LET m == Head(toLink[l]) IN
  /\ Receive(l, "invoke")
  /\ \/ UNCHANGED <<toBroker, active>>
     \/ /\ toBroker' = [toBroker EXCEPT ![l] = Append(@, Response(m.rid, TRUE, m.inv))]
        /\ UNCHANGED active
     \/ /\ active' = [active EXCEPT ![l] = @ \cup {<<m.rid, m.inv>>}]
        /\ UNCHANGED toBroker
  /\ UNCHANGED <<up, tables, client, ended, made>>

\* The application answers an invocation that it kept, for the last time
\* perhaps; the SDK keeps the stream.
Answer(l, e, closed) ==
  /\ l \in up /\ e \in active[l] \ ended[l]
  /\ Len(toBroker[l]) < MaxQueue /\ \A m \in Links : Len(toLink[m]) < MaxQueue
  /\ toBroker' = [toBroker EXCEPT ![l] = Append(@, Response(e[1], closed, e[2]))]
  /\ ended' = IF closed THEN [ended EXCEPT ![l] = @ \cup {e}] ELSE ended
  /\ UNCHANGED <<up, tables, toLink, client, active, made>>

\* dslink_request_handle of a close
ReceiveClose(l) ==
  LET gone == {e \in active[l] : e[1] = Head(toLink[l]).rid} IN
  /\ Receive(l, "close")
  /\ active' = [active EXCEPT ![l] = @ \ gone] /\ ended' = [ended EXCEPT ![l] = @ \ gone]
  /\ UNCHANGED <<up, tables, toBroker, client, made>>

\* dslink_response_handle
ReceiveResponse(l) ==
  LET m == Head(toLink[l]) IN
  /\ Receive(l, "resp")
  /\ client' = IF m.closed THEN [client EXCEPT ![l][m.rid].state = "ended"] ELSE client
  /\ UNCHANGED <<up, tables, toBroker, active, ended, made>>

Init ==
  /\ up = {} /\ streams = {}
  /\ reqTab = [l \in Links |-> [r \in Rids |-> NoStream]]
  /\ respTab = [l \in Links |-> [r \in PRids |-> NoStream]]
  /\ nodeRid = [l \in Links |-> 0]
  /\ toBroker = [l \in Links |-> <<>>] /\ toLink = [l \in Links |-> <<>>]
  /\ client = [l \in Links |-> [r \in Rids |-> Unused]]
  /\ active = [l \in Links |-> {}] /\ ended = [l \in Links |-> {}]
  /\ made = 0

Next ==
  \E l \in Links :
    \/ Connect(l)
    \/ Disconnect(l)
    \/ \E rid \in Rids : ClientClose(l, rid) \/ \E to \in Links : ClientInvoke(l, rid, to)
    \/ RefuseInvoke(l)
    \/ ForwardInvoke(l)
    \/ ReplaceInvoke(l)
    \/ CloseStream(l)
    \/ ForwardResponse(l)
    \/ ReceiveInvoke(l)
    \/ \E e \in active[l], closed \in BOOLEAN : Answer(l, e, closed)
    \/ ReceiveClose(l)
    \/ ReceiveResponse(l)

Spec == Init /\ [][Next]_vars
-----------------------------------------------------------------------------
(***************************************************************************)
(* Properties.                                                             *)
(***************************************************************************)
\* The type of every variable.
TypeOK ==
  /\ up \subseteq Links
  /\ streams \subseteq Stream /\ IsFiniteSet(streams)
  /\ reqTab \in [Links -> [Rids -> Stream \cup {NoStream}]]
  /\ respTab \in [Links -> [PRids -> Stream \cup {NoStream}]]
  /\ nodeRid \in [Links -> 0..MaxRid]
  /\ toBroker \in [Links -> Seq(FromLink)] /\ toLink \in [Links -> Seq(FromBroker)]
  /\ client \in [Links -> [Rids -> View]]
  /\ active \in [Links -> SUBSET (PRids \X Invs)] /\ ended \in [Links -> SUBSET (PRids \X Invs)]
  /\ made \in 0..MaxInv

\* A stream is in both tables, under its two rids, while both links are up; and
\* the tables hold no stream that was freed.
TablesAgree ==
  /\ \A s \in streams :
       /\ s.req \in up /\ s.resp \in up
       /\ reqTab[s.req][s.rrid] = s /\ respTab[s.resp][s.prid] = s
       /\ s.prid <= nodeRid[s.resp]
  /\ \A l \in Links :
       /\ \A r \in Rids : reqTab[l][r] # NoStream =>
            reqTab[l][r] \in streams /\ reqTab[l][r].req = l /\ reqTab[l][r].rrid = r
       /\ \A r \in PRids : respTab[l][r] # NoStream =>
            respTab[l][r] \in streams /\ respTab[l][r].resp = l /\ respTab[l][r].prid = r

Quiet == \A l \in Links : toBroker[l] = <<>> /\ toLink[l] = <<>>

\* When nothing is under way, a requester waits for an invocation exactly while
\* the broker has a stream for it: a lost responder and a refusal were told. And
\* a responder serves no invocation that nobody waits for: a close and a lost
\* requester were passed on.
EndsAgree ==
  Quiet =>
    /\ \A l \in up \cap SdkLinks, r \in Rids : client[l][r].state = "open" <=> reqTab[l][r] # NoStream
    /\ \A l \in up : \A e \in active[l] \ ended[l] : respTab[l][e[1]] # NoStream

\* A requester never gets a response after the end of an invocation, nor one to
\* another invocation.
OwnResponses ==
  \A l \in SdkLinks : \A i \in DOMAIN toLink[l] :
    LET m == toLink[l][i] IN
    m.kind = "resp" =>
      /\ m.inv \in {0, client[l][m.rid].inv}
      /\ client[l][m.rid].state \in {"open", "closed"}
      /\ \A j \in 1..(i - 1) :
           toLink[l][j].kind = "resp" /\ toLink[l][j].rid = m.rid => ~toLink[l][j].closed
=============================================================================
