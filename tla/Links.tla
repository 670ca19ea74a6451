-------------------------------- MODULE Links --------------------------------
(***************************************************************************)
(* How a dslink gets its session with the broker: a conn request, answered *)
(* with a salt and a path, then a ws request on another socket that proves *)
(* the salt and becomes the session, and again from the start after every  *)
(* failure. The broker gives names, keeps the nodes of its dslinks in      *)
(* conns.json, and may ask for tokens.                                     *)
(*                                                                         *)
(* A salt stands for the RemoteDSLink it was made for. A dslink runs once  *)
(* at a time; when it is killed, what it sent is still on its way.         *)
(***************************************************************************)
EXTENDS Sessions, FiniteSets

CONSTANTS
  TokenOf,    \* the token of a dslink's configuration
  Managed,    \* tokens with $$managed
  MaxFaults   \* bound: failures and administrative actions

ASSUME LinkConstants ==
  /\ TokenOf \in [DsIds -> Tokens] /\ Managed \subseteq Tokens
  /\ MaxFaults \in Nat

VARIABLES
  phase,      \* dslink: waiting to retry, or for the answer to conn or ws, or open
  reply,      \* the answer on its way to the dslink
  requests,   \* HTTP requests on their way to the broker
  faults      \* failures and administrative actions so far

sessions == <<byDsId, byName, links>>
disk == <<conns, tokenFiles>>
client == <<phase, reply>>
config == <<tokensOn, listed>>
history == <<overtaken, orphans>>
vars == <<config, sessions, nodes, tokens, saving, disk, client, requests, used, faults, history>>

Request == [kind : {"conn", "ws"}, dsId : DsIds, salt : Salts \cup {Null}, live : BOOLEAN]
Reply == [kind : {"ok", "error", "eof"}, salt : Salts \cup {Null}]
NoReply == [kind |-> "none", salt |-> Null]
Answer(kind, salt) == [kind |-> kind, salt |-> salt]

TypeOK ==
  /\ tokensOn \in BOOLEAN /\ listed \in BOOLEAN
  /\ byDsId \in [DsIds -> Salts \cup {Null}] /\ byName \in [Children -> Salts \cup {Null}]
  /\ links \in [Salts -> Link \cup {Null}]
  /\ nodes \in [Children -> Node \cup {Null}]
  /\ tokens \in [Tokens -> Counts \cup {Gone}] /\ tokenFiles \in [Tokens -> Counts \cup {Gone}]
  /\ saving \in BOOLEAN /\ conns \in [Children -> Saved \cup {Null}]
  /\ phase \in [DsIds -> {"idle", "conn", "ws", "open"}]
  /\ reply \in [DsIds -> Reply \cup {NoReply}]
  /\ requests \subseteq Request
  /\ used \in [Tokens -> Nat] /\ faults \in 0..MaxFaults
  /\ overtaken \in BOOLEAN /\ orphans \subseteq Salts

Init ==
  /\ tokensOn \in BOOLEAN /\ listed = FALSE
  /\ byDsId = [d \in DsIds |-> Null] /\ byName = [n \in Children |-> Null]
  /\ links = [s \in Salts |-> Null]
  /\ nodes = [n \in Children |-> Null] /\ conns = [n \in Children |-> Null] /\ saving = FALSE
  /\ tokens = Count /\ tokenFiles = Count /\ used = [t \in Tokens |-> 0]
  /\ phase = [d \in DsIds |-> "idle"] /\ reply = [d \in DsIds |-> NoReply]
  /\ requests = {} /\ faults = 0 /\ overtaken = FALSE /\ orphans = {}

InUse == {s \in Salts : links[s] # Null} \cup {m.salt : m \in requests} \cup {reply[d].salt : d \in DsIds}
Unused == Salts \ InUse
NewSalt == CHOOSE s \in Unused : \A x \in Unused : s <= x

\* The answer goes to the dslink if it still has its end of the socket.
Answered(m, a) == reply' = IF m.live THEN [reply EXCEPT ![m.dsId] = a] ELSE reply

\* Mutant: the socket of a refused request stays open.
RefusedSilently(m) == UNCHANGED reply
\* broker_send_internal_error, broker_send_bad_request
Refused(m) == Answered(m, Answer("error", Null))

-----------------------------------------------------------------------------
\* The broker: conn requests

\* The search for a name goes on with one more character. A name that another
\* dslink is connecting with is skipped, but the next one is not looked up in
\* client_connecting again.
NameIndex(d, connecting) ==
  LET Own(n) == nodes[n] = Null \/ nodes[n].dsId = d
      skip(i) == IF connecting[NameOf[d][i]] # Null THEN i + 1 ELSE i
      search[i \in DOMAIN NameOf[d]] ==
        IF Own(NameOf[d][skip(i)]) THEN skip(i) ELSE search[skip(i) + 1]
  IN search[1]

\* Mutant: the name of the older attempt stays in client_connecting.
NamesLeftAll(d) == byName
\* The older attempt of a dslink leaves client_connecting and is freed.
NamesLeft(d) == IF byDsId[d] = Null THEN byName ELSE [byName EXCEPT ![links[byDsId[d]].name] = Null]
LinksLeft(d) == IF byDsId[d] = Null THEN links ELSE [links EXCEPT ![byDsId[d]] = Null]

\* The session that a node has
Held(n) == IF nodes[n] = Null THEN {} ELSE {nodes[n].link} \ {Null}

\* The node of a granted conn request. While someone lists /downstream its
\* link is set for a moment and then to NULL, also when it had one: that session
\* goes on without its node.
Granted(d, n) ==
  [nodes EXCEPT ![n] = [dsId |-> d, meta |-> IF @ = Null THEN Null ELSE @.meta, token |-> TokenOf[d],
                        link |-> IF @ = Null \/ listed THEN Null ELSE @.link]]

\* handle_conn, broker_handshake_handle_conn: an older attempt of the dslink is
\* freed; with tokens the node is made or labelled now, without them by the ws
\* request.
HandleConn(m) ==
  LET d == m.dsId
      t == TokenOf[d]
      n == NameOf[d][NameIndex(d, NamesLeft(d))]
      new == NewSalt
  IN
  /\ m.kind = "conn" /\ requests' = requests \ {m}
  /\ \/ /\ ~tokensOn \/ Valid(t)
        /\ Unused # {}
        /\ byDsId' = [byDsId EXCEPT ![d] = new] /\ byName' = [NamesLeft(d) EXCEPT ![n] = new]
        /\ links' = [LinksLeft(d) EXCEPT ![new] = [who |-> d, name |-> n, open |-> FALSE, live |-> FALSE]]
        /\ IF tokensOn
           THEN /\ nodes' = Granted(d, n) /\ saving' = TRUE
                /\ orphans' = orphans \cup IF listed THEN Held(n) ELSE {}
                /\ tokens' = Spent(t) /\ tokenFiles' = SpentSaved(t)
                /\ used' = [used EXCEPT ![t] = @ + 1]
           ELSE UNCHANGED <<nodes, saving, orphans, tokens, tokenFiles, used>>
        /\ overtaken' = (overtaken \/ NamesLeft(d)[n] # Null)
        /\ Answered(m, Answer("ok", new))
     \/ /\ tokensOn /\ ~Valid(t)
        /\ byDsId' = [byDsId EXCEPT ![d] = Null] /\ byName' = NamesLeft(d) /\ links' = LinksLeft(d)
        /\ Refused(m)
        /\ UNCHANGED <<nodes, saving, tokens, tokenFiles, used, history>>
  /\ UNCHANGED <<config, conns, phase, faults>>

-----------------------------------------------------------------------------
\* The broker: ws requests and the end of sessions

\* broker_close_link: the node is found by the name of the link, and has no
\* link then, whichever it had
Detached(ns, n) == IF ns[n] = Null THEN ns ELSE [ns EXCEPT ![n].link = Null]

\* Mutant: the older session of the node is not closed.
EndedNone(node) == links
\* The older session of the node is closed.
Ended(node) == IF node.link = Null THEN links ELSE [links EXCEPT ![node.link] = Null]

\* Mutant: a new node is not saved.
SaveNone(changed) == saving
\* broker_downstream_nodes_changed
SaveDue(changed) == saving \/ changed

\* handle_ws, broker_handshake_handle_ws: both entries of the attempt are gone
\* before the salt is checked.
HandleWs(m) ==
  LET d == m.dsId
      l == byDsId[d]
      n == links[l].name
      new == nodes[n] = Null
      node == IF new THEN [dsId |-> d, meta |-> Null, token |-> Null, link |-> Null] ELSE nodes[n]
  IN
  /\ m.kind = "ws" /\ requests' = requests \ {m}
  /\ IF l = Null
     THEN Refused(m) /\ UNCHANGED <<sessions, nodes, saving>>
     ELSE /\ byDsId' = [byDsId EXCEPT ![d] = Null] /\ byName' = [byName EXCEPT ![n] = Null]
          /\ IF m.salt # l
             THEN links' = [links EXCEPT ![l] = Null] /\ Refused(m) /\ UNCHANGED <<nodes, saving>>
             ELSE /\ links' = [Ended(node) EXCEPT ![l] = [@ EXCEPT !.open = TRUE, !.live = m.live]]
                  /\ nodes' = [nodes EXCEPT ![n] = [node EXCEPT !.meta = d, !.link = l]]
                  /\ saving' = SaveDue(new)
                  /\ Answered(m, Answer("ok", Null))
  /\ UNCHANGED <<config, tokens, disk, phase, used, faults, history>>

\* broker_close_link: of a session that is not its node's it detaches the one
\* that is.
CloseLink(s) ==
  /\ links[s] # Null /\ links[s].open
  /\ links' = [links EXCEPT ![s] = Null] /\ nodes' = Detached(nodes, links[s].name)
  /\ orphans' = IF s \in orphans THEN (orphans \cup Held(links[s].name)) \ {s} ELSE orphans
  /\ UNCHANGED <<config, byDsId, byName, tokens, saving, disk, client, requests, used, overtaken>>

\* The socket has ended: pendingClose.
LinkEnds(s) == CloseLink(s) /\ ~links[s].live /\ UNCHANGED faults

\* dslink_handle_ping: nothing was received for 90 seconds.
LinkSilent(s) == CloseLink(s) /\ links[s].live /\ faults < MaxFaults /\ faults' = faults + 1

\* clear_conns: the nodes without a link are freed.
ClearConns ==
  /\ faults < MaxFaults /\ faults' = faults + 1
  /\ nodes' = [n \in Children |-> IF nodes[n] = Null \/ nodes[n].link = Null THEN Null ELSE nodes[n]]
  /\ saving' = TRUE
  /\ UNCHANGED <<config, sessions, tokens, disk, client, requests, used, history>>

\* The first requester lists /downstream, or the last one has stopped. It matters
\* with tokens only.
ListDownstream ==
  /\ tokensOn /\ listed' = ~listed
  /\ UNCHANGED <<tokensOn, sessions, nodes, tokens, saving, disk, client, requests, used, faults, history>>

\* clear_managed_link: the nodes that were made with the token
NodesOf(t) == {n \in Children : nodes[n] # Null /\ nodes[n].token = t}

\* delete_token_invoke
DeleteToken(t) ==
  LET cleared == IF t \in Managed THEN NodesOf(t) ELSE {} IN
  /\ tokensOn /\ tokens[t] # Gone /\ faults < MaxFaults /\ faults' = faults + 1
  /\ links' = [s \in Salts |-> IF \E n \in cleared : nodes[n].link = s THEN Null ELSE links[s]]
  /\ nodes' = [n \in Children |-> IF n \in cleared THEN Null ELSE nodes[n]]
  /\ saving' = SaveDue(cleared # {})
  /\ tokens' = [tokens EXCEPT ![t] = Gone] /\ tokenFiles' = [tokenFiles EXCEPT ![t] = Gone]
  /\ UNCHANGED <<config, byDsId, byName, conns, client, requests, used, history>>

-----------------------------------------------------------------------------
\* The broker: storage and restarts

\* broker_save_downstream_nodes, by the timer of broker_downstream_nodes_changed
Save ==
  /\ saving /\ saving' = FALSE /\ conns' = Stored
  /\ UNCHANGED <<config, sessions, nodes, tokens, tokenFiles, client, requests, used, faults, history>>

\* broker_load_downstream_nodes: a node without $$dsId is skipped.
Loaded == [n \in Children |-> IF conns[n] = Null \/ conns[n].meta = Null THEN Null
                           ELSE [dsId |-> conns[n].meta, meta |-> conns[n].meta, token |-> conns[n].token, link |-> Null]]

\* The broker is stopped or killed, and started again. A dslink that waits for
\* an answer sees the end of its socket.
Restart ==
  /\ faults < MaxFaults /\ faults' = faults + 1
  /\ byDsId' = [d \in DsIds |-> Null] /\ byName' = [n \in Children |-> Null] /\ links' = [s \in Salts |-> Null]
  /\ nodes' = Loaded /\ tokens' = tokenFiles /\ saving' = FALSE
  /\ requests' = {} /\ listed' = FALSE /\ orphans' = {}
  /\ reply' = [d \in DsIds |-> IF \E m \in requests : m.dsId = d /\ m.live THEN Answer("eof", Null) ELSE reply[d]]
  /\ UNCHANGED <<tokensOn, disk, phase, used, overtaken>>

-----------------------------------------------------------------------------
\* The dslink

\* dslink_handshake_generate
SendConn(d) ==
  /\ phase[d] = "idle" /\ phase' = [phase EXCEPT ![d] = "conn"]
  /\ requests' = requests \cup {[kind |-> "conn", dsId |-> d, salt |-> Null, live |-> TRUE]}
  /\ UNCHANGED <<config, sessions, nodes, tokens, saving, disk, reply, used, faults, history>>

\* dslink_init_do with the answer to conn: the ws request, or another attempt
\* after five seconds
ConnAnswer(d) ==
  /\ phase[d] = "conn" /\ reply[d] # NoReply /\ reply' = [reply EXCEPT ![d] = NoReply]
  /\ IF reply[d].kind = "ok"
     THEN /\ phase' = [phase EXCEPT ![d] = "ws"]
          /\ requests' = requests \cup {[kind |-> "ws", dsId |-> d, salt |-> reply[d].salt, live |-> TRUE]}
     ELSE phase' = [phase EXCEPT ![d] = "idle"] /\ UNCHANGED requests
  /\ UNCHANGED <<config, sessions, nodes, tokens, saving, disk, used, faults, history>>

\* dslink_handshake_connect_ws: the end of the socket counts as a success.
WsAnswer(d) ==
  /\ phase[d] = "ws" /\ reply[d] # NoReply /\ reply' = [reply EXCEPT ![d] = NoReply]
  /\ phase' = [phase EXCEPT ![d] = IF reply[d].kind = "error" THEN "idle" ELSE "open"]
  /\ UNCHANGED <<config, sessions, nodes, tokens, saving, disk, requests, used, faults, history>>

\* The session of a dslink at the broker
Session(d, s) == links[s] # Null /\ links[s].who = d /\ links[s].live

\* dslink_handshake_handle_ws returns when the broker has closed the socket.
SocketEnds(d) ==
  /\ phase[d] = "open" /\ \A s \in Salts : ~Session(d, s)
  /\ phase' = [phase EXCEPT ![d] = "idle"]
  /\ UNCHANGED <<config, sessions, nodes, tokens, saving, disk, reply, requests, used, faults, history>>

\* The dslink is killed, or gives up a socket that fails or is silent for 90
\* seconds. What it sent is lost or arrives later.
Quit(d) ==
  /\ phase[d] # "idle" /\ faults < MaxFaults /\ faults' = faults + 1
  /\ phase' = [phase EXCEPT ![d] = "idle"] /\ reply' = [reply EXCEPT ![d] = NoReply]
  /\ links' = [s \in Salts |-> IF Session(d, s) THEN [links[s] EXCEPT !.live = FALSE] ELSE links[s]]
  /\ LET mine == {m \in requests : m.dsId = d /\ m.live} IN
     \/ requests' = requests \ mine
     \/ requests' = (requests \ mine) \cup {[m EXCEPT !.live = FALSE] : m \in mine}
  /\ UNCHANGED <<config, byDsId, byName, nodes, tokens, saving, disk, used, history>>

-----------------------------------------------------------------------------
Handle(m) == HandleConn(m) \/ HandleWs(m)
Run(d) == SendConn(d) \/ ConnAnswer(d) \/ WsAnswer(d) \/ SocketEnds(d)

Next ==
  \/ \E m \in requests : Handle(m)
  \/ \E s \in Salts : LinkEnds(s) \/ LinkSilent(s)
  \/ ClearConns \/ ListDownstream \/ Save \/ Restart
  \/ \E t \in Tokens : DeleteToken(t)
  \/ \E d \in DsIds : Run(d) \/ Quit(d)

\* The event loop of the broker comes to every request, and a dslink retries
\* after five seconds for ever.
Fairness ==
  /\ \A d \in DsIds : WF_vars(Run(d))
  /\ \A d \in DsIds : WF_vars(\E m \in requests : m.dsId = d /\ Handle(m))
  /\ \A s \in Salts : WF_vars(LinkEnds(s))

Spec == Init /\ [][Next]_vars
FairSpec == Spec /\ Fairness

-----------------------------------------------------------------------------
\* Every dslink gets its session in the end, whatever of its earlier attempts
\* is still on its way (handshake.c:283, dslink.c:704); without tokens.
AllUp == \A d \in DsIds : phase[d] = "open" /\ \E n \in Children :
           nodes[n] # Null /\ nodes[n].dsId = d /\ nodes[n].link # Null /\ Session(d, nodes[n].link)
Reconnects == <>[](tokensOn \/ AllUp)
=============================================================================
