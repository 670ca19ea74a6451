------------------------------ MODULE Sessions ------------------------------
(***************************************************************************)
(* What the broker keeps of its dslinks: the nodes below /downstream, from *)
(* which names are given and which conns.json holds, the attempts that     *)
(* have asked for a session (client_connecting), and the sessions. How     *)
(* dslinks get them is in Links.                                           *)
(***************************************************************************)
EXTENDS TokenCounts, Sequences

CONSTANTS
  DsIds,      \* dslinks
  Children,   \* names of children of /downstream
  NameOf,     \* the names a dslink may get: p, p-, p-x, .., of its dsId p-xyz
  Null,
  MaxSalt     \* bound: RemoteDSLinks and salts in use at one time

Salts == 1..MaxSalt

ASSUME SessionConstants ==
  /\ NameOf \in [DsIds -> Seq(Children)] /\ \A d \in DsIds : NameOf[d] # <<>>
  /\ Null \notin Nat \cup DsIds \cup Children \cup Tokens
  /\ MaxSalt \in Nat

VARIABLES
  tokensOn,   \* broker_enable_token
  listed,     \* broker->downstream->list_stream is there
  byDsId,     \* client_connecting, the entries under a dsId
  byName,     \* client_connecting, the entries under a name
  links,      \* the RemoteDSLinks
  nodes,      \* broker->downstream->children
  saving,     \* saveConnsHandler is running
  conns,      \* conns.json
  overtaken,  \* history: an attempt was given the name of another one
  orphans     \* history: the sessions whose node was given up while they went on

\* A RemoteDSLink: whose socket it is, its name; whether it is open, and
\* whether the dslink has its end of the socket
Link == [who : DsIds, name : Children, open : BOOLEAN, live : BOOLEAN]
\* A DownstreamNode: dsId, and of its meta $$dsId and $$token
Node == [dsId : DsIds, meta : DsIds \cup {Null}, token : Tokens \cup {Null}, link : Salts \cup {Null}]
Saved == [meta : DsIds \cup {Null}, token : Tokens \cup {Null}]

ASSUME NullIsNone == Null \notin Link /\ Null \notin Node /\ Null \notin Saved

\* broker_save_downstream_nodes
Stored == [n \in Children |-> IF nodes[n] = Null THEN Null ELSE [meta |-> nodes[n].meta, token |-> nodes[n].token]]

\* A dslink that is connecting is in client_connecting twice, under its dsId
\* and under a name of its own, and nothing else is there: no attempt is leaked
\* or left behind when it is replaced, refused or opened (handshake.c:46, 141, 290).
\* The search for a name can end with that of another attempt, when three dslinks
\* of one prefix connect at a time; from then on nothing is claimed.
AttemptsAgree ==
  ~overtaken => \A s \in Salts :
    LET connecting == links[s] # Null /\ ~links[s].open IN
    /\ \A d \in DsIds : byDsId[d] = s <=> connecting /\ links[s].who = d
    /\ \A n \in Children : byName[n] = s <=> connecting /\ links[s].name = n

\* Every session is the link of the node with its name, and that node is the
\* dslink's own: no session takes the node of another dslink, and none lives on
\* without a node when it is replaced, closed or cleared; and no node keeps a
\* session that has ended (handshake.c:339, broker.c:279). A session is orphaned
\* only when a conn request is granted with a token while /downstream is listed
\* (handshake.c:192), and when another orphan of its node ends.
SessionsAgree ==
  ~overtaken =>
    /\ \A s \in Salts \ orphans : links[s] # Null /\ links[s].open =>
         LET n == links[s].name IN nodes[n] # Null /\ nodes[n].link = s /\ nodes[n].dsId = links[s].who
    /\ \A n \in Children : nodes[n] # Null /\ nodes[n].link # Null =>
         LET s == nodes[n].link IN links[s] # Null /\ links[s].open /\ links[s].name = n
    /\ \A s \in orphans : links[s] # Null /\ links[s].open

\* Without tokens conns.json holds the nodes whenever no save is due, so that a
\* restart gives every dslink its name again (node_serialization.c:28).
NodesSaved == ~overtaken /\ ~tokensOn /\ ~saving => conns = Stored
=============================================================================
