------------------------------ MODULE DataNodes ------------------------------
(***************************************************************************)
(* The nodes below /data, which requesters create, write, publish to and   *)
(* delete, with their files: data.json holds the nodes and their           *)
(* permission lists and is saved 100 ms after a change; a value that is    *)
(* set has a file of its own, written at once. Subscriptions to a node     *)
(* that does not exist wait in local_pending_sub.                          *)
(*                                                                         *)
(* Every request is checked against the permission lists from the root     *)
(* down to its path, for the groups of the link: its dsId and the group of *)
(* its node, which conns.json keeps. A file is written in one step. The    *)
(* limit "permit" of a request and subscriptions that outlive the broker   *)
(* (qos 3) are left out.                                                   *)
(***************************************************************************)
EXTENDS Integers, Sequences

CONSTANTS
  Root, Data,  \* "/" and "/data"
  Paths,       \* paths below /data
  Remote,      \* paths of a dslink, below /downstream: its node and virtual nodes
  Parent,      \* the path above a path, in [Paths \cup Remote -> Paths \cup Remote \cup {Root, Data}]
  OwnId, Admin, Default, \* groups: the dsId of the requester, that of its operator, "default"
  Groups,      \* groups a node can be given
  Lists,       \* permission lists: sequences of pairs of a group and a level
  NoList, Damaged, Absent, NoGroup, Down,
  MaxOps       \* bound: requests that change something, and restarts

NONE == 0  LIST == 1  READ == 2  WRITE == 3  CONFIG == 4

Below == Paths \cup {Data}
Places == Below \cup Remote \cup {Root}

ASSUME PlacesApart ==
  /\ Root # Data /\ {Root, Data} \cap (Paths \cup Remote) = {} /\ Paths \cap Remote = {}
  /\ Parent \in [Paths \cup Remote -> Places]
  /\ \A p \in Paths : Parent[p] \in Below
  /\ \A p \in Remote : Parent[p] \in Remote \cup {Root}
\* The path above a path is shorter.
ASSUME ParentsEnd == \A S \in SUBSET (Paths \cup Remote) : S # {} => \E p \in S : Parent[p] \notin S
ASSUME ListsOfPairs == \A l \in Lists : l \in Seq((Groups \cup {OwnId, Admin, Default}) \X (NONE..CONFIG))
ASSUME NamesApart ==
  /\ {NoList, Damaged, Absent} \cap Lists = {} /\ NoList # Damaged /\ Absent \notin {NoList, Damaged}
  /\ NoGroup \notin Groups /\ MaxOps \in Nat

VARIABLES
  nodes,     \* the nodes: /data and those below it that exist
  value,     \* their values: the number of the request that wrote it, or 0
  file,      \* the value files
  list,      \* permission lists, of every place
  listed,    \* nodes with a child "?permissions", made when data.json was loaded
  saved,     \* data.json: Absent or the permission list, by node
  due,       \* saveDataHandler: data.json is to be saved
  group,     \* node->groups of the requester's node
  meta,      \* its "$$group" in node->meta
  session,   \* the groups of the link that the node has, or Down
  orphans,   \* the groups of its links that lost the node and go on
  publishers, \* the groups of links with an open invocation of /data/publish
  conns,     \* conns.json: the lists of the dslink's paths and "$$group"
  dueConns,  \* saveConnsHandler
  sub, got,  \* one subscription by path: "none", "pending" or "joined", and what it was sent
  ops,       \* requests so far
  stray,     \* history: nodes that went with one above them, their files did not
  published, \* history: nodes whose value was published, not set
  skipped    \* history: nodes made by a set while their subscription was pending

treeVars  == <<nodes, value, file, stray, published>>
listVars  == <<list, listed, saved, due>>
linkVars  == <<session, orphans, publishers>>
groupVars == <<group, meta, linkVars, conns, dueConns>>
subVars   == <<sub, got, skipped>>
vars == <<treeVars, listVars, groupVars, subVars, ops>>

\* The links that are connected, by their groups
Requesters == {{Admin}} \cup orphans \cup (IF session = Down THEN {} ELSE {session})

TypeOK ==
  /\ nodes \subseteq Below /\ Data \in nodes /\ listed \subseteq nodes
  /\ value \in [Paths -> 0..MaxOps] /\ file \in [Paths -> 0..MaxOps]
  /\ list \in [Places -> Lists \cup {NoList}]
  /\ saved \in [Below -> Lists \cup {NoList, Damaged, Absent}]
  /\ group \in Groups \cup {NoGroup} /\ meta \in Groups \cup {NoGroup}
  /\ session = Down \/ session \subseteq Groups \cup {OwnId}
  /\ orphans \subseteq SUBSET (Groups \cup {OwnId}) /\ publishers \subseteq Requesters
  /\ conns \in [list : [Remote -> Lists \cup {NoList}], group : Groups \cup {NoGroup}]
  /\ due \in BOOLEAN /\ dueConns \in BOOLEAN
  /\ sub \in [Paths -> {"none", "pending", "joined"}] /\ got \in [Paths -> 0..MaxOps]
  /\ ops \in 0..MaxOps
  /\ stray \subseteq Paths /\ published \subseteq Paths /\ skipped \subseteq Paths

-----------------------------------------------------------------------------
(***************************************************************************)
(* Permissions.                                                            *)
(***************************************************************************)
\* The path above p; the root is its own.
Up(p) == IF p \in {Root, Data} THEN Root ELSE Parent[p]

Higher(m, n) == IF m < n THEN n ELSE m

\* The first pair of a list for the group or for "default" counts.
PairLevel(l, g) ==
  LET match == {i \in DOMAIN l : l[i][1] \in {g, Default}} IN
  IF match = {} THEN NONE ELSE l[CHOOSE i \in match : \A j \in match : i <= j][2]

\* Mutant: the list of a node replaces what the nodes above it grant.
LastRaised(levels, p) ==
  IF list[p] = NoList THEN levels ELSE [g \in DOMAIN levels |-> PairLevel(list[p], g)]
\* get_current_permission: a list can only raise the levels, and CONFIG for one
\* group ends the descent.
Raised(levels, p) ==
  IF list[p] = NoList \/ \E g \in DOMAIN levels : levels[g] = CONFIG THEN levels
  ELSE [g \in DOMAIN levels |-> Higher(levels[g], PairLevel(list[p], g))]

\* get_node_permission and get_virtual_permission, from the root down to every place
Levels(groups) ==
  LET at[p \in Places] == Raised(IF p = Root THEN [g \in groups |-> NONE] ELSE at[Up(p)], p)
  IN at

\* get_permission; without a list at the root everything is granted
Level(groups, p) ==
  LET levels == Levels(groups)[p] IN
  IF list[Root] = NoList THEN CONFIG
  ELSE levels[CHOOSE g \in groups : \A h \in groups : levels[h] <= levels[g]]

\* What saves the permission list of a path: that of "/" is saved at once, that
\* of "/data" with the next change of another node.
SaveList(p) ==
  /\ due' = (due \/ p \in Paths)
  /\ dueConns' = (dueConns \/ p \in Remote)

\* update_permissions: the action is for everyone who reads, the list for those who
\* have CONFIG at its path.
MayChange(by, p) == Level(by, Root) >= READ /\ Level(by, p) = CONFIG

\* set_permission_list; an empty list is none.
SetList(by, p, l) ==
  /\ ops < MaxOps /\ ops' = ops + 1
  /\ MayChange(by, p)
  /\ p \in nodes \cup Remote \cup {Root}
  /\ list' = [list EXCEPT ![p] = l]
  /\ SaveList(p)
  /\ UNCHANGED <<treeVars, listed, saved, group, meta, linkVars, conns, subVars>>

\* The invocations of a link end with it; another one with its groups may be an
\* orphan.
Published(ended) == publishers \ ({ended} \ orphans)

\* Mutant: the link stays connected.
LinkKept == session
\* update_permission_group closes the link of the node, if it has one.
LinkClosed == Down

\* update_permission_group
UpdateGroup(by, g) ==
  /\ ops < MaxOps /\ ops' = ops + 1
  /\ Level(by, Root) = CONFIG
  /\ group' = g /\ meta' = g /\ session' = LinkClosed /\ dueConns' = TRUE
  /\ publishers' = Published(session)
  /\ UNCHANGED <<treeVars, listVars, orphans, conns, subVars>>

\* The node has lost its link, which goes on without it.
Orphaned(others) == orphans' = others \cup ({session} \ {Down}) /\ session' = Down

\* broker_handshake_handle_conn, with a token that has the group g or none: only
\* the meta of the node gets it. While someone lists /downstream the node loses
\* its link.
TokenGroup(g) ==
  /\ ops < MaxOps /\ ops' = ops + 1
  /\ meta' = IF g = NoGroup THEN meta ELSE g
  /\ dueConns' = TRUE
  /\ Orphaned(orphans) \/ UNCHANGED <<session, orphans>>
  /\ UNCHANGED <<treeVars, listVars, group, publishers, conns, subVars>>

\* permission_groups_load
GroupsOf(g) == {OwnId} \cup (IF g = NoGroup THEN {} ELSE {g})

\* broker_handshake_handle_ws: an older link of the node is closed
Connect ==
  /\ session' = GroupsOf(group) /\ publishers' = Published(session)
  /\ UNCHANGED <<treeVars, listVars, group, meta, orphans, conns, dueConns, subVars, ops>>

\* broker_close_link, of the node's link
Disconnect ==
  /\ session # Down /\ session' = Down /\ publishers' = Published(session)
  /\ UNCHANGED <<treeVars, listVars, group, meta, orphans, conns, dueConns, subVars, ops>>

\* broker_close_link, of an orphan: the node loses the link it has.
OrphanEnds(o) ==
  /\ o \in orphans
  /\ \E others \in {orphans, orphans \ {o}} :
       /\ Orphaned(others)
       /\ publishers' = publishers \ ({o} \ orphans')
  /\ UNCHANGED <<treeVars, listVars, group, meta, conns, dueConns, subVars, ops>>

-----------------------------------------------------------------------------
(***************************************************************************)
(* Nodes, values and subscriptions.                                        *)
(***************************************************************************)
\* p and the paths above it, up to /data
Above[p \in Below] == {p} \cup (IF p = Data THEN {} ELSE Above[Parent[p]])
Missing(p) == Above[p] \ nodes

\* Mutant: nothing is attached.
AttachedNone(made) == {}
\* handle_pending_sub, for nodes
Attached(made) == {m \in made \cap Paths : sub[m] = "pending"}

\* The actions of a node, "$invokable" with "write"
MayInvoke(by, p) == Level(by, p) >= WRITE

\* broker_handle_local_subscribe sends the value there is.
Joined(attached) ==
  /\ sub' = [m \in Paths |-> IF m \in attached THEN "joined" ELSE sub[m]]
  /\ got' = [m \in Paths |-> IF m \in attached /\ value'[m] # 0 THEN value'[m]
                             ELSE IF sub[m] = "joined" /\ value'[m] # value[m] THEN value'[m]
                             ELSE got[m]]

\* broker_create_dynamic_data_node and broker_node_update_value: of every node it
\* makes, the subscriptions of its parent are looked for, not its own.
Written(p, v) ==
  LET parents  == {Parent[m] : m \in Missing(p)}
      attached == Attached(parents)
  IN
  /\ nodes' = nodes \cup Missing(p)
  /\ value' = [value EXCEPT ![p] = v]
  /\ Joined(attached)
  /\ skipped' = (skipped \ attached) \cup {m \in {p} \cap Missing(p) : sub[m] = "pending"}
  /\ due' = (due \/ Missing(p) # {})

\* Mutant: the value stays in memory.
FileLeft(p, v) == file
\* broker_data_node_update
FileWritten(p, v) == [file EXCEPT ![p] = v]

\* broker_msg_handle_set, a value below /data
Set(by, p) ==
  /\ ops < MaxOps /\ ops' = ops + 1
  /\ Level(by, p) >= WRITE
  /\ Written(p, ops + 1)
  /\ file' = FileWritten(p, ops + 1)
  /\ stray' = stray \ {p} /\ published' = published \ {p}
  /\ UNCHANGED <<list, listed, saved, groupVars>>

\* on_publish_invoked; the level is that of the action, /data/publish. More values
\* on the same invocation, on_publish_continuous_invoked, are not checked.
Publish(by, p) ==
  /\ ops < MaxOps /\ ops' = ops + 1
  /\ MayInvoke(by, Data) \/ by \in publishers
  /\ publishers' = publishers \cup {by}
  /\ Written(p, ops + 1)
  /\ published' = published \cup {p}
  /\ UNCHANGED <<file, stray, list, listed, saved, group, meta, session, orphans, conns, dueConns>>

\* on_add_node_invoked and on_add_value_invoked
AddNode(by, p) ==
  /\ ops < MaxOps /\ ops' = ops + 1
  /\ Parent[p] \in nodes /\ p \notin nodes
  /\ MayInvoke(by, Parent[p])
  /\ nodes' = nodes \cup {p} /\ due' = TRUE
  /\ UNCHANGED value
  /\ Joined(Attached({p}))
  /\ UNCHANGED <<file, stray, published, list, listed, saved, groupVars, skipped>>

\* on_delete_node_invoked: the nodes below go with it, their files do not.
DeleteNode(by, p) ==
  LET gone == {p} \cup {d \in nodes : p \in Above[d]} IN
  /\ ops < MaxOps /\ ops' = ops + 1
  /\ p \in nodes /\ MayInvoke(by, p)
  /\ nodes' = nodes \ gone /\ listed' = listed \ gone /\ due' = TRUE
  /\ value' = [m \in Paths |-> IF m \in gone THEN 0 ELSE value[m]]
  /\ file' = [file EXCEPT ![p] = 0]
  /\ list' = [m \in Places |-> IF m \in gone THEN NoList ELSE list[m]]
  /\ sub' = [m \in Paths |-> IF m \in gone /\ sub[m] = "joined" THEN "pending" ELSE sub[m]]
  /\ stray' = (stray \ {p}) \cup {d \in gone \ {p} : file[d] # 0}
  /\ published' = published \ gone /\ skipped' = skipped \ gone
  /\ UNCHANGED <<saved, groupVars, got>>

\* broker_add_new_subscription, of a local path
Subscribe(by, p) ==
  /\ sub[p] = "none" /\ Level(by, p) >= READ
  /\ sub' = [sub EXCEPT ![p] = IF p \in nodes THEN "joined" ELSE "pending"]
  /\ got' = [got EXCEPT ![p] = IF p \in nodes THEN value[p] ELSE 0]
  /\ UNCHANGED <<treeVars, listVars, groupVars, skipped, ops>>

\* broker_free_sub_requester
Unsubscribe(p) ==
  /\ sub[p] # "none"
  /\ sub' = [sub EXCEPT ![p] = "none"] /\ got' = [got EXCEPT ![p] = 0]
  /\ skipped' = skipped \ {p}
  /\ UNCHANGED <<treeVars, listVars, groupVars, ops>>

-----------------------------------------------------------------------------
(***************************************************************************)
(* Files.                                                                  *)
(***************************************************************************)
\* Mutant: the permission list is left out.
SavedBare(p) == IF p \notin nodes THEN Absent ELSE IF p \in listed THEN Damaged ELSE NoList
\* broker_save_data_node: a child "?permissions" overwrites the permission list.
Saved(p) == IF p \notin nodes THEN Absent ELSE IF p \in listed THEN Damaged ELSE list[p]

\* broker_save_data_nodes
Save ==
  /\ due /\ due' = FALSE
  /\ saved' = [p \in Below |-> Saved(p)]
  /\ UNCHANGED <<treeVars, list, listed, groupVars, subVars, ops>>

\* broker_save_downstream_nodes
SaveConns ==
  /\ dueConns /\ dueConns' = FALSE
  /\ conns' = [list |-> [p \in Remote |-> list[p]], group |-> meta]
  /\ UNCHANGED <<treeVars, listVars, group, meta, linkVars, subVars, ops>>

\* broker_load_data_nodes and deserialize_data_node_values
Loaded == {Data} \cup {p \in Below : saved[p] # Absent}
            \cup UNION {Above[p] : p \in {q \in Paths : file[q] # 0}}
\* permission_list_load; for the root it is the list of the configuration.
LoadedList(p) ==
  CASE p \in Remote -> conns.list[p]
    [] p = Root     -> list[Root]
    [] OTHER        -> IF saved[p] \in Lists THEN saved[p] ELSE NoList

\* The broker ends, at any moment, and is started again.
Restart ==
  /\ ops < MaxOps /\ ops' = ops + 1
  /\ nodes' = Loaded /\ value' = file
  /\ list' = [p \in Places |-> LoadedList(p)]
  /\ listed' = {p \in Below : saved[p] \notin {Absent, NoList}}
  /\ group' = conns.group /\ meta' = conns.group
  /\ session' = Down /\ orphans' = {} /\ publishers' = {}
  /\ due' = FALSE /\ dueConns' = FALSE
  /\ sub' = [p \in Paths |-> "none"] /\ got' = [p \in Paths |-> 0]
  /\ stray' = {} /\ published' = {} /\ skipped' = {}
  /\ UNCHANGED <<file, saved, conns>>

-----------------------------------------------------------------------------
\* A broker that was never used, with a default permission list.
Init ==
  /\ nodes = {Data} /\ value = [p \in Paths |-> 0] /\ file = [p \in Paths |-> 0]
  /\ \E l \in Lists : list = [p \in Places |-> IF p = Root THEN l ELSE NoList]
  /\ listed = {} /\ saved = [p \in Below |-> Absent] /\ due = FALSE
  /\ group = NoGroup /\ meta = NoGroup
  /\ session = Down /\ orphans = {} /\ publishers = {}
  /\ conns = [list |-> [p \in Remote |-> NoList], group |-> NoGroup] /\ dueConns = FALSE
  /\ sub = [p \in Paths |-> "none"] /\ got = [p \in Paths |-> 0]
  /\ ops = 0 /\ stray = {} /\ published = {} /\ skipped = {}

Request(by) ==
  \/ \E p \in Paths : \/ Set(by, p) \/ Publish(by, p) \/ AddNode(by, p) \/ DeleteNode(by, p)
                      \/ Subscribe(by, p)
  \/ \E p \in Places, l \in Lists \cup {NoList} : SetList(by, p, l)
  \/ \E g \in Groups \cup {NoGroup} : UpdateGroup(by, g)

Next ==
  \/ \E by \in Requesters : Request(by)
  \/ \E p \in Paths : Unsubscribe(p)
  \/ \E g \in Groups \cup {NoGroup} : TokenGroup(g)
  \/ \E o \in orphans : OrphanEnds(o)
  \/ Connect \/ Disconnect \/ Save \/ SaveConns \/ Restart

Spec == Init /\ [][Next]_vars

-----------------------------------------------------------------------------
(***************************************************************************)
(* Properties.                                                             *)
(***************************************************************************)
\* A value that was set is in its file, and a file without a node is gone, so
\* that a crash at any moment loses no value that was set and brings back no
\* value of a node that was deleted by name. Values that were published, and the
\* files of nodes that went with one above them (data.c:81), are what differs.
ValuesOnDisk == \A p \in Paths \ (published \cup stray) : file[p] = value[p]

\* Once data.json is saved, a restart has every node of now with its permission
\* list, and no node that was deleted but those whose stray files call them back
\* (data.c:76, 320). A list is lost after the restart that gave its node a child
\* "?permissions" (node_serialization.c:226); that of "/data" is not saved of
\* itself. Once conns.json is saved, so are the lists of the dslinks' paths and the
\* group that the dslink's node was given last, by an operator or with a token.
RestartRestores ==
  /\ ~due => /\ nodes \subseteq Loaded
             /\ Loaded \ nodes \subseteq UNION {Above[s] : s \in stray}
             /\ \A p \in nodes \ (listed \cup {Data}) : LoadedList(p) = list[p]
  /\ ~dueConns => conns.group = meta /\ \A p \in Remote : LoadedList(p) = list[p]

\* A subscription waits only while its node does not exist, and is sent the value
\* of its node whatever is created, deleted or created anew; the exception is a
\* node that is made by a set or a publish while it waits, as the subscriptions
\* of the parent are looked for (data.c:226).
SubsAttached ==
  \A p \in Paths :
    /\ sub[p] = "joined" => p \in nodes /\ (value[p] # 0 => got[p] = value[p])
    /\ sub[p] = "pending" => p \notin nodes \/ p \in skipped

\* A grant holds for everything below it: no list further down takes it away
\* (permission.c:95), whatever groups a requester has.
GrantsReachDown ==
  \A groups \in Requesters, p \in Paths \cup Remote : Level(groups, Parent[p]) <= Level(groups, p)

\* The link that a node has acts with the groups the node has now: when they
\* change it is closed, and the next one loads them (permission_action.c:151). A
\* link that lost its node while /downstream was listed is not closed then: it
\* acts with the groups it had until it ends (handshake.c:192).
SessionGroups == session # Down => session = GroupsOf(group)
=============================================================================
