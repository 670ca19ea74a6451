------------------------------ MODULE Upstream ------------------------------
(***************************************************************************)
(* Connections of the broker to upstream brokers. Every child of           *)
(* /sys/upstream is the configuration of one and has a file; while it is   *)
(* enabled, the node /upstream/<name> has an UpstreamPoll, which connects, *)
(* checks the connection after half a second, sends its handshake, waits   *)
(* for the answer, opens the websocket, and starts again after a delay     *)
(* when any of this fails.                                                 *)
(*                                                                         *)
(* A poll goes on only through a handle of the event loop that is armed:   *)
(* the check timer, the poll for the answer, the poll of the websocket or  *)
(* the reconnect timer. Url, token and group of a configuration are left   *)
(* out.                                                                    *)
(***************************************************************************)
EXTENDS Integers, FiniteSets

CONSTANTS
  Names,        \* names of upstream brokers
  None,         \* no configuration, no file, no poll
  MaxInterval,  \* the longest delay: 60 seconds
  MaxFaults     \* bound: failures and restarts

ASSUME UpstreamBounds == MaxInterval \in Nat \ {0} /\ MaxFaults \in Nat

Status == {"none", "check", "conn", "ws"}
Handle == {"check", "conn", "ws", "retry"}

\* UpstreamPoll: its status, the handles that are armed, its RemoteDSLink
\* (up: the link of the node; freed: a dangling pointer), the delay before the
\* last attempt, and whether a callback has left it without a handle (history)
Poll == [status : Status, on : SUBSET Handle, link : {"none", "made", "up", "freed"},
         interval : 0..MaxInterval, dropped : BOOLEAN]
\* A child of /sys/upstream, with its children name and enabled
Entry == [name : Names, enabled : BOOLEAN]

ASSUME NoneIsNothing == None \notin Poll /\ None \notin Entry /\ None \notin Names

VARIABLES
  config,   \* children of /sys/upstream
  files,    \* their files
  poll,     \* node->upstreamPoll of the children of /upstream
  renamed,  \* history: a child "name" was set
  faults    \* failures and restarts so far

vars == <<config, files, poll, renamed, faults>>

TypeOK ==
  /\ config \in [Names -> Entry \cup {None}] /\ files \in [Names -> Entry \cup {None}]
  /\ poll \in [Names -> Poll \cup {None}]
  /\ renamed \in BOOLEAN /\ faults \in Nat

NewPoll == [status |-> "none", on |-> {}, link |-> "none", interval |-> 0, dropped |-> FALSE]

\* Something goes well, or not.
Attempt(ok) ==
  /\ ok \/ faults < MaxFaults
  /\ faults' = IF ok THEN faults ELSE faults + 1

-----------------------------------------------------------------------------
\* Mutant: the poll of the websocket is not stopped.
ClearedButWs(p) ==
  LET closed == {"retry"} \cup IF p.status \in {"conn", "check"} THEN {"conn", "check"} ELSE {} IN
  [p EXCEPT !.on = @ \ closed, !.status = "none", !.link = "none"]
\* upstream_clear_poll: the handles of the status, and the reconnect timer, are
\* closed; the link is closed and freed.
Cleared(p) ==
  LET closed == CASE p.status \in {"conn", "check"} -> {"conn", "check", "retry"}
                  [] p.status = "ws"                -> {"ws", "retry"}
                  [] OTHER                          -> {"retry"}
  IN [p EXCEPT !.on = @ \ closed, !.status = "none", !.link = "none"]

\* Mutant: no timer is started when the delay has its limit.
ReconnectedBelow(p) ==
  LET q == Cleared(p) IN
  IF q.interval < MaxInterval THEN [q EXCEPT !.on = @ \cup {"retry"}, !.interval = @ + 1] ELSE q
\* upstream_reconnect
Reconnected(p) ==
  [Cleared(p) EXCEPT !.on = @ \cup {"retry"},
                     !.interval = IF @ < MaxInterval THEN @ + 1 ELSE @]

\* upstream_connect_conn: connect is under way, or was refused at once.
Dialed(p, ok) ==
  LET q == [p EXCEPT !.link = "made"] IN
  IF ok THEN [q EXCEPT !.status = "check", !.on = @ \cup {"check"}] ELSE Reconnected(q)

\* upstream_create_poll: a node that has a poll keeps it.
Created(n, ok) ==
  IF poll[n] = None THEN [poll EXCEPT ![n] = Dialed(NewPoll, ok)] ELSE poll

Armed(n, h) == poll[n] # None /\ h \in poll[n].on
Fired(n, h) == [poll[n] EXCEPT !.on = @ \ {h}]

\* upstrem_handle_reconnect
Retry(n) ==
  /\ Armed(n, "retry")
  /\ \E ok \in BOOLEAN :
       /\ Attempt(ok)
       /\ poll' = [poll EXCEPT ![n] = Dialed(Fired(n, "retry"), ok)]
  /\ UNCHANGED <<config, files, renamed>>

\* upstream_check_conn: not connected after half a second is a failure, too; so
\* is a handshake that cannot be sent.
CheckConn(n) ==
  LET p == Fired(n, "check") IN
  /\ Armed(n, "check")
  /\ \/ Attempt(TRUE) /\ poll' = [poll EXCEPT ![n] = [p EXCEPT !.status = "conn", !.on = @ \cup {"conn"}]]
     \/ Attempt(FALSE) /\ poll' = [poll EXCEPT ![n] = Reconnected(p)]
     \/ Attempt(FALSE) /\ poll' = [poll EXCEPT ![n] = Reconnected([p EXCEPT !.status = "conn"])]
  /\ UNCHANGED <<config, files, renamed>>

\* init_upstream_node: the link is that of the node
Attached(p) == [p EXCEPT !.link = "up"]
\* upstream_handshake_handle_ws, then the status and the delay
Opened(p) == [Attached(p) EXCEPT !.status = "ws", !.on = @ \cup {"ws"}, !.interval = 0]

\* connect_conn_callback: no answer or no websocket is a failure; an answer
\* without wsUri, tempKey or salt ends the attempt without another one.
Answer(n) ==
  LET p == Fired(n, "conn") IN
  /\ Armed(n, "conn")
  /\ \/ Attempt(TRUE) /\ poll' = [poll EXCEPT ![n] = Opened(p)]
     \/ Attempt(FALSE) /\ \E status \in {"conn", "none"} :
          poll' = [poll EXCEPT ![n] = Reconnected([p EXCEPT !.status = status])]
     \/ Attempt(FALSE) /\ poll' = [poll EXCEPT ![n] = [p EXCEPT !.dropped = TRUE]]
  /\ UNCHANGED <<config, files, renamed>>

\* upstream_io_handler: the socket has failed or ended. If it was writable at
\* the same time, the process goes on with the context that was cleared and
\* ends: Restart.
IoFails(n) ==
  /\ Armed(n, "ws") /\ Attempt(FALSE)
  /\ poll' = [poll EXCEPT ![n] = Reconnected(poll[n])]
  /\ UNCHANGED <<config, files, renamed>>

\* dslink_handle_ping: nothing was received for 90 seconds. The link is closed
\* as that of a dslink is; the poll is not told.
Silent(n) ==
  /\ Armed(n, "ws") /\ Attempt(FALSE)
  /\ poll' = [poll EXCEPT ![n] = [Fired(n, "ws") EXCEPT !.link = "freed", !.dropped = TRUE]]
  /\ UNCHANGED <<config, files, renamed>>

-----------------------------------------------------------------------------
\* A poll that is stopped is cleared and freed. With a dangling link the process
\* may end instead: Restart.
Stopped(n) == [poll EXCEPT ![n] = None]

\* Mutant: the change is not saved.
FilesKept(n) == files
\* save_upstream_node
FilesSaved(n) == [files EXCEPT ![n] = config'[n]]

\* add_upstream_invoke, from the action add_connection
Add(n, enabled) ==
  /\ config[n] = None
  /\ config' = [config EXCEPT ![n] = [name |-> n, enabled |-> enabled]]
  /\ files' = FilesSaved(n)
  /\ IF enabled THEN \E ok \in BOOLEAN : Attempt(ok) /\ poll' = Created(n, ok)
                ELSE UNCHANGED <<poll, faults>>
  /\ UNCHANGED renamed

\* upstream_enable_changed: the poll is stopped by the name of the entry, and
\* started by the value of its child "name".
SetEnabled(n, enabled) ==
  /\ config[n] # None
  /\ config' = [config EXCEPT ![n].enabled = enabled]
  /\ files' = FilesSaved(n)
  /\ IF enabled THEN \E ok \in BOOLEAN : Attempt(ok) /\ poll' = Created(config[n].name, ok)
                ELSE poll' = Stopped(n) /\ UNCHANGED faults
  /\ UNCHANGED renamed

\* The child "name" is writable, and nothing listens to it.
SetName(n, m) ==
  /\ config[n] # None /\ m # config[n].name
  /\ config' = [config EXCEPT ![n].name = m] /\ renamed' = TRUE
  /\ UNCHANGED <<files, poll, faults>>

\* delete_upstream_invoke
Delete(n) ==
  /\ config[n] # None
  /\ config' = [config EXCEPT ![n] = None] /\ files' = [files EXCEPT ![n] = None]
  /\ poll' = Stopped(n)
  /\ UNCHANGED <<renamed, faults>>

\* load_upstreams: of the files with one name the first one counts.
Loaded(m) == {[name |-> m, enabled |-> files[n].enabled] :
                n \in {n \in Names : files[n] # None /\ files[n].name = m}}

\* The broker ends, at any moment, and is started again.
Restart ==
  /\ faults < MaxFaults /\ faults' = faults + 1
  /\ config' \in [Names -> Entry \cup {None}]
  /\ \A m \in Names : IF Loaded(m) = {} THEN config'[m] = None ELSE config'[m] \in Loaded(m)
  /\ \E connecting \in SUBSET Names :
       poll' = [m \in Names |-> IF config'[m] # None /\ config'[m].enabled
                                THEN Dialed(NewPoll, m \in connecting) ELSE None]
  /\ UNCHANGED <<files, renamed>>

-----------------------------------------------------------------------------
Init ==
  /\ config = [n \in Names |-> None] /\ files = [n \in Names |-> None]
  /\ poll = [n \in Names |-> None]
  /\ renamed = FALSE /\ faults = 0

Proceed(n) == Retry(n) \/ CheckConn(n) \/ Answer(n)
Manage(n) ==
  \/ \E enabled \in BOOLEAN : Add(n, enabled) \/ SetEnabled(n, enabled)
  \/ \E m \in Names : SetName(n, m)
  \/ Delete(n)

Next ==
  \/ \E n \in Names : Proceed(n) \/ IoFails(n) \/ Silent(n) \/ Manage(n)
  \/ Restart

Spec == Init /\ [][Next]_vars

\* Timers fire, and the upstream broker answers or closes the socket.
FairSpec == Spec /\ \A n \in Names : WF_vars(Proceed(n))

-----------------------------------------------------------------------------
(***************************************************************************)
(* Properties.                                                             *)
(***************************************************************************)
\* The handle that belongs to a status
HandleOf(status) == IF status = "none" THEN "retry" ELSE status

\* Through every failure a poll keeps exactly one handle, that of its status:
\* it never makes two attempts at once and never stops trying, but in the two
\* ways the code has to drop it (upstream_handshake.c:264, handshake.c:271).
\* The node has its link exactly while the websocket is polled.
OneHandle ==
  \A n \in Names : poll[n] # None =>
    /\ poll[n].on = IF poll[n].dropped THEN {} ELSE {HandleOf(poll[n].status)}
    /\ poll[n].link = "up" <=> "ws" \in poll[n].on

\* Without a change of a name the files hold the configuration, and exactly the
\* enabled entries have a poll, so that a restart connects the same upstream
\* brokers and a disabled or deleted one is never dialed again
\* (upstream_sys_node.c:17, 135).
ConfigFollowed ==
  ~renamed => /\ files = config
              /\ \A n \in Names : poll[n] # None <=> config[n] # None /\ config[n].enabled

\* An upstream that stays enabled is connected in the end, unless it was dropped.
ComesUp ==
  \A n \in Names : poll[n] # None ~> (poll[n] = None \/ poll[n].dropped \/ poll[n].status = "ws")
=============================================================================
