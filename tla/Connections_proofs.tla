-------------------------- MODULE Connections_proofs --------------------------
(***************************************************************************)
(* Proofs about the connections of a broker. Upstream, for any set of      *)
(* names and any bound on the delay: a poll never loses its handle, and    *)
(* the polls and files follow the configuration. Links, for every number   *)
(* of dslinks, tokens and failures: a token is used as often as it may be  *)
(* and no more, the tables of attempts and the sessions agree with the     *)
(* links, and the nodes are saved.                                         *)
(*                                                                         *)
(* Links and Upstream have nothing to do with each other; what the broker  *)
(* keeps of its dslinks comes from Sessions, and the rest of Links has     *)
(* constants and variables of its own here.                                *)
(***************************************************************************)
EXTENDS Upstream, Sessions, WellFoundedInduction, TLAPS

CONSTANTS TokenOf, Managed, MaxFailures

VARIABLES phase, reply, requests, failures

Down == INSTANCE Links WITH MaxFaults <- MaxFailures, faults <- failures

\* A poll that has exactly the handle of its status, while it was not dropped.
Good(p) ==
  /\ p \in Poll
  /\ p.on = IF p.dropped THEN {} ELSE {HandleOf(p.status)}
  /\ p.link = "up" <=> "ws" \in p.on

\* Every poll is good; with the types, this is inductive.
PollsGood == \A n \in Names : poll[n] # None => Good(poll[n])
PollInv == poll \in [Names -> Poll \cup {None}] /\ PollsGood

\* What is true of a poll when a callback starts to give it a new handle.
Bare(p) == p \in Poll /\ p.on \subseteq {HandleOf(p.status)} /\ ~p.dropped

LEMMA NewPollBare == NewPoll \in Poll /\ Bare(NewPoll) /\ NewPoll.on = {} /\ NewPoll.status = "none"
BY UpstreamBounds DEF NewPoll, Poll, Bare, Status, Handle, HandleOf

\* A handler that takes its handle off leaves the poll bare.
LEMMA FiredBare ==
  ASSUME NEW n \in Names, NEW h, PollInv, Armed(n, h)
  PROVE  /\ Bare(Fired(n, h)) /\ Fired(n, h).on = {}
         /\ Fired(n, h).status = poll[n].status /\ HandleOf(poll[n].status) = h
<1>1. Good(poll[n]) /\ h \in poll[n].on
  BY DEF PollInv, PollsGood, Armed
<1>2. ~poll[n].dropped /\ poll[n].on = {h} /\ HandleOf(poll[n].status) = h /\ poll[n] \in Poll
  BY <1>1 DEF Good
<1>3. Fired(n, h) = [poll[n] EXCEPT !.on = {}]
  BY <1>2 DEF Fired
<1>4. Fired(n, h) \in Poll /\ Fired(n, h).on = {} /\ Fired(n, h).status = poll[n].status
      /\ Fired(n, h).dropped = poll[n].dropped
  BY <1>2, <1>3 DEF Poll
<1> QED
  BY <1>2, <1>4 DEF Bare

\* upstream_clear_poll closes every handle.
LEMMA ClearedIsBare ==
  ASSUME NEW p, Bare(p)
  PROVE  /\ Bare(Cleared(p)) /\ Cleared(p).on = {} /\ Cleared(p).status = "none"
         /\ Cleared(p).link = "none" /\ Cleared(p).interval = p.interval
<1>1. p \in Poll /\ p.status \in Status /\ p.on \subseteq {HandleOf(p.status)} /\ ~p.dropped
  BY DEF Bare, Poll
<1>2. Cleared(p) = [p EXCEPT !.on = {}, !.status = "none", !.link = "none"]
  BY <1>1 DEF Cleared, Status, HandleOf, Poll
<1> QED
  BY <1>1, <1>2 DEF Poll, Bare, Status, HandleOf

\* upstream_reconnect leaves the reconnect timer and nothing else.
LEMMA ReconnectedGood ==
  ASSUME NEW p, Bare(p)
  PROVE  Good(Reconnected(p)) /\ ~Reconnected(p).dropped
<1> DEFINE q == Cleared(p)
           i == IF q.interval < MaxInterval THEN q.interval + 1 ELSE q.interval
<1>1. Bare(q) /\ q.on = {} /\ q.status = "none" /\ q.link = "none"
  BY ClearedIsBare
<1>2. q \in Poll /\ ~q.dropped /\ q.interval \in 0..MaxInterval
  BY <1>1 DEF Bare, Poll
<1>3. i \in 0..MaxInterval
  BY <1>2, UpstreamBounds
<1>4. Reconnected(p) = [q EXCEPT !.on = {"retry"}, !.interval = i]
  BY <1>1, <1>2 DEF Reconnected, Poll
<1> HIDE DEF q, i
<1>5. Reconnected(p) \in Poll /\ Reconnected(p).on = {"retry"} /\ Reconnected(p).status = "none"
      /\ Reconnected(p).link = "none" /\ Reconnected(p).dropped = q.dropped
  BY <1>1, <1>2, <1>3, <1>4 DEF Poll, Handle
<1> QED
  BY <1>2, <1>5 DEF Good, HandleOf

\* upstream_connect_conn starts with no handle, and leaves one.
LEMMA DialedGood ==
  ASSUME NEW p, Bare(p), p.on = {}, NEW ok \in BOOLEAN
  PROVE  Good(Dialed(p, ok))
<1> DEFINE q == [p EXCEPT !.link = "made"]
<1>1. q \in Poll /\ q.on = {} /\ q.status = p.status /\ ~q.dropped /\ q.link = "made"
  BY DEF Bare, Poll
<1>2. CASE ok
  <2>1. Dialed(p, ok) = [q EXCEPT !.status = "check", !.on = {"check"}]
    BY <1>1, <1>2 DEF Dialed, Poll
  <2> DEFINE d == Dialed(p, ok)
  <2> HIDE DEF q, d
  <2>3. d = [q EXCEPT !.status = "check", !.on = {"check"}]
    BY <2>1 DEF d
  <2>4. "check" \in Status /\ {"check"} \in SUBSET Handle
    BY DEF Status, Handle
  <2>5. d \in Poll
    BY <1>1, <2>3, <2>4 DEF Poll
  <2>6. d.on = {"check"} /\ d.status = "check" /\ d.link = q.link /\ d.dropped = q.dropped
    BY <1>1, <2>3 DEF Poll
  <2>2. d \in Poll /\ d.on = {"check"} /\ d.status = "check" /\ d.link = "made" /\ ~d.dropped
    BY <1>1, <2>5, <2>6
  <2> QED
    BY <2>2 DEF d, Good, HandleOf
<1>3. CASE ~ok
  <2>1. Bare(q)
    BY <1>1 DEF Bare
  <2>2. Dialed(p, ok) = Reconnected(q)
    BY <1>3 DEF Dialed
  <2> QED
    BY <2>1, <2>2, ReconnectedGood
<1> QED
  BY <1>2, <1>3

\* A handler replaces one poll.
LEMMA OneReplaced ==
  ASSUME NEW n \in Names, NEW p, Good(p), PollInv, poll' = [poll EXCEPT ![n] = p]
  PROVE  PollInv' /\ poll'[n] # None
<1>1. p \in Poll
  BY DEF Good
<1>2. poll' \in [Names -> Poll \cup {None}]
  BY <1>1 DEF PollInv
<1>3. \A m \in Names : poll'[m] # None => Good(poll'[m])
  BY DEF PollInv, PollsGood
<1>4. poll'[n] = p /\ p # None
  BY <1>1, NoneIsNothing DEF PollInv
<1> QED
  BY <1>2, <1>3, <1>4 DEF PollInv, PollsGood

LEMMA CreatedGood ==
  ASSUME NEW n \in Names, NEW ok \in BOOLEAN, PollInv, poll' = Created(n, ok)
  PROVE  PollInv'
<1>1. CASE poll[n] = None
  <2>1. Good(Dialed(NewPoll, ok))
    BY NewPollBare, DialedGood
  <2> QED
    BY <1>1, <2>1, OneReplaced DEF Created
<1>2. CASE poll[n] # None
  <2>1. poll' = poll
    BY <1>2 DEF Created
  <2> QED
    BY <2>1 DEF PollInv, PollsGood
<1> QED
  BY <1>1, <1>2

LEMMA StoppedGood ==
  ASSUME NEW n \in Names, PollInv, poll' = Stopped(n)
  PROVE  PollInv'
<1>1. poll' \in [Names -> Poll \cup {None}]
  BY DEF PollInv, Stopped
<1>2. \A m \in Names : poll'[m] # None => Good(poll'[m])
  BY DEF PollInv, PollsGood, Stopped
<1> QED
  BY <1>1, <1>2 DEF PollInv, PollsGood

-----------------------------------------------------------------------------
LEMMA InitPollInv == Init => PollInv
BY DEF Init, PollInv, PollsGood

LEMMA RetryKeeps == ASSUME PollInv, NEW n \in Names, Retry(n) PROVE PollInv' /\ poll'[n] # None
<1>1. PICK ok \in BOOLEAN : poll' = [poll EXCEPT ![n] = Dialed(Fired(n, "retry"), ok)]
  BY DEF Retry
<1>2. Bare(Fired(n, "retry")) /\ Fired(n, "retry").on = {}
  BY FiredBare DEF Retry
<1> QED
  BY <1>1, <1>2, DialedGood, OneReplaced

LEMMA CheckConnKeeps == ASSUME PollInv, NEW n \in Names, CheckConn(n) PROVE PollInv' /\ poll'[n] # None
<1> DEFINE p == Fired(n, "check")
<1>1. Bare(p) /\ p.on = {}
  BY FiredBare DEF CheckConn
<1>2. p.link # "up"
  <2>1. Good(poll[n]) /\ poll[n].status = "check" /\ "check" \in poll[n].on
    BY FiredBare DEF CheckConn, PollInv, PollsGood, Armed, Good, HandleOf, Poll, Status
  <2>2. poll[n].link # "up"
    BY <2>1 DEF Good, HandleOf
  <2> QED
    BY <2>1, <2>2 DEF Fired, Good, Poll
<1>3. CASE poll' = [poll EXCEPT ![n] = [p EXCEPT !.status = "conn", !.on = @ \cup {"conn"}]]
  <2> DEFINE c == [p EXCEPT !.status = "conn", !.on = @ \cup {"conn"}]
  <2>1. /\ c \in Poll /\ c.on = {"conn"} /\ c.status = "conn" /\ c.link = p.link
        /\ c.dropped = p.dropped
    BY <1>1 DEF Bare, Poll, Status, Handle
  <2>2. ~p.dropped
    BY <1>1 DEF Bare
  <2> HIDE DEF c, p
  <2>3. Good(c)
    BY <1>2, <2>1, <2>2 DEF Good, HandleOf
  <2> QED
    BY <1>3, <2>3, OneReplaced DEF c
<1>4. CASE poll' = [poll EXCEPT ![n] = Reconnected(p)]
  BY <1>1, <1>4, ReconnectedGood, OneReplaced
<1>5. CASE poll' = [poll EXCEPT ![n] = Reconnected([p EXCEPT !.status = "conn"])]
  <2>1. Bare([p EXCEPT !.status = "conn"])
    BY <1>1 DEF Bare, Poll, Status
  <2> QED
    BY <1>5, <2>1, ReconnectedGood, OneReplaced
<1> QED
  BY <1>3, <1>4, <1>5 DEF CheckConn

LEMMA AnswerKeeps == ASSUME PollInv, NEW n \in Names, Answer(n) PROVE PollInv' /\ poll'[n] # None
<1> DEFINE p == Fired(n, "conn")
<1>1. Bare(p) /\ p.on = {}
  BY FiredBare DEF Answer
<1>2. p.link # "up"
  <2>1. Good(poll[n]) /\ poll[n].status = "conn" /\ "conn" \in poll[n].on
    BY FiredBare DEF Answer, PollInv, PollsGood, Armed, Good, HandleOf, Poll, Status
  <2>2. poll[n].link # "up"
    BY <2>1 DEF Good, HandleOf
  <2> QED
    BY <2>1, <2>2 DEF Fired, Good, Poll
<1>3. CASE poll' = [poll EXCEPT ![n] = Opened(p)]
  <2> DEFINE w == Opened(p)
  <2>1. w = [p EXCEPT !.link = "up", !.status = "ws", !.on = {"ws"}, !.interval = 0]
    BY <1>1 DEF Opened, Attached, Bare, Poll
  <2>2. /\ w \in Poll /\ w.on = {"ws"} /\ w.status = "ws" /\ w.link = "up"
        /\ w.dropped = p.dropped
    <3>1. p \in Poll
      BY <1>1 DEF Bare
    <3>2. 0 \in 0..MaxInterval
      BY UpstreamBounds
    <3> HIDE DEF w, p
    <3> QED
      BY <2>1, <3>1, <3>2 DEF Poll, Status, Handle
  <2>3. ~p.dropped
    BY <1>1 DEF Bare
  <2> HIDE DEF w, p
  <2>4. Good(w)
    BY <2>2, <2>3 DEF Good, HandleOf
  <2> QED
    BY <1>3, <2>4, OneReplaced DEF w
<1>4. ASSUME NEW status \in {"conn", "none"},
             poll' = [poll EXCEPT ![n] = Reconnected([p EXCEPT !.status = status])]
      PROVE  PollInv' /\ poll'[n] # None
  <2>1. Bare([p EXCEPT !.status = status])
    BY <1>1 DEF Bare, Poll, Status
  <2> QED
    BY <1>4, <2>1, ReconnectedGood, OneReplaced
<1>5. CASE poll' = [poll EXCEPT ![n] = [p EXCEPT !.dropped = TRUE]]
  <2> DEFINE d == [p EXCEPT !.dropped = TRUE]
  <2>1. d \in Poll /\ d.on = {} /\ d.dropped /\ d.link = p.link
    BY <1>1 DEF Bare, Poll
  <2> HIDE DEF d, p
  <2>2. Good(d)
    BY <1>2, <2>1 DEF Good
  <2> QED
    BY <1>5, <2>2, OneReplaced DEF d
<1> QED
  BY <1>3, <1>4, <1>5 DEF Answer

LEMMA IoFailsKeeps == ASSUME PollInv, NEW n \in Names, IoFails(n) PROVE PollInv' /\ poll'[n] # None
<1>1. Good(poll[n]) /\ "ws" \in poll[n].on
  BY DEF IoFails, Armed, PollInv, PollsGood
<1>2. Bare(poll[n])
  BY <1>1 DEF Good, Bare
<1> QED
  BY <1>2, ReconnectedGood, OneReplaced DEF IoFails

LEMMA SilentKeeps == ASSUME PollInv, NEW n \in Names, Silent(n) PROVE PollInv' /\ poll'[n] # None
<1> DEFINE p == Fired(n, "ws")
           d == [p EXCEPT !.link = "freed", !.dropped = TRUE]
<1>1. Bare(p) /\ p.on = {}
  BY FiredBare DEF Silent
<1>2. d \in Poll /\ d.on = {} /\ d.dropped /\ d.link = "freed"
  BY <1>1 DEF Bare, Poll
<1>3. poll' = [poll EXCEPT ![n] = d]
  BY DEF Silent
<1> HIDE DEF d
<1>4. Good(d)
  BY <1>2 DEF Good
<1> QED
  BY <1>3, <1>4, OneReplaced

LEMMA ManageKeeps ==
  ASSUME PollInv, NEW n \in Names, config[n] # None => config[n].name \in Names, Manage(n)
  PROVE  PollInv'
<1>1. ASSUME NEW enabled \in BOOLEAN, Add(n, enabled) PROVE PollInv'
  <2>1. CASE enabled
    <3>1. PICK ok \in BOOLEAN : poll' = Created(n, ok)
      BY <1>1, <2>1 DEF Add
    <3> QED
      BY <3>1, CreatedGood
  <2>2. CASE ~enabled
    BY <1>1, <2>2 DEF Add, PollInv, PollsGood
  <2> QED
    BY <2>1, <2>2
<1>2. ASSUME NEW m \in Names, SetName(n, m) PROVE PollInv'
  BY <1>2 DEF SetName, PollInv, PollsGood
<1>3. ASSUME Delete(n) PROVE PollInv'
  BY <1>3, StoppedGood DEF Delete
<1>4. ASSUME NEW enabled \in BOOLEAN, SetEnabled(n, enabled) PROVE PollInv'
  <2>0. config[n].name \in Names
    BY <1>4 DEF SetEnabled
  <2>1. CASE enabled
    <3>1. PICK ok \in BOOLEAN : poll' = Created(config[n].name, ok)
      BY <1>4, <2>1 DEF SetEnabled
    <3> QED
      BY <2>0, <3>1, CreatedGood
  <2>2. CASE ~enabled
    BY <1>4, <2>2, StoppedGood DEF SetEnabled
  <2> QED
    BY <2>1, <2>2
<1> QED
  BY <1>1, <1>2, <1>3, <1>4 DEF Manage
-----------------------------------------------------------------------------
\* The configuration: its types, and, while no child "name" was set, that every
\* entry has its own name (load_upstreams keys them by it) besides what
\* ConfigFollowed says.
ConfigInv ==
  /\ config \in [Names -> Entry \cup {None}] /\ files \in [Names -> Entry \cup {None}]
  /\ renamed \in BOOLEAN /\ faults \in Nat
  /\ ~renamed => \A n \in Names : config[n] # None => config[n].name = n
  /\ ConfigFollowed

IInv == PollInv /\ ConfigInv

\* load_upstreams finds the entries that were saved.
LEMMA LoadedType ==
  ASSUME ConfigInv, NEW m \in Names
  PROVE  /\ Loaded(m) \subseteq Entry
         /\ ~renamed => Loaded(m) = IF config[m] = None THEN {} ELSE {config[m]}
<1>1. \A n \in Names : files[n] # None => files[n] \in Entry
  BY DEF ConfigInv
<1>2. Loaded(m) \subseteq Entry
  BY <1>1 DEF Loaded, Entry
<1>3. ASSUME ~renamed PROVE Loaded(m) = IF config[m] = None THEN {} ELSE {config[m]}
  <2>1. files = config /\ \A n \in Names : config[n] # None => config[n].name = n
    BY <1>3 DEF ConfigInv, ConfigFollowed
  <2>2. Loaded(m) = {[name |-> m, enabled |-> files[n].enabled] :
                       n \in {n \in Names : n = m /\ config[m] # None}}
    BY <2>1 DEF Loaded
  <2>3. config[m] # None => config[m] = [name |-> m, enabled |-> files[m].enabled]
    BY <1>1, <2>1 DEF Entry
  <2> QED
    BY <2>2, <2>3
<1> QED
  BY <1>2, <1>3

\* A restart starts a poll for every entry that is enabled.
LEMMA RestartKeeps == ASSUME IInv, Restart PROVE IInv'
<1>1. PICK connecting \in SUBSET Names :
        poll' = [m \in Names |-> IF config'[m] # None /\ config'[m].enabled
                                 THEN Dialed(NewPoll, m \in connecting) ELSE None]
  BY DEF Restart
<1>2. /\ config' \in [Names -> Entry \cup {None}] /\ files' = files /\ renamed' = renamed
      /\ \A m \in Names : IF Loaded(m) = {} THEN config'[m] = None ELSE config'[m] \in Loaded(m)
      /\ faults' = faults + 1
  BY DEF Restart
<1>3. ASSUME NEW m \in Names PROVE Good(Dialed(NewPoll, m \in connecting))
  <2>1. (m \in connecting) \in BOOLEAN
    OBVIOUS
  <2> QED
    BY <2>1, NewPollBare, DialedGood
<1>4. PollInv'
  <2>1. \A m \in Names : Dialed(NewPoll, m \in connecting) \in Poll
    BY <1>3 DEF Good
  <2>2. poll' \in [Names -> Poll \cup {None}]
    BY <1>1, <2>1
  <2>3. \A m \in Names : poll'[m] # None => Good(poll'[m])
    BY <1>1, <1>3
  <2> QED
    BY <2>2, <2>3 DEF PollInv, PollsGood
<1>5. ASSUME ~renamed PROVE config' = config
  <2>1. \A m \in Names : Loaded(m) = IF config[m] = None THEN {} ELSE {config[m]}
    BY <1>5, LoadedType DEF IInv
  <2>2. \A m \in Names : config'[m] = config[m]
    BY <1>2, <2>1
  <2>3. config \in [Names -> Entry \cup {None}]
    BY DEF IInv, ConfigInv
  <2> QED
    BY <1>2, <2>2, <2>3
<1>6. ASSUME NEW m \in Names PROVE poll'[m] # None <=> config'[m] # None /\ config'[m].enabled
  <2>1. Dialed(NewPoll, m \in connecting) # None
    BY <1>3, NoneIsNothing DEF Good
  <2> QED
    BY <1>1, <2>1
<1>7. ConfigInv'
  <2>1. files' \in [Names -> Entry \cup {None}] /\ renamed' \in BOOLEAN /\ faults' \in Nat
    BY <1>2 DEF IInv, ConfigInv
  <2>2. ASSUME ~renamed'
        PROVE  files' = config' /\ \A n \in Names : config'[n] # None => config'[n].name = n
    BY <1>2, <1>5, <2>2 DEF IInv, ConfigInv, ConfigFollowed
  <2> QED
    BY <1>2, <1>6, <2>1, <2>2 DEF ConfigInv, ConfigFollowed
<1> QED
  BY <1>4, <1>7 DEF IInv

\* The steps of the polls leave the configuration, and which nodes have a poll.
LEMMA PollStepKeeps ==
  ASSUME IInv, NEW n \in Names, Proceed(n) \/ IoFails(n) \/ Silent(n)
  PROVE  IInv'
<1>1. PollInv' /\ poll'[n] # None
  BY RetryKeeps, CheckConnKeeps, AnswerKeeps, IoFailsKeeps, SilentKeeps DEF IInv, Proceed
<1>2. UNCHANGED <<config, files, renamed>> /\ poll[n] # None
  BY DEF Proceed, Retry, CheckConn, Answer, IoFails, Silent, Armed
<1>3. faults' \in Nat
  BY DEF IInv, ConfigInv, Proceed, Retry, CheckConn, Answer, IoFails, Silent, Attempt
<1>4. \E p : poll' = [poll EXCEPT ![n] = p]
  BY DEF Proceed, Retry, CheckConn, Answer, IoFails, Silent
<1>5. poll \in [Names -> Poll \cup {None}] /\ poll' \in [Names -> Poll \cup {None}]
  BY <1>1 DEF IInv, PollInv
<1>7. \A m \in Names : poll'[m] # None <=> poll[m] # None
  BY <1>1, <1>2, <1>4, <1>5
<1>8. ConfigInv'
  BY <1>2, <1>3, <1>7 DEF IInv, ConfigInv, ConfigFollowed
<1> QED
  BY <1>1, <1>8 DEF IInv
\* The poll of a node that is started is there afterwards, the others stay.
LEMMA CreatedPolls ==
  ASSUME PollInv, NEW n \in Names, NEW ok \in BOOLEAN
  PROVE  \A m \in Names : Created(n, ok)[m] # None <=> m = n \/ poll[m] # None
<1>1. Good(Dialed(NewPoll, ok))
  BY NewPollBare, DialedGood
<1>2. Dialed(NewPoll, ok) # None
  BY <1>1, NoneIsNothing DEF Good
<1> QED
  BY <1>2 DEF Created, PollInv

LEMMA ManageKeepsConfig ==
  ASSUME IInv, NEW n \in Names, Manage(n)
  PROVE  ConfigInv'
<1>1. /\ PollInv
      /\ config \in [Names -> Entry \cup {None}] /\ files \in [Names -> Entry \cup {None}]
      /\ renamed \in BOOLEAN /\ faults \in Nat
  BY DEF IInv, ConfigInv
<1>2. ASSUME ~renamed
      PROVE  /\ files = config
             /\ \A m \in Names : config[m] # None => config[m].name = m
             /\ \A m \in Names : poll[m] # None <=> config[m] # None /\ config[m].enabled
  BY <1>2 DEF IInv, ConfigInv, ConfigFollowed
<1>3. ASSUME NEW enabled \in BOOLEAN, Add(n, enabled) PROVE ConfigInv'
  <2> DEFINE e == [name |-> n, enabled |-> enabled]
  <2>1. e \in Entry /\ e # None
    BY NoneIsNothing DEF Entry
  <2>2. /\ config' = [config EXCEPT ![n] = e] /\ files' = [files EXCEPT ![n] = e]
        /\ config[n] = None /\ renamed' = renamed
    BY <1>1, <1>3 DEF Add, FilesSaved
  <2>3. /\ config' \in [Names -> Entry \cup {None}] /\ files' \in [Names -> Entry \cup {None}]
        /\ faults' \in Nat
    BY <1>1, <1>3, <2>1, <2>2 DEF Add, Attempt
  <2>4. \A m \in Names : poll'[m] # None <=> (m = n /\ enabled) \/ poll[m] # None
    <3>1. CASE enabled
      <4>1. PICK ok \in BOOLEAN : poll' = Created(n, ok)
        BY <1>3, <3>1 DEF Add
      <4> QED
        BY <1>1, <3>1, <4>1, CreatedPolls
    <3>2. CASE ~enabled
      BY <1>3, <3>2 DEF Add
    <3> QED
      BY <3>1, <3>2
  <2>5. e.name = n /\ e.enabled = enabled
    OBVIOUS
  <2> HIDE DEF e
  <2>6. ASSUME ~renamed'
        PROVE  /\ files' = config'
               /\ \A m \in Names : config'[m] # None => config'[m].name = m
               /\ \A m \in Names : poll'[m] # None <=> config'[m] # None /\ config'[m].enabled
    BY <1>1, <1>2, <2>1, <2>2, <2>4, <2>5, <2>6
  <2> QED
    BY <1>1, <2>2, <2>3, <2>6 DEF ConfigInv, ConfigFollowed
<1>4. ASSUME NEW enabled \in BOOLEAN, SetEnabled(n, enabled) PROVE ConfigInv'
  <2> DEFINE e == [config[n] EXCEPT !.enabled = enabled]
  <2>1. e \in Entry /\ e # None /\ e.name = config[n].name /\ e.enabled = enabled
    <3>1. config[n] \in Entry
      BY <1>1, <1>4 DEF SetEnabled
    <3> QED
      BY <3>1, NoneIsNothing DEF Entry
  <2>2. /\ config' = [config EXCEPT ![n] = e] /\ files' = [files EXCEPT ![n] = e]
        /\ config[n] # None /\ renamed' = renamed
    BY <1>1, <1>4 DEF SetEnabled, FilesSaved
  <2>3. /\ config' \in [Names -> Entry \cup {None}] /\ files' \in [Names -> Entry \cup {None}]
        /\ faults' \in Nat
    BY <1>1, <1>4, <2>1, <2>2 DEF SetEnabled, Attempt
  <2>4. ASSUME ~renamed
        PROVE  \A m \in Names : poll'[m] # None <=> IF m = n THEN enabled ELSE poll[m] # None
    <3>1. config[n].name = n
      BY <1>2, <2>2, <2>4
    <3>2. CASE enabled
      <4>1. PICK ok \in BOOLEAN : poll' = Created(n, ok)
        BY <1>4, <3>1, <3>2 DEF SetEnabled
      <4> QED
        BY <1>1, <3>2, <4>1, CreatedPolls
    <3>3. CASE ~enabled
      BY <1>1, <1>4, <3>3 DEF SetEnabled, Stopped, PollInv
    <3> QED
      BY <3>2, <3>3
  <2> HIDE DEF e
  <2>5. ASSUME ~renamed'
        PROVE  /\ files' = config'
               /\ \A m \in Names : config'[m] # None => config'[m].name = m
               /\ \A m \in Names : poll'[m] # None <=> config'[m] # None /\ config'[m].enabled
    BY <1>1, <1>2, <2>1, <2>2, <2>4, <2>5
  <2> QED
    BY <1>1, <2>2, <2>3, <2>5 DEF ConfigInv, ConfigFollowed
<1>5. ASSUME NEW m \in Names, SetName(n, m) PROVE ConfigInv'
  <2>1. config' = [config EXCEPT ![n].name = m] /\ config[n] # None
        /\ UNCHANGED <<files, faults>> /\ renamed' = TRUE
    BY <1>5 DEF SetName
  <2>2. config' \in [Names -> Entry \cup {None}]
    BY <1>1, <2>1 DEF Entry
  <2> QED
    BY <1>1, <2>1, <2>2 DEF ConfigInv, ConfigFollowed
<1>6. ASSUME Delete(n) PROVE ConfigInv'
  <2>1. /\ config' = [config EXCEPT ![n] = None] /\ files' = [files EXCEPT ![n] = None]
        /\ poll' = [poll EXCEPT ![n] = None] /\ UNCHANGED <<renamed, faults>>
    BY <1>6 DEF Delete, Stopped
  <2>2. /\ config' \in [Names -> Entry \cup {None}] /\ files' \in [Names -> Entry \cup {None}]
    BY <1>1, <2>1
  <2>3. ASSUME ~renamed'
        PROVE  /\ files' = config'
               /\ \A m \in Names : config'[m] # None => config'[m].name = m
               /\ \A m \in Names : poll'[m] # None <=> config'[m] # None /\ config'[m].enabled
    BY <1>1, <1>2, <2>1, <2>3 DEF PollInv
  <2> QED
    BY <1>1, <2>1, <2>2, <2>3 DEF ConfigInv, ConfigFollowed
<1> QED
  BY <1>3, <1>4, <1>5, <1>6 DEF Manage

-----------------------------------------------------------------------------
LEMMA InitIInv == Init => IInv
<1> SUFFICES ASSUME Init PROVE ConfigInv
  BY InitPollInv DEF IInv
<1>1. \A n \in Names : config[n] = None /\ files[n] = None /\ poll[n] = None
  BY DEF Init
<1>2. files = config /\ renamed = FALSE /\ faults = 0
      /\ config \in [Names -> Entry \cup {None}] /\ files \in [Names -> Entry \cup {None}]
  BY DEF Init
<1>3. ConfigFollowed
  BY <1>1, <1>2 DEF ConfigFollowed
<1> QED
  BY <1>1, <1>2, <1>3 DEF ConfigInv

LEMMA StepIInv == IInv /\ [Next]_vars => IInv'
<1> SUFFICES ASSUME IInv, [Next]_vars PROVE IInv'
  OBVIOUS
<1>1. ASSUME NEW n \in Names, Manage(n) PROVE IInv'
  <2>1. config[n] # None => config[n].name \in Names
    BY DEF IInv, ConfigInv, Entry
  <2> QED
    BY <1>1, <2>1, ManageKeeps, ManageKeepsConfig DEF IInv
<1>2. CASE UNCHANGED vars
  BY <1>2 DEF vars, IInv, PollInv, PollsGood, ConfigInv, ConfigFollowed
<1> QED
  BY <1>1, <1>2, PollStepKeeps, RestartKeeps DEF Next

\* Through every failure, restart and change of the configuration an upstream
\* poll has exactly the handle of its status (upstream_handshake.c:20, 72).
THEOREM OneHandleAlways == Spec => []OneHandle
<1>1. IInv => OneHandle
  BY DEF IInv, PollInv, PollsGood, Good, OneHandle
<1> QED
  BY <1>1, InitIInv, StepIInv, PTL DEF Spec

\* The polls and the files follow the configuration while no child "name" is set
\* (upstream_sys_node.c:17, 135).
THEOREM ConfigFollowedAlways == Spec => []ConfigFollowed
<1>1. IInv => ConfigFollowed
  BY DEF IInv, ConfigInv
<1> QED
  BY <1>1, InitIInv, StepIInv, PTL DEF Spec

\* The types of the configuration, its files and the polls.
THEOREM TypeCorrect == Spec => []TypeOK
<1>1. IInv => TypeOK
  BY DEF IInv, PollInv, ConfigInv, TypeOK
<1> QED
  BY <1>1, InitIInv, StepIInv, PTL DEF Spec

-----------------------------------------------------------------------------
\* An HTTP request on its way is of a dslink.
IsRequest(m) == \E k, s : m \in [kind : {k}, dsId : DsIds, salt : {s}, live : BOOLEAN]

LEMMA RunRequests ==
  ASSUME \A m \in requests : IsRequest(m), NEW d \in DsIds, Down!Run(d)
  PROVE  \A m \in requests' : IsRequest(m)
<1>1. CASE Down!SendConn(d)
  <2> DEFINE r == [kind |-> "conn", dsId |-> d, salt |-> Null, live |-> TRUE]
  <2>1. IsRequest(r)
    <3>1. r \in [kind : {"conn"}, dsId : DsIds, salt : {Null}, live : BOOLEAN]
      OBVIOUS
    <3> QED
      BY <3>1 DEF IsRequest
  <2>2. requests' = requests \cup {r}
    BY <1>1 DEF Down!SendConn
  <2> HIDE DEF r
  <2> QED
    BY <2>1, <2>2
<1>2. CASE Down!ConnAnswer(d)
  <2> DEFINE r == [kind |-> "ws", dsId |-> d, salt |-> reply[d].salt, live |-> TRUE]
  <2>1. IsRequest(r)
    <3>1. r \in [kind : {"ws"}, dsId : DsIds, salt : {reply[d].salt}, live : BOOLEAN]
      OBVIOUS
    <3> QED
      BY <3>1 DEF IsRequest
  <2>2. requests' = requests \cup {r} \/ requests' = requests
    BY <1>2 DEF Down!ConnAnswer
  <2> HIDE DEF r
  <2> QED
    BY <2>1, <2>2
<1>3. CASE Down!WsAnswer(d) \/ Down!SocketEnds(d)
  BY <1>3 DEF Down!WsAnswer, Down!SocketEnds
<1> QED
  BY <1>1, <1>2, <1>3 DEF Down!Run

LEMMA QuitRequests ==
  ASSUME \A m \in requests : IsRequest(m), NEW d \in DsIds, Down!Quit(d)
  PROVE  \A m \in requests' : IsRequest(m)
<1> DEFINE mine == {m \in requests : m.dsId = d /\ m.live}
           dead == {[m EXCEPT !.live = FALSE] : m \in mine}
<1>1. requests' \subseteq requests \cup dead
  BY DEF Down!Quit
<1>2. \A m \in dead : IsRequest(m)
  <2> SUFFICES ASSUME NEW m \in requests PROVE IsRequest([m EXCEPT !.live = FALSE])
    OBVIOUS
  <2>1. PICK k, s : m \in [kind : {k}, dsId : DsIds, salt : {s}, live : BOOLEAN]
    BY DEF IsRequest
  <2>2. [m EXCEPT !.live = FALSE] \in [kind : {k}, dsId : DsIds, salt : {s}, live : BOOLEAN]
    BY <2>1
  <2> QED
    BY <2>2 DEF IsRequest
<1> HIDE DEF dead
<1> QED
  BY <1>1, <1>2

-----------------------------------------------------------------------------
\* What is left of the count of a token and what was used of it make up the
\* count of a new token, as long as the token is there; the files hold what the
\* nodes of the tokens hold, since token_used saves in the same step.
TokenInv ==
  /\ \A m \in requests : IsRequest(m)
  /\ DOMAIN tokens = Tokens /\ tokenFiles = tokens /\ used \in [Tokens -> Nat]
  /\ \A t \in Tokens :
       /\ Count[t] = Unlimited => tokens[t] \in {Unlimited, Gone}
       /\ Count[t] # Unlimited /\ tokens[t] # Gone => tokens[t] \in Nat /\ used[t] + tokens[t] = Count[t]
       /\ Count[t] # Unlimited => used[t] <= Count[t]

LEMMA InitTokenInv == Down!Init => TokenInv
  BY TokenConstants DEF Down!Init, TokenInv

\* A granted conn request takes one from the count of the token it came with.
LEMMA ConnKeepsTokenInv ==
  ASSUME TokenOf \in [DsIds -> Tokens], TokenInv, NEW m \in requests, Down!HandleConn(m)
  PROVE  TokenInv'
<1> DEFINE t == TokenOf[m.dsId]
<1>1. t \in Tokens
  BY DEF TokenInv, IsRequest
<1>2. requests' \subseteq requests
  BY DEF Down!HandleConn
<1>3. CASE UNCHANGED <<tokens, tokenFiles, used>>
  BY <1>2, <1>3 DEF TokenInv
<1>4. CASE /\ Valid(t) /\ tokens' = Spent(t) /\ tokenFiles' = SpentSaved(t)
           /\ used' = [used EXCEPT ![t] = @ + 1]
  <2>1. tokens' = tokenFiles' /\ DOMAIN tokens' = Tokens
    BY <1>4 DEF TokenInv, Spent, SpentSaved
  <2>2. used' \in [Tokens -> Nat] /\ used'[t] = used[t] + 1
    BY <1>1, <1>4 DEF TokenInv
  <2>3. \A x \in Tokens \ {t} : tokens'[x] = tokens[x] /\ used'[x] = used[x]
    BY <1>4 DEF TokenInv, Spent
  <2>4. CASE tokens[t] = Unlimited
    <3>1. Count[t] = Unlimited /\ tokens'[t] = Unlimited
      BY <1>1, <1>4, <2>4, TokenConstants DEF TokenInv, Spent
    <3> QED BY <1>1, <1>2, <2>1, <2>2, <2>3, <3>1 DEF TokenInv
  <2>5. CASE tokens[t] # Unlimited
    <3>1. Count[t] # Unlimited /\ Count[t] \in Nat
      BY <1>1, <1>4, <2>5, TokenConstants DEF TokenInv, Valid
    <3>2. tokens[t] \in Nat /\ tokens[t] # 0 /\ used[t] + tokens[t] = Count[t] /\ used[t] \in Nat
      BY <1>1, <1>4, <3>1 DEF TokenInv, Valid
    <3>3. tokens'[t] = tokens[t] - 1
      BY <1>1, <1>4, <2>5 DEF TokenInv, Spent
    <3>4. tokens'[t] \in Nat /\ used'[t] + tokens'[t] = Count[t] /\ used'[t] <= Count[t]
      BY <2>2, <3>1, <3>2, <3>3
    <3> QED BY <1>1, <1>2, <2>1, <2>2, <2>3, <3>1, <3>4 DEF TokenInv
  <2> QED BY <2>4, <2>5
<1> QED BY <1>3, <1>4 DEF Down!HandleConn, Down!Valid, Down!Spent, Down!SpentSaved, Valid, Spent, SpentSaved

\* Every other step leaves the counts alone, deletes a token with its file, or
\* reads the files again.
LEMMA NextTokenInv ==
  ASSUME TokenOf \in [DsIds -> Tokens]
  PROVE  TokenInv /\ [Down!Next]_(Down!vars) => TokenInv'
<1> SUFFICES ASSUME TokenInv, [Down!Next]_(Down!vars) PROVE TokenInv'
  OBVIOUS
<1>1. ASSUME NEW m \in requests, Down!HandleConn(m) PROVE TokenInv'
  BY <1>1, ConnKeepsTokenInv
<1>2. ASSUME NEW m \in requests, Down!HandleWs(m) PROVE TokenInv'
  BY <1>2 DEF Down!HandleWs, TokenInv, Down!disk
<1>3. ASSUME NEW s \in Down!Salts, Down!LinkEnds(s) \/ Down!LinkSilent(s) PROVE TokenInv'
  BY <1>3 DEF Down!LinkEnds, Down!LinkSilent, Down!CloseLink, TokenInv, Down!disk
<1>4. CASE Down!ClearConns
  BY <1>4 DEF Down!ClearConns, TokenInv, Down!disk
<1>5. CASE Down!Save
  BY <1>5 DEF Down!Save, TokenInv
<1>6. CASE Down!Restart
  BY <1>6 DEF Down!Restart, TokenInv, Down!disk
<1>7. ASSUME NEW t \in Tokens, Down!DeleteToken(t) PROVE TokenInv'
  <2>1. UNCHANGED <<requests, used>>
        /\ tokens' = [tokens EXCEPT ![t] = Gone] /\ tokenFiles' = [tokenFiles EXCEPT ![t] = Gone]
    BY <1>7 DEF Down!DeleteToken
  <2> QED BY <2>1 DEF TokenInv
<1>8. ASSUME NEW d \in DsIds, Down!Run(d) PROVE TokenInv'
  <2>1. UNCHANGED <<tokens, tokenFiles, used>>
    BY <1>8 DEF Down!Run, Down!SendConn, Down!ConnAnswer, Down!WsAnswer, Down!SocketEnds, Down!disk
  <2> QED BY <1>8, <2>1, RunRequests DEF TokenInv
<1>9. ASSUME NEW d \in DsIds, Down!Quit(d) PROVE TokenInv'
  <2>1. UNCHANGED <<tokens, tokenFiles, used>>
    BY <1>9 DEF Down!Quit, Down!disk
  <2> QED BY <1>9, <2>1, QuitRequests DEF TokenInv
<1>10. CASE Down!ListDownstream \/ UNCHANGED Down!vars
  BY <1>10 DEF Down!ListDownstream, Down!vars, Down!disk, TokenInv
<1> QED BY <1>1, <1>2, <1>3, <1>4, <1>5, <1>6, <1>7, <1>8, <1>9, <1>10 DEF Down!Next, Down!Handle

\* The count of a token bounds the conn requests it grants, also when the broker
\* is killed at any moment: token_used saves the new count before the answer is
\* sent. Every dslink comes with a token.
THEOREM TokenUsesAlways ==
  ASSUME TokenOf \in [DsIds -> Tokens]
  PROVE  Down!Spec => []TokenUses
<1>1. TokenInv => TokenUses
  BY DEF TokenInv, TokenUses
<1>2. Down!Init => TokenInv
  BY InitTokenInv
<1>3. TokenInv /\ [Down!Next]_(Down!vars) => TokenInv'
  BY NextTokenInv
<1> QED BY <1>1, <1>2, <1>3, PTL DEF Down!Spec

-----------------------------------------------------------------------------
\* A set of numbers has a least one.
LEMMA Least ==
  ASSUME NEW S \in SUBSET Nat, S # {}
  PROVE  \E n \in S : \A m \in S : n <= m
<1> DEFINE R == OpToRel(<, Nat)
<1>1. IsWellFoundedOn(R, Nat)
  BY NatLessThanWellFounded
<1>2. \A x \in Nat, y \in Nat : <<y, x>> \in R <=> y < x
  BY DEF OpToRel
<1> HIDE DEF R
<1>3. PICK x \in S : \A y \in S : ~(<<y, x>> \in R)
  BY <1>1, WFMin
<1>4. \A y \in S : ~(y < x)
  BY <1>2, <1>3
<1> QED
  BY <1>4

\* A search over D that stops in S, with a result there, and goes on elsewhere
Goes(D, S, next) == \A i \in D : i \notin S => next[i] \in D
Searches(G, D, S, res, next) == G = [i \in D |-> IF i \in S THEN res[i] ELSE G[next[i]]]

\* It is a function: what it finds from i is the result where the places that it
\* comes to from i meet S.
LEMMA SearchIsFunction ==
  ASSUME NEW D, NEW S, NEW res, NEW next, Goes(D, S, next)
  PROVE  \E G : Searches(G, D, S, res, next)
<1> DEFINE Closed(V) == \A u \in V : u \notin S => next[u] \in V
           R(i) == {v \in D : \A V \in SUBSET D : i \in V /\ Closed(V) => v \in V}
           Found(i) == {res[v] : v \in R(i) \cap S}
           G == [i \in D |-> CHOOSE j : j \in Found(i)]
<1>1. ASSUME NEW i \in D, i \in S PROVE G[i] = res[i]
  <2>1. {i} \in SUBSET D /\ i \in {i} /\ Closed({i})
    BY <1>1
  <2>2. R(i) = {i}
    BY <2>1
  <2>3. Found(i) = {res[i]}
    BY <1>1, <2>2
  <2> QED
    BY <2>3
<1>2. ASSUME NEW i \in D, i \notin S PROVE G[i] = G[next[i]]
  <2>1. next[i] \in D
    BY <1>2 DEF Goes
  <2> DEFINE B == {i} \cup R(next[i])
  <2>2. B \in SUBSET D /\ i \in B
    OBVIOUS
  <2>3. ASSUME NEW u \in R(next[i]), u \notin S PROVE next[u] \in R(next[i])
    BY <2>3 DEF Goes
  <2>4. next[i] \in R(next[i])
    BY <2>1
  <2>5. Closed(B)
    BY <2>3, <2>4
  <2>6. R(i) \subseteq B
    BY <2>2, <2>5
  <2>7. R(next[i]) \subseteq R(i)
    BY <1>2
  <2>8. R(i) \cap S = R(next[i]) \cap S
    BY <1>2, <2>6, <2>7
  <2>9. Found(i) = Found(next[i])
    BY <2>8
  <2> HIDE DEF Found
  <2> QED
    BY <2>1, <2>9
<1> HIDE DEF G
<1>3. G = [i \in D |-> IF i \in S THEN res[i] ELSE G[next[i]]]
  <2>1. G = [i \in D |-> G[i]]
    BY DEF G
  <2> QED
    BY <1>1, <1>2, <2>1
<1> QED
  BY <1>3 DEF Searches

\* Over the numbers up to L, a search that goes up and stops at L at the latest
\* ends with a result.
Climbs(L, S, next) == \A i \in 1..L : i \notin S => next[i] \in (i + 1)..L

LEMMA SearchEnds ==
  ASSUME NEW L \in Nat, NEW S, NEW res, NEW next, NEW F,
         Climbs(L, S, next), Searches(F, 1..L, S, res, next)
  PROVE  \A i \in 1..L : \E j \in 1..L : j \in S /\ F[i] = res[j]
<1> DEFINE Ends(i) == \E j \in 1..L : j \in S /\ F[i] = res[j]
           Bad == {m \in 0..L : L - m \in 1..L /\ ~Ends(L - m)}
<1> SUFFICES ASSUME NEW i \in 1..L, ~Ends(i) PROVE FALSE
  OBVIOUS
<1>1. L - i \in Bad /\ Bad \in SUBSET Nat
  <2>1. L - (L - i) = i /\ L - i \in 0..L
    OBVIOUS
  <2> QED
    BY <2>1
<1>2. PICK m \in Bad : \A x \in Bad : m <= x
  BY <1>1, Least
<1>3. PICK b \in 1..L : b = L - m /\ ~Ends(b)
  BY <1>2
<1>4. b \notin S
  BY <1>3 DEF Searches
<1>5. next[b] \in (b + 1)..L /\ F[b] = F[next[b]]
  BY <1>4 DEF Climbs, Searches
<1>6. ~Ends(next[b])
  BY <1>3, <1>5
<1> HIDE DEF Ends
<1>7. L - next[b] \in Bad /\ L - next[b] < m
  <2>1. next[b] \in 1..L /\ L - (L - next[b]) = next[b] /\ L - next[b] \in 0..L /\ L - next[b] < m
    BY <1>2, <1>3, <1>5
  <2> QED
    BY <1>6, <2>1
<1> QED
  BY <1>2, <1>7

-----------------------------------------------------------------------------
\* The names a dslink may get
NamesOf(d) == {NameOf[d][i] : i \in DOMAIN NameOf[d]}
\* The last name that a dslink may get is its whole dsId, which is no name of
\* another one. They may share any of the names before it.
Named ==
  \A d \in DsIds : LET own == NameOf[d][Len(NameOf[d])] IN
    \A e \in DsIds : d # e => own \notin NamesOf(e)

\* ls[s] is an attempt: asked for, and not yet open
Attempt0(ls, s) == ls[s] # Null /\ ~ls[s].open
\* client_connecting (bd by dsId, bn by name) holds the attempts of ls, and
\* nobody has the name of another one.
Agree(bd, bn, ls) ==
  /\ bd \in [DsIds -> Salts \cup {Null}] /\ bn \in [Children -> Salts \cup {Null}]
  /\ ls \in [Salts -> Link \cup {Null}]
  /\ \A s \in Salts, d \in DsIds : bd[d] = s <=> Attempt0(ls, s) /\ ls[s].who = d
  /\ \A s \in Salts, n \in Children : bn[n] = s <=> Attempt0(ls, s) /\ ls[s].name = n
  /\ \A s \in Salts : ls[s] # Null => ls[s].name \in NamesOf(ls[s].who)

\* What the nodes ns have to do with the links: the link of a node is open and
\* has its name, and a dslink connects with no name of another one's node.
Owned(ls, ns) ==
  /\ ns \in [Children -> Node \cup {Null}]
  /\ \A n \in Children : ns[n] # Null =>
       /\ n \in NamesOf(ns[n].dsId) /\ ns[n].meta \in {Null, ns[n].dsId}
       /\ ns[n].link # Null => /\ ls[ns[n].link] # Null /\ ls[ns[n].link].open
                               /\ ls[ns[n].link].name = n
  /\ \A s \in Salts : Attempt0(ls, s) => ns[ls[s].name] = Null \/ ns[ls[s].name].dsId = ls[s].who

\* Every open link is that of its dslink's node, except those of os.
Seated(ls, ns, os) ==
  \A s \in Salts \ os : ls[s] # Null /\ ls[s].open =>
    LET n == ls[s].name IN ns[n] # Null /\ ns[n].link = s /\ ns[n].dsId = ls[s].who

\* The sessions os are open, and no node's.
Going(ls, ns, os) ==
  \A s \in os : /\ s \in Salts /\ ls[s] # Null /\ ls[s].open
                 /\ \A n \in Children : ns[n] # Null => ns[n].link # s

\* conns.json gives a name only to a dslink that may have it; without tokens it
\* has all nodes, once saved.
ConnsOk ==
  /\ conns \in [Children -> Saved \cup {Null}]
  /\ \A n \in Children : conns[n] # Null /\ conns[n].meta # Null => n \in NamesOf(conns[n].meta)
Kept ==
  /\ \A n \in Children : nodes[n] # Null => nodes[n].meta # Null
  /\ \A n \in Children : conns[n] # Null => conns[n].meta # Null
  /\ ~saving => conns = Stored

\* What holds as long as no attempt was given the name of another one
SessInv ==
  /\ Agree(byDsId, byName, links) /\ Owned(links, nodes)
  /\ Seated(links, nodes, orphans) /\ Going(links, nodes, orphans)
  /\ ConnsOk /\ (~tokensOn => Kept)
  /\ tokensOn \in BOOLEAN /\ saving \in BOOLEAN /\ \A m \in requests : IsRequest(m)

LEMMA LinkFields ==
  ASSUME NEW ls \in [Salts -> Link \cup {Null}], NEW s \in Salts, ls[s] # Null
  PROVE  ls[s] \in Link /\ ls[s].who \in DsIds /\ ls[s].name \in Children /\ ls[s].open \in BOOLEAN
BY DEF Link

LEMMA NodeFields ==
  ASSUME NEW ns \in [Children -> Node \cup {Null}], NEW n \in Children, ns[n] # Null
  PROVE  /\ ns[n] \in Node /\ ns[n].dsId \in DsIds /\ ns[n].meta \in DsIds \cup {Null}
         /\ ns[n].token \in Tokens \cup {Null} /\ ns[n].link \in Salts \cup {Null}
BY DEF Node

LEMMA NullApart == Null \notin Salts /\ Null \notin DsIds /\ Null \notin Children
BY SessionConstants DEF Salts

LEMMA NamesAre == \A d \in DsIds : NameOf[d] \in Seq(Children) /\ NamesOf(d) \subseteq Children
<1>1. \A d \in DsIds : NameOf[d] \in Seq(Children)
  BY SessionConstants
<1> QED
  BY <1>1 DEF NamesOf

-----------------------------------------------------------------------------
\* The attempts stay, whatever becomes of the sessions.
LEMMA AgreeKept ==
  ASSUME NEW bd, NEW bn, NEW ls, Agree(bd, bn, ls), NEW ks \in [Salts -> Link \cup {Null}],
         \A s \in Salts : /\ Attempt0(ks, s) <=> Attempt0(ls, s)
                          /\ Attempt0(ls, s) => ks[s].who = ls[s].who /\ ks[s].name = ls[s].name
                          /\ ks[s] # Null => ks[s].name \in NamesOf(ks[s].who)
  PROVE  Agree(bd, bn, ks)
BY DEF Agree

\* The older attempt of d leaves client_connecting.
LEMMA AgreeLeft ==
  ASSUME NEW bd, NEW bn, NEW ls, Agree(bd, bn, ls), NEW d \in DsIds, bd[d] # Null
  PROVE  /\ bd[d] \in Salts /\ Attempt0(ls, bd[d]) /\ ls[bd[d]].who = d
         /\ ls[bd[d]].name \in Children /\ bn[ls[bd[d]].name] = bd[d]
         /\ Agree([bd EXCEPT ![d] = Null], [bn EXCEPT ![ls[bd[d]].name] = Null], [ls EXCEPT ![bd[d]] = Null])
<1> DEFINE l == bd[d]
           n == ls[l].name
           be == [bd EXCEPT ![d] = Null]
           bm == [bn EXCEPT ![n] = Null]
           ks == [ls EXCEPT ![l] = Null]
<1>1. l \in Salts /\ Attempt0(ls, l) /\ ls[l].who = d
  BY DEF Agree
<1>2. n \in Children /\ bn[n] = l
  BY <1>1, LinkFields DEF Agree, Attempt0
<1>3. /\ be \in [DsIds -> Salts \cup {Null}] /\ bm \in [Children -> Salts \cup {Null}]
      /\ ks \in [Salts -> Link \cup {Null}]
  BY DEF Agree
<1>4. /\ be[d] = Null /\ \A e \in DsIds \ {d} : be[e] = bd[e]
      /\ bm[n] = Null /\ \A m \in Children \ {n} : bm[m] = bn[m]
      /\ ks[l] = Null /\ \A s \in Salts \ {l} : ks[s] = ls[s]
  BY <1>1, <1>2 DEF Agree
<1> HIDE DEF be, bm, ks
<1>5. ASSUME NEW s \in Salts, NEW e \in DsIds PROVE be[e] = s <=> Attempt0(ks, s) /\ ks[s].who = e
  BY <1>1, <1>4, NullApart DEF Agree, Attempt0
<1>6. ASSUME NEW s \in Salts, NEW m \in Children PROVE bm[m] = s <=> Attempt0(ks, s) /\ ks[s].name = m
  BY <1>1, <1>2, <1>4, NullApart DEF Agree, Attempt0
<1>7. \A s \in Salts : ks[s] # Null => ks[s].name \in NamesOf(ks[s].who)
  BY <1>4 DEF Agree
<1>8. Agree(be, bm, ks)
  BY <1>3, <1>5, <1>6, <1>7 DEF Agree
<1> QED
  BY <1>1, <1>2, <1>8 DEF be, bm, ks

\* A new attempt of d, with a name and a salt that are free
LEMMA AgreeEntered ==
  ASSUME NEW bd, NEW bn, NEW ls, Agree(bd, bn, ls), NEW d \in DsIds, NEW n \in NamesOf(d), NEW l \in Salts,
         bd[d] = Null, bn[n] = Null, ls[l] = Null
  PROVE  Agree([bd EXCEPT ![d] = l], [bn EXCEPT ![n] = l],
               [ls EXCEPT ![l] = [who |-> d, name |-> n, open |-> FALSE, live |-> FALSE]])
<1> DEFINE k == [who |-> d, name |-> n, open |-> FALSE, live |-> FALSE]
           be == [bd EXCEPT ![d] = l]
           bm == [bn EXCEPT ![n] = l]
           ks == [ls EXCEPT ![l] = k]
<1>1. n \in Children
  BY NamesAre
<1>2. k \in Link /\ k # Null /\ k.who = d /\ k.name = n /\ k.open = FALSE
  <2>1. k \in Link
    BY <1>1 DEF Link
  <2> QED
    BY <2>1, NullIsNone
<1> HIDE DEF k
<1>3. /\ be \in [DsIds -> Salts \cup {Null}] /\ bm \in [Children -> Salts \cup {Null}]
      /\ ks \in [Salts -> Link \cup {Null}]
  BY <1>2 DEF Agree
<1>4. /\ be[d] = l /\ \A e \in DsIds \ {d} : be[e] = bd[e]
      /\ bm[n] = l /\ \A m \in Children \ {n} : bm[m] = bn[m]
      /\ ks[l] = k /\ \A s \in Salts \ {l} : ks[s] = ls[s]
  BY <1>1 DEF Agree
<1> HIDE DEF be, bm, ks
<1>5. ASSUME NEW s \in Salts, NEW e \in DsIds PROVE be[e] = s <=> Attempt0(ks, s) /\ ks[s].who = e
  BY <1>2, <1>4, NullApart DEF Agree, Attempt0
<1>6. ASSUME NEW s \in Salts, NEW m \in Children PROVE bm[m] = s <=> Attempt0(ks, s) /\ ks[s].name = m
  BY <1>1, <1>2, <1>4, NullApart DEF Agree, Attempt0
<1>7. \A s \in Salts : ks[s] # Null => ks[s].name \in NamesOf(ks[s].who)
  BY <1>2, <1>4 DEF Agree
<1>8. Agree(be, bm, ks)
  BY <1>3, <1>5, <1>6, <1>7 DEF Agree
<1> QED
  BY <1>8 DEF be, bm, ks, k

\* The nodes stay, and their links, when an attempt goes or comes.
LEMMA OwnedKept ==
  ASSUME NEW ls, NEW ks, NEW ns, Owned(ls, ns),
         \A s \in Salts : ls[s] # Null /\ ls[s].open => ks[s] = ls[s],
         \A s \in Salts : Attempt0(ks, s) => ns[ks[s].name] = Null \/ ns[ks[s].name].dsId = ks[s].who
  PROVE  Owned(ks, ns)
<1> SUFFICES ASSUME NEW n \in Children, ns[n] # Null, ns[n].link # Null
             PROVE  ks[ns[n].link] # Null /\ ks[ns[n].link].open /\ ks[ns[n].link].name = n
  BY DEF Owned
<1>1. ns[n].link \in Salts
  BY NodeFields DEF Owned
<1> QED
  BY <1>1 DEF Owned

\* A name found for d: one of its own, and no node's of another dslink
Fits(d, n) == n \in NamesOf(d) /\ (nodes[n] = Null \/ nodes[n].dsId = d)

\* The search for a name ends with one that fits, with the dsId at the latest.
LEMMA NameFits ==
  ASSUME Named, NEW bd, NEW bn, NEW ls, Agree(bd, bn, ls), Owned(ls, nodes), NEW d \in DsIds, bd[d] = Null
  PROVE  Fits(d, NameOf[d][Down!NameIndex(d, bn)])
<1> DEFINE N == NameOf[d]
           L == Len(N)
           Own(n) == nodes[n] = Null \/ nodes[n].dsId = d
           skip(i) == IF bn[N[i]] # Null THEN i + 1 ELSE i
           Search(f) == [i \in DOMAIN N |-> IF Own(N[skip(i)]) THEN skip(i) ELSE f[skip(i) + 1]]
           F == CHOOSE f : f = Search(f)
           S == {i \in 1..L : Own(N[skip(i)])}
           res == [i \in 1..L |-> skip(i)]
           next == [i \in 1..L |-> skip(i) + 1]
<1>1. N \in Seq(Children) /\ L \in Nat /\ L >= 1 /\ DOMAIN N = 1..L
  BY NamesAre, SessionConstants
<1>2. \A i \in 1..L : N[i] \in NamesOf(d) /\ N[i] \in Children
  BY <1>1, NamesAre DEF NamesOf
<1>3. ASSUME NEW e \in DsIds, N[L] \in NamesOf(e) PROVE e = d
  BY <1>3 DEF Named
<1>4. bn[N[L]] = Null
  <2> SUFFICES ASSUME bn[N[L]] # Null PROVE FALSE
    OBVIOUS
  <2>1. PICK s \in Salts : bn[N[L]] = s
    BY <1>1, <1>2 DEF Agree
  <2>2. Attempt0(ls, s) /\ ls[s].name = N[L]
    BY <1>1, <1>2, <2>1 DEF Agree
  <2>3. ls[s].who \in DsIds /\ N[L] \in NamesOf(ls[s].who)
    BY <2>2, LinkFields DEF Agree, Attempt0
  <2>4. ls[s].who = d
    BY <1>3, <2>3
  <2>5. bd[d] = s
    BY <2>2, <2>4 DEF Agree
  <2> QED
    BY <2>1, <2>5, NullApart
<1>5. Own(N[L])
  <2> SUFFICES ASSUME nodes[N[L]] # Null PROVE nodes[N[L]].dsId = d
    OBVIOUS
  <2>1. nodes[N[L]].dsId \in DsIds /\ N[L] \in NamesOf(nodes[N[L]].dsId)
    BY <1>1, <1>2, NodeFields DEF Owned
  <2> QED
    BY <1>3, <2>1
<1>6. Down!NameIndex(d, bn) = F[1]
  BY DEF Down!NameIndex
<1> HIDE DEF Own
<1>7. ASSUME NEW i \in 1..L PROVE skip(i) \in i..L
  BY <1>1, <1>4, <1>7
<1>8. ASSUME NEW i \in 1..L, i \notin S PROVE skip(i) + 1 \in (i + 1)..L
  <2>1. ~Own(N[skip(i)]) /\ skip(i) \in i..L
    BY <1>7, <1>8
  <2>2. skip(i) # L
    BY <1>5, <2>1
  <2> HIDE DEF skip
  <2> QED
    BY <1>1, <2>1, <2>2
<1> HIDE DEF skip
<1>9. F = Search(F)
  <2>1. Goes(1..L, S, next)
    BY <1>1, <1>8 DEF Goes
  <2> HIDE DEF F
  <2>2. PICK G : Searches(G, 1..L, S, res, next)
    <3> HIDE DEF S, res, next, L
    <3> QED
      BY ONLY <2>1, SearchIsFunction
  <2>3. G = Search(G)
    <3>1. \A i \in 1..L : (IF i \in S THEN res[i] ELSE G[next[i]])
                           = IF Own(N[skip(i)]) THEN skip(i) ELSE G[skip(i) + 1]
      OBVIOUS
    <3> QED
      BY <1>1, <2>2, <3>1 DEF Searches
  <2> HIDE DEF Search
  <2> QED
    BY <2>3 DEF F
<1> HIDE DEF F
<1>10. PICK j \in 1..L : j \in S /\ F[1] = res[j]
  <2>1. Searches(F, 1..L, S, res, next)
    <3>1. \A i \in 1..L : (IF i \in S THEN res[i] ELSE F[next[i]])
                           = IF Own(N[skip(i)]) THEN skip(i) ELSE F[skip(i) + 1]
      OBVIOUS
    <3> QED
      BY <1>1, <1>9, <3>1 DEF Searches
  <2>2. Climbs(L, S, next)
    BY <1>8 DEF Climbs
  <2>3. L \in Nat /\ 1 \in 1..L
    BY <1>1
  <2> HIDE DEF S, res, next, L
  <2>4. \A i \in 1..L : \E j \in 1..L : j \in S /\ F[i] = res[j]
    BY ONLY <2>1, <2>2, <2>3, SearchEnds
  <2> QED
    BY <2>3, <2>4
<1>11. F[1] = skip(j) /\ skip(j) \in 1..L /\ Own(N[skip(j)])
  <2>1. F[1] = skip(j) /\ Own(N[skip(j)]) /\ skip(j) \in j..L
    BY <1>7, <1>10
  <2> QED
    BY <1>1, <2>1
<1> QED
  BY <1>2, <1>6, <1>11 DEF Fits, Own

\* The salt of a new attempt is nobody's.
LEMMA SaltFree ==
  ASSUME Down!Unused # {}
  PROVE  Down!NewSalt \in Salts /\ links[Down!NewSalt] = Null
<1>1. Down!Unused \in SUBSET Nat /\ Down!Unused \subseteq Salts
  BY DEF Down!Unused, Down!Salts, Salts
<1>2. \E s \in Down!Unused : \A x \in Down!Unused : s <= x
  BY <1>1, Least
<1>3. Down!NewSalt \in Down!Unused
  BY <1>2 DEF Down!NewSalt
<1> QED
  BY <1>1, <1>3 DEF Down!Unused, Down!InUse, Down!Salts, Salts

-----------------------------------------------------------------------------
\* The tables when the older attempt of d has left them
Left(d) ==
  /\ Agree([byDsId EXCEPT ![d] = Null], Down!NamesLeft(d), Down!LinksLeft(d))
  /\ Owned(Down!LinksLeft(d), nodes)
  /\ Seated(Down!LinksLeft(d), nodes, orphans) /\ Going(Down!LinksLeft(d), nodes, orphans)
  /\ \A s \in Salts : Down!LinksLeft(d)[s] # Null => Down!LinksLeft(d)[s] = links[s]

LEMMA LeftAgrees ==
  ASSUME SessInv, NEW d \in DsIds
  PROVE  Left(d)
<1> DEFINE ks == Down!LinksLeft(d)
           be == [byDsId EXCEPT ![d] = Null]
<1>1. Agree(byDsId, byName, links) /\ Owned(links, nodes)
  BY DEF SessInv
<1>2. CASE byDsId[d] = Null
  <2>1. be = byDsId
    BY <1>1, <1>2 DEF Agree
  <2>2. Down!NamesLeft(d) = byName /\ ks = links
    BY <1>2 DEF Down!NamesLeft, Down!LinksLeft
  <2> QED
    BY <1>1, <2>1, <2>2 DEF Left, SessInv
<1>3. CASE byDsId[d] # Null
  <2> DEFINE l == byDsId[d]
  <2>1. Down!NamesLeft(d) = [byName EXCEPT ![links[l].name] = Null] /\ ks = [links EXCEPT ![l] = Null]
    BY <1>3 DEF Down!NamesLeft, Down!LinksLeft
  <2>2. l \in Salts /\ Attempt0(links, l) /\ Agree(be, Down!NamesLeft(d), ks)
    <3>1. /\ l \in Salts /\ Attempt0(links, l)
          /\ Agree(be, [byName EXCEPT ![links[l].name] = Null], [links EXCEPT ![l] = Null])
      BY <1>1, <1>3, AgreeLeft
    <3> HIDE DEF l, be, ks
    <3> QED
      BY <2>1, <3>1
  <2>3. ks[l] = Null /\ \A s \in Salts \ {l} : ks[s] = links[s]
    BY <1>1, <2>1, <2>2 DEF Agree
  <2> HIDE DEF ks, be
  <2>4. \A s \in Salts : ks[s] # Null => ks[s] = links[s]
    BY <2>3
  <2>5. \A s \in Salts : links[s] # Null /\ links[s].open => ks[s] = links[s]
    BY <2>2, <2>3 DEF Attempt0
  <2>6. Owned(ks, nodes)
    <3>1. \A s \in Salts : Attempt0(ks, s) => nodes[ks[s].name] = Null \/ nodes[ks[s].name].dsId = ks[s].who
      BY <1>1, <2>4 DEF Owned, Attempt0
    <3> QED
      BY <1>1, <2>5, <3>1, OwnedKept
  <2>7. Seated(ks, nodes, orphans) /\ Going(ks, nodes, orphans)
    BY <2>4, <2>5 DEF Seated, Going, SessInv
  <2> QED
    BY <2>2, <2>4, <2>6, <2>7 DEF Left, SessInv, ks, be
<1> QED
  BY <1>2, <1>3

\* A granted conn request with tokens: the node is the dslink's.
LEMMA GrantedOwns ==
  ASSUME NEW bd, NEW bn, NEW ls, Agree(bd, bn, ls), Owned(ls, nodes), NEW d \in DsIds, NEW n \in NamesOf(d),
         TokenOf[d] \in Tokens, nodes[n] = Null \/ nodes[n].dsId = d,
         NEW l \in Salts, Attempt0(ls, l), ls[l].who = d, ls[l].name = n
  PROVE  /\ Owned(ls, Down!Granted(d, n))
         /\ LET os == orphans \cup IF listed THEN Down!Held(n) ELSE {} IN
            /\ Seated(ls, nodes, orphans) => Seated(ls, Down!Granted(d, n), os)
            /\ Going(ls, nodes, orphans) => Going(ls, Down!Granted(d, n), os)
<1> DEFINE k == [dsId |-> d, meta |-> IF nodes[n] = Null THEN Null ELSE nodes[n].meta, token |-> TokenOf[d],
                 link |-> IF nodes[n] = Null \/ listed THEN Null ELSE nodes[n].link]
           ks == Down!Granted(d, n)
           os == orphans \cup IF listed THEN Down!Held(n) ELSE {}
<1>1. n \in Children /\ nodes \in [Children -> Node \cup {Null}]
  BY NamesAre DEF Owned
<1>2. ks = [nodes EXCEPT ![n] = k]
  BY DEF Down!Granted
<1>3. k.meta \in {Null, d} /\ k.meta \in DsIds \cup {Null} /\ k.link \in Salts \cup {Null}
  BY <1>1, NodeFields DEF Owned
<1>4. k \in Node /\ k.dsId = d
  BY <1>3 DEF Node
<1>5. k # Null /\ (k.link # Null => nodes[n] # Null /\ ~listed /\ k.link = nodes[n].link)
  BY <1>4, NullIsNone
<1>6. nodes[n] # Null /\ ~listed => k.link = nodes[n].link
  OBVIOUS
<1> HIDE DEF k
<1>7. ks[n] = k /\ ks \in [Children -> Node \cup {Null}] /\ \A m \in Children \ {n} : ks[m] = nodes[m]
  BY <1>1, <1>2, <1>4
<1> HIDE DEF ks
<1>8. ASSUME NEW s \in Salts, Attempt0(ls, s) PROVE ks[ls[s].name] = Null \/ ks[ls[s].name].dsId = ls[s].who
  <2>1. ls[s].name \in Children
    BY <1>8, LinkFields DEF Agree, Attempt0
  <2>2. CASE ls[s].name = n
    <3>1. bn[n] = s /\ bn[n] = l
      BY <1>1, <1>8, <2>2 DEF Agree
    <3> QED
      BY <1>4, <1>7, <2>2, <3>1
  <2>3. CASE ls[s].name # n
    BY <1>7, <1>8, <2>1, <2>3 DEF Owned
  <2> QED
    BY <2>2, <2>3
<1>9. ASSUME NEW m \in Children, ks[m] # Null
      PROVE  /\ m \in NamesOf(ks[m].dsId) /\ ks[m].meta \in {Null, ks[m].dsId}
             /\ ks[m].link # Null => ls[ks[m].link] # Null /\ ls[ks[m].link].open /\ ls[ks[m].link].name = m
  <2>1. CASE m = n
    BY <1>1, <1>3, <1>4, <1>5, <1>7, <2>1 DEF Owned
  <2>2. CASE m # n
    BY <1>7, <1>9, <2>2 DEF Owned
  <2> QED
    BY <2>1, <2>2
<1>10. ASSUME Seated(ls, nodes, orphans) PROVE Seated(ls, ks, os)
  <2> SUFFICES ASSUME NEW s \in Salts \ os, ls[s] # Null, ls[s].open
               PROVE  ks[ls[s].name] # Null /\ ks[ls[s].name].link = s /\ ks[ls[s].name].dsId = ls[s].who
    BY DEF Seated
  <2>1. ls[s].name \in Children /\ nodes[ls[s].name] # Null /\ nodes[ls[s].name].link = s
        /\ nodes[ls[s].name].dsId = ls[s].who
    BY <1>10, LinkFields DEF Agree, Seated
  <2>2. CASE ls[s].name = n
    <3>1. ~listed
      BY <2>1, <2>2, NullApart DEF Down!Held
    <3> QED
      BY <1>4, <1>5, <1>6, <1>7, <2>1, <2>2, <3>1
  <2>3. CASE ls[s].name # n
    BY <1>7, <2>1, <2>3
  <2> QED
    BY <2>2, <2>3
<1>11. ASSUME Going(ls, nodes, orphans) PROVE Going(ls, ks, os)
  <2> SUFFICES ASSUME NEW s \in os
               PROVE  /\ s \in Salts /\ ls[s] # Null /\ ls[s].open
                      /\ \A m \in Children : ks[m] # Null => ks[m].link # s
    BY DEF Going
  <2>1. CASE s \in orphans
    <3>1. s \in Salts /\ ls[s] # Null /\ ls[s].open /\ \A m \in Children : nodes[m] # Null => nodes[m].link # s
      BY <1>11, <2>1 DEF Going
    <3>2. k.link # s
      BY <1>1, <1>5, <3>1, NullApart
    <3> QED
      BY <1>7, <3>1, <3>2
  <2>2. CASE s \notin orphans
    <3>1. listed /\ nodes[n] # Null /\ s = nodes[n].link /\ s # Null
      BY <2>2 DEF Down!Held
    <3>2. s \in Salts /\ ls[s] # Null /\ ls[s].open /\ ls[s].name = n
      BY <1>1, <3>1, NodeFields DEF Owned
    <3>3. \A m \in Children \ {n} : nodes[m] # Null => nodes[m].link # s
      BY <3>1, <3>2 DEF Owned
    <3> QED
      BY <1>5, <1>7, <3>1, <3>2, <3>3
  <2> QED
    BY <2>1, <2>2
<1> QED
  BY <1>7, <1>8, <1>9, <1>10, <1>11 DEF Owned, ks

\* conn requests: the older attempt leaves, a new one enters.
LEMMA ConnKeepsSessInv ==
  ASSUME Named, TokenOf \in [DsIds -> Tokens], SessInv, NEW m \in requests, Down!HandleConn(m), ~overtaken'
  PROVE  SessInv'
<1> DEFINE d == m.dsId
           ks == Down!LinksLeft(d)
           nl == Down!NamesLeft(d)
           be == [byDsId EXCEPT ![d] = Null]
           i == Down!NameIndex(d, nl)
           n == NameOf[d][i]
           new == Down!NewSalt
           k == [who |-> d, name |-> n, open |-> FALSE, live |-> FALSE]
<1>1. d \in DsIds
  BY DEF SessInv, IsRequest
<1>2. Left(d)
  BY <1>1, LeftAgrees
<1>3. \A x \in requests' : IsRequest(x)
  BY DEF Down!HandleConn, SessInv
<1>4. UNCHANGED <<tokensOn, conns>>
  BY DEF Down!HandleConn, Down!config
<1>5. CASE /\ byDsId' = be /\ byName' = nl /\ links' = ks
           /\ UNCHANGED <<nodes, saving, orphans>>
  <2> HIDE DEF ks, nl, be, d
  <2>1. /\ Agree(byDsId', byName', links') /\ Owned(links', nodes')
        /\ Seated(links', nodes', orphans') /\ Going(links', nodes', orphans')
    BY <1>2, <1>4, <1>5 DEF Left, ks, nl, be
  <2>2. ConnsOk' /\ (~tokensOn' => Kept') /\ tokensOn' \in BOOLEAN /\ saving' \in BOOLEAN
    BY <1>4, <1>5 DEF SessInv, ConnsOk, Kept, Stored
  <2> QED
    BY <1>3, <2>1, <2>2 DEF SessInv
<1>6. CASE /\ Down!Unused # {}
           /\ byDsId' = [byDsId EXCEPT ![d] = new] /\ byName' = [nl EXCEPT ![n] = new]
           /\ links' = [ks EXCEPT ![new] = k]
           /\ nl[n] = Null
           /\ IF tokensOn
              THEN /\ nodes' = Down!Granted(d, n) /\ saving' = TRUE
                   /\ orphans' = orphans \cup IF listed THEN Down!Held(n) ELSE {}
              ELSE UNCHANGED <<nodes, saving, orphans>>
  <2>1. Agree(be, nl, ks) /\ Owned(ks, nodes) /\ be[d] = Null
    BY <1>1, <1>2 DEF Left, SessInv, Agree
  <2>2. Fits(d, n)
    <3> HIDE DEF nl, ks, be, d
    <3> QED
      BY <1>1, <2>1, NameFits
  <2>3. new \in Salts /\ ks[new] = Null
    BY <1>2, <1>6, SaltFree DEF Left
  <2>4. byDsId' = [be EXCEPT ![d] = new]
    BY <1>1, <1>6 DEF SessInv, Agree
  <2> HIDE DEF d, ks, nl, be, new, n
  <2>5. Agree(byDsId', byName', links')
    <3>1. n \in NamesOf(d) /\ nl[n] = Null
      BY <1>6, <2>2 DEF Fits
    <3>2. Agree([be EXCEPT ![d] = new], [nl EXCEPT ![n] = new], [ks EXCEPT ![new] = k])
      BY <1>1, <2>1, <2>3, <3>1, AgreeEntered
    <3> HIDE DEF k
    <3> QED
      BY <1>6, <2>4, <3>2
  <2>6. links'[new] = k /\ \A s \in Salts \ {new} : links'[s] = ks[s]
    BY <1>6, <2>1, <2>3 DEF Agree
  <2>7. k # Null /\ k.who = d /\ k.name = n /\ k.open = FALSE
    <3>1. links'[new] \in Link \cup {Null} /\ n \in Children
      BY <1>1, <2>2, <2>3, <2>5, NamesAre DEF Agree, Fits
    <3>2. k \in Link
      BY <1>1, <3>1 DEF Link
    <3> QED
      BY <3>2, NullIsNone
  <2> HIDE DEF k
  <2>8. Owned(links', nodes)
    <3>1. \A s \in Salts : ks[s] # Null /\ ks[s].open => links'[s] = ks[s]
      BY <2>3, <2>6
    <3>2. \A s \in Salts : Attempt0(links', s) => nodes[links'[s].name] = Null \/ nodes[links'[s].name].dsId = links'[s].who
      BY <2>1, <2>2, <2>6, <2>7 DEF Owned, Attempt0, Fits
    <3> QED
      BY <2>1, <3>1, <3>2, OwnedKept
  <2>9. Seated(links', nodes, orphans) /\ Going(links', nodes, orphans)
    <3>1. Seated(ks, nodes, orphans) /\ Going(ks, nodes, orphans)
      BY <1>2 DEF Left, ks
    <3> QED
      BY <2>3, <2>6, <2>7, <3>1 DEF Seated, Going
  <2>10. Owned(links', nodes') /\ Seated(links', nodes', orphans') /\ Going(links', nodes', orphans')
    <3>1. CASE tokensOn
      <4> DEFINE os == orphans \cup IF listed THEN Down!Held(n) ELSE {}
      <4>1. /\ Owned(links', Down!Granted(d, n))
            /\ Seated(links', Down!Granted(d, n), os) /\ Going(links', Down!Granted(d, n), os)
        <5>1. Attempt0(links', new) /\ links'[new].who = d /\ links'[new].name = n /\ TokenOf[d] \in Tokens
          BY <1>1, <2>6, <2>7 DEF Attempt0
        <5>2. n \in NamesOf(d) /\ (nodes[n] = Null \/ nodes[n].dsId = d)
          BY <2>2 DEF Fits
        <5> QED
          BY <1>1, <2>3, <2>5, <2>8, <2>9, <5>1, <5>2, GrantedOwns
      <4>2. nodes' = Down!Granted(d, n) /\ orphans' = os
        BY <1>6, <3>1
      <4> HIDE DEF os
      <4> QED
        BY <4>1, <4>2
    <3>2. CASE ~tokensOn
      BY <1>6, <2>8, <2>9, <3>2
    <3> QED
      BY <3>1, <3>2
  <2>11. ConnsOk' /\ (~tokensOn' => Kept') /\ tokensOn' \in BOOLEAN /\ saving' \in BOOLEAN
    <3>1. CASE tokensOn
      BY <1>4, <1>6, <3>1 DEF SessInv, ConnsOk
    <3>2. CASE ~tokensOn
      BY <1>4, <1>6, <3>2 DEF SessInv, ConnsOk, Kept, Stored
    <3> QED
      BY <3>1, <3>2
  <2> QED
    BY <1>3, <2>5, <2>10, <2>11 DEF SessInv
<1> QED
  BY <1>5, <1>6 DEF Down!HandleConn, Down!history

\* ws requests: the attempt of the dslink ends, or becomes its session.
LEMMA WsKeepsSessInv ==
  ASSUME SessInv, NEW m \in requests, Down!HandleWs(m)
  PROVE  SessInv'
<1> DEFINE d == m.dsId
           l == byDsId[d]
           n == links[l].name
           fresh == nodes[n] = Null
           node == IF fresh THEN [dsId |-> d, meta |-> Null, token |-> Null, link |-> Null] ELSE nodes[n]
           be == [byDsId EXCEPT ![d] = Null]
           nl == [byName EXCEPT ![n] = Null]
           ks == [links EXCEPT ![l] = Null]
<1>1. d \in DsIds
  BY DEF SessInv, IsRequest
<1>2. /\ UNCHANGED <<tokensOn, conns, orphans>> /\ m.live \in BOOLEAN
      /\ \A x \in requests' : IsRequest(x)
  BY DEF Down!HandleWs, Down!config, Down!disk, Down!history, SessInv, IsRequest
<1>3. CASE l = Null /\ UNCHANGED <<byDsId, byName, links, nodes, saving>>
  <2>1. ConnsOk' /\ (~tokensOn' => Kept') /\ tokensOn' \in BOOLEAN /\ saving' \in BOOLEAN
    BY <1>2, <1>3 DEF SessInv, ConnsOk, Kept, Stored
  <2> QED
    BY <1>2, <1>3, <2>1 DEF SessInv
<1>4. ASSUME l # Null
      PROVE  /\ l \in Salts /\ Attempt0(links, l) /\ links[l].who = d /\ n \in Children /\ byName[n] = l
             /\ Agree(be, nl, ks) /\ links \in [Salts -> Link \cup {Null}]
             /\ ks[l] = Null /\ \A s \in Salts \ {l} : ks[s] = links[s]
  <2>1. Agree(byDsId, byName, links)
    BY DEF SessInv
  <2>2. /\ l \in Salts /\ Attempt0(links, l) /\ links[l].who = d /\ n \in Children /\ byName[n] = l
        /\ Agree(be, nl, ks)
    BY <1>1, <1>4, <2>1, AgreeLeft
  <2>3. links \in [Salts -> Link \cup {Null}]
    BY <2>1 DEF Agree
  <2>4. ks[l] = Null /\ \A s \in Salts \ {l} : ks[s] = links[s]
    <3> HIDE DEF l
    <3> QED
      BY <2>2, <2>3
  <2> HIDE DEF ks, nl, be, n, l
  <2> QED
    BY <2>2, <2>3, <2>4
<1>5. CASE /\ l # Null /\ byDsId' = be /\ byName' = nl
           /\ links' = ks /\ UNCHANGED <<nodes, saving>>
  <2>1. Agree(byDsId', byName', links')
    BY <1>4, <1>5
  <2> HIDE DEF ks, l
  <2>2. Owned(links', nodes')
    <3>1. Owned(links, nodes)
      BY DEF SessInv
    <3>2. \A s \in Salts : links[s] # Null /\ links[s].open => ks[s] = links[s]
      BY <1>4, <1>5 DEF Attempt0
    <3>3. \A s \in Salts : Attempt0(ks, s) => nodes[ks[s].name] = Null \/ nodes[ks[s].name].dsId = ks[s].who
      BY <1>4, <1>5, <3>1 DEF Owned, Attempt0
    <3> QED
      BY <1>5, <3>1, <3>2, <3>3, OwnedKept
  <2>3. Seated(links', nodes', orphans') /\ Going(links', nodes', orphans')
    BY <1>2, <1>4, <1>5 DEF SessInv, Seated, Going, Attempt0
  <2>4. ConnsOk' /\ (~tokensOn' => Kept') /\ tokensOn' \in BOOLEAN /\ saving' \in BOOLEAN
    BY <1>2, <1>5 DEF SessInv, ConnsOk, Kept, Stored
  <2> QED
    BY <1>2, <2>1, <2>2, <2>3, <2>4 DEF SessInv
<1>6. CASE /\ l # Null /\ byDsId' = be /\ byName' = nl
           /\ links' = [Down!Ended(node) EXCEPT ![l] = [@ EXCEPT !.open = TRUE, !.live = m.live]]
           /\ nodes' = [nodes EXCEPT ![n] = [node EXCEPT !.meta = d, !.link = l]]
           /\ saving' = Down!SaveDue(fresh)
  <2> DEFINE e == Down!Ended(node)
             k == [e[l] EXCEPT !.open = TRUE, !.live = m.live]
             x == [node EXCEPT !.meta = d, !.link = l]
  <2>1. /\ Owned(links, nodes) /\ nodes \in [Children -> Node \cup {Null}]
        /\ Seated(links, nodes, orphans) /\ n \in NamesOf(d)
    BY <1>4, <1>6 DEF SessInv, Owned, Agree, Attempt0
  <2>2. node \in Node /\ node.dsId = d /\ (fresh => node.link = Null) /\ (~fresh => node = nodes[n])
    <3>1. CASE fresh
      BY <1>1, <3>1 DEF Node
    <3>2. CASE ~fresh
      BY <1>4, <1>6, <2>1, <3>2 DEF Owned
    <3> QED
      BY <3>1, <3>2
  <2>3. /\ node.link \in Salts \cup {Null} /\ node.link # l
        /\ node.link # Null => links[node.link] # Null /\ links[node.link].open /\ links[node.link].name = n
    <3>1. node.link \in Salts \cup {Null}
      BY <2>2 DEF Node
    <3>2. node.link # Null => links[node.link] # Null /\ links[node.link].open /\ links[node.link].name = n
      BY <1>4, <1>6, <2>1, <2>2 DEF Owned
    <3>3. node.link # l
      BY <1>4, <1>6, <3>2 DEF Attempt0
    <3> QED
      BY <3>1, <3>2, <3>3
  <2>4. x \in Node /\ x # Null /\ x.dsId = d /\ x.meta = d /\ x.link = l /\ x.token = node.token
    <3> HIDE DEF node, l, d
    <3>1. x \in Node /\ x.dsId = d /\ x.meta = d /\ x.link = l /\ x.token = node.token
      BY <1>1, <1>4, <1>6, <2>2 DEF Node
    <3> QED
      BY <3>1, NullIsNone
  <2>5. /\ e \in [Salts -> Link \cup {Null}] /\ e[l] = links[l] /\ (node.link # Null => e[node.link] = Null)
        /\ \A s \in Salts : s # node.link => e[s] = links[s]
    <3> HIDE DEF node, l
    <3> QED
      BY <1>4, <1>6, <2>3, NullApart DEF Down!Ended
  <2>6. k \in Link /\ k # Null /\ k.who = d /\ k.name = n /\ k.open
    <3>1. links[l] \in Link
      BY <1>4, <1>6, LinkFields DEF Attempt0
    <3> HIDE DEF d, l, e
    <3>2. k \in Link /\ k.who = d /\ k.name = n /\ k.open
      BY <1>2, <1>4, <1>6, <2>5, <3>1 DEF Link
    <3> QED
      BY <3>2, NullIsNone
  <2>7. links' = [e EXCEPT ![l] = k] /\ nodes' = [nodes EXCEPT ![n] = x]
    BY <1>6
  <2> HIDE DEF e, k, x, node, l
  <2>20. l \in Salts /\ Attempt0(links, l) /\ l # Null /\ links \in [Salts -> Link \cup {Null}]
    BY <1>4, <1>6
  <2>8. /\ links' \in [Salts -> Link \cup {Null}] /\ links'[l] = k
        /\ \A s \in Salts \ {l} : links'[s] = IF s = node.link THEN Null ELSE links[s]
    <3>1. links' \in [Salts -> Link \cup {Null}] /\ links'[l] = k /\ \A s \in Salts \ {l} : links'[s] = e[s]
      BY <2>5, <2>6, <2>7, <2>20
    <3>2. \A s \in Salts : e[s] = IF s = node.link THEN Null ELSE links[s]
      BY <2>5, NullApart
    <3> QED
      BY <3>1, <3>2
  <2>9. /\ nodes' \in [Children -> Node \cup {Null}] /\ nodes'[n] = x
        /\ \A c \in Children \ {n} : nodes'[c] = nodes[c]
    BY <1>4, <1>6, <2>1, <2>4, <2>7
  <2>10. \A s \in Salts : Attempt0(links', s) <=> s # l /\ Attempt0(links, s)
    <3>1. ASSUME NEW s \in Salts, s # l, s = node.link PROVE ~Attempt0(links, s) /\ ~Attempt0(links', s)
      BY <2>3, <2>8, <3>1, NullApart DEF Attempt0
    <3>2. ASSUME NEW s \in Salts, s # l, s # node.link PROVE Attempt0(links, s) <=> Attempt0(links', s)
      BY <2>8, <3>2 DEF Attempt0
    <3>3. ~Attempt0(links', l)
      BY <2>6, <2>8 DEF Attempt0
    <3> QED
      BY <3>1, <3>2, <3>3
  <2>11. Agree(byDsId', byName', links')
    <3> HIDE DEF ks
    <3>1. \A s \in Salts : /\ Attempt0(links', s) <=> Attempt0(ks, s)
                           /\ Attempt0(ks, s) => links'[s].who = ks[s].who /\ links'[s].name = ks[s].name
      BY <1>4, <1>6, <2>3, <2>8, <2>10 DEF Attempt0
    <3>2. \A s \in Salts : links'[s] # Null => links'[s].name \in NamesOf(links'[s].who)
      <4>1. \A s \in Salts : links[s] # Null => links[s].name \in NamesOf(links[s].who)
        BY DEF SessInv, Agree
      <4> QED
        BY <2>1, <2>6, <2>8, <4>1
    <3> QED
      BY <1>4, <1>6, <2>8, <3>1, <3>2, AgreeKept
  <2>12. Owned(links', nodes')
    <3>1. ASSUME NEW c \in Children, nodes'[c] # Null
          PROVE  /\ c \in NamesOf(nodes'[c].dsId) /\ nodes'[c].meta \in {Null, nodes'[c].dsId}
                 /\ nodes'[c].link # Null => /\ links'[nodes'[c].link] # Null /\ links'[nodes'[c].link].open
                                             /\ links'[nodes'[c].link].name = c
      <4>1. CASE c = n
        BY <2>1, <2>4, <2>6, <2>8, <2>9, <4>1
      <4>2. CASE c # n
        <5>1. nodes'[c] = nodes[c] /\ nodes[c] # Null /\ nodes[c].link \in Salts \cup {Null}
          BY <2>1, <2>9, <3>1, <4>2, NodeFields
        <5>2. /\ c \in NamesOf(nodes[c].dsId) /\ nodes[c].meta \in {Null, nodes[c].dsId}
              /\ nodes[c].link # Null => /\ links[nodes[c].link] # Null /\ links[nodes[c].link].open
                                         /\ links[nodes[c].link].name = c
          BY <2>1, <5>1 DEF Owned
        <5>3. nodes[c].link # Null => nodes[c].link # l /\ nodes[c].link # node.link
          BY <1>4, <1>6, <2>3, <4>2, <5>2 DEF Attempt0
        <5> QED
          BY <2>8, <5>1, <5>2, <5>3
      <4> QED
        BY <4>1, <4>2
    <3>2. ASSUME NEW s \in Salts, Attempt0(links', s)
          PROVE  nodes'[links'[s].name] = Null \/ nodes'[links'[s].name].dsId = links'[s].who
      <4>1. s # l /\ Attempt0(links, s) /\ links'[s] = links[s] /\ links[s].name \in Children
        BY <1>4, <1>6, <2>3, <2>8, <2>10, <3>2, LinkFields DEF Attempt0
      <4>2. links[s].name # n
        BY <1>4, <1>6, <4>1 DEF SessInv, Agree
      <4> QED
        BY <2>1, <2>9, <4>1, <4>2 DEF Owned
    <3> QED
      BY <2>9, <3>1, <3>2 DEF Owned
  <2>13. Seated(links', nodes', orphans')
    <3> SUFFICES ASSUME NEW s \in Salts \ orphans, links'[s] # Null, links'[s].open
                 PROVE  /\ nodes'[links'[s].name] # Null /\ nodes'[links'[s].name].link = s
                        /\ nodes'[links'[s].name].dsId = links'[s].who
      BY <1>2 DEF Seated
    <3>1. CASE s = l
      BY <2>4, <2>6, <2>8, <2>9, <3>1
    <3>2. CASE s # l
      <4>1. s # node.link /\ links'[s] = links[s] /\ links[s].name \in Children
        BY <1>4, <1>6, <2>8, <3>2, LinkFields
      <4>2. nodes[links[s].name] # Null /\ nodes[links[s].name].link = s /\ nodes[links[s].name].dsId = links[s].who
        BY <2>1, <3>2, <4>1 DEF Seated
      <4>3. links[s].name # n
        BY <2>2, <4>1, <4>2 DEF node
      <4> QED
        BY <2>9, <4>1, <4>2, <4>3
    <3> QED
      BY <3>1, <3>2
  <2>17. Going(links', nodes', orphans')
    <3> SUFFICES ASSUME NEW s \in orphans
                 PROVE  /\ s \in Salts /\ links'[s] # Null /\ links'[s].open
                        /\ \A c \in Children : nodes'[c] # Null => nodes'[c].link # s
      BY <1>2 DEF Going
    <3>1. /\ s \in Salts /\ links[s] # Null /\ links[s].open
          /\ \A c \in Children : nodes[c] # Null => nodes[c].link # s
      BY DEF SessInv, Going
    <3>2. s # l
      BY <2>20, <3>1 DEF Attempt0
    <3>3. s # node.link
      BY <1>4, <1>6, <2>2, <3>1, NullApart
    <3> QED
      BY <2>4, <2>8, <2>9, <3>1, <3>2, <3>3
  <2>14. tokensOn' \in BOOLEAN /\ saving' \in BOOLEAN /\ (~saving' => ~saving /\ ~fresh)
    BY <1>2, <1>6 DEF SessInv, Down!SaveDue
  <2>15. ~tokensOn' => Kept'
    <3> SUFFICES ASSUME ~tokensOn' PROVE Kept'
      OBVIOUS
    <3>1. Kept
      BY <1>2 DEF SessInv
    <3>2. \A c \in Children : nodes'[c] # Null => nodes'[c].meta # Null
      BY <1>1, <2>4, <2>9, <3>1, NullApart DEF Kept
    <3>3. ~saving' => Stored' = Stored
      <4> SUFFICES ASSUME ~saving'
                   PROVE  \A c \in Children :
                     (IF nodes'[c] = Null THEN Null ELSE [meta |-> nodes'[c].meta, token |-> nodes'[c].token])
                       = IF nodes[c] = Null THEN Null ELSE [meta |-> nodes[c].meta, token |-> nodes[c].token]
        BY DEF Stored
      <4>1. nodes[n] # Null /\ nodes[n].meta # Null /\ node = nodes[n]
        BY <1>4, <1>6, <2>2, <2>14, <3>1 DEF Kept
      <4>2. nodes[n].meta = d
        BY <1>4, <1>6, <2>1, <2>2, <4>1 DEF Owned
      <4> QED
        BY <2>4, <2>9, <4>1, <4>2
    <3> QED
      BY <1>2, <2>14, <3>1, <3>2, <3>3 DEF Kept
  <2>16. ConnsOk'
    BY <1>2 DEF SessInv, ConnsOk
  <2> QED
    BY <1>2, <2>11, <2>12, <2>13, <2>14, <2>15, <2>16, <2>17 DEF SessInv
<1> QED
  BY <1>3, <1>5, <1>6 DEF Down!HandleWs, Down!sessions

\* Sessions end or lose their socket, nodes go or lose their links.
Ending ==
  /\ UNCHANGED <<byDsId, byName, tokensOn>>
  /\ links' \in [Salts -> Link \cup {Null}] /\ nodes' \in [Children -> Node \cup {Null}]
  /\ \A s \in Salts :
       \/ links'[s] = Null /\ ~Attempt0(links, s)
       \/ /\ links[s] # Null /\ links'[s] # Null /\ links'[s].who = links[s].who
          /\ links'[s].name = links[s].name /\ links'[s].open = links[s].open
  /\ \A n \in Children : nodes'[n] # Null =>
       /\ nodes[n] # Null /\ nodes'[n].dsId = nodes[n].dsId /\ nodes'[n].meta = nodes[n].meta
       /\ nodes'[n].link # Null => nodes'[n].link = nodes[n].link /\ links'[nodes[n].link] # Null
  /\ \A s \in Salts \ orphans' : links'[s] # Null /\ links'[s].open =>
       s \notin orphans /\ nodes'[links[s].name] = nodes[links[s].name]
  /\ Going(links', nodes', orphans')

LEMMA EndingKeeps ==
  ASSUME SessInv, Ending
  PROVE  /\ Agree(byDsId', byName', links') /\ Owned(links', nodes') /\ Seated(links', nodes', orphans')
         /\ Going(links', nodes', orphans')
<1>1. Agree(byDsId, byName, links) /\ Owned(links, nodes)
  BY DEF SessInv
<1>2. Agree(byDsId, byName, links')
  <2>1. \A s \in Salts : /\ Attempt0(links', s) <=> Attempt0(links, s)
                         /\ Attempt0(links, s) => links'[s].who = links[s].who /\ links'[s].name = links[s].name
                         /\ links'[s] # Null => links'[s].name \in NamesOf(links'[s].who)
    BY <1>1 DEF Ending, Agree, Attempt0
  <2>2. links' \in [Salts -> Link \cup {Null}]
    BY DEF Ending
  <2> QED
    BY <1>1, <2>1, <2>2, AgreeKept
<1>3. Owned(links', nodes')
  <2>1. ASSUME NEW n \in Children, nodes'[n] # Null
        PROVE  /\ n \in NamesOf(nodes'[n].dsId) /\ nodes'[n].meta \in {Null, nodes'[n].dsId}
               /\ nodes'[n].link # Null => /\ links'[nodes'[n].link] # Null /\ links'[nodes'[n].link].open
                                           /\ links'[nodes'[n].link].name = n
    <3>1. /\ nodes[n] # Null /\ nodes'[n].dsId = nodes[n].dsId /\ nodes'[n].meta = nodes[n].meta
          /\ nodes'[n].link # Null => nodes'[n].link = nodes[n].link /\ links'[nodes[n].link] # Null
      BY <2>1 DEF Ending
    <3>2. nodes[n].link \in Salts \cup {Null}
      BY <1>1, <3>1, NodeFields DEF Owned
    <3>3. ASSUME nodes'[n].link # Null
          PROVE  /\ links'[nodes'[n].link] # Null /\ links'[nodes'[n].link].open /\ links'[nodes'[n].link].name = n
      <4> DEFINE s == nodes[n].link
      <4>1. s \in Salts /\ nodes'[n].link = s /\ links'[s] # Null
        BY <3>1, <3>2, <3>3
      <4>2. links[s].open /\ links[s].name = n
        BY <1>1, <3>1, <3>3 DEF Owned
      <4> HIDE DEF s
      <4>3. links'[s].open = links[s].open /\ links'[s].name = links[s].name
        BY <4>1 DEF Ending
      <4> QED
        BY <4>1, <4>2, <4>3
    <3> QED
      BY <1>1, <3>1, <3>3 DEF Owned
  <2>2. ASSUME NEW s \in Salts, Attempt0(links', s)
        PROVE  nodes'[links'[s].name] = Null \/ nodes'[links'[s].name].dsId = links'[s].who
    <3>1. Attempt0(links, s) /\ links'[s].name = links[s].name /\ links'[s].who = links[s].who
      BY <2>2 DEF Ending, Attempt0
    <3>2. links[s].name \in Children
      BY <1>1, <3>1, LinkFields DEF Agree, Attempt0
    <3>3. nodes[links[s].name] = Null \/ nodes[links[s].name].dsId = links[s].who
      BY <1>1, <3>1 DEF Owned
    <3> QED
      BY <3>1, <3>2, <3>3 DEF Ending
  <2> QED
    BY <2>1, <2>2 DEF Owned, Ending
<1>4. Seated(links', nodes', orphans')
  <2> SUFFICES ASSUME NEW s \in Salts \ orphans', links'[s] # Null, links'[s].open
               PROVE  /\ nodes'[links'[s].name] # Null /\ nodes'[links'[s].name].link = s
                      /\ nodes'[links'[s].name].dsId = links'[s].who
    BY DEF Seated
  <2>1. links[s] # Null /\ links[s].open /\ links'[s].name = links[s].name /\ links'[s].who = links[s].who
    BY DEF Ending
  <2>3. s \notin orphans /\ nodes'[links[s].name] = nodes[links[s].name]
    BY DEF Ending
  <2>2. nodes[links[s].name] # Null /\ nodes[links[s].name].link = s /\ nodes[links[s].name].dsId = links[s].who
    BY <2>1, <2>3 DEF SessInv, Seated
  <2> QED
    BY <2>1, <2>2, <2>3
<1> QED
  BY <1>2, <1>3, <1>4 DEF Ending

LEMMA CloseKeepsSessInv ==
  ASSUME SessInv, NEW s \in Salts, Down!CloseLink(s)
  PROVE  SessInv'
<1> DEFINE c == links[s].name
<1>1. /\ links[s] # Null /\ links[s].open /\ links' = [links EXCEPT ![s] = Null]
      /\ nodes' = Down!Detached(nodes, c)
      /\ orphans' = IF s \in orphans THEN (orphans \cup Down!Held(c)) \ {s} ELSE orphans
      /\ UNCHANGED <<tokensOn, byDsId, byName, saving, conns, requests>>
  BY DEF Down!CloseLink, Down!config, Down!disk
<1>2. /\ links \in [Salts -> Link \cup {Null}] /\ Owned(links, nodes) /\ nodes \in [Children -> Node \cup {Null}]
      /\ c \in Children
  BY <1>1, LinkFields DEF SessInv, Agree, Owned
<1>3. links'[s] = Null /\ links' \in [Salts -> Link \cup {Null}] /\ \A t \in Salts \ {s} : links'[t] = links[t]
  BY <1>1, <1>2
<1>4. /\ nodes' \in [Children -> Node \cup {Null}]
      /\ \A n \in Children \ {c} : nodes'[n] = nodes[n]
      /\ nodes[c] = Null => nodes'[c] = Null
      /\ nodes[c] # Null => /\ nodes'[c] # Null /\ nodes'[c].dsId = nodes[c].dsId /\ nodes'[c].meta = nodes[c].meta
                            /\ nodes'[c].token = nodes[c].token /\ nodes'[c].link = Null
  <2>1. CASE nodes[c] = Null
    BY <1>1, <1>2, <2>1 DEF Down!Detached
  <2>2. CASE nodes[c] # Null
    <3> DEFINE x == [nodes[c] EXCEPT !.link = Null]
    <3>1. nodes' = [nodes EXCEPT ![c] = x]
      BY <1>1, <2>2 DEF Down!Detached
    <3>2. nodes[c] \in Node
      BY <1>2, <2>2
    <3> HIDE DEF c
    <3>3. /\ x \in Node /\ x.dsId = nodes[c].dsId /\ x.meta = nodes[c].meta
          /\ x.token = nodes[c].token /\ x.link = Null
      BY <3>2 DEF Node
    <3>4. x # Null
      BY <3>3, NullIsNone
    <3> HIDE DEF x
    <3> QED
      BY <1>2, <2>2, <3>1, <3>3, <3>4
  <2> QED
    BY <2>1, <2>2
<1> HIDE DEF c
<1>5. ASSUME NEW n \in Children, nodes'[n] # Null
      PROVE  /\ nodes[n] # Null /\ nodes'[n].dsId = nodes[n].dsId /\ nodes'[n].meta = nodes[n].meta
             /\ nodes'[n].link # Null => nodes'[n].link = nodes[n].link /\ links'[nodes[n].link] # Null
  <2>1. CASE n = c
    BY <1>4, <1>5, <2>1
  <2>2. CASE n # c
    <3>1. nodes'[n] = nodes[n] /\ nodes[n] # Null /\ nodes[n].link \in Salts \cup {Null}
      BY <1>2, <1>4, <1>5, <2>2, NodeFields
    <3>2. nodes[n].link # Null => links[nodes[n].link] # Null /\ links[nodes[n].link].name = n
      BY <1>2, <3>1 DEF Owned
    <3>3. nodes[n].link # s \/ nodes[n].link = Null
      BY <2>2, <3>2 DEF c
    <3> QED
      BY <1>3, <3>1, <3>2, <3>3
  <2> QED
    BY <2>1, <2>2
<1>6. ASSUME NEW t \in Salts \ orphans', links'[t] # Null, links'[t].open
      PROVE  t \notin orphans /\ nodes'[links[t].name] = nodes[links[t].name]
  <2>1. t # s /\ links[t] # Null /\ links[t].open /\ links[t].name \in Children
    BY <1>2, <1>3, <1>6, LinkFields
  <2>2. t \notin orphans
    BY <1>1, <1>6, <2>1
  <2>3. nodes[links[t].name] # Null /\ nodes[links[t].name].link = t
    BY <2>1, <2>2 DEF SessInv, Seated
  <2>4. links[t].name # c
    <3>1. CASE s \in orphans
      BY <1>1, <1>6, <2>1, <2>3, <3>1, NullApart DEF Down!Held
    <3>2. CASE s \notin orphans
      <4>1. nodes[c].link = s
        BY <1>1, <3>2 DEF SessInv, Seated, c
      <4> QED
        BY <2>1, <2>3, <4>1
    <3> QED
      BY <3>1, <3>2
  <2> QED
    BY <1>4, <2>1, <2>2, <2>4
<1>7. \A t \in Salts :
       \/ links'[t] = Null /\ ~Attempt0(links, t)
       \/ /\ links[t] # Null /\ links'[t] # Null /\ links'[t].who = links[t].who
          /\ links'[t].name = links[t].name /\ links'[t].open = links[t].open
  BY <1>1, <1>3 DEF Attempt0
<1>13. Going(links', nodes', orphans')
  <2> SUFFICES ASSUME NEW t \in orphans'
               PROVE  /\ t \in Salts /\ links'[t] # Null /\ links'[t].open
                      /\ \A n \in Children : nodes'[n] # Null => nodes'[n].link # t
    BY DEF Going
  <2>1. t # s /\ (t \in orphans \/ t \in Down!Held(c))
    BY <1>1
  <2>2. CASE t \in orphans
    <3>1. t \in Salts /\ links[t] # Null /\ links[t].open /\ \A n \in Children : nodes[n] # Null => nodes[n].link # t
      BY <2>2 DEF SessInv, Going
    <3> QED
      BY <1>3, <1>5, <2>1, <3>1, NullApart
  <2>3. CASE t \in Down!Held(c)
    <3>1. nodes[c] # Null /\ t = nodes[c].link /\ t # Null
      BY <2>3 DEF Down!Held
    <3>2. t \in Salts /\ links[t] # Null /\ links[t].open /\ links[t].name = c
      BY <1>2, <3>1, NodeFields DEF Owned
    <3>3. \A n \in Children \ {c} : nodes[n] # Null => nodes[n].link # t
      BY <1>2, <3>1, <3>2 DEF Owned
    <3> QED
      BY <1>3, <1>4, <2>1, <3>1, <3>2, <3>3
  <2> QED
    BY <2>1, <2>2, <2>3
<1>8. Ending
  BY <1>1, <1>3, <1>4, <1>5, <1>6, <1>7, <1>13 DEF Ending
<1>9. /\ Agree(byDsId', byName', links') /\ Owned(links', nodes')
      /\ Seated(links', nodes', orphans') /\ Going(links', nodes', orphans')
  BY <1>8, EndingKeeps
<1>10. Stored' = Stored
  <2>1. \A n \in Children :
          (IF nodes'[n] = Null THEN Null ELSE [meta |-> nodes'[n].meta, token |-> nodes'[n].token])
            = IF nodes[n] = Null THEN Null ELSE [meta |-> nodes[n].meta, token |-> nodes[n].token]
    BY <1>4
  <2> QED
    BY <2>1 DEF Stored
<1>11. ~tokensOn' => Kept'
  BY <1>1, <1>5, <1>10 DEF SessInv, Kept
<1>12. ConnsOk'
  BY <1>1 DEF SessInv, ConnsOk
<1> QED
  BY <1>1, <1>9, <1>11, <1>12 DEF SessInv

LEMMA ClearKeepsSessInv ==
  ASSUME SessInv, Down!ClearConns
  PROVE  SessInv'
<1>1. /\ UNCHANGED <<tokensOn, byDsId, byName, links, conns, requests, orphans>> /\ saving' = TRUE
      /\ nodes' = [n \in Children |-> IF nodes[n] = Null \/ nodes[n].link = Null THEN Null ELSE nodes[n]]
  BY DEF Down!ClearConns, Down!config, Down!sessions, Down!disk, Down!history
<1>2. /\ links \in [Salts -> Link \cup {Null}] /\ Owned(links, nodes) /\ nodes \in [Children -> Node \cup {Null}]
  BY DEF SessInv, Agree, Owned
<1>3. /\ nodes' \in [Children -> Node \cup {Null}]
      /\ \A n \in Children : nodes'[n] = IF nodes[n] = Null \/ nodes[n].link = Null THEN Null ELSE nodes[n]
  BY <1>1, <1>2
<1>4. ASSUME NEW n \in Children, nodes'[n] # Null
      PROVE  nodes'[n] = nodes[n] /\ nodes[n] # Null /\ links'[nodes[n].link] # Null
  BY <1>1, <1>2, <1>3, <1>4 DEF Owned
<1>5. ASSUME NEW s \in Salts \ orphans', links'[s] # Null, links'[s].open
      PROVE  s \notin orphans /\ nodes'[links[s].name] = nodes[links[s].name]
  <2>1. links[s].name \in Children /\ nodes[links[s].name] # Null /\ nodes[links[s].name].link = s
    BY <1>1, <1>2, <1>5, LinkFields DEF SessInv, Seated
  <2> QED
    BY <1>1, <1>3, <1>5, <2>1, NullApart
<1>9. Going(links', nodes', orphans')
  BY <1>1, <1>4 DEF SessInv, Going
<1>6. Ending
  BY <1>1, <1>2, <1>3, <1>4, <1>5, <1>9 DEF Ending, Attempt0
<1>7. /\ Agree(byDsId', byName', links') /\ Owned(links', nodes')
      /\ Seated(links', nodes', orphans') /\ Going(links', nodes', orphans')
  BY <1>6, EndingKeeps
<1>8. ConnsOk' /\ (~tokensOn' => Kept')
  BY <1>1, <1>4 DEF SessInv, ConnsOk, Kept
<1> QED
  BY <1>1, <1>7, <1>8 DEF SessInv

LEMMA DeleteKeepsSessInv ==
  ASSUME SessInv, NEW t \in Tokens, Down!DeleteToken(t)
  PROVE  SessInv'
<1> DEFINE cleared == IF t \in Managed THEN Down!NodesOf(t) ELSE {}
<1>1. /\ tokensOn /\ UNCHANGED <<tokensOn, byDsId, byName, conns, requests, orphans>>
      /\ saving' = Down!SaveDue(cleared # {})
      /\ links' = [s \in Salts |-> IF \E n \in cleared : nodes[n].link = s THEN Null ELSE links[s]]
      /\ nodes' = [n \in Children |-> IF n \in cleared THEN Null ELSE nodes[n]]
  BY DEF Down!DeleteToken, Down!config, Down!history, Down!Salts, Salts
<1>2. cleared \subseteq Children /\ \A n \in cleared : nodes[n] # Null
  BY DEF Down!NodesOf
<1>3. saving' \in BOOLEAN
  BY <1>1 DEF Down!SaveDue, SessInv
<1> HIDE DEF cleared
<1>4. /\ links \in [Salts -> Link \cup {Null}] /\ Owned(links, nodes) /\ nodes \in [Children -> Node \cup {Null}]
  BY DEF SessInv, Agree, Owned
<1>5. /\ links' \in [Salts -> Link \cup {Null}] /\ nodes' \in [Children -> Node \cup {Null}]
      /\ \A s \in Salts : links'[s] = IF \E n \in cleared : nodes[n].link = s THEN Null ELSE links[s]
      /\ \A n \in Children : nodes'[n] = IF n \in cleared THEN Null ELSE nodes[n]
  BY <1>1, <1>4
<1>6. ASSUME NEW s \in Salts, links'[s] # links[s]
      PROVE  links'[s] = Null /\ links[s].open /\ links[s].name \in cleared
  <2>1. PICK n \in cleared : nodes[n].link = s
    BY <1>5, <1>6
  <2> QED
    BY <1>2, <1>4, <1>5, <1>6, <2>1, NullApart DEF Owned
<1>7. ASSUME NEW n \in Children, nodes'[n] # Null
      PROVE  /\ nodes'[n] = nodes[n] /\ nodes[n] # Null
             /\ nodes[n].link # Null => links'[nodes[n].link] # Null
  <2>1. nodes'[n] = nodes[n] /\ nodes[n] # Null /\ n \notin cleared
    BY <1>5, <1>7
  <2>2. ASSUME nodes[n].link # Null PROVE links'[nodes[n].link] # Null
    <3>1. nodes[n].link \in Salts
      BY <1>4, <2>1, <2>2, NodeFields
    <3>2. links[nodes[n].link] # Null /\ links[nodes[n].link].name = n
      BY <1>4, <2>1, <2>2 DEF Owned
    <3> QED
      BY <1>6, <2>1, <3>1, <3>2
  <2> QED
    BY <2>1, <2>2
<1>8. ASSUME NEW s \in Salts \ orphans', links'[s] # Null, links'[s].open
      PROVE  s \notin orphans /\ nodes'[links[s].name] = nodes[links[s].name]
  <2>1. links'[s] = links[s] /\ s \notin orphans
    BY <1>1, <1>6, <1>8
  <2>2. links[s].name \in Children /\ nodes[links[s].name].link = s
    BY <1>4, <1>8, <2>1, LinkFields DEF SessInv, Seated
  <2>3. links[s].name \notin cleared
    BY <1>5, <1>8, <2>2
  <2> QED
    BY <1>5, <2>1, <2>2, <2>3
<1>9. \A s \in Salts :
       \/ links'[s] = Null /\ ~Attempt0(links, s)
       \/ /\ links[s] # Null /\ links'[s] # Null /\ links'[s].who = links[s].who
          /\ links'[s].name = links[s].name /\ links'[s].open = links[s].open
  BY <1>6 DEF Attempt0
<1>13. Going(links', nodes', orphans')
  <2> SUFFICES ASSUME NEW s \in orphans
               PROVE  /\ s \in Salts /\ links'[s] # Null /\ links'[s].open
                      /\ \A n \in Children : nodes'[n] # Null => nodes'[n].link # s
    BY <1>1 DEF Going
  <2>1. s \in Salts /\ links[s] # Null /\ links[s].open /\ \A n \in Children : nodes[n] # Null => nodes[n].link # s
    BY DEF SessInv, Going
  <2>2. links'[s] = links[s]
    BY <1>2, <1>5, <2>1
  <2> QED
    BY <1>7, <2>1, <2>2
<1>10. Ending
  BY <1>1, <1>5, <1>7, <1>8, <1>9, <1>13 DEF Ending
<1>11. /\ Agree(byDsId', byName', links') /\ Owned(links', nodes')
       /\ Seated(links', nodes', orphans') /\ Going(links', nodes', orphans')
  BY <1>10, EndingKeeps
<1>12. ConnsOk' /\ (~tokensOn' => Kept')
  BY <1>1 DEF SessInv, ConnsOk
<1> QED
  BY <1>1, <1>3, <1>11, <1>12 DEF SessInv

\* The dslink is killed: its sessions have lost its end of the socket.
LEMMA QuitKeepsSessInv ==
  ASSUME SessInv, NEW d \in DsIds, Down!Quit(d)
  PROVE  SessInv'
<1>1. /\ UNCHANGED <<tokensOn, byDsId, byName, nodes, saving, conns, orphans>>
      /\ links' = [s \in Salts |-> IF Down!Session(d, s) THEN [links[s] EXCEPT !.live = FALSE] ELSE links[s]]
  BY DEF Down!Quit, Down!config, Down!disk, Down!history, Down!Salts, Salts
<1>2. /\ links \in [Salts -> Link \cup {Null}] /\ Owned(links, nodes) /\ nodes \in [Children -> Node \cup {Null}]
  BY DEF SessInv, Agree, Owned
<1>3. ASSUME NEW s \in Salts
      PROVE  /\ links'[s] \in Link \cup {Null} /\ (links'[s] = Null <=> links[s] = Null)
             /\ links[s] # Null => /\ links'[s].who = links[s].who /\ links'[s].name = links[s].name
                                   /\ links'[s].open = links[s].open
  <2>1. CASE Down!Session(d, s)
    <3>1. links[s] # Null /\ links[s] \in Link
      BY <1>2, <2>1 DEF Down!Session
    <3>2. links'[s] = [links[s] EXCEPT !.live = FALSE]
      BY <1>1, <2>1
    <3>3. /\ links'[s] \in Link /\ links'[s].who = links[s].who /\ links'[s].name = links[s].name
          /\ links'[s].open = links[s].open
      BY <3>1, <3>2 DEF Link
    <3> QED
      BY <3>1, <3>3, NullIsNone
  <2>2. CASE ~Down!Session(d, s)
    <3>1. links'[s] = links[s]
      BY <1>1, <2>2
    <3> QED
      BY <1>2, <3>1
  <2> QED
    BY <2>1, <2>2
<1>4. links' \in [Salts -> Link \cup {Null}]
  BY <1>1, <1>3
<1>5. \A s \in Salts :
       \/ links'[s] = Null /\ ~Attempt0(links, s)
       \/ /\ links[s] # Null /\ links'[s] # Null /\ links'[s].who = links[s].who
          /\ links'[s].name = links[s].name /\ links'[s].open = links[s].open
  BY <1>3 DEF Attempt0
<1>6. \A n \in Children : nodes[n] # Null /\ nodes[n].link # Null => links'[nodes[n].link] # Null
  <2> SUFFICES ASSUME NEW n \in Children, nodes[n] # Null, nodes[n].link # Null
               PROVE  links'[nodes[n].link] # Null
    OBVIOUS
  <2>1. nodes[n].link \in Salts /\ links[nodes[n].link] # Null
    BY <1>2, NodeFields DEF Owned
  <2> QED
    BY <1>3, <2>1
<1>11. Going(links', nodes', orphans')
  BY <1>1, <1>3 DEF SessInv, Going
<1>7. Ending
  BY <1>1, <1>2, <1>4, <1>5, <1>6, <1>11 DEF Ending
<1>8. /\ Agree(byDsId', byName', links') /\ Owned(links', nodes')
      /\ Seated(links', nodes', orphans') /\ Going(links', nodes', orphans')
  BY <1>7, EndingKeeps
<1>9. ConnsOk' /\ (~tokensOn' => Kept')
  BY <1>1 DEF SessInv, ConnsOk, Kept, Stored
<1>10. \A m \in requests' : IsRequest(m)
  BY QuitRequests DEF SessInv
<1> QED
  BY <1>1, <1>8, <1>9, <1>10 DEF SessInv

LEMMA InitSessInv == Down!Init => SessInv
<1> SUFFICES ASSUME Down!Init PROVE SessInv
  OBVIOUS
<1>1. /\ byDsId = [d \in DsIds |-> Null] /\ byName = [n \in Children |-> Null] /\ links = [s \in Salts |-> Null]
      /\ nodes = [n \in Children |-> Null] /\ conns = [n \in Children |-> Null]
      /\ saving = FALSE /\ tokensOn \in BOOLEAN /\ requests = {} /\ orphans = {}
  BY DEF Down!Init, Down!Salts, Salts
<1>2. Agree(byDsId, byName, links)
  BY <1>1, NullApart DEF Agree, Attempt0
<1>3. Owned(links, nodes) /\ Seated(links, nodes, orphans) /\ Going(links, nodes, orphans) /\ ConnsOk
  BY <1>1 DEF Owned, Seated, Going, ConnsOk, Attempt0
<1>4. Kept
  BY <1>1 DEF Kept, Stored
<1> QED
  BY <1>1, <1>2, <1>3, <1>4 DEF SessInv

\* conns.json is written.
LEMMA SaveKeepsSessInv ==
  ASSUME SessInv, Down!Save
  PROVE  SessInv'
<1>1. /\ UNCHANGED <<tokensOn, byDsId, byName, links, nodes, requests, orphans>>
      /\ saving' = FALSE /\ conns' = Stored
  BY DEF Down!Save, Down!config, Down!sessions, Down!history, Down!Stored, Stored
<1>2. nodes \in [Children -> Node \cup {Null}]
  BY DEF SessInv, Owned
<1>3. ASSUME NEW n \in Children
      PROVE  /\ conns'[n] \in Saved \cup {Null}
             /\ conns'[n] = Null <=> nodes[n] = Null
             /\ nodes[n] # Null => conns'[n].meta = nodes[n].meta
  <2>1. conns'[n] = IF nodes[n] = Null THEN Null ELSE [meta |-> nodes[n].meta, token |-> nodes[n].token]
    BY <1>1 DEF Stored
  <2>2. CASE nodes[n] = Null
    BY <2>1, <2>2
  <2>3. CASE nodes[n] # Null
    <3>1. [meta |-> nodes[n].meta, token |-> nodes[n].token] \in Saved
      BY <1>2, <2>3, NodeFields DEF Saved
    <3> QED
      BY <2>1, <2>3, <3>1, NullIsNone
  <2> QED
    BY <2>2, <2>3
<1>4. conns' \in [Children -> Saved \cup {Null}]
  BY <1>1, <1>3 DEF Stored
<1>5. ConnsOk'
  <2>1. ASSUME NEW n \in Children, conns'[n] # Null, conns'[n].meta # Null PROVE n \in NamesOf(conns'[n].meta)
    BY <1>3, <2>1 DEF SessInv, Owned
  <2> QED
    BY <1>4, <2>1 DEF ConnsOk
<1>6. ~tokensOn' => Kept'
  <2>1. Stored' = Stored
    BY <1>1 DEF Stored
  <2> QED
    BY <1>1, <1>3, <2>1 DEF SessInv, Kept
<1>7. /\ Agree(byDsId', byName', links') /\ Owned(links', nodes')
      /\ Seated(links', nodes', orphans') /\ Going(links', nodes', orphans')
  BY <1>1 DEF SessInv
<1> QED
  BY <1>1, <1>5, <1>6, <1>7 DEF SessInv

\* The broker starts again with the nodes of conns.json.
LEMMA RestartKeepsSessInv ==
  ASSUME SessInv, Down!Restart
  PROVE  SessInv'
<1>1. /\ UNCHANGED <<tokensOn, conns>> /\ saving' = FALSE /\ requests' = {} /\ orphans' = {}
      /\ byDsId' = [d \in DsIds |-> Null] /\ byName' = [n \in Children |-> Null] /\ links' = [s \in Salts |-> Null]
      /\ nodes' = [n \in Children |-> IF conns[n] = Null \/ conns[n].meta = Null THEN Null
                     ELSE [dsId |-> conns[n].meta, meta |-> conns[n].meta, token |-> conns[n].token, link |-> Null]]
  BY DEF Down!Restart, Down!config, Down!disk, Down!Loaded, Down!Salts, Salts
<1>2. ConnsOk /\ conns \in [Children -> Saved \cup {Null}]
  BY DEF SessInv, ConnsOk
<1>3. ASSUME NEW n \in Children
      PROVE  /\ nodes'[n] \in Node \cup {Null}
             /\ nodes'[n] = Null <=> conns[n] = Null \/ conns[n].meta = Null
             /\ nodes'[n] # Null => /\ nodes'[n].dsId = conns[n].meta /\ nodes'[n].meta = conns[n].meta
                                    /\ nodes'[n].token = conns[n].token /\ nodes'[n].link = Null
  <2>1. CASE conns[n] = Null \/ conns[n].meta = Null
    BY <1>1, <2>1
  <2>2. CASE conns[n] # Null /\ conns[n].meta # Null
    <3> DEFINE x == [dsId |-> conns[n].meta, meta |-> conns[n].meta, token |-> conns[n].token, link |-> Null]
    <3>1. conns[n].meta \in DsIds /\ conns[n].token \in Tokens \cup {Null}
      BY <1>2, <2>2 DEF Saved
    <3>2. x \in Node
      BY <3>1 DEF Node
    <3>3. nodes'[n] = x
      BY <1>1, <2>2
    <3>4. x # Null
      BY <3>2, NullIsNone
    <3>5. x.dsId = conns[n].meta /\ x.meta = conns[n].meta /\ x.token = conns[n].token /\ x.link = Null
      OBVIOUS
    <3> HIDE DEF x
    <3> QED
      BY <2>2, <3>2, <3>3, <3>4, <3>5
  <2> QED
    BY <2>1, <2>2
<1>4. nodes' \in [Children -> Node \cup {Null}]
  BY <1>1, <1>3
<1>5. Agree(byDsId', byName', links')
  BY <1>1, NullApart DEF Agree, Attempt0
<1>6. Owned(links', nodes')
  <2>1. \A n \in Children : nodes'[n] # Null =>
          /\ n \in NamesOf(nodes'[n].dsId) /\ nodes'[n].meta \in {Null, nodes'[n].dsId} /\ nodes'[n].link = Null
    BY <1>2, <1>3 DEF ConnsOk
  <2>2. \A s \in Salts : ~Attempt0(links', s)
    BY <1>1 DEF Attempt0
  <2> QED
    BY <1>4, <2>1, <2>2 DEF Owned
<1>7. Seated(links', nodes', orphans') /\ Going(links', nodes', orphans')
  BY <1>1 DEF Seated, Going
<1>8. ConnsOk'
  BY <1>1, <1>2 DEF ConnsOk
<1>9. ~tokensOn' => Kept'
  <2> SUFFICES ASSUME ~tokensOn PROVE Kept'
    BY <1>1
  <2>1. \A n \in Children : conns[n] # Null => conns[n].meta # Null
    BY DEF SessInv, Kept
  <2>2. \A n \in Children : nodes'[n] # Null => nodes'[n].meta # Null
    BY <1>3
  <2>3. Stored' = conns
    <3>1. Stored' = [n \in Children |-> IF nodes'[n] = Null THEN Null ELSE [meta |-> nodes'[n].meta, token |-> nodes'[n].token]]
      BY DEF Stored
    <3>2. ASSUME NEW n \in Children
          PROVE  (IF nodes'[n] = Null THEN Null ELSE [meta |-> nodes'[n].meta, token |-> nodes'[n].token]) = conns[n]
      <4>1. CASE conns[n] = Null
        BY <1>3, <4>1
      <4>2. CASE conns[n] # Null
        <5>1. conns[n] = [meta |-> conns[n].meta, token |-> conns[n].token]
          BY <1>2, <4>2 DEF Saved
        <5> QED
          BY <1>3, <2>1, <4>2, <5>1
      <4> QED
        BY <4>1, <4>2
    <3> QED
      BY <1>2, <3>1, <3>2
  <2> QED
    BY <1>1, <2>1, <2>2, <2>3 DEF Kept
<1> QED
  BY <1>1, <1>5, <1>6, <1>7, <1>8, <1>9 DEF SessInv

\* The tables of the broker are as they were.
LEMMA SameKeepsSessInv ==
  ASSUME SessInv, UNCHANGED <<tokensOn, byDsId, byName, links, nodes, saving, conns, orphans>>,
         \A m \in requests' : IsRequest(m)
  PROVE  SessInv'
BY DEF SessInv, ConnsOk, Kept, Stored

\* The requests are those of dslinks, and no attempt has overtaken another one
\* without the rest being lost from then on.
LinkInv == (\A m \in requests : IsRequest(m)) /\ (~overtaken => SessInv)

LEMMA NextLinkInv ==
  ASSUME Named, TokenOf \in [DsIds -> Tokens]
  PROVE  LinkInv /\ [Down!Next]_(Down!vars) => LinkInv'
<1> SUFFICES ASSUME LinkInv, [Down!Next]_(Down!vars) PROVE LinkInv'
  OBVIOUS
<1>0. \A m \in requests : IsRequest(m)
  BY DEF LinkInv
<1> DEFINE Carried == (\A m \in requests' : IsRequest(m)) /\ (SessInv /\ ~overtaken' => SessInv') /\ (~overtaken' => ~overtaken)
<1>1. ASSUME NEW m \in requests, Down!HandleConn(m) PROVE Carried
  <2>1. SessInv /\ ~overtaken' => SessInv'
    BY <1>1, ConnKeepsSessInv
  <2>2. requests' = requests \ {m}
    BY <1>1 DEF Down!HandleConn
  <2>3. ~overtaken' => ~overtaken
    BY <1>1 DEF Down!HandleConn, Down!history
  <2> QED
    BY <1>0, <2>1, <2>2, <2>3
<1>2. ASSUME NEW m \in requests, Down!HandleWs(m) PROVE Carried
  <2>1. SessInv => SessInv'
    BY <1>2, WsKeepsSessInv
  <2> QED
    BY <1>0, <1>2, <2>1 DEF Down!HandleWs, Down!history
<1>3. ASSUME NEW s \in Salts, Down!LinkEnds(s) \/ Down!LinkSilent(s) PROVE Carried
  <2>1. Down!CloseLink(s)
    BY <1>3 DEF Down!LinkEnds, Down!LinkSilent
  <2>2. SessInv => SessInv'
    BY <2>1, CloseKeepsSessInv
  <2> QED
    BY <1>0, <2>1, <2>2 DEF Down!CloseLink
<1>4. CASE Down!ClearConns
  <2>1. SessInv => SessInv'
    BY <1>4, ClearKeepsSessInv
  <2>2. Carried
    BY <1>0, <1>4, <2>1 DEF Down!ClearConns, Down!history
  <2> QED
    BY <2>2 DEF LinkInv
<1>5. CASE Down!Save
  <2>1. SessInv => SessInv'
    BY <1>5, SaveKeepsSessInv
  <2>2. Carried
    BY <1>0, <1>5, <2>1 DEF Down!Save, Down!history
  <2> QED
    BY <2>2 DEF LinkInv
<1>6. CASE Down!Restart
  <2>1. SessInv => SessInv'
    BY <1>6, RestartKeepsSessInv
  <2>2. Carried
    BY <1>0, <1>6, <2>1 DEF Down!Restart
  <2> QED
    BY <2>2 DEF LinkInv
<1>7. ASSUME NEW t \in Tokens, Down!DeleteToken(t) PROVE Carried
  <2>1. SessInv => SessInv'
    BY <1>7, DeleteKeepsSessInv
  <2> QED
    BY <1>0, <1>7, <2>1 DEF Down!DeleteToken, Down!history
<1>8. ASSUME NEW d \in DsIds, Down!Run(d) PROVE Carried
  <2>1. UNCHANGED <<tokensOn, byDsId, byName, links, nodes, saving, conns, overtaken, orphans>>
    BY <1>8 DEF Down!Run, Down!SendConn, Down!ConnAnswer, Down!WsAnswer, Down!SocketEnds, Down!config, Down!sessions, Down!disk, Down!history
  <2>2. \A m \in requests' : IsRequest(m)
    BY <1>0, <1>8, RunRequests
  <2> QED
    BY <2>1, <2>2, SameKeepsSessInv
<1>9. ASSUME NEW d \in DsIds, Down!Quit(d) PROVE Carried
  <2>1. SessInv => SessInv'
    BY <1>9, QuitKeepsSessInv
  <2>2. \A m \in requests' : IsRequest(m)
    BY <1>0, <1>9, QuitRequests
  <2> QED
    BY <1>9, <2>1, <2>2 DEF Down!Quit, Down!history
<1>10. CASE Down!ListDownstream \/ UNCHANGED Down!vars
  <2>1. UNCHANGED <<tokensOn, byDsId, byName, links, nodes, saving, conns, requests, overtaken, orphans>>
    BY <1>10 DEF Down!ListDownstream, Down!vars, Down!config, Down!sessions, Down!disk, Down!history
  <2>2. Carried
    BY <1>0, <2>1, SameKeepsSessInv
  <2> QED
    BY <2>2 DEF LinkInv
<1>11. Down!Salts = Salts
  BY DEF Down!Salts, Salts
<1>12. Carried => LinkInv'
  BY DEF LinkInv
<1> HIDE DEF Carried
<1> QED
  BY <1>1, <1>2, <1>3, <1>4, <1>5, <1>6, <1>7, <1>8, <1>9, <1>10, <1>11, <1>12 DEF Down!Next, Down!Handle

LEMMA LinkInvAlways ==
  ASSUME Named, TokenOf \in [DsIds -> Tokens]
  PROVE  Down!Spec => []LinkInv
<1>1. Down!Init => LinkInv
  <2>1. Down!Init => requests = {}
    BY DEF Down!Init
  <2> QED
    BY <2>1, InitSessInv DEF LinkInv
<1>2. LinkInv /\ [Down!Next]_(Down!vars) => LinkInv'
  BY NextLinkInv
<1> QED
  BY <1>1, <1>2, PTL DEF Down!Spec

\* client_connecting holds exactly the attempts, each under its dsId and under a
\* name that no other dslink is connecting with (handshake.c:46, 141, 290), until
\* an attempt is given the name of another one (handshake.c:141-155). The dslinks
\* may share any names but their whole dsIds.
THEOREM AttemptsAgreeAlways ==
  ASSUME Named, TokenOf \in [DsIds -> Tokens]
  PROVE  Down!Spec => []AttemptsAgree
<1>1. LinkInv => AttemptsAgree
  BY DEF LinkInv, SessInv, Agree, Attempt0, AttemptsAgree
<1> QED
  BY <1>1, LinkInvAlways, PTL

\* Until then a session is that of its own node and a node's link is an open
\* session with its name (handshake.c:339, broker.c:279); the sessions whose node
\* was given up while /downstream was listed are left out (handshake.c:192), also
\* after the listing has ended.
THEOREM SessionsAgreeAlways ==
  ASSUME Named, TokenOf \in [DsIds -> Tokens]
  PROVE  Down!Spec => []SessionsAgree
<1>1. LinkInv => SessionsAgree
  <2> SUFFICES ASSUME LinkInv, ~overtaken PROVE SessionsAgree
    BY DEF SessionsAgree
  <2>1. Seated(links, nodes, orphans) /\ Going(links, nodes, orphans) /\ Owned(links, nodes)
    BY DEF LinkInv, SessInv
  <2> QED
    BY <2>1 DEF Seated, Going, Owned, SessionsAgree
<1> QED
  BY <1>1, LinkInvAlways, PTL

\* Until then, and without tokens, conns.json holds every node as soon as no save
\* is due (node_serialization.c:28).
THEOREM NodesSavedAlways ==
  ASSUME Named, TokenOf \in [DsIds -> Tokens]
  PROVE  Down!Spec => []NodesSaved
<1>1. LinkInv => NodesSaved
  BY DEF LinkInv, SessInv, Kept, NodesSaved
<1> QED
  BY <1>1, LinkInvAlways, PTL
=============================================================================
