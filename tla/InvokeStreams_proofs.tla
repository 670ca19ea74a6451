------------------------ MODULE InvokeStreams_proofs ------------------------
(***************************************************************************)
(* Proofs about InvokeStreams, for any links, rids and bounds: the tables  *)
(* of the two ends of an invocation agree, whatever the order of requests, *)
(* responses, closes and lost connections, and so do the two SDKs.         *)
(***************************************************************************)
EXTENDS InvokeStreams, FiniteSetTheorems, SequenceTheorems, TLAPS

ReqTables  == [Links -> [Rids -> Stream \cup {NoStream}]]
RespTables == [Links -> [PRids -> Stream \cup {NoStream}]]

\* The types and the agreement of a set of streams and two tables
TablesOf(S, rq, rs) ==
  /\ S \subseteq Stream /\ IsFiniteSet(S) /\ rq \in ReqTables /\ rs \in RespTables
  /\ \A s \in S : rq[s.req][s.rrid] = s /\ rs[s.resp][s.prid] = s
  /\ \A l \in Links :
       /\ \A r \in Rids : rq[l][r] # NoStream =>
            rq[l][r] \in S /\ rq[l][r].req = l /\ rq[l][r].rrid = r
       /\ \A r \in PRids : rs[l][r] # NoStream =>
            rs[l][r] \in S /\ rs[l][r].resp = l /\ rs[l][r].prid = r
\* The links and the rids of a set of streams
Placed(S, u, n) == \A s \in S : s.req \in u /\ s.resp \in u /\ s.prid <= n[s.resp]

\* The variables that are not tables
RestOK ==
  /\ up \subseteq Links /\ nodeRid \in [Links -> 0..MaxRid]
  /\ toBroker \in [Links -> Seq(FromLink)] /\ toLink \in [Links -> Seq(FromBroker)]
  /\ client \in [Links -> [Rids -> View]]
  /\ active \in [Links -> SUBSET (PRids \X Invs)] /\ ended \in [Links -> SUBSET (PRids \X Invs)]
  /\ made \in 0..MaxInv

\* The inductive invariant
IInv == RestOK /\ TablesOf(streams, reqTab, respTab) /\ Placed(streams, up, nodeRid)

LEMMA IInvIsBoth ==
  IInv <=> TypeOK /\ TablesAgree
BY DEF IInv, RestOK, TablesOf, Placed, TypeOK, TablesAgree, ReqTables, RespTables

-----------------------------------------------------------------------------
\* Freeing a stream takes it out of both tables.
LEMMA FreeAgrees ==
  ASSUME NEW S, NEW rq, NEW rs, TablesOf(S, rq, rs), NEW s \in S
  PROVE  TablesOf(S \ {s}, DropReq(rq, s), DropResp(rs, s))
<1>1. s \in Stream /\ S \ {s} \subseteq Stream /\ IsFiniteSet(S \ {s})
  BY FS_RemoveElement DEF TablesOf
<1>2. DropReq(rq, s) \in ReqTables /\ DropResp(rs, s) \in RespTables
  BY DEF TablesOf, DropReq, DropResp, ReqTables, RespTables
<1>3. \A l \in Links, r \in Rids :
        DropReq(rq, s)[l][r] = IF l = s.req /\ r = s.rrid THEN NoStream ELSE rq[l][r]
  BY <1>1 DEF TablesOf, DropReq, ReqTables, Stream
<1>4. \A l \in Links, r \in PRids :
        DropResp(rs, s)[l][r] = IF l = s.resp /\ r = s.prid THEN NoStream ELSE rs[l][r]
  BY <1>1 DEF TablesOf, DropResp, RespTables, Stream
<1>5. \A t \in S : t.req \in Links /\ t.rrid \in Rids /\ t.resp \in Links /\ t.prid \in PRids
                   /\ rq[t.req][t.rrid] = t /\ rs[t.resp][t.prid] = t
  BY DEF TablesOf, Stream
<1>6. \A t \in S \ {s} : DropReq(rq, s)[t.req][t.rrid] = t /\ DropResp(rs, s)[t.resp][t.prid] = t
  BY <1>3, <1>4, <1>5
<1>7. ASSUME NEW l \in Links, NEW r \in Rids, DropReq(rq, s)[l][r] # NoStream
      PROVE  LET t == DropReq(rq, s)[l][r] IN t \in S \ {s} /\ t.req = l /\ t.rrid = r
  BY <1>3, <1>7 DEF TablesOf
<1>8. ASSUME NEW l \in Links, NEW r \in PRids, DropResp(rs, s)[l][r] # NoStream
      PROVE  LET t == DropResp(rs, s)[l][r] IN t \in S \ {s} /\ t.resp = l /\ t.prid = r
  BY <1>4, <1>8 DEF TablesOf
<1> QED
  BY <1>1, <1>2, <1>6, <1>7, <1>8 DEF TablesOf

\* Entering a stream under two rids that are not in use.
LEMMA AddAgrees ==
  ASSUME NEW S, NEW rq, NEW rs, TablesOf(S, rq, rs), NEW s \in Stream,
         rq[s.req][s.rrid] = NoStream, rs[s.resp][s.prid] = NoStream
  PROVE  TablesOf(S \cup {s}, SetReq(rq, s), SetResp(rs, s))
<1>1. S \cup {s} \subseteq Stream /\ IsFiniteSet(S \cup {s})
  BY FS_AddElement DEF TablesOf
<1>2. SetReq(rq, s) \in ReqTables /\ SetResp(rs, s) \in RespTables
  BY DEF TablesOf, SetReq, SetResp, ReqTables, RespTables
<1>3. \A l \in Links, r \in Rids :
        SetReq(rq, s)[l][r] = IF l = s.req /\ r = s.rrid THEN s ELSE rq[l][r]
  BY DEF TablesOf, SetReq, ReqTables, Stream
<1>4. \A l \in Links, r \in PRids :
        SetResp(rs, s)[l][r] = IF l = s.resp /\ r = s.prid THEN s ELSE rs[l][r]
  BY DEF TablesOf, SetResp, RespTables, Stream
<1>5. \A t \in S \cup {s} :
        t.req \in Links /\ t.rrid \in Rids /\ t.resp \in Links /\ t.prid \in PRids
  BY <1>1 DEF Stream
<1>6. \A t \in S : rq[t.req][t.rrid] = t /\ rs[t.resp][t.prid] = t /\ t # NoStream
  BY NoStreamIsNone DEF TablesOf
<1>7. \A t \in S \cup {s} : SetReq(rq, s)[t.req][t.rrid] = t /\ SetResp(rs, s)[t.resp][t.prid] = t
  BY <1>3, <1>4, <1>5, <1>6
<1>8. ASSUME NEW l \in Links, NEW r \in Rids, SetReq(rq, s)[l][r] # NoStream
      PROVE  LET t == SetReq(rq, s)[l][r] IN t \in S \cup {s} /\ t.req = l /\ t.rrid = r
  BY <1>3, <1>8 DEF TablesOf
<1>9. ASSUME NEW l \in Links, NEW r \in PRids, SetResp(rs, s)[l][r] # NoStream
      PROVE  LET t == SetResp(rs, s)[l][r] IN t \in S \cup {s} /\ t.resp = l /\ t.prid = r
  BY <1>4, <1>9 DEF TablesOf
<1> QED
  BY <1>1, <1>2, <1>7, <1>8, <1>9 DEF TablesOf

\* Replacing a stream under its rid of the requester is freeing it and entering
\* the new one.
LEMMA ReplaceIsFreeAndAdd ==
  ASSUME NEW rq \in ReqTables, NEW rs \in RespTables, NEW s \in Stream, NEW o \in Stream,
         s.req = o.req, s.rrid = o.rrid, ~(s.resp = o.resp /\ s.prid = o.prid)
  PROVE  /\ SetReq(DropReq(rq, o), s) = SetReq(rq, s)
         /\ SetResp(DropResp(rs, o), s) = DropResp(SetResp(rs, s), o)
<1>1. s.req \in Links /\ s.rrid \in Rids /\ s.resp \in Links /\ s.prid \in PRids
      /\ o.resp \in Links /\ o.prid \in PRids
  BY DEF Stream
<1>2. SetReq(DropReq(rq, o), s) = SetReq(rq, s)
  <2> DEFINE a == SetReq(DropReq(rq, o), s)
             b == SetReq(rq, s)
  <2>1. a = [l \in Links |-> a[l]] /\ b = [l \in Links |-> b[l]]
    BY DEF SetReq, DropReq, ReqTables
  <2>2. \A l \in Links : a[l] = [r \in Rids |-> a[l][r]] /\ b[l] = [r \in Rids |-> b[l][r]]
    BY <1>1 DEF SetReq, DropReq, ReqTables
  <2>3. \A l \in Links, r \in Rids : a[l][r] = b[l][r]
    BY <1>1 DEF SetReq, DropReq, ReqTables
  <2> HIDE DEF a, b
  <2>4. \A l \in Links : a[l] = b[l]
    BY <2>2, <2>3
  <2>5. a = b
    BY <2>1, <2>4
  <2> QED
    BY <2>5 DEF a, b
<1>3. SetResp(DropResp(rs, o), s) = DropResp(SetResp(rs, s), o)
  <2> DEFINE a == SetResp(DropResp(rs, o), s)
             b == DropResp(SetResp(rs, s), o)
  <2>1. a = [l \in Links |-> a[l]] /\ b = [l \in Links |-> b[l]]
    BY DEF SetResp, DropResp, RespTables
  <2>2. \A l \in Links : a[l] = [r \in PRids |-> a[l][r]] /\ b[l] = [r \in PRids |-> b[l][r]]
    BY <1>1 DEF SetResp, DropResp, RespTables
  <2>3. \A l \in Links, r \in PRids : a[l][r] = b[l][r]
    BY <1>1 DEF SetResp, DropResp, RespTables
  <2> HIDE DEF a, b
  <2>4. \A l \in Links : a[l] = b[l]
    BY <2>2, <2>3
  <2>5. a = b
    BY <2>1, <2>4
  <2> QED
    BY <2>5 DEF a, b
<1> QED
  BY <1>2, <1>3

\* A rid that the responder did not use yet has no stream.
LEMMA FreshRid ==
  ASSUME IInv, NEW l \in Links, NEW r \in PRids, r > nodeRid[l]
  PROVE  respTab[l][r] = NoStream
<1> SUFFICES ASSUME respTab[l][r] # NoStream PROVE FALSE
  OBVIOUS
<1>1. respTab[l][r] \in streams /\ respTab[l][r].resp = l /\ respTab[l][r].prid = r
  BY DEF IInv, TablesOf
<1>2. r <= nodeRid[l]
  BY <1>1 DEF IInv, Placed
<1>3. nodeRid[l] \in Nat /\ r \in Nat
  BY InvokeConstants DEF IInv, RestOK, PRids
<1> QED
  BY <1>2, <1>3

\* broker_node_incr_rid: the next rid of a responder is one it did not use.
LEMMA NextRid ==
  ASSUME IInv, NEW d \in Links, NEW rid, rid = nodeRid[d] + 1, rid <= MaxRid,
         nodeRid' = [nodeRid EXCEPT ![d] = rid]
  PROVE  /\ rid \in PRids /\ rid > nodeRid[d] /\ nodeRid' \in [Links -> 0..MaxRid]
         /\ respTab[d][rid] = NoStream
<1>1. nodeRid[d] \in 0..MaxRid /\ nodeRid \in [Links -> 0..MaxRid]
  BY DEF IInv, RestOK
<1>2. rid \in PRids /\ rid > nodeRid[d] /\ rid \in 0..MaxRid
  BY <1>1, InvokeConstants DEF PRids
<1> QED
  BY <1>1, <1>2, FreshRid

\* A stream under the next rid: its rid, and those of the others, were used.
LEMMA PlacedNext ==
  ASSUME IInv, NEW S \in SUBSET streams, NEW s \in Stream, s.req \in up, s.resp \in up,
         s.prid > nodeRid[s.resp], nodeRid' = [nodeRid EXCEPT ![s.resp] = s.prid]
  PROVE  Placed(S \cup {s}, up, nodeRid')
<1>1. nodeRid \in [Links -> 0..MaxRid] /\ s.resp \in Links /\ s.prid \in Int
  BY InvokeConstants DEF IInv, RestOK, Stream, PRids
<1>2. \A t \in S : t.resp \in Links /\ t.prid \in Int /\ t.prid <= nodeRid[t.resp]
                   /\ t.req \in up /\ t.resp \in up
  BY InvokeConstants DEF IInv, Placed, TablesOf, Stream, PRids
<1>3. \A t \in S : t.prid <= nodeRid'[t.resp]
  <2> SUFFICES ASSUME NEW t \in S PROVE t.prid <= nodeRid'[t.resp]
    OBVIOUS
  <2>1. nodeRid[t.resp] \in Int /\ nodeRid'[t.resp] = IF t.resp = s.resp THEN s.prid ELSE nodeRid[t.resp]
    BY <1>1, <1>2, InvokeConstants
  <2> QED
    BY <1>1, <1>2, <2>1
<1>4. s.prid <= nodeRid'[s.resp]
  BY <1>1
<1> QED
  BY <1>2, <1>3, <1>4 DEF Placed

-----------------------------------------------------------------------------
\* The messages of the model are messages.
LEMMA MessageTypes ==
  /\ \A r \in PRids, i \in Invs : Invoke(r, i) \in FromBroker
  /\ \A r \in PRids : Close(r) \in FromBroker
  /\ \A r \in Rids, c \in BOOLEAN, i \in Invs \cup {0} : Response(r, c, i) \in FromBroker
  /\ \A r \in PRids, c \in BOOLEAN, i \in Invs : Response(r, c, i) \in FromLink
BY DEF Invoke, Close, Response, FromBroker, FromLink

LEMMA SentType ==
  ASSUME toLink \in [Links -> Seq(FromBroker)], NEW m \in Links, NEW msg \in FromBroker
  PROVE  Sent(m, msg) \in [Links -> Seq(FromBroker)]
BY DEF Sent

\* What the broker takes from a link, and a link from the broker
LEMMA RequestType ==
  ASSUME RestOK, NEW l \in Links, NEW kind, Request(l, kind)
  PROVE  /\ toBroker' \in [Links -> Seq(FromLink)]
         /\ Head(toBroker[l]) \in FromLink /\ Head(toBroker[l]).kind = kind
<1>1. toBroker[l] \in Seq(FromLink) /\ toBroker[l] # <<>>
  BY DEF RestOK, Request
<1>2. Head(toBroker[l]) \in FromLink /\ Tail(toBroker[l]) \in Seq(FromLink)
  BY <1>1
<1> QED
  BY <1>2 DEF RestOK, Request

LEMMA ReceiveType ==
  ASSUME RestOK, NEW l \in Links, NEW kind, Receive(l, kind)
  PROVE  /\ toLink' \in [Links -> Seq(FromBroker)]
         /\ Head(toLink[l]) \in FromBroker /\ Head(toLink[l]).kind = kind
<1>1. toLink[l] \in Seq(FromBroker) /\ toLink[l] # <<>>
  BY DEF RestOK, Receive
<1>2. Head(toLink[l]) \in FromBroker /\ Tail(toLink[l]) \in Seq(FromBroker)
  BY <1>1
<1> QED
  BY <1>2 DEF RestOK, Receive

LEMMA InvokeFields ==
  ASSUME NEW m \in FromLink, m.kind = "invoke"
  PROVE  m.rid \in Rids /\ m.to \in Links /\ m.inv \in Invs
BY DEF FromLink

LEMMA CloseFields ==
  ASSUME NEW m \in FromLink, m.kind = "close"
  PROVE  m.rid \in Rids
BY DEF FromLink

LEMMA ResponseFields ==
  ASSUME NEW m \in FromLink, m.kind = "resp"
  PROVE  m.rid \in PRids /\ m.closed \in BOOLEAN /\ m.inv \in Invs
BY DEF FromLink

\* An enumeration of finitely many messages is a sequence of them.
LEMMA OrdersType ==
  ASSUME NEW K, IsFiniteSet(K), K \subseteq FromBroker, NEW a \in Orders(K)
  PROVE  a \in Seq(FromBroker)
<1>1. Cardinality(K) \in Nat
  BY FS_CardinalityType
<1>2. a \in [1..Cardinality(K) -> K]
  BY DEF Orders
<1>3. a \in [1..Cardinality(K) -> FromBroker]
  BY <1>2
<1> QED
  BY <1>1, <1>3

\* The streams that are closed with a lost link are finitely many.
LEMMA ToldSets ==
  ASSUME IInv, NEW l \in Links, NEW m \in Links
  PROVE  /\ Asked(l, m) \subseteq FromBroker /\ IsFiniteSet(Asked(l, m))
         /\ Served(l, m) \subseteq FromBroker /\ IsFiniteSet(Served(l, m))
         /\ \A x \in Asked(l, m) : x.kind = "close"
         /\ \A x \in Served(l, m) : x.kind = "resp" /\ x.closed /\ x.inv = 0
<1> DEFINE A == {t \in streams : t.req = l /\ t.resp = m}
           B == {t \in streams : t.resp = l /\ t.req = m}
<1>1. IsFiniteSet(A) /\ IsFiniteSet(B) /\ A \subseteq Stream /\ B \subseteq Stream
  <2>1. IsFiniteSet(streams) /\ streams \subseteq Stream
    BY DEF IInv, TablesOf
  <2>2. A \subseteq streams /\ B \subseteq streams
    OBVIOUS
  <2> QED
    BY <2>1, <2>2, FS_Subset
<1>2. Asked(l, m) \subseteq FromBroker /\ IsFiniteSet(Asked(l, m))
  <2> DEFINE f == [s \in A |-> Close(s.prid)]
  <2>1. Asked(l, m) = {Close(s.prid) : s \in A}
    BY DEF Asked
  <2>2. f \in Surjection(A, Asked(l, m))
    BY <2>1 DEF Surjection
  <2>3. \A s \in A : s.prid \in PRids
    BY <1>1 DEF Stream
  <2> QED
    BY <1>1, <2>1, <2>2, <2>3, FS_Surjection, MessageTypes
<1>3. Served(l, m) \subseteq FromBroker /\ IsFiniteSet(Served(l, m))
  <2> DEFINE f == [s \in B |-> Response(s.rrid, TRUE, 0)]
  <2>1. Served(l, m) = {Response(s.rrid, TRUE, 0) : s \in B}
    BY DEF Served
  <2>2. f \in Surjection(B, Served(l, m))
    BY <2>1 DEF Surjection
  <2>3. \A s \in B : s.rrid \in Rids
    BY <1>1 DEF Stream
  <2> QED
    BY <1>1, <2>1, <2>2, <2>3, FS_Surjection, MessageTypes
<1>4. \A x \in Asked(l, m) : x.kind = "close"
  BY DEF Asked, Close
<1>5. \A x \in Served(l, m) : x.kind = "resp" /\ x.closed /\ x.inv = 0
  BY DEF Served, Response
<1> QED
  BY <1>2, <1>3, <1>4, <1>5

\* What a link is told of a lost one are messages, and the order is one of them.
LEMMA ToldType ==
  ASSUME IInv, NEW l \in Links, NEW m \in Links
  PROVE  Told(l, m) \subseteq Seq(FromBroker)
<1>1. IsFiniteSet(Asked(l, m)) /\ Asked(l, m) \subseteq FromBroker
      /\ IsFiniteSet(Served(l, m)) /\ Served(l, m) \subseteq FromBroker
  BY ToldSets
<1>2. toLink[m] \in Seq(FromBroker)
  BY DEF IInv, RestOK
<1>3. \A a \in Orders(Asked(l, m)), b \in Orders(Served(l, m)) :
        a \in Seq(FromBroker) /\ b \in Seq(FromBroker)
  BY <1>1, OrdersType
<1>4. \A a \in Seq(FromBroker), b \in Seq(FromBroker) : toLink[m] \o a \o b \in Seq(FromBroker)
  BY <1>2, ConcatProperties
<1>5. ASSUME NEW q \in Told(l, m) PROVE q \in Seq(FromBroker)
  <2>1. PICK a \in Orders(Asked(l, m)), b \in Orders(Served(l, m)) : q = toLink[m] \o a \o b
    BY DEF Told
  <2>2. a \in Seq(FromBroker) /\ b \in Seq(FromBroker)
    BY <1>3
  <2> QED
    BY <1>4, <2>1, <2>2
<1> QED
  BY <1>5

\* Without the streams of a lost link the tables agree.
LEMMA LostAgrees ==
  ASSUME IInv, NEW l \in Links, Disconnect(l)
  PROVE  TablesOf(streams', reqTab', respTab') /\ Placed(streams', up', nodeRid')
<1>1. /\ streams' = {s \in streams : s.req # l /\ s.resp # l} /\ up' = up \ {l}
      /\ nodeRid' = nodeRid
      /\ reqTab' = [m \in Links |-> [r \in Rids |->
                     IF reqTab[m][r] \in streams' THEN reqTab[m][r] ELSE NoStream]]
      /\ respTab' = [m \in Links |-> [r \in PRids |->
                      IF respTab[m][r] \in streams' THEN respTab[m][r] ELSE NoStream]]
  BY DEF Disconnect
<1>2. TablesOf(streams, reqTab, respTab) /\ Placed(streams, up, nodeRid)
  BY DEF IInv
<1>3. streams' \subseteq streams /\ streams' \subseteq Stream /\ IsFiniteSet(streams')
  BY <1>1, <1>2, FS_Subset DEF TablesOf
<1>4. reqTab' \in ReqTables /\ respTab' \in RespTables
  BY <1>1, <1>2, <1>3 DEF TablesOf, ReqTables, RespTables
<1>5. \A s \in streams' : s.req \in Links /\ s.rrid \in Rids /\ s.resp \in Links /\ s.prid \in PRids
  BY <1>3 DEF Stream
<1>6. \A s \in streams' : reqTab[s.req][s.rrid] = s /\ respTab[s.resp][s.prid] = s
  BY <1>2, <1>3 DEF TablesOf
<1>7. \A s \in streams' : reqTab'[s.req][s.rrid] = s /\ respTab'[s.resp][s.prid] = s
  BY <1>1, <1>5, <1>6
<1>8. \A m \in Links :
        /\ \A r \in Rids : reqTab'[m][r] # NoStream =>
             reqTab'[m][r] \in streams' /\ reqTab'[m][r].req = m /\ reqTab'[m][r].rrid = r
        /\ \A r \in PRids : respTab'[m][r] # NoStream =>
             respTab'[m][r] \in streams' /\ respTab'[m][r].resp = m /\ respTab'[m][r].prid = r
  BY <1>1, <1>2 DEF TablesOf
<1>9. Placed(streams', up', nodeRid')
  BY <1>1, <1>2 DEF Placed
<1> QED
  BY <1>3, <1>4, <1>7, <1>8, <1>9 DEF TablesOf

-----------------------------------------------------------------------------
\* One lemma for each handler.
LEMMA ForwardInvokeStep ==
  ASSUME IInv, NEW l \in Links, ForwardInvoke(l)
  PROVE  IInv'
<1> DEFINE m   == Head(toBroker[l])
           rid == nodeRid[m.to] + 1
           s   == [req |-> l, rrid |-> m.rid, resp |-> m.to, prid |-> rid]
<1>1. RestOK /\ TablesOf(streams, reqTab, respTab)
  BY DEF IInv
<1>2. /\ Request(l, "invoke") /\ m.to \in up /\ rid <= MaxRid /\ reqTab[l][m.rid] = NoStream
      /\ nodeRid' = [nodeRid EXCEPT ![m.to] = rid]
      /\ streams' = streams \cup {s}
      /\ reqTab' = SetReq(reqTab, s) /\ respTab' = SetResp(respTab, s)
      /\ toLink' = Sent(m.to, Invoke(rid, m.inv))
      /\ UNCHANGED <<up, client, active, ended, made>>
  BY DEF ForwardInvoke
<1>3. m.rid \in Rids /\ m.to \in Links /\ m.inv \in Invs /\ toBroker' \in [Links -> Seq(FromLink)]
  BY <1>1, <1>2, RequestType, InvokeFields
<1>4. rid \in PRids /\ rid > nodeRid[m.to] /\ nodeRid' \in [Links -> 0..MaxRid]
      /\ respTab[m.to][rid] = NoStream
  BY <1>2, <1>3, NextRid
<1>5. s \in Stream /\ s.req = l /\ s.rrid = m.rid /\ s.resp = m.to /\ s.prid = rid /\ l \in up
  BY <1>2, <1>3, <1>4 DEF Stream, Request
<1> HIDE DEF s, m
<1>6. TablesOf(streams', reqTab', respTab')
  BY <1>1, <1>2, <1>4, <1>5, AddAgrees
<1>7. Placed(streams', up', nodeRid')
  BY <1>2, <1>4, <1>5, PlacedNext
<1>8. toLink' \in [Links -> Seq(FromBroker)]
  BY <1>1, <1>2, <1>3, <1>4, MessageTypes, SentType DEF RestOK
<1> QED
  BY <1>1, <1>2, <1>3, <1>4, <1>6, <1>7, <1>8 DEF IInv, RestOK

LEMMA ReplaceInvokeStep ==
  ASSUME IInv, NEW l \in Links, ReplaceInvoke(l)
  PROVE  IInv'
<1> DEFINE m   == Head(toBroker[l])
           rid == nodeRid[m.to] + 1
           s   == [req |-> l, rrid |-> m.rid, resp |-> m.to, prid |-> rid]
           old == reqTab[l][m.rid]
           closed == Sent(old.resp, Close(old.prid))
<1>1. RestOK /\ TablesOf(streams, reqTab, respTab)
  BY DEF IInv
<1>2. /\ Request(l, "invoke") /\ m.to \in up /\ rid <= MaxRid /\ old # NoStream
      /\ nodeRid' = [nodeRid EXCEPT ![m.to] = rid]
      /\ streams' = (streams \ {old}) \cup {s}
      /\ reqTab' = SetReq(reqTab, s)
      /\ respTab' = DropResp(SetResp(respTab, s), old)
      /\ toLink' = [closed EXCEPT ![m.to] = Append(@, Invoke(rid, m.inv))]
      /\ UNCHANGED <<up, client, active, ended, made>>
  BY DEF ReplaceInvoke
<1>3. m.rid \in Rids /\ m.to \in Links /\ m.inv \in Invs /\ toBroker' \in [Links -> Seq(FromLink)]
  BY <1>1, <1>2, RequestType, InvokeFields
<1>4. rid \in PRids /\ rid > nodeRid[m.to] /\ nodeRid' \in [Links -> 0..MaxRid]
      /\ respTab[m.to][rid] = NoStream
  BY <1>2, <1>3, NextRid
<1>5. s \in Stream /\ s.req = l /\ s.rrid = m.rid /\ s.resp = m.to /\ s.prid = rid /\ l \in up
  BY <1>2, <1>3, <1>4 DEF Stream, Request
<1>6. old \in streams /\ old.req = l /\ old.rrid = m.rid /\ old \in Stream
  <2> DEFINE r == m.rid
  <2>1. r \in Rids /\ reqTab[l][r] # NoStream
    BY <1>2, <1>3
  <2> HIDE DEF r
  <2>2. reqTab[l][r] \in streams /\ reqTab[l][r].req = l /\ reqTab[l][r].rrid = r
    BY <1>1, <2>1 DEF TablesOf
  <2>3. streams \subseteq Stream
    BY <1>1 DEF TablesOf
  <2> QED
    BY <2>2, <2>3 DEF r
<1> HIDE DEF s, m, old
<1>7. old.resp \in Links /\ old.prid \in PRids /\ respTab[old.resp][old.prid] = old
  BY <1>1, <1>6 DEF TablesOf, Stream
<1>8. ~(s.resp = old.resp /\ s.prid = old.prid)
  BY <1>2, <1>4, <1>5, <1>7
<1>9. /\ TablesOf(streams \ {old}, DropReq(reqTab, old), DropResp(respTab, old))
      /\ reqTab' = SetReq(DropReq(reqTab, old), s) /\ respTab' = SetResp(DropResp(respTab, old), s)
  <2>1. reqTab \in ReqTables /\ respTab \in RespTables
    BY <1>1 DEF TablesOf
  <2>2. s.req = old.req /\ s.rrid = old.rrid
    BY <1>5, <1>6
  <2>3. /\ SetReq(DropReq(reqTab, old), s) = SetReq(reqTab, s)
        /\ SetResp(DropResp(respTab, old), s) = DropResp(SetResp(respTab, s), old)
    BY <1>5, <1>6, <1>8, <2>1, <2>2, ReplaceIsFreeAndAdd
  <2>4. TablesOf(streams \ {old}, DropReq(reqTab, old), DropResp(respTab, old))
    BY <1>1, <1>6, FreeAgrees
  <2> QED
    BY <1>2, <2>3, <2>4
<1>10. DropReq(reqTab, old)[s.req][s.rrid] = NoStream
  BY <1>1, <1>3, <1>5, <1>6 DEF DropReq, TablesOf, ReqTables
<1>11. DropResp(respTab, old)[s.resp][s.prid] = NoStream
  BY <1>1, <1>3, <1>4, <1>5, <1>7 DEF DropResp, TablesOf, RespTables
<1>12. TablesOf(streams', reqTab', respTab')
  BY <1>2, <1>5, <1>9, <1>10, <1>11, AddAgrees
<1>13. Placed(streams', up', nodeRid')
  BY <1>2, <1>4, <1>5, PlacedNext
<1>14. toLink' \in [Links -> Seq(FromBroker)]
  <2>1. closed \in [Links -> Seq(FromBroker)]
    BY <1>1, <1>7, MessageTypes, SentType DEF RestOK
  <2>2. Invoke(rid, m.inv) \in FromBroker
    BY <1>3, <1>4, MessageTypes
  <2> QED
    BY <1>2, <1>3, <2>1, <2>2
<1> QED
  BY <1>1, <1>2, <1>3, <1>4, <1>12, <1>13, <1>14 DEF IInv, RestOK

\* A stream that is freed leaves the tables in agreement.
LEMMA FreeStreamStep ==
  ASSUME IInv, NEW s \in streams, FreeStream(s), UNCHANGED <<up, nodeRid>>
  PROVE  TablesOf(streams', reqTab', respTab') /\ Placed(streams', up', nodeRid')
<1>1. TablesOf(streams', reqTab', respTab')
  BY FreeAgrees DEF IInv, FreeStream
<1> QED
  BY <1>1 DEF IInv, FreeStream, Placed

LEMMA CloseStreamStep ==
  ASSUME IInv, NEW l \in Links, CloseStream(l)
  PROVE  IInv'
<1> DEFINE m == Head(toBroker[l])
           s == reqTab[l][m.rid]
<1>1. RestOK /\ TablesOf(streams, reqTab, respTab) /\ Placed(streams, up, nodeRid)
  BY DEF IInv
<1>2. m.rid \in Rids /\ toBroker' \in [Links -> Seq(FromLink)]
  BY <1>1, RequestType, CloseFields DEF CloseStream
<1>3. UNCHANGED <<up, nodeRid, client, active, ended, made>>
  BY DEF CloseStream
<1>4. CASE s = NoStream
  <2>1. UNCHANGED <<streams, reqTab, respTab, toLink>>
    BY <1>4 DEF CloseStream
  <2> QED
    BY <1>1, <1>2, <1>3, <2>1 DEF IInv, RestOK
<1>5. CASE s # NoStream
  <2>1. FreeStream(s) /\ toLink' = Sent(s.resp, Close(s.prid))
    BY <1>5 DEF CloseStream
  <2>2. s \in streams /\ s.resp \in Links /\ s.prid \in PRids
    BY <1>1, <1>2, <1>5 DEF TablesOf, Stream
  <2> HIDE DEF s
  <2>3. TablesOf(streams', reqTab', respTab') /\ Placed(streams', up', nodeRid')
    BY <1>3, <2>1, <2>2, FreeStreamStep
  <2>4. toLink' \in [Links -> Seq(FromBroker)]
    BY <1>1, <2>1, <2>2, MessageTypes, SentType DEF RestOK
  <2> QED
    BY <1>1, <1>2, <1>3, <2>3, <2>4 DEF IInv, RestOK
<1> QED
  BY <1>4, <1>5

LEMMA ForwardResponseStep ==
  ASSUME IInv, NEW l \in Links, ForwardResponse(l)
  PROVE  IInv'
<1> DEFINE m == Head(toBroker[l])
           s == respTab[l][m.rid]
<1>1. RestOK /\ TablesOf(streams, reqTab, respTab) /\ Placed(streams, up, nodeRid)
  BY DEF IInv
<1>2. m.rid \in PRids /\ m.closed \in BOOLEAN /\ m.inv \in Invs
      /\ toBroker' \in [Links -> Seq(FromLink)]
  BY <1>1, RequestType, ResponseFields DEF ForwardResponse
<1>3. UNCHANGED <<up, nodeRid, client, active, ended, made>>
  BY DEF ForwardResponse
<1>4. s # NoStream => s \in streams /\ s.req \in Links /\ s.rrid \in Rids
  BY <1>1, <1>2 DEF TablesOf, Stream
<1>5. toLink' = IF s = NoStream THEN toLink ELSE Sent(s.req, Response(s.rrid, m.closed, m.inv))
  BY DEF ForwardResponse
<1>6. IF s # NoStream /\ m.closed THEN FreeStream(s) ELSE UNCHANGED <<streams, reqTab, respTab>>
  BY DEF ForwardResponse
<1> HIDE DEF s, m
<1>7. toLink' \in [Links -> Seq(FromBroker)]
  <2>1. CASE s = NoStream
    BY <1>1, <1>5, <2>1 DEF RestOK
  <2>2. CASE s # NoStream
    <3>1. Response(s.rrid, m.closed, m.inv) \in FromBroker
      BY <1>2, <1>4, <2>2, MessageTypes
    <3> QED
      BY <1>1, <1>4, <1>5, <2>2, <3>1, SentType DEF RestOK
  <2> QED
    BY <2>1, <2>2
<1>8. TablesOf(streams', reqTab', respTab') /\ Placed(streams', up', nodeRid')
  <2>1. CASE s # NoStream /\ m.closed
    BY <1>3, <1>4, <1>6, <2>1, FreeStreamStep
  <2>2. CASE ~(s # NoStream /\ m.closed)
    BY <1>1, <1>3, <1>6, <2>2
  <2> QED
    BY <2>1, <2>2
<1> QED
  BY <1>1, <1>2, <1>3, <1>7, <1>8 DEF IInv, RestOK

\* The handlers of the broker that leave the tables alone, and those of dslinks.
LEMMA RefuseInvokeStep ==
  ASSUME IInv, NEW l \in Links, RefuseInvoke(l)
  PROVE  IInv'
<1> DEFINE m == Head(toBroker[l])
<1>1. RestOK /\ TablesOf(streams, reqTab, respTab) /\ Placed(streams, up, nodeRid)
  BY DEF IInv
<1>2. m.rid \in Rids /\ m.to \in Links /\ toBroker' \in [Links -> Seq(FromLink)]
  BY <1>1, RequestType, InvokeFields DEF RefuseInvoke
<1>3. toLink' \in [Links -> Seq(FromBroker)]
  BY <1>1, <1>2, MessageTypes, SentType DEF RestOK, RefuseInvoke
<1>4. nodeRid' \in [Links -> 0..MaxRid] /\ \A k \in Links : nodeRid[k] <= nodeRid'[k]
  <2>1. \/ nodeRid' = nodeRid
        \/ nodeRid[m.to] < MaxRid /\ nodeRid' = [nodeRid EXCEPT ![m.to] = @ + 1]
    BY DEF RefuseInvoke
  <2>2. nodeRid \in [Links -> 0..MaxRid]
    BY <1>1 DEF RestOK
  <2> HIDE DEF m
  <2>3. CASE nodeRid' = nodeRid
    BY <2>2, <2>3, InvokeConstants
  <2>4. CASE nodeRid[m.to] < MaxRid /\ nodeRid' = [nodeRid EXCEPT ![m.to] = @ + 1]
    <3>1. nodeRid[m.to] \in 0..MaxRid /\ nodeRid[m.to] + 1 \in 0..MaxRid
      BY <1>2, <2>2, <2>4, InvokeConstants
    <3>2. nodeRid' \in [Links -> 0..MaxRid]
      BY <2>2, <2>4, <3>1
    <3>3. \A k \in Links : nodeRid'[k] = IF k = m.to THEN nodeRid[m.to] + 1 ELSE nodeRid[k]
      BY <2>2, <2>4
    <3>4. \A k \in Links : nodeRid[k] \in Int
      BY <2>2, InvokeConstants
    <3> QED
      BY <3>2, <3>3, <3>4
  <2> QED
    BY <2>1, <2>3, <2>4
<1>5. \A t \in streams : t.resp \in Links /\ t.prid \in Int
  BY <1>1, InvokeConstants DEF TablesOf, Stream, PRids
<1>6. Placed(streams, up, nodeRid')
  BY <1>1, <1>4, <1>5, InvokeConstants DEF Placed, RestOK
<1> QED
  BY <1>1, <1>2, <1>3, <1>4, <1>6 DEF RefuseInvoke, IInv, RestOK

LEMMA ConnectStep ==
  ASSUME IInv, NEW l \in Links, Connect(l)
  PROVE  IInv'
BY DEF Connect, tables, IInv, RestOK, Placed

LEMMA ClientInvokeStep ==
  ASSUME IInv, NEW l \in Links, NEW rid \in Rids, NEW to \in Links, ClientInvoke(l, rid, to)
  PROVE  IInv'
<1> DEFINE msg == [kind |-> "invoke", rid |-> rid, to |-> to, inv |-> made + 1]
<1>1. RestOK
  BY DEF IInv
<1>2. made + 1 \in Invs /\ made' \in 0..MaxInv
  BY <1>1, InvokeConstants DEF ClientInvoke, RestOK, Invs
<1>3. msg \in FromLink /\ [inv |-> made + 1, state |-> "open"] \in View
  BY <1>2 DEF FromLink, View
<1> HIDE DEF msg
<1>4. toBroker' \in [Links -> Seq(FromLink)]
  BY <1>1, <1>3 DEF ClientInvoke, RestOK, msg
<1>5. client' \in [Links -> [Rids -> View]]
  BY <1>1, <1>3 DEF ClientInvoke, RestOK
<1> QED
  BY <1>1, <1>2, <1>4, <1>5 DEF ClientInvoke, tables, IInv, RestOK

LEMMA ClientCloseStep ==
  ASSUME IInv, NEW l \in Links, NEW rid \in Rids, ClientClose(l, rid)
  PROVE  IInv'
<1>1. RestOK
  BY DEF IInv
<1>2. Close(rid) \in FromLink
  BY DEF Close, FromLink
<1>3. [client[l][rid] EXCEPT !.state = "closed"] \in View
  <2>1. client[l][rid] \in View
    BY <1>1 DEF RestOK
  <2> QED
    BY <2>1 DEF View
<1>4. toBroker' \in [Links -> Seq(FromLink)]
  BY <1>1, <1>2 DEF ClientClose, RestOK
<1>5. client' \in [Links -> [Rids -> View]]
  BY <1>1, <1>3 DEF ClientClose, RestOK
<1> QED
  BY <1>1, <1>4, <1>5 DEF ClientClose, tables, IInv, RestOK

LEMMA DisconnectStep ==
  ASSUME IInv, NEW l \in Links, Disconnect(l)
  PROVE  IInv'
<1>1. RestOK
  BY DEF IInv
<1>2. TablesOf(streams', reqTab', respTab') /\ Placed(streams', up', nodeRid')
  BY LostAgrees
<1>3. toLink' \in [Links -> Seq(FromBroker)]
  <2>1. /\ toLink' \in [Links -> UNION {Told(l, m) : m \in Links} \cup {<<>>}]
        /\ \A m \in Links : IF m = l THEN toLink'[m] = <<>> ELSE toLink'[m] \in Told(l, m)
    BY DEF Disconnect
  <2>2. \A m \in Links : toLink'[m] \in Seq(FromBroker)
    <3> SUFFICES ASSUME NEW m \in Links PROVE toLink'[m] \in Seq(FromBroker)
      OBVIOUS
    <3>1. CASE m = l
      <4>1. toLink'[m] = <<>>
        BY <2>1, <3>1
      <4> QED
        BY <4>1
    <3>2. CASE m # l
      <4>1. toLink'[m] \in Told(l, m) /\ Told(l, m) \subseteq Seq(FromBroker)
        BY <2>1, <3>2, ToldType
      <4> QED
        BY <4>1
    <3> QED
      BY <3>1, <3>2
  <2> QED
    BY <2>1, <2>2
<1>4. Unused \in View
  BY DEF Unused, View
<1>5. toBroker' \in [Links -> Seq(FromLink)] /\ client' \in [Links -> [Rids -> View]]
  BY <1>1, <1>4 DEF Disconnect, RestOK
<1>6. active' \in [Links -> SUBSET (PRids \X Invs)] /\ ended' \in [Links -> SUBSET (PRids \X Invs)]
  BY <1>1 DEF Disconnect, RestOK
<1> QED
  BY <1>1, <1>2, <1>3, <1>5, <1>6 DEF Disconnect, IInv, RestOK

LEMMA ReceiveInvokeStep ==
  ASSUME IInv, NEW l \in Links, ReceiveInvoke(l)
  PROVE  IInv'
<1> DEFINE m == Head(toLink[l])
<1>1. RestOK
  BY DEF IInv
<1>2. toLink' \in [Links -> Seq(FromBroker)] /\ m \in FromBroker /\ m.kind = "invoke"
  BY <1>1, ReceiveType DEF ReceiveInvoke
<1>3. m.rid \in PRids /\ m.inv \in Invs
  BY <1>2 DEF FromBroker
<1> HIDE DEF m
<1>4. Response(m.rid, TRUE, m.inv) \in FromLink
  BY <1>3, MessageTypes
<1>5. toBroker' \in [Links -> Seq(FromLink)]
  <2>1. \/ toBroker' = toBroker
        \/ toBroker' = [toBroker EXCEPT ![l] = Append(@, Response(m.rid, TRUE, m.inv))]
    BY DEF ReceiveInvoke, m
  <2>2. toBroker \in [Links -> Seq(FromLink)]
    BY <1>1 DEF RestOK
  <2>3. Append(toBroker[l], Response(m.rid, TRUE, m.inv)) \in Seq(FromLink)
    <3>1. toBroker[l] \in Seq(FromLink)
      BY <2>2
    <3> QED
      BY <1>4, <3>1, AppendProperties
  <2> QED
    BY <2>1, <2>2, <2>3
<1>6. active' \in [Links -> SUBSET (PRids \X Invs)]
  <2>1. active' = active \/ active' = [active EXCEPT ![l] = @ \cup {<<m.rid, m.inv>>}]
    BY DEF ReceiveInvoke, m
  <2>2. active[l] \cup {<<m.rid, m.inv>>} \in SUBSET (PRids \X Invs)
    BY <1>1, <1>3 DEF RestOK
  <2> QED
    BY <1>1, <2>1, <2>2 DEF RestOK
<1> QED
  BY <1>1, <1>2, <1>5, <1>6 DEF ReceiveInvoke, tables, IInv, RestOK

LEMMA AnswerStep ==
  ASSUME IInv, NEW l \in Links, NEW e \in active[l], NEW closed \in BOOLEAN, Answer(l, e, closed)
  PROVE  IInv'
<1>1. RestOK
  BY DEF IInv
<1>2. e \in PRids \X Invs /\ e[1] \in PRids /\ e[2] \in Invs
  BY <1>1 DEF RestOK
<1>3. Response(e[1], closed, e[2]) \in FromLink
  BY <1>2, MessageTypes
<1>4. toBroker' \in [Links -> Seq(FromLink)]
  BY <1>1, <1>3 DEF Answer, RestOK
<1>5. ended' \in [Links -> SUBSET (PRids \X Invs)]
  BY <1>1, <1>2 DEF Answer, RestOK
<1> QED
  BY <1>1, <1>4, <1>5 DEF Answer, tables, IInv, RestOK

LEMMA ReceiveCloseStep ==
  ASSUME IInv, NEW l \in Links, ReceiveClose(l)
  PROVE  IInv'
<1>1. RestOK
  BY DEF IInv
<1>2. toLink' \in [Links -> Seq(FromBroker)]
  BY <1>1, ReceiveType DEF ReceiveClose
<1>3. active' \in [Links -> SUBSET (PRids \X Invs)] /\ ended' \in [Links -> SUBSET (PRids \X Invs)]
  BY <1>1 DEF ReceiveClose, RestOK
<1> QED
  BY <1>1, <1>2, <1>3 DEF ReceiveClose, tables, IInv, RestOK

LEMMA ReceiveResponseStep ==
  ASSUME IInv, NEW l \in Links, ReceiveResponse(l)
  PROVE  IInv'
<1> DEFINE m == Head(toLink[l])
<1>1. RestOK
  BY DEF IInv
<1>2. toLink' \in [Links -> Seq(FromBroker)] /\ m \in FromBroker /\ m.kind = "resp"
  BY <1>1, ReceiveType DEF ReceiveResponse
<1>3. m.rid \in Rids
  BY <1>2 DEF FromBroker
<1>4. [client[l][m.rid] EXCEPT !.state = "ended"] \in View
  <2>1. client[l][m.rid] \in View
    BY <1>1, <1>3 DEF RestOK
  <2> QED
    BY <2>1 DEF View
<1>5. client' \in [Links -> [Rids -> View]]
  BY <1>1, <1>3, <1>4 DEF ReceiveResponse, RestOK
<1> QED
  BY <1>1, <1>2, <1>5 DEF ReceiveResponse, tables, IInv, RestOK

-----------------------------------------------------------------------------
LEMMA InitIInv ==
  Init => IInv
<1> SUFFICES ASSUME Init PROVE IInv
  OBVIOUS
<1>1. RestOK
  BY InvokeConstants DEF Init, RestOK, Unused, View
<1>2. TablesOf(streams, reqTab, respTab)
  BY FS_EmptySet DEF Init, TablesOf, ReqTables, RespTables
<1> QED
  BY <1>1, <1>2 DEF Init, IInv, Placed

LEMMA NextIInv ==
  IInv /\ [Next]_vars => IInv'
<1> SUFFICES ASSUME IInv, [Next]_vars PROVE IInv'
  OBVIOUS
<1>1. CASE UNCHANGED vars
  BY <1>1 DEF vars, tables, IInv, RestOK, TablesOf, Placed
<1>2. CASE Next
  BY <1>2, ConnectStep, DisconnectStep, ClientCloseStep, ClientInvokeStep, RefuseInvokeStep,
     ForwardInvokeStep, ReplaceInvokeStep, CloseStreamStep, ForwardResponseStep,
     ReceiveInvokeStep, AnswerStep, ReceiveCloseStep, ReceiveResponseStep DEF Next
<1> QED
  BY <1>1, <1>2

\* Every handler, and the loss of a connection, keeps the types: an invocation
\* never reaches a responder under a rid of the requester, nor a response a
\* requester under one of the responder.
THEOREM TypeCorrect ==
  Spec => []TypeOK
<1>1. IInv => TypeOK
  BY IInvIsBoth
<1> QED
  BY InitIInv, NextIInv, <1>1, PTL DEF Spec

\* requester_streams and responder_streams hold the same invocations, under
\* their two rids, of links that are connected (dslink_map_set in
\* broker_msg_handle_invoke, broker_stream_free, broker_remote_dslink_free).
THEOREM TablesAlwaysAgree ==
  Spec => []TablesAgree
<1>1. IInv => TablesAgree
  BY IInvIsBoth
<1> QED
  BY InitIInv, NextIInv, <1>1, PTL DEF Spec

-----------------------------------------------------------------------------
(***************************************************************************)
(* The ends of an invocation. An SDK uses a rid once in a session, and the *)
(* broker uses a rid of a responder once for ever; so all that is under    *)
(* way about a rid is about one invocation, in the order of its life. What *)
(* a requester knows, has sent and is sent of a rid fits together          *)
(* (Requested), and so does what a responder keeps (Serving); Said links   *)
(* the two.                                                                *)
(***************************************************************************)
About(x, kind, r) == x.kind = kind /\ x.rid = r
Lacks(q, kind, r) == \A i \in 1..Len(q) : ~About(q[i], kind, r)

\* What a requester knows of the rid r (c), what it has sent (tb) and is sent
\* (tl), and whether the broker has a stream for it (has)
Requested(r, tb, tl, c, has) ==
  /\ \A i \in 1..Len(tl) : About(tl[i], "resp", r) =>
       /\ c.state \in {"open", "closed"} /\ tl[i].inv \in {0, c.inv}
       /\ tl[i].closed => ~has /\ \A j \in 1..Len(tl) : About(tl[j], "resp", r) => j <= i
  /\ \A i \in 1..Len(tb) : About(tb[i], "invoke", r) =>
       /\ ~has /\ c.state \in {"open", "closed"} /\ tb[i].inv = c.inv /\ Lacks(tl, "resp", r)
       /\ \A j \in 1..Len(tb) : /\ About(tb[j], "invoke", r) => i = j
                                /\ About(tb[j], "close", r) => i < j
  /\ has => c.state \in {"open", "closed"}
  /\ c.state \in {"unused", "open"} => Lacks(tb, "close", r)
  /\ c.state = "open" => \/ has \/ ~Lacks(tb, "invoke", r)
                         \/ \E i \in 1..Len(tl) : About(tl[i], "resp", r) /\ tl[i].closed
  /\ c.state = "closed" /\ (has \/ ~Lacks(tb, "invoke", r)) => ~Lacks(tb, "close", r)

\* What a responder is sent (tl) and sends (tb) of the rid p, the invocations
\* it keeps (act) and has ended (fin), and whether the broker has a stream
Serving(p, tl, tb, act, fin, has) ==
  /\ \A i \in 1..Len(tl) : About(tl[i], "invoke", p) =>
       /\ Lacks(tb, "resp", p) /\ \A e \in act : e[1] # p
       /\ \A j \in 1..Len(tl) : About(tl[j], "invoke", p) => i = j
       /\ has \/ \E j \in 1..Len(tl) : i < j /\ About(tl[j], "close", p)
  /\ \A e, f \in act : e[1] = p /\ f[1] = p => e = f
  /\ \A e \in act \ fin : e[1] = p => has \/ ~Lacks(tl, "close", p)
  /\ \A i \in 1..Len(tb) : About(tb[i], "resp", p) /\ tb[i].closed => \A e \in act \ fin : e[1] # p

\* The invocations that anything about the rid p is about
Said(p, tl, tb, act) ==
  {tl[i].inv : i \in {j \in 1..Len(tl) : About(tl[j], "invoke", p)}}
    \cup {tb[i].inv : i \in {j \in 1..Len(tb) : About(tb[j], "resp", p)}}
    \cup {e[2] : e \in {f \in act : f[1] = p}}

RequestedInv ==
  \A l \in SdkLinks, r \in Rids :
    Requested(r, toBroker[l], toLink[l], client[l][r], reqTab[l][r] # NoStream)
ServingInv ==
  \A l \in Links, p \in PRids :
    Serving(p, toLink[l], toBroker[l], active[l], ended[l], respTab[l][p] # NoStream)
SaidOf(l, p) == Said(p, toLink[l], toBroker[l], active[l])
SaidInv ==
  /\ \A l \in Links, p \in PRids : p > nodeRid[l] => SaidOf(l, p) = {}
  /\ \A s \in streams : s.req \in SdkLinks =>
       SaidOf(s.resp, s.prid) \subseteq {client[s.req][s.rrid].inv}

ReqAt(l, r)  == Requested(r, toBroker[l], toLink[l], client[l][r], reqTab[l][r] # NoStream)
ServAt(l, p) == Serving(p, toLink[l], toBroker[l], active[l], ended[l], respTab[l][p] # NoStream)
EndInv == IInv /\ RequestedInv /\ ServingInv /\ SaidInv

\* A channel that grew by messages of K, and one from which the first was taken
Grown(q, q2, K) ==
  /\ Len(q) \in Nat /\ Len(q2) \in Nat /\ Len(q) <= Len(q2)
  /\ \A i \in 1..Len(q) : q2[i] = q[i]
  /\ \A i \in Len(q) + 1..Len(q2) : q2[i] \in K
Taken(q, q2) ==
  /\ Len(q) \in Nat \ {0} /\ Len(q2) = Len(q) - 1
  /\ \A i \in 1..Len(q2) : q2[i] = q[i + 1]

\* A channel that grew by every message of K, and by each once
GrownByAll(q, q2, K) ==
  /\ Grown(q, q2, K)
  /\ \A x \in K : \E n \in Len(q) + 1..Len(q2) : q2[n] = x
  /\ \A i, j \in Len(q) + 1..Len(q2) : q2[i] = q2[j] => i = j

\* A message that arrives, is sent, is read or is taken, and is not about r,
\* changes nothing for r.
LEMMA RequestedGrows ==
  ASSUME NEW r, NEW tb, NEW tl, NEW tb2, NEW tl2, NEW c, NEW has \in BOOLEAN, NEW K, NEW J,
         Grown(tb, tb2, J), Grown(tl, tl2, K),
         \A x \in J : ~About(x, "invoke", r) /\ ~About(x, "close", r),
         \A x \in K : ~About(x, "resp", r),
         Requested(r, tb, tl, c, has)
  PROVE  Requested(r, tb2, tl2, c, has)
<1>1. \A i \in 1..Len(tl2) : About(tl2[i], "resp", r) => i \in 1..Len(tl) /\ tl2[i] = tl[i]
  BY DEF Grown
<1>2. \A i \in 1..Len(tl) : i \in 1..Len(tl2) /\ tl2[i] = tl[i]
  BY DEF Grown
<1>3. \A i \in 1..Len(tb2) : About(tb2[i], "invoke", r) \/ About(tb2[i], "close", r) =>
        i \in 1..Len(tb) /\ tb2[i] = tb[i]
  BY DEF Grown
<1>4. \A i \in 1..Len(tb) : i \in 1..Len(tb2) /\ tb2[i] = tb[i]
  BY DEF Grown
<1>5. /\ Lacks(tl, "resp", r) <=> Lacks(tl2, "resp", r)
      /\ Lacks(tb, "invoke", r) <=> Lacks(tb2, "invoke", r)
      /\ Lacks(tb, "close", r) <=> Lacks(tb2, "close", r)
  BY <1>1, <1>2, <1>3, <1>4 DEF Lacks
<1> QED
  BY <1>1, <1>2, <1>3, <1>4, <1>5 DEF Requested

LEMMA RequestedRead ==
  ASSUME NEW r, NEW tb, NEW tl, NEW tl2, NEW c, NEW has \in BOOLEAN,
         Taken(tl, tl2), ~About(tl[1], "resp", r) \/ ~tl[1].closed,
         Requested(r, tb, tl, c, has)
  PROVE  Requested(r, tb, tl2, c, has)
<1>1. \A i \in 1..Len(tl2) : i + 1 \in 1..Len(tl) /\ tl2[i] = tl[i + 1]
  BY DEF Taken
<1>2. \A i \in 1..Len(tl) : i # 1 => i - 1 \in 1..Len(tl2) /\ tl2[i - 1] = tl[i]
  BY DEF Taken
<1>3. Lacks(tl, "resp", r) => Lacks(tl2, "resp", r)
  BY <1>1 DEF Lacks
<1>4. ASSUME NEW i \in 1..Len(tl2), About(tl2[i], "resp", r)
      PROVE  /\ c.state \in {"open", "closed"} /\ tl2[i].inv \in {0, c.inv}
             /\ tl2[i].closed => ~has /\ \A j \in 1..Len(tl2) : About(tl2[j], "resp", r) => j <= i
  <2>1. i + 1 \in 1..Len(tl) /\ tl2[i] = tl[i + 1]
    BY <1>1
  <2>2. /\ c.state \in {"open", "closed"} /\ tl2[i].inv \in {0, c.inv}
        /\ tl2[i].closed => ~has /\ \A j \in 1..Len(tl) : About(tl[j], "resp", r) => j <= i + 1
    BY <1>4, <2>1 DEF Requested
  <2>3. ASSUME tl2[i].closed, NEW j \in 1..Len(tl2), About(tl2[j], "resp", r) PROVE j <= i
    <3>1. j + 1 <= i + 1
      BY <1>1, <2>2, <2>3
    <3> QED
      BY <3>1
  <2> QED
    BY <2>2, <2>3
<1>5. ASSUME \E i \in 1..Len(tl) : About(tl[i], "resp", r) /\ tl[i].closed
      PROVE  \E i \in 1..Len(tl2) : About(tl2[i], "resp", r) /\ tl2[i].closed
  <2>1. PICK i \in 1..Len(tl) : About(tl[i], "resp", r) /\ tl[i].closed
    BY <1>5
  <2>2. i # 1
    BY <2>1
  <2> QED
    BY <1>2, <2>1, <2>2
<1> QED
  BY <1>3, <1>4, <1>5 DEF Requested

LEMMA RequestedTaken ==
  ASSUME NEW r, NEW tb, NEW tl, NEW tb2, NEW c, NEW has \in BOOLEAN,
         Taken(tb, tb2), ~About(tb[1], "invoke", r), ~About(tb[1], "close", r),
         Requested(r, tb, tl, c, has)
  PROVE  Requested(r, tb2, tl, c, has)
<1>1. \A i \in 1..Len(tb2) : i + 1 \in 1..Len(tb) /\ tb2[i] = tb[i + 1]
  BY DEF Taken
<1>2. \A i \in 1..Len(tb) : i # 1 => i - 1 \in 1..Len(tb2) /\ tb2[i - 1] = tb[i]
  BY DEF Taken
<1>3. /\ Lacks(tb, "invoke", r) <=> Lacks(tb2, "invoke", r)
      /\ Lacks(tb, "close", r) <=> Lacks(tb2, "close", r)
  BY <1>1, <1>2 DEF Lacks
<1>4. ASSUME NEW i \in 1..Len(tb2), About(tb2[i], "invoke", r)
      PROVE  /\ ~has /\ c.state \in {"open", "closed"} /\ tb2[i].inv = c.inv /\ Lacks(tl, "resp", r)
             /\ \A j \in 1..Len(tb2) : /\ About(tb2[j], "invoke", r) => i = j
                                       /\ About(tb2[j], "close", r) => i < j
  <2>1. i + 1 \in 1..Len(tb) /\ tb2[i] = tb[i + 1]
    BY <1>1
  <2>2. /\ ~has /\ c.state \in {"open", "closed"} /\ tb2[i].inv = c.inv /\ Lacks(tl, "resp", r)
        /\ \A j \in 1..Len(tb) : /\ About(tb[j], "invoke", r) => i + 1 = j
                                 /\ About(tb[j], "close", r) => i + 1 < j
    BY <1>4, <2>1 DEF Requested
  <2>3. ASSUME NEW j \in 1..Len(tb2)
        PROVE  (About(tb2[j], "invoke", r) => i = j) /\ (About(tb2[j], "close", r) => i < j)
    <3>1. j + 1 \in 1..Len(tb) /\ tb2[j] = tb[j + 1]
      BY <1>1
    <3>2. (About(tb2[j], "invoke", r) => i + 1 = j + 1) /\ (About(tb2[j], "close", r) => i + 1 < j + 1)
      BY <2>2, <3>1
    <3> QED
      BY <3>2
  <2> QED
    BY <2>2, <2>3
<1> QED
  BY <1>3, <1>4 DEF Requested

\* The broker takes an invoke, and has a stream for it.
LEMMA RequestedStarts ==
  ASSUME NEW r, NEW tb, NEW tl, NEW tb2, NEW c, NEW has \in BOOLEAN,
         Taken(tb, tb2), About(tb[1], "invoke", r),
         Requested(r, tb, tl, c, has)
  PROVE  Requested(r, tb2, tl, c, TRUE) /\ tb[1].inv = c.inv /\ has = FALSE
<1>1. \A i \in 1..Len(tb2) : i + 1 \in 1..Len(tb) /\ tb2[i] = tb[i + 1]
  BY DEF Taken
<1>2. \A i \in 1..Len(tb) : i # 1 => i - 1 \in 1..Len(tb2) /\ tb2[i - 1] = tb[i]
  BY DEF Taken
<1>3. 1 \in 1..Len(tb)
  BY DEF Taken
<1>4. /\ ~has /\ c.state \in {"open", "closed"} /\ tb[1].inv = c.inv /\ Lacks(tl, "resp", r)
      /\ \A j \in 1..Len(tb) : About(tb[j], "invoke", r) => 1 = j
  BY <1>3 DEF Requested
<1>5. Lacks(tb2, "invoke", r)
  <2> SUFFICES ASSUME NEW i \in 1..Len(tb2), About(tb2[i], "invoke", r) PROVE FALSE
    BY DEF Lacks
  <2>1. 1 = i + 1
    BY <1>1, <1>4
  <2> QED
    BY <2>1
<1>6. Lacks(tb, "close", r) <=> Lacks(tb2, "close", r)
  BY <1>1, <1>2 DEF Lacks, About
<1>7. c.state = "closed" => ~Lacks(tb2, "close", r)
  BY <1>3, <1>6 DEF Requested, Lacks
<1>8. c.state \in {"unused", "open"} => Lacks(tb2, "close", r)
  BY <1>6 DEF Requested
<1> QED
  BY <1>4, <1>5, <1>7, <1>8 DEF Requested, Lacks

\* The one closed response to an invocation is on its way when the stream is
\* freed, or it is refused.
LEMMA RequestedEnds ==
  ASSUME NEW r, NEW tb, NEW tl, NEW tl2, NEW c, NEW K, Grown(tl, tl2, K),
         NEW n \in Len(tl) + 1..Len(tl2), About(tl2[n], "resp", r), tl2[n].closed,
         tl2[n].inv \in {0, c.inv},
         \A i \in Len(tl) + 1..Len(tl2) : About(tl2[i], "resp", r) => i = n,
         Requested(r, tb, tl, c, TRUE)
  PROVE  Requested(r, tb, tl2, c, FALSE)
<1>1. /\ Len(tl) \in Nat /\ Len(tl2) \in Nat /\ Len(tl) <= Len(tl2) /\ n \in 1..Len(tl2)
      /\ \A i \in 1..Len(tl2) : i \in 1..Len(tl) \/ i \in Len(tl) + 1..Len(tl2)
  BY DEF Grown
<1>2. \A i \in 1..Len(tl) : tl2[i] = tl[i] /\ (About(tl[i], "resp", r) => ~tl[i].closed)
  BY DEF Grown, Requested
<1>3. c.state \in {"open", "closed"} /\ Lacks(tb, "invoke", r)
  BY DEF Requested, Lacks
<1>4. ASSUME NEW i \in 1..Len(tl2), About(tl2[i], "resp", r)
      PROVE  tl2[i].inv \in {0, c.inv} /\ (tl2[i].closed => i = n) /\ i <= n
  <2>1. CASE i \in 1..Len(tl)
    BY <1>1, <1>2, <1>4, <2>1 DEF Requested
  <2>2. CASE i \in Len(tl) + 1..Len(tl2)
    BY <1>4, <2>2
  <2> QED
    BY <1>1, <2>1, <2>2
<1> QED
  BY <1>1, <1>3, <1>4 DEF Requested, Lacks

\* A response that leaves the stream open.
LEMMA RequestedAnswered ==
  ASSUME NEW r, NEW tb, NEW tl, NEW tl2, NEW c, NEW K, Grown(tl, tl2, K),
         \A x \in K : ~x.closed /\ x.inv \in {0, c.inv},
         Requested(r, tb, tl, c, TRUE)
  PROVE  Requested(r, tb, tl2, c, TRUE)
<1>1. \A i \in 1..Len(tl2) : \/ i \in 1..Len(tl) /\ tl2[i] = tl[i]
                             \/ ~tl2[i].closed /\ tl2[i].inv \in {0, c.inv}
  BY DEF Grown
<1>2. c.state \in {"open", "closed"} /\ Lacks(tb, "invoke", r)
  BY DEF Requested, Lacks
<1>3. \A i \in 1..Len(tl) : About(tl[i], "resp", r) => ~tl[i].closed /\ tl[i].inv \in {0, c.inv}
  BY DEF Requested
<1> QED
  BY <1>1, <1>2, <1>3 DEF Requested, Lacks

\* The broker takes a close: the stream is freed, if it was there.
LEMMA RequestedCloses ==
  ASSUME NEW r, NEW tb, NEW tl, NEW tb2, NEW c, NEW has \in BOOLEAN,
         Taken(tb, tb2), About(tb[1], "close", r),
         Requested(r, tb, tl, c, has)
  PROVE  Requested(r, tb2, tl, c, FALSE)
<1>1. \A i \in 1..Len(tb2) : i + 1 \in 1..Len(tb) /\ tb2[i] = tb[i + 1]
  BY DEF Taken
<1>2. 1 \in 1..Len(tb)
  BY DEF Taken
<1>3. Lacks(tb, "invoke", r)
  <2> SUFFICES ASSUME NEW i \in 1..Len(tb), About(tb[i], "invoke", r) PROVE FALSE
    BY DEF Lacks
  <2>1. i < 1
    BY <1>2 DEF Requested
  <2> QED
    BY <2>1
<1>4. Lacks(tb2, "invoke", r)
  BY <1>1, <1>3 DEF Lacks
<1>5. c.state \notin {"unused", "open"}
  BY <1>2 DEF Requested, Lacks
<1> QED
  BY <1>4, <1>5 DEF Requested, Lacks

\* The requester invokes, closes, and reads the end.
LEMMA RequestedAsks ==
  ASSUME NEW r, NEW tb, NEW tl, NEW tb2, NEW c, NEW c2, NEW has \in BOOLEAN, NEW K,
         Grown(tb, tb2, K), Len(tb2) = Len(tb) + 1, About(tb2[Len(tb2)], "invoke", r),
         c.state = "unused", c2.state = "open", tb2[Len(tb2)].inv = c2.inv,
         Requested(r, tb, tl, c, has)
  PROVE  Requested(r, tb2, tl, c2, has)
<1>1. /\ Len(tb) \in Nat /\ Len(tb2) \in 1..Len(tb2)
      /\ \A i \in 1..Len(tb2) : i = Len(tb2) \/ (i \in 1..Len(tb) /\ tb2[i] = tb[i])
  BY DEF Grown
<1>2. ~has /\ Lacks(tl, "resp", r) /\ Lacks(tb, "invoke", r) /\ Lacks(tb, "close", r)
  BY DEF Requested, Lacks
<1>3. ~About(tb2[Len(tb2)], "close", r)
  BY DEF About
<1>4. \A i \in 1..Len(tb2) : ~About(tb2[i], "close", r) /\ (About(tb2[i], "invoke", r) => i = Len(tb2))
  BY <1>1, <1>2, <1>3 DEF Lacks
<1>5. Lacks(tb2, "close", r) /\ ~Lacks(tb2, "invoke", r)
  BY <1>1, <1>4 DEF Lacks
<1> QED
  BY <1>2, <1>4, <1>5 DEF Requested, Lacks

LEMMA RequestedGivesUp ==
  ASSUME NEW r, NEW tb, NEW tl, NEW tb2, NEW c, NEW c2, NEW has \in BOOLEAN, NEW K,
         Grown(tb, tb2, K), Len(tb2) = Len(tb) + 1, About(tb2[Len(tb2)], "close", r),
         c.state = "open", c2.state = "closed", c2.inv = c.inv,
         Requested(r, tb, tl, c, has)
  PROVE  Requested(r, tb2, tl, c2, has)
<1>1. /\ Len(tb) \in Nat /\ Len(tb2) \in 1..Len(tb2)
      /\ \A i \in 1..Len(tb2) : i = Len(tb2) \/ (i \in 1..Len(tb) /\ tb2[i] = tb[i])
      /\ \A i \in 1..Len(tb) : i < Len(tb2)
  BY DEF Grown
<1>2. Lacks(tb, "close", r)
  BY DEF Requested
<1>3. ~About(tb2[Len(tb2)], "invoke", r)
  BY DEF About
<1>4. \A i \in 1..Len(tb2) : /\ About(tb2[i], "close", r) => i = Len(tb2)
                             /\ About(tb2[i], "invoke", r) => i \in 1..Len(tb) /\ tb2[i] = tb[i]
  BY <1>1, <1>2, <1>3 DEF Lacks
<1>5. ~Lacks(tb2, "close", r)
  BY <1>1 DEF Lacks
<1> QED
  BY <1>1, <1>4, <1>5 DEF Requested

LEMMA RequestedSeesEnd ==
  ASSUME NEW r, NEW tb, NEW tl, NEW tl2, NEW c, NEW c2, NEW has \in BOOLEAN,
         Taken(tl, tl2), About(tl[1], "resp", r), tl[1].closed, c2.state = "ended",
         Requested(r, tb, tl, c, has)
  PROVE  Requested(r, tb, tl2, c2, has)
<1>1. \A i \in 1..Len(tl2) : i + 1 \in 1..Len(tl) /\ tl2[i] = tl[i + 1]
  BY DEF Taken
<1>2. 1 \in 1..Len(tl)
  BY DEF Taken
<1>3. ~has /\ \A j \in 1..Len(tl) : About(tl[j], "resp", r) => j <= 1
  BY <1>2 DEF Requested
<1>4. Lacks(tb, "invoke", r)
  BY <1>2 DEF Requested, Lacks
<1>5. Lacks(tl2, "resp", r)
  <2> SUFFICES ASSUME NEW i \in 1..Len(tl2), About(tl2[i], "resp", r) PROVE FALSE
    BY DEF Lacks
  <2>1. i + 1 <= 1
    BY <1>1, <1>3
  <2> QED
    BY <2>1
<1> QED
  BY <1>3, <1>4, <1>5 DEF Requested, Lacks

\* Of a rid that was never used nothing is under way.
LEMMA RequestedUnused ==
  ASSUME NEW r
  PROVE  Requested(r, <<>>, <<>>, Unused, FALSE)
BY DEF Requested, Lacks, Unused

\* The same for a responder: what is not an invoke or a response of p changes
\* nothing, and a message that is taken loses nothing but its own effect.
LEMMA ServingGrows ==
  ASSUME NEW p, NEW tl, NEW tb, NEW tl2, NEW tb2, NEW act, NEW fin, NEW fin2, NEW has \in BOOLEAN,
         NEW K, NEW J, Grown(tl, tl2, K), Grown(tb, tb2, J), fin \subseteq fin2,
         \A x \in K : ~About(x, "invoke", p),
         \A x \in J : ~About(x, "resp", p),
         Serving(p, tl, tb, act, fin, has)
  PROVE  Serving(p, tl2, tb2, act, fin2, has)
<1>1. \A i \in 1..Len(tl2) : About(tl2[i], "invoke", p) => i \in 1..Len(tl) /\ tl2[i] = tl[i]
  BY DEF Grown
<1>2. \A i \in 1..Len(tl) : i \in 1..Len(tl2) /\ tl2[i] = tl[i]
  BY DEF Grown
<1>3. \A i \in 1..Len(tb2) : About(tb2[i], "resp", p) => i \in 1..Len(tb) /\ tb2[i] = tb[i]
  BY DEF Grown
<1>4. Lacks(tb, "resp", p) => Lacks(tb2, "resp", p)
  BY <1>3 DEF Lacks
<1>5. Lacks(tl2, "close", p) => Lacks(tl, "close", p)
  BY <1>2 DEF Lacks
<1> QED
  BY <1>1, <1>2, <1>3, <1>4, <1>5 DEF Serving

LEMMA ServingTaken ==
  ASSUME NEW p, NEW tl, NEW tb, NEW tb2, NEW act, NEW fin, NEW has \in BOOLEAN,
         Taken(tb, tb2), Serving(p, tl, tb, act, fin, has)
  PROVE  Serving(p, tl, tb2, act, fin, has)
<1>1. \A i \in 1..Len(tb2) : i + 1 \in 1..Len(tb) /\ tb2[i] = tb[i + 1]
  BY DEF Taken
<1>2. Lacks(tb, "resp", p) => Lacks(tb2, "resp", p)
  BY <1>1 DEF Lacks
<1> QED
  BY <1>1, <1>2 DEF Serving

\* A message is read that is no close of p.
LEMMA ServingRead ==
  ASSUME NEW p, NEW tl, NEW tb, NEW tl2, NEW act, NEW fin, NEW has \in BOOLEAN,
         Taken(tl, tl2), ~About(tl[1], "close", p), Serving(p, tl, tb, act, fin, has)
  PROVE  Serving(p, tl2, tb, act, fin, has)
<1>1. \A i \in 1..Len(tl2) : i + 1 \in 1..Len(tl) /\ tl2[i] = tl[i + 1]
  BY DEF Taken
<1>2. \A i \in 1..Len(tl) : i # 1 => i - 1 \in 1..Len(tl2) /\ tl2[i - 1] = tl[i]
  BY DEF Taken
<1>3. ASSUME NEW i \in 1..Len(tl2), About(tl2[i], "invoke", p)
      PROVE  /\ Lacks(tb, "resp", p) /\ \A e \in act : e[1] # p
             /\ \A j \in 1..Len(tl2) : About(tl2[j], "invoke", p) => i = j
             /\ has \/ \E j \in 1..Len(tl2) : i < j /\ About(tl2[j], "close", p)
  <2>1. i + 1 \in 1..Len(tl) /\ About(tl[i + 1], "invoke", p)
    BY <1>1, <1>3
  <2>2. /\ Lacks(tb, "resp", p) /\ \A e \in act : e[1] # p
        /\ \A j \in 1..Len(tl) : About(tl[j], "invoke", p) => i + 1 = j
        /\ has \/ \E j \in 1..Len(tl) : i + 1 < j /\ About(tl[j], "close", p)
    BY <2>1 DEF Serving
  <2>3. \A j \in 1..Len(tl2) : About(tl2[j], "invoke", p) => i = j
    <3> SUFFICES ASSUME NEW j \in 1..Len(tl2), About(tl2[j], "invoke", p) PROVE i = j
      OBVIOUS
    <3>1. i + 1 = j + 1
      BY <1>1, <2>2
    <3> QED
      BY <3>1
  <2>4. ASSUME NEW j \in 1..Len(tl), i + 1 < j, About(tl[j], "close", p)
        PROVE  \E k \in 1..Len(tl2) : i < k /\ About(tl2[k], "close", p)
    <3>1. j - 1 \in 1..Len(tl2) /\ tl2[j - 1] = tl[j] /\ i < j - 1
      BY <1>2, <2>4
    <3> QED
      BY <2>4, <3>1
  <2> QED
    BY <2>2, <2>3, <2>4
<1>4. ~Lacks(tl, "close", p) => ~Lacks(tl2, "close", p)
  BY <1>2 DEF Lacks
<1> QED
  BY <1>3, <1>4 DEF Serving

\* The rid p is used for the first time.
LEMMA ServingStarts ==
  ASSUME NEW p, NEW tl, NEW tb, NEW tl2, NEW act, NEW fin, NEW has \in BOOLEAN, NEW K,
         Grown(tl, tl2, K), Len(tl2) = Len(tl) + 1,
         Said(p, tl, tb, act) = {}
  PROVE  Serving(p, tl2, tb, act, fin, TRUE)
<1>1. \A i \in 1..Len(tl2) : i = Len(tl2) \/ (i \in 1..Len(tl) /\ tl2[i] = tl[i])
  BY DEF Grown
<1>2. Lacks(tl, "invoke", p) /\ Lacks(tb, "resp", p) /\ \A e \in act : e[1] # p
  <2>1. ASSUME NEW i \in 1..Len(tl), About(tl[i], "invoke", p) PROVE FALSE
    <3>1. tl[i].inv \in Said(p, tl, tb, act)
      BY <2>1 DEF Said
    <3> QED
      BY <3>1
  <2>2. ASSUME NEW i \in 1..Len(tb), About(tb[i], "resp", p) PROVE FALSE
    <3>1. tb[i].inv \in Said(p, tl, tb, act)
      BY <2>2 DEF Said
    <3> QED
      BY <3>1
  <2>3. ASSUME NEW e \in act, e[1] = p PROVE FALSE
    <3>1. e[2] \in Said(p, tl, tb, act)
      BY <2>3 DEF Said
    <3> QED
      BY <3>1
  <2> QED
    BY <2>1, <2>2, <2>3 DEF Lacks
<1> QED
  BY <1>1, <1>2 DEF Serving, Lacks

\* The stream is freed and the responder is told.
LEMMA ServingCloses ==
  ASSUME NEW p, NEW tl, NEW tb, NEW tl2, NEW act, NEW fin, NEW K, Grown(tl, tl2, K),
         NEW n \in Len(tl) + 1..Len(tl2), About(tl2[n], "close", p),
         \A x \in K : ~About(x, "invoke", p),
         Serving(p, tl, tb, act, fin, TRUE)
  PROVE  Serving(p, tl2, tb, act, fin, FALSE)
<1>1. \A i \in 1..Len(tl2) : About(tl2[i], "invoke", p) => i \in 1..Len(tl) /\ tl2[i] = tl[i]
  BY DEF Grown
<1>2. n \in 1..Len(tl2) /\ \A i \in 1..Len(tl) : i < n
  BY DEF Grown
<1>3. ~Lacks(tl2, "close", p)
  BY <1>2 DEF Lacks
<1> QED
  BY <1>1, <1>2, <1>3 DEF Serving

\* The stream is freed with the last response.
LEMMA ServingEnds ==
  ASSUME NEW p, NEW tl, NEW tb, NEW act, NEW fin, NEW has \in BOOLEAN,
         Len(tb) \in Nat \ {0}, About(tb[1], "resp", p), tb[1].closed,
         Serving(p, tl, tb, act, fin, has)
  PROVE  Serving(p, tl, tb, act, fin, FALSE)
<1>1. 1 \in 1..Len(tb)
  OBVIOUS
<1>2. ~Lacks(tb, "resp", p)
  BY <1>1 DEF Lacks
<1>3. \A i \in 1..Len(tl) : ~About(tl[i], "invoke", p)
  BY <1>2 DEF Serving
<1>4. \A e \in act \ fin : e[1] # p
  BY <1>1 DEF Serving
<1> QED
  BY <1>3, <1>4 DEF Serving

\* The responder reads the invoke of p, and answers at once or keeps it.
LEMMA ServingAsked ==
  ASSUME NEW p, NEW tl, NEW tb, NEW tl2, NEW act, NEW fin, NEW has \in BOOLEAN,
         Taken(tl, tl2), About(tl[1], "invoke", p), Serving(p, tl, tb, act, fin, has)
  PROVE  /\ Lacks(tl2, "invoke", p) /\ \A e \in act : e[1] # p
         /\ Lacks(tb, "resp", p) /\ (has \/ ~Lacks(tl2, "close", p))
<1>1. \A i \in 1..Len(tl2) : i + 1 \in 1..Len(tl) /\ tl2[i] = tl[i + 1] /\ i + 1 # 1
  BY DEF Taken
<1>2. \A i \in 1..Len(tl) : 1 < i => i - 1 \in 1..Len(tl2) /\ tl2[i - 1] = tl[i]
  BY DEF Taken
<1>3. 1 \in 1..Len(tl)
  BY DEF Taken
<1>4. /\ Lacks(tb, "resp", p) /\ \A e \in act : e[1] # p
      /\ \A j \in 1..Len(tl) : About(tl[j], "invoke", p) => 1 = j
      /\ has \/ \E j \in 1..Len(tl) : 1 < j /\ About(tl[j], "close", p)
  BY <1>3 DEF Serving
<1>5. Lacks(tl2, "invoke", p)
  BY <1>1, <1>4 DEF Lacks
<1>6. (\E j \in 1..Len(tl) : 1 < j /\ About(tl[j], "close", p)) => ~Lacks(tl2, "close", p)
  BY <1>2 DEF Lacks
<1> QED
  BY <1>4, <1>5, <1>6

\* The responder answers what it keeps.
LEMMA ServingAnswers ==
  ASSUME NEW p, NEW tl, NEW tb, NEW tb2, NEW act, NEW fin, NEW fin2, NEW has \in BOOLEAN,
         NEW e \in act, e[1] = p, NEW K, Grown(tb, tb2, K),
         fin \subseteq fin2, (\E x \in K : x.closed) => e \in fin2,
         Serving(p, tl, tb, act, fin, has)
  PROVE  Serving(p, tl, tb2, act, fin2, has)
<1>1. \A i \in 1..Len(tl) : ~About(tl[i], "invoke", p)
  BY DEF Serving
<1>2. \A i \in 1..Len(tb2) : (i \in 1..Len(tb) /\ tb2[i] = tb[i]) \/ tb2[i] \in K
  BY DEF Grown
<1>3. \A f \in act : f[1] = p => f = e
  BY DEF Serving
<1> QED
  BY <1>1, <1>2, <1>3 DEF Serving

\* The responder reads a close of p.
LEMMA ServingSeesClose ==
  ASSUME NEW p, NEW tl, NEW tb, NEW tl2, NEW act, NEW act2, NEW fin, NEW fin2, NEW has \in BOOLEAN,
         Taken(tl, tl2), act2 = {e \in act : e[1] # p},
         Serving(p, tl, tb, act, fin, has)
  PROVE  Serving(p, tl2, tb, act2, fin2, has)
<1>1. \A i \in 1..Len(tl2) : i + 1 \in 1..Len(tl) /\ tl2[i] = tl[i + 1]
  BY DEF Taken
<1>2. \A i \in 1..Len(tl) : i # 1 => i - 1 \in 1..Len(tl2) /\ tl2[i - 1] = tl[i]
  BY DEF Taken
<1>3. ASSUME NEW i \in 1..Len(tl2), About(tl2[i], "invoke", p)
      PROVE  /\ Lacks(tb, "resp", p)
             /\ \A j \in 1..Len(tl2) : About(tl2[j], "invoke", p) => i = j
             /\ has \/ \E j \in 1..Len(tl2) : i < j /\ About(tl2[j], "close", p)
  <2>1. i + 1 \in 1..Len(tl) /\ About(tl[i + 1], "invoke", p)
    BY <1>1, <1>3
  <2>2. /\ Lacks(tb, "resp", p)
        /\ \A j \in 1..Len(tl) : About(tl[j], "invoke", p) => i + 1 = j
        /\ has \/ \E j \in 1..Len(tl) : i + 1 < j /\ About(tl[j], "close", p)
    BY <2>1 DEF Serving
  <2>3. \A j \in 1..Len(tl2) : About(tl2[j], "invoke", p) => i = j
    <3> SUFFICES ASSUME NEW j \in 1..Len(tl2), About(tl2[j], "invoke", p) PROVE i = j
      OBVIOUS
    <3>1. i + 1 = j + 1
      BY <1>1, <2>2
    <3> QED
      BY <3>1
  <2>4. ASSUME NEW j \in 1..Len(tl), i + 1 < j, About(tl[j], "close", p)
        PROVE  \E k \in 1..Len(tl2) : i < k /\ About(tl2[k], "close", p)
    <3>1. j - 1 \in 1..Len(tl2) /\ tl2[j - 1] = tl[j] /\ i < j - 1
      BY <1>2, <2>4
    <3> QED
      BY <2>4, <3>1
  <2> QED
    BY <2>2, <2>3, <2>4
<1>4. \A e \in act2 : e[1] # p
  OBVIOUS
<1> QED
  BY <1>3, <1>4 DEF Serving

\* A close of another rid takes nothing of p away.
LEMMA ServingFewer ==
  ASSUME NEW p, NEW tl, NEW tb, NEW act, NEW act2, NEW fin, NEW fin2, NEW has \in BOOLEAN,
         act2 \subseteq act, \A e \in act2 : e[1] = p /\ e \in fin => e \in fin2,
         Serving(p, tl, tb, act, fin, has)
  PROVE  Serving(p, tl, tb, act2, fin2, has)
BY DEF Serving

\* A link with empty channels serves nothing.
LEMMA ServingNothing ==
  ASSUME NEW p, NEW has \in BOOLEAN
  PROVE  Serving(p, <<>>, <<>>, {}, {}, has)
BY DEF Serving, Lacks

\* What is said of a rid: nothing more by a message that is taken, one thing at
\* most by a message that is sent.
LEMMA SaidGrows ==
  ASSUME NEW p, NEW tl, NEW tb, NEW tl2, NEW tb2, NEW act, NEW S, NEW K, NEW J,
         Grown(tl, tl2, K), Grown(tb, tb2, J),
         \A x \in K : About(x, "invoke", p) => x.inv \in S,
         \A x \in J : About(x, "resp", p) => x.inv \in S,
         Said(p, tl, tb, act) \subseteq S
  PROVE  Said(p, tl2, tb2, act) \subseteq S
<1>1. \A i \in 1..Len(tl2) : (i \in 1..Len(tl) /\ tl2[i] = tl[i]) \/ tl2[i] \in K
  BY DEF Grown
<1>2. \A i \in 1..Len(tb2) : (i \in 1..Len(tb) /\ tb2[i] = tb[i]) \/ tb2[i] \in J
  BY DEF Grown
<1> SUFFICES ASSUME NEW x \in Said(p, tl2, tb2, act) PROVE x \in S
  OBVIOUS
<1>3. CASE \E i \in 1..Len(tl2) : About(tl2[i], "invoke", p) /\ x = tl2[i].inv
  BY <1>1, <1>3 DEF Said
<1>4. CASE \E i \in 1..Len(tb2) : About(tb2[i], "resp", p) /\ x = tb2[i].inv
  BY <1>2, <1>4 DEF Said
<1>5. CASE \E e \in act : e[1] = p /\ x = e[2]
  BY <1>5 DEF Said
<1> QED
  BY <1>3, <1>4, <1>5 DEF Said

LEMMA SaidTaken ==
  ASSUME NEW p, NEW tl, NEW tb, NEW tl2, NEW tb2, NEW act, NEW act2,
         Taken(tl, tl2) \/ tl2 = tl, Taken(tb, tb2) \/ tb2 = tb, act2 \subseteq act
  PROVE  Said(p, tl2, tb2, act2) \subseteq Said(p, tl, tb, act)
<1>1. \A i \in 1..Len(tl2) : \E j \in 1..Len(tl) : tl2[i] = tl[j]
  <2>1. CASE Taken(tl, tl2)
    <3>1. \A i \in 1..Len(tl2) : i + 1 \in 1..Len(tl) /\ tl2[i] = tl[i + 1]
      BY <2>1 DEF Taken
    <3> QED
      BY <3>1
  <2> QED
    BY <2>1
<1>2. \A i \in 1..Len(tb2) : \E j \in 1..Len(tb) : tb2[i] = tb[j]
  <2>1. CASE Taken(tb, tb2)
    <3>1. \A i \in 1..Len(tb2) : i + 1 \in 1..Len(tb) /\ tb2[i] = tb[i + 1]
      BY <2>1 DEF Taken
    <3> QED
      BY <3>1
  <2> QED
    BY <2>1
<1> QED
  BY <1>1, <1>2 DEF Said

LEMMA SaidFirst ==
  ASSUME NEW p, NEW tl, NEW tb, NEW act, Len(tl) \in Nat \ {0}, About(tl[1], "invoke", p)
  PROVE  tl[1].inv \in Said(p, tl, tb, act)
<1>1. 1 \in 1..Len(tl)
  OBVIOUS
<1> QED
  BY <1>1 DEF Said

LEMMA SaidKept ==
  ASSUME NEW p, NEW tl, NEW tb, NEW act, NEW e
  PROVE  /\ e \in act /\ e[1] = p => e[2] \in Said(p, tl, tb, act)
         /\ Said(p, tl, tb, act \cup {e}) \subseteq
              Said(p, tl, tb, act) \cup (IF e[1] = p THEN {e[2]} ELSE {})
BY DEF Said

\* Nothing is said in empty channels.
LEMMA SaidNothing ==
  ASSUME NEW p
  PROVE  Said(p, <<>>, <<>>, {}) = {}
BY DEF Said

-----------------------------------------------------------------------------
\* How the channels change in a step
LEMMA LinkAppended ==
  ASSUME NEW q \in Seq(FromLink), NEW x \in FromLink
  PROVE  /\ Grown(q, Append(q, x), {x}) /\ Len(Append(q, x)) = Len(q) + 1
         /\ Append(q, x)[Len(q) + 1] = x
<1>1. Len(q) \in Nat /\ Len(Append(q, x)) = Len(q) + 1
  OBVIOUS
<1>2. \A i \in 1..Len(q) : Append(q, x)[i] = q[i]
  OBVIOUS
<1>3. Append(q, x)[Len(q) + 1] = x
  OBVIOUS
<1> HIDE DEF Append
<1> DEFINE z == Append(q, x)
<1>4. \A i \in Len(q) + 1..Len(z) : i = Len(q) + 1
  BY <1>1
<1>5. \A i \in Len(q) + 1..Len(z) : z[i] \in {x}
  BY <1>3, <1>4
<1> QED
  BY <1>1, <1>2, <1>3, <1>5 DEF Grown

\* The same of a message of the broker
LEMMA BrokerAppended ==
  ASSUME NEW q \in Seq(FromBroker), NEW x \in FromBroker
  PROVE  /\ Grown(q, Append(q, x), {x}) /\ Len(Append(q, x)) = Len(q) + 1
         /\ Append(q, x)[Len(q) + 1] = x
<1>1. Len(q) \in Nat /\ Len(Append(q, x)) = Len(q) + 1
  OBVIOUS
<1>2. \A i \in 1..Len(q) : Append(q, x)[i] = q[i]
  OBVIOUS
<1>3. Append(q, x)[Len(q) + 1] = x
  OBVIOUS
<1> DEFINE z == Append(q, x)
<1>4. \A i \in Len(q) + 1..Len(z) : i = Len(q) + 1
  BY <1>1
<1>5. \A i \in Len(q) + 1..Len(z) : z[i] \in {x}
  BY <1>3, <1>4
<1> QED
  BY <1>1, <1>2, <1>3, <1>5 DEF Grown

\* A channel that does not change grew by nothing.
LEMMA GrownByNothing ==
  ASSUME NEW q, Len(q) \in Nat, NEW K
  PROVE  Grown(q, q, K)
BY DEF Grown

\* The lengths of the channels
LEMMA ChannelLengths ==
  ASSUME RestOK, NEW k \in Links
  PROVE  /\ toBroker[k] \in Seq(FromLink) /\ toLink[k] \in Seq(FromBroker)
         /\ Len(toBroker[k]) \in Nat /\ Len(toLink[k]) \in Nat
<1>1. toBroker[k] \in Seq(FromLink) /\ toLink[k] \in Seq(FromBroker)
  BY DEF RestOK
<1> QED
  BY <1>1

\* A message that the broker sends
LEMMA SentGrows ==
  ASSUME RestOK, NEW m \in Links, NEW msg \in FromBroker, NEW k \in Links
  PROVE  /\ Grown(toLink[k], Sent(m, msg)[k], IF k = m THEN {msg} ELSE {})
         /\ m \in up => /\ Len(Sent(m, msg)[m]) = Len(toLink[m]) + 1
                        /\ Sent(m, msg)[m][Len(toLink[m]) + 1] = msg
<1>1. toLink \in [Links -> Seq(FromBroker)] /\ toLink[k] \in Seq(FromBroker) /\ toLink[m] \in Seq(FromBroker)
  BY DEF RestOK
<1>2. Grown(toLink[k], toLink[k], {}) /\ Grown(toLink[k], toLink[k], {msg})
  BY <1>1, GrownByNothing, ChannelLengths
<1>3. CASE m \notin up
  BY <1>2, <1>3 DEF Sent
<1>4. CASE m \in up
  <2>1. Sent(m, msg) = [toLink EXCEPT ![m] = Append(@, msg)]
    BY <1>4 DEF Sent
  <2>2. Sent(m, msg)[m] = Append(toLink[m], msg) /\ (k # m => Sent(m, msg)[k] = toLink[k])
    BY <1>1, <2>1
  <2>3. /\ Grown(toLink[m], Append(toLink[m], msg), {msg})
        /\ Len(Append(toLink[m], msg)) = Len(toLink[m]) + 1
        /\ Append(toLink[m], msg)[Len(toLink[m]) + 1] = msg
    BY <1>1, BrokerAppended
  <2> QED
    BY <1>2, <2>2, <2>3
<1> QED
  BY <1>3, <1>4

\* What the broker takes from a link, and a link from the broker
LEMMA RequestTakes ==
  ASSUME RestOK, NEW l \in Links, NEW kind, Request(l, kind)
  PROVE  /\ Taken(toBroker[l], toBroker'[l])
         /\ toBroker[l][1] = Head(toBroker[l]) /\ Head(toBroker[l]).kind = kind
         /\ \A k \in Links : k # l => toBroker'[k] = toBroker[k]
<1>1. toBroker[l] \in Seq(FromLink) /\ toBroker[l] # <<>> /\ toBroker \in [Links -> Seq(FromLink)]
  BY DEF RestOK, Request
<1>2. toBroker' = [toBroker EXCEPT ![l] = Tail(@)] /\ Head(toBroker[l]).kind = kind
  BY DEF Request
<1>3. toBroker'[l] = Tail(toBroker[l]) /\ \A k \in Links : k # l => toBroker'[k] = toBroker[k]
  BY <1>1, <1>2
<1> DEFINE q == toBroker[l]
<1>4. Len(q) \in Nat \ {0} /\ Len(Tail(q)) = Len(q) - 1 /\ \A i \in 1..Len(Tail(q)) : Tail(q)[i] = q[i + 1]
  BY <1>1
<1> QED
  BY <1>1, <1>2, <1>3, <1>4 DEF Taken

\* What receiving takes from a channel of the broker
LEMMA ReceiveTakes ==
  ASSUME RestOK, NEW l \in Links, NEW kind, Receive(l, kind)
  PROVE  /\ Taken(toLink[l], toLink'[l])
         /\ toLink[l][1] = Head(toLink[l]) /\ Head(toLink[l]).kind = kind
         /\ \A k \in Links : k # l => toLink'[k] = toLink[k]
<1>1. toLink[l] \in Seq(FromBroker) /\ toLink[l] # <<>> /\ toLink \in [Links -> Seq(FromBroker)]
  BY DEF RestOK, Receive
<1>2. toLink' = [toLink EXCEPT ![l] = Tail(@)] /\ Head(toLink[l]).kind = kind
  BY DEF Receive
<1>3. toLink'[l] = Tail(toLink[l]) /\ \A k \in Links : k # l => toLink'[k] = toLink[k]
  BY <1>1, <1>2
<1> DEFINE q == toLink[l]
<1>4. Len(q) \in Nat \ {0} /\ Len(Tail(q)) = Len(q) - 1 /\ \A i \in 1..Len(Tail(q)) : Tail(q)[i] = q[i + 1]
  BY <1>1
<1> QED
  BY <1>1, <1>2, <1>3, <1>4 DEF Taken

\* An enumeration of a finite set names every element once.
LEMMA OrdersAll ==
  ASSUME NEW S, IsFiniteSet(S), NEW a \in Orders(S)
  PROVE  /\ Cardinality(S) \in Nat /\ a \in [1..Cardinality(S) -> S]
         /\ \A i, j \in 1..Cardinality(S) : a[i] = a[j] => i = j
         /\ \A x \in S : \E i \in 1..Cardinality(S) : a[i] = x
<1> DEFINE n == Cardinality(S)
<1>1. n \in Nat
  BY FS_CardinalityType
<1>2. a \in [1..n -> S] /\ \A i, j \in 1..n : a[i] = a[j] => i = j
  BY DEF Orders, IsInjective
<1>3. IsFiniteSet(1..n) /\ Cardinality(1..n) = n
  BY <1>1, FS_Interval
<1>4. a \in Injection(1..n, S)
  BY <1>2 DEF Injection, IsInjective
<1>5. a \in Surjection(1..n, S)
  BY <1>3, <1>4, FS_Injection, FS_Surjection
<1> QED
  BY <1>1, <1>2, <1>5 DEF Surjection

\* A link is told of every stream that is lost, and of each once.
LEMMA ToldGrows ==
  ASSUME IInv, NEW l \in Links, NEW m \in Links, NEW q \in Told(l, m)
  PROVE  GrownByAll(toLink[m], q, Asked(l, m) \cup Served(l, m))
<1> DEFINE t == toLink[m]
           A == Asked(l, m)
           B == Served(l, m)
           u == Len(t)
           v == Cardinality(A)
           w == Cardinality(B)
<1>1. PICK a \in Orders(A), b \in Orders(B) : q = t \o a \o b
  BY DEF Told
<1>2. /\ IsFiniteSet(A) /\ IsFiniteSet(B) /\ A \subseteq FromBroker /\ B \subseteq FromBroker
      /\ \A x \in A : x.kind = "close"
      /\ \A x \in B : x.kind = "resp"
  BY ToldSets
<1>3. A \cap B = {}
  <2> SUFFICES ASSUME NEW x \in A, x \in B PROVE FALSE
    OBVIOUS
  <2>1. x.kind = "close" /\ x.kind = "resp"
    BY <1>2
  <2>2. "close" # "resp"
    OBVIOUS
  <2> QED
    BY <2>1, <2>2
<1>4. /\ v \in Nat /\ a \in [1..v -> A]
      /\ \A i, j \in 1..v : a[i] = a[j] => i = j
      /\ \A x \in A : \E i \in 1..v : a[i] = x
  BY <1>2, OrdersAll
<1>5. /\ w \in Nat /\ b \in [1..w -> B]
      /\ \A i, j \in 1..w : b[i] = b[j] => i = j
      /\ \A x \in B : \E i \in 1..w : b[i] = x
  BY <1>2, OrdersAll
<1>6. t \in Seq(FromBroker) /\ a \in Seq(FromBroker) /\ b \in Seq(FromBroker) /\ u \in Nat
  <2>1. t \in Seq(FromBroker)
    BY DEF IInv, RestOK
  <2>2. a \in Seq(FromBroker) /\ b \in Seq(FromBroker)
    BY <1>2, OrdersType
  <2> QED
    BY <2>1, <2>2
<1>7. Len(a) = v /\ Len(b) = w
  <2>1. DOMAIN a = 1..v /\ DOMAIN b = 1..w
    BY <1>4, <1>5
  <2>2. DOMAIN a = 1..Len(a) /\ DOMAIN b = 1..Len(b) /\ Len(a) \in Nat /\ Len(b) \in Nat
    BY <1>6
  <2> QED
    BY <1>4, <1>5, <2>1, <2>2
<1> HIDE DEF t, A, B, u, v, w
<1>8. /\ Len(q) = u + v + w
      /\ \A i \in 1..u : q[i] = t[i]
      /\ \A i \in 1..v : q[u + i] = a[i]
      /\ \A i \in 1..w : q[u + v + i] = b[i]
  <2>1. Len(t) = u
    BY DEF u
  <2> DEFINE ta == t \o a
  <2>11. u \in Nat /\ v \in Nat /\ w \in Nat
    BY <1>4, <1>5, <1>6
  <2>13. /\ ta \in Seq(FromBroker) /\ Len(ta) = Len(t) + Len(a)
         /\ \A i \in 1..Len(t) + Len(a) : ta[i] = IF i <= Len(t) THEN t[i] ELSE a[i - Len(t)]
    BY ONLY <1>6, ConcatProperties
  <2>10. q = ta \o b
    BY <1>1
  <2> HIDE DEF ta
  <2>2. ta \in Seq(FromBroker) /\ Len(ta) = u + v
    BY ONLY <1>7, <2>1, <2>13
  <2>5. \A i \in 1..u : ta[i] = t[i]
    <3> SUFFICES ASSUME NEW i \in 1..u PROVE ta[i] = t[i]
      OBVIOUS
    <3>1. i \in 1..Len(t) + Len(a) /\ i <= Len(t)
      BY ONLY <1>7, <2>1, <2>11, i \in 1..u
    <3> QED
      BY ONLY <2>13, <3>1
  <2>6. \A i \in 1..v : ta[u + i] = a[i]
    <3> SUFFICES ASSUME NEW i \in 1..v PROVE ta[u + i] = a[i]
      OBVIOUS
    <3> DEFINE j == u + i
    <3>1. j \in 1..Len(t) + Len(a) /\ ~(j <= Len(t)) /\ j - Len(t) = i
      BY ONLY <1>7, <2>1, <2>11, i \in 1..v
    <3> HIDE DEF j
    <3>2. ta[j] = a[i]
      BY ONLY <2>13, <3>1
    <3> QED
      BY <3>2 DEF j
  <2>12. /\ Len(q) = Len(ta) + Len(b)
         /\ \A i \in 1..Len(ta) + Len(b) : q[i] = IF i <= Len(ta) THEN ta[i] ELSE b[i - Len(ta)]
    BY ONLY <1>6, <2>2, <2>10, ConcatProperties
  <2>3. Len(q) = u + v + w
    BY <1>7, <2>2, <2>11, <2>12
  <2>4. \A i \in 1..u + v : q[i] = ta[i]
    BY <1>6, <2>2, <2>10
  <2>7. \A i \in 1..w : q[u + v + i] = b[i]
    <3> SUFFICES ASSUME NEW i \in 1..w PROVE q[u + v + i] = b[i]
      OBVIOUS
    <3> DEFINE j == u + v + i
    <3>1. j \in 1..Len(ta) + Len(b) /\ ~(j <= Len(ta)) /\ j - Len(ta) = i
      BY <1>7, <2>2, <2>11
    <3> HIDE DEF j
    <3>2. q[j] = b[i]
      BY <2>12, <3>1
    <3> QED
      BY <3>2 DEF j
  <2>8. \A i \in 1..u : i \in 1..u + v
    BY <1>4, <1>6
  <2>9. \A i \in 1..v : u + i \in 1..u + v
    BY <1>4, <1>6
  <2> QED
    BY <2>3, <2>4, <2>5, <2>6, <2>7, <2>8, <2>9
<1>9. \A i \in u + 1..Len(q) : \/ i - u \in 1..v /\ q[i] = a[i - u]
                               \/ i - u - v \in 1..w /\ q[i] = b[i - u - v]
  <2> SUFFICES ASSUME NEW i \in u + 1..Len(q)
               PROVE  \/ i - u \in 1..v /\ q[i] = a[i - u]
                      \/ i - u - v \in 1..w /\ q[i] = b[i - u - v]
    OBVIOUS
  <2>1. CASE i <= u + v
    <3>1. i - u \in 1..v /\ u + (i - u) = i
      BY <1>4, <1>6, <1>8, <2>1
    <3> QED
      BY <1>8, <3>1
  <2>2. CASE i > u + v
    <3>1. i - u - v \in 1..w /\ u + v + (i - u - v) = i
      BY <1>4, <1>5, <1>6, <1>8, <2>2
    <3> QED
      BY <1>8, <3>1
  <2> QED
    BY <1>4, <1>6, <2>1, <2>2
<1>10. Grown(t, q, A \cup B)
  <2>1. \A i \in u + 1..Len(q) : q[i] \in A \cup B
    BY <1>4, <1>5, <1>9
  <2>2. Len(t) \in Nat /\ Len(q) \in Nat /\ Len(t) <= Len(q)
    BY <1>4, <1>5, <1>6, <1>8 DEF u
  <2> QED
    BY <1>8, <2>1, <2>2 DEF Grown, u
<1>11. ASSUME NEW x \in A \cup B PROVE \E n \in u + 1..Len(q) : q[n] = x
  <2>1. CASE x \in A
    <3>1. PICK i \in 1..v : a[i] = x
      BY <1>4, <2>1
    <3>2. u + i \in u + 1..Len(q) /\ q[u + i] = x
      BY <1>4, <1>5, <1>6, <1>8, <3>1
    <3> QED
      BY <3>2
  <2>2. CASE x \in B
    <3>1. PICK i \in 1..w : b[i] = x
      BY <1>5, <2>2
    <3>2. u + v + i \in u + 1..Len(q) /\ q[u + v + i] = x
      BY <1>4, <1>5, <1>6, <1>8, <3>1
    <3> QED
      BY <3>2
  <2> QED
    BY <2>1, <2>2
<1>12. ASSUME NEW i \in u + 1..Len(q), NEW j \in u + 1..Len(q), q[i] = q[j] PROVE i = j
  <2>1. \/ i - u \in 1..v /\ q[i] = a[i - u] /\ q[i] \in A
        \/ i - u - v \in 1..w /\ q[i] = b[i - u - v] /\ q[i] \in B
    BY <1>4, <1>5, <1>9
  <2>2. \/ j - u \in 1..v /\ q[j] = a[j - u] /\ q[j] \in A
        \/ j - u - v \in 1..w /\ q[j] = b[j - u - v] /\ q[j] \in B
    BY <1>4, <1>5, <1>9
  <2>3. i - u = j - u \/ i - u - v = j - u - v
    BY <1>3, <1>4, <1>5, <1>12, <2>1, <2>2
  <2> QED
    BY <1>4, <1>6, <2>3
<1> QED
  BY <1>10, <1>11, <1>12 DEF t, A, B, u, GrownByAll

\* What holds of one rid before a step
LEMMA EndsAt ==
  ASSUME EndInv
  PROVE  /\ RestOK /\ TablesOf(streams, reqTab, respTab) /\ SdkLinks \subseteq Links
         /\ \A k \in SdkLinks, r \in Rids : ReqAt(k, r)
         /\ \A k \in Links, p \in PRids : ServAt(k, p)
         /\ \A k \in Links, p \in PRids : p > nodeRid[k] => SaidOf(k, p) = {}
         /\ \A s \in streams : s.req \in SdkLinks =>
              SaidOf(s.resp, s.prid) \subseteq {client[s.req][s.rrid].inv}
BY InvokeConstants DEF EndInv, IInv, RequestedInv, ServingInv, SaidInv, ReqAt, ServAt

\* The broker sends messages, and none is about r.
LEMMA RequestedSent ==
  ASSUME NEW r, NEW tb, NEW tl, NEW tl2, NEW c, NEW has \in BOOLEAN, NEW K,
         Len(tb) \in Nat, Grown(tl, tl2, K), \A x \in K : ~About(x, "resp", r),
         Requested(r, tb, tl, c, has)
  PROVE  Requested(r, tb, tl2, c, has)
<1>1. Grown(tb, tb, {})
  BY GrownByNothing
<1> QED
  BY <1>1, RequestedGrows

\* The broker took a message of l, and nothing of it is about r at k.
LEMMA RequestedTook ==
  ASSUME RestOK, NEW l \in Links, NEW kind, Request(l, kind), NEW k \in Links, NEW r, NEW c,
         NEW has \in BOOLEAN, k = l => kind = "resp" \/ Head(toBroker[l]).rid # r,
         Requested(r, toBroker[k], toLink[k], c, has)
  PROVE  Requested(r, toBroker'[k], toLink[k], c, has)
<1>1. /\ Taken(toBroker[l], toBroker'[l])
      /\ toBroker[l][1] = Head(toBroker[l]) /\ Head(toBroker[l]).kind = kind
      /\ k # l => toBroker'[k] = toBroker[k]
  BY RequestTakes
<1>2. CASE k = l
  <2>1. ~About(toBroker[l][1], "invoke", r) /\ ~About(toBroker[l][1], "close", r)
    BY <1>1, <1>2 DEF About
  <2> QED
    BY <1>1, <1>2, <2>1, RequestedTaken
<1>3. CASE k # l
  BY <1>1, <1>3
<1> QED
  BY <1>2, <1>3

\* And nothing is sent about r.
LEMMA RequestedAside ==
  ASSUME RestOK, NEW l \in Links, NEW kind, Request(l, kind), NEW k \in Links, NEW r, NEW c,
         NEW has \in BOOLEAN, NEW q, NEW K, Grown(toLink[k], q, K),
         \A x \in K : ~About(x, "resp", r),
         k = l => kind = "resp" \/ Head(toBroker[l]).rid # r,
         Requested(r, toBroker[k], toLink[k], c, has)
  PROVE  Requested(r, toBroker'[k], q, c, has)
<1>1. Requested(r, toBroker'[k], toLink[k], c, has)
  BY RequestedTook
<1>2. Len(toBroker'[k]) \in Nat
  BY RequestTakes, ChannelLengths DEF Taken
<1> QED
  BY <1>1, <1>2, RequestedSent

\* The broker sends messages, and none invokes p.
LEMMA ServingSent ==
  ASSUME NEW p, NEW tl, NEW tb, NEW tl2, NEW act, NEW fin, NEW has \in BOOLEAN, NEW K,
         Len(tb) \in Nat, Grown(tl, tl2, K), \A x \in K : ~About(x, "invoke", p),
         Serving(p, tl, tb, act, fin, has)
  PROVE  Serving(p, tl2, tb, act, fin, has)
<1>1. Grown(tb, tb, {})
  BY GrownByNothing
<1> QED
  BY <1>1, ServingGrows

\* A message that is not about p is read, and one about others is sent.
LEMMA ServingAside ==
  ASSUME RestOK, NEW l \in Links, NEW kind, Request(l, kind), NEW k \in Links, NEW p,
         NEW has \in BOOLEAN, NEW q, NEW K, Grown(toLink[k], q, K),
         \A x \in K : ~About(x, "invoke", p),
         Serving(p, toLink[k], toBroker[k], active[k], ended[k], has)
  PROVE  Serving(p, q, toBroker'[k], active[k], ended[k], has)
<1>1. /\ Taken(toBroker[l], toBroker'[l])
      /\ k # l => toBroker'[k] = toBroker[k]
  BY RequestTakes
<1>2. Len(toBroker'[k]) \in Nat
  BY <1>1, ChannelLengths DEF Taken
<1>3. Serving(p, toLink[k], toBroker'[k], active[k], ended[k], has)
  BY <1>1, ServingTaken
<1> QED
  BY <1>2, <1>3, ServingSent

\* Neither says more about p.
LEMMA SaidAside ==
  ASSUME RestOK, NEW l \in Links, NEW kind, Request(l, kind), NEW k \in Links, NEW p,
         NEW S, NEW q, NEW K, Grown(toLink[k], q, K),
         \A x \in K : About(x, "invoke", p) => x.inv \in S,
         SaidOf(k, p) \subseteq S
  PROVE  Said(p, q, toBroker'[k], active[k]) \subseteq S
<1>1. Taken(toBroker[k], toBroker'[k]) \/ toBroker'[k] = toBroker[k]
  BY RequestTakes
<1>2. Len(toBroker'[k]) \in Nat
  BY <1>1, ChannelLengths DEF Taken
<1>3. Said(p, toLink[k], toBroker'[k], active[k]) \subseteq S
  <2>1. Said(p, toLink[k], toBroker'[k], active[k]) \subseteq Said(p, toLink[k], toBroker[k], active[k])
    BY <1>1, SaidTaken
  <2> QED
    BY <2>1 DEF SaidOf
<1>4. Grown(toBroker'[k], toBroker'[k], {})
  BY <1>2, GrownByNothing
<1> QED
  BY <1>3, <1>4, SaidGrows

\* The broker takes an invoke of an SDK.
LEMMA RequestedInvoked ==
  ASSUME EndInv, NEW l \in SdkLinks, Request(l, "invoke"), NEW r \in Rids,
         r = Head(toBroker[l]).rid
  PROVE  Requested(r, toBroker'[l], toLink[l], client[l][r], TRUE)
<1> SUFFICES ASSUME NEW tb, tb = toBroker[l], NEW tb2, tb2 = toBroker'[l],
                    NEW tl, tl = toLink[l], NEW c, c = client[l][r],
                    NEW has \in BOOLEAN, has <=> reqTab[l][r] # NoStream
             PROVE  Requested(r, tb2, tl, c, TRUE)
  OBVIOUS
<1>1. RestOK /\ l \in Links /\ ReqAt(l, r) /\ has \in BOOLEAN
  BY EndsAt
<1>2. Taken(tb, tb2) /\ About(tb[1], "invoke", r)
  BY <1>1, RequestTakes DEF About
<1>3. Requested(r, tb, tl, c, has)
  BY <1>1 DEF ReqAt
<1> QED
  BY ONLY <1>1, <1>2, <1>3, RequestedStarts

\* The broker has no stream of the rid, and the invocation is the one that the
\* requester has under the rid.
LEMMA InvokedIsNew ==
  ASSUME EndInv, NEW l \in SdkLinks, Request(l, "invoke"), NEW r \in Rids,
         r = Head(toBroker[l]).rid
  PROVE  Head(toBroker[l]).inv = client[l][r].inv /\ reqTab[l][r] = NoStream
<1> SUFFICES ASSUME NEW tb, tb = toBroker[l], NEW tb2, tb2 = toBroker'[l],
                    NEW tl, tl = toLink[l], NEW c, c = client[l][r],
                    NEW has \in BOOLEAN, has <=> reqTab[l][r] # NoStream
             PROVE  Head(tb).inv = c.inv /\ has = FALSE
  OBVIOUS
<1>1. RestOK /\ l \in Links /\ ReqAt(l, r) /\ has \in BOOLEAN
  BY EndsAt
<1>2. Taken(tb, tb2) /\ About(tb[1], "invoke", r)
  BY <1>1, RequestTakes DEF About
<1>3. Requested(r, tb, tl, c, has)
  BY <1>1 DEF ReqAt
<1>4. Requested(r, tb2, tl, c, TRUE) /\ tb[1].inv = c.inv /\ has = FALSE
  BY ONLY <1>1, <1>2, <1>3, RequestedStarts
<1> QED
  BY <1>1, <1>4, RequestTakes

\* The rows of the tables
LEMMA FreedRows ==
  ASSUME IInv, NEW s \in streams, FreeStream(s)
  PROVE  /\ \A k \in Links, r \in Rids :
              reqTab'[k][r] = IF k = s.req /\ r = s.rrid THEN NoStream ELSE reqTab[k][r]
         /\ \A k \in Links, p \in PRids :
              respTab'[k][p] = IF k = s.resp /\ p = s.prid THEN NoStream ELSE respTab[k][p]
<1>1. s.req \in Links /\ s.rrid \in Rids /\ s.resp \in Links /\ s.prid \in PRids
      /\ reqTab \in ReqTables /\ respTab \in RespTables
  BY DEF IInv, TablesOf, Stream
<1> QED
  BY <1>1 DEF FreeStream, DropReq, DropResp, ReqTables, RespTables

\* The rows of a stream that is added
LEMMA AddedRows ==
  ASSUME NEW rq \in ReqTables, NEW rs \in RespTables, NEW s \in Stream
  PROVE  /\ \A k \in Links, r \in Rids :
              SetReq(rq, s)[k][r] = IF k = s.req /\ r = s.rrid THEN s ELSE rq[k][r]
         /\ \A k \in Links, p \in PRids :
              SetResp(rs, s)[k][p] = IF k = s.resp /\ p = s.prid THEN s ELSE rs[k][p]
BY DEF SetReq, SetResp, ReqTables, RespTables, Stream

\* A stream is found under its two rids, and only it.
LEMMA StreamRows ==
  ASSUME IInv, NEW s \in streams
  PROVE  /\ s.req \in Links /\ s.rrid \in Rids /\ s.resp \in Links /\ s.prid \in PRids
         /\ reqTab[s.req][s.rrid] = s /\ respTab[s.resp][s.prid] = s /\ s # NoStream
         /\ s.req \in up /\ s.resp \in up /\ s.prid <= nodeRid[s.resp]
BY NoStreamIsNone DEF IInv, TablesOf, Placed, Stream

\* broker_msg_handle_invoke
LEMMA ForwardInvokeEnds ==
  ASSUME EndInv, NEW l \in Links, ForwardInvoke(l)
  PROVE  RequestedInv' /\ ServingInv' /\ SaidInv'
<1> DEFINE m   == Head(toBroker[l])
           d   == m.to
           rid == nodeRid[m.to] + 1
           s   == [req |-> l, rrid |-> m.rid, resp |-> m.to, prid |-> rid]
           msg == Invoke(rid, m.inv)
           K(k) == IF k = d THEN {msg} ELSE {}
<1>1. RestOK /\ TablesOf(streams, reqTab, respTab) /\ SdkLinks \subseteq Links /\ IInv
  BY EndsAt DEF EndInv
<1>2. /\ Request(l, "invoke") /\ m.to \in up /\ rid <= MaxRid /\ reqTab[l][m.rid] = NoStream
      /\ nodeRid' = [nodeRid EXCEPT ![m.to] = rid]
      /\ streams' = streams \cup {s}
      /\ reqTab' = SetReq(reqTab, s) /\ respTab' = SetResp(respTab, s)
      /\ toLink' = Sent(m.to, msg)
      /\ UNCHANGED <<up, client, active, ended, made>>
  BY DEF ForwardInvoke
<1>3. m.rid \in Rids /\ m.to \in Links /\ m.inv \in Invs
  BY <1>1, <1>2, RequestType, InvokeFields
<1>4. rid \in PRids /\ rid > nodeRid[m.to] /\ nodeRid' \in [Links -> 0..MaxRid]
      /\ respTab[m.to][rid] = NoStream
  BY <1>1, <1>2, <1>3, NextRid
<1>5. s \in Stream /\ s.req = l /\ s.rrid = m.rid /\ s.resp = d /\ s.prid = rid /\ s # NoStream
  BY <1>3, <1>4, NoStreamIsNone DEF Stream
<1>6. msg \in FromBroker /\ msg.kind = "invoke" /\ msg.rid = rid /\ msg.inv = m.inv
  BY <1>3, <1>4, MessageTypes DEF Invoke
<1>7. /\ toBroker[l][1] = m /\ m.kind = "invoke" /\ Taken(toBroker[l], toBroker'[l])
      /\ \A k \in Links : k # l => toBroker'[k] = toBroker[k]
  BY <1>1, <1>2, RequestTakes
<1> HIDE DEF s, m, msg
<1>8. /\ \A k \in Links, r \in Rids : reqTab'[k][r] = IF k = l /\ r = m.rid THEN s ELSE reqTab[k][r]
      /\ \A k \in Links, p \in PRids : respTab'[k][p] = IF k = d /\ p = rid THEN s ELSE respTab[k][p]
  <2>1. reqTab \in ReqTables /\ respTab \in RespTables
    BY <1>1 DEF TablesOf
  <2> QED
    BY <1>2, <1>5, <2>1, AddedRows
<1>9. /\ \A k \in Links : Grown(toLink[k], toLink'[k], K(k))
      /\ Len(toLink'[d]) = Len(toLink[d]) + 1 /\ toLink'[d][Len(toLink[d]) + 1] = msg
  BY <1>1, <1>2, <1>3, <1>6, SentGrows
<1>10. \A k \in Links : \A x \in K(k) : k = d /\ x = msg
  OBVIOUS
<1> HIDE DEF K, rid
<1>11. ASSUME NEW k \in SdkLinks, NEW r \in Rids PROVE ReqAt(k, r)'
  <2>1. k \in Links /\ ReqAt(k, r) /\ client'[k][r] = client[k][r]
    BY <1>1, <1>2, EndsAt
  <2>2. \A x \in K(k) : ~About(x, "resp", r)
    BY <1>6, <1>10, <2>1 DEF About
  <2>3. CASE k = l /\ r = m.rid
    <3>1. l \in SdkLinks /\ r = Head(toBroker[l]).rid /\ Len(toBroker'[l]) \in Nat
      BY <1>7, <2>1, <2>3 DEF m, Taken
    <3>2. Requested(r, toBroker'[l], toLink[l], client[l][r], TRUE)
      BY <1>2, <3>1, RequestedInvoked
    <3>3. Grown(toLink[l], toLink'[l], K(l)) /\ \A x \in K(l) : ~About(x, "resp", r)
      BY <1>9, <2>2, <2>3
    <3>4. Requested(r, toBroker'[l], toLink'[l], client[l][r], TRUE)
      BY <3>1, <3>2, <3>3, RequestedSent
    <3> QED
      BY <1>5, <1>8, <2>1, <2>3, <3>4 DEF ReqAt
  <2>4. CASE ~(k = l /\ r = m.rid)
    <3>1. Requested(r, toBroker'[k], toLink'[k], client[k][r], reqTab[k][r] # NoStream)
      BY <1>1, <1>2, <1>9, <2>1, <2>2, <2>4, RequestedAside DEF ReqAt, m
    <3> QED
      BY <1>8, <2>1, <2>4, <3>1 DEF ReqAt
  <2> QED
    BY <2>3, <2>4
<1>12. ASSUME NEW k \in Links, NEW p \in PRids PROVE ServAt(k, p)'
  <2>1. ServAt(k, p) /\ active' = active /\ ended' = ended
    BY <1>1, <1>2, EndsAt
  <2>2. CASE k = d /\ p = rid
    <3>1. SaidOf(d, p) = {}
      BY <1>3, <1>4, <2>2, EndsAt DEF d
    <3>2. Serving(p, toLink'[d], toBroker[d], active[d], ended[d], TRUE)
      BY <1>3, <1>9, <3>1, ServingStarts DEF SaidOf
    <3>3. Taken(toBroker[d], toBroker'[d]) \/ toBroker'[d] = toBroker[d]
      BY <1>3, <1>7
    <3>4. Serving(p, toLink'[d], toBroker'[d], active[d], ended[d], TRUE)
      BY <3>2, <3>3, ServingTaken
    <3> QED
      BY <1>5, <1>8, <2>1, <2>2, <3>4 DEF ServAt
  <2>3. CASE ~(k = d /\ p = rid)
    <3>1. \A x \in K(k) : ~About(x, "invoke", p)
      BY <1>6, <1>10, <2>3 DEF About
    <3>2. Serving(p, toLink'[k], toBroker'[k], active[k], ended[k], respTab[k][p] # NoStream)
      BY <1>1, <1>2, <1>9, <2>1, <3>1, ServingAside DEF ServAt
    <3> QED
      BY <1>8, <2>1, <2>3, <3>2 DEF ServAt
  <2> QED
    BY <2>2, <2>3
<1>13. ASSUME NEW k \in Links, NEW p \in PRids, NEW S, SaidOf(k, p) \subseteq S,
              k = d /\ p = rid => m.inv \in S
       PROVE  SaidOf(k, p)' \subseteq S
  <2>1. \A x \in K(k) : About(x, "invoke", p) => x.inv \in S
    BY <1>6, <1>10, <1>13 DEF About
  <2>2. Said(p, toLink'[k], toBroker'[k], active[k]) \subseteq S
    BY <1>1, <1>2, <1>9, <1>13, <2>1, SaidAside
  <2> QED
    BY <1>2, <2>2 DEF SaidOf
<1>14. ASSUME NEW k \in Links, NEW p \in PRids, p > nodeRid'[k] PROVE SaidOf(k, p)' = {}
  <2>1. nodeRid'[k] = IF k = d THEN rid ELSE nodeRid[k]
    BY <1>1, <1>2, <1>3 DEF RestOK
  <2>2. nodeRid[k] \in Int /\ rid \in Int /\ p \in Int
    BY <1>1, <1>4, InvokeConstants DEF RestOK, PRids
  <2>3. p > nodeRid[k] /\ ~(k = d /\ p = rid)
    BY <1>4, <1>14, <2>1, <2>2
  <2> QED
    BY <1>13, <2>3, EndsAt
<1>15. ASSUME NEW t \in streams', t.req \in SdkLinks
       PROVE  SaidOf(t.resp, t.prid)' \subseteq {client'[t.req][t.rrid].inv}
  <2>1. CASE t \in streams
    <3>1. t.resp \in Links /\ t.prid \in PRids /\ respTab[t.resp][t.prid] = t /\ t # NoStream
      BY <1>1, <2>1, StreamRows
    <3>2. ~(t.resp = d /\ t.prid = rid)
      BY <1>4, <3>1
    <3>3. SaidOf(t.resp, t.prid) \subseteq {client[t.req][t.rrid].inv}
      BY <1>15, <2>1, EndsAt
    <3>4. SaidOf(t.resp, t.prid)' \subseteq {client[t.req][t.rrid].inv}
      BY <1>13, <3>1, <3>2, <3>3
    <3> QED
      BY <1>2, <3>4
  <2>2. CASE t = s
    <3>1. l \in SdkLinks /\ m.rid \in Rids
      BY <1>3, <1>5, <1>15, <2>2
    <3>3. m.inv = client[l][m.rid].inv
      <4>1. PICK r \in Rids : r = m.rid
        BY <3>1
      <4>2. Head(toBroker[l]).inv = client[l][r].inv
        BY <1>2, <3>1, <4>1, InvokedIsNew DEF m
      <4> QED
        BY <4>1, <4>2 DEF m
    <3>4. SaidOf(d, rid) \subseteq {client[l][m.rid].inv} /\ m.inv \in {client[l][m.rid].inv}
      BY <1>3, <1>4, <3>3, EndsAt
    <3>5. client' = client /\ t.req = l /\ t.rrid = m.rid /\ t.resp = d /\ t.prid = rid
      BY <1>2, <1>5, <2>2
    <3>7. t.resp \in Links /\ t.prid \in PRids
          /\ SaidOf(t.resp, t.prid) \subseteq {client[l][m.rid].inv}
      BY <1>3, <1>4, <3>4, <3>5
    <3>8. t.resp = d /\ t.prid = rid => m.inv \in {client[l][m.rid].inv}
      BY <3>4
    <3>9. SaidOf(t.resp, t.prid)' \subseteq {client[l][m.rid].inv}
      BY <1>13, <3>7, <3>8
    <3> QED
      BY <3>5, <3>9
  <2> QED
    BY <1>2, <2>1, <2>2
<1> QED
  BY <1>11, <1>12, <1>14, <1>15 DEF RequestedInv, ServingInv, SaidInv, ReqAt, ServAt

\* A channel that grows twice grew by both.
LEMMA GrownTwice ==
  ASSUME NEW q, NEW q2, NEW q3, NEW K, NEW J, Grown(q, q2, K), Grown(q2, q3, J)
  PROVE  Grown(q, q3, K \cup J)
<1>1. Len(q) \in Nat /\ Len(q2) \in Nat /\ Len(q3) \in Nat /\ Len(q) <= Len(q2) /\ Len(q2) <= Len(q3)
  BY DEF Grown
<1>2. \A i \in 1..Len(q) : q3[i] = q[i]
  <2> SUFFICES ASSUME NEW i \in 1..Len(q) PROVE q3[i] = q[i]
    OBVIOUS
  <2>1. i \in 1..Len(q2)
    BY <1>1
  <2> QED
    BY <2>1 DEF Grown
<1>3. \A i \in Len(q) + 1..Len(q3) : q3[i] \in K \cup J
  <2> SUFFICES ASSUME NEW i \in Len(q) + 1..Len(q3) PROVE q3[i] \in K \cup J
    OBVIOUS
  <2>1. CASE i \in Len(q) + 1..Len(q2)
    <3>1. i \in 1..Len(q2)
      BY <1>1, <2>1
    <3> QED
      BY <2>1, <3>1 DEF Grown
  <2>2. CASE i \in Len(q2) + 1..Len(q3)
    BY <2>2 DEF Grown
  <2> QED
    BY <1>1, <2>1, <2>2
<1> QED
  BY <1>1, <1>2, <1>3 DEF Grown

\* Nothing more is said of a rid by what is no invoke of it.
LEMMA SaidNoMore ==
  ASSUME NEW p, NEW tl, NEW tb, NEW tl2, NEW act, NEW K, Len(tb) \in Nat,
         Grown(tl, tl2, K), \A x \in K : ~About(x, "invoke", p)
  PROVE  Said(p, tl2, tb, act) \subseteq Said(p, tl, tb, act)
<1>1. \A i \in 1..Len(tl2) : About(tl2[i], "invoke", p) => i \in 1..Len(tl) /\ tl2[i] = tl[i]
  BY DEF Grown
<1> QED
  BY <1>1 DEF Said

\* broker_msg_handle_invoke, no invocation: the requester is told that it ended.
LEMMA RefuseInvokeEnds ==
  ASSUME EndInv, NEW l \in Links, RefuseInvoke(l)
  PROVE  RequestedInv' /\ ServingInv' /\ SaidInv'
<1> DEFINE m   == Head(toBroker[l])
           msg == Response(m.rid, TRUE, 0)
           K(k) == IF k = l THEN {msg} ELSE {}
<1>1. RestOK /\ TablesOf(streams, reqTab, respTab) /\ SdkLinks \subseteq Links /\ IInv
  BY EndsAt DEF EndInv
<1>2. /\ Request(l, "invoke") /\ toLink' = Sent(l, msg) /\ l \in up
      /\ UNCHANGED <<up, streams, reqTab, respTab, client, active, ended, made>>
  BY DEF RefuseInvoke, Request
<1>3. m.rid \in Rids /\ m.to \in Links
  BY <1>1, <1>2, RequestType, InvokeFields
<1>4. msg \in FromBroker /\ msg.kind = "resp" /\ msg.rid = m.rid /\ msg.closed /\ msg.inv = 0
  BY <1>3, MessageTypes DEF Response
<1>5. \A k \in Links : nodeRid[k] \in Int /\ nodeRid'[k] \in Int /\ nodeRid[k] <= nodeRid'[k]
  <2>1. nodeRid \in [Links -> 0..MaxRid]
    BY <1>1 DEF RestOK
  <2>2. \A k \in Links : nodeRid[k] \in Int
    BY <2>1, InvokeConstants
  <2>3. nodeRid' = nodeRid \/ nodeRid' = [nodeRid EXCEPT ![m.to] = @ + 1]
    BY DEF RefuseInvoke
  <2> HIDE DEF m
  <2>4. \A k \in Links : nodeRid'[k] = nodeRid[k] \/ nodeRid'[k] = nodeRid[k] + 1
    BY <1>3, <2>1, <2>3
  <2> QED
    BY <2>2, <2>4
<1> HIDE DEF m, msg
<1>6. /\ \A k \in Links : Grown(toLink[k], toLink'[k], K(k))
      /\ Len(toLink'[l]) = Len(toLink[l]) + 1 /\ toLink'[l][Len(toLink[l]) + 1] = msg
  BY <1>1, <1>2, <1>4, SentGrows
<1>7. \A k \in Links : \A x \in K(k) : k = l /\ x = msg
  OBVIOUS
<1> HIDE DEF K
<1>8. ASSUME NEW k \in SdkLinks, NEW r \in Rids PROVE ReqAt(k, r)'
  <2>1. k \in Links /\ ReqAt(k, r) /\ client'[k][r] = client[k][r] /\ reqTab'[k][r] = reqTab[k][r]
    BY <1>1, <1>2, EndsAt
  <2>2. CASE k = l /\ r = m.rid
    <3>1. k \in SdkLinks /\ Request(k, "invoke") /\ r = Head(toBroker[k]).rid /\ Len(toLink[k]) \in Nat
      BY <1>1, <1>2, <2>1, <2>2, ChannelLengths DEF m
    <3>3. reqTab[k][r] = NoStream
      BY <3>1, InvokedIsNew
    <3>8. Requested(r, toBroker'[k], toLink[k], client[k][r], TRUE)
      BY <3>1, RequestedInvoked
    <3> DEFINE n == Len(toLink[k]) + 1
    <3>4. /\ n \in Len(toLink[k]) + 1..Len(toLink'[k]) /\ toLink'[k][n] = msg
          /\ \A i \in Len(toLink[k]) + 1..Len(toLink'[k]) : i = n
      BY <1>6, <2>2, <3>1
    <3>5. About(msg, "resp", r) /\ msg.closed /\ msg.inv \in {0, client[k][r].inv}
      BY <1>4, <2>2 DEF About
    <3>6. /\ Grown(toLink[k], toLink'[k], K(k)) /\ About(toLink'[k][n], "resp", r)
          /\ toLink'[k][n].closed /\ toLink'[k][n].inv \in {0, client[k][r].inv}
      BY <1>6, <2>1, <3>4, <3>5
    <3> HIDE DEF n
    <3>7. Requested(r, toBroker'[k], toLink'[k], client[k][r], FALSE)
      BY <3>4, <3>6, <3>8, RequestedEnds
    <3> QED
      BY <2>1, <3>3, <3>7 DEF ReqAt
  <2>3. CASE ~(k = l /\ r = m.rid)
    <3>1. \A x \in K(k) : ~About(x, "resp", r)
      BY <1>4, <1>7, <2>1, <2>3 DEF About
    <3>2. Requested(r, toBroker'[k], toLink'[k], client[k][r], reqTab[k][r] # NoStream)
      BY <1>1, <1>2, <1>6, <2>1, <2>3, <3>1, RequestedAside DEF ReqAt, m
    <3> QED
      BY <2>1, <3>2 DEF ReqAt
  <2> QED
    BY <2>2, <2>3
<1>9. \A k \in Links : \A x \in K(k) : x.kind # "invoke"
  BY <1>4, <1>7
<1>10. ASSUME NEW k \in Links, NEW p \in PRids PROVE ServAt(k, p)'
  <2>1. ServAt(k, p) /\ \A x \in K(k) : ~About(x, "invoke", p)
    BY <1>9, EndsAt DEF About
  <2>2. Serving(p, toLink'[k], toBroker'[k], active[k], ended[k], respTab[k][p] # NoStream)
    BY <1>1, <1>2, <1>6, <2>1, ServingAside DEF ServAt
  <2> QED
    BY <1>2, <2>2 DEF ServAt
<1>11. ASSUME NEW k \in Links, NEW p \in PRids, NEW S, SaidOf(k, p) \subseteq S
       PROVE  SaidOf(k, p)' \subseteq S
  <2>1. \A x \in K(k) : About(x, "invoke", p) => x.inv \in S
    BY <1>9 DEF About
  <2>2. Said(p, toLink'[k], toBroker'[k], active[k]) \subseteq S
    BY <1>1, <1>2, <1>6, <1>11, <2>1, SaidAside
  <2> QED
    BY <1>2, <2>2 DEF SaidOf
<1>12. ASSUME NEW k \in Links, NEW p \in PRids, p > nodeRid'[k] PROVE SaidOf(k, p)' = {}
  <2>1. p \in Int
    BY InvokeConstants DEF PRids
  <2>2. p > nodeRid[k]
    BY <1>5, <1>12, <2>1
  <2> QED
    BY <1>11, <2>2, EndsAt
<1>13. ASSUME NEW t \in streams', t.req \in SdkLinks
       PROVE  SaidOf(t.resp, t.prid)' \subseteq {client'[t.req][t.rrid].inv}
  <2>1. t \in streams /\ t.resp \in Links /\ t.prid \in PRids /\ client' = client
    BY <1>1, <1>2, <1>13, StreamRows
  <2>2. SaidOf(t.resp, t.prid) \subseteq {client[t.req][t.rrid].inv}
    BY <1>13, <2>1, EndsAt
  <2>3. SaidOf(t.resp, t.prid)' \subseteq {client[t.req][t.rrid].inv}
    BY <1>11, <2>1, <2>2
  <2> QED
    BY <2>1, <2>3
<1> QED
  BY <1>8, <1>10, <1>12, <1>13 DEF RequestedInv, ServingInv, SaidInv, ReqAt, ServAt

\* broker_msg_handle_close: the stream goes, and the responder is told.
LEMMA CloseStreamEnds ==
  ASSUME EndInv, NEW l \in Links, CloseStream(l)
  PROVE  RequestedInv' /\ ServingInv' /\ SaidInv'
<1> DEFINE m == Head(toBroker[l])
           s == reqTab[l][m.rid]
           msg == Close(s.prid)
           K(k) == IF s # NoStream /\ k = s.resp THEN {msg} ELSE {}
<1>1. RestOK /\ TablesOf(streams, reqTab, respTab) /\ SdkLinks \subseteq Links /\ IInv
  BY EndsAt DEF EndInv
<1>2. /\ Request(l, "close")
      /\ IF s = NoStream THEN UNCHANGED <<streams, reqTab, respTab, toLink>>
         ELSE FreeStream(s) /\ toLink' = Sent(s.resp, msg)
      /\ UNCHANGED <<up, nodeRid, client, active, ended, made>>
  BY DEF CloseStream
<1>3. m.rid \in Rids /\ m \in FromLink /\ m.kind = "close"
  BY <1>1, <1>2, RequestType, CloseFields
<1> HIDE DEF m
<1>4. s # NoStream => s \in streams /\ s.req = l /\ s.rrid = m.rid
  BY <1>1, <1>3 DEF TablesOf
<1> HIDE DEF s
<1>5. s # NoStream => s.resp \in Links /\ s.prid \in PRids /\ s.resp \in up
  BY <1>1, <1>4, StreamRows
<1>6. s # NoStream => msg \in FromBroker
  BY <1>5, MessageTypes
<1>7. msg.kind = "close" /\ msg.rid = s.prid
  BY DEF Close
<1> HIDE DEF msg
<1>8. /\ \A k \in Links, r \in Rids :
           reqTab'[k][r] = IF k = l /\ r = m.rid THEN NoStream ELSE reqTab[k][r]
      /\ \A k \in Links, p \in PRids :
           respTab'[k][p] = IF s # NoStream /\ k = s.resp /\ p = s.prid THEN NoStream ELSE respTab[k][p]
  <2>1. CASE s = NoStream
    BY <1>2, <2>1 DEF s
  <2>2. CASE s # NoStream
    BY <1>1, <1>2, <1>4, <2>2, FreedRows
  <2> QED
    BY <2>1, <2>2
<1>9. \A k \in Links : Grown(toLink[k], toLink'[k], K(k))
  <2>1. CASE s = NoStream
    BY <1>1, <1>2, <2>1, GrownByNothing, ChannelLengths
  <2>2. CASE s # NoStream
    BY <1>1, <1>2, <1>5, <1>6, <2>2, SentGrows
  <2> QED
    BY <2>1, <2>2
<1>10. s # NoStream => Len(toLink'[s.resp]) = Len(toLink[s.resp]) + 1
                       /\ toLink'[s.resp][Len(toLink[s.resp]) + 1] = msg
  BY <1>1, <1>2, <1>5, <1>6, SentGrows
<1>11. \A k \in Links : \A x \in K(k) : x.kind = "close"
  BY <1>7
<1>12. streams' \subseteq streams
  BY <1>2 DEF FreeStream
<1> HIDE DEF K
<1>13. ASSUME NEW k \in SdkLinks, NEW r \in Rids PROVE ReqAt(k, r)'
  <2>1. k \in Links /\ ReqAt(k, r) /\ client'[k][r] = client[k][r]
    BY <1>1, <1>2, EndsAt
  <2>2. Grown(toLink[k], toLink'[k], K(k)) /\ \A x \in K(k) : ~About(x, "resp", r)
    BY <1>9, <1>11, <2>1 DEF About
  <2>3. CASE k = l /\ r = m.rid
    <3>1. Taken(toBroker[k], toBroker'[k]) /\ About(toBroker[k][1], "close", r)
      BY <1>1, <1>2, <1>3, <2>3, RequestTakes DEF About, m
    <3>2. Len(toBroker[k]) \in Nat
      BY <3>1 DEF Taken
    <3>3. Requested(r, toBroker[k], toLink'[k], client[k][r], reqTab[k][r] # NoStream)
      BY <2>1, <2>2, <3>2, RequestedSent DEF ReqAt
    <3>4. Requested(r, toBroker'[k], toLink'[k], client[k][r], FALSE)
      BY <3>1, <3>3, RequestedCloses
    <3> QED
      BY <1>8, <2>1, <2>3, <3>4 DEF ReqAt
  <2>4. CASE ~(k = l /\ r = m.rid)
    <3>1. Requested(r, toBroker'[k], toLink'[k], client[k][r], reqTab[k][r] # NoStream)
      BY <1>1, <1>2, <2>1, <2>2, <2>4, RequestedAside DEF ReqAt, m
    <3> QED
      BY <1>8, <2>1, <2>4, <3>1 DEF ReqAt
  <2> QED
    BY <2>3, <2>4
<1>14. ASSUME NEW k \in Links, NEW p \in PRids PROVE ServAt(k, p)'
  <2>1. ServAt(k, p) /\ \A x \in K(k) : ~About(x, "invoke", p)
    BY <1>11, EndsAt DEF About
  <2>2. CASE s # NoStream /\ k = s.resp /\ p = s.prid
    <3>1. respTab[k][p] # NoStream
      BY <1>1, <1>4, <2>2, StreamRows
    <3>2. Serving(p, toLink[k], toBroker[k], active[k], ended[k], TRUE)
      BY <2>1, <3>1 DEF ServAt
    <3> DEFINE n == Len(toLink[k]) + 1
    <3>3. n \in Len(toLink[k]) + 1..Len(toLink'[k]) /\ toLink'[k][n] = msg
      BY <1>1, <1>10, <2>2, ChannelLengths
    <3>4. About(toLink'[k][n], "close", p) /\ Grown(toLink[k], toLink'[k], K(k))
      BY <1>7, <1>9, <2>2, <3>3 DEF About
    <3> HIDE DEF n
    <3>5. Serving(p, toLink'[k], toBroker[k], active[k], ended[k], FALSE)
      BY <2>1, <3>2, <3>3, <3>4, ServingCloses
    <3>6. Taken(toBroker[k], toBroker'[k]) \/ toBroker'[k] = toBroker[k]
      BY <1>1, <1>2, RequestTakes
    <3>7. Serving(p, toLink'[k], toBroker'[k], active[k], ended[k], FALSE)
      BY <3>5, <3>6, ServingTaken
    <3> QED
      BY <1>2, <1>8, <2>2, <3>7 DEF ServAt
  <2>3. CASE ~(s # NoStream /\ k = s.resp /\ p = s.prid)
    <3>1. Serving(p, toLink'[k], toBroker'[k], active[k], ended[k], respTab[k][p] # NoStream)
      BY <1>1, <1>2, <1>9, <2>1, ServingAside DEF ServAt
    <3> QED
      BY <1>2, <1>8, <2>3, <3>1 DEF ServAt
  <2> QED
    BY <2>2, <2>3
<1>15. ASSUME NEW k \in Links, NEW p \in PRids, NEW S, SaidOf(k, p) \subseteq S
       PROVE  SaidOf(k, p)' \subseteq S
  <2>1. \A x \in K(k) : About(x, "invoke", p) => x.inv \in S
    BY <1>11 DEF About
  <2>2. Said(p, toLink'[k], toBroker'[k], active[k]) \subseteq S
    BY <1>1, <1>2, <1>9, <1>15, <2>1, SaidAside
  <2> QED
    BY <1>2, <2>2 DEF SaidOf
<1>16. ASSUME NEW k \in Links, NEW p \in PRids, p > nodeRid'[k] PROVE SaidOf(k, p)' = {}
  <2>1. p > nodeRid[k]
    BY <1>2, <1>16
  <2> QED
    BY <1>15, <2>1, EndsAt
<1>17. ASSUME NEW t \in streams', t.req \in SdkLinks
       PROVE  SaidOf(t.resp, t.prid)' \subseteq {client'[t.req][t.rrid].inv}
  <2>1. t \in streams /\ t.resp \in Links /\ t.prid \in PRids /\ client' = client
    BY <1>1, <1>2, <1>12, <1>17, StreamRows
  <2>2. SaidOf(t.resp, t.prid) \subseteq {client[t.req][t.rrid].inv}
    BY <1>17, <2>1, EndsAt
  <2>3. SaidOf(t.resp, t.prid)' \subseteq {client[t.req][t.rrid].inv}
    BY <1>15, <2>1, <2>2
  <2> QED
    BY <2>1, <2>3
<1> QED
  BY <1>13, <1>14, <1>16, <1>17 DEF RequestedInv, ServingInv, SaidInv, ReqAt, ServAt

\* broker_handle_resp: the requester has an open stream, and the last response ends it.
LEMMA ForwardResponseEnds ==
  ASSUME EndInv, NEW l \in Links, ForwardResponse(l)
  PROVE  RequestedInv' /\ ServingInv' /\ SaidInv'
<1> DEFINE m == Head(toBroker[l])
           s == respTab[l][m.rid]
           msg == Response(s.rrid, m.closed, m.inv)
           K(k) == IF s # NoStream /\ k = s.req THEN {msg} ELSE {}
           freed == s # NoStream /\ m.closed
<1>1. RestOK /\ TablesOf(streams, reqTab, respTab) /\ SdkLinks \subseteq Links /\ IInv
  BY EndsAt DEF EndInv
<1>2. /\ Request(l, "resp")
      /\ toLink' = IF s = NoStream THEN toLink ELSE Sent(s.req, msg)
      /\ IF freed THEN FreeStream(s) ELSE UNCHANGED <<streams, reqTab, respTab>>
      /\ UNCHANGED <<up, nodeRid, client, active, ended, made>>
  BY DEF ForwardResponse
<1>3. /\ m.rid \in PRids /\ m.closed \in BOOLEAN /\ m.inv \in Invs /\ m.kind = "resp"
      /\ Taken(toBroker[l], toBroker'[l]) /\ toBroker[l][1] = m /\ Len(toBroker[l]) \in Nat \ {0}
      /\ \A k \in Links : Taken(toBroker[k], toBroker'[k]) \/ toBroker'[k] = toBroker[k]
  BY <1>1, <1>2, RequestType, RequestTakes, ResponseFields DEF Taken
<1> HIDE DEF m
<1>4. s # NoStream => s \in streams /\ s.resp = l /\ s.prid = m.rid
  BY <1>1, <1>3 DEF TablesOf
<1> HIDE DEF s
<1>5. s # NoStream => s.req \in Links /\ s.rrid \in Rids /\ s.req \in up /\ reqTab[s.req][s.rrid] = s
  BY <1>1, <1>4, StreamRows
<1>6. s # NoStream => msg \in FromBroker
  BY <1>3, <1>5, MessageTypes
<1>7. msg.kind = "resp" /\ msg.rid = s.rrid /\ msg.closed = m.closed /\ msg.inv = m.inv
  BY DEF Response
<1> HIDE DEF msg
<1>8. /\ \A k \in Links, r \in Rids :
           reqTab'[k][r] = IF freed /\ k = s.req /\ r = s.rrid THEN NoStream ELSE reqTab[k][r]
      /\ \A k \in Links, p \in PRids :
           respTab'[k][p] = IF freed /\ k = l /\ p = m.rid THEN NoStream ELSE respTab[k][p]
  <2>1. CASE ~freed
    BY <1>2, <2>1
  <2>2. CASE freed
    BY <1>1, <1>2, <1>4, <2>2, FreedRows
  <2> QED
    BY <2>1, <2>2
<1>9. \A k \in Links : Grown(toLink[k], toLink'[k], K(k))
  <2>1. CASE s = NoStream
    BY <1>1, <1>2, <2>1, GrownByNothing, ChannelLengths
  <2>2. CASE s # NoStream
    BY <1>1, <1>2, <1>5, <1>6, <2>2, SentGrows
  <2> QED
    BY <2>1, <2>2
<1>10. s # NoStream => Len(toLink'[s.req]) = Len(toLink[s.req]) + 1
                       /\ toLink'[s.req][Len(toLink[s.req]) + 1] = msg
  BY <1>1, <1>2, <1>5, <1>6, SentGrows
<1>11. \A k \in Links : \A x \in K(k) : s # NoStream /\ k = s.req /\ x = msg
  OBVIOUS
<1>12. streams' \subseteq streams
  BY <1>2 DEF FreeStream
<1> HIDE DEF K
<1>13. ASSUME NEW k \in SdkLinks, NEW r \in Rids PROVE ReqAt(k, r)'
  <2>1. k \in Links /\ ReqAt(k, r) /\ client'[k][r] = client[k][r]
    BY <1>1, <1>2, EndsAt
  <2>2. CASE s # NoStream /\ k = s.req /\ r = s.rrid
    <3>1. m.inv \in {0, client[k][r].inv}
      <4>1. SaidOf(l, m.rid) \subseteq {client[k][r].inv}
        BY <1>4, <2>2, EndsAt
      <4>2. m.inv \in SaidOf(l, m.rid)
        <5>1. About(toBroker[l][1], "resp", m.rid) /\ 1 \in 1..Len(toBroker[l])
          BY <1>3 DEF About
        <5>2. toBroker[l][1].inv \in SaidOf(l, m.rid)
          BY <5>1 DEF SaidOf, Said
        <5> QED
          BY <1>3, <5>2
      <4> QED
        BY <4>1, <4>2
    <3>2. reqTab[k][r] # NoStream
      BY <1>5, <2>2
    <3>3. Requested(r, toBroker'[k], toLink[k], client[k][r], reqTab[k][r] # NoStream)
      BY <1>1, <1>2, <2>1, RequestedTook DEF ReqAt
    <3>5. Requested(r, toBroker'[k], toLink[k], client[k][r], TRUE)
      BY <3>2, <3>3
    <3>6. Grown(toLink[k], toLink'[k], K(k)) /\ \A x \in K(k) : x = msg
      BY <1>9, <1>11, <2>1
    <3>7. CASE m.closed
      <4> DEFINE n == Len(toLink[k]) + 1
      <4>1. /\ n \in Len(toLink[k]) + 1..Len(toLink'[k]) /\ toLink'[k][n] = msg
            /\ \A i \in Len(toLink[k]) + 1..Len(toLink'[k]) : i = n
        BY <1>1, <1>10, <2>1, <2>2, ChannelLengths
      <4>2. About(toLink'[k][n], "resp", r) /\ toLink'[k][n].closed
            /\ toLink'[k][n].inv \in {0, client[k][r].inv}
        BY <1>7, <2>2, <3>1, <3>7, <4>1 DEF About
      <4> HIDE DEF n
      <4>3. Requested(r, toBroker'[k], toLink'[k], client[k][r], FALSE)
        BY <3>5, <3>6, <4>1, <4>2, RequestedEnds
      <4> QED
        BY <1>8, <2>1, <2>2, <3>7, <4>3 DEF ReqAt
    <3>8. CASE ~m.closed
      <4>1. \A x \in K(k) : ~x.closed /\ x.inv \in {0, client[k][r].inv}
        BY <1>7, <3>1, <3>6, <3>8
      <4>2. Requested(r, toBroker'[k], toLink'[k], client[k][r], TRUE)
        BY <3>5, <3>6, <4>1, RequestedAnswered
      <4> QED
        BY <1>8, <2>1, <3>2, <3>8, <4>2 DEF ReqAt
    <3> QED
      BY <3>7, <3>8
  <2>3. CASE ~(s # NoStream /\ k = s.req /\ r = s.rrid)
    <3>1. Grown(toLink[k], toLink'[k], K(k)) /\ \A x \in K(k) : ~About(x, "resp", r)
      BY <1>7, <1>9, <1>11, <2>1, <2>3 DEF About
    <3>2. Requested(r, toBroker'[k], toLink[k], client[k][r], reqTab[k][r] # NoStream)
      BY <1>1, <1>2, <2>1, RequestedTook DEF ReqAt
    <3>3. Len(toBroker'[k]) \in Nat
      BY <1>1, <1>3, <2>1, ChannelLengths DEF Taken
    <3>4. Requested(r, toBroker'[k], toLink'[k], client[k][r], reqTab[k][r] # NoStream)
      BY <3>1, <3>2, <3>3, RequestedSent
    <3> QED
      BY <1>8, <2>1, <2>3, <3>4 DEF ReqAt
  <2> QED
    BY <2>2, <2>3
<1>14. \A k \in Links : \A x \in K(k) : x.kind # "invoke"
  BY <1>7, <1>11
<1>15. ASSUME NEW k \in Links, NEW p \in PRids PROVE ServAt(k, p)'
  <2>1. ServAt(k, p) /\ \A x \in K(k) : ~About(x, "invoke", p)
    BY <1>14, EndsAt DEF About
  <2>2. CASE freed /\ k = l /\ p = m.rid
    <3>1. About(toBroker[k][1], "resp", p) /\ toBroker[k][1].closed /\ Len(toBroker[k]) \in Nat \ {0}
      BY <1>3, <2>2 DEF About
    <3>2. Serving(p, toLink[k], toBroker[k], active[k], ended[k], FALSE)
      BY <2>1, <3>1, ServingEnds DEF ServAt
    <3>3. Serving(p, toLink'[k], toBroker'[k], active[k], ended[k], FALSE)
      BY <1>1, <1>2, <1>9, <2>1, <3>2, ServingAside
    <3> QED
      BY <1>2, <1>8, <2>2, <3>3 DEF ServAt
  <2>3. CASE ~(freed /\ k = l /\ p = m.rid)
    <3>1. Serving(p, toLink'[k], toBroker'[k], active[k], ended[k], respTab[k][p] # NoStream)
      BY <1>1, <1>2, <1>9, <2>1, ServingAside DEF ServAt
    <3> QED
      BY <1>2, <1>8, <2>3, <3>1 DEF ServAt
  <2> QED
    BY <2>2, <2>3
<1>16. ASSUME NEW k \in Links, NEW p \in PRids, NEW S, SaidOf(k, p) \subseteq S
       PROVE  SaidOf(k, p)' \subseteq S
  <2>1. \A x \in K(k) : About(x, "invoke", p) => x.inv \in S
    BY <1>14 DEF About
  <2>2. Said(p, toLink'[k], toBroker'[k], active[k]) \subseteq S
    BY <1>1, <1>2, <1>9, <1>16, <2>1, SaidAside
  <2> QED
    BY <1>2, <2>2 DEF SaidOf
<1>17. ASSUME NEW k \in Links, NEW p \in PRids, p > nodeRid'[k] PROVE SaidOf(k, p)' = {}
  <2>1. p > nodeRid[k]
    BY <1>2, <1>17
  <2> QED
    BY <1>16, <2>1, EndsAt
<1>18. ASSUME NEW t \in streams', t.req \in SdkLinks
       PROVE  SaidOf(t.resp, t.prid)' \subseteq {client'[t.req][t.rrid].inv}
  <2>1. t \in streams /\ t.resp \in Links /\ t.prid \in PRids /\ client' = client
    BY <1>1, <1>2, <1>12, <1>18, StreamRows
  <2>2. SaidOf(t.resp, t.prid) \subseteq {client[t.req][t.rrid].inv}
    BY <1>18, <2>1, EndsAt
  <2>3. SaidOf(t.resp, t.prid)' \subseteq {client[t.req][t.rrid].inv}
    BY <1>16, <2>1, <2>2
  <2> QED
    BY <2>1, <2>3
<1> QED
  BY <1>13, <1>15, <1>17, <1>18 DEF RequestedInv, ServingInv, SaidInv, ReqAt, ServAt

\* No SDK uses a rid again, so the stream that is replaced is not one of an SDK.
LEMMA ReplaceInvokeEnds ==
  ASSUME EndInv, NEW l \in Links, ReplaceInvoke(l)
  PROVE  RequestedInv' /\ ServingInv' /\ SaidInv'
<1> DEFINE m   == Head(toBroker[l])
           d   == m.to
           rid == nodeRid[m.to] + 1
           s   == [req |-> l, rrid |-> m.rid, resp |-> m.to, prid |-> rid]
           old == reqTab[l][m.rid]
           bye == Close(old.prid)
           msg == Invoke(rid, m.inv)
           closed == Sent(old.resp, bye)
           K(k) == IF k = old.resp THEN {bye} ELSE {}
           J(k) == IF k = d THEN {msg} ELSE {}
<1>1. RestOK /\ TablesOf(streams, reqTab, respTab) /\ SdkLinks \subseteq Links /\ IInv
  BY EndsAt DEF EndInv
<1>2. /\ Request(l, "invoke") /\ m.to \in up /\ rid <= MaxRid /\ old # NoStream
      /\ nodeRid' = [nodeRid EXCEPT ![m.to] = rid]
      /\ streams' = (streams \ {old}) \cup {s}
      /\ reqTab' = SetReq(reqTab, s)
      /\ respTab' = DropResp(SetResp(respTab, s), old)
      /\ toLink' = [closed EXCEPT ![m.to] = Append(@, msg)]
      /\ UNCHANGED <<up, client, active, ended, made>>
  BY DEF ReplaceInvoke
<1>3. m.rid \in Rids /\ m.to \in Links /\ m.inv \in Invs
  BY <1>1, <1>2, RequestType, InvokeFields
<1>4. l \notin SdkLinks
  <2> SUFFICES ASSUME l \in SdkLinks PROVE FALSE
    OBVIOUS
  <2>1. PICK r \in Rids : r = m.rid
    BY <1>3
  <2>2. Head(toBroker[l]).inv = client[l][r].inv /\ reqTab[l][r] = NoStream
    BY <1>2, <2>1, InvokedIsNew
  <2> QED
    BY <1>2, <2>1, <2>2
<1>5. rid \in PRids /\ rid > nodeRid[m.to] /\ nodeRid' \in [Links -> 0..MaxRid]
      /\ respTab[m.to][rid] = NoStream
  BY <1>1, <1>2, <1>3, NextRid
<1>6. s \in Stream /\ s.req = l /\ s.rrid = m.rid /\ s.resp = d /\ s.prid = rid /\ s # NoStream
  BY <1>3, <1>5, NoStreamIsNone DEF Stream
<1>7. msg \in FromBroker /\ msg.kind = "invoke" /\ msg.rid = rid
  BY <1>3, <1>5, MessageTypes DEF Invoke
<1>8. \A k \in Links : /\ k # l => toBroker'[k] = toBroker[k]
                       /\ Taken(toBroker[k], toBroker'[k]) \/ toBroker'[k] = toBroker[k]
  BY <1>1, <1>2, RequestTakes
<1>9. old \in streams /\ old.req = l /\ old.rrid = m.rid
  <2> DEFINE r == m.rid
  <2>1. r \in Rids /\ reqTab[l][r] # NoStream
    BY <1>2, <1>3
  <2> HIDE DEF r
  <2>2. reqTab[l][r] \in streams /\ reqTab[l][r].req = l /\ reqTab[l][r].rrid = r
    BY <1>1, <2>1 DEF TablesOf
  <2> QED
    BY <2>2 DEF r
<1> HIDE DEF s, m, msg, old
<1>10. old.resp \in Links /\ old.prid \in PRids /\ old.resp \in up /\ respTab[old.resp][old.prid] = old
  BY <1>1, <1>9, StreamRows
<1>11. bye \in FromBroker /\ bye.kind = "close" /\ bye.rid = old.prid
  BY <1>10, MessageTypes DEF Close
<1> HIDE DEF bye
<1>12. ~(d = old.resp /\ rid = old.prid)
  BY <1>2, <1>5, <1>10
<1>13. /\ \A k \in Links, r \in Rids : reqTab'[k][r] = IF k = l /\ r = m.rid THEN s ELSE reqTab[k][r]
       /\ \A k \in Links, p \in PRids :
            respTab'[k][p] = IF k = old.resp /\ p = old.prid THEN NoStream
                             ELSE IF k = d /\ p = rid THEN s ELSE respTab[k][p]
  <2>1. reqTab \in ReqTables /\ respTab \in RespTables
    BY <1>1 DEF TablesOf
  <2>2. /\ \A k \in Links, r \in Rids :
             SetReq(reqTab, s)[k][r] = IF k = l /\ r = m.rid THEN s ELSE reqTab[k][r]
        /\ \A k \in Links, p \in PRids :
             SetResp(respTab, s)[k][p] = IF k = d /\ p = rid THEN s ELSE respTab[k][p]
    BY <1>6, <2>1, AddedRows
  <2>3. SetResp(respTab, s) \in RespTables
    BY <1>6, <2>1 DEF SetResp, RespTables, Stream
  <2>4. \A k \in Links, p \in PRids :
          respTab'[k][p] = IF k = old.resp /\ p = old.prid THEN NoStream ELSE SetResp(respTab, s)[k][p]
    BY <1>2, <1>10, <2>3 DEF DropResp, RespTables
  <2> QED
    BY <1>2, <2>2, <2>4
<1>14. /\ closed \in [Links -> Seq(FromBroker)]
       /\ \A k \in Links : Grown(toLink[k], closed[k], K(k))
       /\ Len(closed[old.resp]) = Len(toLink[old.resp]) + 1
       /\ closed[old.resp][Len(toLink[old.resp]) + 1] = bye
  BY <1>1, <1>10, <1>11, SentGrows, SentType DEF RestOK
<1>15. \A k \in Links : \A x \in K(k) : k = old.resp /\ x = bye
  OBVIOUS
<1>16. \A k \in Links : \A x \in J(k) : k = d /\ x = msg
  OBVIOUS
<1> HIDE DEF closed, K
<1>17. /\ \A k \in Links : Grown(closed[k], toLink'[k], J(k))
       /\ Len(toLink'[d]) = Len(closed[d]) + 1
  <2>1. \A k \in Links : closed[k] \in Seq(FromBroker)
    BY <1>14
  <2>2. \A k \in Links : toLink'[k] = IF k = d THEN Append(closed[d], msg) ELSE closed[k]
    BY <1>2, <1>3, <1>14
  <2>3. Grown(closed[d], Append(closed[d], msg), {msg}) /\ Len(Append(closed[d], msg)) = Len(closed[d]) + 1
    BY <1>3, <1>7, <2>1, BrokerAppended
  <2>4. \A k \in Links : Grown(closed[k], closed[k], {})
    BY <2>1, GrownByNothing
  <2> QED
    BY <1>3, <2>2, <2>3, <2>4
<1> HIDE DEF J, rid
<1>18. \A k \in Links : Grown(toLink[k], toLink'[k], K(k) \cup J(k))
  BY <1>14, <1>17, GrownTwice
<1>19. ASSUME NEW k \in SdkLinks, NEW r \in Rids PROVE ReqAt(k, r)'
  <2>1. k \in Links /\ k # l /\ ReqAt(k, r) /\ client'[k][r] = client[k][r]
    BY <1>1, <1>2, <1>4, EndsAt
  <2>2. \A x \in K(k) \cup J(k) : ~About(x, "resp", r)
    BY <1>7, <1>11, <1>15, <1>16, <2>1 DEF About
  <2>3. Requested(r, toBroker'[k], toLink'[k], client[k][r], reqTab[k][r] # NoStream)
    BY <1>1, <1>2, <1>18, <2>1, <2>2, RequestedAside DEF ReqAt
  <2> QED
    BY <1>13, <2>1, <2>3 DEF ReqAt
<1>20. ASSUME NEW k \in Links, NEW p \in PRids PROVE ServAt(k, p)'
  <2>1. ServAt(k, p) /\ active' = active /\ ended' = ended
        /\ (Taken(toBroker[k], toBroker'[k]) \/ toBroker'[k] = toBroker[k])
    BY <1>1, <1>2, <1>8, EndsAt
  <2>2. CASE k = d /\ p = rid
    <3>1. Said(p, toLink[k], toBroker[k], active[k]) \subseteq {}
      BY <1>3, <1>5, <2>2, EndsAt DEF SaidOf, rid
    <3>2. \A x \in K(k) : ~About(x, "invoke", p)
      BY <1>11, <1>15 DEF About
    <3>3. Len(toBroker[k]) \in Nat /\ Grown(toLink[k], closed[k], K(k))
      BY <1>1, <1>14, ChannelLengths
    <3>4. Said(p, closed[k], toBroker[k], active[k]) \subseteq Said(p, toLink[k], toBroker[k], active[k])
      BY <3>2, <3>3, SaidNoMore
    <3>5. Said(p, closed[k], toBroker[k], active[k]) = {}
      BY <3>1, <3>4
    <3>6. Grown(closed[k], toLink'[k], J(k)) /\ Len(toLink'[k]) = Len(closed[k]) + 1
      BY <1>17, <2>2
    <3>7. Serving(p, toLink'[k], toBroker[k], active[k], ended[k], TRUE)
      BY <3>5, <3>6, ServingStarts
    <3>8. Serving(p, toLink'[k], toBroker'[k], active[k], ended[k], TRUE)
      BY <2>1, <3>7, ServingTaken
    <3>9. respTab'[k][p] # NoStream
      BY <1>6, <1>12, <1>13, <2>2
    <3> QED
      BY <2>1, <3>8, <3>9 DEF ServAt
  <2>3. CASE ~(k = d /\ p = rid)
    <3>1. \A x \in K(k) \cup J(k) : ~About(x, "invoke", p)
      BY <1>7, <1>11, <1>15, <1>16, <2>3 DEF About
    <3>2. CASE k = old.resp /\ p = old.prid
      <4>1. respTab[k][p] # NoStream
        BY <1>2, <1>10, <3>2 DEF old
      <4>2. Serving(p, toLink[k], toBroker[k], active[k], ended[k], TRUE)
        BY <2>1, <4>1 DEF ServAt
      <4> DEFINE n == Len(toLink[k]) + 1
      <4>3. Len(toLink[k]) \in Nat /\ Len(closed[k]) = n /\ closed[k][n] = bye
        BY <1>1, <1>14, <3>2, ChannelLengths
      <4>4. n \in 1..Len(closed[k]) /\ n \in Nat
        BY <4>3
      <4> HIDE DEF n
      <4>5. toLink'[k][n] = bye /\ Len(closed[k]) <= Len(toLink'[k]) /\ Len(toLink'[k]) \in Nat
        BY <1>17, <4>3, <4>4 DEF Grown
      <4>6. n \in Len(toLink[k]) + 1..Len(toLink'[k])
        BY <4>3, <4>4, <4>5 DEF n
      <4>7. About(toLink'[k][n], "close", p) /\ Grown(toLink[k], toLink'[k], K(k) \cup J(k))
        BY <1>11, <1>18, <3>2, <4>5 DEF About
      <4>8. Serving(p, toLink'[k], toBroker[k], active[k], ended[k], FALSE)
        BY <3>1, <4>2, <4>6, <4>7, ServingCloses
      <4>9. Serving(p, toLink'[k], toBroker'[k], active[k], ended[k], FALSE)
        BY <2>1, <4>8, ServingTaken
      <4> QED
        BY <1>13, <2>1, <3>2, <4>9 DEF ServAt
    <3>3. CASE ~(k = old.resp /\ p = old.prid)
      <4>1. Serving(p, toLink'[k], toBroker'[k], active[k], ended[k], respTab[k][p] # NoStream)
        BY <1>1, <1>2, <1>18, <2>1, <3>1, ServingAside DEF ServAt
      <4> QED
        BY <1>13, <2>1, <2>3, <3>3, <4>1 DEF ServAt
    <3> QED
      BY <3>2, <3>3
  <2> QED
    BY <2>2, <2>3
<1>21. ASSUME NEW k \in Links, NEW p \in PRids, NEW S, SaidOf(k, p) \subseteq S, ~(k = d /\ p = rid)
       PROVE  SaidOf(k, p)' \subseteq S
  <2>1. \A x \in K(k) \cup J(k) : About(x, "invoke", p) => x.inv \in S
    BY <1>7, <1>11, <1>15, <1>16, <1>21 DEF About
  <2>2. Said(p, toLink'[k], toBroker'[k], active[k]) \subseteq S
    BY <1>1, <1>2, <1>18, <1>21, <2>1, SaidAside
  <2> QED
    BY <1>2, <2>2 DEF SaidOf
<1>22. ASSUME NEW k \in Links, NEW p \in PRids, p > nodeRid'[k] PROVE SaidOf(k, p)' = {}
  <2>1. nodeRid'[k] = IF k = d THEN rid ELSE nodeRid[k]
    BY <1>1, <1>2, <1>3 DEF RestOK
  <2>2. nodeRid[k] \in Int /\ rid \in Int /\ p \in Int
    BY <1>1, <1>5, InvokeConstants DEF RestOK, PRids
  <2>3. p > nodeRid[k] /\ ~(k = d /\ p = rid)
    BY <1>5, <1>22, <2>1, <2>2
  <2> QED
    BY <1>21, <2>3, EndsAt
<1>23. ASSUME NEW t \in streams', t.req \in SdkLinks
       PROVE  SaidOf(t.resp, t.prid)' \subseteq {client'[t.req][t.rrid].inv}
  <2>1. t \in streams
    BY <1>2, <1>4, <1>6, <1>23
  <2>2. t.resp \in Links /\ t.prid \in PRids /\ respTab[t.resp][t.prid] = t /\ t # NoStream
        /\ client' = client
    BY <1>1, <1>2, <2>1, StreamRows
  <2>3. ~(t.resp = d /\ t.prid = rid)
    BY <1>5, <2>2
  <2>4. SaidOf(t.resp, t.prid) \subseteq {client[t.req][t.rrid].inv}
    BY <1>23, <2>1, EndsAt
  <2>5. SaidOf(t.resp, t.prid)' \subseteq {client[t.req][t.rrid].inv}
    BY <1>21, <2>2, <2>3, <2>4
  <2> QED
    BY <2>2, <2>5
<1> QED
  BY <1>19, <1>20, <1>22, <1>23 DEF RequestedInv, ServingInv, SaidInv, ReqAt, ServAt

\* What a link sends is not about a rid.
LEMMA RequestedSends ==
  ASSUME NEW r, NEW tb, NEW tb2, NEW tl, NEW c, NEW has \in BOOLEAN, NEW K,
         Len(tl) \in Nat, Grown(tb, tb2, K),
         \A x \in K : ~About(x, "invoke", r) /\ ~About(x, "close", r),
         Requested(r, tb, tl, c, has)
  PROVE  Requested(r, tb2, tl, c, has)
<1>1. Grown(tl, tl, {})
  BY GrownByNothing
<1> QED
  BY <1>1, RequestedGrows

\* The same of a responder whose link sends messages, none of them about p.
LEMMA ServingSends ==
  ASSUME NEW p, NEW tb, NEW tb2, NEW tl, NEW act, NEW fin, NEW has \in BOOLEAN, NEW K,
         Len(tl) \in Nat, Grown(tb, tb2, K), \A x \in K : ~About(x, "resp", p),
         Serving(p, tl, tb, act, fin, has)
  PROVE  Serving(p, tl, tb2, act, fin, has)
<1>1. Grown(tl, tl, {})
  BY GrownByNothing
<1>2. fin \subseteq fin /\ \A x \in {} : ~About(x, "invoke", p)
  OBVIOUS
<1> QED
  BY <1>1, <1>2, ServingGrows

\* Nothing more is said about p.
LEMMA SaidSends ==
  ASSUME NEW p, NEW tb, NEW tb2, NEW tl, NEW act, NEW S, NEW K,
         Len(tl) \in Nat, Grown(tb, tb2, K),
         \A x \in K : About(x, "resp", p) => x.inv \in S,
         Said(p, tl, tb, act) \subseteq S
  PROVE  Said(p, tl, tb2, act) \subseteq S
<1>1. \A i \in 1..Len(tb2) : (i \in 1..Len(tb) /\ tb2[i] = tb[i]) \/ tb2[i] \in K
  BY DEF Grown
<1> QED
  BY <1>1 DEF Said

\* A link comes up with nothing in its channels.
LEMMA ConnectEnds ==
  ASSUME EndInv, NEW l \in Links, Connect(l)
  PROVE  RequestedInv' /\ ServingInv' /\ SaidInv'
BY DEF EndInv, Connect, tables, RequestedInv, ServingInv, SaidInv, SaidOf

\* What a link sends to the broker, for either role.
LEMMA LinkSends ==
  ASSUME RestOK, NEW l \in Links, NEW msg \in FromLink,
         toBroker' = [toBroker EXCEPT ![l] = Append(@, msg)]
  PROVE  /\ Grown(toBroker[l], toBroker'[l], {msg}) /\ Len(toBroker'[l]) = Len(toBroker[l]) + 1
         /\ toBroker'[l][Len(toBroker'[l])] = msg
         /\ \A k \in Links : k # l => toBroker'[k] = toBroker[k]
<1>1. toBroker \in [Links -> Seq(FromLink)] /\ toBroker[l] \in Seq(FromLink)
  BY DEF RestOK
<1>2. toBroker'[l] = Append(toBroker[l], msg) /\ \A k \in Links : k # l => toBroker'[k] = toBroker[k]
  BY <1>1
<1>3. /\ Grown(toBroker[l], Append(toBroker[l], msg), {msg})
      /\ Len(Append(toBroker[l], msg)) = Len(toBroker[l]) + 1
      /\ Append(toBroker[l], msg)[Len(toBroker[l]) + 1] = msg
  BY <1>1, LinkAppended
<1> QED
  BY <1>2, <1>3

\* A requester sends nothing that a responder would: nothing is said by it.
LEMMA RequesterSends ==
  ASSUME EndInv, NEW l \in Links, NEW msg \in FromLink, msg.kind # "resp",
         toBroker' = [toBroker EXCEPT ![l] = Append(@, msg)],
         UNCHANGED <<nodeRid, streams, respTab, toLink, active, ended>>,
         \A s \in streams : s.req \in SdkLinks => client'[s.req][s.rrid].inv = client[s.req][s.rrid].inv
  PROVE  ServingInv' /\ SaidInv'
<1>1. RestOK /\ TablesOf(streams, reqTab, respTab) /\ IInv
  BY EndsAt DEF EndInv
<1>2. /\ Grown(toBroker[l], toBroker'[l], {msg})
      /\ \A k \in Links : k # l => toBroker'[k] = toBroker[k]
  BY <1>1, LinkSends
<1>3. ASSUME NEW k \in Links, NEW p \in PRids PROVE ServAt(k, p)'
  <2>1. ServAt(k, p) /\ Len(toLink[k]) \in Nat /\ \A x \in {msg} : ~About(x, "resp", p)
    BY <1>1, EndsAt, ChannelLengths DEF About
  <2>2. CASE k = l
    <3> DEFINE K == {msg}
    <3>1. Grown(toBroker[k], toBroker'[k], K) /\ \A x \in K : ~About(x, "resp", p)
      BY <1>2, <2>1, <2>2
    <3>2. Serving(p, toLink[k], toBroker[k], active[k], ended[k], respTab[k][p] # NoStream)
      BY <2>1 DEF ServAt
    <3> HIDE DEF K
    <3>3. Serving(p, toLink[k], toBroker'[k], active[k], ended[k], respTab[k][p] # NoStream)
      BY ONLY <2>1, <3>1, <3>2, ServingSends
    <3> QED
      BY <3>3 DEF ServAt
  <2>3. CASE k # l
    BY <1>2, <2>1, <2>3 DEF ServAt
  <2> QED
    BY <2>2, <2>3
<1>4. ASSUME NEW k \in Links, NEW p \in PRids, NEW S, SaidOf(k, p) \subseteq S
      PROVE  SaidOf(k, p)' \subseteq S
  <2>1. Len(toLink[k]) \in Nat /\ \A x \in {msg} : About(x, "resp", p) => x.inv \in S
    BY <1>1, ChannelLengths DEF About
  <2>2. CASE k = l
    <3>1. Said(p, toLink[k], toBroker'[k], active[k]) \subseteq S
      BY <1>2, <1>4, <2>1, <2>2, SaidSends DEF SaidOf
    <3> QED
      BY <3>1 DEF SaidOf
  <2>3. CASE k # l
    BY <1>2, <1>4, <2>3 DEF SaidOf
  <2> QED
    BY <2>2, <2>3
<1>5. ASSUME NEW k \in Links, NEW p \in PRids, p > nodeRid'[k] PROVE SaidOf(k, p)' = {}
  BY <1>4, <1>5, EndsAt
<1>6. ASSUME NEW t \in streams', t.req \in SdkLinks
      PROVE  SaidOf(t.resp, t.prid)' \subseteq {client'[t.req][t.rrid].inv}
  <2>1. t \in streams /\ t.resp \in Links /\ t.prid \in PRids
        /\ client'[t.req][t.rrid].inv = client[t.req][t.rrid].inv
    BY <1>1, <1>6, StreamRows
  <2>2. SaidOf(t.resp, t.prid) \subseteq {client[t.req][t.rrid].inv}
    BY <1>6, <2>1, EndsAt
  <2>3. SaidOf(t.resp, t.prid)' \subseteq {client[t.req][t.rrid].inv}
    BY <1>4, <2>1, <2>2
  <2> QED
    BY <2>1, <2>3
<1> QED
  BY <1>3, <1>5, <1>6 DEF ServingInv, SaidInv, ServAt

\* dslink_requester_invoke: the rid was never used.
LEMMA ClientInvokeEnds ==
  ASSUME EndInv, NEW l \in Links, NEW rid \in Rids, NEW to \in Links, ClientInvoke(l, rid, to)
  PROVE  RequestedInv' /\ ServingInv' /\ SaidInv'
<1> DEFINE msg == [kind |-> "invoke", rid |-> rid, to |-> to, inv |-> made + 1]
           c2  == [inv |-> made + 1, state |-> "open"]
<1>1. RestOK /\ SdkLinks \subseteq Links /\ IInv
  BY EndsAt DEF EndInv
<1>2. /\ l \in SdkLinks => client[l][rid] = Unused
      /\ made < MaxInv /\ client' = [client EXCEPT ![l][rid] = c2]
      /\ toBroker' = [toBroker EXCEPT ![l] = Append(@, msg)]
      /\ UNCHANGED <<up, streams, reqTab, respTab, nodeRid, toLink, active, ended>>
  BY DEF ClientInvoke, tables
<1>3. made + 1 \in Invs
  BY <1>1, <1>2, InvokeConstants DEF RestOK, Invs
<1>4. msg \in FromLink /\ msg.kind = "invoke" /\ msg.rid = rid /\ msg.inv = made + 1
  BY <1>3 DEF FromLink
<1>5. c2.state = "open" /\ c2.inv = made + 1
  OBVIOUS
<1> HIDE DEF msg, c2
<1>6. \A k \in Links, r \in Rids : client'[k][r] = IF k = l /\ r = rid THEN c2 ELSE client[k][r]
  BY <1>1, <1>2 DEF RestOK
<1>7. /\ Grown(toBroker[l], toBroker'[l], {msg}) /\ Len(toBroker'[l]) = Len(toBroker[l]) + 1
      /\ toBroker'[l][Len(toBroker'[l])] = msg
      /\ \A k \in Links : k # l => toBroker'[k] = toBroker[k]
  BY <1>1, <1>2, <1>4, LinkSends
<1>8. ASSUME NEW k \in SdkLinks, NEW r \in Rids PROVE ReqAt(k, r)'
  <2>1. k \in Links /\ ReqAt(k, r) /\ toLink'[k] = toLink[k] /\ reqTab'[k][r] = reqTab[k][r]
        /\ Len(toLink[k]) \in Nat
    BY <1>1, <1>2, EndsAt, ChannelLengths
  <2>2. CASE k = l /\ r = rid
    <3>1. client[k][r].state = "unused" /\ client'[k][r] = c2
      BY <1>2, <1>6, <2>1, <2>2 DEF Unused
    <3>2. /\ Grown(toBroker[k], toBroker'[k], {msg}) /\ Len(toBroker'[k]) = Len(toBroker[k]) + 1
          /\ About(toBroker'[k][Len(toBroker'[k])], "invoke", r)
          /\ toBroker'[k][Len(toBroker'[k])].inv = c2.inv
      BY <1>4, <1>5, <1>7, <2>2 DEF About
    <3>3. Requested(r, toBroker'[k], toLink[k], c2, reqTab[k][r] # NoStream)
      BY <1>5, <2>1, <3>1, <3>2, RequestedAsks DEF ReqAt
    <3> QED
      BY <2>1, <3>1, <3>3 DEF ReqAt
  <2>3. CASE k = l /\ r # rid
    <3>1. Grown(toBroker[k], toBroker'[k], {msg})
          /\ \A x \in {msg} : ~About(x, "invoke", r) /\ ~About(x, "close", r)
      BY <1>4, <1>7, <2>3 DEF About
    <3>2. Requested(r, toBroker'[k], toLink[k], client[k][r], reqTab[k][r] # NoStream)
      BY <2>1, <3>1, RequestedSends DEF ReqAt
    <3> QED
      BY <1>6, <2>1, <2>3, <3>2 DEF ReqAt
  <2>4. CASE k # l
    BY <1>6, <1>7, <2>1, <2>4 DEF ReqAt
  <2> QED
    BY <2>2, <2>3, <2>4
<1>9. ASSUME NEW s \in streams, s.req \in SdkLinks
      PROVE  client'[s.req][s.rrid].inv = client[s.req][s.rrid].inv
  <2>1. s.req \in Links /\ s.rrid \in Rids /\ reqTab[s.req][s.rrid] # NoStream
    BY <1>1, StreamRows
  <2>2. client[s.req][s.rrid].state # "unused"
    BY <1>9, <2>1, EndsAt DEF ReqAt, Requested
  <2>3. ~(s.req = l /\ s.rrid = rid)
    BY <1>2, <1>9, <2>2 DEF Unused
  <2> QED
    BY <1>6, <2>1, <2>3
<1>10. ServingInv' /\ SaidInv'
  BY <1>2, <1>4, <1>9, RequesterSends
<1> QED
  BY <1>8, <1>10 DEF RequestedInv, ReqAt

\* dslink_requester_close: the request follows the invocation it closes.
LEMMA ClientCloseEnds ==
  ASSUME EndInv, NEW l \in Links, NEW rid \in Rids, ClientClose(l, rid)
  PROVE  RequestedInv' /\ ServingInv' /\ SaidInv'
<1> DEFINE msg == Close(rid)
<1>1. RestOK /\ SdkLinks \subseteq Links /\ IInv
  BY EndsAt DEF EndInv
<1>2. /\ client[l][rid].state = "open" /\ client' = [client EXCEPT ![l][rid].state = "closed"]
      /\ toBroker' = [toBroker EXCEPT ![l] = Append(@, msg)]
      /\ UNCHANGED <<up, streams, reqTab, respTab, nodeRid, toLink, active, ended>>
  BY DEF ClientClose, tables
<1>3. msg \in FromLink /\ msg.kind = "close" /\ msg.rid = rid
  BY DEF FromLink, Close
<1> HIDE DEF msg
<1>4. /\ \A k \in Links, r \in Rids : ~(k = l /\ r = rid) => client'[k][r] = client[k][r]
      /\ client'[l][rid].state = "closed" /\ client'[l][rid].inv = client[l][rid].inv
  BY <1>1, <1>2 DEF RestOK, View
<1>5. /\ Grown(toBroker[l], toBroker'[l], {msg}) /\ Len(toBroker'[l]) = Len(toBroker[l]) + 1
      /\ toBroker'[l][Len(toBroker'[l])] = msg
      /\ \A k \in Links : k # l => toBroker'[k] = toBroker[k]
  BY <1>1, <1>2, <1>3, LinkSends
<1>6. ASSUME NEW k \in SdkLinks, NEW r \in Rids PROVE ReqAt(k, r)'
  <2>1. k \in Links /\ ReqAt(k, r) /\ toLink'[k] = toLink[k] /\ reqTab'[k][r] = reqTab[k][r]
        /\ Len(toLink[k]) \in Nat
    BY <1>1, <1>2, EndsAt, ChannelLengths
  <2>2. CASE k = l /\ r = rid
    <3>1. /\ client[k][r].state = "open" /\ client'[k][r].state = "closed"
          /\ client'[k][r].inv = client[k][r].inv
      BY <1>2, <1>4, <2>2
    <3>2. /\ Grown(toBroker[k], toBroker'[k], {msg}) /\ Len(toBroker'[k]) = Len(toBroker[k]) + 1
          /\ About(toBroker'[k][Len(toBroker'[k])], "close", r)
      BY <1>3, <1>5, <2>2 DEF About
    <3>3. Requested(r, toBroker'[k], toLink[k], client'[k][r], reqTab[k][r] # NoStream)
      BY <2>1, <3>1, <3>2, RequestedGivesUp DEF ReqAt
    <3> QED
      BY <2>1, <3>3 DEF ReqAt
  <2>3. CASE k = l /\ r # rid
    <3>1. Grown(toBroker[k], toBroker'[k], {msg})
          /\ \A x \in {msg} : ~About(x, "invoke", r) /\ ~About(x, "close", r)
      BY <1>3, <1>5, <2>3 DEF About
    <3>2. Requested(r, toBroker'[k], toLink[k], client[k][r], reqTab[k][r] # NoStream)
      BY <2>1, <3>1, RequestedSends DEF ReqAt
    <3> QED
      BY <1>4, <2>1, <2>3, <3>2 DEF ReqAt
  <2>4. CASE k # l
    BY <1>4, <1>5, <2>1, <2>4 DEF ReqAt
  <2> QED
    BY <2>2, <2>3, <2>4
<1>7. ASSUME NEW s \in streams
      PROVE  client'[s.req][s.rrid].inv = client[s.req][s.rrid].inv
  <2>1. s.req \in Links /\ s.rrid \in Rids
    BY <1>1, StreamRows
  <2> QED
    BY <1>4, <2>1
<1>8. ServingInv' /\ SaidInv'
  BY <1>2, <1>3, <1>7, RequesterSends
<1> QED
  BY <1>6, <1>8 DEF RequestedInv, ReqAt

\* The SDK takes a message of the broker. The broker's tables stay.
LEMMA ReceiveResponseEnds ==
  ASSUME EndInv, NEW l \in Links, ReceiveResponse(l)
  PROVE  RequestedInv' /\ ServingInv' /\ SaidInv'
<1> DEFINE m == Head(toLink[l])
<1>1. RestOK /\ TablesOf(streams, reqTab, respTab) /\ SdkLinks \subseteq Links /\ IInv
  BY EndsAt DEF EndInv
<1>2. /\ Receive(l, "resp")
      /\ client' = IF m.closed THEN [client EXCEPT ![l][m.rid].state = "ended"] ELSE client
      /\ UNCHANGED <<up, streams, reqTab, respTab, nodeRid, toBroker, active, ended>>
  BY DEF ReceiveResponse, tables
<1>3. m.rid \in Rids /\ m.kind = "resp" /\ m.closed \in BOOLEAN
  <2>1. m \in FromBroker /\ m.kind = "resp"
    BY <1>1, <1>2, ReceiveType
  <2> QED
    BY <2>1 DEF FromBroker
<1>4. /\ Taken(toLink[l], toLink'[l]) /\ toLink[l][1] = m
      /\ \A k \in Links : k # l => toLink'[k] = toLink[k]
  BY <1>1, <1>2, ReceiveTakes
<1> HIDE DEF m
<1>5. /\ \A k \in Links, r \in Rids : ~(k = l /\ r = m.rid /\ m.closed) => client'[k][r] = client[k][r]
      /\ m.closed => client'[l][m.rid].state = "ended"
      /\ \A k \in Links, r \in Rids : client'[k][r].inv = client[k][r].inv
  BY <1>1, <1>2, <1>3 DEF RestOK, View
<1>6. ASSUME NEW k \in SdkLinks, NEW r \in Rids PROVE ReqAt(k, r)'
  <2>1. k \in Links /\ ReqAt(k, r) /\ reqTab'[k][r] = reqTab[k][r] /\ toBroker'[k] = toBroker[k]
    BY <1>1, <1>2, EndsAt
  <2>2. CASE k = l /\ r = m.rid /\ m.closed
    <3>1. Taken(toLink[k], toLink'[k]) /\ About(toLink[k][1], "resp", r) /\ toLink[k][1].closed
          /\ client'[k][r].state = "ended"
      BY <1>3, <1>4, <1>5, <2>2 DEF About
    <3>2. Requested(r, toBroker[k], toLink'[k], client'[k][r], reqTab[k][r] # NoStream)
      BY <2>1, <3>1, RequestedSeesEnd DEF ReqAt
    <3> QED
      BY <2>1, <3>2 DEF ReqAt
  <2>3. CASE k = l /\ ~(r = m.rid /\ m.closed)
    <3>1. Taken(toLink[k], toLink'[k]) /\ (~About(toLink[k][1], "resp", r) \/ ~toLink[k][1].closed)
          /\ client'[k][r] = client[k][r]
      BY <1>3, <1>4, <1>5, <2>1, <2>3 DEF About
    <3>2. Requested(r, toBroker[k], toLink'[k], client[k][r], reqTab[k][r] # NoStream)
      BY <2>1, <3>1, RequestedRead DEF ReqAt
    <3> QED
      BY <2>1, <3>1, <3>2 DEF ReqAt
  <2>4. CASE k # l
    BY <1>4, <1>5, <2>1, <2>4 DEF ReqAt
  <2> QED
    BY <2>2, <2>3, <2>4
<1>7. ASSUME NEW k \in Links, NEW p \in PRids PROVE ServAt(k, p)'
  <2>1. ServAt(k, p)
    BY EndsAt
  <2>2. CASE k = l
    <3>1. Taken(toLink[k], toLink'[k]) /\ ~About(toLink[k][1], "close", p)
      BY <1>3, <1>4, <2>2 DEF About
    <3>2. Serving(p, toLink'[k], toBroker[k], active[k], ended[k], respTab[k][p] # NoStream)
      BY <2>1, <3>1, ServingRead DEF ServAt
    <3> QED
      BY <1>2, <3>2 DEF ServAt
  <2>3. CASE k # l
    BY <1>2, <1>4, <2>1, <2>3 DEF ServAt
  <2> QED
    BY <2>2, <2>3
<1>8. ASSUME NEW k \in Links, NEW p \in PRids PROVE SaidOf(k, p)' \subseteq SaidOf(k, p)
  <2>1. (Taken(toLink[k], toLink'[k]) \/ toLink'[k] = toLink[k]) /\ toBroker'[k] = toBroker[k]
        /\ active'[k] \subseteq active[k] /\ active'[k] = active[k]
    BY <1>2, <1>4
  <2>2. Said(p, toLink'[k], toBroker'[k], active'[k]) \subseteq Said(p, toLink[k], toBroker[k], active[k])
    BY <2>1, SaidTaken
  <2> QED
    BY <2>2 DEF SaidOf
<1>9. ASSUME NEW k \in Links, NEW p \in PRids, p > nodeRid'[k] PROVE SaidOf(k, p)' = {}
  <2>1. SaidOf(k, p) = {}
    BY <1>2, <1>9, EndsAt
  <2> QED
    BY <1>8, <2>1
<1>10. ASSUME NEW t \in streams', t.req \in SdkLinks
       PROVE  SaidOf(t.resp, t.prid)' \subseteq {client'[t.req][t.rrid].inv}
  <2>1. t \in streams /\ t.resp \in Links /\ t.prid \in PRids /\ t.req \in Links /\ t.rrid \in Rids
    BY <1>1, <1>2, <1>10, StreamRows
  <2>2. SaidOf(t.resp, t.prid) \subseteq {client[t.req][t.rrid].inv}
    BY <1>10, <2>1, EndsAt
  <2> QED
    BY <1>5, <1>8, <2>1, <2>2
<1> QED
  BY <1>6, <1>7, <1>9, <1>10 DEF RequestedInv, ServingInv, SaidInv, ReqAt, ServAt

\* What a requester is sent of its rids stays when another message is read.
LEMMA ResponderReads ==
  ASSUME EndInv, NEW l \in Links, NEW kind, Receive(l, kind), kind # "resp",
         NEW J, \A x \in J : x.kind = "resp", Grown(toBroker[l], toBroker'[l], J),
         \A k \in Links : k # l => toBroker'[k] = toBroker[k],
         UNCHANGED <<reqTab, client>>
  PROVE  RequestedInv'
<1>1. RestOK /\ SdkLinks \subseteq Links
  BY EndsAt
<1>2. /\ Taken(toLink[l], toLink'[l]) /\ toLink[l][1].kind = kind
      /\ \A k \in Links : k # l => toLink'[k] = toLink[k]
  BY <1>1, ReceiveTakes
<1>3. ASSUME NEW k \in SdkLinks, NEW r \in Rids PROVE ReqAt(k, r)'
  <2>1. k \in Links /\ ReqAt(k, r)
    BY <1>1, EndsAt
  <2>2. CASE k = l
    <3>1. Taken(toLink[k], toLink'[k]) /\ (~About(toLink[k][1], "resp", r) \/ ~toLink[k][1].closed)
          /\ Len(toLink'[k]) \in Nat
      BY <1>2, <2>2 DEF About, Taken
    <3>2. Requested(r, toBroker[k], toLink'[k], client[k][r], reqTab[k][r] # NoStream)
      BY <2>1, <3>1, RequestedRead DEF ReqAt
    <3>3. Grown(toBroker[k], toBroker'[k], J)
          /\ \A x \in J : ~About(x, "invoke", r) /\ ~About(x, "close", r)
      BY <2>2 DEF About
    <3>4. Requested(r, toBroker'[k], toLink'[k], client[k][r], reqTab[k][r] # NoStream)
      BY <3>1, <3>2, <3>3, RequestedSends
    <3> QED
      BY <3>4 DEF ReqAt
  <2>3. CASE k # l
    BY <1>2, <2>1, <2>3 DEF ReqAt
  <2> QED
    BY <2>2, <2>3
<1> QED
  BY <1>3 DEF RequestedInv, ReqAt

\* dslink_request_handle of a close: what the responder kept goes.
LEMMA ReceiveCloseEnds ==
  ASSUME EndInv, NEW l \in Links, ReceiveClose(l)
  PROVE  RequestedInv' /\ ServingInv' /\ SaidInv'
<1> DEFINE m == Head(toLink[l])
           gone == {e \in active[l] : e[1] = m.rid}
<1>1. RestOK /\ TablesOf(streams, reqTab, respTab) /\ SdkLinks \subseteq Links /\ IInv
  BY EndsAt DEF EndInv
<1>2. /\ Receive(l, "close")
      /\ active' = [active EXCEPT ![l] = @ \ gone] /\ ended' = [ended EXCEPT ![l] = @ \ gone]
      /\ UNCHANGED <<up, streams, reqTab, respTab, nodeRid, toBroker, client>>
  BY DEF ReceiveClose, tables
<1>3. /\ Taken(toLink[l], toLink'[l]) /\ toLink[l][1] = m /\ m.kind = "close"
      /\ \A k \in Links : k # l => toLink'[k] = toLink[k]
  BY <1>1, <1>2, ReceiveTakes
<1>4. /\ active'[l] = active[l] \ gone /\ ended'[l] = ended[l] \ gone
      /\ \A k \in Links : k # l => active'[k] = active[k] /\ ended'[k] = ended[k]
  BY <1>1, <1>2 DEF RestOK
<1> HIDE DEF m
<1>5. RequestedInv'
  <2>1. Grown(toBroker[l], toBroker'[l], {}) /\ \A x \in {} : x.kind = "resp"
    BY <1>1, <1>2, GrownByNothing, ChannelLengths
  <2> QED
    BY <1>2, <2>1, ResponderReads
<1>6. ASSUME NEW k \in Links, NEW p \in PRids PROVE ServAt(k, p)'
  <2>1. ServAt(k, p)
    BY EndsAt
  <2>2. CASE k = l /\ p = m.rid
    <3>1. Taken(toLink[k], toLink'[k]) /\ active'[k] = {e \in active[k] : e[1] # p}
      BY <1>3, <1>4, <2>2
    <3>2. Serving(p, toLink'[k], toBroker[k], active'[k], ended'[k], respTab[k][p] # NoStream)
      BY <2>1, <3>1, ServingSeesClose DEF ServAt
    <3> QED
      BY <1>2, <3>2 DEF ServAt
  <2>3. CASE k = l /\ p # m.rid
    <3>1. Taken(toLink[k], toLink'[k]) /\ ~About(toLink[k][1], "close", p)
      BY <1>3, <2>3 DEF About
    <3>2. Serving(p, toLink'[k], toBroker[k], active[k], ended[k], respTab[k][p] # NoStream)
      BY <2>1, <3>1, ServingRead DEF ServAt
    <3>3. active'[k] \subseteq active[k]
          /\ \A e \in active'[k] : e[1] = p /\ e \in ended[k] => e \in ended'[k]
      BY <1>4, <2>3
    <3>4. Serving(p, toLink'[k], toBroker[k], active'[k], ended'[k], respTab[k][p] # NoStream)
      BY <3>2, <3>3, ServingFewer
    <3> QED
      BY <1>2, <3>4 DEF ServAt
  <2>4. CASE k # l
    BY <1>2, <1>3, <1>4, <2>1, <2>4 DEF ServAt
  <2> QED
    BY <2>2, <2>3, <2>4
<1>7. ASSUME NEW k \in Links, NEW p \in PRids PROVE SaidOf(k, p)' \subseteq SaidOf(k, p)
  <2>1. (Taken(toLink[k], toLink'[k]) \/ toLink'[k] = toLink[k]) /\ toBroker'[k] = toBroker[k]
        /\ active'[k] \subseteq active[k]
    BY <1>2, <1>3, <1>4
  <2>2. Said(p, toLink'[k], toBroker'[k], active'[k]) \subseteq Said(p, toLink[k], toBroker[k], active[k])
    BY <2>1, SaidTaken
  <2> QED
    BY <2>2 DEF SaidOf
<1>8. ASSUME NEW k \in Links, NEW p \in PRids, p > nodeRid'[k] PROVE SaidOf(k, p)' = {}
  <2>1. SaidOf(k, p) = {}
    BY <1>2, <1>8, EndsAt
  <2> QED
    BY <1>7, <2>1
<1>9. ASSUME NEW t \in streams', t.req \in SdkLinks
      PROVE  SaidOf(t.resp, t.prid)' \subseteq {client'[t.req][t.rrid].inv}
  <2>1. t \in streams /\ t.resp \in Links /\ t.prid \in PRids /\ client' = client
    BY <1>1, <1>2, <1>9, StreamRows
  <2>2. SaidOf(t.resp, t.prid) \subseteq {client[t.req][t.rrid].inv}
    BY <1>9, <2>1, EndsAt
  <2>3. SaidOf(t.resp, t.prid)' \subseteq {client[t.req][t.rrid].inv}
    BY <1>7, <2>1, <2>2
  <2> QED
    BY <2>1, <2>3
<1> QED
  BY <1>5, <1>6, <1>8, <1>9 DEF ServingInv, SaidInv, ServAt

\* More of what a responder keeps may have ended.
LEMMA ServingFinished ==
  ASSUME NEW p, NEW tl, NEW tb, NEW act, NEW fin, NEW fin2, NEW has \in BOOLEAN,
         fin \subseteq fin2, Serving(p, tl, tb, act, fin, has)
  PROVE  Serving(p, tl, tb, act, fin2, has)
BY DEF Serving

\* A responder keeps another invocation.
LEMMA ServingKeeps ==
  ASSUME NEW p, NEW tl, NEW tb, NEW act, NEW act2, NEW e, NEW fin, NEW has \in BOOLEAN,
         act2 = act \cup {e}, e[1] # p, Serving(p, tl, tb, act, fin, has)
  PROVE  Serving(p, tl, tb, act2, fin, has)
BY DEF Serving

\* The responder of an invocation answers, and once with the last response.
LEMMA AnswerEnds ==
  ASSUME EndInv, NEW l \in Links, NEW e \in active[l], NEW closed \in BOOLEAN, Answer(l, e, closed)
  PROVE  RequestedInv' /\ ServingInv' /\ SaidInv'
<1> DEFINE msg == Response(e[1], closed, e[2])
           K == {msg}
<1>1. RestOK /\ TablesOf(streams, reqTab, respTab) /\ SdkLinks \subseteq Links /\ IInv
  BY EndsAt DEF EndInv
<1>2. /\ toBroker' = [toBroker EXCEPT ![l] = Append(@, msg)]
      /\ ended' = IF closed THEN [ended EXCEPT ![l] = @ \cup {e}] ELSE ended
      /\ UNCHANGED <<up, streams, reqTab, respTab, nodeRid, toLink, client, active>>
  BY DEF Answer, tables
<1>3. e[1] \in PRids /\ e[2] \in Invs
  BY <1>1 DEF RestOK
<1>4. msg \in FromLink /\ msg.kind = "resp" /\ msg.rid = e[1] /\ msg.inv = e[2] /\ msg.closed = closed
  BY <1>3, MessageTypes DEF Response
<1> HIDE DEF msg
<1>5. /\ Grown(toBroker[l], toBroker'[l], K)
      /\ \A k \in Links : k # l => toBroker'[k] = toBroker[k]
  BY <1>1, <1>2, <1>4, LinkSends
<1>6. /\ ended[l] \subseteq ended'[l] /\ (closed => e \in ended'[l])
      /\ \A k \in Links : k # l => ended'[k] = ended[k]
  BY <1>1, <1>2 DEF RestOK
<1>7. \A x \in K : x = msg
  OBVIOUS
<1> HIDE DEF K
<1>8. ASSUME NEW k \in SdkLinks, NEW r \in Rids PROVE ReqAt(k, r)'
  <2>1. k \in Links /\ ReqAt(k, r) /\ Len(toLink[k]) \in Nat
    BY <1>1, EndsAt, ChannelLengths
  <2>2. CASE k = l
    <3>1. Grown(toBroker[k], toBroker'[k], K)
          /\ \A x \in K : ~About(x, "invoke", r) /\ ~About(x, "close", r)
      BY <1>4, <1>5, <1>7, <2>2 DEF About
    <3>2. Requested(r, toBroker'[k], toLink[k], client[k][r], reqTab[k][r] # NoStream)
      BY <2>1, <3>1, RequestedSends DEF ReqAt
    <3> QED
      BY <1>2, <3>2 DEF ReqAt
  <2>3. CASE k # l
    BY <1>2, <1>5, <2>1, <2>3 DEF ReqAt
  <2> QED
    BY <2>2, <2>3
<1>9. ASSUME NEW k \in Links, NEW p \in PRids PROVE ServAt(k, p)'
  <2>1. ServAt(k, p) /\ Len(toLink[k]) \in Nat
    BY <1>1, EndsAt, ChannelLengths
  <2>2. CASE k = l /\ p = e[1]
    <3>1. e \in active[k] /\ Grown(toBroker[k], toBroker'[k], K) /\ ended[k] \subseteq ended'[k]
      BY <1>5, <1>6, <2>2
    <3>2. (\E x \in K : x.closed) => e \in ended'[k]
      BY <1>4, <1>6, <1>7, <2>2
    <3>3. Serving(p, toLink[k], toBroker'[k], active[k], ended'[k], respTab[k][p] # NoStream)
      BY <2>1, <2>2, <3>1, <3>2, ServingAnswers DEF ServAt
    <3> QED
      BY <1>2, <3>3 DEF ServAt
  <2>3. CASE k = l /\ p # e[1]
    <3>1. Grown(toBroker[k], toBroker'[k], K) /\ \A x \in K : ~About(x, "resp", p)
      BY <1>4, <1>5, <1>7, <2>3 DEF About
    <3>2. Serving(p, toLink[k], toBroker'[k], active[k], ended[k], respTab[k][p] # NoStream)
      BY <2>1, <3>1, ServingSends DEF ServAt
    <3>3. ended[k] \subseteq ended'[k]
      BY <1>6, <2>3
    <3>4. Serving(p, toLink[k], toBroker'[k], active[k], ended'[k], respTab[k][p] # NoStream)
      BY <3>2, <3>3, ServingFinished
    <3> QED
      BY <1>2, <3>4 DEF ServAt
  <2>4. CASE k # l
    BY <1>2, <1>5, <1>6, <2>1, <2>4 DEF ServAt
  <2> QED
    BY <2>2, <2>3, <2>4
<1>10. ASSUME NEW k \in Links, NEW p \in PRids PROVE SaidOf(k, p)' \subseteq SaidOf(k, p)
  <2>1. CASE k = l
    <3>1. Len(toLink[k]) \in Nat /\ Grown(toBroker[k], toBroker'[k], K)
      BY <1>1, <1>5, <2>1, ChannelLengths
    <3>2. \A x \in K : About(x, "resp", p) => x.inv \in Said(p, toLink[k], toBroker[k], active[k])
      <4>1. e[1] = p => e[2] \in Said(p, toLink[k], toBroker[k], active[k])
        BY <2>1, SaidKept
      <4> QED
        BY <1>4, <1>7, <4>1 DEF About
    <3> DEFINE S == Said(p, toLink[k], toBroker[k], active[k])
    <3>3. \A x \in K : About(x, "resp", p) => x.inv \in S
      BY <3>2
    <3>4. Said(p, toLink[k], toBroker[k], active[k]) \subseteq S
      OBVIOUS
    <3> HIDE DEF S
    <3>5. Said(p, toLink[k], toBroker'[k], active[k]) \subseteq S
      BY <3>1, <3>3, <3>4, SaidSends
    <3> QED
      BY <1>2, <3>5 DEF SaidOf, S
  <2>2. CASE k # l
    BY <1>2, <1>5, <2>2 DEF SaidOf
  <2> QED
    BY <2>1, <2>2
<1>11. ASSUME NEW k \in Links, NEW p \in PRids, p > nodeRid'[k] PROVE SaidOf(k, p)' = {}
  <2>1. SaidOf(k, p) = {}
    BY <1>2, <1>11, EndsAt
  <2> QED
    BY <1>10, <2>1
<1>12. ASSUME NEW t \in streams', t.req \in SdkLinks
       PROVE  SaidOf(t.resp, t.prid)' \subseteq {client'[t.req][t.rrid].inv}
  <2>1. t \in streams /\ t.resp \in Links /\ t.prid \in PRids /\ client' = client
    BY <1>1, <1>2, <1>12, StreamRows
  <2>2. SaidOf(t.resp, t.prid) \subseteq {client[t.req][t.rrid].inv}
    BY <1>12, <2>1, EndsAt
  <2>3. SaidOf(t.resp, t.prid)' \subseteq {client[t.req][t.rrid].inv}
    BY <1>10, <2>1, <2>2
  <2> QED
    BY <2>1, <2>3
<1> QED
  BY <1>8, <1>9, <1>11, <1>12 DEF RequestedInv, ServingInv, SaidInv, ReqAt, ServAt

\* dslink_request_handle of an invocation: the rid is new to the responder.
LEMMA ReceiveInvokeEnds ==
  ASSUME EndInv, NEW l \in Links, ReceiveInvoke(l)
  PROVE  RequestedInv' /\ ServingInv' /\ SaidInv'
<1> DEFINE m   == Head(toLink[l])
           msg == Response(m.rid, TRUE, m.inv)
           kept == <<m.rid, m.inv>>
           mute == UNCHANGED <<toBroker, active>>
           answers == toBroker' = [toBroker EXCEPT ![l] = Append(@, msg)] /\ UNCHANGED active
           keeps == active' = [active EXCEPT ![l] = @ \cup {kept}] /\ UNCHANGED toBroker
<1>1. RestOK /\ TablesOf(streams, reqTab, respTab) /\ SdkLinks \subseteq Links /\ IInv
  BY EndsAt DEF EndInv
<1>2. /\ Receive(l, "invoke") /\ (mute \/ answers \/ keeps)
      /\ UNCHANGED <<up, streams, reqTab, respTab, nodeRid, client, ended>>
  BY DEF ReceiveInvoke, tables
<1>3. m.rid \in PRids /\ m.inv \in Invs /\ m.kind = "invoke"
  <2>1. m \in FromBroker /\ m.kind = "invoke"
    BY <1>1, <1>2, ReceiveType
  <2> QED
    BY <2>1 DEF FromBroker
<1>4. /\ Taken(toLink[l], toLink'[l]) /\ toLink[l][1] = m
      /\ \A k \in Links : k # l => toLink'[k] = toLink[k]
  BY <1>1, <1>2, ReceiveTakes
<1>5. msg \in FromLink /\ msg.kind = "resp" /\ msg.rid = m.rid /\ msg.inv = m.inv
  BY <1>3, MessageTypes DEF Response
<1>6. kept[1] = m.rid /\ kept[2] = m.inv
  OBVIOUS
<1> HIDE DEF m, msg, kept
<1>7. /\ answers => Grown(toBroker[l], toBroker'[l], {msg}) /\ active'[l] = active[l]
                    /\ Len(toBroker'[l]) = Len(toBroker[l]) + 1 /\ toBroker'[l][Len(toBroker'[l])] = msg
      /\ keeps => toBroker'[l] = toBroker[l] /\ active'[l] = active[l] \cup {kept}
      /\ mute => toBroker'[l] = toBroker[l] /\ active'[l] = active[l]
      /\ \A k \in Links : k # l => toBroker'[k] = toBroker[k] /\ active'[k] = active[k]
  <2>1. answers => /\ Grown(toBroker[l], toBroker'[l], {msg}) /\ Len(toBroker'[l]) = Len(toBroker[l]) + 1
                   /\ toBroker'[l][Len(toBroker'[l])] = msg
                   /\ \A k \in Links : k # l => toBroker'[k] = toBroker[k]
    BY <1>1, <1>5, LinkSends
  <2>2. keeps => /\ active'[l] = active[l] \cup {kept}
                 /\ \A k \in Links : k # l => active'[k] = active[k]
    BY <1>1 DEF RestOK
  <2> QED
    BY <1>2, <2>1, <2>2
<1>8. Len(toBroker[l]) \in Nat /\ Len(toLink'[l]) \in Nat
  BY <1>1, <1>4, ChannelLengths DEF Taken
<1>9. mute \/ answers \/ keeps
  BY <1>2
<1> HIDE DEF mute, answers, keeps
<1>10. RequestedInv'
  <2> DEFINE J == {msg}
  <2>1. Grown(toBroker[l], toBroker'[l], J)
    <3>1. CASE answers
      BY <1>7, <3>1
    <3>2. CASE ~answers
      BY <1>7, <1>8, <1>9, <3>2, GrownByNothing
    <3> QED
      BY <3>1, <3>2
  <2>2. \A x \in J : x.kind = "resp"
    BY <1>5
  <2> HIDE DEF J
  <2> QED
    BY <1>2, <1>7, <2>1, <2>2, ResponderReads
<1>11. ASSUME NEW p \in PRids, p = m.rid PROVE ServAt(l, p)'
  <2>1. ServAt(l, p) /\ About(toLink[l][1], "invoke", p)
    BY <1>3, <1>4, <1>11, EndsAt DEF About
  <2>2. /\ Lacks(toLink'[l], "invoke", p) /\ \A e \in active[l] : e[1] # p
        /\ Lacks(toBroker[l], "resp", p) /\ (respTab[l][p] # NoStream \/ ~Lacks(toLink'[l], "close", p))
    <3>1. PICK has \in BOOLEAN : has <=> respTab[l][p] # NoStream
      OBVIOUS
    <3>2. Serving(p, toLink[l], toBroker[l], active[l], ended[l], has)
      BY <2>1, <3>1 DEF ServAt
    <3>3. /\ Lacks(toLink'[l], "invoke", p) /\ \A e \in active[l] : e[1] # p
          /\ Lacks(toBroker[l], "resp", p) /\ (has \/ ~Lacks(toLink'[l], "close", p))
      BY <1>4, <2>1, <3>2, ServingAsked
    <3> QED
      BY <3>1, <3>3
  <2>3. \A e \in active'[l] : e[1] = p => e = kept /\ keeps
    BY <1>7, <1>9, <2>2
  <2>4. keeps => Lacks(toBroker'[l], "resp", p)
    BY <1>7, <2>2
  <2>5. CASE keeps
    <3>1. Serving(p, toLink'[l], toBroker'[l], active'[l], ended[l], respTab[l][p] # NoStream)
      BY <2>2, <2>3, <2>4, <2>5 DEF Serving, Lacks
    <3> QED
      BY <1>2, <3>1 DEF ServAt
  <2>6. CASE ~keeps
    <3>1. Serving(p, toLink'[l], toBroker'[l], active'[l], ended[l], respTab[l][p] # NoStream)
      BY <2>2, <2>3, <2>6 DEF Serving, Lacks
    <3> QED
      BY <1>2, <3>1 DEF ServAt
  <2> QED
    BY <2>5, <2>6
<1>12. ASSUME NEW p \in PRids, p # m.rid PROVE ServAt(l, p)'
  <2>1. ServAt(l, p) /\ ~About(toLink[l][1], "close", p)
    BY <1>3, <1>4, EndsAt DEF About
  <2>2. Serving(p, toLink'[l], toBroker[l], active[l], ended[l], respTab[l][p] # NoStream)
    BY <1>4, <2>1, ServingRead DEF ServAt
  <2>3. CASE mute
    BY <1>2, <1>7, <2>2, <2>3 DEF ServAt
  <2>4. CASE answers
    <3> DEFINE J == {msg}
    <3>1. Grown(toBroker[l], toBroker'[l], J) /\ \A x \in J : ~About(x, "resp", p)
      BY <1>5, <1>7, <1>12, <2>4 DEF About
    <3> HIDE DEF J
    <3>2. Serving(p, toLink'[l], toBroker'[l], active[l], ended[l], respTab[l][p] # NoStream)
      BY <1>8, <2>2, <3>1, ServingSends
    <3> QED
      BY <1>2, <1>7, <2>4, <3>2 DEF ServAt
  <2>5. CASE keeps
    <3>1. active'[l] = active[l] \cup {kept} /\ kept[1] # p
      BY <1>6, <1>7, <1>12, <2>5
    <3>2. Serving(p, toLink'[l], toBroker[l], active'[l], ended[l], respTab[l][p] # NoStream)
      BY <2>2, <3>1, ServingKeeps
    <3> QED
      BY <1>2, <1>7, <2>5, <3>2 DEF ServAt
  <2> QED
    BY <1>9, <2>3, <2>4, <2>5
<1>13. ASSUME NEW k \in Links, NEW p \in PRids PROVE ServAt(k, p)'
  <2>1. CASE k # l
    BY <1>2, <1>4, <1>7, <2>1, EndsAt DEF ServAt
  <2> QED
    BY <1>11, <1>12, <2>1
<1>14. ASSUME NEW k \in Links, NEW p \in PRids PROVE SaidOf(k, p)' \subseteq SaidOf(k, p)
  <2>1. CASE k # l
    BY <1>4, <1>7, <2>1 DEF SaidOf
  <2>2. CASE k = l
    <3> DEFINE S == Said(p, toLink[l], toBroker[l], active[l])
    <3>1. m.rid = p => m.inv \in S
      <4>1. m.rid = p => About(toLink[l][1], "invoke", p)
        BY <1>3, <1>4 DEF About
      <4>2. Len(toLink[l]) \in Nat \ {0}
        BY <1>4 DEF Taken
      <4>3. m.rid = p => toLink[l][1].inv \in S
        BY <4>1, <4>2, SaidFirst
      <4> QED
        BY <1>4, <4>3
    <3>2. Said(p, toLink'[l], toBroker[l], active[l]) \subseteq S
      BY <1>4, SaidTaken
    <3> HIDE DEF S
    <3>3. CASE mute
      BY <1>7, <2>2, <3>2, <3>3 DEF SaidOf, S
    <3>4. CASE answers
      <4> DEFINE J == {msg}
      <4>1. Grown(toBroker[l], toBroker'[l], J) /\ \A x \in J : About(x, "resp", p) => x.inv \in S
        BY <1>5, <1>7, <3>1, <3>4 DEF About
      <4> HIDE DEF J
      <4>2. Said(p, toLink'[l], toBroker'[l], active[l]) \subseteq S
        BY <1>8, <3>2, <4>1, SaidSends
      <4> QED
        BY <1>7, <2>2, <3>4, <4>2 DEF SaidOf, S
    <3>5. CASE keeps
      <4>1. Said(p, toLink'[l], toBroker[l], active[l] \cup {kept}) \subseteq
              Said(p, toLink'[l], toBroker[l], active[l]) \cup (IF kept[1] = p THEN {kept[2]} ELSE {})
        BY SaidKept
      <4>2. Said(p, toLink'[l], toBroker[l], active[l] \cup {kept}) \subseteq S
        BY <1>6, <3>1, <3>2, <4>1
      <4> QED
        BY <1>7, <2>2, <3>5, <4>2 DEF SaidOf, S
    <3> QED
      BY <1>9, <3>3, <3>4, <3>5
  <2> QED
    BY <2>1, <2>2
<1>15. ASSUME NEW k \in Links, NEW p \in PRids, p > nodeRid'[k] PROVE SaidOf(k, p)' = {}
  <2>1. SaidOf(k, p) = {}
    BY <1>2, <1>15, EndsAt
  <2> QED
    BY <1>14, <2>1
<1>16. ASSUME NEW t \in streams', t.req \in SdkLinks
       PROVE  SaidOf(t.resp, t.prid)' \subseteq {client'[t.req][t.rrid].inv}
  <2>1. t \in streams /\ t.resp \in Links /\ t.prid \in PRids /\ client' = client
    BY <1>1, <1>2, <1>16, StreamRows
  <2>2. SaidOf(t.resp, t.prid) \subseteq {client[t.req][t.rrid].inv}
    BY <1>16, <2>1, EndsAt
  <2>3. SaidOf(t.resp, t.prid)' \subseteq {client[t.req][t.rrid].inv}
    BY <1>14, <2>1, <2>2
  <2> QED
    BY <2>1, <2>3
<1> QED
  BY <1>10, <1>13, <1>15, <1>16 DEF ServingInv, SaidInv, ServAt

\* broker_close_link: every responder and every requester of a stream that is
\* freed is told, and once.
LEMMA DisconnectEnds ==
  ASSUME EndInv, NEW l \in Links, Disconnect(l)
  PROVE  RequestedInv' /\ ServingInv' /\ SaidInv'
<1> DEFINE K(k) == Asked(l, k) \cup Served(l, k)
<1>1. RestOK /\ TablesOf(streams, reqTab, respTab) /\ SdkLinks \subseteq Links /\ IInv
  BY EndsAt DEF EndInv
<1>2. /\ streams' = {s \in streams : s.req # l /\ s.resp # l}
      /\ reqTab' = [m \in Links |-> [r \in Rids |->
                     IF reqTab[m][r] \in streams' THEN reqTab[m][r] ELSE NoStream]]
      /\ respTab' = [m \in Links |-> [r \in PRids |->
                      IF respTab[m][r] \in streams' THEN respTab[m][r] ELSE NoStream]]
      /\ \A m \in Links : IF m = l THEN toLink'[m] = <<>> ELSE toLink'[m] \in Told(l, m)
      /\ toBroker' = [toBroker EXCEPT ![l] = <<>>]
      /\ client' = [client EXCEPT ![l] = [r \in Rids |-> Unused]]
      /\ active' = [active EXCEPT ![l] = {}] /\ ended' = [ended EXCEPT ![l] = {}]
      /\ nodeRid' = nodeRid
  BY DEF Disconnect
<1>3. /\ toLink'[l] = <<>> /\ toBroker'[l] = <<>> /\ active'[l] = {} /\ ended'[l] = {}
      /\ \A r \in Rids : client'[l][r] = Unused
  BY <1>1, <1>2 DEF RestOK
<1>4. \A k \in Links : k # l =>
        /\ toBroker'[k] = toBroker[k] /\ active'[k] = active[k] /\ ended'[k] = ended[k]
        /\ client'[k] = client[k] /\ toLink'[k] \in Told(l, k)
  BY <1>1, <1>2 DEF RestOK
<1>5. \A k \in Links : k # l =>
        GrownByAll(toLink[k], toLink'[k], K(k)) /\ Len(toBroker[k]) \in Nat
  <2> SUFFICES ASSUME NEW k \in Links, k # l
               PROVE  GrownByAll(toLink[k], toLink'[k], K(k)) /\ Len(toBroker[k]) \in Nat
    OBVIOUS
  <2>1. toLink'[k] \in Told(l, k)
    BY <1>4
  <2>2. GrownByAll(toLink[k], toLink'[k], Asked(l, k) \cup Served(l, k))
    BY <1>1, <2>1, ToldGrows
  <2>3. Len(toBroker[k]) \in Nat
    BY <1>1, ChannelLengths
  <2> QED
    BY <2>2, <2>3
<1>6. \A k \in Links : \A x \in K(k) :
        \/ x.kind = "close"
        \/ \E t \in streams : t.resp = l /\ t.req = k /\ x = Response(t.rrid, TRUE, 0)
  <2> SUFFICES ASSUME NEW k \in Links, NEW x \in K(k)
               PROVE  \/ x.kind = "close"
                      \/ \E t \in streams : t.resp = l /\ t.req = k /\ x = Response(t.rrid, TRUE, 0)
    OBVIOUS
  <2>1. CASE x \in Asked(l, k)
    <3>1. PICK t \in streams : x = Close(t.prid)
      BY <2>1 DEF Asked
    <3> QED
      BY <3>1 DEF Close
  <2>2. CASE x \in Served(l, k)
    BY <2>2 DEF Served
  <2> QED
    BY <2>1, <2>2
<1>7. /\ \A t \in streams : t.resp = l => Response(t.rrid, TRUE, 0) \in K(t.req)
      /\ \A t \in streams : t.req = l => Close(t.prid) \in K(t.resp)
  BY DEF Asked, Served
<1>8. /\ \A k \in Links, r \in Rids : reqTab[k][r] = NoStream \/
           (reqTab[k][r] \in streams /\ reqTab[k][r].req = k /\ reqTab[k][r].rrid = r)
      /\ \A k \in Links, p \in PRids : respTab[k][p] = NoStream \/
           (respTab[k][p] \in streams /\ respTab[k][p].resp = k /\ respTab[k][p].prid = p)
      /\ NoStream \notin streams
  BY <1>1, NoStreamIsNone DEF TablesOf
<1>9. /\ \A k \in Links, r \in Rids :
           reqTab'[k][r] = IF reqTab[k][r] \in streams' THEN reqTab[k][r] ELSE NoStream
      /\ \A k \in Links, p \in PRids :
           respTab'[k][p] = IF respTab[k][p] \in streams' THEN respTab[k][p] ELSE NoStream
  BY <1>2
<1> HIDE DEF K
<1>10. ASSUME NEW k \in SdkLinks, NEW r \in Rids PROVE ReqAt(k, r)'
  <2>1. k \in Links /\ ReqAt(k, r)
    BY <1>1, EndsAt
  <2>2. CASE k = l
    <3>1. reqTab'[k][r] = NoStream
      BY <1>2, <1>8, <1>9, <2>1, <2>2
    <3>2. Requested(r, toBroker'[k], toLink'[k], client'[k][r], FALSE)
      BY <1>3, <2>2, RequestedUnused
    <3> QED
      BY <3>1, <3>2 DEF ReqAt
  <2>3. CASE k # l
    <3> DEFINE t == reqTab[k][r]
    <3>1. Grown(toLink[k], toLink'[k], K(k)) /\ toBroker'[k] = toBroker[k] /\ client'[k][r] = client[k][r]
          /\ Len(toBroker[k]) \in Nat
      BY <1>4, <1>5, <2>1, <2>3 DEF GrownByAll
    <3>2. CASE t # NoStream /\ t.resp = l
      <4>1. t \in streams /\ t.req = k /\ t.rrid = r /\ reqTab'[k][r] = NoStream
        BY <1>2, <1>8, <1>9, <2>1, <3>2
      <4>2. Response(r, TRUE, 0) \in K(k)
        BY <1>7, <3>2, <4>1
      <4> DEFINE msg == Response(r, TRUE, 0)
      <4>3. PICK n \in Len(toLink[k]) + 1..Len(toLink'[k]) : toLink'[k][n] = msg
        BY <1>5, <2>1, <2>3, <4>2 DEF GrownByAll
      <4>4. About(msg, "resp", r) /\ msg.closed /\ msg.inv = 0
        BY DEF Response, About
      <4>5. \A x \in K(k) : About(x, "resp", r) => x = msg
        BY <1>6, <2>1 DEF About, Response
      <4> HIDE DEF msg, t
      <4>6. /\ About(toLink'[k][n], "resp", r) /\ toLink'[k][n].closed
            /\ toLink'[k][n].inv \in {0, client[k][r].inv}
        BY <4>3, <4>4
      <4>7. \A i \in Len(toLink[k]) + 1..Len(toLink'[k]) : About(toLink'[k][i], "resp", r) => i = n
        <5> SUFFICES ASSUME NEW i \in Len(toLink[k]) + 1..Len(toLink'[k]), About(toLink'[k][i], "resp", r)
                     PROVE  i = n
          OBVIOUS
        <5>1. toLink'[k][i] \in K(k)
          BY <3>1 DEF Grown
        <5>2. toLink'[k][i] = toLink'[k][n]
          BY <4>3, <4>5, <5>1
        <5> QED
          BY <1>5, <2>1, <2>3, <5>2 DEF GrownByAll
      <4>8. Requested(r, toBroker[k], toLink[k], client[k][r], TRUE)
        BY <2>1, <3>2 DEF ReqAt, t
      <4>9. Requested(r, toBroker[k], toLink'[k], client[k][r], FALSE)
        BY <3>1, <4>6, <4>7, <4>8, RequestedEnds
      <4> QED
        BY <3>1, <4>1, <4>9 DEF ReqAt
    <3>3. CASE ~(t # NoStream /\ t.resp = l)
      <4>1. reqTab'[k][r] = reqTab[k][r]
        BY <1>2, <1>8, <1>9, <2>1, <2>3, <3>3
      <4>2. \A x \in K(k) : ~About(x, "resp", r)
        <5> SUFFICES ASSUME NEW x \in K(k), About(x, "resp", r) PROVE FALSE
          OBVIOUS
        <5>1. PICK u \in streams : u.resp = l /\ u.req = k /\ x = Response(u.rrid, TRUE, 0)
          BY <1>6, <2>1 DEF About
        <5>2. u.rrid = r
          BY <5>1 DEF About, Response
        <5>3. reqTab[k][r] = u /\ u # NoStream
          BY <1>1, <5>1, <5>2, StreamRows
        <5> QED
          BY <3>3, <5>1, <5>3
      <4>3. Requested(r, toBroker[k], toLink'[k], client[k][r], reqTab[k][r] # NoStream)
        BY <2>1, <3>1, <4>2, RequestedSent DEF ReqAt
      <4> QED
        BY <3>1, <4>1, <4>3 DEF ReqAt
    <3> QED
      BY <3>2, <3>3
  <2> QED
    BY <2>2, <2>3
<1>11. ASSUME NEW k \in Links, NEW p \in PRids PROVE ServAt(k, p)'
  <2>1. ServAt(k, p)
    BY EndsAt
  <2>2. CASE k = l
    <3>1. Serving(p, toLink'[k], toBroker'[k], active'[k], ended'[k], respTab'[k][p] # NoStream)
      BY <1>3, <2>2, ServingNothing
    <3> QED
      BY <3>1 DEF ServAt
  <2>3. CASE k # l
    <3> DEFINE t == respTab[k][p]
    <3>1. Grown(toLink[k], toLink'[k], K(k)) /\ toBroker'[k] = toBroker[k]
          /\ active'[k] = active[k] /\ ended'[k] = ended[k] /\ Len(toBroker[k]) \in Nat
      BY <1>4, <1>5, <2>3 DEF GrownByAll
    <3>2. \A x \in K(k) : ~About(x, "invoke", p)
      BY <1>6 DEF About, Response
    <3>3. CASE t # NoStream /\ t.req = l
      <4>1. t \in streams /\ t.resp = k /\ t.prid = p /\ respTab'[k][p] = NoStream
        BY <1>2, <1>8, <1>9, <3>3
      <4>2. Close(p) \in K(k)
        BY <1>7, <3>3, <4>1
      <4>3. PICK n \in Len(toLink[k]) + 1..Len(toLink'[k]) : toLink'[k][n] = Close(p)
        BY <1>5, <2>3, <4>2 DEF GrownByAll
      <4>4. About(toLink'[k][n], "close", p)
        BY <4>3 DEF Close, About
      <4>5. Serving(p, toLink[k], toBroker[k], active[k], ended[k], TRUE)
        BY <2>1, <3>3 DEF ServAt
      <4>6. Serving(p, toLink'[k], toBroker[k], active[k], ended[k], FALSE)
        BY <3>1, <3>2, <4>4, <4>5, ServingCloses
      <4> QED
        BY <3>1, <4>1, <4>6 DEF ServAt
    <3>4. CASE ~(t # NoStream /\ t.req = l)
      <4>1. respTab'[k][p] = respTab[k][p]
        BY <1>2, <1>8, <1>9, <2>3, <3>4
      <4>2. Serving(p, toLink'[k], toBroker[k], active[k], ended[k], respTab[k][p] # NoStream)
        BY <2>1, <3>1, <3>2, ServingSent DEF ServAt
      <4> QED
        BY <3>1, <4>1, <4>2 DEF ServAt
    <3> QED
      BY <3>3, <3>4
  <2> QED
    BY <2>2, <2>3
<1>12. ASSUME NEW k \in Links, NEW p \in PRids PROVE SaidOf(k, p)' \subseteq SaidOf(k, p)
  <2>1. CASE k = l
    <3>1. Said(p, toLink'[k], toBroker'[k], active'[k]) = {}
      BY <1>3, <2>1, SaidNothing
    <3> QED
      BY <3>1 DEF SaidOf
  <2>2. CASE k # l
    <3>1. Grown(toLink[k], toLink'[k], K(k)) /\ toBroker'[k] = toBroker[k]
          /\ active'[k] = active[k] /\ Len(toBroker[k]) \in Nat
      BY <1>4, <1>5, <2>2 DEF GrownByAll
    <3>2. \A x \in K(k) : ~About(x, "invoke", p)
      BY <1>6 DEF About, Response
    <3>3. Said(p, toLink'[k], toBroker[k], active[k]) \subseteq Said(p, toLink[k], toBroker[k], active[k])
      BY <3>1, <3>2, SaidNoMore
    <3> QED
      BY <3>1, <3>3 DEF SaidOf
  <2> QED
    BY <2>1, <2>2
<1>13. ASSUME NEW k \in Links, NEW p \in PRids, p > nodeRid'[k] PROVE SaidOf(k, p)' = {}
  <2>1. SaidOf(k, p) = {}
    BY <1>2, <1>13, EndsAt
  <2> QED
    BY <1>12, <2>1
<1>14. ASSUME NEW t \in streams', t.req \in SdkLinks
       PROVE  SaidOf(t.resp, t.prid)' \subseteq {client'[t.req][t.rrid].inv}
  <2>1. t \in streams /\ t.req # l
    BY <1>2, <1>14
  <2>2. t.resp \in Links /\ t.prid \in PRids /\ t.req \in Links /\ client'[t.req] = client[t.req]
    BY <1>1, <1>4, <2>1, StreamRows
  <2>3. SaidOf(t.resp, t.prid) \subseteq {client[t.req][t.rrid].inv}
    BY <1>14, <2>1, EndsAt
  <2> QED
    BY <1>12, <2>2, <2>3
<1> QED
  BY <1>10, <1>11, <1>13, <1>14 DEF RequestedInv, ServingInv, SaidInv, ReqAt, ServAt

-----------------------------------------------------------------------------
\* Nothing is under way at first.
LEMMA InitEndInv ==
  Init => EndInv
<1> SUFFICES ASSUME Init PROVE EndInv
  OBVIOUS
<1>1. /\ \A k \in Links : toBroker[k] = <<>> /\ toLink[k] = <<>> /\ active[k] = {} /\ ended[k] = {}
      /\ \A k \in Links, r \in Rids : client[k][r] = Unused /\ reqTab[k][r] = NoStream
      /\ \A k \in Links, p \in PRids : respTab[k][p] = NoStream
      /\ SdkLinks \subseteq Links /\ streams = {}
  BY InvokeConstants DEF Init
<1>2. RequestedInv
  BY <1>1, RequestedUnused DEF RequestedInv
<1>3. ServingInv
  BY <1>1, ServingNothing DEF ServingInv
<1>4. SaidInv
  BY <1>1, SaidNothing DEF SaidInv, SaidOf
<1> QED
  BY <1>2, <1>3, <1>4, InitIInv DEF EndInv

\* Every step keeps the ends in agreement.
LEMMA NextEndInv ==
  EndInv /\ [Next]_vars => EndInv'
<1> SUFFICES ASSUME EndInv, [Next]_vars PROVE EndInv'
  OBVIOUS
<1>1. IInv'
  BY NextIInv DEF EndInv
<1>2. RequestedInv' /\ ServingInv' /\ SaidInv'
  <2>1. CASE UNCHANGED vars
    BY <2>1 DEF vars, tables, EndInv, RequestedInv, ServingInv, SaidInv, SaidOf
  <2>2. CASE Next
    BY <2>2, ConnectEnds, DisconnectEnds, ClientCloseEnds, ClientInvokeEnds, RefuseInvokeEnds,
       ForwardInvokeEnds, ReplaceInvokeEnds, CloseStreamEnds, ForwardResponseEnds,
       ReceiveInvokeEnds, AnswerEnds, ReceiveCloseEnds, ReceiveResponseEnds DEF Next
  <2> QED
    BY <2>1, <2>2
<1> QED
  BY <1>1, <1>2 DEF EndInv

\* A requester never reads a response after the end of an invocation, nor one
\* to another invocation: broker_handle_resp looks the rid of the responder up
\* in responder_streams, broker_stream_free takes it out with the last
\* response, and broker_node_incr_rid never uses it again (stream.c,
\* msg_handler.c, node.c).
THEOREM OwnResponsesAlways ==
  Spec => []OwnResponses
<1>1. EndInv => OwnResponses
  <2> SUFFICES ASSUME EndInv, NEW l \in SdkLinks, NEW i \in DOMAIN toLink[l], toLink[l][i].kind = "resp"
               PROVE  LET m == toLink[l][i] IN
                      /\ m.inv \in {0, client[l][m.rid].inv}
                      /\ client[l][m.rid].state \in {"open", "closed"}
                      /\ \A j \in 1..(i - 1) :
                           toLink[l][j].kind = "resp" /\ toLink[l][j].rid = m.rid => ~toLink[l][j].closed
    BY DEF OwnResponses
  <2> DEFINE m == toLink[l][i]
             r == m.rid
  <2>1. RestOK /\ l \in Links
    BY EndsAt
  <2>2. toLink[l] \in Seq(FromBroker) /\ Len(toLink[l]) \in Nat
    BY <2>1, ChannelLengths
  <2>3. i \in 1..Len(toLink[l]) /\ m \in FromBroker /\ m.kind = "resp"
    BY <2>2
  <2>4. r \in Rids /\ About(m, "resp", r)
    BY <2>3 DEF FromBroker, About
  <2>5. ReqAt(l, r)
    BY <2>4, EndsAt
  <2> HIDE DEF m, r
  <2>6. m.inv \in {0, client[l][r].inv} /\ client[l][r].state \in {"open", "closed"}
    BY <2>3, <2>4, <2>5 DEF ReqAt, Requested, m
  <2>7. ASSUME NEW j \in 1..(i - 1), toLink[l][j].kind = "resp", toLink[l][j].rid = r, toLink[l][j].closed
        PROVE  FALSE
    <3>1. j \in 1..Len(toLink[l]) /\ j < i
      BY <2>2, <2>3
    <3>2. About(toLink[l][j], "resp", r) /\ About(toLink[l][i], "resp", r)
      BY <2>4, <2>7 DEF About, m
    <3>3. i <= j
      BY <2>3, <2>5, <2>7, <3>1, <3>2 DEF ReqAt, Requested
    <3> QED
      BY <2>3, <3>1, <3>3
  <2> QED
    BY <2>6, <2>7 DEF m, r
<1> QED
  BY InitEndInv, NextEndInv, <1>1, PTL DEF Spec

\* When nothing is under way, a requester waits for an invocation exactly while
\* the broker has a stream for it, and a responder serves none that nobody
\* waits for: broker_stream_close_req and broker_stream_close_resp tell the
\* other end, a lost link (broker_remote_dslink_free) both (stream.c,
\* remote_dslink.c).
THEOREM EndsAgreeAlways ==
  Spec => []EndsAgree
<1>1. EndInv => EndsAgree
  <2> SUFFICES ASSUME EndInv, Quiet
               PROVE  /\ \A l \in up \cap SdkLinks, r \in Rids :
                           client[l][r].state = "open" <=> reqTab[l][r] # NoStream
                      /\ \A l \in up : \A e \in active[l] \ ended[l] : respTab[l][e[1]] # NoStream
    BY DEF EndsAgree
  <2>1. RestOK /\ SdkLinks \subseteq Links
    BY EndsAt
  <2>2. \A l \in Links : Len(toBroker[l]) = 0 /\ Len(toLink[l]) = 0
    BY DEF Quiet
  <2>3. ASSUME NEW l \in SdkLinks, NEW r \in Rids
        PROVE  client[l][r].state = "open" <=> reqTab[l][r] # NoStream
    <3>1. /\ ReqAt(l, r) /\ l \in Links
          /\ Lacks(toBroker[l], "invoke", r) /\ Lacks(toBroker[l], "close", r)
          /\ \A i \in 1..Len(toLink[l]) : FALSE
      BY <2>1, <2>2, <2>3, EndsAt DEF Lacks
    <3> QED
      BY <3>1 DEF ReqAt, Requested
  <2>4. ASSUME NEW l \in up, NEW e \in active[l] \ ended[l]
        PROVE  respTab[l][e[1]] # NoStream
    <3>1. l \in Links /\ e[1] \in PRids
      BY <2>1 DEF RestOK
    <3>2. ServAt(l, e[1]) /\ Lacks(toLink[l], "close", e[1])
      BY <2>2, <3>1, EndsAt DEF Lacks
    <3> QED
      BY <3>2 DEF ServAt, Serving
  <2> QED
    BY <2>3, <2>4
<1> QED
  BY InitEndInv, NextEndInv, <1>1, PTL DEF Spec
=============================================================================
