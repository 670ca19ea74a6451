------------------------- MODULE ListStreams_proofs -------------------------
(***************************************************************************)
(* Proofs about ListStreams, for any requesters, paths and bounds: the     *)
(* tables of the broker agree, a responder that has handled every request  *)
(* lists exactly what the broker has streams for, and every list comes to  *)
(* show what its node has.                                                 *)
(***************************************************************************)
EXTENDS ListStreams, FiniteSetTheorems, SequenceTheorems, TLAPS

StreamTable == [Paths -> Stream \cup {None}]
ReqTables   == [Reqs -> [Rids -> Paths \cup {None}]]
RespTable   == [PRids -> Remote \cup {None}]

\* The variables that are not tables of the broker
RestOK ==
  /\ node \in BOOLEAN /\ link \in BOOLEAN /\ nodeRid \in 0..MaxRid
  /\ virtual \subseteq {SetKey(p) : p \in Remote}
  /\ toBroker \in [Reqs -> Seq(FromReq)] /\ toReq \in [Reqs -> Seq(ToReq)]
  /\ toResp \in Seq(ToResp) /\ fromResp \in Seq(FromResp)
  /\ content \in [Paths -> SUBSET Names]
  /\ open \in RespTable /\ subs \in [Remote -> 0..MaxRid]
  /\ view \in [Reqs -> [Rids -> View]]
  /\ lost \subseteq Reqs \X Rids

\* Streams and the rows of their requesters
Joined(st, rq) ==
  /\ st \in StreamTable /\ rq \in ReqTables
  /\ \A r \in Reqs, i \in Rids : rq[r][i] # None =>
       st[rq[r][i]] # None /\ st[rq[r][i]].links[r] = i
  /\ \A p \in Paths : st[p] # None =>
       /\ st[p].links # NoLinks
       /\ \A r \in Reqs : st[p].links[r] # None => rq[r][st[p].links[r]] = p

\* Streams of remote paths and the rows of the responder, of which n rids are used
Listed(st, rs, nd, l, n) ==
  /\ rs \in RespTable
  /\ \A p \in Remote : st[p] # None => nd /\ (l => st[p].rid \in PRids /\ rs[st[p].rid] = p)
  /\ \A i \in PRids : rs[i] # None => l /\ i <= n /\ st[rs[i]] # None /\ st[rs[i]].rid = i

\* A requester never used the rids it will use (v), and the broker has no
\* stream for those it asks with (tb)
Unasked(tb, row, v) ==
  /\ \A i \in Rids : row[i] # None => v[i] # Unused
  /\ \A k \in 1..Len(tb) : tb[k].kind = "list" =>
       /\ v[tb[k].rid] # Unused /\ row[tb[k].rid] = None
       /\ \A j \in 1..Len(tb) : tb[j].kind = "list" /\ tb[j].rid = tb[k].rid => j = k

RidsUnasked == \A r \in Reqs : Unasked(toBroker[r], reqTab[r], view[r])

\* The inductive invariant of the broker
IInv == /\ RestOK /\ Joined(stream, reqTab) /\ Listed(stream, respTab, node, link, nodeRid)
        /\ RidsUnasked

-----------------------------------------------------------------------------
(***************************************************************************)
(* Streams and their requesters.                                           *)
(***************************************************************************)
\* A path that is used has a stream in the model's sense.
LEMMA JoinedRows ==
  ASSUME NEW st, NEW rq, Joined(st, rq)
  PROVE  /\ \A r \in Reqs, i \in Rids : rq[r][i] # None =>
              /\ rq[r][i] \in Paths /\ st[rq[r][i]] \in Stream /\ st[rq[r][i]] # None
              /\ st[rq[r][i]].links[r] = i
         /\ \A p \in Paths : st[p] # None =>
              /\ st[p] \in Stream /\ st[p].links \in [Reqs -> Rids \cup {None}]
              /\ st[p].links # NoLinks
              /\ \A r \in Reqs : st[p].links[r] # None =>
                   st[p].links[r] \in Rids /\ rq[r][st[p].links[r]] = p
BY NoStreamIsNone DEF Joined, StreamTable, ReqTables, Stream

\* A rid without a stream joins one, or a stream that has no requester yet.
LEMMA JoinedAdds ==
  ASSUME NEW st, NEW rq, Joined(st, rq), NEW r \in Reqs, NEW rid \in Rids, NEW p \in Paths,
         rq[r][rid] = None, NEW s \in Stream, s = st[p] \/ (st[p] = None /\ s.links = NoLinks)
  PROVE  Joined([st EXCEPT ![p] = [s EXCEPT !.links = Added(s.links, r, rid)]],
                TabAdded(rq, s.links, r, rid, p))
<1> DEFINE s2  == [s EXCEPT !.links = Added(s.links, r, rid)]
           st2 == [st EXCEPT ![p] = s2]
           rq2 == TabAdded(rq, s.links, r, rid, p)
<1>1. None \notin Rids /\ None \notin Paths /\ None \notin Stream
  BY ListConstants, NoStreamIsNone DEF Paths
<1>2. s.links \in [Reqs -> Rids \cup {None}]
  BY DEF Stream
<1>3. /\ s2 \in Stream /\ s2.links[r] = rid /\ \A q \in Reqs : q # r => s2.links[q] = s.links[q]
      /\ s2.links \in [Reqs -> Rids \cup {None}]
  BY <1>2 DEF Stream, Added
<1>4. st \in StreamTable /\ rq \in ReqTables
  BY DEF Joined
<1>5. st2 \in StreamTable /\ st2[p] = s2 /\ \A q \in Paths : q # p => st2[q] = st[q]
  BY <1>3, <1>4 DEF StreamTable
<1>6. /\ rq2 \in ReqTables
      /\ \A q \in Reqs, i \in Rids :
           rq2[q][i] = IF q = r THEN (IF i = rid THEN p ELSE IF i = s.links[r] THEN None ELSE rq[q][i])
                       ELSE rq[q][i]
  BY <1>4 DEF ReqTables, TabAdded
<1>7. \A q \in Reqs : s.links[q] # None => s.links[q] \in Rids /\ st[p] # None /\ rq[q][s.links[q]] = p
  BY <1>1, <1>2, JoinedRows DEF NoLinks
<1> HIDE DEF s2, st2, rq2
<1>8. ASSUME NEW q \in Reqs, NEW i \in Rids, rq2[q][i] # None
      PROVE  st2[rq2[q][i]] # None /\ st2[rq2[q][i]].links[q] = i
  <2>1. CASE q = r /\ i = rid
    BY <1>1, <1>3, <1>5, <1>6, <2>1
  <2>2. CASE ~(q = r /\ i = rid)
    <3>1. /\ rq2[q][i] = rq[q][i] /\ rq[q][i] \in Paths /\ st[rq[q][i]] # None /\ st[rq[q][i]].links[q] = i
          /\ q = r => i # s.links[r]
      BY <1>6, <1>8, <2>2, JoinedRows
    <3>2. CASE rq[q][i] = p
      <4>1. s = st[p] /\ q # r
        BY <3>1, <3>2
      <4> QED
        BY <1>1, <1>3, <1>5, <3>1, <3>2, <4>1
    <3>3. CASE rq[q][i] # p
      BY <1>5, <3>1, <3>3
    <3> QED
      BY <3>2, <3>3
  <2> QED
    BY <2>1, <2>2
<1>9. ASSUME NEW t \in Paths, st2[t] # None
      PROVE  /\ st2[t].links # NoLinks
             /\ \A q \in Reqs : st2[t].links[q] # None => rq2[q][st2[t].links[q]] = t
  <2>1. CASE t = p
    <3>1. st2[t].links # NoLinks
      BY <1>1, <1>3, <1>5, <2>1 DEF NoLinks
    <3>2. ASSUME NEW q \in Reqs, st2[t].links[q] # None PROVE rq2[q][st2[t].links[q]] = t
      <4>1. CASE q = r
        BY <1>3, <1>5, <1>6, <2>1, <4>1
      <4>2. CASE q # r
        <5>1. st2[t].links[q] = s.links[q]
          BY <1>3, <1>5, <2>1, <4>2
        <5> QED
          BY <1>6, <1>7, <2>1, <3>2, <4>2, <5>1
      <4> QED
        BY <4>1, <4>2
    <3> QED
      BY <3>1, <3>2
  <2>2. CASE t # p
    <3>1. st2[t] = st[t] /\ st[t] # None
      BY <1>5, <1>9, <2>2
    <3>2. ASSUME NEW q \in Reqs, st[t].links[q] # None PROVE rq2[q][st[t].links[q]] = t
      <4>1. st[t].links[q] \in Rids /\ rq[q][st[t].links[q]] = t
        BY <3>1, <3>2, JoinedRows
      <4>2. q = r => st[t].links[q] # rid /\ st[t].links[q] # s.links[r]
        BY <1>1, <1>7, <2>2, <3>2, <4>1
      <4> QED
        BY <1>6, <4>1, <4>2
    <3> QED
      BY <3>1, <3>2, JoinedRows
  <2> QED
    BY <2>1, <2>2
<1> QED
  BY <1>5, <1>6, <1>8, <1>9 DEF Joined, s2, st2, rq2

\* The streams after r has left the paths ps
Left(st, r, ps) ==
  [p \in Paths |-> IF p \in ps /\ Alone(st[p].links, r) THEN None
                   ELSE IF p \in ps THEN [st[p] EXCEPT !.links[r] = None] ELSE st[p]]

\* A requester leaves the streams of some of its rids.
LEMMA JoinedLeaves ==
  ASSUME NEW st, NEW rq, Joined(st, rq), NEW r \in Reqs, NEW I \in SUBSET Rids, NEW rq2 \in ReqTables,
         \A q \in Reqs, i \in Rids : rq2[q][i] = IF q = r /\ i \in I THEN None ELSE rq[q][i]
  PROVE  Joined(Left(st, r, {rq[r][i] : i \in I} \ {None}), rq2)
<1> DEFINE ps  == {rq[r][i] : i \in I} \ {None}
           st2 == Left(st, r, ps)
<1>1. None \notin Rids /\ None \notin Paths /\ None \notin Stream
  BY ListConstants, NoStreamIsNone DEF Paths
<1>2. \A p \in ps : p \in Paths /\ st[p] # None /\ st[p] \in Stream /\ st[p].links[r] \in I /\ rq[r][st[p].links[r]] = p
                    /\ st[p].links \in [Reqs -> Rids \cup {None}]
  BY JoinedRows DEF Stream
<1>3. \A p \in Paths : st[p] # None /\ st[p].links[r] \in I => p \in ps
  BY <1>1, JoinedRows
<1> HIDE DEF ps
<1>4. ASSUME NEW p \in Paths
      PROVE  /\ p \notin ps => st2[p] = st[p]
             /\ p \in ps /\ Alone(st[p].links, r) => st2[p] = None
             /\ p \in ps /\ ~Alone(st[p].links, r) =>
                  /\ st2[p] \in Stream /\ st2[p].links[r] = None
                  /\ st2[p].links \in [Reqs -> Rids \cup {None}]
                  /\ \A q \in Reqs : q # r => st2[p].links[q] = st[p].links[q]
  <2>1. st2[p] = IF p \in ps /\ Alone(st[p].links, r) THEN None
                 ELSE IF p \in ps THEN [st[p] EXCEPT !.links[r] = None] ELSE st[p]
    BY DEF Left
  <2> HIDE DEF st2
  <2>2. p \in ps /\ ~Alone(st[p].links, r) =>
          /\ st2[p] \in Stream /\ st2[p].links[r] = None
          /\ st2[p].links \in [Reqs -> Rids \cup {None}]
          /\ \A q \in Reqs : q # r => st2[p].links[q] = st[p].links[q]
    BY <1>2, <2>1 DEF Stream
  <2> QED
    BY <2>1, <2>2
<1>5. st2 \in StreamTable
  <2>1. \A p \in Paths : st2[p] \in Stream \cup {None}
    BY <1>2, <1>4 DEF Joined, StreamTable
  <2>2. st2 = [p \in Paths |-> st2[p]]
    BY DEF Left
  <2> QED
    BY <2>1, <2>2 DEF StreamTable
<1> HIDE DEF st2
<1>6. ASSUME NEW q \in Reqs, NEW i \in Rids, rq2[q][i] # None
      PROVE  st2[rq2[q][i]] # None /\ st2[rq2[q][i]].links[q] = i
  <2> DEFINE p == rq[q][i]
  <2>1. rq2[q][i] = p /\ ~(q = r /\ i \in I) /\ p # None
    BY <1>6
  <2>2. p \in Paths /\ st[p] # None /\ st[p].links[q] = i
    BY <2>1, JoinedRows
  <2> HIDE DEF p
  <2>3. CASE p \in ps
    <3>1. q # r
      BY <1>2, <2>1, <2>2, <2>3
    <3>2. ~Alone(st[p].links, r)
      BY <1>1, <2>2, <3>1 DEF Alone
    <3> QED
      BY <1>1, <1>4, <2>1, <2>2, <2>3, <3>1, <3>2
  <2>4. CASE p \notin ps
    BY <1>4, <2>1, <2>2, <2>4
  <2> QED
    BY <2>3, <2>4
<1>7. ASSUME NEW p \in Paths, st2[p] # None
      PROVE  /\ st2[p].links # NoLinks
             /\ \A q \in Reqs : st2[p].links[q] # None => rq2[q][st2[p].links[q]] = p
  <2>1. CASE p \in ps
    <3>1. ~Alone(st[p].links, r) /\ st[p] # None
      BY <1>2, <1>4, <1>7, <2>1
    <3>2. PICK q \in Reqs : q # r /\ st[p].links[q] # None
      BY <3>1 DEF Alone
    <3>3. st2[p].links # NoLinks
      BY <1>4, <2>1, <3>1, <3>2 DEF NoLinks
    <3>4. ASSUME NEW t \in Reqs, st2[p].links[t] # None PROVE rq2[t][st2[p].links[t]] = p
      <4>1. t # r /\ st2[p].links[t] = st[p].links[t]
        BY <1>4, <2>1, <3>1, <3>4
      <4>2. st[p].links[t] \in Rids /\ rq[t][st[p].links[t]] = p
        BY <3>1, <3>4, <4>1, JoinedRows
      <4> QED
        BY <4>1, <4>2
    <3> QED
      BY <3>3, <3>4
  <2>2. CASE p \notin ps
    <3>1. st2[p] = st[p] /\ st[p] # None
      BY <1>4, <1>7, <2>2
    <3>2. ASSUME NEW t \in Reqs, st[p].links[t] # None PROVE rq2[t][st[p].links[t]] = p
      <4>1. st[p].links[t] \in Rids /\ rq[t][st[p].links[t]] = p
        BY <3>1, <3>2, JoinedRows
      <4>2. ~(t = r /\ st[p].links[t] \in I)
        BY <1>3, <2>2, <3>1
      <4> QED
        BY <4>1, <4>2
    <3> QED
      BY <3>1, <3>2, JoinedRows
  <2> QED
    BY <2>1, <2>2
<1> QED
  BY <1>5, <1>6, <1>7 DEF Joined, st2, ps

\* What happens to the rids and caches of streams is nothing to their requesters.
LEMMA JoinedSame ==
  ASSUME NEW st, NEW rq, Joined(st, rq), NEW st2 \in StreamTable,
         \A p \in Paths : /\ st2[p] = None <=> st[p] = None
                          /\ st[p] # None => st2[p].links = st[p].links
  PROVE  Joined(st2, rq)
<1>1. \A r \in Reqs, i \in Rids : rq[r][i] # None => rq[r][i] \in Paths
  BY JoinedRows
<1> QED
  BY <1>1 DEF Joined

-----------------------------------------------------------------------------
(***************************************************************************)
(* Streams of remote paths and the responder.                              *)
(***************************************************************************)
\* The rids of the streams stay.
LEMMA ListedSame ==
  ASSUME NEW st, NEW st2, NEW rs, NEW nd, NEW l, NEW n, Listed(st, rs, nd, l, n),
         \A p \in Remote : /\ st2[p] = None <=> st[p] = None
                           /\ st[p] # None => st2[p].rid = st[p].rid
  PROVE  Listed(st2, rs, nd, l, n)
<1>1. \A i \in PRids : rs[i] # None => rs[i] \in Remote
  BY DEF Listed, RespTable
<1> QED
  BY <1>1 DEF Listed

\* Without the responder there is no row.
LEMMA ListedAway ==
  ASSUME NEW st, NEW rs \in RespTable, NEW nd, NEW n, \A i \in PRids : rs[i] = None,
         \A p \in Remote : st[p] # None => nd
  PROVE  Listed(st, rs, nd, FALSE, n)
BY DEF Listed

\* Of the streams st2 that of p is new, with the rid i.
NewStream(st, st2, p, i) ==
  /\ st[p] = None /\ st2[p] # None /\ st2[p].rid = i
  /\ \A q \in Remote : q # p => st2[q] = st[q]

\* A new stream under the next rid
LEMMA ListedAdds ==
  ASSUME NEW st, NEW st2, NEW rs, NEW nd, NEW n \in Nat, Listed(st, rs, nd, TRUE, n), nd,
         NEW p \in Remote, n + 1 \in PRids, NewStream(st, st2, p, n + 1)
  PROVE  /\ rs[n + 1] = None
         /\ Listed(st2, [rs EXCEPT ![n + 1] = p], nd, TRUE, n + 1)
<1> DEFINE m   == n + 1
           rs2 == [rs EXCEPT ![m] = p]
<1>0. /\ st[p] = None /\ st2[p] # None /\ st2[p].rid = n + 1
      /\ \A q \in Remote : q # p => st2[q] = st[q]
  BY DEF NewStream
<1>1. m \in PRids /\ n < m /\ rs \in RespTable /\ \A i \in PRids : i \in Nat
  BY DEF PRids, Listed
<1>2. rs2 \in RespTable /\ rs2[m] = p /\ \A i \in PRids : i # m => rs2[i] = rs[i]
  BY <1>1 DEF RespTable
<1>3. rs[m] = None
  BY <1>1 DEF Listed
<1>4. p # None
  BY ListConstants
<1> HIDE DEF m, rs2
<1>5. st2[p].rid = m
  BY <1>0 DEF m
<1>6. ASSUME NEW q \in Remote, st2[q] # None PROVE st2[q].rid \in PRids /\ rs2[st2[q].rid] = q
  <2>1. CASE q = p
    BY <1>1, <1>2, <1>5, <2>1
  <2>2. CASE q # p
    <3>1. st2[q] = st[q] /\ st[q] # None /\ q # None
      BY <1>0, <1>6, <2>2, ListConstants
    <3>2. st[q].rid \in PRids /\ rs[st[q].rid] = q
      BY <3>1 DEF Listed
    <3> QED
      BY <1>2, <1>3, <3>1, <3>2
  <2> QED
    BY <2>1, <2>2
<1>7. ASSUME NEW i \in PRids, rs2[i] # None
      PROVE  i <= m /\ st2[rs2[i]] # None /\ st2[rs2[i]].rid = i
  <2>1. CASE i = m
    BY <1>0, <1>1, <1>2, <1>5, <2>1
  <2>2. CASE i # m
    <3>1. rs2[i] = rs[i] /\ rs[i] # None /\ rs[i] \in Remote
      BY <1>1, <1>2, <1>7, <2>2 DEF RespTable
    <3>2. i <= n /\ st[rs[i]] # None /\ st[rs[i]].rid = i
      BY <3>1 DEF Listed
    <3>3. rs[i] # p
      BY <1>0, <3>2
    <3> QED
      BY <1>0, <1>1, <3>1, <3>2, <3>3
  <2> QED
    BY <2>1, <2>2
<1> QED
  BY <1>2, <1>3, <1>6, <1>7 DEF Listed, m, rs2

\* The streams of ends go from st, and the rids told from rs
Sheds(st, rs, st2, rs2, ends, told) ==
  /\ \A p \in ends : st[p] # None
  /\ \A p \in Remote : /\ st2[p] = None <=> (st[p] = None \/ p \in ends)
                       /\ st2[p] # None => st2[p].rid = st[p].rid
  /\ \A i : i \in told <=> \E p \in ends \cap Remote : i = st[p].rid
  /\ rs2 \in RespTable /\ \A i \in PRids : rs2[i] = IF i \in told THEN None ELSE rs[i]

\* Streams go together with their rids.
LEMMA ListedLeaves ==
  ASSUME NEW st, NEW st2, NEW rs, NEW rs2, NEW nd, NEW n, Listed(st, rs, nd, TRUE, n),
         NEW ends, NEW told, Sheds(st, rs, st2, rs2, ends, told)
  PROVE  Listed(st2, rs2, nd, TRUE, n)
<1>1. \A i \in PRids : rs[i] # None => rs[i] \in Remote
  BY DEF Listed, RespTable
<1>2. \A p \in ends \cap Remote : st[p].rid \in PRids /\ rs[st[p].rid] = p
  BY DEF Listed, Sheds
<1>3. ASSUME NEW p \in Remote, st2[p] # None PROVE st2[p].rid \in PRids /\ rs2[st2[p].rid] = p
  <2>1. st[p] # None /\ p \notin ends /\ st2[p].rid = st[p].rid
    BY <1>3 DEF Sheds
  <2>2. st[p].rid \in PRids /\ rs[st[p].rid] = p
    BY <2>1 DEF Listed
  <2>3. st[p].rid \notin told
    BY <1>2, <2>1, <2>2 DEF Sheds
  <2> QED
    BY <2>1, <2>2, <2>3 DEF Sheds
<1>4. ASSUME NEW i \in PRids, rs2[i] # None
      PROVE  i <= n /\ st2[rs2[i]] # None /\ st2[rs2[i]].rid = i
  <2>1. rs2[i] = rs[i] /\ i \notin told
    BY <1>4 DEF Sheds
  <2>2. rs[i] \in Remote /\ i <= n /\ st[rs[i]] # None /\ st[rs[i]].rid = i
    BY <1>1, <1>4, <2>1 DEF Listed
  <2>3. rs[i] \notin ends
    BY <2>1, <2>2 DEF Sheds
  <2> QED
    BY <2>1, <2>2, <2>3 DEF Sheds
<1>5. (\A p \in Remote : st2[p] # None => nd) /\ rs2 \in RespTable
  BY DEF Listed, Sheds
<1> QED
  BY <1>3, <1>4, <1>5 DEF Listed

\* An enumeration of a finite set is a sequence that has every element once.
LEMMA OrdersAll ==
  ASSUME NEW S, IsFiniteSet(S), NEW a \in Orders(S)
  PROVE  /\ Cardinality(S) \in Nat /\ a \in [1..Cardinality(S) -> S]
         /\ a \in Seq(S) /\ Len(a) = Cardinality(S) /\ DOMAIN a = 1..Len(a)
         /\ \A i, j \in 1..Len(a) : a[i] = a[j] => i = j
         /\ \A x \in S : \E i \in 1..Len(a) : a[i] = x
<1> DEFINE n == Cardinality(S)
<1>1. n \in Nat
  BY FS_CardinalityType
<1>2. a \in [1..n -> S] /\ \A i, j \in 1..n : a[i] = a[j] => i = j
  BY DEF Orders, IsInjective
<1>3. IsFiniteSet(1..n) /\ Cardinality(1..n) = n
  BY <1>1, FS_Interval
<1>4. a \in Injection(1..n, S)
  BY <1>2 DEF Injection, IsInjective
<1>5. a \in Surjection(1..n, S)
  BY <1>3, <1>4, FS_Injection, FS_Surjection
<1>6. a \in Seq(S) /\ Len(a) = n
  BY <1>1, <1>2
<1> QED
  BY <1>1, <1>2, <1>5, <1>6 DEF Surjection

\* The streams of st get the rids after n, in the order of a
Renumbered(st, st2, rs2, n, a) ==
  /\ a \in Orders({p \in Remote : st[p] # None}) /\ n + Len(a) \in 0..MaxRid
  /\ rs2 = [i \in PRids |-> IF i - n \in DOMAIN a THEN a[i - n] ELSE None]
  /\ \A p \in Remote :
       /\ st2[p] = None <=> st[p] = None
       /\ st2[p] # None => st2[p].rid = n + (CHOOSE i \in DOMAIN a : a[i] = p)

\* A responder that connects is asked for every stream under a new rid.
LEMMA ListedAnew ==
  ASSUME NEW st, NEW st2, NEW n \in Nat, NEW a, NEW rs2, Renumbered(st, st2, rs2, n, a)
  PROVE  Listed(st2, rs2, TRUE, TRUE, n + Len(a))
<1> DEFINE S == {p \in Remote : st[p] # None}
<1> USE DEF Renumbered
<1>1. IsFiniteSet(S) /\ S \subseteq Remote
  BY ListConstants, FS_Subset
<1>2. /\ a \in Seq(S) /\ DOMAIN a = 1..Len(a) /\ Len(a) \in Nat
      /\ \A i, j \in 1..Len(a) : a[i] = a[j] => i = j
      /\ \A x \in S : \E i \in 1..Len(a) : a[i] = x
  BY <1>1, OrdersAll
<1>3. /\ \A i \in PRids : i \in Nat
      /\ \A i \in 1..Len(a) : n + i \in PRids /\ a[i] \in S
      /\ \A i \in PRids : i - n \in 1..Len(a) => i <= n + Len(a) /\ n + (i - n) = i
  BY <1>2, ListConstants DEF PRids
<1> HIDE DEF S
<1>4. \A p \in S : /\ (CHOOSE i \in DOMAIN a : a[i] = p) \in 1..Len(a)
                   /\ a[CHOOSE i \in DOMAIN a : a[i] = p] = p
  BY <1>2
<1>5. rs2 \in RespTable
  BY <1>1, <1>2, <1>3 DEF RespTable
<1>6. ASSUME NEW p \in Remote, st2[p] # None PROVE st2[p].rid \in PRids /\ rs2[st2[p].rid] = p
  <2> DEFINE c == CHOOSE i \in DOMAIN a : a[i] = p
  <2>1. p \in S
    BY <1>6 DEF S
  <2>2. c \in 1..Len(a) /\ a[c] = p /\ st2[p].rid = n + c
    BY <1>4, <1>6, <2>1
  <2> HIDE DEF c
  <2>3. n + c \in PRids /\ (n + c) - n = c
    BY <1>2, <1>3, <2>2
  <2> QED
    BY <1>2, <2>2, <2>3
<1>7. ASSUME NEW i \in PRids, rs2[i] # None
      PROVE  i <= n + Len(a) /\ st2[rs2[i]] # None /\ st2[rs2[i]].rid = i
  <2>1. i - n \in 1..Len(a) /\ rs2[i] = a[i - n]
    BY <1>2, <1>7
  <2> DEFINE p == a[i - n]
             c == CHOOSE j \in DOMAIN a : a[j] = p
  <2>2. p \in S
    BY <1>3, <2>1
  <2>3. c \in 1..Len(a) /\ a[c] = p
    BY <1>4, <2>2
  <2>4. c = i - n
    BY <1>2, <2>1, <2>3
  <2>5. p \in Remote /\ st2[p] # None /\ st2[p].rid = n + c
    BY <1>1, <2>2 DEF S
  <2> HIDE DEF p, c
  <2>6. n + (i - n) = i /\ i <= n + Len(a) /\ rs2[i] = p
    BY <1>3, <2>1 DEF p
  <2> QED
    BY <2>4, <2>5, <2>6
<1> QED
  BY <1>5, <1>6, <1>7 DEF Listed

-----------------------------------------------------------------------------
(***************************************************************************)
(* The rids of a requester, and the types of messages.                     *)
(***************************************************************************)
\* A view that knows more, and a table with fewer rows
LEMMA UnaskedKeeps ==
  ASSUME NEW tb \in Seq(FromReq), NEW row, NEW row2, NEW v, NEW v2, Unasked(tb, row, v),
         \A i \in Rids : row2[i] # None => row[i] # None,
         \A i \in Rids : v[i] # Unused => v2[i] # Unused
  PROVE  Unasked(tb, row2, v2)
<1>1. \A k \in 1..Len(tb) : tb[k].kind = "list" => tb[k].rid \in Rids
  BY DEF FromReq
<1> QED
  BY <1>1 DEF Unasked

\* The requester asks for a list under a rid it has not used.
LEMMA UnaskedAsks ==
  ASSUME NEW tb \in Seq(FromReq), NEW row, NEW v, NEW v2, Unasked(tb, row, v),
         NEW rid \in Rids, NEW p \in Paths, v[rid] = Unused, v2[rid] # Unused,
         \A i \in Rids : v[i] # Unused => v2[i] # Unused
  PROVE  Unasked(Append(tb, List(rid, p)), row, v2)
<1> DEFINE q == Append(tb, List(rid, p))
           n == Len(tb)
<1>1. n \in Nat /\ Len(q) = n + 1 /\ q[n + 1] = List(rid, p) /\ \A k \in 1..n : q[k] = tb[k]
  BY AppendProperties
<1>2. List(rid, p).kind = "list" /\ List(rid, p).rid = rid
  BY DEF List
<1>3. \A k \in 1..n : tb[k].kind = "list" => tb[k].rid \in Rids /\ v[tb[k].rid] # Unused
  BY DEF FromReq, Unasked
<1>4. row[rid] = None
  BY DEF Unasked
<1> HIDE DEF q
<1>5. ASSUME NEW k \in 1..Len(q), q[k].kind = "list"
      PROVE  /\ v2[q[k].rid] # Unused /\ row[q[k].rid] = None
             /\ \A j \in 1..Len(q) : q[j].kind = "list" /\ q[j].rid = q[k].rid => j = k
  <2>1. CASE k = n + 1
    BY <1>1, <1>2, <1>3, <1>4, <2>1
  <2>2. CASE k \in 1..n
    <3>1. q[k] = tb[k] /\ tb[k].rid # rid /\ tb[k].rid \in Rids
      BY <1>1, <1>3, <1>5, <2>2
    <3>2. v2[q[k].rid] # Unused /\ row[q[k].rid] = None
      BY <1>5, <2>2, <3>1 DEF Unasked
    <3>3. ASSUME NEW j \in 1..Len(q), q[j].kind = "list", q[j].rid = q[k].rid PROVE j = k
      <4>1. j # n + 1
        BY <1>1, <1>2, <3>1, <3>3
      <4>2. j \in 1..n /\ q[j] = tb[j]
        BY <1>1, <4>1
      <4> QED
        BY <1>5, <2>2, <3>1, <3>3, <4>2 DEF Unasked
    <3> QED
      BY <3>2, <3>3
  <2> QED
    BY <1>1, <2>1, <2>2
<1>6. \A i \in Rids : row[i] # None => v2[i] # Unused
  BY DEF Unasked
<1> QED
  BY <1>5, <1>6 DEF Unasked, q

\* The requester closes a list.
LEMMA UnaskedCloses ==
  ASSUME NEW tb \in Seq(FromReq), NEW row, NEW v, Unasked(tb, row, v), NEW rid \in Rids
  PROVE  Unasked(Append(tb, Close(rid)), row, v)
<1> DEFINE q == Append(tb, Close(rid))
           n == Len(tb)
<1>1. n \in Nat /\ Len(q) = n + 1 /\ q[n + 1] = Close(rid) /\ \A k \in 1..n : q[k] = tb[k]
  BY AppendProperties
<1>2. Close(rid).kind # "list"
  BY DEF Close
<1> HIDE DEF q
<1>3. \A k \in 1..Len(q) : q[k].kind = "list" => k \in 1..n /\ q[k] = tb[k]
  BY <1>1, <1>2
<1> QED
  BY <1>3 DEF Unasked, q

\* The broker takes a request. A row that is new is that of the list taken.
LEMMA UnaskedTakes ==
  ASSUME NEW tb \in Seq(FromReq), tb # <<>>, NEW row, NEW row2, NEW v, Unasked(tb, row, v),
         \A i \in Rids : row2[i] # None =>
           row[i] # None \/ (Head(tb).kind = "list" /\ i = Head(tb).rid)
  PROVE  Unasked(Tail(tb), row2, v)
<1> DEFINE q == Tail(tb)
           n == Len(q)
<1>1. n \in Nat /\ Len(tb) = n + 1 /\ tb[1] = Head(tb) /\ \A k \in 1..n : q[k] = tb[k + 1]
  OBVIOUS
<1> HIDE DEF q, n
<1>2. \A k \in 1..n : tb[k + 1].kind = "list" =>
        /\ tb[k + 1].rid \in Rids /\ v[tb[k + 1].rid] # Unused /\ row[tb[k + 1].rid] = None
  BY <1>1 DEF FromReq, Unasked
<1>3. \A j, k \in 1..Len(tb) : tb[j].kind = "list" /\ tb[k].kind = "list" /\ tb[j].rid = tb[k].rid => j = k
  BY DEF Unasked
<1>4. \A i \in Rids : row2[i] # None => v[i] # Unused
  BY <1>1 DEF Unasked
<1>5. ASSUME NEW k \in 1..n, q[k].kind = "list"
      PROVE  /\ v[q[k].rid] # Unused /\ row2[q[k].rid] = None
             /\ \A j \in 1..n : q[j].kind = "list" /\ q[j].rid = q[k].rid => j = k
  <2>1. q[k] = tb[k + 1] /\ k + 1 \in 1..Len(tb) /\ 1 \in 1..Len(tb) /\ k + 1 # 1
    BY <1>1
  <2>2. Head(tb).kind = "list" => Head(tb).rid # q[k].rid
    BY <1>1, <1>3, <1>5, <2>1
  <2>3. v[q[k].rid] # Unused /\ row2[q[k].rid] = None
    BY <1>2, <1>5, <2>1, <2>2
  <2>4. ASSUME NEW j \in 1..n, q[j].kind = "list", q[j].rid = q[k].rid PROVE j = k
    <3>1. q[j] = tb[j + 1] /\ j + 1 \in 1..Len(tb)
      BY <1>1
    <3>2. j + 1 = k + 1
      BY <1>3, <1>5, <2>1, <2>4, <3>1
    <3> QED
      BY <1>1, <3>2
  <2> QED
    BY <2>3, <2>4
<1> QED
  BY <1>4, <1>5 DEF Unasked, q, n

\* Nothing is asked for over an empty channel.
LEMMA UnaskedNothing ==
  ASSUME NEW row, NEW v, \A i \in Rids : row[i] # None => v[i] # Unused
  PROVE  Unasked(<<>>, row, v)
BY DEF Unasked

\* What is known of a rid in use is not that it is unused.
LEMMA UsedViews ==
  ASSUME NEW x, x.state # "unused"
  PROVE  x # Unused
BY DEF Unused, Seen

\* The caches and the messages of the model
LEMMA CacheTypes ==
  /\ NoUpdates \in Cache /\ Offline \in Cache
  /\ \A p \in Remote : Reset(p) \in Cache
  /\ \A p \in Paths : content[p] \subseteq Names => OwnCache(p) \in Cache
BY DEF Cache, NoUpdates, Offline, Reset, OwnCache, Items

\* The messages are those of the channels.
LEMMA MessageTypes ==
  /\ \A i \in Rids, p \in Paths : List(i, p) \in FromReq
  /\ \A i \in Rids : Close(i) \in FromReq
  /\ \A i \in Rids, c \in Cache : Updates(i, c) \in ToReq
  /\ \A i \in Rids, n \in Items, b \in BOOLEAN : Change(i, n, b) \in ToReq
  /\ \A i \in Rids : Closed(i) \in ToReq
  /\ \A i \in PRids, p \in Remote : List(i, p) \in ToResp
  /\ \A i \in PRids : Close(i) \in ToResp
  /\ \A i \in PRids, n \in Names, b \in BOOLEAN : Change(i, n, b) \in FromResp
BY DEF FromReq, ToReq, ToResp, FromResp, List, Close, Updates, Change, Closed

\* A message to every requester of a stream
LEMMA ToAllType ==
  ASSUME toReq \in [Reqs -> Seq(ToReq)], NEW links \in [Reqs -> Rids \cup {None}],
         NEW msg \in [Rids -> ToReq]
  PROVE  ToAll(links, msg) \in [Reqs -> Seq(ToReq)]
<1>1. \A r \in Reqs : links[r] # None => msg[links[r]] \in ToReq
  OBVIOUS
<1> QED
  BY <1>1 DEF ToAll

\* The first updates of a requester that joins
LEMMA FirstUpdatesType ==
  ASSUME toReq \in [Reqs -> Seq(ToReq)], NEW r \in Reqs, NEW rid \in Rids, NEW c \in Cache
  PROVE  FirstUpdates(r, rid, c) \in [Reqs -> Seq(ToReq)]
<1>1. Updates(rid, c) \in ToReq
  BY MessageTypes
<1> QED
  BY <1>1 DEF FirstUpdates

\* What the broker takes from a requester
LEMMA RequestType ==
  ASSUME RestOK, NEW r \in Reqs, NEW kind, Request(r, kind)
  PROVE  /\ toBroker' \in [Reqs -> Seq(FromReq)] /\ toBroker[r] # <<>>
         /\ Head(toBroker[r]) \in FromReq /\ Head(toBroker[r]).kind = kind
         /\ Head(toBroker[r]).rid \in Rids
         /\ kind = "list" => Head(toBroker[r]).path \in Paths
         /\ \A q \in Reqs : toBroker'[q] = IF q = r THEN Tail(toBroker[r]) ELSE toBroker[q]
<1>1. toBroker[r] \in Seq(FromReq) /\ toBroker[r] # <<>> /\ Head(toBroker[r]).kind = kind
  BY DEF RestOK, Request
<1>2. Head(toBroker[r]) \in FromReq /\ Tail(toBroker[r]) \in Seq(FromReq)
  BY <1>1
<1>3. Head(toBroker[r]).rid \in Rids /\ (kind = "list" => Head(toBroker[r]).path \in Paths)
  BY <1>1, <1>2 DEF FromReq
<1> QED
  BY <1>1, <1>2, <1>3 DEF RestOK, Request

-----------------------------------------------------------------------------
(***************************************************************************)
(* The inductive invariant, one action at a time.                          *)
(***************************************************************************)
\* What IInv says of a requester, and of the streams
LEMMA IInvAt ==
  ASSUME IInv
  PROVE  /\ RestOK /\ Joined(stream, reqTab) /\ Listed(stream, respTab, node, link, nodeRid)
         /\ stream \in StreamTable /\ reqTab \in ReqTables /\ respTab \in RespTable
         /\ \A r \in Reqs : Unasked(toBroker[r], reqTab[r], view[r]) /\ toBroker[r] \in Seq(FromReq)
         /\ nodeRid \in Nat /\ None \notin Rids /\ None \notin Paths /\ None \notin Stream
BY ListConstants, NoStreamIsNone DEF IInv, RestOK, Joined, Listed, RidsUnasked, Paths

\* A requester asks under a rid that was never used.
LEMMA ClientListStep ==
  ASSUME IInv, NEW r \in Reqs, NEW rid \in Rids, NEW p \in Paths, ClientList(r, rid, p)
  PROVE  IInv'
<1>1. /\ view[r][rid] = Unused
      /\ view' = [view EXCEPT ![r] = [i \in Rids |-> IF i = rid THEN Seen(p, "open")
                ELSE IF @[i].state = "open" /\ @[i].path = p THEN Seen(p, "replaced") ELSE @[i]]]
      /\ toBroker' = [toBroker EXCEPT ![r] = Append(@, List(rid, p))]
      /\ lost' = StillOpen
      /\ UNCHANGED <<node, link, nodeRid, virtual, stream, reqTab, respTab, toReq, toResp, fromResp,
                     content, open, subs>>
  BY DEF ClientList, broker, responder
<1>2. RestOK /\ Unasked(toBroker[r], reqTab[r], view[r]) /\ toBroker[r] \in Seq(FromReq)
  BY IInvAt
<1>3. \A i \in Rids : view'[r][i] = IF i = rid THEN Seen(p, "open")
             ELSE IF view[r][i].state = "open" /\ view[r][i].path = p THEN Seen(p, "replaced")
             ELSE view[r][i]
  BY <1>1, <1>2 DEF RestOK
<1>4. Seen(p, "open") \in View /\ Seen(p, "replaced") \in View
  BY DEF Seen, View
<1>5. view' \in [Reqs -> [Rids -> View]] /\ \A q \in Reqs : q # r => view'[q] = view[q]
  BY <1>1, <1>2, <1>4 DEF RestOK
<1>6. \A i \in Rids : (i = rid \/ view[r][i] # Unused) => view'[r][i] # Unused
  BY <1>3 DEF Seen, Unused
<1>7. lost' \subseteq Reqs \X Rids
  BY <1>1, <1>2 DEF RestOK, StillOpen
<1>8. toBroker' \in [Reqs -> Seq(FromReq)] /\ toBroker'[r] = Append(toBroker[r], List(rid, p))
      /\ \A q \in Reqs : q # r => toBroker'[q] = toBroker[q]
  <2>1. List(rid, p) \in FromReq
    BY MessageTypes
  <2> QED
    BY <1>1, <1>2, <2>1 DEF RestOK
<1>9. Unasked(Append(toBroker[r], List(rid, p)), reqTab[r], view'[r])
  BY <1>1, <1>2, <1>6, UnaskedAsks
<1>10. RidsUnasked'
  BY <1>1, <1>5, <1>8, <1>9, IInvAt DEF RidsUnasked
<1> QED
  BY <1>1, <1>2, <1>5, <1>7, <1>8, <1>10 DEF IInv, RestOK

\* A requester closes a list of its own.
LEMMA ClientCloseStep ==
  ASSUME IInv, NEW r \in Reqs, NEW rid \in Rids, ClientClose(r, rid)
  PROVE  IInv'
<1>1. /\ view' = [view EXCEPT ![r][rid] = Seen(@.path, "closed")]
      /\ toBroker' = [toBroker EXCEPT ![r] = Append(@, Close(rid))]
      /\ lost' = StillOpen
      /\ UNCHANGED <<node, link, nodeRid, virtual, stream, reqTab, respTab, toReq, toResp, fromResp,
                     content, open, subs>>
  BY DEF ClientClose, broker, responder
<1>2. RestOK /\ Unasked(toBroker[r], reqTab[r], view[r]) /\ toBroker[r] \in Seq(FromReq)
  BY IInvAt
<1>3. view[r][rid].path \in Paths \cup {None}
  BY <1>2 DEF RestOK, View
<1>4. Seen(view[r][rid].path, "closed") \in View
  BY <1>3 DEF Seen, View
<1>5. /\ view' \in [Reqs -> [Rids -> View]] /\ \A q \in Reqs : q # r => view'[q] = view[q]
      /\ \A i \in Rids : view'[r][i] = IF i = rid THEN Seen(view[r][rid].path, "closed") ELSE view[r][i]
  BY <1>1, <1>2, <1>4 DEF RestOK
<1>6. \A i \in Rids : view[r][i] # Unused => view'[r][i] # Unused
  BY <1>5 DEF Seen, Unused
<1>7. lost' \subseteq Reqs \X Rids
  BY <1>1, <1>2 DEF RestOK, StillOpen
<1>8. toBroker' \in [Reqs -> Seq(FromReq)] /\ toBroker'[r] = Append(toBroker[r], Close(rid))
      /\ \A q \in Reqs : q # r => toBroker'[q] = toBroker[q]
  <2>1. Close(rid) \in FromReq
    BY MessageTypes
  <2> QED
    BY <1>1, <1>2, <2>1 DEF RestOK
<1>9. Unasked(toBroker[r], reqTab[r], view'[r])
  BY <1>2, <1>6, UnaskedKeeps
<1>10. Unasked(Append(toBroker[r], Close(rid)), reqTab[r], view'[r])
  BY <1>2, <1>9, UnaskedCloses
<1>11. RidsUnasked'
  BY <1>1, <1>5, <1>8, <1>10, IInvAt DEF RidsUnasked
<1> QED
  BY <1>1, <1>2, <1>5, <1>7, <1>8, <1>11 DEF IInv, RestOK

\* A refused list has no row.
LEMMA RefuseListStep ==
  ASSUME IInv, NEW r \in Reqs, RefuseList(r)
  PROVE  IInv'
<1>1. /\ Request(r, "list")
      /\ toReq' = [toReq EXCEPT ![r] = Append(@, Closed(Head(toBroker[r]).rid))]
      /\ UNCHANGED <<node, link, nodeRid, virtual, stream, reqTab, respTab, toResp, fromResp,
                     content, open, subs, view, lost>>
  BY DEF RefuseList, broker, responder
<1>2. RestOK /\ Unasked(toBroker[r], reqTab[r], view[r]) /\ toBroker[r] \in Seq(FromReq)
  BY IInvAt
<1>3. /\ toBroker' \in [Reqs -> Seq(FromReq)] /\ toBroker[r] # <<>> /\ Head(toBroker[r]).rid \in Rids
      /\ \A q \in Reqs : toBroker'[q] = IF q = r THEN Tail(toBroker[r]) ELSE toBroker[q]
  BY <1>1, <1>2, RequestType
<1>4. toReq' \in [Reqs -> Seq(ToReq)]
  <2>1. Closed(Head(toBroker[r]).rid) \in ToReq
    BY <1>3, MessageTypes
  <2> QED
    BY <1>1, <1>2, <2>1 DEF RestOK
<1>5. Unasked(Tail(toBroker[r]), reqTab[r], view[r])
  BY <1>2, <1>3, UnaskedTakes
<1>6. RidsUnasked'
  BY <1>1, <1>3, <1>5, IInvAt DEF RidsUnasked
<1> QED
  BY <1>1, <1>2, <1>3, <1>4, <1>6 DEF IInv, RestOK

\* A view stays one under what a response shows.
LEMMA ViewWith ==
  ASSUME NEW x \in View, NEW d \in BOOLEAN, NEW n \in SUBSET Items
  PROVE  /\ [x EXCEPT !.disc = d, !.names = n] \in View
         /\ [x EXCEPT !.disc = d, !.names = n].state = x.state
BY DEF View

\* What a requester knows stays a view, and of a rid in use.
LEMMA ShownView ==
  ASSUME NEW x \in View, NEW m \in ToReq
  PROVE  Shown(x, m) \in View /\ (x # Unused => Shown(x, m) # Unused)
<1>1. CASE m.kind = "closed"
  BY <1>1 DEF Shown, View, Seen, Unused
<1>2. CASE m.kind # "closed" /\ x.state # "open"
  BY <1>2 DEF Shown
<1>3. CASE m.kind = "change" /\ x.state = "open"
  <2>1. Shown(x, m) = [x EXCEPT !.names = With(@, m.name, m.present)]
    BY <1>3 DEF Shown
  <2>2. m.name \in Items
    BY <1>3 DEF ToReq
  <2> DEFINE y == Shown(x, m)
  <2> HIDE DEF y
  <2>3. y \in View /\ y.state = "open"
    BY <1>3, <2>1, <2>2 DEF View, With, y
  <2> QED
    BY <2>3, UsedViews DEF y
<1>4. CASE m.kind = "updates" /\ x.state = "open"
  <2>1. Shown(x, m) = IF m.cache.head THEN [x EXCEPT !.disc = m.cache.disc, !.names = m.cache.names]
                      ELSE [x EXCEPT !.disc = @ \/ m.cache.disc, !.names = @ \cup m.cache.names]
    BY <1>4 DEF Shown
  <2>2. m.cache.disc \in BOOLEAN /\ m.cache.names \subseteq Items
    BY <1>4 DEF ToReq, Cache
  <2> DEFINE y == Shown(x, m)
             d == m.cache.disc
             n == m.cache.names
  <2>4. x.disc \in BOOLEAN /\ x.names \subseteq Items
    BY DEF View
  <2>5. y = IF m.cache.head THEN [x EXCEPT !.disc = d, !.names = n]
            ELSE [x EXCEPT !.disc = x.disc \/ d, !.names = x.names \cup n]
    BY <2>1
  <2>6. d \in BOOLEAN /\ n \in SUBSET Items
    BY <2>2
  <2> HIDE DEF y, d, n
  <2>3. y \in View /\ y.state = "open"
    <3>1. CASE m.cache.head
      BY <1>4, <2>5, <2>6, <3>1, ViewWith
    <3>2. CASE ~m.cache.head
      <4>1. (x.disc \/ d) \in BOOLEAN /\ x.names \cup n \in SUBSET Items
        BY <2>4, <2>6
      <4> QED
        BY <1>4, <2>5, <3>2, <4>1, ViewWith
    <3> QED
      BY <3>1, <3>2
  <2> QED
    BY <2>3, UsedViews DEF y
<1> QED
  BY <1>1, <1>2, <1>3, <1>4 DEF ToReq

\* A message never makes a rid unused again.
LEMMA ReceiveStep ==
  ASSUME IInv, NEW r \in Reqs, Receive(r)
  PROVE  IInv'
<1> DEFINE m == Head(toReq[r])
           x == view[r][m.rid]
<1>1. /\ toReq[r] # <<>> /\ toReq' = [toReq EXCEPT ![r] = Tail(@)]
      /\ view' = [view EXCEPT ![r][m.rid] = Shown(@, m)]
      /\ UNCHANGED <<node, link, nodeRid, virtual, stream, reqTab, respTab, toBroker, toResp, fromResp,
                     content, open, subs, lost>>
  BY DEF Receive, broker, responder
<1>2. RestOK
  BY IInvAt
<1>3. toReq[r] \in Seq(ToReq) /\ m \in ToReq /\ toReq' \in [Reqs -> Seq(ToReq)]
  BY <1>1, <1>2 DEF RestOK
<1>4. m.rid \in Rids /\ x \in View
  BY <1>2, <1>3 DEF RestOK, ToReq
<1>5. Shown(x, m) \in View /\ (x # Unused => Shown(x, m) # Unused)
  BY <1>3, <1>4, ShownView
<1> HIDE DEF m
<1>6. /\ view' \in [Reqs -> [Rids -> View]]
      /\ \A q \in Reqs, i \in Rids : view'[q][i] = IF q = r /\ i = m.rid THEN Shown(x, m) ELSE view[q][i]
  BY <1>1, <1>2, <1>4, <1>5 DEF RestOK
<1>7. \A q \in Reqs, i \in Rids : view[q][i] # Unused => view'[q][i] # Unused
  BY <1>5, <1>6
<1>8. ASSUME NEW q \in Reqs PROVE Unasked(toBroker[q], reqTab[q], view'[q])
  <2>1. /\ toBroker[q] \in Seq(FromReq) /\ Unasked(toBroker[q], reqTab[q], view[q])
        /\ \A i \in Rids : view[q][i] # Unused => view'[q][i] # Unused
    BY <1>7, IInvAt
  <2> QED
    BY <2>1, UnaskedKeeps
<1>9. RidsUnasked'
  BY <1>1, <1>8 DEF RidsUnasked
<1> QED
  BY <1>1, <1>2, <1>3, <1>6, <1>9, IInvAt DEF IInv, RestOK

\* The three ways to join: a stream that exists, one that asks nobody, and one
\* for which the responder is asked under a new rid
JoinsAs(r, rid, p, s) ==
  /\ stream' = [stream EXCEPT ![p] = [s EXCEPT !.links = Added(s.links, r, rid)]]
  /\ reqTab' = TabAdded(reqTab, s.links, r, rid, p)
  /\ s = stream[p] \/ (stream[p] = None /\ s.links = NoLinks)
  /\ p \in Remote => node
  /\ \/ /\ s = stream[p] \/ p \notin Remote \/ ~link
        /\ s = stream[p] \/ s.cache = IF p \in Remote THEN Offline ELSE OwnCache(p)
        /\ toReq' = FirstUpdates(r, rid, s.cache) /\ UNCHANGED <<nodeRid, respTab, toResp>>
     \/ /\ stream[p] = None /\ p \in Remote /\ link /\ s.rid = nodeRid + 1 /\ nodeRid + 1 \in PRids
        /\ s.cache = NoUpdates
        /\ nodeRid' = nodeRid + 1 /\ respTab' = [respTab EXCEPT ![nodeRid + 1] = p]
        /\ toResp' = Append(toResp, List(nodeRid + 1, p)) /\ UNCHANGED toReq

\* A list is joined in one of these ways.
LEMMA JoinListIs ==
  ASSUME IInv, NEW r \in Reqs, JoinList(r)
  PROVE  /\ Request(r, "list")
         /\ UNCHANGED <<node, link, virtual, fromResp, content, open, subs, view, lost>>
         /\ \E s \in Stream : JoinsAs(r, Head(toBroker[r]).rid, Head(toBroker[r]).path, s)
<1> DEFINE rid == Head(toBroker[r]).rid
           p   == Head(toBroker[r]).path
           new == nodeRid + 1
           join(s) == /\ stream' = [stream EXCEPT ![p] = [s EXCEPT !.links = Added(s.links, r, rid)]]
                      /\ reqTab' = TabAdded(reqTab, s.links, r, rid, p)
           made(i, cache) == [rid |-> i, links |-> NoLinks, cache |-> cache]
<1>1. /\ Request(r, "list") /\ (p \in Remote => node)
      /\ \/ /\ stream[p] # None /\ join(stream[p])
            /\ toReq' = FirstUpdates(r, rid, stream[p].cache)
            /\ UNCHANGED <<nodeRid, respTab, toResp>>
         \/ /\ stream[p] = None /\ p \in Local
            /\ join(made(0, OwnCache(p))) /\ toReq' = FirstUpdates(r, rid, OwnCache(p))
            /\ UNCHANGED <<nodeRid, respTab, toResp>>
         \/ /\ stream[p] = None /\ p \in Remote /\ ~link
            /\ join(made(0, Offline)) /\ toReq' = FirstUpdates(r, rid, Offline)
            /\ UNCHANGED <<nodeRid, respTab, toResp>>
         \/ /\ stream[p] = None /\ p \in Remote /\ link /\ new <= MaxRid
            /\ join(made(new, NoUpdates)) /\ nodeRid' = new
            /\ respTab' = [respTab EXCEPT ![new] = p]
            /\ toResp' = Append(toResp, List(new, p)) /\ UNCHANGED toReq
      /\ UNCHANGED <<node, link, virtual, fromResp, content, open, subs, view, lost>>
  BY DEF JoinList, responder
<1>2. RestOK /\ stream \in StreamTable /\ nodeRid \in Nat /\ MaxRid \in Nat
  BY IInvAt, ListConstants
<1>3. rid \in Rids /\ p \in Paths
  BY <1>1, <1>2, RequestType
<1>4. \A i \in 0..MaxRid, c \in Cache :
        /\ made(i, c) \in Stream /\ made(i, c).links = NoLinks
        /\ made(i, c).cache = c /\ made(i, c).rid = i
  BY DEF Stream, NoLinks
<1>5. NoUpdates \in Cache /\ Offline \in Cache /\ OwnCache(p) \in Cache
  BY <1>2, <1>3, CacheTypes DEF RestOK
<1>6. 0 \in 0..MaxRid /\ (new <= MaxRid => new \in 0..MaxRid /\ new \in PRids)
  BY <1>2 DEF PRids
<1>7. p \in Local => p \notin Remote
  BY ListConstants
<1> HIDE DEF made, rid, p
<1>8. CASE stream[p] # None /\ join(stream[p]) /\ toReq' = FirstUpdates(r, rid, stream[p].cache)
           /\ UNCHANGED <<nodeRid, respTab, toResp>>
  <2>1. stream[p] \in Stream
    BY <1>2, <1>3, <1>8 DEF StreamTable
  <2>2. JoinsAs(r, rid, p, stream[p])
    BY <1>1, <1>8 DEF JoinsAs
  <2> QED
    BY <1>1, <2>1, <2>2 DEF rid, p
<1>9. CASE stream[p] = None /\ p \in Local /\ join(made(0, OwnCache(p)))
           /\ toReq' = FirstUpdates(r, rid, OwnCache(p)) /\ UNCHANGED <<nodeRid, respTab, toResp>>
  <2> DEFINE s == made(0, OwnCache(p))
  <2>1. s \in Stream /\ s.links = NoLinks /\ s.cache = OwnCache(p) /\ p \notin Remote
    BY <1>4, <1>5, <1>6, <1>7, <1>9
  <2> HIDE DEF s
  <2>2. join(s)
    BY <1>9 DEF s
  <2>3. JoinsAs(r, rid, p, s)
    BY <1>1, <1>9, <2>1, <2>2 DEF JoinsAs
  <2> QED
    BY <1>1, <2>1, <2>3 DEF rid, p
<1>10. CASE stream[p] = None /\ p \in Remote /\ ~link /\ join(made(0, Offline))
            /\ toReq' = FirstUpdates(r, rid, Offline) /\ UNCHANGED <<nodeRid, respTab, toResp>>
  <2> DEFINE s == made(0, Offline)
  <2>1. s \in Stream /\ s.links = NoLinks /\ s.cache = Offline
    BY <1>4, <1>5, <1>6
  <2> HIDE DEF s
  <2>2. join(s)
    BY <1>10 DEF s
  <2>3. JoinsAs(r, rid, p, s)
    BY <1>1, <1>10, <2>1, <2>2 DEF JoinsAs
  <2> QED
    BY <1>1, <2>1, <2>3 DEF rid, p
<1>11. CASE /\ stream[p] = None /\ p \in Remote /\ link /\ new <= MaxRid
            /\ join(made(new, NoUpdates)) /\ nodeRid' = new
            /\ respTab' = [respTab EXCEPT ![new] = p]
            /\ toResp' = Append(toResp, List(new, p)) /\ UNCHANGED toReq
  <2> DEFINE s == made(new, NoUpdates)
  <2>1. s \in Stream /\ s.links = NoLinks /\ s.rid = new /\ s.cache = NoUpdates /\ new \in PRids
    BY <1>4, <1>5, <1>6, <1>11
  <2> HIDE DEF s
  <2>2. join(s)
    BY <1>11 DEF s
  <2>3. JoinsAs(r, rid, p, s)
    BY <1>1, <1>11, <2>1, <2>2 DEF JoinsAs
  <2> QED
    BY <1>1, <2>1, <2>3 DEF rid, p
<1> QED
  BY <1>1, <1>8, <1>9, <1>10, <1>11

\* A rid that joins has no row yet, so that the row it gets is its only one.
LEMMA JoinListStep ==
  ASSUME IInv, NEW r \in Reqs, JoinList(r)
  PROVE  IInv'
<1> DEFINE rid == Head(toBroker[r]).rid
           p   == Head(toBroker[r]).path
<1>1. /\ Request(r, "list")
      /\ UNCHANGED <<node, link, virtual, fromResp, content, open, subs, view, lost>>
  BY JoinListIs
<1>2. PICK s \in Stream : JoinsAs(r, rid, p, s)
  BY JoinListIs
<1>3. /\ RestOK /\ Joined(stream, reqTab) /\ Listed(stream, respTab, node, link, nodeRid)
      /\ nodeRid \in Nat /\ None \notin Stream /\ stream \in StreamTable
      /\ respTab \in RespTable /\ reqTab \in ReqTables
      /\ Unasked(toBroker[r], reqTab[r], view[r]) /\ toBroker[r] \in Seq(FromReq)
  BY IInvAt
<1>4. /\ rid \in Rids /\ p \in Paths /\ toBroker[r] # <<>> /\ Head(toBroker[r]).kind = "list"
      /\ toBroker' \in [Reqs -> Seq(FromReq)]
      /\ \A q \in Reqs : toBroker'[q] = IF q = r THEN Tail(toBroker[r]) ELSE toBroker[q]
  BY <1>1, <1>3, RequestType
<1>5. reqTab[r][rid] = None
  <2>1. toBroker[r][1] = Head(toBroker[r]) /\ 1 \in 1..Len(toBroker[r])
    BY <1>3, <1>4
  <2> QED
    BY <1>3, <1>4, <2>1 DEF Unasked
<1> HIDE DEF rid, p
<1>6. Joined(stream', reqTab')
  BY <1>2, <1>3, <1>4, <1>5, JoinedAdds DEF JoinsAs
<1>7. reqTab' = [reqTab EXCEPT ![r] = [i \in Rids |-> IF i = rid THEN p
                                       ELSE IF i = s.links[r] THEN None ELSE @[i]]]
  BY <1>2 DEF JoinsAs, TabAdded
<1>8. /\ \A q \in Reqs : q # r => reqTab'[q] = reqTab[q]
      /\ \A i \in Rids : reqTab'[r][i] # None => reqTab[r][i] # None \/ i = rid
  BY <1>3, <1>7 DEF ReqTables
<1>9. Unasked(Tail(toBroker[r]), reqTab'[r], view[r])
  BY <1>3, <1>4, <1>8, UnaskedTakes DEF rid
<1>10. RidsUnasked'
  BY <1>1, <1>4, <1>8, <1>9, IInvAt DEF RidsUnasked
<1> DEFINE s2 == [s EXCEPT !.links = Added(s.links, r, rid)]
<1>11. s2 \in Stream /\ s2.rid = s.rid /\ s2 # None
  <2>1. Added(s.links, r, rid) \in [Reqs -> Rids \cup {None}]
    BY <1>4 DEF Stream, Added
  <2> QED
    BY <1>3, <2>1 DEF Stream
<1> HIDE DEF s2
<1>12. stream'[p] = s2 /\ \A q \in Paths : q # p => stream'[q] = stream[q]
  BY <1>2, <1>3, <1>4 DEF JoinsAs, StreamTable, s2
<1>13. Remote \subseteq Paths
  BY DEF Paths
<1>14. CASE /\ s = stream[p] \/ p \notin Remote \/ ~link
            /\ toReq' = FirstUpdates(r, rid, s.cache) /\ UNCHANGED <<nodeRid, respTab, toResp>>
  <2>1. toReq' \in [Reqs -> Seq(ToReq)]
    <3>1. s.cache \in Cache
      BY DEF Stream
    <3>2. toReq \in [Reqs -> Seq(ToReq)]
      BY <1>3 DEF RestOK
    <3> QED
      BY <1>4, <1>14, <3>1, <3>2, FirstUpdatesType
  <2>2. Listed(stream', respTab, node, link, nodeRid)
    <3>1. CASE s = stream[p] \/ p \notin Remote
      <4>1. \A q \in Remote : /\ stream'[q] = None <=> stream[q] = None
                              /\ stream[q] # None => stream'[q].rid = stream[q].rid
        BY <1>3, <1>11, <1>12, <1>13, <3>1
      <4> QED
        BY <1>3, <4>1, ListedSame
    <3>2. CASE ~link
      <4>1. \A q \in Remote : stream'[q] # None => node
        BY <1>2, <1>3, <1>12, <1>13 DEF JoinsAs, Listed
      <4>2. \A i \in PRids : respTab[i] = None
        BY <1>3, <3>2 DEF Listed
      <4>3. Listed(stream', respTab, node, FALSE, nodeRid)
        BY <1>3, <4>1, <4>2, ListedAway
      <4>4. link = FALSE
        BY <1>3, <3>2 DEF RestOK
      <4> QED
        BY <4>3, <4>4
    <3> QED
      BY <1>14, <3>1, <3>2
  <2> QED
    BY <1>1, <1>3, <1>4, <1>6, <1>10, <1>14, <2>1, <2>2 DEF IInv, RestOK
<1>15. CASE /\ stream[p] = None /\ p \in Remote /\ link /\ s.rid = nodeRid + 1 /\ nodeRid + 1 \in PRids
            /\ nodeRid' = nodeRid + 1 /\ respTab' = [respTab EXCEPT ![nodeRid + 1] = p]
            /\ toResp' = Append(toResp, List(nodeRid + 1, p)) /\ UNCHANGED toReq
  <2>1. link = TRUE /\ node /\ nodeRid' \in 0..MaxRid
    BY <1>2, <1>3, <1>15 DEF RestOK, JoinsAs, PRids
  <2>2. toResp' \in Seq(ToResp)
    <3>1. List(nodeRid + 1, p) \in ToResp
      BY <1>15, MessageTypes
    <3> QED
      BY <1>3, <1>15, <3>1 DEF RestOK
  <2>3. /\ stream'[p] # None /\ stream'[p].rid = nodeRid + 1
        /\ \A q \in Remote : q # p => stream'[q] = stream[q]
    BY <1>11, <1>12, <1>13, <1>15
  <2>4. Listed(stream, respTab, node, TRUE, nodeRid)
    BY <1>3, <2>1
  <2>5. Listed(stream', [respTab EXCEPT ![nodeRid + 1] = p], node, TRUE, nodeRid + 1)
    <3> DEFINE n   == nodeRid
               st2 == stream'
    <3>1. /\ n \in Nat /\ Listed(stream, respTab, node, TRUE, n) /\ node /\ p \in Remote
          /\ n + 1 \in PRids /\ NewStream(stream, st2, p, n + 1)
      BY <1>3, <1>15, <2>1, <2>3, <2>4 DEF NewStream
    <3> HIDE DEF n, st2, p
    <3>2. Listed(st2, [respTab EXCEPT ![n + 1] = p], node, TRUE, n + 1)
      BY ONLY <3>1, ListedAdds
    <3> QED
      BY <3>2 DEF n, st2
  <2>6. Listed(stream', respTab', node', link', nodeRid')
    BY <1>1, <1>15, <2>1, <2>5
  <2> QED
    BY <1>1, <1>3, <1>4, <1>6, <1>10, <1>15, <2>1, <2>2, <2>6 DEF IInv, RestOK
<1> QED
  BY <1>2, <1>14, <1>15 DEF JoinsAs

\* A message for each rid of a set
Each(order) == [i \in DOMAIN order |-> Close(order[i])]

\* The responder is told of rids that it has rows for, which go.
Tells(told) ==
  /\ told \subseteq PRids /\ \A i \in told : respTab[i] # None
  /\ \A i \in PRids : respTab'[i] = IF i \in told THEN None ELSE respTab[i]
  /\ \E order \in Orders(told) : toResp' = toResp \o Each(order)

\* The closes that the responder is sent, one for each rid
LEMMA EachType ==
  ASSUME NEW told \in SUBSET PRids, NEW a \in Orders(told)
  PROVE  /\ Each(a) \in Seq(ToResp) /\ Len(Each(a)) = Len(a) /\ a \in Seq(told)
         /\ \A i \in 1..Len(a) : Each(a)[i] = Close(a[i])
         /\ \A i, j \in 1..Len(a) : a[i] = a[j] => i = j
         /\ \A x \in told : \E i \in 1..Len(a) : a[i] = x
<1>1. IsFiniteSet(told)
  <2>1. IsFiniteSet(PRids)
    BY ListConstants, FS_Interval DEF PRids
  <2> QED
    BY <2>1, FS_Subset
<1>2. /\ a \in Seq(told) /\ DOMAIN a = 1..Len(a)
      /\ \A i, j \in 1..Len(a) : a[i] = a[j] => i = j
      /\ \A x \in told : \E i \in 1..Len(a) : a[i] = x
  BY <1>1, OrdersAll
<1>3. Len(a) \in Nat /\ \A i \in 1..Len(a) : a[i] \in PRids
  BY <1>2
<1>4. \A i \in 1..Len(a) : Close(a[i]) \in ToResp
  BY <1>3, MessageTypes
<1>5. Each(a) \in [1..Len(a) -> ToResp] /\ \A i \in 1..Len(a) : Each(a)[i] = Close(a[i])
  BY <1>2, <1>4 DEF Each
<1>6. Each(a) \in Seq(ToResp) /\ Len(Each(a)) = Len(a)
  BY <1>3, <1>5
<1> QED
  BY <1>2, <1>5, <1>6

\* What a requester that leaves does to the streams and to the responder
LEMMA LeaveAllIs ==
  ASSUME IInv, NEW r \in Reqs, NEW ps \in SUBSET Paths, \A p \in ps : stream[p] # None,
         LeaveAll(r, ps)
  PROVE  /\ stream' = Left(stream, r, ps)
         /\ Listed(stream', respTab', node, link, nodeRid)
         /\ toResp' \in Seq(ToResp)
         /\ link => \E told \in SUBSET PRids : Tells(told)
         /\ ~link => UNCHANGED <<toResp, respTab>>
<1> DEFINE ends == {p \in ps : Alone(stream[p].links, r)}
           told == {stream[p].rid : p \in ends \cap Remote}
<1>1. /\ RestOK /\ Joined(stream, reqTab) /\ Listed(stream, respTab, node, link, nodeRid)
      /\ None \notin Stream /\ stream \in StreamTable /\ respTab \in RespTable
  BY IInvAt
<1>2. /\ stream' = [p \in Paths |-> IF p \in ends THEN None
                      ELSE IF p \in ps THEN [stream[p] EXCEPT !.links[r] = None] ELSE stream[p]]
      /\ link => /\ \E order \in Orders(told) : toResp' = toResp \o [i \in DOMAIN order |-> Close(order[i])]
                 /\ respTab' = [i \in PRids |-> IF i \in told THEN None ELSE respTab[i]]
      /\ ~link => UNCHANGED <<toResp, respTab>>
  BY DEF LeaveAll
<1>3. stream' = Left(stream, r, ps)
  BY <1>2 DEF Left
<1>4. respTab' \in RespTable
  BY <1>1, <1>2 DEF RespTable
<1>5. \A p \in Remote : /\ stream'[p] = None <=> (stream[p] = None \/ p \in ends)
                        /\ stream'[p] # None => stream'[p].rid = stream[p].rid
  <2> SUFFICES ASSUME NEW p \in Remote
               PROVE  /\ stream'[p] = None <=> (stream[p] = None \/ p \in ends)
                      /\ stream'[p] # None => stream'[p].rid = stream[p].rid
    OBVIOUS
  <2>1. p \in Paths /\ stream[p] \in Stream \cup {None}
    BY <1>1 DEF Paths, StreamTable
  <2>2. CASE p \in ends
    BY <1>2, <2>1, <2>2
  <2>3. CASE p \in ps /\ p \notin ends
    <3>1. stream[p] \in Stream /\ stream'[p] = [stream[p] EXCEPT !.links[r] = None]
      BY <1>2, <2>1, <2>3
    <3>2. stream'[p] \in Stream /\ stream'[p].rid = stream[p].rid
      BY <3>1 DEF Stream
    <3> QED
      BY <1>1, <2>3, <3>1, <3>2
  <2>4. CASE p \notin ps
    BY <1>2, <2>1, <2>4
  <2> QED
    BY <2>2, <2>3, <2>4
<1>6. \A p \in ends : stream[p] # None
  OBVIOUS
<1>7. link => \A i \in PRids : respTab'[i] = IF i \in told THEN None ELSE respTab[i]
  BY <1>2
<1> HIDE DEF ends
<1>8. \A i : i \in told <=> \E p \in ends \cap Remote : i = stream[p].rid
  OBVIOUS
<1> HIDE DEF told
<1>9. Listed(stream', respTab', node, link, nodeRid)
  <2>1. CASE link
    <3>1. link = TRUE
      BY <1>1, <2>1 DEF RestOK
    <3>2. Listed(stream, respTab, node, TRUE, nodeRid)
      BY <1>1, <3>1
    <3>3. \A i \in PRids : respTab'[i] = IF i \in told THEN None ELSE respTab[i]
      BY <1>7, <2>1
    <3>4. Sheds(stream, respTab, stream', respTab', ends, told)
      BY <1>4, <1>5, <1>6, <1>8, <3>3 DEF Sheds
    <3>5. Listed(stream', respTab', node, TRUE, nodeRid)
      BY <3>2, <3>4, ListedLeaves
    <3> QED
      BY <3>1, <3>5
  <2>2. CASE ~link
    <3>1. link = FALSE /\ respTab' = respTab
      BY <1>1, <1>2, <2>2 DEF RestOK
    <3>2. \A i \in PRids : respTab'[i] = None
      BY <1>1, <2>2, <3>1 DEF Listed
    <3>3. \A p \in Remote : stream'[p] # None => node
      BY <1>1, <1>5 DEF Listed
    <3>4. Listed(stream', respTab', node, FALSE, nodeRid)
      BY <1>4, <3>2, <3>3, ListedAway
    <3> QED
      BY <3>1, <3>4
  <2> QED
    BY <2>1, <2>2
<1>10. ASSUME link PROVE told \in SUBSET PRids /\ Tells(told)
  <2>1. told \subseteq PRids /\ \A i \in told : respTab[i] # None
    BY <1>1, <1>6, <1>8, <1>10, ListConstants DEF Listed
  <2>2. \E order \in Orders(told) : toResp' = toResp \o Each(order)
    BY <1>2, <1>10 DEF Each, told
  <2> QED
    BY <1>7, <1>10, <2>1, <2>2 DEF Tells
<1>11. toResp' \in Seq(ToResp)
  <2>1. CASE link
    <3>1. PICK order \in Orders(told) : toResp' = toResp \o Each(order)
      BY <1>10, <2>1 DEF Tells
    <3>2. Each(order) \in Seq(ToResp) /\ toResp \in Seq(ToResp)
      BY <1>1, <1>10, <2>1, EachType DEF RestOK
    <3> QED
      BY <3>1, <3>2
  <2>2. CASE ~link
    BY <1>1, <1>2, <2>2 DEF RestOK
  <2> QED
    BY <2>1, <2>2
<1> QED
  BY <1>2, <1>3, <1>10, <1>11, <1>9

\* The paths of some rids of a requester
LEMMA LeftPaths ==
  ASSUME IInv, NEW r \in Reqs, NEW I \in SUBSET Rids
  PROVE  LET ps == {reqTab[r][i] : i \in I} \ {None} IN
         ps \in SUBSET Paths /\ \A p \in ps : stream[p] # None
<1>1. Joined(stream, reqTab)
  BY IInvAt
<1> QED
  BY <1>1, JoinedRows

\* A close drops the row of its rid, and the stream with its last row.
LEMMA CloseListStep ==
  ASSUME IInv, NEW r \in Reqs, CloseList(r)
  PROVE  IInv'
<1> DEFINE rid == Head(toBroker[r]).rid
           I   == {rid}
           ps  == {reqTab[r][i] : i \in I} \ {None}
<1>1. /\ Request(r, "close") /\ LeaveAll(r, {reqTab[r][rid]} \ {None})
      /\ reqTab' = [reqTab EXCEPT ![r][rid] = None]
      /\ UNCHANGED <<node, link, nodeRid, virtual, toReq, fromResp, content, open, subs, view, lost>>
  BY DEF CloseList, responder
<1>2. /\ RestOK /\ Joined(stream, reqTab) /\ reqTab \in ReqTables
      /\ Unasked(toBroker[r], reqTab[r], view[r]) /\ toBroker[r] \in Seq(FromReq)
  BY IInvAt
<1>3. /\ rid \in Rids /\ toBroker[r] # <<>> /\ toBroker' \in [Reqs -> Seq(FromReq)]
      /\ \A q \in Reqs : toBroker'[q] = IF q = r THEN Tail(toBroker[r]) ELSE toBroker[q]
  BY <1>1, <1>2, RequestType
<1> HIDE DEF rid
<1>4. ps = {reqTab[r][rid]} \ {None} /\ I \in SUBSET Rids /\ \A i : i \in I <=> i = rid
  BY <1>3
<1> HIDE DEF I
<1>5. ps \in SUBSET Paths /\ \A p \in ps : stream[p] # None
  BY <1>4, LeftPaths
<1>6. LeaveAll(r, ps)
  BY <1>1, <1>4
<1>7. /\ reqTab' \in ReqTables
      /\ \A q \in Reqs, i \in Rids : reqTab'[q][i] = IF q = r /\ i \in I THEN None ELSE reqTab[q][i]
  BY <1>1, <1>2, <1>3, <1>4 DEF ReqTables
<1>8. Joined(Left(stream, r, ps), reqTab')
  BY <1>2, <1>4, <1>7, JoinedLeaves
<1> HIDE DEF ps
<1>9. /\ stream' = Left(stream, r, ps) /\ toResp' \in Seq(ToResp)
      /\ Listed(stream', respTab', node, link, nodeRid)
  BY <1>5, <1>6, LeaveAllIs
<1>10. Unasked(Tail(toBroker[r]), reqTab'[r], view[r])
  BY <1>2, <1>3, <1>7, UnaskedTakes
<1>11. RidsUnasked'
  <2> SUFFICES ASSUME NEW q \in Reqs PROVE Unasked(toBroker'[q], reqTab'[q], view[q])
    BY <1>1 DEF RidsUnasked
  <2>1. CASE q = r
    BY <1>3, <1>10, <2>1
  <2>2. CASE q # r
    <3>1. /\ toBroker[q] \in Seq(FromReq) /\ Unasked(toBroker[q], reqTab[q], view[q])
          /\ \A i \in Rids : reqTab'[q][i] # None => reqTab[q][i] # None
      BY <1>7, <2>2, IInvAt
    <3>2. Unasked(toBroker[q], reqTab'[q], view[q])
      BY <3>1, UnaskedKeeps
    <3> QED
      BY <1>3, <2>2, <3>2
  <2> QED
    BY <2>1, <2>2
<1> QED
  BY <1>1, <1>2, <1>3, <1>8, <1>9, <1>11 DEF IInv, RestOK

\* A requester that goes takes all its rows along.
LEMMA DisconnectStep ==
  ASSUME IInv, NEW r \in Reqs, Disconnect(r)
  PROVE  IInv'
<1> DEFINE ps == {reqTab[r][i] : i \in Rids} \ {None}
<1>1. /\ LeaveAll(r, ps)
      /\ reqTab' = [reqTab EXCEPT ![r] = [i \in Rids |-> None]]
      /\ toBroker' = [toBroker EXCEPT ![r] = <<>>] /\ toReq' = [toReq EXCEPT ![r] = <<>>]
      /\ view' = [view EXCEPT ![r] = [i \in Rids |-> Unused]]
      /\ lost' = {e \in lost : e[1] # r}
      /\ UNCHANGED <<node, link, nodeRid, virtual, fromResp, content, open, subs>>
  BY DEF Disconnect, responder
<1>2. RestOK /\ Joined(stream, reqTab) /\ reqTab \in ReqTables
  BY IInvAt
<1>3. ps \in SUBSET Paths /\ \A p \in ps : stream[p] # None
  BY LeftPaths
<1>4. /\ reqTab' \in ReqTables
      /\ \A q \in Reqs, i \in Rids : reqTab'[q][i] = IF q = r /\ i \in Rids THEN None ELSE reqTab[q][i]
  BY <1>1, <1>2 DEF ReqTables
<1>5. Joined(Left(stream, r, ps), reqTab')
  BY <1>2, <1>4, JoinedLeaves
<1> HIDE DEF ps
<1>6. /\ stream' = Left(stream, r, ps) /\ toResp' \in Seq(ToResp)
      /\ Listed(stream', respTab', node, link, nodeRid)
  BY <1>1, <1>3, LeaveAllIs
<1>7. Unused \in View
  BY DEF Unused, Seen, View
<1>8. /\ toBroker' \in [Reqs -> Seq(FromReq)] /\ toReq' \in [Reqs -> Seq(ToReq)]
      /\ view' \in [Reqs -> [Rids -> View]] /\ lost' \subseteq Reqs \X Rids
  BY <1>1, <1>2, <1>7 DEF RestOK
<1>9. RidsUnasked'
  <2> SUFFICES ASSUME NEW q \in Reqs PROVE Unasked(toBroker'[q], reqTab'[q], view'[q])
    BY DEF RidsUnasked
  <2>1. CASE q = r
    <3>1. toBroker'[q] = <<>> /\ \A i \in Rids : reqTab'[q][i] = None
      BY <1>1, <1>2, <1>4, <2>1 DEF RestOK
    <3> QED
      BY <3>1, UnaskedNothing
  <2>2. CASE q # r
    <3>1. toBroker'[q] = toBroker[q] /\ reqTab'[q] = reqTab[q] /\ view'[q] = view[q]
      BY <1>1, <1>2, <2>2 DEF RestOK, ReqTables
    <3> QED
      BY <3>1, IInvAt
  <2> QED
    BY <2>1, <2>2
<1> QED
  BY <1>1, <1>2, <1>5, <1>6, <1>8, <1>9 DEF IInv, RestOK

\* A stream whose cache is replaced
LEMMA CachedAgain ==
  ASSUME IInv, NEW p \in Paths, stream[p] # None, NEW c \in Cache,
         NEW st, st = [stream EXCEPT ![p].cache = c]
  PROVE  Joined(st, reqTab) /\ Listed(st, respTab, node, link, nodeRid)
<1>1. /\ Joined(stream, reqTab) /\ Listed(stream, respTab, node, link, nodeRid)
      /\ None \notin Stream /\ stream \in StreamTable
  BY IInvAt
<1>2. stream[p] \in Stream
  BY <1>1 DEF StreamTable
<1>3. /\ st[p] \in Stream /\ st[p].links = stream[p].links /\ st[p].rid = stream[p].rid
      /\ \A q \in Paths : q # p => st[q] = stream[q]
  BY <1>1, <1>2 DEF StreamTable, Stream
<1>4. st \in StreamTable
  BY <1>1, <1>3 DEF StreamTable
<1>5. \A q \in Paths : /\ st[q] = None <=> stream[q] = None
                       /\ stream[q] # None => st[q].links = stream[q].links /\ st[q].rid = stream[q].rid
  BY <1>1, <1>2, <1>3
<1>6. Joined(st, reqTab)
  BY <1>1, <1>4, <1>5, JoinedSame
<1>7. \A q \in Remote : /\ st[q] = None <=> stream[q] = None
                        /\ stream[q] # None => st[q].rid = stream[q].rid
  BY <1>5 DEF Paths
<1>8. Listed(st, respTab, node, link, nodeRid)
  BY <1>1, <1>7, ListedSame
<1> QED
  BY <1>6, <1>8

\* What a report m of the responder makes of the cache c of the stream of p,
\* which its requesters are sent
Answers(p, m, c) ==
  /\ c \in Cache
  /\ m.kind = "updates" => c.head /\ ~c.disc /\ \A n \in Names : n \in c.names <=> n \in m.names
  /\ m.kind = "change" =>
       /\ c.head = stream[p].cache.head /\ c.disc = stream[p].cache.disc
       /\ \A n \in Names : n \in c.names <=> IF n = m.name THEN m.present ELSE n \in stream[p].cache.names
  /\ stream' = [stream EXCEPT ![p].cache = c]
  /\ toReq' = ToAll(stream[p].links, [i \in Rids |-> Updates(i, c)])

\* What a response does to the broker
LEMMA ListResponseIs ==
  ASSUME IInv, ListResponse
  PROVE  /\ link /\ fromResp # <<>> /\ fromResp \in Seq(FromResp) /\ fromResp' = Tail(fromResp)
         /\ fromResp' \in Seq(FromResp) /\ Head(fromResp) = fromResp[1] /\ fromResp[1].rid \in PRids
         /\ UNCHANGED <<node, link, nodeRid, virtual, reqTab, respTab, toBroker, toResp,
                        content, open, subs, view, lost>>
         /\ respTab[fromResp[1].rid] = None => UNCHANGED <<stream, toReq>>
         /\ respTab[fromResp[1].rid] # None =>
              /\ respTab[fromResp[1].rid] \in Remote /\ respTab[fromResp[1].rid] \in Paths
              /\ stream[respTab[fromResp[1].rid]] # None
              /\ stream[respTab[fromResp[1].rid]].rid = fromResp[1].rid
              /\ \E c \in Cache : Answers(respTab[fromResp[1].rid], fromResp[1], c)
<1> DEFINE m == Head(fromResp)
           p == respTab[m.rid]
           s == stream[p]
           reset == Reset(p)
           cache == IF m.kind = "updates" THEN [reset EXCEPT !.names = @ \cup m.names]
                    ELSE [s.cache EXCEPT !.names = With(@, m.name, m.present)]
<1>1. /\ link /\ fromResp # <<>> /\ fromResp' = Tail(fromResp)
      /\ p = None => UNCHANGED <<stream, toReq>>
      /\ p # None => /\ stream' = [stream EXCEPT ![p].cache = cache]
                     /\ toReq' = ToAll(s.links, [i \in Rids |-> Updates(i, cache)])
      /\ UNCHANGED <<node, link, nodeRid, virtual, reqTab, respTab, toBroker, toResp,
                     content, open, subs, view, lost>>
  BY DEF ListResponse, responder
<1>2. /\ RestOK /\ Listed(stream, respTab, node, link, nodeRid)
      /\ stream \in StreamTable /\ respTab \in RespTable
  BY IInvAt
<1>3. fromResp \in Seq(FromResp) /\ m \in FromResp /\ m = fromResp[1] /\ fromResp' \in Seq(FromResp)
  <2>1. fromResp \in Seq(FromResp) /\ fromResp # <<>> /\ fromResp' = Tail(fromResp)
    BY <1>1, <1>2 DEF RestOK
  <2>2. Head(fromResp) \in FromResp /\ Tail(fromResp) \in Seq(FromResp) /\ Head(fromResp) = fromResp[1]
    BY ONLY <2>1, HeadTailProperties
  <2> QED
    BY ONLY <2>1, <2>2
<1>4. m.rid \in PRids /\ (m.kind = "updates" => m.names \subseteq Names)
      /\ (m.kind # "updates" => m.name \in Names)
  BY <1>3 DEF FromResp
<1>5. ASSUME p # None PROVE p \in Remote /\ p \in Paths /\ s # None /\ s.rid = m.rid /\ cache \in Cache /\ Answers(p, m, cache)
  <2>1. p \in Remote /\ p \in Paths /\ s # None /\ s.rid = m.rid
    BY <1>2, <1>4, <1>5 DEF Listed, RespTable, Paths
  <2>2. s.cache \in Cache
    <3>1. s \in Stream
      BY <1>2, <2>1 DEF StreamTable
    <3> QED
      BY <3>1 DEF Stream
  <2>3. reset \in Cache /\ reset.head /\ ~reset.disc /\ \A n \in Names : n \notin reset.names
    <3>1. reset \in Cache
      BY <2>1, CacheTypes
    <3>2. reset.head = TRUE /\ reset.disc = FALSE /\ reset.names \subseteq {Attr}
      BY DEF Reset
    <3> QED
      BY <3>1, <3>2, ListConstants
  <2> HIDE DEF m, p, s, reset
  <2>4. CASE m.kind = "updates"
    <3>1. cache.head = reset.head /\ cache.disc = reset.disc /\ cache.names = reset.names \cup m.names
      BY <2>3, <2>4 DEF Cache
    <3>2. cache \in Cache
      BY <1>4, <2>3, <2>4 DEF Cache, Items
    <3> QED
      BY <1>1, <1>5, <2>1, <2>3, <2>4, <3>1, <3>2 DEF Answers, s
  <2>5. CASE m.kind # "updates"
    <3>1. cache.head = s.cache.head /\ cache.disc = s.cache.disc /\ cache.names = With(s.cache.names, m.name, m.present)
      BY <2>2, <2>5 DEF Cache
    <3>2. cache \in Cache
      BY <1>4, <2>2, <2>5 DEF Cache, Items, With
    <3>3. \A n \in Names : n \in cache.names <=> IF n = m.name THEN m.present ELSE n \in s.cache.names
      BY <3>1 DEF With
    <3> QED
      BY <1>1, <1>5, <2>1, <2>5, <3>1, <3>2, <3>3 DEF Answers, s
  <2> QED
    BY <2>4, <2>5
<1> HIDE DEF m, p, s, cache
<1>6. p # None => p \in Remote /\ p \in Paths /\ s # None /\ s.rid = m.rid /\ \E c \in Cache : Answers(p, m, c)
  BY ONLY <1>5
<1>7. /\ link /\ fromResp # <<>> /\ fromResp \in Seq(FromResp) /\ fromResp' = Tail(fromResp)
      /\ fromResp' \in Seq(FromResp) /\ m = fromResp[1] /\ m.rid \in PRids
      /\ UNCHANGED <<node, link, nodeRid, virtual, reqTab, respTab, toBroker, toResp,
                     content, open, subs, view, lost>>
      /\ p = None => UNCHANGED <<stream, toReq>>
  BY <1>1, <1>3, <1>4
<1> QED
  BY <1>3, <1>6, <1>7 DEF m, p, s

\* A response changes the cache of the stream that its rid stands for.
LEMMA ListResponseStep ==
  ASSUME IInv, ListResponse
  PROVE  IInv'
<1> DEFINE p == respTab[fromResp[1].rid]
<1>1. /\ fromResp' \in Seq(FromResp)
      /\ UNCHANGED <<node, link, nodeRid, virtual, reqTab, respTab, toBroker, toResp,
                     content, open, subs, view, lost>>
      /\ p = None => UNCHANGED <<stream, toReq>>
      /\ p # None => p \in Paths /\ stream[p] # None /\ \E c \in Cache : Answers(p, fromResp[1], c)
  BY ListResponseIs
<1>2. RestOK /\ Joined(stream, reqTab) /\ Listed(stream, respTab, node, link, nodeRid) /\ stream \in StreamTable
  BY IInvAt
<1>3. RidsUnasked'
  BY <1>1, IInvAt DEF RidsUnasked
<1> HIDE DEF p
<1>4. CASE p = None
  BY <1>1, <1>2, <1>3, <1>4 DEF IInv, RestOK
<1>5. CASE p # None
  <2>1. PICK c \in Cache : Answers(p, fromResp[1], c)
    BY <1>1, <1>5
  <2> DEFINE msg == [i \in Rids |-> Updates(i, c)]
  <2>2. stream' = [stream EXCEPT ![p].cache = c] /\ toReq' = ToAll(stream[p].links, msg)
    BY <2>1 DEF Answers
  <2>3. stream[p].links \in [Reqs -> Rids \cup {None}]
    <3>1. stream[p] \in Stream
      BY <1>1, <1>2, <1>5 DEF StreamTable
    <3> QED
      BY <3>1 DEF Stream
  <2>4. msg \in [Rids -> ToReq]
    BY MessageTypes
  <2>5. toReq \in [Reqs -> Seq(ToReq)]
    BY <1>2 DEF RestOK
  <2> HIDE DEF msg
  <2>6. toReq' \in [Reqs -> Seq(ToReq)]
    BY <2>2, <2>3, <2>4, <2>5, ToAllType
  <2>7. Joined(stream', reqTab) /\ Listed(stream', respTab, node, link, nodeRid)
    BY <1>1, <1>5, <2>2, CachedAgain
  <2> QED
    BY <1>1, <1>2, <1>3, <2>6, <2>7 DEF IInv, RestOK
<1> QED
  BY <1>4, <1>5

\* update_list_attribute and update_list_child
LEMMA ChangedStep ==
  ASSUME IInv, NEW p \in Paths, NEW n \in Items, NEW present \in BOOLEAN, Changed(p, n, present)
  PROVE  /\ Joined(stream', reqTab) /\ Listed(stream', respTab, node, link, nodeRid)
         /\ toReq' \in [Reqs -> Seq(ToReq)]
<1>1. /\ RestOK /\ Joined(stream, reqTab) /\ Listed(stream, respTab, node, link, nodeRid)
      /\ stream \in StreamTable
  BY IInvAt
<1>2. CASE stream[p] = None
  BY <1>1, <1>2 DEF Changed, RestOK
<1>3. CASE stream[p] # None
  <2> DEFINE s     == stream[p]
             names == With(s.cache.names, n, present)
             cache == [s.cache EXCEPT !.names = names]
             msg   == [rid \in Rids |-> Change(rid, n, present)]
  <2>1. s \in Stream
    BY <1>1, <1>3 DEF StreamTable
  <2>2. s.links \in [Reqs -> Rids \cup {None}] /\ s.cache \in Cache
    BY <2>1 DEF Stream
  <2>3. cache \in Cache
    BY <2>2 DEF Cache, With
  <2>4. stream' = [stream EXCEPT ![p].cache.names = With(@, n, present)] /\ toReq' = ToAll(s.links, msg)
    BY <1>3 DEF Changed
  <2>5. stream' = [stream EXCEPT ![p].cache = cache]
    BY <1>1, <2>1, <2>2, <2>4 DEF StreamTable, Stream, Cache
  <2>6. msg \in [Rids -> ToReq]
    BY MessageTypes
  <2> HIDE DEF cache, msg
  <2>7. toReq' \in [Reqs -> Seq(ToReq)]
    BY <1>1, <2>2, <2>4, <2>6, ToAllType DEF RestOK
  <2>8. Joined(stream', reqTab) /\ Listed(stream', respTab, node, link, nodeRid)
    BY <1>3, <2>3, <2>5, CachedAgain
  <2> QED
    BY <2>7, <2>8
<1> QED
  BY <1>2, <1>3

\* An attribute changes the cache of its stream.
LEMMA SetAttributeStep ==
  ASSUME IInv, NEW p \in Remote, NEW present \in BOOLEAN, SetAttribute(p, present)
  PROVE  IInv'
<1>1. /\ virtual' = With(virtual, SetKey(p), present) /\ Changed(p, Attr, present)
      /\ UNCHANGED <<node, link, nodeRid, reqTab, respTab, toBroker, toResp, fromResp,
                     content, open, subs, view, lost>>
  BY DEF SetAttribute, responder
<1>2. RestOK
  BY IInvAt
<1>3. virtual' \subseteq {SetKey(q) : q \in Remote}
  BY <1>1, <1>2 DEF RestOK, With
<1>4. p \in Paths /\ Attr \in Items
  BY DEF Paths, Items
<1>5. /\ Joined(stream', reqTab) /\ Listed(stream', respTab, node, link, nodeRid)
      /\ toReq' \in [Reqs -> Seq(ToReq)]
  BY <1>1, <1>4, ChangedStep
<1>6. RidsUnasked'
  BY <1>1, IInvAt DEF RidsUnasked
<1> QED
  BY <1>1, <1>2, <1>3, <1>5, <1>6 DEF IInv, RestOK

\* A change of a local node changes the cache of its stream.
LEMMA LocalChangeStep ==
  ASSUME IInv, NEW p \in Local, NEW n \in Names, LocalChange(p, n)
  PROVE  IInv'
<1>1. /\ content' = [content EXCEPT ![p] = With(@, n, n \notin @)] /\ Changed(p, n, n \notin content[p])
      /\ UNCHANGED <<node, link, nodeRid, virtual, reqTab, respTab, toBroker, toResp, fromResp,
                     open, subs, view, lost>>
  BY DEF LocalChange
<1>2. RestOK
  BY IInvAt
<1>3. p \in Paths /\ n \in Items
  BY DEF Paths, Items
<1>4. content' \in [Paths -> SUBSET Names]
  BY <1>1, <1>2, <1>3 DEF RestOK, With
<1>5. /\ Joined(stream', reqTab) /\ Listed(stream', respTab, node, link, nodeRid)
      /\ toReq' \in [Reqs -> Seq(ToReq)]
  <2>1. PICK b \in BOOLEAN : Changed(p, n, b)
    <3>1. CASE n \in content[p]
      BY <1>1, <3>1 DEF Changed, With
    <3>2. CASE n \notin content[p]
      BY <1>1, <3>2 DEF Changed, With
    <3> QED
      BY <3>1, <3>2
  <2> QED
    BY <1>3, <2>1, ChangedStep
<1>6. RidsUnasked'
  BY <1>1, IInvAt DEF RidsUnasked
<1> QED
  BY <1>1, <1>2, <1>4, <1>5, <1>6 DEF IInv, RestOK

\* The streams of the node go with all rows that name them.
LEMMA FreeNodeStep ==
  ASSUME IInv, FreeNode
  PROVE  IInv'
<1> DEFINE freed == {p \in Remote : stream[p] # None}
<1>1. /\ ~link /\ node' = FALSE
      /\ stream' = [p \in Paths |-> IF p \in freed THEN None ELSE stream[p]]
      /\ lost' = lost \cup {e \in Reqs \X Rids : reqTab[e[1]][e[2]] \in freed /\ view[e[1]][e[2]].state = "open"}
      /\ reqTab' = [r \in Reqs |-> [i \in Rids |-> IF reqTab[r][i] \in freed THEN None ELSE reqTab[r][i]]]
      /\ nodeRid' = 0 /\ virtual' = {}
      /\ UNCHANGED <<link, respTab, toBroker, toReq, toResp, fromResp, content, open, subs, view>>
  BY DEF FreeNode, responder
<1>2. /\ RestOK /\ Joined(stream, reqTab) /\ Listed(stream, respTab, node, link, nodeRid)
      /\ stream \in StreamTable /\ respTab \in RespTable /\ reqTab \in ReqTables
  BY IInvAt
<1>3. \A p \in Remote : p \in Paths /\ (p \notin freed => stream[p] = None)
  BY DEF Paths
<1> HIDE DEF freed
<1>4. stream' \in StreamTable /\ reqTab' \in ReqTables
  BY <1>1, <1>2 DEF StreamTable, ReqTables
<1>5. \A p \in Paths : stream'[p] = IF p \in freed THEN None ELSE stream[p]
  BY <1>1
<1>6. \A r \in Reqs, i \in Rids : reqTab'[r][i] = IF reqTab[r][i] \in freed THEN None ELSE reqTab[r][i]
  BY <1>1
<1>7. ASSUME NEW r \in Reqs, NEW i \in Rids, reqTab'[r][i] # None
      PROVE  stream'[reqTab'[r][i]] # None /\ stream'[reqTab'[r][i]].links[r] = i
  BY <1>2, <1>5, <1>6, <1>7, JoinedRows
<1>8. ASSUME NEW p \in Paths, stream'[p] # None
      PROVE  /\ stream'[p].links # NoLinks
             /\ \A r \in Reqs : stream'[p].links[r] # None => reqTab'[r][stream'[p].links[r]] = p
  <2>1. p \notin freed /\ stream'[p] = stream[p] /\ stream[p] # None
    BY <1>5, <1>8
  <2> QED
    BY <1>2, <1>6, <2>1, JoinedRows
<1>9. Joined(stream', reqTab')
  BY <1>4, <1>7, <1>8 DEF Joined
<1>10. Listed(stream', respTab', node', link', nodeRid')
  <2>1. \A p \in Remote : stream'[p] = None
    BY <1>3, <1>5
  <2>2. \A i \in PRids : respTab[i] = None
    BY <1>1, <1>2 DEF Listed
  <2> QED
    BY <1>1, <1>2, <2>1, <2>2 DEF Listed
<1>11. RidsUnasked'
  <2> SUFFICES ASSUME NEW r \in Reqs PROVE Unasked(toBroker[r], reqTab'[r], view[r])
    BY <1>1 DEF RidsUnasked
  <2>1. /\ toBroker[r] \in Seq(FromReq) /\ Unasked(toBroker[r], reqTab[r], view[r])
        /\ \A i \in Rids : reqTab'[r][i] # None => reqTab[r][i] # None
    BY <1>6, IInvAt
  <2> QED
    BY <2>1, UnaskedKeeps
<1>12. lost' \subseteq Reqs \X Rids /\ nodeRid' \in 0..MaxRid
  BY <1>1, <1>2, ListConstants DEF RestOK
<1> QED
  BY <1>1, <1>2, <1>9, <1>10, <1>11, <1>12 DEF IInv, RestOK

\* The streams of the responder's node
RemoteStreams == {p \in Remote : stream[p] # None}

\* The responder connects, and is asked for the streams in some order.
AsksIn(a) ==
  /\ nodeRid + Len(a) \in 0..MaxRid /\ nodeRid' = nodeRid + Len(a)
  /\ stream' = [p \in Paths |-> IF p \in Range(a)
                  THEN [stream[p] EXCEPT !.rid = nodeRid + (CHOOSE i \in DOMAIN a : a[i] = p)] ELSE stream[p]]
  /\ respTab' = [i \in PRids |-> IF i - nodeRid \in DOMAIN a THEN a[i - nodeRid] ELSE None]
  /\ toResp' = [i \in DOMAIN a |-> List(nodeRid + i, a[i])]

\* The order in which the streams are asked for again has each of them once.
LEMMA RemoteOrders ==
  ASSUME NEW a \in Orders(RemoteStreams)
  PROVE  /\ a \in Seq(RemoteStreams) /\ DOMAIN a = 1..Len(a) /\ Len(a) \in Nat
         /\ \A i, j \in 1..Len(a) : a[i] = a[j] => i = j
         /\ \A x \in RemoteStreams : \E i \in 1..Len(a) : a[i] = x
         /\ Range(a) = RemoteStreams
<1>1. IsFiniteSet(RemoteStreams)
  <2>1. RemoteStreams \subseteq Remote
    BY DEF RemoteStreams
  <2> QED
    BY <2>1, ListConstants, FS_Subset
<1>2. /\ a \in Seq(RemoteStreams) /\ DOMAIN a = 1..Len(a) /\ Len(a) \in Nat
      /\ \A i, j \in 1..Len(a) : a[i] = a[j] => i = j
      /\ \A x \in RemoteStreams : \E i \in 1..Len(a) : a[i] = x
  BY <1>1, OrdersAll
<1>3. Range(a) = RemoteStreams
  BY <1>2 DEF Range
<1> QED
  BY <1>2, <1>3

\* What a responder that connects does to the broker
LEMMA RespConnectIs ==
  ASSUME IInv, RespConnect
  PROVE  /\ ~link /\ link' = TRUE /\ node' = TRUE
         /\ UNCHANGED <<virtual, reqTab, toBroker, toReq, fromResp, open, subs, view, lost>>
         /\ content' \in [Paths -> SUBSET Names]
         /\ \E a \in Orders(RemoteStreams) : AsksIn(a)
<1>1. RestOK /\ nodeRid \in Nat
  BY IInvAt
<1>2. /\ ~link /\ link' = TRUE /\ node' = TRUE
      /\ UNCHANGED <<virtual, reqTab, toBroker, toReq, fromResp, open, subs, view, lost>>
  BY DEF RespConnect
<1>3. content' \in [Paths -> SUBSET Names]
  <2>1. PICK built \in [Remote -> SUBSET Names] :
          content' = [p \in Paths |-> IF p \in Remote THEN built[p] ELSE content[p]]
    BY DEF RespConnect
  <2> QED
    BY <1>1, <2>1 DEF RestOK
<1>4. PICK a \in Orders(RemoteStreams) :
       /\ nodeRid + Len(a) <= MaxRid /\ nodeRid' = nodeRid + Len(a)
       /\ stream' = [p \in Paths |-> IF p \in Range(a)
            THEN [stream[p] EXCEPT !.rid = nodeRid + (CHOOSE i \in DOMAIN a : a[i] = p)] ELSE stream[p]]
       /\ respTab' = [i \in PRids |-> IF i - nodeRid \in DOMAIN a THEN a[i - nodeRid] ELSE None]
       /\ toResp' = [i \in DOMAIN a |-> List(nodeRid + i, a[i])]
  BY DEF RespConnect, RemoteStreams
<1>5. nodeRid + Len(a) \in 0..MaxRid
  BY <1>1, <1>4, RemoteOrders, ListConstants
<1> QED
  BY <1>2, <1>3, <1>4, <1>5 DEF AsksIn

\* What the responder is asked for when it connects
LEMMA AskedAnew ==
  ASSUME IInv, NEW a \in Orders(RemoteStreams), AsksIn(a)
  PROVE  /\ toResp' \in Seq(ToResp) /\ Len(toResp') = Len(a)
         /\ \A i \in 1..Len(a) : /\ toResp'[i] = List(nodeRid + i, a[i])
                                 /\ nodeRid + i \in PRids /\ a[i] \in Remote
<1>1. nodeRid \in Nat /\ MaxRid \in Nat
  BY IInvAt, ListConstants
<1>2. a \in Seq(RemoteStreams) /\ DOMAIN a = 1..Len(a) /\ Len(a) \in Nat
  BY RemoteOrders
<1>3. \A i \in 1..Len(a) : nodeRid + i \in PRids /\ a[i] \in Remote
  <2> SUFFICES ASSUME NEW i \in 1..Len(a) PROVE nodeRid + i \in PRids /\ a[i] \in Remote
    OBVIOUS
  <2>1. a[i] \in RemoteStreams
    BY <1>2
  <2>2. nodeRid + i \in 1..MaxRid
    BY <1>1, <1>2 DEF AsksIn
  <2> QED
    BY <2>1, <2>2 DEF PRids, RemoteStreams
<1>4. \A i \in 1..Len(a) : List(nodeRid + i, a[i]) \in ToResp
  BY <1>3, MessageTypes
<1>5. toResp' = [i \in 1..Len(a) |-> List(nodeRid + i, a[i])]
  BY <1>2 DEF AsksIn
<1>6. toResp' \in [1..Len(a) -> ToResp]
  BY <1>4, <1>5
<1>7. toResp' \in Seq(ToResp) /\ Len(toResp') = Len(a)
  BY <1>2, <1>6
<1> QED
  BY <1>3, <1>5, <1>7

\* The streams get new rids, and a row for each.
LEMMA RespConnectStep ==
  ASSUME IInv, RespConnect
  PROVE  IInv'
<1>1. /\ link' = TRUE /\ node' = TRUE /\ content' \in [Paths -> SUBSET Names]
      /\ UNCHANGED <<virtual, reqTab, toBroker, toReq, fromResp, open, subs, view, lost>>
  BY RespConnectIs
<1>2. PICK a \in Orders(RemoteStreams) : AsksIn(a)
  BY RespConnectIs
<1>3. /\ RestOK /\ Joined(stream, reqTab) /\ None \notin Stream /\ stream \in StreamTable /\ nodeRid \in Nat
  BY IInvAt
<1>4. /\ a \in Seq(RemoteStreams) /\ DOMAIN a = 1..Len(a) /\ Len(a) \in Nat /\ Range(a) = RemoteStreams
      /\ \A x \in RemoteStreams : \E i \in 1..Len(a) : a[i] = x
  BY RemoteOrders
<1> DEFINE c(p) == CHOOSE i \in DOMAIN a : a[i] = p
<1>5. \A p \in RemoteStreams : nodeRid + c(p) \in 0..MaxRid
  <2> SUFFICES ASSUME NEW p \in RemoteStreams PROVE nodeRid + c(p) \in 0..MaxRid
    OBVIOUS
  <2>1. c(p) \in 1..Len(a)
    BY <1>4
  <2> QED
    BY <1>2, <1>3, <1>4, <2>1, ListConstants DEF AsksIn
<1>6. \A p \in Paths : stream'[p] = IF p \in RemoteStreams THEN [stream[p] EXCEPT !.rid = nodeRid + c(p)]
                                    ELSE stream[p]
  BY <1>2, <1>4 DEF AsksIn
<1> HIDE DEF c
<1>7. ASSUME NEW p \in Paths
      PROVE  /\ stream'[p] \in Stream \cup {None}
             /\ stream'[p] = None <=> stream[p] = None
             /\ stream[p] # None => stream'[p].links = stream[p].links
             /\ p \in RemoteStreams => stream'[p].rid = nodeRid + c(p)
  <2>1. stream[p] \in Stream \cup {None}
    BY <1>3 DEF StreamTable
  <2>2. CASE p \in RemoteStreams
    <3>1. stream[p] \in Stream /\ stream'[p] = [stream[p] EXCEPT !.rid = nodeRid + c(p)]
      BY <1>6, <2>1, <2>2 DEF RemoteStreams
    <3>2. stream'[p] \in Stream /\ stream'[p].links = stream[p].links /\ stream'[p].rid = nodeRid + c(p)
      BY <1>5, <2>2, <3>1 DEF Stream
    <3> QED
      BY <1>3, <3>1, <3>2
  <2>3. CASE p \notin RemoteStreams
    BY <1>6, <2>1, <2>3
  <2> QED
    BY <2>2, <2>3
<1>8. stream' \in StreamTable
  <2>1. stream' = [p \in Paths |-> stream'[p]]
    BY <1>2 DEF AsksIn
  <2> QED
    BY <1>7, <2>1 DEF StreamTable
<1>9. Joined(stream', reqTab)
  BY <1>3, <1>7, <1>8, JoinedSame
<1>10. Listed(stream', respTab', TRUE, TRUE, nodeRid + Len(a))
  <2>1. a \in Orders({p \in Remote : stream[p] # None})
    BY DEF RemoteStreams
  <2>2. \A p \in Remote :
          /\ stream'[p] = None <=> stream[p] = None
          /\ stream'[p] # None => stream'[p].rid = nodeRid + (CHOOSE i \in DOMAIN a : a[i] = p)
    BY <1>7 DEF c, Paths, RemoteStreams
  <2>3. /\ nodeRid + Len(a) \in 0..MaxRid
        /\ respTab' = [i \in PRids |-> IF i - nodeRid \in DOMAIN a THEN a[i - nodeRid] ELSE None]
    BY <1>2 DEF AsksIn
  <2> QED
    <3>1. Renumbered(stream, stream', respTab', nodeRid, a)
      BY <2>1, <2>2, <2>3 DEF Renumbered
    <3> QED
      BY <1>3, <3>1, ListedAnew
<1>11. /\ toResp' \in Seq(ToResp) /\ nodeRid' \in 0..MaxRid
       /\ Listed(stream', respTab', node', link', nodeRid')
  BY <1>1, <1>2, <1>10, AskedAnew DEF AsksIn
<1>12. RidsUnasked'
  BY <1>1, IInvAt DEF RidsUnasked
<1> QED
  BY <1>1, <1>3, <1>9, <1>11, <1>12 DEF IInv, RestOK

\* The remote streams of a requester
RemoteOf(r) == {p \in Remote : stream[p] # None /\ stream[p].links[r] # None}

\* The messages f tell a requester that the responder went, once for each of its lists.
Offlines(r, f) ==
  /\ f \in Seq(ToReq)
  /\ \A j \in 1..Len(f) : \E p \in RemoteOf(r) : f[j] = Updates(stream[p].links[r], Offline)
  /\ \A p \in RemoteOf(r) : \E j \in 1..Len(f) :
       /\ f[j] = Updates(stream[p].links[r], Offline)
       /\ \A h \in 1..Len(f) : h # j => f[h].rid # stream[p].links[r]

\* Any order of its lists will do.
LEMMA OfflinesSent ==
  ASSUME IInv, NEW r \in Reqs, NEW a \in Orders(RemoteOf(r))
  PROVE  Offlines(r, [i \in DOMAIN a |-> Updates(stream[a[i]].links[r], Offline)])
<1> DEFINE l(p) == stream[p].links[r]
           f == [i \in DOMAIN a |-> Updates(l(a[i]), Offline)]
<1>1. Joined(stream, reqTab) /\ stream \in StreamTable
  BY IInvAt
<1>2. /\ a \in Seq(RemoteOf(r)) /\ DOMAIN a = 1..Len(a) /\ Len(a) \in Nat
      /\ \A i, j \in 1..Len(a) : a[i] = a[j] => i = j
      /\ \A x \in RemoteOf(r) : \E i \in 1..Len(a) : a[i] = x
  <2>1. IsFiniteSet(RemoteOf(r))
    <3>1. RemoteOf(r) \subseteq Remote
      BY DEF RemoteOf
    <3> QED
      BY <3>1, ListConstants, FS_Subset
  <2> QED
    BY <2>1, OrdersAll
<1>3. \A p \in RemoteOf(r) : l(p) \in Rids /\ reqTab[r][l(p)] = p
  BY <1>1 DEF RemoteOf, Joined, StreamTable, Stream, Paths
<1> HIDE DEF l
<1>4. \A i \in 1..Len(a) : a[i] \in RemoteOf(r)
  BY <1>2
<1>5. \A i \in 1..Len(a) : Updates(l(a[i]), Offline) \in ToReq
  BY <1>3, <1>4, CacheTypes, MessageTypes
<1>6. f \in Seq(ToReq) /\ Len(f) = Len(a) /\ \A i \in 1..Len(a) : f[i] = Updates(l(a[i]), Offline)
  <2>1. f \in [1..Len(a) -> ToReq] /\ \A i \in 1..Len(a) : f[i] = Updates(l(a[i]), Offline)
    BY <1>2, <1>5
  <2> QED
    BY <1>2, <2>1
<1> HIDE DEF f
<1>7. ASSUME NEW p \in RemoteOf(r)
      PROVE  \E j \in 1..Len(f) : /\ f[j] = Updates(l(p), Offline)
                                  /\ \A h \in 1..Len(f) : h # j => f[h].rid # l(p)
  <2>1. PICK j \in 1..Len(a) : a[j] = p
    BY <1>2
  <2>2. ASSUME NEW h \in 1..Len(a), f[h].rid = l(p) PROVE h = j
    <3>0. f[h] = Updates(l(a[h]), Offline)
      BY <1>6
    <3>1. l(a[h]) = l(p)
      BY <2>2, <3>0 DEF Updates
    <3>2. a[h] = p
      BY <1>3, <1>4, <3>1
    <3> QED
      BY <1>2, <2>1, <3>2
  <2> QED
    BY <1>6, <2>1, <2>2
<1>8. \A j \in 1..Len(f) : \E p \in RemoteOf(r) : f[j] = Updates(l(p), Offline)
  BY <1>4, <1>6
<1>9. Offlines(r, f)
  BY <1>6, <1>7, <1>8 DEF Offlines, l
<1> QED
  BY <1>9 DEF f, l

\* What a responder that goes does to the broker
LEMMA RespDisconnectIs ==
  ASSUME IInv, RespDisconnect
  PROVE  /\ link' = FALSE
         /\ UNCHANGED <<node, nodeRid, virtual, reqTab, toBroker, content, view, lost>>
         /\ stream' = [p \in Paths |-> IF p \in Remote /\ stream[p] # None
                                       THEN [stream[p] EXCEPT !.cache = Offline] ELSE stream[p]]
         /\ toResp' = <<>> /\ fromResp' = <<>>
         /\ respTab' = [i \in PRids |-> None] /\ open' = [i \in PRids |-> None] /\ subs' = [p \in Remote |-> 0]
         /\ toReq' \in [Reqs -> Seq(ToReq)]
         /\ \A r \in Reqs : \E f \in Seq(ToReq) : Offlines(r, f) /\ toReq'[r] = toReq[r] \o f
<1>1. /\ link' = FALSE
      /\ UNCHANGED <<node, nodeRid, virtual, reqTab, toBroker, content, view, lost>>
      /\ stream' = [p \in Paths |-> IF p \in Remote /\ stream[p] # None
                                    THEN [stream[p] EXCEPT !.cache = Offline] ELSE stream[p]]
      /\ toResp' = <<>> /\ fromResp' = <<>>
      /\ respTab' = [i \in PRids |-> None] /\ open' = [i \in PRids |-> None] /\ subs' = [p \in Remote |-> 0]
  BY DEF RespDisconnect
<1>2. PICK sent \in [Reqs -> UNION {Orders(RemoteOf(r)) : r \in Reqs}] :
        /\ \A r \in Reqs : sent[r] \in Orders(RemoteOf(r))
        /\ toReq' = [r \in Reqs |-> toReq[r] \o
                      [i \in DOMAIN sent[r] |-> Updates(stream[sent[r][i]].links[r], Offline)]]
  BY DEF RespDisconnect, RemoteOf
<1> DEFINE f(r) == [i \in DOMAIN sent[r] |-> Updates(stream[sent[r][i]].links[r], Offline)]
<1>3. \A r \in Reqs : Offlines(r, f(r)) /\ f(r) \in Seq(ToReq)
  <2> SUFFICES ASSUME NEW r \in Reqs PROVE Offlines(r, f(r))
    BY DEF Offlines
  <2>1. sent[r] \in Orders(RemoteOf(r))
    BY <1>2
  <2> QED
    BY <2>1, OfflinesSent
<1>4. toReq' = [r \in Reqs |-> toReq[r] \o f(r)]
  BY <1>2
<1> HIDE DEF f
<1>5. \A r \in Reqs : toReq[r] \in Seq(ToReq)
  BY IInvAt DEF RestOK
<1>6. \A r \in Reqs : toReq[r] \o f(r) \in Seq(ToReq)
  BY <1>3, <1>5, ConcatProperties
<1>7. toReq' \in [Reqs -> Seq(ToReq)]
  BY <1>4, <1>6
<1>8. \A r \in Reqs : toReq'[r] = toReq[r] \o f(r)
  BY <1>4
<1>9. \A r \in Reqs : \E g \in Seq(ToReq) : Offlines(r, g) /\ toReq'[r] = toReq[r] \o g
  BY <1>3, <1>8
<1> QED
  BY <1>1, <1>7, <1>9

\* The rows of the responder go, its streams stay.
LEMMA RespDisconnectStep ==
  ASSUME IInv, RespDisconnect
  PROVE  IInv'
<1>1. /\ link' = FALSE
      /\ stream' = [p \in Paths |-> IF p \in Remote /\ stream[p] # None
                                    THEN [stream[p] EXCEPT !.cache = Offline] ELSE stream[p]]
      /\ respTab' = [i \in PRids |-> None]
      /\ toResp' = <<>> /\ fromResp' = <<>>
      /\ open' = [i \in PRids |-> None] /\ subs' = [p \in Remote |-> 0]
      /\ UNCHANGED <<node, nodeRid, virtual, reqTab, toBroker, content, view, lost>>
  BY RespDisconnectIs
<1>3. /\ RestOK /\ Joined(stream, reqTab) /\ Listed(stream, respTab, node, link, nodeRid)
      /\ None \notin Stream /\ stream \in StreamTable
  BY IInvAt
<1>4. toReq' \in [Reqs -> Seq(ToReq)]
  BY RespDisconnectIs
<1>5. ASSUME NEW p \in Paths
      PROVE  /\ stream'[p] \in Stream \cup {None}
             /\ stream'[p] = None <=> stream[p] = None
             /\ stream[p] # None => stream'[p].links = stream[p].links
  <2>1. stream[p] \in Stream \cup {None}
    BY <1>3 DEF StreamTable
  <2>2. CASE p \in Remote /\ stream[p] # None
    <3>1. stream[p] \in Stream /\ stream'[p] = [stream[p] EXCEPT !.cache = Offline]
      BY <1>1, <2>1, <2>2
    <3>2. stream'[p] \in Stream /\ stream'[p].links = stream[p].links
      BY <3>1, CacheTypes DEF Stream
    <3> QED
      BY <1>3, <3>1, <3>2
  <2>3. CASE ~(p \in Remote /\ stream[p] # None)
    BY <1>1, <2>1, <2>3
  <2> QED
    BY <2>2, <2>3
<1>6. stream' \in StreamTable
  BY <1>1, <1>5 DEF StreamTable
<1>7. Joined(stream', reqTab)
  BY <1>3, <1>5, <1>6, JoinedSame
<1>8. respTab' \in RespTable /\ \A i \in PRids : respTab'[i] = None
  BY <1>1 DEF RespTable
<1>9. \A p \in Remote : stream'[p] # None => node
  BY <1>3, <1>5 DEF Listed, Paths
<1>10. Listed(stream', respTab', node, FALSE, nodeRid)
  BY <1>8, <1>9, ListedAway
<1>11. open' \in RespTable /\ subs' \in [Remote -> 0..MaxRid]
  BY <1>1, ListConstants DEF RespTable
<1>12. toResp' \in Seq(ToResp) /\ fromResp' \in Seq(FromResp)
  BY <1>1
<1>13. RidsUnasked'
  BY <1>1, IInvAt DEF RidsUnasked
<1> QED
  BY <1>1, <1>3, <1>4, <1>7, <1>10, <1>11, <1>12, <1>13 DEF IInv, RestOK

\* What the responder takes
LEMMA TakenByResponder ==
  ASSUME RestOK, toResp # <<>>
  PROVE  /\ Head(toResp) \in ToResp /\ Tail(toResp) \in Seq(ToResp) /\ Head(toResp).rid \in PRids
         /\ Head(toResp).kind = "list" => Head(toResp).path \in Remote
<1>1. Head(toResp) \in ToResp /\ Tail(toResp) \in Seq(ToResp)
  BY DEF RestOK
<1> QED
  BY <1>1 DEF ToResp

\* The responder takes a list.
LEMMA RespListStep ==
  ASSUME IInv, RespList
  PROVE  IInv'
<1> DEFINE m == Head(toResp)
           msg == [kind |-> "updates", rid |-> m.rid, names |-> content[m.path]]
<1>1. /\ toResp # <<>> /\ m.kind = "list" /\ toResp' = Tail(toResp)
      /\ open' = [open EXCEPT ![m.rid] = m.path] /\ subs' = [subs EXCEPT ![m.path] = m.rid]
      /\ fromResp' = Append(fromResp, msg)
      /\ UNCHANGED <<node, link, nodeRid, virtual, stream, reqTab, respTab, toBroker, toReq, content, view, lost>>
  BY DEF RespList, broker
<1>2. RestOK
  BY IInvAt
<1>3. m.rid \in PRids /\ m.path \in Remote /\ toResp' \in Seq(ToResp)
  BY <1>1, <1>2, TakenByResponder
<1>4. msg \in FromResp
  BY <1>2, <1>3 DEF RestOK, FromResp, Paths
<1> HIDE DEF m, msg
<1>5. open' \in RespTable /\ subs' \in [Remote -> 0..MaxRid] /\ fromResp' \in Seq(FromResp)
  BY <1>1, <1>2, <1>3, <1>4 DEF RestOK, RespTable, PRids
<1>6. RidsUnasked'
  BY <1>1, IInvAt DEF RidsUnasked
<1> QED
  BY <1>1, <1>2, <1>3, <1>5, <1>6, IInvAt DEF IInv, RestOK

\* The responder takes a close.
LEMMA RespCloseStep ==
  ASSUME IInv, RespClose
  PROVE  IInv'
<1> DEFINE m == Head(toResp)
           p == open[m.rid]
<1>1. /\ toResp # <<>> /\ toResp' = Tail(toResp)
      /\ open' = [open EXCEPT ![m.rid] = None]
      /\ subs' = IF p = None THEN subs ELSE [subs EXCEPT ![p] = 0]
      /\ UNCHANGED <<node, link, nodeRid, virtual, stream, reqTab, respTab, toBroker, toReq, fromResp,
                     content, view, lost>>
  BY DEF RespClose, broker
<1>2. RestOK
  BY IInvAt
<1>3. m.rid \in PRids /\ toResp' \in Seq(ToResp)
  BY <1>1, <1>2, TakenByResponder
<1>4. p \in Remote \cup {None} /\ 0 \in 0..MaxRid
  BY <1>2, <1>3, ListConstants DEF RestOK, RespTable
<1> HIDE DEF m, p
<1>5. open' \in RespTable /\ subs' \in [Remote -> 0..MaxRid]
  BY <1>1, <1>2, <1>3, <1>4 DEF RestOK, RespTable
<1>6. RidsUnasked'
  BY <1>1, IInvAt DEF RidsUnasked
<1> QED
  BY <1>1, <1>2, <1>3, <1>5, <1>6, IInvAt DEF IInv, RestOK

\* The responder reports a change.
LEMMA RespChangeStep ==
  ASSUME IInv, NEW p \in Remote, NEW n \in Names, RespChange(p, n)
  PROVE  IInv'
<1> DEFINE present == n \notin content[p]
<1>1. /\ content' = [content EXCEPT ![p] = With(@, n, present)]
      /\ fromResp' = IF subs[p] = 0 THEN fromResp ELSE Append(fromResp, Change(subs[p], n, present))
      /\ UNCHANGED <<node, link, nodeRid, virtual, stream, reqTab, respTab, toBroker, toReq, toResp,
                     open, subs, view, lost>>
  BY DEF RespChange, broker
<1>2. RestOK
  BY IInvAt
<1>3. content' \in [Paths -> SUBSET Names]
  BY <1>1, <1>2 DEF RestOK, With, Paths
<1>4. fromResp' \in Seq(FromResp)
  <2>1. CASE subs[p] = 0
    BY <1>1, <1>2, <2>1 DEF RestOK
  <2>2. CASE subs[p] # 0
    <3>1. subs[p] \in PRids
      BY <1>2, <2>2, ListConstants DEF RestOK, PRids
    <3>2. present \in BOOLEAN
      OBVIOUS
    <3> HIDE DEF present
    <3>3. Change(subs[p], n, present) \in FromResp
      BY <3>1, <3>2, MessageTypes
    <3> QED
      BY <1>1, <1>2, <2>2, <3>3 DEF RestOK
  <2> QED
    BY <2>1, <2>2
<1>5. RidsUnasked'
  BY <1>1, IInvAt DEF RidsUnasked
<1> QED
  BY <1>1, <1>2, <1>3, <1>4, <1>5, IInvAt DEF IInv, RestOK

\* At first nobody has asked for anything.
LEMMA InitIInv ==
  Init => IInv
<1> SUFFICES ASSUME Init PROVE IInv
  OBVIOUS
<1>1. None \notin Rids /\ MaxRid \in Nat /\ 0 \in 0..MaxRid
  BY ListConstants
<1>2. Unused \in View
  BY DEF Unused, Seen, View
<1>3. RestOK
  <2>1. /\ node \in BOOLEAN /\ link \in BOOLEAN /\ nodeRid \in 0..MaxRid
        /\ virtual \subseteq {SetKey(p) : p \in Remote} /\ lost \subseteq Reqs \X Rids
        /\ content \in [Paths -> SUBSET Names]
        /\ open \in RespTable /\ subs \in [Remote -> 0..MaxRid]
    BY <1>1 DEF Init, RespTable
  <2>2. /\ toBroker \in [Reqs -> Seq(FromReq)] /\ toReq \in [Reqs -> Seq(ToReq)]
        /\ toResp \in Seq(ToResp) /\ fromResp \in Seq(FromResp)
    BY DEF Init
  <2>3. view \in [Reqs -> [Rids -> View]]
    BY <1>2 DEF Init
  <2> QED
    BY <2>1, <2>2, <2>3 DEF RestOK
<1>4. Joined(stream, reqTab)
  BY DEF Init, Joined, StreamTable, ReqTables
<1>5. Listed(stream, respTab, node, link, nodeRid)
  BY DEF Init, Listed, RespTable, Paths
<1>6. RidsUnasked
  BY DEF Init, RidsUnasked, Unasked
<1> QED
  BY <1>3, <1>4, <1>5, <1>6 DEF IInv

\* Every step keeps the invariant.
LEMMA NextIInv ==
  IInv /\ [Next]_vars => IInv'
<1> SUFFICES ASSUME IInv, [Next]_vars PROVE IInv'
  OBVIOUS
<1>1. CASE UNCHANGED vars
  BY <1>1 DEF vars, broker, responder, IInv, RestOK, RidsUnasked
<1>2. CASE Next
  BY <1>2, DisconnectStep, ClientCloseStep, ClientListStep, RefuseListStep, JoinListStep, CloseListStep,
     ReceiveStep, ListResponseStep, RespConnectStep, RespDisconnectStep, FreeNodeStep, SetAttributeStep,
     LocalChangeStep, RespListStep, RespCloseStep, RespChangeStep DEF Next
<1> QED
  BY <1>1, <1>2

\* Every table and channel of list streams stays of its type: rids of the
\* requesters and of the responder are never mixed up (msg_list.c, msg_list_remote.c).
THEOREM TypeCorrect ==
  Spec => []TypeOK
<1>1. IInv => TypeOK
  BY DEF IInv, RestOK, Joined, Listed, StreamTable, ReqTables, RespTable, TypeOK
<1> QED
  BY InitIInv, NextIInv, <1>1, PTL DEF Spec

\* requester_streams of every link and requester_links of every stream are
\* inverses of each other, and responder_streams holds the streams of remote
\* paths, whatever is listed, closed and lost in which order (msg_list.c,
\* msg_list_remote.c, stream.c, remote_dslink.c, node.c).
THEOREM TablesAlwaysAgree ==
  Spec => []TablesAgree
<1>1. IInv => TablesAgree
  BY DEF IInv, Joined, Listed, TablesAgree
<1> QED
  BY InitIInv, NextIInv, <1>1, PTL DEF Spec

-----------------------------------------------------------------------------
(***************************************************************************)
(* The responder.                                                          *)
(***************************************************************************)
\* The place k of q asks for the list of p under the rid i, or closes i
Lists(q, k, i, p) ==
  k \in 1..Len(q) /\ q[k].kind = "list" /\ q[k].rid = i /\ q[k].path = p
Closes(q, k, i) == k \in 1..Len(q) /\ q[k].kind = "close" /\ q[k].rid = i

\* A rid is asked for once, before it is closed, and has the row of its path
\* unless it is closed
AsksOK(q, o, rs, n) ==
  \A i \in PRids, p \in Remote, k \in Nat : Lists(q, k, i, p) =>
    /\ o[i] = None /\ i <= n
    /\ \A j \in Nat : Closes(q, j, i) => k < j
    /\ \A j \in Nat, t \in Remote : Lists(q, j, i, t) => j = k
    /\ rs[i] = p \/ (rs[i] = None /\ \E j \in Nat : Closes(q, j, i))
\* A rid is closed once, after its row went
ClosesOK(q, o, rs, n) ==
  \A i \in PRids, k \in Nat : Closes(q, k, i) =>
    /\ rs[i] = None /\ i <= n
    /\ o[i] # None \/ \E j \in Nat, p \in Remote : Lists(q, j, i, p)
    /\ \A j \in Nat : Closes(q, j, i) => j = k
\* What the responder lists under a rid is what the row says, or is closed,
\* and before the path is asked for again
OpensOK(q, o, s, rs, n) ==
  \A i \in PRids : o[i] # None =>
    /\ i <= n /\ s[o[i]] = i
    /\ rs[i] = o[i] \/ (rs[i] = None /\ \E j \in Nat : Closes(q, j, i))
    /\ \A k \in Nat, h \in PRids : Lists(q, k, h, o[i]) => \E j \in Nat : Closes(q, j, i) /\ j < k
RowsOK(q, o, rs) ==
  \A i \in PRids : rs[i] # None => o[i] # None \/ \E j \in Nat, p \in Remote : Lists(q, j, i, p)
SubsOK(o, s) == \A p \in Remote : s[p] # 0 => s[p] \in PRids /\ o[s[p]] = p
\* Between two lists of a path the first one is closed
PathsOK(q) ==
  \A p \in Remote, i, h \in PRids, j, k \in Nat :
    j < k /\ Lists(q, j, i, p) /\ Lists(q, k, h, p) => \E g \in Nat : Closes(q, g, i) /\ g < k

\* A responder that keeps o and s, and is sent q, comes to list what the broker
\* has in rs
InStep(q, o, s, rs, n) ==
  /\ AsksOK(q, o, rs, n) /\ ClosesOK(q, o, rs, n) /\ OpensOK(q, o, s, rs, n)
  /\ RowsOK(q, o, rs) /\ SubsOK(o, s) /\ PathsOK(q)

\* Nothing is kept for a responder that is away, nor by it.
AwayInv ==
  ~link => /\ toResp = <<>> /\ \A i \in PRids : open[i] = None /\ respTab[i] = None
           /\ \A p \in Remote : subs[p] = 0
StepInv == IInv /\ InStep(toResp, open, subs, respTab, nodeRid) /\ AwayInv

\* The broker asks for a path that has no row, under the next rid.
LEMMA InStepAsks ==
  ASSUME NEW q \in Seq(ToResp), NEW o \in RespTable, NEW s, NEW rs \in RespTable, NEW n \in Nat,
         InStep(q, o, s, rs, n), NEW p \in Remote, n + 1 \in PRids, \A i \in PRids : rs[i] # p
  PROVE  InStep(Append(q, List(n + 1, p)), o, s, [rs EXCEPT ![n + 1] = p], n + 1)
<1> DEFINE m   == n + 1
           q2  == Append(q, List(m, p))
           rs2 == [rs EXCEPT ![m] = p]
           L   == Len(q) + 1
<1>1. L \in Nat /\ Len(q2) = L /\ q2[L] = List(m, p) /\ \A k \in 1..Len(q) : q2[k] = q[k]
  BY AppendProperties
<1>2. m \in PRids /\ n < m /\ m \in Nat /\ \A i \in PRids : i \in Nat
  BY DEF PRids
<1>3. rs2 \in RespTable /\ rs2[m] = p /\ \A i \in PRids : i # m => rs2[i] = rs[i]
  BY <1>2 DEF RespTable
<1>4. List(m, p).kind = "list" /\ List(m, p).rid = m /\ List(m, p).path = p
  BY DEF List
<1> HIDE DEF m, q2, rs2
<1>5. \A k \in Nat, i \in PRids, t \in Remote :
        Lists(q2, k, i, t) <=> Lists(q, k, i, t) \/ (k = L /\ i = m /\ t = p)
  BY <1>1, <1>4 DEF Lists
<1>6. \A k \in Nat, i \in PRids : Closes(q2, k, i) <=> Closes(q, k, i)
  BY <1>1, <1>4 DEF Closes
<1>7. /\ \A k \in Nat, i \in PRids, t \in Remote : Lists(q, k, i, t) => k < L
      /\ \A k \in Nat, i \in PRids : Closes(q, k, i) => k < L
  BY DEF Lists, Closes
<1> HIDE DEF L
<1>8. /\ o[m] = None
      /\ \A k \in Nat, t \in Remote : ~Lists(q, k, m, t)
      /\ \A k \in Nat : ~Closes(q, k, m)
  BY <1>2 DEF InStep, AsksOK, ClosesOK, OpensOK
<1>9. AsksOK(q2, o, rs2, m)
  <2> SUFFICES ASSUME NEW i \in PRids, NEW t \in Remote, NEW k \in Nat, Lists(q2, k, i, t)
               PROVE  /\ o[i] = None /\ i <= m
                      /\ \A j \in Nat : Closes(q2, j, i) => k < j
                      /\ \A j \in Nat, u \in Remote : Lists(q2, j, i, u) => j = k
                      /\ rs2[i] = t \/ (rs2[i] = None /\ \E j \in Nat : Closes(q2, j, i))
    BY DEF AsksOK
  <2>1. CASE Lists(q, k, i, t)
    <3>1. i # m
      BY <1>8, <2>1
    <3>2. /\ o[i] = None /\ i <= n
          /\ \A j \in Nat : Closes(q, j, i) => k < j
          /\ \A j \in Nat, u \in Remote : Lists(q, j, i, u) => j = k
          /\ rs[i] = t \/ (rs[i] = None /\ \E j \in Nat : Closes(q, j, i))
      BY <2>1 DEF InStep, AsksOK
    <3> QED
      BY <1>2, <1>3, <1>5, <1>6, <3>1, <3>2
  <2>2. CASE k = L /\ i = m /\ t = p
    BY <1>2, <1>3, <1>5, <1>6, <1>8, <2>2
  <2> QED
    BY <1>5, <2>1, <2>2
<1>10. ClosesOK(q2, o, rs2, m)
  BY <1>2, <1>3, <1>5, <1>6, <1>8 DEF InStep, ClosesOK
<1>11. OpensOK(q2, o, s, rs2, m)
  <2> SUFFICES ASSUME NEW i \in PRids, o[i] # None
               PROVE  /\ i <= m /\ s[o[i]] = i
                      /\ rs2[i] = o[i] \/ (rs2[i] = None /\ \E j \in Nat : Closes(q2, j, i))
                      /\ \A k \in Nat, h \in PRids :
                           Lists(q2, k, h, o[i]) => \E j \in Nat : Closes(q2, j, i) /\ j < k
    BY DEF OpensOK
  <2>1. i # m /\ o[i] \in Remote /\ rs2[i] = rs[i]
    BY <1>3, <1>8 DEF RespTable
  <2>2. /\ i <= n /\ s[o[i]] = i
        /\ rs[i] = o[i] \/ (rs[i] = None /\ \E j \in Nat : Closes(q, j, i))
        /\ \A k \in Nat, h \in PRids : Lists(q, k, h, o[i]) => \E j \in Nat : Closes(q, j, i) /\ j < k
    BY DEF InStep, OpensOK
  <2>3. ASSUME NEW k \in Nat, NEW h \in PRids, Lists(q2, k, h, o[i])
        PROVE  \E j \in Nat : Closes(q2, j, i) /\ j < k
    <3>1. CASE Lists(q, k, h, o[i])
      BY <1>6, <2>2, <3>1
    <3>2. CASE k = L /\ o[i] = p
      <4>1. PICK j \in Nat : Closes(q, j, i)
        BY <2>2, <3>2
      <4> QED
        BY <1>6, <1>7, <3>2, <4>1
    <3> QED
      BY <1>5, <2>1, <2>3, <3>1, <3>2
  <2>4. i <= m
    <3>1. i \in Nat /\ i <= n
      BY <1>2, <2>2
    <3> QED
      BY <3>1 DEF m
  <2>5. rs2[i] = o[i] \/ (rs2[i] = None /\ \E j \in Nat : Closes(q2, j, i))
    BY <1>6, <2>1, <2>2
  <2> QED
    BY <2>2, <2>3, <2>4, <2>5
<1>12. RowsOK(q2, o, rs2)
  <2> SUFFICES ASSUME NEW i \in PRids, rs2[i] # None
               PROVE  o[i] # None \/ \E j \in Nat, t \in Remote : Lists(q2, j, i, t)
    BY DEF RowsOK
  <2>1. CASE i = m
    <3>1. Lists(q2, L, i, p)
      BY <1>1, <1>5, <2>1
    <3> QED
      BY <1>1, <3>1
  <2>2. CASE i # m
    BY <1>3, <1>5, <2>2 DEF InStep, RowsOK
  <2> QED
    BY <2>1, <2>2
<1>13. PathsOK(q2)
  <2> SUFFICES ASSUME NEW t \in Remote, NEW i \in PRids, NEW h \in PRids, NEW j \in Nat, NEW k \in Nat,
                      j < k, Lists(q2, j, i, t), Lists(q2, k, h, t)
               PROVE  \E g \in Nat : Closes(q2, g, i) /\ g < k
    BY DEF PathsOK
  <2>1. Lists(q, j, i, t)
    BY <1>1, <1>5, <1>7
  <2>2. CASE Lists(q, k, h, t)
    BY <1>6, <2>1, <2>2 DEF InStep, PathsOK
  <2>3. CASE k = L /\ t = p
    <3>1. rs[i] = None /\ \E g \in Nat : Closes(q, g, i)
      BY <2>1, <2>3 DEF InStep, AsksOK
    <3> QED
      BY <1>6, <1>7, <2>3, <3>1
  <2> QED
    BY <1>5, <2>2, <2>3
<1> QED
  BY <1>9, <1>10, <1>11, <1>12, <1>13 DEF InStep, m, q2, rs2

\* The broker closes rids that have rows, which go.
LEMMA InStepTells ==
  ASSUME NEW q \in Seq(ToResp), NEW o \in RespTable, NEW s, NEW rs \in RespTable, NEW n \in Nat,
         InStep(q, o, s, rs, n), NEW told \in SUBSET PRids, NEW a \in Orders(told),
         \A i \in told : rs[i] # None,
         NEW rs2, \A i \in PRids : rs2[i] = IF i \in told THEN None ELSE rs[i]
  PROVE  InStep(q \o Each(a), o, s, rs2, n)
<1> DEFINE e  == Each(a)
           q2 == q \o e
           L  == Len(q)
<1>1. /\ e \in Seq(ToResp) /\ Len(e) = Len(a) /\ a \in Seq(told)
      /\ \A i \in 1..Len(a) : e[i] = Close(a[i])
      /\ \A i, j \in 1..Len(a) : a[i] = a[j] => i = j
      /\ \A x \in told : \E i \in 1..Len(a) : a[i] = x
  BY EachType
<1>2. L \in Nat /\ Len(a) \in Nat
  BY <1>1
<1> HIDE DEF e
<1>3. /\ Len(q2) = L + Len(a)
      /\ \A k \in 1..L : q2[k] = q[k]
      /\ \A k \in L + 1..Len(q2) : q2[k] = Close(a[k - L]) /\ k - L \in 1..Len(a)
  <2>1. /\ Len(q2) = Len(q) + Len(e)
        /\ \A k \in 1..Len(q) + Len(e) : q2[k] = IF k <= Len(q) THEN q[k] ELSE e[k - Len(q)]
    <3>1. q \in Seq(ToResp) /\ e \in Seq(ToResp)
      BY <1>1
    <3>2. q2 = q \o e
      OBVIOUS
    <3> HIDE DEF q2
    <3> QED
      BY ONLY <3>1, <3>2, ConcatProperties
  <2>2. Len(q2) = L + Len(a)
    BY <1>1, <2>1
  <2>3. \A k \in 1..L : q2[k] = q[k]
    BY <1>1, <1>2, <2>1
  <2>4. ASSUME NEW k \in L + 1..Len(q2) PROVE q2[k] = Close(a[k - L]) /\ k - L \in 1..Len(a)
    <3>1. k \in 1..Len(q) + Len(e) /\ ~(k <= Len(q)) /\ k - L \in 1..Len(a)
      BY <1>1, <1>2, <2>2
    <3> QED
      BY <1>1, <2>1, <3>1
  <2> QED
    BY <2>2, <2>3, <2>4
<1>4. \A i : Close(i).kind = "close" /\ Close(i).rid = i
  BY DEF Close
<1> HIDE DEF q2, L
<1>5. \A k \in Nat, i \in PRids, t \in Remote : Lists(q2, k, i, t) <=> Lists(q, k, i, t)
  BY <1>2, <1>3, <1>4 DEF Lists, L
<1>6. \A k \in Nat, i \in PRids : Closes(q2, k, i) =>
        Closes(q, k, i) \/ (L < k /\ i \in told /\ k - L \in 1..Len(a) /\ a[k - L] = i)
  BY <1>1, <1>2, <1>3, <1>4 DEF Closes, L
<1>7. \A k \in Nat, i \in PRids : Closes(q, k, i) => Closes(q2, k, i) /\ k <= L
  BY <1>2, <1>3 DEF Closes, L
<1>8. \A k \in Nat, i \in PRids, t \in Remote : Lists(q, k, i, t) => k <= L
  BY DEF Lists, L
<1>9. \A i \in told : \E k \in Nat : L < k /\ Closes(q2, k, i)
  <2> SUFFICES ASSUME NEW i \in told PROVE \E k \in Nat : L < k /\ Closes(q2, k, i)
    OBVIOUS
  <2>1. PICK j \in 1..Len(a) : a[j] = i
    BY <1>1
  <2>2. L + j \in L + 1..Len(q2) /\ L + j \in Nat /\ (L + j) - L = j
    BY <1>2, <1>3
  <2>3. q2[L + j] = Close(i)
    BY <1>3, <2>1, <2>2
  <2>4. Closes(q2, L + j, i)
    BY <1>2, <1>4, <2>2, <2>3 DEF Closes
  <2> QED
    BY <1>2, <2>2, <2>4
<1>10. \A i \in PRids : i \in told => \A k \in Nat : ~Closes(q, k, i)
  BY DEF InStep, ClosesOK
<1>11. \A i \in PRids, j, k \in Nat : i \in told /\ Closes(q2, j, i) /\ Closes(q2, k, i) => j = k
  <2> SUFFICES ASSUME NEW i \in PRids, NEW j \in Nat, NEW k \in Nat, i \in told, Closes(q2, j, i), Closes(q2, k, i)
               PROVE  j = k
    OBVIOUS
  <2>1. j - L \in 1..Len(a) /\ k - L \in 1..Len(a) /\ a[j - L] = a[k - L]
    BY <1>6, <1>10
  <2>2. j - L = k - L
    BY <1>1, <2>1
  <2> QED
    BY <1>2, <2>2
<1>12. AsksOK(q2, o, rs2, n)
  <2> SUFFICES ASSUME NEW i \in PRids, NEW t \in Remote, NEW k \in Nat, Lists(q2, k, i, t)
               PROVE  /\ o[i] = None /\ i <= n
                      /\ \A j \in Nat : Closes(q2, j, i) => k < j
                      /\ \A j \in Nat, u \in Remote : Lists(q2, j, i, u) => j = k
                      /\ rs2[i] = t \/ (rs2[i] = None /\ \E j \in Nat : Closes(q2, j, i))
    BY DEF AsksOK
  <2>1. Lists(q, k, i, t) /\ k <= L
    BY <1>5, <1>8
  <2>2. /\ o[i] = None /\ i <= n
        /\ \A j \in Nat : Closes(q, j, i) => k < j
        /\ \A j \in Nat, u \in Remote : Lists(q, j, i, u) => j = k
        /\ rs[i] = t \/ (rs[i] = None /\ \E j \in Nat : Closes(q, j, i))
    BY <2>1 DEF InStep, AsksOK
  <2>3. \A j \in Nat : Closes(q2, j, i) => k < j
    BY <1>2, <1>6, <2>1, <2>2
  <2>4. rs2[i] = t \/ (rs2[i] = None /\ \E j \in Nat : Closes(q2, j, i))
    BY <1>7, <1>9, <2>2
  <2> QED
    BY <1>5, <2>2, <2>3, <2>4
<1>13. ClosesOK(q2, o, rs2, n)
  <2> SUFFICES ASSUME NEW i \in PRids, NEW k \in Nat, Closes(q2, k, i)
               PROVE  /\ rs2[i] = None /\ i <= n
                      /\ o[i] # None \/ \E j \in Nat, p \in Remote : Lists(q2, j, i, p)
                      /\ \A j \in Nat : Closes(q2, j, i) => j = k
    BY DEF ClosesOK
  <2>1. CASE i \in told
    <3>1. o[i] # None \/ \E j \in Nat, p \in Remote : Lists(q2, j, i, p)
      BY <1>5, <2>1 DEF InStep, RowsOK
    <3>2. i <= n
      BY <1>5, <3>1 DEF InStep, AsksOK, OpensOK
    <3> QED
      BY <1>11, <2>1, <3>1, <3>2
  <2>2. CASE i \notin told
    <3>1. Closes(q, k, i) /\ \A j \in Nat : Closes(q2, j, i) => Closes(q, j, i)
      BY <1>6, <2>2
    <3>2. /\ rs[i] = None /\ i <= n
          /\ o[i] # None \/ \E j \in Nat, p \in Remote : Lists(q, j, i, p)
          /\ \A j \in Nat : Closes(q, j, i) => j = k
      BY <3>1 DEF InStep, ClosesOK
    <3> QED
      BY <1>5, <2>2, <3>1, <3>2
  <2> QED
    BY <2>1, <2>2
<1>14. OpensOK(q2, o, s, rs2, n)
  <2> SUFFICES ASSUME NEW i \in PRids, o[i] # None
               PROVE  /\ i <= n /\ s[o[i]] = i
                      /\ rs2[i] = o[i] \/ (rs2[i] = None /\ \E j \in Nat : Closes(q2, j, i))
                      /\ \A k \in Nat, h \in PRids :
                           Lists(q2, k, h, o[i]) => \E j \in Nat : Closes(q2, j, i) /\ j < k
    BY DEF OpensOK
  <2>1. /\ i <= n /\ s[o[i]] = i
        /\ rs[i] = o[i] \/ (rs[i] = None /\ \E j \in Nat : Closes(q, j, i))
        /\ \A k \in Nat, h \in PRids : Lists(q, k, h, o[i]) => \E j \in Nat : Closes(q, j, i) /\ j < k
    BY DEF InStep, OpensOK
  <2>2. o[i] \in Remote
    BY DEF RespTable
  <2>3. rs2[i] = o[i] \/ (rs2[i] = None /\ \E j \in Nat : Closes(q2, j, i))
    BY <1>7, <1>9, <2>1
  <2>4. \A k \in Nat, h \in PRids : Lists(q2, k, h, o[i]) => \E j \in Nat : Closes(q2, j, i) /\ j < k
    BY <1>5, <1>7, <2>1, <2>2
  <2> QED
    BY <2>1, <2>3, <2>4
<1>15. RowsOK(q2, o, rs2)
  BY <1>5 DEF InStep, RowsOK
<1>16. PathsOK(q2)
  BY <1>5, <1>7 DEF InStep, PathsOK
<1> QED
  BY <1>12, <1>13, <1>14, <1>15, <1>16 DEF InStep, q2, e

\* The first request is taken.
LEMMA Taken ==
  ASSUME NEW q \in Seq(ToResp), q # <<>>
  PROVE  /\ \A k \in Nat, i \in PRids, p \in Remote : Lists(Tail(q), k, i, p) =>
              k + 1 \in Nat /\ 1 < k + 1 /\ Lists(q, k + 1, i, p)
         /\ \A k \in Nat, i \in PRids : Closes(Tail(q), k, i) =>
              k + 1 \in Nat /\ 1 < k + 1 /\ Closes(q, k + 1, i)
         /\ \A k \in Nat, i \in PRids, p \in Remote : Lists(q, k, i, p) =>
              k = 1 \/ (k - 1 \in Nat /\ Lists(Tail(q), k - 1, i, p))
         /\ \A k \in Nat, i \in PRids : Closes(q, k, i) =>
              k = 1 \/ (k - 1 \in Nat /\ Closes(Tail(q), k - 1, i))
<1> DEFINE t == Tail(q)
           n == Len(q)
<1>1. n \in Nat /\ n > 0 /\ Len(t) = n - 1 /\ \A k \in 1..Len(t) : t[k] = q[k + 1]
  OBVIOUS
<1> HIDE DEF t
<1>2. \A k \in Nat : k \in 1..Len(t) <=> k + 1 \in 1..n /\ k + 1 # 1
  BY <1>1
<1>3. \A k \in Nat : k \in 1..n => k = 1 \/ (k - 1 \in Nat /\ k - 1 \in 1..Len(t) /\ t[k - 1] = q[k])
  BY <1>1
<1> HIDE DEF n
<1>4. \A k \in Nat, i \in PRids, p \in Remote : Lists(t, k, i, p) =>
        k + 1 \in Nat /\ 1 < k + 1 /\ Lists(q, k + 1, i, p)
  BY <1>1, <1>2 DEF Lists, n
<1>5. \A k \in Nat, i \in PRids : Closes(t, k, i) =>
        k + 1 \in Nat /\ 1 < k + 1 /\ Closes(q, k + 1, i)
  BY <1>1, <1>2 DEF Closes, n
<1>6. \A k \in Nat, i \in PRids, p \in Remote : Lists(q, k, i, p) =>
        k = 1 \/ (k - 1 \in Nat /\ Lists(t, k - 1, i, p))
  BY <1>3 DEF Lists, n
<1>7. \A k \in Nat, i \in PRids : Closes(q, k, i) =>
        k = 1 \/ (k - 1 \in Nat /\ Closes(t, k - 1, i))
  BY <1>3 DEF Closes, n
<1> QED
  BY <1>4, <1>5, <1>6, <1>7 DEF t

\* The responder lists a path that it does not list yet.
LEMMA InStepLists ==
  ASSUME NEW q \in Seq(ToResp), q # <<>>, NEW o \in RespTable, NEW s \in [Remote -> 0..MaxRid],
         NEW rs \in RespTable, NEW n \in Nat, InStep(q, o, s, rs, n),
         NEW i0 \in PRids, NEW p0 \in Remote, Lists(q, 1, i0, p0)
  PROVE  InStep(Tail(q), [o EXCEPT ![i0] = p0], [s EXCEPT ![p0] = i0], rs, n)
<1> DEFINE q2 == Tail(q)
           o2 == [o EXCEPT ![i0] = p0]
           s2 == [s EXCEPT ![p0] = i0]
<1>1. /\ \A k \in Nat, i \in PRids, p \in Remote : Lists(q2, k, i, p) =>
           k + 1 \in Nat /\ 1 < k + 1 /\ Lists(q, k + 1, i, p)
      /\ \A k \in Nat, i \in PRids : Closes(q2, k, i) =>
           k + 1 \in Nat /\ 1 < k + 1 /\ Closes(q, k + 1, i)
      /\ \A k \in Nat, i \in PRids, p \in Remote : Lists(q, k, i, p) =>
           k = 1 \/ (k - 1 \in Nat /\ Lists(q2, k - 1, i, p))
      /\ \A k \in Nat, i \in PRids : Closes(q, k, i) =>
           k = 1 \/ (k - 1 \in Nat /\ Closes(q2, k - 1, i))
  BY Taken
<1>2. /\ o2[i0] = p0 /\ \A i \in PRids : i # i0 => o2[i] = o[i]
      /\ s2[p0] = i0 /\ \A p \in Remote : p # p0 => s2[p] = s[p]
  BY DEF RespTable
<1> HIDE DEF q2, o2, s2
<1>3. None \notin Remote /\ \A i \in PRids : o[i] \in Remote \cup {None}
  BY ListConstants DEF RespTable
<1>4. /\ o[i0] = None /\ i0 <= n
      /\ \A j \in Nat : Closes(q, j, i0) => 1 < j
      /\ \A j \in Nat, t \in Remote : Lists(q, j, i0, t) => j = 1
      /\ rs[i0] = p0 \/ (rs[i0] = None /\ \E j \in Nat : Closes(q, j, i0))
  BY DEF InStep, AsksOK
<1>5. \A i \in PRids : ~Closes(q, 1, i)
  BY DEF Lists, Closes
<1>6. \A i \in PRids, t \in Remote : Lists(q, 1, i, t) => i = i0 /\ t = p0
  BY DEF Lists
<1>7. \A j \in Nat, i \in PRids : Closes(q, j, i) => j - 1 \in Nat /\ Closes(q2, j - 1, i)
  BY <1>1, <1>5
<1>8. \A i \in PRids : (\E j \in Nat : Closes(q, j, i)) => \E j \in Nat : Closes(q2, j, i)
  BY <1>7
<1>9. \A i \in PRids : o[i] # p0
  <2> SUFFICES ASSUME NEW i \in PRids, o[i] = p0 PROVE FALSE
    OBVIOUS
  <2>1. PICK j \in Nat : Closes(q, j, i) /\ j < 1
    BY <1>3 DEF InStep, OpensOK
  <2> QED
    BY <2>1 DEF Closes
<1>10. AsksOK(q2, o2, rs, n)
  <2> SUFFICES ASSUME NEW i \in PRids, NEW p \in Remote, NEW k \in Nat, Lists(q2, k, i, p)
               PROVE  /\ o2[i] = None /\ i <= n
                      /\ \A j \in Nat : Closes(q2, j, i) => k < j
                      /\ \A j \in Nat, u \in Remote : Lists(q2, j, i, u) => j = k
                      /\ rs[i] = p \/ (rs[i] = None /\ \E j \in Nat : Closes(q2, j, i))
    BY DEF AsksOK
  <2>1. k + 1 \in Nat /\ 1 < k + 1 /\ Lists(q, k + 1, i, p)
    BY <1>1
  <2>2. i # i0
    BY <1>4, <2>1
  <2>3. /\ o[i] = None /\ i <= n
        /\ \A j \in Nat : Closes(q, j, i) => k + 1 < j
        /\ \A j \in Nat, u \in Remote : Lists(q, j, i, u) => j = k + 1
        /\ rs[i] = p \/ (rs[i] = None /\ \E j \in Nat : Closes(q, j, i))
    BY <2>1 DEF InStep, AsksOK
  <2>4. ASSUME NEW j \in Nat, Closes(q2, j, i) PROVE k < j
    <3>1. j + 1 \in Nat /\ Closes(q, j + 1, i)
      BY <1>1, <2>4
    <3>2. k + 1 < j + 1
      BY <2>3, <3>1
    <3> QED
      BY <3>2
  <2>5. ASSUME NEW j \in Nat, NEW u \in Remote, Lists(q2, j, i, u) PROVE j = k
    <3>1. j + 1 \in Nat /\ Lists(q, j + 1, i, u)
      BY <1>1, <2>5
    <3>2. j + 1 = k + 1
      BY <2>3, <3>1
    <3> QED
      BY <3>2
  <2>6. rs[i] = p \/ (rs[i] = None /\ \E j \in Nat : Closes(q2, j, i))
    BY <1>8, <2>3
  <2> QED
    BY <1>2, <2>2, <2>3, <2>4, <2>5, <2>6
<1>11. ClosesOK(q2, o2, rs, n)
  <2> SUFFICES ASSUME NEW i \in PRids, NEW k \in Nat, Closes(q2, k, i)
               PROVE  /\ rs[i] = None /\ i <= n
                      /\ o2[i] # None \/ \E j \in Nat, p \in Remote : Lists(q2, j, i, p)
                      /\ \A j \in Nat : Closes(q2, j, i) => j = k
    BY DEF ClosesOK
  <2>1. k + 1 \in Nat /\ 1 < k + 1 /\ Closes(q, k + 1, i)
    BY <1>1
  <2>2. /\ rs[i] = None /\ i <= n
        /\ o[i] # None \/ \E j \in Nat, p \in Remote : Lists(q, j, i, p)
        /\ \A j \in Nat : Closes(q, j, i) => j = k + 1
    BY <2>1 DEF InStep, ClosesOK
  <2>3. ASSUME NEW j \in Nat, Closes(q2, j, i) PROVE j = k
    <3>1. j + 1 \in Nat /\ Closes(q, j + 1, i)
      BY <1>1, <2>3
    <3>2. j + 1 = k + 1
      BY <2>2, <3>1
    <3> QED
      BY <3>2
  <2>4. o2[i] # None \/ \E j \in Nat, p \in Remote : Lists(q2, j, i, p)
    <3>1. CASE i = i0
      BY <1>2, <1>3, <3>1
    <3>2. CASE i # i0 /\ o[i] # None
      BY <1>2, <3>2
    <3>3. CASE i # i0 /\ \E j \in Nat, p \in Remote : Lists(q, j, i, p)
      BY <1>1, <1>6, <3>3
    <3> QED
      BY <2>2, <3>1, <3>2, <3>3
  <2> QED
    BY <2>2, <2>3, <2>4
<1>12. OpensOK(q2, o2, s2, rs, n)
  <2> SUFFICES ASSUME NEW i \in PRids, o2[i] # None
               PROVE  /\ i <= n /\ s2[o2[i]] = i
                      /\ rs[i] = o2[i] \/ (rs[i] = None /\ \E j \in Nat : Closes(q2, j, i))
                      /\ \A k \in Nat, h \in PRids :
                           Lists(q2, k, h, o2[i]) => \E j \in Nat : Closes(q2, j, i) /\ j < k
    BY DEF OpensOK
  <2>1. CASE i = i0
    <3>1. i <= n /\ s2[o2[i]] = i /\ o2[i] = p0
      BY <1>2, <1>4, <2>1
    <3>2. rs[i] = o2[i] \/ (rs[i] = None /\ \E j \in Nat : Closes(q2, j, i))
      BY <1>4, <1>8, <2>1, <3>1
    <3>3. ASSUME NEW k \in Nat, NEW h \in PRids, Lists(q2, k, h, o2[i])
          PROVE  \E j \in Nat : Closes(q2, j, i) /\ j < k
      <4>1. k + 1 \in Nat /\ 1 < k + 1 /\ Lists(q, k + 1, h, p0)
        BY <1>1, <3>1, <3>3
      <4>2. PICK g \in Nat : Closes(q, g, i0) /\ g < k + 1
        BY <4>1 DEF InStep, PathsOK
      <4>3. g - 1 \in Nat /\ Closes(q2, g - 1, i0) /\ g - 1 < k
        BY <1>7, <4>2
      <4> QED
        BY <2>1, <4>3
    <3> QED
      BY <3>1, <3>2, <3>3
  <2>2. CASE i # i0
    <3>1. o2[i] = o[i] /\ o[i] # None /\ o[i] \in Remote /\ s2[o[i]] = s[o[i]]
      BY <1>2, <1>3, <1>9, <2>2
    <3>2. /\ i <= n /\ s[o[i]] = i
          /\ rs[i] = o[i] \/ (rs[i] = None /\ \E j \in Nat : Closes(q, j, i))
          /\ \A k \in Nat, h \in PRids : Lists(q, k, h, o[i]) => \E j \in Nat : Closes(q, j, i) /\ j < k
      BY <3>1 DEF InStep, OpensOK
    <3>3. rs[i] = o2[i] \/ (rs[i] = None /\ \E j \in Nat : Closes(q2, j, i))
      BY <1>8, <3>1, <3>2
    <3>4. ASSUME NEW k \in Nat, NEW h \in PRids, Lists(q2, k, h, o2[i])
          PROVE  \E j \in Nat : Closes(q2, j, i) /\ j < k
      <4>1. k + 1 \in Nat /\ Lists(q, k + 1, h, o[i])
        BY <1>1, <3>1, <3>4
      <4>2. PICK g \in Nat : Closes(q, g, i) /\ g < k + 1
        BY <3>2, <4>1
      <4>3. g - 1 \in Nat /\ Closes(q2, g - 1, i) /\ g - 1 < k
        BY <1>7, <4>2
      <4> QED
        BY <4>3
    <3> QED
      BY <3>1, <3>2, <3>3, <3>4
  <2> QED
    BY <2>1, <2>2
<1>13. RowsOK(q2, o2, rs)
  <2> SUFFICES ASSUME NEW i \in PRids, rs[i] # None
               PROVE  o2[i] # None \/ \E j \in Nat, t \in Remote : Lists(q2, j, i, t)
    BY DEF RowsOK
  <2>1. CASE i = i0
    BY <1>2, <1>3, <2>1
  <2>2. CASE i # i0
    <3>1. o[i] # None \/ \E j \in Nat, t \in Remote : Lists(q, j, i, t)
      BY DEF InStep, RowsOK
    <3> QED
      BY <1>1, <1>2, <1>6, <2>2, <3>1
  <2> QED
    BY <2>1, <2>2
<1>14. SubsOK(o2, s2)
  <2> SUFFICES ASSUME NEW p \in Remote, s2[p] # 0 PROVE s2[p] \in PRids /\ o2[s2[p]] = p
    BY DEF SubsOK
  <2>1. CASE p = p0
    BY <1>2, <2>1
  <2>2. CASE p # p0
    <3>1. s2[p] = s[p] /\ s[p] \in PRids /\ o[s[p]] = p
      BY <1>2, <2>2 DEF InStep, SubsOK
    <3> QED
      BY <1>2, <1>3, <1>4, <3>1
  <2> QED
    BY <2>1, <2>2
<1>15. PathsOK(q2)
  <2> SUFFICES ASSUME NEW t \in Remote, NEW i \in PRids, NEW h \in PRids, NEW j \in Nat, NEW k \in Nat,
                      j < k, Lists(q2, j, i, t), Lists(q2, k, h, t)
               PROVE  \E g \in Nat : Closes(q2, g, i) /\ g < k
    BY DEF PathsOK
  <2>1. /\ j + 1 \in Nat /\ k + 1 \in Nat /\ j + 1 < k + 1
        /\ Lists(q, j + 1, i, t) /\ Lists(q, k + 1, h, t)
    BY <1>1
  <2>2. PICK g \in Nat : Closes(q, g, i) /\ g < k + 1
    BY <2>1 DEF InStep, PathsOK
  <2>3. g - 1 \in Nat /\ Closes(q2, g - 1, i) /\ g - 1 < k
    BY <1>7, <2>2
  <2> QED
    BY <2>3
<1> QED
  BY <1>10, <1>11, <1>12, <1>13, <1>14, <1>15 DEF InStep, q2, o2, s2

\* The responder closes a rid: it has listed its path.
LEMMA InStepCloses ==
  ASSUME NEW q \in Seq(ToResp), q # <<>>, NEW o \in RespTable, NEW s \in [Remote -> 0..MaxRid],
         NEW rs \in RespTable, NEW n \in Nat, InStep(q, o, s, rs, n),
         NEW i0 \in PRids, Closes(q, 1, i0)
  PROVE  /\ o[i0] # None
         /\ InStep(Tail(q), [o EXCEPT ![i0] = None], [s EXCEPT ![o[i0]] = 0], rs, n)
<1> DEFINE q2 == Tail(q)
           p0 == o[i0]
           o2 == [o EXCEPT ![i0] = None]
           s2 == [s EXCEPT ![p0] = 0]
<1>1. /\ \A k \in Nat, i \in PRids, p \in Remote : Lists(q2, k, i, p) =>
           k + 1 \in Nat /\ 1 < k + 1 /\ Lists(q, k + 1, i, p)
      /\ \A k \in Nat, i \in PRids : Closes(q2, k, i) =>
           k + 1 \in Nat /\ 1 < k + 1 /\ Closes(q, k + 1, i)
      /\ \A k \in Nat, i \in PRids, p \in Remote : Lists(q, k, i, p) =>
           k = 1 \/ (k - 1 \in Nat /\ Lists(q2, k - 1, i, p))
      /\ \A k \in Nat, i \in PRids : Closes(q, k, i) =>
           k = 1 \/ (k - 1 \in Nat /\ Closes(q2, k - 1, i))
  BY Taken
<1>2. None \notin Remote /\ \A i \in PRids : o[i] \in Remote \cup {None}
  BY ListConstants DEF RespTable
<1>3. /\ rs[i0] = None
      /\ o[i0] # None \/ \E j \in Nat, p \in Remote : Lists(q, j, i0, p)
      /\ \A j \in Nat : Closes(q, j, i0) => j = 1
  BY DEF InStep, ClosesOK
<1>4. \A j \in Nat, p \in Remote : ~Lists(q, j, i0, p)
  <2> SUFFICES ASSUME NEW j \in Nat, NEW p \in Remote, Lists(q, j, i0, p) PROVE FALSE
    OBVIOUS
  <2>1. j < 1
    BY DEF InStep, AsksOK
  <2> QED
    BY <2>1 DEF Lists
<1>5. p0 # None /\ p0 \in Remote /\ s[p0] = i0
  BY <1>2, <1>3, <1>4 DEF InStep, OpensOK
<1> HIDE DEF p0
<1>6. /\ o2[i0] = None /\ \A i \in PRids : i # i0 => o2[i] = o[i]
      /\ s2[p0] = 0 /\ \A p \in Remote : p # p0 => s2[p] = s[p]
  BY <1>5 DEF RespTable
<1> HIDE DEF q2, o2, s2
<1>7. \A i \in PRids, p \in Remote : ~Lists(q, 1, i, p)
  BY DEF Lists, Closes
<1>8. \A i \in PRids : Closes(q, 1, i) => i = i0
  BY DEF Closes
<1>9. \A j \in Nat, i \in PRids : i # i0 /\ Closes(q, j, i) => j - 1 \in Nat /\ Closes(q2, j - 1, i)
  BY <1>1, <1>8
<1>10. \A i \in PRids : i # i0 /\ (\E j \in Nat : Closes(q, j, i)) => \E j \in Nat : Closes(q2, j, i)
  BY <1>9
<1>11. AsksOK(q2, o2, rs, n)
  <2> SUFFICES ASSUME NEW i \in PRids, NEW p \in Remote, NEW k \in Nat, Lists(q2, k, i, p)
               PROVE  /\ o2[i] = None /\ i <= n
                      /\ \A j \in Nat : Closes(q2, j, i) => k < j
                      /\ \A j \in Nat, u \in Remote : Lists(q2, j, i, u) => j = k
                      /\ rs[i] = p \/ (rs[i] = None /\ \E j \in Nat : Closes(q2, j, i))
    BY DEF AsksOK
  <2>1. k + 1 \in Nat /\ 1 < k + 1 /\ Lists(q, k + 1, i, p)
    BY <1>1
  <2>2. i # i0
    BY <1>4, <2>1
  <2>3. /\ o[i] = None /\ i <= n
        /\ \A j \in Nat : Closes(q, j, i) => k + 1 < j
        /\ \A j \in Nat, u \in Remote : Lists(q, j, i, u) => j = k + 1
        /\ rs[i] = p \/ (rs[i] = None /\ \E j \in Nat : Closes(q, j, i))
    BY <2>1 DEF InStep, AsksOK
  <2>4. ASSUME NEW j \in Nat, Closes(q2, j, i) PROVE k < j
    <3>1. j + 1 \in Nat /\ Closes(q, j + 1, i)
      BY <1>1, <2>4
    <3>2. k + 1 < j + 1
      BY <2>3, <3>1
    <3> QED
      BY <3>2
  <2>5. ASSUME NEW j \in Nat, NEW u \in Remote, Lists(q2, j, i, u) PROVE j = k
    <3>1. j + 1 \in Nat /\ Lists(q, j + 1, i, u)
      BY <1>1, <2>5
    <3>2. j + 1 = k + 1
      BY <2>3, <3>1
    <3> QED
      BY <3>2
  <2>6. rs[i] = p \/ (rs[i] = None /\ \E j \in Nat : Closes(q2, j, i))
    BY <1>10, <2>2, <2>3
  <2> QED
    BY <1>6, <2>2, <2>3, <2>4, <2>5, <2>6
<1>12. ClosesOK(q2, o2, rs, n)
  <2> SUFFICES ASSUME NEW i \in PRids, NEW k \in Nat, Closes(q2, k, i)
               PROVE  /\ rs[i] = None /\ i <= n
                      /\ o2[i] # None \/ \E j \in Nat, p \in Remote : Lists(q2, j, i, p)
                      /\ \A j \in Nat : Closes(q2, j, i) => j = k
    BY DEF ClosesOK
  <2>1. k + 1 \in Nat /\ 1 < k + 1 /\ Closes(q, k + 1, i)
    BY <1>1
  <2>2. i # i0
    BY <1>3, <2>1
  <2>3. /\ rs[i] = None /\ i <= n
        /\ o[i] # None \/ \E j \in Nat, p \in Remote : Lists(q, j, i, p)
        /\ \A j \in Nat : Closes(q, j, i) => j = k + 1
    BY <2>1 DEF InStep, ClosesOK
  <2>4. ASSUME NEW j \in Nat, Closes(q2, j, i) PROVE j = k
    <3>1. j + 1 \in Nat /\ Closes(q, j + 1, i)
      BY <1>1, <2>4
    <3>2. j + 1 = k + 1
      BY <2>3, <3>1
    <3> QED
      BY <3>2
  <2>5. o2[i] # None \/ \E j \in Nat, p \in Remote : Lists(q2, j, i, p)
    BY <1>1, <1>6, <1>7, <2>2, <2>3
  <2> QED
    BY <2>3, <2>4, <2>5
<1>13. OpensOK(q2, o2, s2, rs, n)
  <2> SUFFICES ASSUME NEW i \in PRids, o2[i] # None
               PROVE  /\ i <= n /\ s2[o2[i]] = i
                      /\ rs[i] = o2[i] \/ (rs[i] = None /\ \E j \in Nat : Closes(q2, j, i))
                      /\ \A k \in Nat, h \in PRids :
                           Lists(q2, k, h, o2[i]) => \E j \in Nat : Closes(q2, j, i) /\ j < k
    BY DEF OpensOK
  <2>1. i # i0 /\ o2[i] = o[i] /\ o[i] # None /\ o[i] \in Remote
    BY <1>2, <1>6
  <2>2. /\ i <= n /\ s[o[i]] = i
        /\ rs[i] = o[i] \/ (rs[i] = None /\ \E j \in Nat : Closes(q, j, i))
        /\ \A k \in Nat, h \in PRids : Lists(q, k, h, o[i]) => \E j \in Nat : Closes(q, j, i) /\ j < k
    BY <2>1 DEF InStep, OpensOK
  <2>3. s2[o[i]] = i
    BY <1>5, <1>6, <2>1, <2>2
  <2>4. rs[i] = o2[i] \/ (rs[i] = None /\ \E j \in Nat : Closes(q2, j, i))
    BY <1>10, <2>1, <2>2
  <2>5. ASSUME NEW k \in Nat, NEW h \in PRids, Lists(q2, k, h, o2[i])
        PROVE  \E j \in Nat : Closes(q2, j, i) /\ j < k
    <3>1. k + 1 \in Nat /\ Lists(q, k + 1, h, o[i])
      BY <1>1, <2>1, <2>5
    <3>2. PICK g \in Nat : Closes(q, g, i) /\ g < k + 1
      BY <2>2, <3>1
    <3>3. g - 1 \in Nat /\ Closes(q2, g - 1, i) /\ g - 1 < k
      BY <1>9, <2>1, <3>2
    <3> QED
      BY <3>3
  <2> QED
    BY <2>1, <2>2, <2>3, <2>4, <2>5
<1>14. RowsOK(q2, o2, rs)
  <2> SUFFICES ASSUME NEW i \in PRids, rs[i] # None
               PROVE  o2[i] # None \/ \E j \in Nat, t \in Remote : Lists(q2, j, i, t)
    BY DEF RowsOK
  <2>1. i # i0
    BY <1>3
  <2>2. o[i] # None \/ \E j \in Nat, t \in Remote : Lists(q, j, i, t)
    BY DEF InStep, RowsOK
  <2> QED
    BY <1>1, <1>6, <1>7, <2>1, <2>2
<1>15. SubsOK(o2, s2)
  <2> SUFFICES ASSUME NEW p \in Remote, s2[p] # 0 PROVE s2[p] \in PRids /\ o2[s2[p]] = p
    BY DEF SubsOK
  <2>1. p # p0 /\ s2[p] = s[p] /\ s[p] \in PRids /\ o[s[p]] = p
    BY <1>6 DEF InStep, SubsOK
  <2>2. s[p] # i0
    BY <2>1 DEF p0
  <2> QED
    BY <1>6, <2>1, <2>2
<1>16. PathsOK(q2)
  <2> SUFFICES ASSUME NEW t \in Remote, NEW i \in PRids, NEW h \in PRids, NEW j \in Nat, NEW k \in Nat,
                      j < k, Lists(q2, j, i, t), Lists(q2, k, h, t)
               PROVE  \E g \in Nat : Closes(q2, g, i) /\ g < k
    BY DEF PathsOK
  <2>1. /\ j + 1 \in Nat /\ k + 1 \in Nat /\ j + 1 < k + 1
        /\ Lists(q, j + 1, i, t) /\ Lists(q, k + 1, h, t)
    BY <1>1
  <2>2. PICK g \in Nat : Closes(q, g, i) /\ g < k + 1
    BY <2>1 DEF InStep, PathsOK
  <2>3. g - 1 \in Nat /\ Closes(q2, g - 1, i) /\ g - 1 < k
    BY <1>4, <1>9, <2>1, <2>2
  <2> QED
    BY <2>3
<1> QED
  BY <1>5, <1>11, <1>12, <1>13, <1>14, <1>15, <1>16 DEF InStep, q2, o2, s2, p0

\* A responder that has nothing and is asked for the streams one after another
LEMMA InStepAnew ==
  ASSUME NEW n \in Nat, NEW S, NEW a \in Seq(S),
         \A i, j \in 1..Len(a) : a[i] = a[j] => i = j,
         NEW q, Len(q) = Len(a), NEW o, NEW s, NEW rs,
         \A i \in 1..Len(a) : q[i] = List(n + i, a[i]) /\ n + i \in PRids,
         \A i \in PRids : rs[i] = IF i - n \in 1..Len(a) THEN a[i - n] ELSE None,
         \A i \in 1..Len(a) : a[i] \in Remote,
         \A i \in PRids : o[i] = None, \A p \in Remote : s[p] = 0
  PROVE  InStep(q, o, s, rs, n + Len(a))
<1>1. Len(a) \in Nat /\ \A i \in PRids : i \in Nat
  BY DEF PRids
<1>2. \A i \in 1..Len(a) : q[i].kind = "list" /\ q[i].rid = n + i /\ q[i].path = a[i]
  <2>1. \A i, p : List(i, p).kind = "list" /\ List(i, p).rid = i /\ List(i, p).path = p
    BY DEF List
  <2> QED
    BY <2>1
<1>3. \A k \in Nat, i \in PRids, p \in Remote : Lists(q, k, i, p) =>
        k \in 1..Len(a) /\ i = n + k /\ p = a[k]
  BY <1>2 DEF Lists
<1>4. \A k \in Nat, i \in PRids : ~Closes(q, k, i)
  BY <1>2 DEF Closes
<1>5. AsksOK(q, o, rs, n + Len(a))
  <2> SUFFICES ASSUME NEW i \in PRids, NEW p \in Remote, NEW k \in Nat, Lists(q, k, i, p)
               PROVE  /\ i <= n + Len(a) /\ rs[i] = p
                      /\ \A j \in Nat, u \in Remote : Lists(q, j, i, u) => j = k
    BY <1>4 DEF AsksOK
  <2>1. k \in 1..Len(a) /\ i = n + k /\ p = a[k] /\ i - n = k
    BY <1>1, <1>3
  <2>2. ASSUME NEW j \in Nat, NEW u \in Remote, Lists(q, j, i, u) PROVE j = k
    <3>1. i = n + j
      BY <1>3, <2>2
    <3> QED
      BY <2>1, <3>1
  <2> QED
    BY <1>1, <2>1, <2>2
<1>6. ClosesOK(q, o, rs, n + Len(a)) /\ OpensOK(q, o, s, rs, n + Len(a)) /\ SubsOK(o, s)
  BY <1>4 DEF ClosesOK, OpensOK, SubsOK
<1>7. RowsOK(q, o, rs)
  <2> SUFFICES ASSUME NEW i \in PRids, rs[i] # None
               PROVE  \E j \in Nat, p \in Remote : Lists(q, j, i, p)
    BY DEF RowsOK
  <2> DEFINE k == i - n
  <2>1. k \in 1..Len(a) /\ k \in Nat /\ n + k = i
    BY <1>1
  <2> HIDE DEF k
  <2>2. q[k] = List(i, a[k]) /\ a[k] \in Remote
    BY <2>1
  <2>3. Lists(q, k, i, a[k])
    BY <2>1, <2>2 DEF Lists, List
  <2> QED
    BY <2>1, <2>2, <2>3
<1>8. PathsOK(q)
  <2> SUFFICES ASSUME NEW p \in Remote, NEW i \in PRids, NEW h \in PRids, NEW j \in Nat, NEW k \in Nat,
                      j < k, Lists(q, j, i, p), Lists(q, k, h, p)
               PROVE  FALSE
    BY DEF PathsOK
  <2>1. j \in 1..Len(a) /\ k \in 1..Len(a) /\ a[j] = a[k]
    BY <1>3
  <2> QED
    BY <2>1
<1> QED
  BY <1>5, <1>6, <1>7, <1>8 DEF InStep

\* Nothing is asked for and nothing is listed.
LEMMA InStepIdle ==
  ASSUME NEW q, q = <<>>, NEW o, NEW s, NEW rs, NEW n,
         \A i \in PRids : o[i] = None /\ rs[i] = None, \A p \in Remote : s[p] = 0
  PROVE  InStep(q, o, s, rs, n)
<1>1. \A k \in Nat, i \in PRids : ~Closes(q, k, i) /\ \A p \in Remote : ~Lists(q, k, i, p)
  BY DEF Closes, Lists
<1> QED
  BY <1>1 DEF InStep, AsksOK, ClosesOK, OpensOK, RowsOK, SubsOK, PathsOK

\* A responder that was sent everything lists what has rows.
LEMMA InStepDone ==
  ASSUME NEW q, q = <<>>, NEW o \in RespTable, NEW s \in [Remote -> 0..MaxRid], NEW rs \in RespTable, NEW n,
         InStep(q, o, s, rs, n)
  PROVE  /\ o = rs
         /\ \A p \in Remote : s[p] # 0 => s[p] \in PRids /\ rs[s[p]] = p
         /\ \A i \in PRids : rs[i] # None => s[rs[i]] = i
<1>1. \A k \in Nat, i \in PRids : ~Closes(q, k, i) /\ \A p \in Remote : ~Lists(q, k, i, p)
  BY DEF Closes, Lists
<1>2. \A i \in PRids : o[i] = rs[i]
  BY <1>1 DEF InStep, OpensOK, RowsOK
<1>3. o = rs
  BY <1>2 DEF RespTable
<1> QED
  BY <1>2, <1>3 DEF InStep, SubsOK, OpensOK

\* The invariant of the responder, taken apart
LEMMA StepInvAt ==
  ASSUME StepInv
  PROVE  /\ IInv /\ InStep(toResp, open, subs, respTab, nodeRid) /\ AwayInv /\ RestOK
         /\ toResp \in Seq(ToResp) /\ open \in RespTable /\ subs \in [Remote -> 0..MaxRid]
         /\ respTab \in RespTable /\ nodeRid \in Nat /\ link \in BOOLEAN
         /\ Listed(stream, respTab, node, link, nodeRid)
<1>1. IInv /\ InStep(toResp, open, subs, respTab, nodeRid) /\ AwayInv
  BY DEF StepInv
<1> QED
  BY <1>1, IInvAt DEF RestOK

\* Most steps are nothing to the responder.
LEMMA StepSame ==
  ASSUME StepInv, IInv', UNCHANGED <<link, nodeRid, respTab, toResp, open, subs>>
  PROVE  StepInv'
BY StepInvAt DEF StepInv, AwayInv

\* A stream that is made is asked for once.
LEMMA JoinListInStep ==
  ASSUME StepInv, NEW r \in Reqs, JoinList(r)
  PROVE  StepInv'
<1>1. /\ IInv /\ InStep(toResp, open, subs, respTab, nodeRid) /\ AwayInv
      /\ toResp \in Seq(ToResp) /\ open \in RespTable /\ respTab \in RespTable /\ nodeRid \in Nat
      /\ Listed(stream, respTab, node, link, nodeRid)
  BY StepInvAt
<1>2. IInv'
  BY <1>1, JoinListStep
<1> DEFINE rid == Head(toBroker[r]).rid
           p   == Head(toBroker[r]).path
<1>3. UNCHANGED <<link, open, subs>>
  BY <1>1, JoinListIs
<1>4. PICK s \in Stream : JoinsAs(r, rid, p, s)
  BY <1>1, JoinListIs
<1> HIDE DEF rid, p
<1>5. CASE UNCHANGED <<nodeRid, respTab, toResp>>
  BY <1>2, <1>3, <1>5, StepSame
<1>6. CASE /\ stream[p] = None /\ p \in Remote /\ link /\ nodeRid + 1 \in PRids
           /\ nodeRid' = nodeRid + 1 /\ respTab' = [respTab EXCEPT ![nodeRid + 1] = p]
           /\ toResp' = Append(toResp, List(nodeRid + 1, p))
  <2>1. \A i \in PRids : respTab[i] # p
    BY <1>1, <1>6, ListConstants DEF Listed
  <2>2. InStep(Append(toResp, List(nodeRid + 1, p)), open, subs, [respTab EXCEPT ![nodeRid + 1] = p], nodeRid + 1)
    BY <1>1, <1>6, <2>1, InStepAsks
  <2>3. InStep(toResp', open', subs', respTab', nodeRid') /\ link'
    BY <1>3, <1>6, <2>2
  <2> QED
    BY <1>2, <2>3 DEF StepInv, AwayInv
<1> QED
  BY <1>4, <1>5, <1>6 DEF JoinsAs

\* A requester leaves streams.
LEMMA LeaveAllInStep ==
  ASSUME StepInv, IInv', NEW r \in Reqs, NEW ps \in SUBSET Paths, \A p \in ps : stream[p] # None,
         LeaveAll(r, ps), UNCHANGED <<link, nodeRid, open, subs>>
  PROVE  StepInv'
<1>1. /\ IInv /\ InStep(toResp, open, subs, respTab, nodeRid)
      /\ toResp \in Seq(ToResp) /\ open \in RespTable /\ respTab \in RespTable /\ nodeRid \in Nat
  BY StepInvAt
<1>2. /\ link => \E told \in SUBSET PRids : Tells(told)
      /\ ~link => UNCHANGED <<toResp, respTab>>
  BY <1>1, LeaveAllIs
<1>3. CASE link
  <2>1. PICK told \in SUBSET PRids : Tells(told)
    BY <1>2, <1>3
  <2>2. PICK a \in Orders(told) : toResp' = toResp \o Each(a)
    BY <2>1 DEF Tells
  <2>3. /\ \A i \in told : respTab[i] # None
        /\ \A i \in PRids : respTab'[i] = IF i \in told THEN None ELSE respTab[i]
    BY <2>1 DEF Tells
  <2>4. InStep(toResp \o Each(a), open, subs, respTab', nodeRid)
    BY <1>1, <2>3, InStepTells
  <2>5. InStep(toResp', open', subs', respTab', nodeRid') /\ link'
    BY <1>3, <2>2, <2>4
  <2> QED
    BY <2>5 DEF StepInv, AwayInv
<1>4. CASE ~link
  BY <1>2, <1>4, StepSame
<1> QED
  BY <1>3, <1>4

\* The responder is told of the stream that goes with a close.
LEMMA CloseListInStep ==
  ASSUME StepInv, NEW r \in Reqs, CloseList(r)
  PROVE  StepInv'
<1> DEFINE rid == Head(toBroker[r]).rid
           I   == {rid}
           ps  == {reqTab[r][i] : i \in I} \ {None}
<1>1. /\ Request(r, "close") /\ LeaveAll(r, {reqTab[r][rid]} \ {None})
      /\ UNCHANGED <<link, nodeRid, open, subs>>
  BY DEF CloseList, responder
<1>2. IInv /\ RestOK
  BY StepInvAt
<1>3. IInv'
  BY <1>2, CloseListStep
<1>4. rid \in Rids
  BY <1>1, <1>2, RequestType
<1> HIDE DEF rid
<1>5. ps = {reqTab[r][rid]} \ {None} /\ I \in SUBSET Rids
  BY <1>4
<1> HIDE DEF I
<1>6. ps \in SUBSET Paths /\ \A p \in ps : stream[p] # None
  BY <1>2, <1>5, LeftPaths
<1>7. LeaveAll(r, ps)
  BY <1>1, <1>5
<1> HIDE DEF ps
<1> QED
  BY <1>1, <1>3, <1>6, <1>7, LeaveAllInStep

\* The responder is told of every stream that goes with a requester.
LEMMA DisconnectInStep ==
  ASSUME StepInv, NEW r \in Reqs, Disconnect(r)
  PROVE  StepInv'
<1> DEFINE ps == {reqTab[r][i] : i \in Rids} \ {None}
<1>1. LeaveAll(r, ps) /\ UNCHANGED <<link, nodeRid, open, subs>>
  BY DEF Disconnect, responder
<1>2. IInv
  BY StepInvAt
<1>3. IInv'
  BY <1>2, DisconnectStep
<1>4. ps \in SUBSET Paths /\ \A p \in ps : stream[p] # None
  BY <1>2, LeftPaths
<1> HIDE DEF ps
<1> QED
  BY <1>1, <1>3, <1>4, LeaveAllInStep

\* A responder that connects has nothing, and is asked for every stream.
LEMMA RespConnectInStep ==
  ASSUME StepInv, RespConnect
  PROVE  StepInv'
<1>1. IInv /\ AwayInv /\ nodeRid \in Nat
  BY StepInvAt
<1>2. IInv'
  BY <1>1, RespConnectStep
<1>3. ~link /\ link' = TRUE /\ UNCHANGED <<open, subs>>
  BY <1>1, RespConnectIs
<1>4. PICK a \in Orders(RemoteStreams) : AsksIn(a)
  BY <1>1, RespConnectIs
<1>5. /\ a \in Seq(RemoteStreams) /\ DOMAIN a = 1..Len(a) /\ Len(a) \in Nat
      /\ \A i, j \in 1..Len(a) : a[i] = a[j] => i = j
  BY RemoteOrders
<1>6. /\ Len(toResp') = Len(a)
      /\ \A i \in 1..Len(a) : toResp'[i] = List(nodeRid + i, a[i]) /\ nodeRid + i \in PRids /\ a[i] \in Remote
  BY <1>1, <1>4, AskedAnew
<1>7. /\ nodeRid' = nodeRid + Len(a)
      /\ \A i \in PRids : respTab'[i] = IF i - nodeRid \in 1..Len(a) THEN a[i - nodeRid] ELSE None
  BY <1>4, <1>5 DEF AsksIn
<1>8. (\A i \in PRids : open[i] = None) /\ \A p \in Remote : subs[p] = 0
  BY <1>1, <1>3 DEF AwayInv
<1> DEFINE q  == toResp'
           rs == respTab'
<1> HIDE DEF q, rs
<1>9. InStep(q, open, subs, rs, nodeRid + Len(a))
  <2>1. /\ Len(q) = Len(a)
        /\ \A i \in 1..Len(a) : q[i] = List(nodeRid + i, a[i]) /\ nodeRid + i \in PRids
        /\ \A i \in 1..Len(a) : a[i] \in Remote
        /\ \A i \in PRids : rs[i] = IF i - nodeRid \in 1..Len(a) THEN a[i - nodeRid] ELSE None
    BY <1>6, <1>7 DEF q, rs
  <2> QED
    BY <1>1, <1>5, <1>8, <2>1, InStepAnew
<1>10. InStep(toResp', open', subs', respTab', nodeRid')
  BY <1>3, <1>7, <1>9 DEF q, rs
<1> QED
  BY <1>2, <1>3, <1>10 DEF StepInv, AwayInv

\* What is under way to the responder is lost with its tables.
LEMMA RespDisconnectInStep ==
  ASSUME StepInv, RespDisconnect
  PROVE  StepInv'
<1>1. IInv
  BY StepInvAt
<1>2. IInv'
  BY <1>1, RespDisconnectStep
<1>3. /\ toResp' = <<>> /\ (\A i \in PRids : open'[i] = None /\ respTab'[i] = None)
      /\ \A p \in Remote : subs'[p] = 0
  BY DEF RespDisconnect
<1>4. InStep(toResp', open', subs', respTab', nodeRid')
  BY <1>3, InStepIdle
<1> QED
  BY <1>2, <1>3, <1>4 DEF StepInv, AwayInv

\* The node is freed while the responder has nothing.
LEMMA FreeNodeInStep ==
  ASSUME StepInv, FreeNode
  PROVE  StepInv'
<1>1. IInv /\ AwayInv
  BY StepInvAt
<1>2. IInv'
  BY <1>1, FreeNodeStep
<1>3. ~link /\ UNCHANGED <<link, respTab, toResp, open, subs>>
  BY DEF FreeNode, responder
<1>4. /\ toResp' = <<>> /\ (\A i \in PRids : open'[i] = None /\ respTab'[i] = None)
      /\ \A p \in Remote : subs'[p] = 0
  BY <1>1, <1>3 DEF AwayInv
<1>5. InStep(toResp', open', subs', respTab', nodeRid')
  BY <1>4, InStepIdle
<1> QED
  BY <1>2, <1>4, <1>5 DEF StepInv, AwayInv

\* The responder lists what it is asked for.
LEMMA RespListInStep ==
  ASSUME StepInv, RespList
  PROVE  StepInv'
<1> DEFINE m == Head(toResp)
<1>1. /\ link /\ toResp # <<>> /\ m.kind = "list" /\ toResp' = Tail(toResp)
      /\ open' = [open EXCEPT ![m.rid] = m.path] /\ subs' = [subs EXCEPT ![m.path] = m.rid]
      /\ UNCHANGED <<link, nodeRid, respTab>>
  BY DEF RespList, broker
<1>2. /\ IInv /\ InStep(toResp, open, subs, respTab, nodeRid) /\ RestOK
      /\ toResp \in Seq(ToResp) /\ open \in RespTable /\ subs \in [Remote -> 0..MaxRid]
      /\ respTab \in RespTable /\ nodeRid \in Nat
  BY StepInvAt
<1>3. IInv'
  BY <1>2, RespListStep
<1>4. m.rid \in PRids /\ m.path \in Remote
  BY <1>1, <1>2, TakenByResponder
<1>5. toResp[1] = m /\ 1 \in 1..Len(toResp)
  BY <1>1, <1>2
<1> HIDE DEF m
<1>6. Lists(toResp, 1, m.rid, m.path)
  BY <1>1, <1>5 DEF Lists
<1>7. InStep(Tail(toResp), [open EXCEPT ![m.rid] = m.path], [subs EXCEPT ![m.path] = m.rid], respTab, nodeRid)
  BY <1>1, <1>2, <1>4, <1>6, InStepLists
<1>8. InStep(toResp', open', subs', respTab', nodeRid')
  BY <1>1, <1>7
<1> QED
  BY <1>1, <1>3, <1>8 DEF StepInv, AwayInv

\* The responder closes what it was told of.
LEMMA RespCloseInStep ==
  ASSUME StepInv, RespClose
  PROVE  StepInv'
<1> DEFINE m == Head(toResp)
           i == m.rid
<1>1. /\ link /\ toResp # <<>> /\ m.kind = "close" /\ toResp' = Tail(toResp)
      /\ open' = [open EXCEPT ![i] = None]
      /\ subs' = IF open[i] = None THEN subs ELSE [subs EXCEPT ![open[i]] = 0]
      /\ UNCHANGED <<link, nodeRid, respTab>>
  BY DEF RespClose, broker
<1>2. /\ IInv /\ InStep(toResp, open, subs, respTab, nodeRid) /\ RestOK
      /\ toResp \in Seq(ToResp) /\ open \in RespTable /\ subs \in [Remote -> 0..MaxRid]
      /\ respTab \in RespTable /\ nodeRid \in Nat
  BY StepInvAt
<1>3. IInv'
  BY <1>2, RespCloseStep
<1>4. i \in PRids
  BY <1>1, <1>2, TakenByResponder
<1>5. toResp[1] = m /\ 1 \in 1..Len(toResp)
  BY <1>1, <1>2
<1>6. Closes(toResp, 1, i)
  BY <1>1, <1>5 DEF Closes
<1> HIDE DEF m, i
<1>7. /\ open[i] # None
      /\ InStep(Tail(toResp), [open EXCEPT ![i] = None], [subs EXCEPT ![open[i]] = 0], respTab, nodeRid)
  BY <1>1, <1>2, <1>4, <1>6, InStepCloses
<1>8. InStep(toResp', open', subs', respTab', nodeRid')
  BY <1>1, <1>7
<1> QED
  BY <1>1, <1>3, <1>8 DEF StepInv, AwayInv

\* At first nothing is listed.
LEMMA InitStepInv ==
  Init => StepInv
<1> SUFFICES ASSUME Init PROVE StepInv
  OBVIOUS
<1>1. IInv
  BY InitIInv
<1>2. /\ toResp = <<>> /\ (\A i \in PRids : open[i] = None /\ respTab[i] = None)
      /\ \A p \in Remote : subs[p] = 0
  BY DEF Init
<1>3. InStep(toResp, open, subs, respTab, nodeRid)
  BY <1>2, InStepIdle
<1> QED
  BY <1>1, <1>2, <1>3 DEF StepInv, AwayInv

\* Every step keeps the responder in step.
LEMMA NextStepInv ==
  StepInv /\ [Next]_vars => StepInv'
<1> SUFFICES ASSUME StepInv, [Next]_vars PROVE StepInv'
  OBVIOUS
<1>1. IInv'
  BY NextIInv, StepInvAt
<1>2. CASE UNCHANGED vars
  BY <1>1, <1>2, StepSame DEF vars, broker, responder
<1>3. ASSUME NEW r \in Reqs, NEW rid \in Rids, NEW p \in Paths, ClientList(r, rid, p) PROVE StepInv'
  BY <1>1, <1>3, StepSame DEF ClientList, broker, responder
<1>4. ASSUME NEW r \in Reqs, NEW rid \in Rids, ClientClose(r, rid) PROVE StepInv'
  BY <1>1, <1>4, StepSame DEF ClientClose, broker, responder
<1>5. ASSUME NEW r \in Reqs, RefuseList(r) \/ Receive(r) PROVE StepInv'
  BY <1>1, <1>5, StepSame DEF RefuseList, Receive, broker, responder
<1>6. CASE ListResponse
  BY <1>1, <1>6, StepSame DEF ListResponse, responder
<1>7. ASSUME NEW p \in Remote, NEW present \in BOOLEAN, SetAttribute(p, present) PROVE StepInv'
  BY <1>1, <1>7, StepSame DEF SetAttribute, responder
<1>8. ASSUME NEW p \in Local, NEW n \in Names, LocalChange(p, n) PROVE StepInv'
  BY <1>1, <1>8, StepSame DEF LocalChange
<1>9. ASSUME NEW p \in Remote, NEW n \in Names, RespChange(p, n) PROVE StepInv'
  BY <1>1, <1>9, StepSame DEF RespChange, broker
<1>10. CASE Next
  BY <1>3, <1>4, <1>5, <1>6, <1>7, <1>8, <1>9, <1>10, DisconnectInStep, JoinListInStep, CloseListInStep,
     RespConnectInStep, RespDisconnectInStep, FreeNodeInStep, RespListInStep, RespCloseInStep DEF Next
<1> QED
  BY <1>2, <1>10

\* A responder that has handled every request lists, in open_streams and
\* list_subs, exactly the paths for which the broker has list streams, under
\* their rids: no list is closed that was asked for again, and no closed one
\* goes on, across reconnections and freed nodes (msg_list_remote.c,
\* msg_close.c, remote_dslink.c, and the SDK's request_handler.c, list_response.c).
THEOREM ResponderAlwaysInStep ==
  Spec => []ResponderInStep
<1>1. StepInv => ResponderInStep
  <2> SUFFICES ASSUME StepInv, link, toResp = <<>>
               PROVE  /\ open = respTab
                      /\ \A p \in Remote : subs[p] = IF stream[p] = None THEN 0 ELSE stream[p].rid
    BY DEF ResponderInStep
  <2>1. /\ InStep(toResp, open, subs, respTab, nodeRid)
        /\ open \in RespTable /\ subs \in [Remote -> 0..MaxRid] /\ respTab \in RespTable
        /\ Listed(stream, respTab, node, link, nodeRid)
    BY StepInvAt
  <2>2. /\ open = respTab
        /\ \A p \in Remote : subs[p] # 0 => subs[p] \in PRids /\ respTab[subs[p]] = p
        /\ \A i \in PRids : respTab[i] # None => subs[respTab[i]] = i
    BY <2>1, InStepDone
  <2>3. ASSUME NEW p \in Remote PROVE subs[p] = IF stream[p] = None THEN 0 ELSE stream[p].rid
    <3>1. p # None
      BY ListConstants
    <3>2. CASE stream[p] = None
      BY <2>1, <2>2, <3>1, <3>2 DEF Listed
    <3>3. CASE stream[p] # None
      <4>1. stream[p].rid \in PRids /\ respTab[stream[p].rid] = p
        BY <2>1, <3>3 DEF Listed
      <4> QED
        BY <2>2, <3>1, <3>3, <4>1
    <3> QED
      BY <3>2, <3>3
  <2> QED
    BY <2>2, <2>3
<1> QED
  BY InitStepInv, NextStepInv, <1>1, PTL DEF Spec

-----------------------------------------------------------------------------
(***************************************************************************)
(* What the lists show.                                                    *)
(***************************************************************************)
\* The place k of q, on its way to a requester, gives all of the cache under
\* the rid i; or says of the name n whether it is there; or ends the list
Renews(q, k, i) == k \in 1..Len(q) /\ q[k].kind = "updates" /\ q[k].rid = i
Mentions(q, k, i, n) ==
  /\ k \in 1..Len(q) /\ q[k].rid = i
  /\ \/ q[k].kind = "change" /\ q[k].name = n
     \/ q[k].kind = "updates" /\ (q[k].cache.head \/ n \in q[k].cache.names)
Ends(q, k, i) == k \in 1..Len(q) /\ q[k].kind = "closed" /\ q[k].rid = i
IsThere(m, n) == IF m.kind = "change" THEN m.present ELSE n \in m.cache.names

\* A requester with the view v of i that takes q comes to know d of the
\* responder, and of n whether it is there
ComesToDisc(q, i, v, d) ==
  \/ v.disc = d /\ \A j \in Nat : ~Renews(q, j, i)
  \/ \E k \in Nat : /\ Renews(q, k, i) /\ q[k].cache.disc = d /\ (q[k].cache.head \/ d)
                    /\ \A j \in Nat : Renews(q, j, i) => j <= k
ComesToName(q, i, v, n, there) ==
  \/ (n \in v.names <=> there) /\ \A j \in Nat : ~Mentions(q, j, i, n)
  \/ \E k \in Nat : /\ Mentions(q, k, i, n) /\ (IsThere(q[k], n) <=> there)
                    /\ \A j \in Nat : Mentions(q, j, i, n) => j <= k

\* It comes to show the cache c, if that is one to go by
Follows(q, i, v, c) ==
  /\ c.head \/ c.disc => ComesToDisc(q, i, v, c.disc)
  /\ c.head => \A n \in Items : ComesToName(q, i, v, n, n \in c.names)

\* An open list is asked for, refused, or follows its stream
Shows(r, i) ==
  \/ \E k \in Nat : Lists(toBroker[r], k, i, view[r][i].path)
  \/ \E k \in Nat : Ends(toReq[r], k, i)
  \/ /\ reqTab[r][i] # None /\ reqTab[r][i] = view[r][i].path
     /\ Follows(toReq[r], i, view[r][i], stream[reqTab[r][i]].cache)
ViewsInv == \A r \in Reqs, i \in Rids : view[r][i].state = "open" /\ <<r, i>> \notin lost => Shows(r, i)

\* What a requester asks for is what it knows; it asks for the open list of a
\* path last, and closes no open list
AsksKnown(q, v) ==
  /\ \A k \in Nat, i \in Rids, p \in Paths : Lists(q, k, i, p) =>
       /\ v[i].path = p
       /\ \A h \in Rids : h # i /\ v[h].state = "open" /\ v[h].path = p => \E j \in Nat : k < j /\ Lists(q, j, h, p)
  /\ \A k \in Nat, i \in Rids : Closes(q, k, i) => v[i].state \in {"replaced", "closed", "ended"}
AsksInv == \A r \in Reqs : AsksKnown(toBroker[r], view[r])

\* The place k of q, on its way from the responder, says of n under the rid i
\* whether it is there
Reports(q, k, i, n) ==
  k \in 1..Len(q) /\ q[k].rid = i /\ (q[k].kind = "change" => q[k].name = n)
Reported(m, n) == IF m.kind = "change" THEN m.present ELSE n \in m.names
\* With the reports of q on i the cache c comes to hold names
ComesToHold(q, i, c, names) ==
  /\ (c.head /\ ~c.disc) \/ \E k \in 1..Len(q) : q[k].rid = i /\ q[k].kind = "updates"
  /\ \A n \in Names :
       \/ (n \in c.names <=> n \in names) /\ \A j \in Nat : ~Reports(q, j, i, n)
       \/ \E k \in Nat : /\ Reports(q, k, i, n) /\ (Reported(q[k], n) <=> n \in names)
                         /\ \A j \in Nat : Reports(q, j, i, n) => j <= k

\* The responder is asked for the stream of p, or listed it and reports on it
Feeds(p) ==
  \/ \E k \in Nat : Lists(toResp, k, stream[p].rid, p)
  \/ subs[p] = stream[p].rid /\ ComesToHold(fromResp, stream[p].rid, stream[p].cache, content[p])
RemoteInv == \A p \in Remote : stream[p] # None => IF link THEN Feeds(p) ELSE stream[p].cache.disc
LocalInv ==
  \A p \in Local : stream[p] # None =>
    /\ stream[p].cache.head /\ ~stream[p].cache.disc
    /\ \A n \in Names : n \in stream[p].cache.names <=> n \in content[p]

ShowInv == StepInv /\ ViewsInv /\ AsksInv /\ RemoteInv /\ LocalInv

-----------------------------------------------------------------------------
\* What is said under a rid other than that of the last message stays.
LEMMA FollowsSame ==
  ASSUME NEW q, NEW q2, NEW i, NEW v, NEW c, Follows(q, i, v, c),
         \A k \in Nat : /\ Renews(q2, k, i) <=> Renews(q, k, i)
                        /\ \A n \in Items : Mentions(q2, k, i, n) <=> Mentions(q, k, i, n),
         \A k \in 1..Len(q) : q2[k] = q[k]
  PROVE  Follows(q2, i, v, c)
<1>1. ASSUME c.head \/ c.disc PROVE ComesToDisc(q2, i, v, c.disc)
  <2>1. ComesToDisc(q, i, v, c.disc)
    BY <1>1 DEF Follows
  <2>2. CASE v.disc = c.disc /\ \A j \in Nat : ~Renews(q, j, i)
    BY <2>2 DEF ComesToDisc
  <2>3. ASSUME NEW k \in Nat, Renews(q, k, i), q[k].cache.disc = c.disc, q[k].cache.head \/ c.disc,
               \A j \in Nat : Renews(q, j, i) => j <= k
        PROVE  ComesToDisc(q2, i, v, c.disc)
    <3>1. q2[k] = q[k]
      BY <2>3 DEF Renews
    <3>2. Renews(q2, k, i) /\ \A j \in Nat : Renews(q2, j, i) => j <= k
      BY <2>3
    <3>3. q2[k].cache.disc = c.disc /\ (q2[k].cache.head \/ c.disc)
      BY <2>3, <3>1
    <3> QED
      BY <3>2, <3>3 DEF ComesToDisc
  <2> QED
    BY <2>1, <2>2, <2>3 DEF ComesToDisc
<1>2. ASSUME c.head, NEW n \in Items PROVE ComesToName(q2, i, v, n, n \in c.names)
  <2>1. ComesToName(q, i, v, n, n \in c.names)
    BY <1>2 DEF Follows
  <2>2. CASE (n \in v.names <=> n \in c.names) /\ \A j \in Nat : ~Mentions(q, j, i, n)
    BY <2>2 DEF ComesToName
  <2>3. ASSUME NEW k \in Nat, Mentions(q, k, i, n), IsThere(q[k], n) <=> n \in c.names,
               \A j \in Nat : Mentions(q, j, i, n) => j <= k
        PROVE  ComesToName(q2, i, v, n, n \in c.names)
    <3>1. q2[k] = q[k]
      BY <2>3 DEF Mentions
    <3>2. Mentions(q2, k, i, n) /\ \A j \in Nat : Mentions(q2, j, i, n) => j <= k
      BY <2>3
    <3>3. IsThere(q2[k], n) <=> n \in c.names
      BY <2>3, <3>1
    <3> QED
      BY <3>2, <3>3 DEF ComesToName
  <2> QED
    BY <2>1, <2>2, <2>3 DEF ComesToName
<1> QED
  BY <1>1, <1>2 DEF Follows

\* A message that gives all of the cache, and is the last one
LEMMA FollowsLast ==
  ASSUME NEW q, NEW i, NEW v, NEW c, NEW L \in Nat, Renews(q, L, i), q[L].cache = c,
         \A j \in Nat : Renews(q, j, i) => j <= L,
         \A j \in Nat, n \in Items : Mentions(q, j, i, n) => j <= L
  PROVE  Follows(q, i, v, c)
<1>1. ASSUME c.head \/ c.disc PROVE ComesToDisc(q, i, v, c.disc)
  BY <1>1 DEF ComesToDisc
<1>2. ASSUME c.head, NEW n \in Items PROVE ComesToName(q, i, v, n, n \in c.names)
  <2>1. Mentions(q, L, i, n)
    BY <1>2 DEF Mentions, Renews
  <2>2. IsThere(q[L], n) <=> n \in c.names
    BY DEF Renews, IsThere
  <2> QED
    BY <2>1, <2>2 DEF ComesToName
<1> QED
  BY <1>1, <1>2 DEF Follows

\* One more message to a requester
LEMMA Appended ==
  ASSUME NEW T, NEW q \in Seq(T), NEW m \in T
  PROVE  /\ Len(q) + 1 \in Nat /\ Len(Append(q, m)) = Len(q) + 1 /\ Append(q, m)[Len(q) + 1] = m
         /\ \A k \in 1..Len(q) : Append(q, m)[k] = q[k]
         /\ \A k \in Nat : k \in 1..(Len(q) + 1) <=> k \in 1..Len(q) \/ k = Len(q) + 1
         /\ \A k \in 1..Len(q) : k < Len(q) + 1
BY AppendProperties

LEMMA AppendedToReq ==
  ASSUME NEW q \in Seq(ToReq), NEW m \in ToReq, NEW i
  PROVE  /\ \A k \in Nat : Renews(Append(q, m), k, i) <=>
              Renews(q, k, i) \/ (k = Len(q) + 1 /\ m.kind = "updates" /\ m.rid = i)
         /\ \A k \in Nat, n \in Items : Mentions(Append(q, m), k, i, n) <=>
              \/ Mentions(q, k, i, n)
              \/ /\ k = Len(q) + 1 /\ m.rid = i
                 /\ \/ m.kind = "change" /\ m.name = n
                    \/ m.kind = "updates" /\ (m.cache.head \/ n \in m.cache.names)
         /\ \A k \in Nat : Ends(Append(q, m), k, i) <=>
              Ends(q, k, i) \/ (k = Len(q) + 1 /\ m.kind = "closed" /\ m.rid = i)
<1> DEFINE q2 == Append(q, m)
           L  == Len(q) + 1
<1>1. /\ L \in Nat /\ Len(q2) = L /\ q2[L] = m /\ \A k \in 1..Len(q) : q2[k] = q[k] /\ k < L
      /\ \A k \in Nat : k \in 1..L <=> k \in 1..Len(q) \/ k = L
  BY Appended
<1>2. L \notin 1..Len(q)
  BY <1>1
<1> HIDE DEF q2, L
<1>3. \A k \in Nat : Renews(q2, k, i) <=> Renews(q, k, i) \/ (k = L /\ m.kind = "updates" /\ m.rid = i)
  BY <1>1, <1>2 DEF Renews
<1>4. \A k \in Nat, n \in Items : Mentions(q2, k, i, n) <=>
        \/ Mentions(q, k, i, n)
        \/ /\ k = L /\ m.rid = i
           /\ \/ m.kind = "change" /\ m.name = n
              \/ m.kind = "updates" /\ (m.cache.head \/ n \in m.cache.names)
  BY <1>1, <1>2 DEF Mentions
<1>5. \A k \in Nat : Ends(q2, k, i) <=> Ends(q, k, i) \/ (k = L /\ m.kind = "closed" /\ m.rid = i)
  BY <1>1, <1>2 DEF Ends
<1> QED
  BY <1>3, <1>4, <1>5 DEF q2, L

\* A message under another rid, or one that ends the list
LEMMA FollowsOther ==
  ASSUME NEW q \in Seq(ToReq), NEW m \in ToReq, NEW i, NEW v, NEW c, Follows(q, i, v, c),
         m.rid # i \/ m.kind = "closed"
  PROVE  Follows(Append(q, m), i, v, c)
<1>1. \A k \in Nat : /\ Renews(Append(q, m), k, i) <=> Renews(q, k, i)
                     /\ \A n \in Items : Mentions(Append(q, m), k, i, n) <=> Mentions(q, k, i, n)
  BY AppendedToReq
<1>2. \A k \in 1..Len(q) : Append(q, m)[k] = q[k]
  BY Appended
<1> QED
  BY <1>1, <1>2, FollowsSame

\* All of the cache is sent.
LEMMA FollowsUpdates ==
  ASSUME NEW q \in Seq(ToReq), NEW i \in Rids, NEW v, NEW c \in Cache
  PROVE  Follows(Append(q, Updates(i, c)), i, v, c)
<1> DEFINE m == Updates(i, c)
<1>1. m \in ToReq
  BY MessageTypes
<1>2. m.kind = "updates" /\ m.rid = i /\ m.cache = c
  BY DEF Updates
<1>3. Len(q) + 1 \in Nat /\ Append(q, m)[Len(q) + 1] = m /\ \A k \in 1..Len(q) : k < Len(q) + 1
  BY <1>1, Appended
<1> HIDE DEF m
<1>4. Renews(Append(q, m), Len(q) + 1, i)
  BY <1>1, <1>2, <1>3, AppendedToReq
<1>5. \A j \in Nat : Renews(q, j, i) => j <= Len(q) + 1
  BY <1>3 DEF Renews
<1>6. \A j \in Nat, n \in Items : Mentions(q, j, i, n) => j <= Len(q) + 1
  BY <1>3 DEF Mentions
<1> DEFINE q2 == Append(q, m)
           L  == Len(q) + 1
<1>7. /\ \A k \in Nat : Renews(q2, k, i) => Renews(q, k, i) \/ k = L
      /\ \A k \in Nat, n \in Items : Mentions(q2, k, i, n) => Mentions(q, k, i, n) \/ k = L
  BY <1>1, AppendedToReq
<1> HIDE DEF q2, L
<1>8. L \in Nat /\ (\A j \in Nat : Renews(q, j, i) => j <= L)
      /\ \A j \in Nat, n \in Items : Mentions(q, j, i, n) => j <= L
  BY <1>3, <1>5, <1>6 DEF L
<1>9. \A j \in Nat : Renews(q2, j, i) => j <= L
  BY <1>7, <1>8
<1>10. \A j \in Nat, n \in Items : Mentions(q2, j, i, n) => j <= L
  BY <1>7, <1>8
<1>11. Renews(q2, L, i) /\ q2[L].cache = c
  BY <1>2, <1>3, <1>4 DEF q2, L
<1>12. Follows(q2, i, v, c)
  BY <1>8, <1>9, <1>10, <1>11, FollowsLast
<1> QED
  BY <1>12 DEF q2, m

\* A change of one name is sent and made in the cache.
LEMMA FollowsChange ==
  ASSUME NEW q \in Seq(ToReq), NEW i \in Rids, NEW v, NEW c \in Cache, Follows(q, i, v, c),
         NEW n \in Items, NEW b \in BOOLEAN
  PROVE  Follows(Append(q, Change(i, n, b)), i, v, [c EXCEPT !.names = With(@, n, b)])
<1> DEFINE m  == Change(i, n, b)
           c2 == [c EXCEPT !.names = With(@, n, b)]
           q2 == Append(q, m)
           L  == Len(q) + 1
<1>1. m \in ToReq
  BY MessageTypes
<1>2. m.kind = "change" /\ m.rid = i /\ m.name = n /\ m.present = b
  BY DEF Change
<1>3. c2.head = c.head /\ c2.disc = c.disc /\ c2.names = With(c.names, n, b)
  BY DEF Cache
<1>4. L \in Nat /\ q2[L] = m /\ \A k \in 1..Len(q) : q2[k] = q[k] /\ k < L
  BY <1>1, Appended
<1> HIDE DEF m, c2
<1>5. /\ \A k \in Nat : Renews(q2, k, i) <=> Renews(q, k, i)
      /\ \A k \in Nat, x \in Items : Mentions(q2, k, i, x) <=> Mentions(q, k, i, x) \/ (k = L /\ x = n)
  BY <1>1, <1>2, AppendedToReq
<1> HIDE DEF q2, L
<1>6. ASSUME c2.head \/ c2.disc PROVE ComesToDisc(q2, i, v, c2.disc)
  <2>1. ComesToDisc(q, i, v, c.disc)
    BY <1>3, <1>6 DEF Follows
  <2>2. \A k \in Nat : Renews(q, k, i) => q2[k] = q[k]
    BY <1>4 DEF Renews
  <2>3. ComesToDisc(q2, i, v, c.disc)
    BY <1>5, <2>1, <2>2 DEF ComesToDisc
  <2> QED
    BY <1>3, <2>3
<1>7. ASSUME c2.head, NEW x \in Items PROVE ComesToName(q2, i, v, x, x \in c2.names)
  <2>1. CASE x = n
    <3>1. Mentions(q2, L, i, x) /\ (IsThere(q2[L], x) <=> x \in c2.names)
      BY <1>2, <1>3, <1>4, <1>5, <2>1 DEF IsThere, With
    <3>2. \A j \in Nat : Mentions(q2, j, i, x) => j <= L
      BY <1>4, <1>5 DEF Mentions
    <3> QED
      BY <1>4, <3>1, <3>2 DEF ComesToName
  <2>2. CASE x # n
    <3>1. ComesToName(q, i, v, x, x \in c.names)
      BY <1>3, <1>7 DEF Follows
    <3>2. x \in c.names <=> x \in c2.names
      BY <1>3, <2>2 DEF With
    <3>3. \A k \in Nat : /\ Mentions(q2, k, i, x) <=> Mentions(q, k, i, x)
                         /\ Mentions(q, k, i, x) => q2[k] = q[k]
      BY <1>4, <1>5, <2>2 DEF Mentions
    <3> QED
      BY <3>1, <3>2, <3>3 DEF ComesToName
  <2> QED
    BY <2>1, <2>2
<1> QED
  BY <1>6, <1>7 DEF Follows, c2, q2, m

\* What an open view becomes with a message that does not end it
LEMMA ShownIs ==
  ASSUME NEW v \in View, v.state = "open", NEW m \in ToReq, m.kind # "closed"
  PROVE  /\ Shown(v, m).state = "open" /\ Shown(v, m).path = v.path
         /\ m.kind = "change" => /\ Shown(v, m).disc = v.disc
                                 /\ \A n \in Items : n \in Shown(v, m).names <=>
                                      IF n = m.name THEN m.present ELSE n \in v.names
         /\ m.kind = "updates" =>
              /\ Shown(v, m).disc = IF m.cache.head THEN m.cache.disc ELSE (v.disc \/ m.cache.disc)
              /\ \A n \in Items : n \in Shown(v, m).names <=>
                   n \in m.cache.names \/ (~m.cache.head /\ n \in v.names)
<1> DEFINE w == Shown(v, m)
<1>1. v.disc \in BOOLEAN /\ v.names \subseteq Items
  BY DEF View
<1>2. CASE m.kind = "change"
  <2>1. w = [v EXCEPT !.names = With(@, m.name, m.present)]
    BY <1>2 DEF Shown
  <2>2. m.present \in BOOLEAN
    BY <1>2 DEF ToReq
  <2> HIDE DEF w
  <2>3. w.state = v.state /\ w.path = v.path /\ w.disc = v.disc /\ w.names = With(v.names, m.name, m.present)
    BY <2>1 DEF View
  <2>4. \A n \in Items : n \in w.names <=> IF n = m.name THEN m.present ELSE n \in v.names
    BY <2>2, <2>3 DEF With
  <2> QED
    BY <1>2, <2>3, <2>4 DEF w
<1>3. CASE m.kind = "updates"
  <2>1. m.cache \in Cache
    BY <1>3 DEF ToReq
  <2>2. CASE m.cache.head
    <3>1. w = [v EXCEPT !.disc = m.cache.disc, !.names = m.cache.names]
      BY <1>3, <2>2 DEF Shown
    <3> HIDE DEF w
    <3>2. w.state = v.state /\ w.path = v.path /\ w.disc = m.cache.disc /\ w.names = m.cache.names
      BY <3>1 DEF View
    <3> QED
      BY <1>3, <2>2, <3>2 DEF w
  <2>3. CASE ~m.cache.head
    <3>1. w = [v EXCEPT !.disc = @ \/ m.cache.disc, !.names = @ \cup m.cache.names]
      BY <1>3, <2>3 DEF Shown
    <3> HIDE DEF w
    <3>2. w.state = v.state /\ w.path = v.path
      BY <3>1 DEF View
    <3>3. w.disc = (v.disc \/ m.cache.disc)
      BY <3>1 DEF View
    <3>4. w.names = v.names \cup m.cache.names
      BY <3>1 DEF View
    <3> QED
      BY <1>3, <2>3, <3>2, <3>3, <3>4 DEF w
  <2> QED
    BY <2>2, <2>3
<1> QED
  BY <1>2, <1>3 DEF ToReq

\* A requester takes a message: the places of the others
LEMMA TakenToReq ==
  ASSUME NEW q \in Seq(ToReq), q # <<>>, NEW i
  PROVE  /\ \A k \in Nat : Renews(Tail(q), k, i) =>
              k + 1 \in Nat /\ 1 < k + 1 /\ Renews(q, k + 1, i) /\ Tail(q)[k] = q[k + 1]
         /\ \A k \in Nat : Renews(q, k, i) =>
              k = 1 \/ (k - 1 \in Nat /\ Renews(Tail(q), k - 1, i) /\ Tail(q)[k - 1] = q[k])
         /\ \A k \in Nat, n \in Items : Mentions(Tail(q), k, i, n) =>
              k + 1 \in Nat /\ 1 < k + 1 /\ Mentions(q, k + 1, i, n) /\ Tail(q)[k] = q[k + 1]
         /\ \A k \in Nat, n \in Items : Mentions(q, k, i, n) =>
              k = 1 \/ (k - 1 \in Nat /\ Mentions(Tail(q), k - 1, i, n) /\ Tail(q)[k - 1] = q[k])
         /\ \A k \in Nat : Ends(q, k, i) => k = 1 \/ (k - 1 \in Nat /\ Ends(Tail(q), k - 1, i))
<1> DEFINE t == Tail(q)
           n == Len(q)
<1>1. n \in Nat /\ n > 0 /\ Len(t) = n - 1 /\ \A k \in 1..Len(t) : t[k] = q[k + 1]
  OBVIOUS
<1> HIDE DEF t
<1>2. \A k \in Nat : k \in 1..Len(t) => k + 1 \in Nat /\ 1 < k + 1 /\ k + 1 \in 1..n /\ t[k] = q[k + 1]
  BY <1>1
<1>3. \A k \in Nat : k \in 1..n => k = 1 \/ (k - 1 \in Nat /\ k - 1 \in 1..Len(t) /\ t[k - 1] = q[k])
  BY <1>1
<1> HIDE DEF n
<1>4. \A k \in Nat : Renews(t, k, i) => k + 1 \in Nat /\ 1 < k + 1 /\ Renews(q, k + 1, i) /\ t[k] = q[k + 1]
  BY <1>2 DEF Renews, n
<1>5. \A k \in Nat : Renews(q, k, i) => k = 1 \/ (k - 1 \in Nat /\ Renews(t, k - 1, i) /\ t[k - 1] = q[k])
  BY <1>3 DEF Renews, n
<1>6. \A k \in Nat, x \in Items : Mentions(t, k, i, x) =>
        k + 1 \in Nat /\ 1 < k + 1 /\ Mentions(q, k + 1, i, x) /\ t[k] = q[k + 1]
  BY <1>2 DEF Mentions, n
<1>7. \A k \in Nat, x \in Items : Mentions(q, k, i, x) =>
        k = 1 \/ (k - 1 \in Nat /\ Mentions(t, k - 1, i, x) /\ t[k - 1] = q[k])
  BY <1>3 DEF Mentions, n
<1>8. \A k \in Nat : Ends(q, k, i) => k = 1 \/ (k - 1 \in Nat /\ Ends(t, k - 1, i))
  BY <1>3 DEF Ends, n
<1> QED
  BY <1>4, <1>5, <1>6, <1>7, <1>8 DEF t

\* A requester that takes a message follows with those that are left.
LEMMA FollowsTaken ==
  ASSUME NEW q \in Seq(ToReq), q # <<>>, NEW i, NEW v \in View, v.state = "open", NEW c \in Cache,
         Follows(q, i, v, c), ~(q[1].kind = "closed" /\ q[1].rid = i),
         NEW w, w = IF q[1].rid = i THEN Shown(v, q[1]) ELSE v
  PROVE  Follows(Tail(q), i, w, c)
<1> DEFINE t == Tail(q)
           m == q[1]
<1>1. m \in ToReq /\ 1 \in 1..Len(q)
  OBVIOUS
<1>2. /\ m.rid # i => w = v
      /\ m.rid = i => w = Shown(v, m) /\ m.kind # "closed"
      /\ m.kind \in {"updates", "change", "closed"}
  BY <1>1 DEF ToReq
<1>3. /\ m.rid # i \/ m.kind = "change" => w.disc = v.disc
      /\ \A n \in Items : m.rid # i \/ (m.kind = "change" /\ n # m.name) => (n \in w.names <=> n \in v.names)
  BY <1>1, <1>2, ShownIs
<1>4. m.rid = i /\ m.kind = "updates" =>
        /\ w.disc = IF m.cache.head THEN m.cache.disc ELSE (v.disc \/ m.cache.disc)
        /\ \A n \in Items : n \in w.names <=> n \in m.cache.names \/ (~m.cache.head /\ n \in v.names)
  BY <1>1, <1>2, ShownIs
<1>5. \A n \in Items : m.rid = i /\ m.kind = "change" /\ n = m.name => (n \in w.names <=> m.present)
  BY <1>1, <1>2, ShownIs
<1>6. /\ \A k \in Nat : Renews(t, k, i) => k + 1 \in Nat /\ 1 < k + 1 /\ Renews(q, k + 1, i) /\ t[k] = q[k + 1]
      /\ \A k \in Nat : Renews(q, k, i) => k = 1 \/ (k - 1 \in Nat /\ Renews(t, k - 1, i) /\ t[k - 1] = q[k])
      /\ \A k \in Nat, n \in Items : Mentions(t, k, i, n) =>
           k + 1 \in Nat /\ 1 < k + 1 /\ Mentions(q, k + 1, i, n) /\ t[k] = q[k + 1]
      /\ \A k \in Nat, n \in Items : Mentions(q, k, i, n) =>
           k = 1 \/ (k - 1 \in Nat /\ Mentions(t, k - 1, i, n) /\ t[k - 1] = q[k])
  BY TakenToReq
<1>7. /\ Renews(q, 1, i) <=> m.rid = i /\ m.kind = "updates"
      /\ \A n \in Items : Mentions(q, 1, i, n) <=>
           m.rid = i /\ (\/ m.kind = "change" /\ m.name = n
                         \/ m.kind = "updates" /\ (m.cache.head \/ n \in m.cache.names))
  BY <1>1 DEF Renews, Mentions
<1>8. c.disc \in BOOLEAN /\ v.disc \in BOOLEAN
  BY DEF Cache, View
<1> HIDE DEF t
<1>9. ASSUME c.head \/ c.disc PROVE ComesToDisc(t, i, w, c.disc)
  <2>1. ComesToDisc(q, i, v, c.disc)
    BY <1>9 DEF Follows
  <2>2. CASE v.disc = c.disc /\ \A j \in Nat : ~Renews(q, j, i)
    <3>1. w.disc = v.disc
      BY <1>2, <1>3, <1>7, <2>2
    <3>2. \A j \in Nat : ~Renews(t, j, i)
      BY <1>6, <2>2
    <3> QED
      BY <2>2, <3>1, <3>2 DEF ComesToDisc
  <2>3. ASSUME NEW k \in Nat, Renews(q, k, i), q[k].cache.disc = c.disc, q[k].cache.head \/ c.disc,
               \A j \in Nat : Renews(q, j, i) => j <= k
        PROVE  ComesToDisc(t, i, w, c.disc)
    <3>1. CASE k = 1
      <4>1. w.disc = c.disc
        BY <1>4, <1>7, <1>8, <2>3, <3>1
      <4>2. \A j \in Nat : ~Renews(t, j, i)
        BY <1>6, <2>3, <3>1
      <4> QED
        BY <4>1, <4>2 DEF ComesToDisc
    <3>2. CASE k # 1
      <4>1. k - 1 \in Nat /\ Renews(t, k - 1, i) /\ t[k - 1] = q[k]
        BY <1>6, <2>3, <3>2
      <4>2. \A j \in Nat : Renews(t, j, i) => j <= k - 1
        BY <1>6, <2>3
      <4> QED
        BY <2>3, <4>1, <4>2 DEF ComesToDisc
    <3> QED
      BY <3>1, <3>2
  <2> QED
    BY <2>1, <2>2, <2>3 DEF ComesToDisc
<1>10. ASSUME c.head, NEW n \in Items PROVE ComesToName(t, i, w, n, n \in c.names)
  <2>1. ComesToName(q, i, v, n, n \in c.names)
    BY <1>10 DEF Follows
  <2>2. CASE (n \in v.names <=> n \in c.names) /\ \A j \in Nat : ~Mentions(q, j, i, n)
    <3>1. n \in w.names <=> n \in v.names
      BY <1>2, <1>3, <1>4, <1>7, <2>2
    <3>2. \A j \in Nat : ~Mentions(t, j, i, n)
      BY <1>6, <2>2
    <3> QED
      BY <2>2, <3>1, <3>2 DEF ComesToName
  <2>3. ASSUME NEW k \in Nat, Mentions(q, k, i, n), IsThere(q[k], n) <=> n \in c.names,
               \A j \in Nat : Mentions(q, j, i, n) => j <= k
        PROVE  ComesToName(t, i, w, n, n \in c.names)
    <3>1. CASE k = 1
      <4>1. IsThere(m, n) <=> n \in w.names
        BY <1>4, <1>5, <1>7, <2>3, <3>1 DEF IsThere
      <4>2. \A j \in Nat : ~Mentions(t, j, i, n)
        BY <1>6, <2>3, <3>1
      <4> QED
        BY <2>3, <3>1, <4>1, <4>2 DEF ComesToName
    <3>2. CASE k # 1
      <4>1. k - 1 \in Nat /\ Mentions(t, k - 1, i, n) /\ t[k - 1] = q[k]
        BY <1>6, <2>3, <3>2
      <4>2. \A j \in Nat : Mentions(t, j, i, n) => j <= k - 1
        BY <1>6, <2>3
      <4> QED
        BY <2>3, <4>1, <4>2 DEF ComesToName
    <3> QED
      BY <3>1, <3>2
  <2> QED
    BY <2>1, <2>2, <2>3 DEF ComesToName
<1> QED
  BY <1>9, <1>10 DEF Follows, t

\* Messages are put behind the others; one of them may give the cache.
LEMMA FollowsAll ==
  ASSUME NEW q \in Seq(ToReq), NEW f \in Seq(ToReq), NEW i, NEW v, NEW c
  PROVE  /\ Follows(q, i, v, c) /\ (\A j \in 1..Len(f) : f[j].rid # i) => Follows(q \o f, i, v, c)
         /\ \A j0 \in 1..Len(f) :
              /\ f[j0].kind = "updates" /\ f[j0].rid = i /\ f[j0].cache = c
              /\ \A j \in 1..Len(f) : j # j0 => f[j].rid # i
              => Follows(q \o f, i, v, c)
         /\ \A k \in Nat : Ends(q, k, i) => Ends(q \o f, k, i)
<1> DEFINE q2 == q \o f
           n  == Len(q)
           m  == Len(f)
<1>1. /\ n \in Nat /\ m \in Nat /\ Len(q2) = n + m
      /\ \A k \in 1..n : q2[k] = q[k] /\ k \in 1..(n + m)
      /\ \A k \in 1..(n + m) : k \in 1..n \/ (k - n \in 1..m /\ q2[k] = f[k - n])
      /\ \A j \in 1..m : n + j \in 1..(n + m) /\ n + j \in Nat /\ q2[n + j] = f[j]
  BY ConcatProperties
<1> HIDE DEF q2
<1>2. ASSUME Follows(q, i, v, c), \A j \in 1..m : f[j].rid # i
      PROVE  Follows(q2, i, v, c)
  <2> HIDE DEF n, m
  <2>1. \A k \in Nat : k \in 1..Len(q2) /\ q2[k].rid = i => k \in 1..n
    BY <1>1, <1>2
  <2>2. \A k \in Nat : /\ Renews(q2, k, i) <=> Renews(q, k, i)
                       /\ \A x \in Items : Mentions(q2, k, i, x) <=> Mentions(q, k, i, x)
    BY <1>1, <2>1 DEF Renews, Mentions, n
  <2>3. \A k \in 1..Len(q) : q2[k] = q[k]
    BY <1>1 DEF n
  <2> QED
    BY <1>2, <2>2, <2>3, FollowsSame
<1>3. ASSUME NEW j0 \in 1..m, f[j0].kind = "updates" /\ f[j0].rid = i /\ f[j0].cache = c,
             \A j \in 1..m : j # j0 => f[j].rid # i
      PROVE  Follows(q2, i, v, c)
  <2> DEFINE L == n + j0
  <2>1. L \in Nat /\ L \in 1..(n + m) /\ q2[L] = f[j0]
    BY <1>1
  <2>2. \A k \in 1..(n + m) : q2[k].rid = i => k <= L
    <3> SUFFICES ASSUME NEW k \in 1..(n + m), q2[k].rid = i PROVE k <= L
      OBVIOUS
    <3>1. CASE k \in 1..n
      BY <1>1, <3>1
    <3>2. CASE k - n \in 1..m /\ q2[k] = f[k - n]
      <4>1. k - n = j0
        BY <1>3, <3>2
      <4> QED
        BY <1>1, <4>1
    <3> QED
      BY <1>1, <3>1, <3>2
  <2> HIDE DEF L, n, m
  <2>3. Renews(q2, L, i) /\ q2[L].cache = c
    BY <1>1, <1>3, <2>1 DEF Renews
  <2>4. \A k \in Nat : Renews(q2, k, i) => k <= L
    BY <1>1, <2>2 DEF Renews
  <2>5. \A k \in Nat, x \in Items : Mentions(q2, k, i, x) => k <= L
    BY <1>1, <2>2 DEF Mentions
  <2> QED
    BY <2>1, <2>3, <2>4, <2>5, FollowsLast
<1>4. \A k \in Nat : Ends(q, k, i) => Ends(q2, k, i)
  BY <1>1 DEF Ends
<1> QED
  BY <1>2, <1>3, <1>4 DEF q2, n, m

\* One more request of a requester, and one that is taken
LEMMA AppendedFromReq ==
  ASSUME NEW q \in Seq(FromReq), NEW m \in FromReq
  PROVE  /\ \A k \in Nat, i \in Rids, p \in Paths : Lists(Append(q, m), k, i, p) <=>
              Lists(q, k, i, p) \/ (k = Len(q) + 1 /\ m.kind = "list" /\ m.rid = i /\ m.path = p)
         /\ \A k \in Nat, i \in Rids : Closes(Append(q, m), k, i) <=>
              Closes(q, k, i) \/ (k = Len(q) + 1 /\ m.kind = "close" /\ m.rid = i)
         /\ \A k \in Nat, i \in Rids, p \in Paths : Lists(q, k, i, p) => k < Len(q) + 1
<1> DEFINE q2 == Append(q, m)
           L  == Len(q) + 1
<1>1. /\ L \in Nat /\ Len(q2) = L /\ q2[L] = m /\ \A k \in 1..Len(q) : q2[k] = q[k] /\ k < L
      /\ \A k \in Nat : k \in 1..L <=> k \in 1..Len(q) \/ k = L
  BY Appended
<1>2. L \notin 1..Len(q)
  BY <1>1
<1> HIDE DEF q2, L
<1>3. \A k \in Nat, i \in Rids, p \in Paths : Lists(q2, k, i, p) <=>
        Lists(q, k, i, p) \/ (k = L /\ m.kind = "list" /\ m.rid = i /\ m.path = p)
  BY <1>1, <1>2 DEF Lists
<1>4. \A k \in Nat, i \in Rids : Closes(q2, k, i) <=>
        Closes(q, k, i) \/ (k = L /\ m.kind = "close" /\ m.rid = i)
  BY <1>1, <1>2 DEF Closes
<1>5. \A k \in Nat, i \in Rids, p \in Paths : Lists(q, k, i, p) => k < L
  BY <1>1 DEF Lists
<1> QED
  BY <1>3, <1>4, <1>5 DEF q2, L

LEMMA TakenFromReq ==
  ASSUME NEW q \in Seq(FromReq), q # <<>>
  PROVE  /\ \A k \in Nat, i \in Rids, p \in Paths : Lists(Tail(q), k, i, p) =>
              k + 1 \in Nat /\ 1 < k + 1 /\ Lists(q, k + 1, i, p)
         /\ \A k \in Nat, i \in Rids : Closes(Tail(q), k, i) => k + 1 \in Nat /\ Closes(q, k + 1, i)
         /\ \A k \in Nat, i \in Rids, p \in Paths : Lists(q, k, i, p) =>
              k = 1 \/ (k - 1 \in Nat /\ Lists(Tail(q), k - 1, i, p))
         /\ 1 \in 1..Len(q) /\ q[1] = Head(q)
<1> DEFINE t == Tail(q)
           n == Len(q)
<1>1. n \in Nat /\ n > 0 /\ Len(t) = n - 1 /\ \A k \in 1..Len(t) : t[k] = q[k + 1]
  OBVIOUS
<1> HIDE DEF t
<1>2. \A k \in Nat : k \in 1..Len(t) => k + 1 \in Nat /\ 1 < k + 1 /\ k + 1 \in 1..n /\ t[k] = q[k + 1]
  BY <1>1
<1>3. \A k \in Nat : k \in 1..n => k = 1 \/ (k - 1 \in Nat /\ k - 1 \in 1..Len(t) /\ t[k - 1] = q[k])
  BY <1>1
<1>4. 1 \in 1..n /\ q[1] = Head(q)
  BY <1>1
<1> HIDE DEF n
<1>5. \A k \in Nat, i \in Rids, p \in Paths : Lists(t, k, i, p) =>
        k + 1 \in Nat /\ 1 < k + 1 /\ Lists(q, k + 1, i, p)
  BY <1>2 DEF Lists, n
<1>6. \A k \in Nat, i \in Rids : Closes(t, k, i) => k + 1 \in Nat /\ Closes(q, k + 1, i)
  BY <1>2 DEF Closes, n
<1>7. \A k \in Nat, i \in Rids, p \in Paths : Lists(q, k, i, p) =>
        k = 1 \/ (k - 1 \in Nat /\ Lists(t, k - 1, i, p))
  BY <1>3 DEF Lists, n
<1> QED
  BY <1>4, <1>5, <1>6, <1>7 DEF t, n

\* A requester asks with a new rid.
LEMMA AsksMore ==
  ASSUME NEW q \in Seq(FromReq), NEW v, NEW v2, AsksKnown(q, v), NEW i0 \in Rids, NEW p0 \in Paths,
         v[i0] = Unused,
         \A i \in Rids : v2[i] = IF i = i0 THEN Seen(p0, "open")
                                 ELSE IF v[i].state = "open" /\ v[i].path = p0 THEN Seen(p0, "replaced") ELSE v[i]
  PROVE  AsksKnown(Append(q, List(i0, p0)), v2)
<1> DEFINE m  == List(i0, p0)
           q2 == Append(q, m)
           L  == Len(q) + 1
<1>1. m \in FromReq /\ m.kind = "list" /\ m.rid = i0 /\ m.path = p0
  BY MessageTypes DEF List
<1>2. L \in Nat
  OBVIOUS
<1> HIDE DEF m
<1>3. /\ \A k \in Nat, i \in Rids, p \in Paths : Lists(q2, k, i, p) <=> Lists(q, k, i, p) \/ (k = L /\ i = i0 /\ p = p0)
      /\ \A k \in Nat, i \in Rids : Closes(q2, k, i) <=> Closes(q, k, i)
      /\ \A k \in Nat, i \in Rids, p \in Paths : Lists(q, k, i, p) => k < L
  BY <1>1, AppendedFromReq
<1> HIDE DEF q2, L
<1>4. /\ Unused.path = None /\ Unused.state = "unused" /\ None \notin Paths
      /\ Seen(p0, "open").path = p0 /\ Seen(p0, "open").state = "open"
      /\ Seen(p0, "replaced").path = p0 /\ Seen(p0, "replaced").state = "replaced"
  BY ListConstants DEF Unused, Seen, Paths
<1>5. \A i \in Rids : i # i0 => v2[i].path = v[i].path /\ (v2[i].state = "open" => v[i].state = "open" /\ v[i].path # p0)
  BY <1>4
<1>6. ASSUME NEW k \in Nat, NEW i \in Rids, NEW p \in Paths, Lists(q2, k, i, p)
      PROVE  /\ v2[i].path = p
             /\ \A h \in Rids : h # i /\ v2[h].state = "open" /\ v2[h].path = p =>
                  \E j \in Nat : k < j /\ Lists(q2, j, h, p)
  <2>1. CASE Lists(q, k, i, p)
    <3>1. v[i].path = p /\ i # i0
      BY <1>4, <2>1 DEF AsksKnown
    <3>2. v2[i].path = p
      BY <1>5, <3>1
    <3>3. ASSUME NEW h \in Rids, h # i, v2[h].state = "open", v2[h].path = p
          PROVE  \E j \in Nat : k < j /\ Lists(q2, j, h, p)
      <4>1. CASE h = i0
        <5>1. p = p0
          BY <1>4, <3>3, <4>1
        <5> QED
          BY <1>2, <1>3, <2>1, <4>1, <5>1
      <4>2. CASE h # i0
        <5>1. v[h].state = "open" /\ v[h].path = p
          BY <1>5, <3>3, <4>2
        <5>2. \E j \in Nat : k < j /\ Lists(q, j, h, p)
          BY <2>1, <3>3, <5>1 DEF AsksKnown
        <5> QED
          BY <1>3, <5>2
      <4> QED
        BY <4>1, <4>2
    <3> QED
      BY <3>2, <3>3
  <2>2. CASE k = L /\ i = i0 /\ p = p0
    BY <1>4, <1>5, <2>2
  <2> QED
    BY <1>3, <1>6, <2>1, <2>2
<1>7. ASSUME NEW k \in Nat, NEW i \in Rids, Closes(q2, k, i)
      PROVE  v2[i].state \in {"replaced", "closed", "ended"}
  <2>1. v[i].state \in {"replaced", "closed", "ended"}
    BY <1>3, <1>7 DEF AsksKnown
  <2>2. i # i0
    BY <1>4, <2>1
  <2> QED
    BY <2>1, <2>2
<1> QED
  BY <1>6, <1>7 DEF AsksKnown, q2, m

\* A requester closes a list.
LEMMA AsksClose ==
  ASSUME NEW q \in Seq(FromReq), NEW v, NEW v2, AsksKnown(q, v), NEW i0 \in Rids,
         \A i \in Rids : v2[i] = IF i = i0 THEN Seen(v[i].path, "closed") ELSE v[i]
  PROVE  AsksKnown(Append(q, Close(i0)), v2)
<1> DEFINE m  == Close(i0)
           q2 == Append(q, m)
<1>1. m \in FromReq /\ m.kind = "close" /\ m.rid = i0
  BY MessageTypes DEF Close
<1> HIDE DEF m
<1>2. /\ \A k \in Nat, i \in Rids, p \in Paths : Lists(q2, k, i, p) <=> Lists(q, k, i, p)
      /\ \A k \in Nat, i \in Rids : Closes(q2, k, i) => Closes(q, k, i) \/ i = i0
  BY <1>1, AppendedFromReq
<1> HIDE DEF q2
<1>3. \A i \in Rids : /\ v2[i].path = v[i].path
                      /\ v2[i].state = IF i = i0 THEN "closed" ELSE v[i].state
  <2>1. \A i \in Rids : Seen(v[i].path, "closed").path = v[i].path /\ Seen(v[i].path, "closed").state = "closed"
    BY DEF Seen
  <2> TAKE i \in Rids
  <2>2. CASE i = i0
    BY <2>1, <2>2
  <2>3. CASE i # i0
    BY <2>3
  <2> QED
    BY <2>2, <2>3
<1>4. ASSUME NEW k \in Nat, NEW i \in Rids, NEW p \in Paths, Lists(q2, k, i, p)
      PROVE  /\ v2[i].path = p
             /\ \A h \in Rids : h # i /\ v2[h].state = "open" /\ v2[h].path = p =>
                  \E j \in Nat : k < j /\ Lists(q2, j, h, p)
  <2>1. /\ v[i].path = p
        /\ \A h \in Rids : h # i /\ v[h].state = "open" /\ v[h].path = p => \E j \in Nat : k < j /\ Lists(q, j, h, p)
    BY <1>2, <1>4 DEF AsksKnown
  <2>2. \A h \in Rids : v2[h].state = "open" => v[h].state = "open"
    BY <1>3
  <2> QED
    BY <1>2, <1>3, <2>1, <2>2
<1>5. ASSUME NEW k \in Nat, NEW i \in Rids, Closes(q2, k, i)
      PROVE  v2[i].state \in {"replaced", "closed", "ended"}
  BY <1>2, <1>3, <1>5 DEF AsksKnown
<1> QED
  BY <1>4, <1>5 DEF AsksKnown, q2, m

\* A list may end; nothing else opens it again.
LEMMA AsksEnded ==
  ASSUME NEW q, NEW v, NEW v2, AsksKnown(q, v),
         \A i \in Rids : v2[i].path = v[i].path /\ v2[i].state \in {v[i].state, "ended"}
  PROVE  AsksKnown(q, v2)
<1>1. \A i \in Rids : v2[i].state = "open" => v[i].state = "open"
  OBVIOUS
<1> QED
  BY <1>1 DEF AsksKnown

\* The broker takes a request.
LEMMA AsksTaken ==
  ASSUME NEW q \in Seq(FromReq), q # <<>>, NEW v, AsksKnown(q, v)
  PROVE  AsksKnown(Tail(q), v)
<1> DEFINE t == Tail(q)
<1>1. /\ \A k \in Nat, i \in Rids, p \in Paths : Lists(t, k, i, p) => k + 1 \in Nat /\ 1 < k + 1 /\ Lists(q, k + 1, i, p)
      /\ \A k \in Nat, i \in Rids : Closes(t, k, i) => k + 1 \in Nat /\ Closes(q, k + 1, i)
      /\ \A k \in Nat, i \in Rids, p \in Paths : Lists(q, k, i, p) => k = 1 \/ (k - 1 \in Nat /\ Lists(t, k - 1, i, p))
  BY TakenFromReq
<1> HIDE DEF t
<1>2. ASSUME NEW k \in Nat, NEW i \in Rids, NEW p \in Paths, Lists(t, k, i, p)
      PROVE  /\ v[i].path = p
             /\ \A h \in Rids : h # i /\ v[h].state = "open" /\ v[h].path = p =>
                  \E j \in Nat : k < j /\ Lists(t, j, h, p)
  <2>1. k + 1 \in Nat /\ 1 < k + 1 /\ Lists(q, k + 1, i, p)
    BY <1>1, <1>2
  <2>2. v[i].path = p
    BY <2>1 DEF AsksKnown
  <2>3. ASSUME NEW h \in Rids, h # i, v[h].state = "open", v[h].path = p
        PROVE  \E j \in Nat : k < j /\ Lists(t, j, h, p)
    <3>1. PICK j \in Nat : k + 1 < j /\ Lists(q, j, h, p)
      BY <2>1, <2>3 DEF AsksKnown
    <3>2. j - 1 \in Nat /\ Lists(t, j - 1, h, p)
      BY <1>1, <2>1, <3>1
    <3> QED
      BY <3>1, <3>2
  <2> QED
    BY <2>2, <2>3
<1>3. ASSUME NEW k \in Nat, NEW i \in Rids, Closes(t, k, i)
      PROVE  v[i].state \in {"replaced", "closed", "ended"}
  BY <1>1, <1>3 DEF AsksKnown
<1> QED
  BY <1>2, <1>3 DEF AsksKnown, t

LEMMA AsksNone ==
  ASSUME NEW v
  PROVE  AsksKnown(<<>>, v)
BY DEF AsksKnown, Lists, Closes

\* q2 has the report m behind those of q
OneMore(q, m, i, q2, L) ==
  /\ \A k \in Nat, n \in Names : Reports(q2, k, i, n) <=>
       Reports(q, k, i, n) \/ (k = L /\ m.rid = i /\ (m.kind = "change" => m.name = n))
  /\ \A k \in Nat, n \in Names : Reports(q, k, i, n) => k < L /\ q2[k] = q[k]
  /\ L \in Nat /\ q2[L] = m /\ Len(q2) = L
  /\ \A k \in 1..Len(q) : q2[k] = q[k] /\ k \in 1..Len(q2)

LEMMA AppendedFromResp ==
  ASSUME NEW q \in Seq(FromResp), NEW m \in FromResp, NEW i \in PRids
  PROVE  OneMore(q, m, i, Append(q, m), Len(q) + 1)
<1> DEFINE q2 == Append(q, m)
           L  == Len(q) + 1
<1>1. /\ L \in Nat /\ Len(q2) = L /\ q2[L] = m /\ \A k \in 1..Len(q) : q2[k] = q[k] /\ k < L
      /\ \A k \in Nat : k \in 1..L <=> k \in 1..Len(q) \/ k = L
  BY Appended
<1>2. L \notin 1..Len(q) /\ \A k \in 1..Len(q) : k \in 1..L
  BY <1>1
<1> HIDE DEF q2, L
<1>3. \A k \in Nat, n \in Names : Reports(q2, k, i, n) <=>
        Reports(q, k, i, n) \/ (k = L /\ m.rid = i /\ (m.kind = "change" => m.name = n))
  BY ONLY <1>1, <1>2 DEF Reports
<1>4. \A k \in Nat, n \in Names : Reports(q, k, i, n) => k < L /\ q2[k] = q[k]
  BY <1>1 DEF Reports
<1>5. OneMore(q, m, i, q2, L)
  BY ONLY <1>1, <1>2, <1>3, <1>4 DEF OneMore
<1> QED
  BY <1>5 DEF q2, L

\* The cache may change in what is not of the node.
LEMMA HoldsAlike ==
  ASSUME NEW q, NEW i, NEW c, NEW c2, NEW names, ComesToHold(q, i, c, names),
         c2.head = c.head, c2.disc = c.disc, \A n \in Names : n \in c2.names <=> n \in c.names
  PROVE  ComesToHold(q, i, c2, names)
BY DEF ComesToHold

\* A report under another rid
LEMMA HoldsOther ==
  ASSUME NEW q \in Seq(FromResp), NEW m \in FromResp, NEW i \in PRids, NEW c, NEW names,
         ComesToHold(q, i, c, names), m.rid # i
  PROVE  ComesToHold(Append(q, m), i, c, names)
<1> DEFINE q2 == Append(q, m)
           L  == Len(q) + 1
<1>0. OneMore(q, m, i, q2, L)
  BY AppendedFromResp
<1> HIDE DEF q2, L
<1>5. /\ \A k \in Nat, n \in Names : Reports(q2, k, i, n) <=>
           Reports(q, k, i, n) \/ (k = L /\ m.rid = i /\ (m.kind = "change" => m.name = n))
      /\ \A k \in Nat, n \in Names : Reports(q, k, i, n) => k < L /\ q2[k] = q[k]
      /\ \A k \in 1..Len(q) : q2[k] = q[k] /\ k \in 1..Len(q2)
  BY <1>0 DEF OneMore
<1>1. /\ \A k \in Nat, n \in Names : Reports(q2, k, i, n) <=> Reports(q, k, i, n)
      /\ \A k \in Nat, n \in Names : Reports(q, k, i, n) => q2[k] = q[k]
  BY <1>5
<1>2. \A k \in 1..Len(q) : q2[k] = q[k] /\ k \in 1..Len(q2)
  BY <1>5
<1>3. (c.head /\ ~c.disc) \/ \E k \in 1..Len(q2) : q2[k].rid = i /\ q2[k].kind = "updates"
  BY <1>2 DEF ComesToHold
<1>4. ASSUME NEW n \in Names
      PROVE  \/ (n \in c.names <=> n \in names) /\ \A j \in Nat : ~Reports(q2, j, i, n)
             \/ \E k \in Nat : /\ Reports(q2, k, i, n) /\ (Reported(q2[k], n) <=> n \in names)
                               /\ \A j \in Nat : Reports(q2, j, i, n) => j <= k
  <2>1. \/ (n \in c.names <=> n \in names) /\ \A j \in Nat : ~Reports(q, j, i, n)
        \/ \E k \in Nat : /\ Reports(q, k, i, n) /\ (Reported(q[k], n) <=> n \in names)
                          /\ \A j \in Nat : Reports(q, j, i, n) => j <= k
    BY DEF ComesToHold
  <2> QED
    BY <1>1, <2>1
<1> QED
  BY <1>3, <1>4 DEF ComesToHold, q2

\* A list that is answered
LEMMA HoldsListed ==
  ASSUME NEW q \in Seq(FromResp), NEW m \in FromResp, NEW i \in PRids, NEW c, NEW names,
         m.kind = "updates", m.rid = i, m.names = names
  PROVE  ComesToHold(Append(q, m), i, c, names)
<1> DEFINE q2 == Append(q, m)
           L  == Len(q) + 1
<1>0. OneMore(q, m, i, q2, L)
  BY AppendedFromResp
<1> HIDE DEF q2, L
<1>5. /\ \A k \in Nat, n \in Names : Reports(q2, k, i, n) <=>
           Reports(q, k, i, n) \/ (k = L /\ m.rid = i /\ (m.kind = "change" => m.name = n))
      /\ \A k \in Nat, n \in Names : Reports(q, k, i, n) => k < L /\ q2[k] = q[k]
      /\ L \in Nat /\ q2[L] = m /\ Len(q2) = L
  BY <1>0 DEF OneMore
<1>1. /\ \A k \in Nat, n \in Names : Reports(q2, k, i, n) <=> Reports(q, k, i, n) \/ k = L
      /\ \A k \in Nat, n \in Names : Reports(q, k, i, n) => k < L
      /\ L \in Nat /\ q2[L] = m
  BY <1>5
<1>2. L \in 1..Len(q2)
  <2>1. Len(q) \in Nat /\ L = Len(q) + 1
    BY DEF L
  <2> QED
    BY <1>5, <2>1
<1>3. \E k \in 1..Len(q2) : q2[k].rid = i /\ q2[k].kind = "updates"
  BY <1>1, <1>2
<1>4. ASSUME NEW n \in Names
      PROVE  \E k \in Nat : /\ Reports(q2, k, i, n) /\ (Reported(q2[k], n) <=> n \in names)
                            /\ \A j \in Nat : Reports(q2, j, i, n) => j <= k
  <2>1. Reports(q2, L, i, n) /\ (Reported(q2[L], n) <=> n \in names)
    BY <1>1 DEF Reported
  <2>2. \A j \in Nat : Reports(q2, j, i, n) => j <= L
    BY <1>1
  <2> QED
    BY <1>1, <2>1, <2>2
<1> QED
  BY <1>3, <1>4 DEF ComesToHold, q2

\* A change that is reported
LEMMA HoldsChange ==
  ASSUME NEW q \in Seq(FromResp), NEW i \in PRids, NEW c, NEW names, ComesToHold(q, i, c, names),
         NEW x \in Names, NEW b \in BOOLEAN
  PROVE  ComesToHold(Append(q, Change(i, x, b)), i, c, With(names, x, b))
<1> DEFINE m  == Change(i, x, b)
           q2 == Append(q, m)
           L  == Len(q) + 1
<1>1. m \in FromResp /\ m.kind = "change" /\ m.rid = i /\ m.name = x /\ m.present = b
  BY MessageTypes DEF Change
<1> HIDE DEF m
<1>0. OneMore(q, m, i, q2, L)
  BY <1>1, AppendedFromResp
<1> HIDE DEF q2, L
<1>6. /\ \A k \in Nat, n \in Names : Reports(q2, k, i, n) <=>
           Reports(q, k, i, n) \/ (k = L /\ m.rid = i /\ (m.kind = "change" => m.name = n))
      /\ \A k \in Nat, n \in Names : Reports(q, k, i, n) => k < L /\ q2[k] = q[k]
      /\ L \in Nat /\ q2[L] = m
      /\ \A k \in 1..Len(q) : q2[k] = q[k] /\ k \in 1..Len(q2)
  BY <1>0 DEF OneMore
<1>2. /\ \A k \in Nat, n \in Names : Reports(q2, k, i, n) <=> Reports(q, k, i, n) \/ (k = L /\ n = x)
      /\ \A k \in Nat, n \in Names : Reports(q, k, i, n) => k < L /\ q2[k] = q[k]
      /\ L \in Nat /\ q2[L] = m
  BY <1>1, <1>6
<1>3. \A k \in 1..Len(q) : q2[k] = q[k] /\ k \in 1..Len(q2)
  BY <1>6
<1>4. (c.head /\ ~c.disc) \/ \E k \in 1..Len(q2) : q2[k].rid = i /\ q2[k].kind = "updates"
  BY <1>3 DEF ComesToHold
<1>5. ASSUME NEW n \in Names
      PROVE  \/ (n \in c.names <=> n \in With(names, x, b)) /\ \A j \in Nat : ~Reports(q2, j, i, n)
             \/ \E k \in Nat : /\ Reports(q2, k, i, n) /\ (Reported(q2[k], n) <=> n \in With(names, x, b))
                               /\ \A j \in Nat : Reports(q2, j, i, n) => j <= k
  <2>1. CASE n = x
    <3>1. Reports(q2, L, i, n) /\ (Reported(q2[L], n) <=> n \in With(names, x, b))
      BY <1>1, <1>2, <2>1 DEF Reported, With
    <3>2. \A j \in Nat : Reports(q2, j, i, n) => j <= L
      BY <1>2
    <3> QED
      BY <1>2, <3>1, <3>2
  <2>2. CASE n # x
    <3>1. \/ (n \in c.names <=> n \in names) /\ \A j \in Nat : ~Reports(q, j, i, n)
          \/ \E k \in Nat : /\ Reports(q, k, i, n) /\ (Reported(q[k], n) <=> n \in names)
                            /\ \A j \in Nat : Reports(q, j, i, n) => j <= k
      BY DEF ComesToHold
    <3>2. n \in With(names, x, b) <=> n \in names
      BY <2>2 DEF With
    <3>3. \A k \in Nat : /\ Reports(q2, k, i, n) <=> Reports(q, k, i, n)
                         /\ Reports(q, k, i, n) => q2[k] = q[k]
      BY <1>2, <2>2
    <3> QED
      BY <3>1, <3>2, <3>3
  <2> QED
    BY <2>1, <2>2
<1> QED
  BY <1>4, <1>5 DEF ComesToHold, q2, m

\* The broker takes a report into the cache.
LEMMA HoldsTaken ==
  ASSUME NEW q \in Seq(FromResp), q # <<>>, NEW i, NEW c, NEW c2, NEW names, ComesToHold(q, i, c, names),
         q[1].rid # i => c2 = c,
         q[1].rid = i /\ q[1].kind = "updates" =>
           c2.head /\ ~c2.disc /\ \A n \in Names : n \in c2.names <=> n \in q[1].names,
         q[1].rid = i /\ q[1].kind = "change" =>
           /\ c2.head = c.head /\ c2.disc = c.disc
           /\ \A n \in Names : n \in c2.names <=> IF n = q[1].name THEN q[1].present ELSE n \in c.names
  PROVE  ComesToHold(Tail(q), i, c2, names)
<1> DEFINE t == Tail(q)
           m == q[1]
           l == Len(q)
<1>1. /\ l \in Nat /\ l > 0 /\ Len(t) = l - 1 /\ \A k \in 1..Len(t) : t[k] = q[k + 1]
      /\ m \in FromResp
  OBVIOUS
<1>2. m.kind \in {"updates", "change"}
  BY <1>1 DEF FromResp
<1> HIDE DEF t
<1>3. /\ \A k \in Nat : k \in 1..Len(t) => k + 1 \in Nat /\ 1 < k + 1 /\ k + 1 \in 1..l /\ t[k] = q[k + 1]
      /\ \A k \in Nat : k \in 1..l => k = 1 \/ (k - 1 \in Nat /\ k - 1 \in 1..Len(t) /\ t[k - 1] = q[k])
      /\ 1 \in 1..l
  BY <1>1
<1> HIDE DEF l
<1>4. /\ \A k \in Nat, n \in Names : Reports(t, k, i, n) =>
           k + 1 \in Nat /\ 1 < k + 1 /\ Reports(q, k + 1, i, n)
      /\ \A k \in Nat, n \in Names : Reports(q, k, i, n) =>
           k = 1 \/ (k - 1 \in Nat /\ Reports(t, k - 1, i, n) /\ t[k - 1] = q[k])
  BY <1>3 DEF Reports, l
<1>5. \A n \in Names : Reports(q, 1, i, n) <=> m.rid = i /\ (m.kind = "change" => m.name = n)
  BY <1>3 DEF Reports, l
<1>6. (c2.head /\ ~c2.disc) \/ \E k \in 1..Len(t) : t[k].rid = i /\ t[k].kind = "updates"
  <2>1. CASE c.head /\ ~c.disc
    BY <1>2, <2>1
  <2>2. ASSUME NEW k \in 1..l, q[k].rid = i, q[k].kind = "updates"
        PROVE  (c2.head /\ ~c2.disc) \/ \E j \in 1..Len(t) : t[j].rid = i /\ t[j].kind = "updates"
    <3>1. CASE k = 1
      BY <2>2, <3>1
    <3>2. CASE k # 1
      BY <1>3, <2>2, <3>2
    <3> QED
      BY <3>1, <3>2
  <2> QED
    BY <2>1, <2>2 DEF ComesToHold, l
<1>7. ASSUME NEW n \in Names
      PROVE  \/ (n \in c2.names <=> n \in names) /\ \A j \in Nat : ~Reports(t, j, i, n)
             \/ \E k \in Nat : /\ Reports(t, k, i, n) /\ (Reported(t[k], n) <=> n \in names)
                               /\ \A j \in Nat : Reports(t, j, i, n) => j <= k
  <2>1. CASE (n \in c.names <=> n \in names) /\ \A j \in Nat : ~Reports(q, j, i, n)
    <3>1. m.rid # i \/ (m.kind = "change" /\ m.name # n)
      BY <1>5, <2>1
    <3>2. n \in c2.names <=> n \in c.names
      BY <3>1
    <3>3. \A j \in Nat : ~Reports(t, j, i, n)
      BY <1>4, <2>1
    <3> QED
      BY <2>1, <3>2, <3>3
  <2>2. ASSUME NEW k \in Nat, Reports(q, k, i, n), Reported(q[k], n) <=> n \in names,
               \A j \in Nat : Reports(q, j, i, n) => j <= k
        PROVE  \/ (n \in c2.names <=> n \in names) /\ \A j \in Nat : ~Reports(t, j, i, n)
               \/ \E h \in Nat : /\ Reports(t, h, i, n) /\ (Reported(t[h], n) <=> n \in names)
                                 /\ \A j \in Nat : Reports(t, j, i, n) => j <= h
    <3>1. CASE k = 1
      <4>1. n \in c2.names <=> n \in names
        BY <1>2, <1>5, <2>2, <3>1 DEF Reported
      <4>2. \A j \in Nat : ~Reports(t, j, i, n)
        BY <1>4, <2>2, <3>1
      <4> QED
        BY <4>1, <4>2
    <3>2. CASE k # 1
      <4>1. k - 1 \in Nat /\ Reports(t, k - 1, i, n) /\ t[k - 1] = q[k]
        BY <1>4, <2>2, <3>2
      <4>2. \A j \in Nat : Reports(t, j, i, n) => j <= k - 1
        BY <1>4, <2>2
      <4> QED
        BY <2>2, <4>1, <4>2
    <3> QED
      BY <3>1, <3>2
  <2> QED
    BY <2>1, <2>2 DEF ComesToHold
<1> QED
  BY <1>6, <1>7 DEF ComesToHold, t

\* What ShowInv says of a requester and of a stream
LEMMA ShowInvAt ==
  ASSUME ShowInv
  PROVE  /\ StepInv /\ IInv /\ RestOK /\ ViewsInv /\ AsksInv /\ RemoteInv /\ LocalInv
         /\ \A r \in Reqs : /\ toReq[r] \in Seq(ToReq) /\ toBroker[r] \in Seq(FromReq)
                            /\ AsksKnown(toBroker[r], view[r])
         /\ \A r \in Reqs, i \in Rids : view[r][i] \in View /\ reqTab[r][i] \in Paths \cup {None}
         /\ \A p \in Paths : stream[p] # None =>
              /\ stream[p] \in Stream /\ stream[p].cache \in Cache
              /\ stream[p].links \in [Reqs -> Rids \cup {None}]
<1>1. StepInv /\ IInv /\ RestOK /\ ViewsInv /\ AsksInv /\ RemoteInv /\ LocalInv
  BY StepInvAt DEF ShowInv
<1>2. \A r \in Reqs : /\ toReq[r] \in Seq(ToReq) /\ toBroker[r] \in Seq(FromReq)
                      /\ AsksKnown(toBroker[r], view[r])
  BY <1>1 DEF RestOK, AsksInv
<1>3. reqTab \in ReqTables /\ stream \in StreamTable
  BY <1>1, IInvAt
<1>4. \A r \in Reqs, i \in Rids : view[r][i] \in View /\ reqTab[r][i] \in Paths \cup {None}
  BY <1>1, <1>3 DEF RestOK, ReqTables
<1>5. \A p \in Paths : stream[p] # None =>
        stream[p] \in Stream /\ stream[p].cache \in Cache /\ stream[p].links \in [Reqs -> Rids \cup {None}]
  BY <1>3 DEF StreamTable, Stream
<1> QED
  BY <1>1, <1>2, <1>4, <1>5

\* One requester asks for something, or is answered.
LEMMA AsksKept ==
  ASSUME AsksInv, NEW r \in Reqs, AsksKnown(toBroker'[r], view'[r]),
         \A q \in Reqs : q # r => toBroker'[q] = toBroker[q] /\ view'[q] = view[q]
  PROVE  AsksInv'
BY DEF AsksInv

LEMMA ClientListAsks ==
  ASSUME ShowInv, NEW r \in Reqs, NEW rid \in Rids, NEW p \in Paths, ClientList(r, rid, p)
  PROVE  /\ AsksInv'
         /\ view[r][rid] = Unused
         /\ \A q \in Reqs : q # r => toBroker'[q] = toBroker[q] /\ view'[q] = view[q]
         /\ \A i \in Rids : view'[r][i] = IF i = rid THEN Seen(p, "open")
              ELSE IF view[r][i].state = "open" /\ view[r][i].path = p THEN Seen(p, "replaced")
              ELSE view[r][i]
         /\ toBroker'[r] = Append(toBroker[r], List(rid, p))
<1>1. /\ view[r][rid] = Unused
      /\ view' = [view EXCEPT ![r] = [i \in Rids |-> IF i = rid THEN Seen(p, "open")
                ELSE IF @[i].state = "open" /\ @[i].path = p THEN Seen(p, "replaced") ELSE @[i]]]
      /\ toBroker' = [toBroker EXCEPT ![r] = Append(@, List(rid, p))]
  BY DEF ClientList
<1>2. RestOK /\ AsksInv /\ toBroker[r] \in Seq(FromReq) /\ AsksKnown(toBroker[r], view[r])
  BY ShowInvAt
<1>3. \A i \in Rids : view'[r][i] = IF i = rid THEN Seen(p, "open")
             ELSE IF view[r][i].state = "open" /\ view[r][i].path = p THEN Seen(p, "replaced")
             ELSE view[r][i]
  BY <1>1, <1>2 DEF RestOK
<1>4. /\ toBroker'[r] = Append(toBroker[r], List(rid, p))
      /\ \A q \in Reqs : q # r => toBroker'[q] = toBroker[q] /\ view'[q] = view[q]
  BY <1>1, <1>2 DEF RestOK
<1>5. AsksKnown(Append(toBroker[r], List(rid, p)), view'[r])
  <2> DEFINE q  == toBroker[r]
             v  == view[r]
             v2 == view'[r]
  <2>1. /\ q \in Seq(FromReq) /\ AsksKnown(q, v) /\ v[rid] = Unused
        /\ \A i \in Rids : v2[i] = IF i = rid THEN Seen(p, "open")
             ELSE IF v[i].state = "open" /\ v[i].path = p THEN Seen(p, "replaced") ELSE v[i]
    BY <1>1, <1>2, <1>3
  <2> HIDE DEF q, v, v2
  <2>2. AsksKnown(Append(q, List(rid, p)), v2)
    BY ONLY <2>1, rid \in Rids, p \in Paths, AsksMore
  <2> QED
    BY <2>2 DEF q, v2
<1>6. AsksInv'
  BY <1>2, <1>4, <1>5, AsksKept
<1> QED
  BY <1>1, <1>3, <1>4, <1>6

LEMMA ClientCloseAsks ==
  ASSUME ShowInv, NEW r \in Reqs, NEW rid \in Rids, ClientClose(r, rid)
  PROVE  /\ AsksInv'
         /\ \A q \in Reqs : q # r => toBroker'[q] = toBroker[q] /\ view'[q] = view[q]
         /\ \A i \in Rids : view'[r][i] = IF i = rid THEN Seen(view[r][i].path, "closed") ELSE view[r][i]
         /\ toBroker'[r] = Append(toBroker[r], Close(rid))
<1>1. /\ view' = [view EXCEPT ![r][rid] = Seen(@.path, "closed")]
      /\ toBroker' = [toBroker EXCEPT ![r] = Append(@, Close(rid))]
  BY DEF ClientClose
<1>2. RestOK /\ AsksInv /\ toBroker[r] \in Seq(FromReq) /\ AsksKnown(toBroker[r], view[r])
  BY ShowInvAt
<1>3. \A i \in Rids : view'[r][i] = IF i = rid THEN Seen(view[r][i].path, "closed") ELSE view[r][i]
  BY <1>1, <1>2 DEF RestOK
<1>4. /\ toBroker'[r] = Append(toBroker[r], Close(rid))
      /\ \A q \in Reqs : q # r => toBroker'[q] = toBroker[q] /\ view'[q] = view[q]
  BY <1>1, <1>2 DEF RestOK
<1>5. AsksKnown(Append(toBroker[r], Close(rid)), view'[r])
  <2> DEFINE q  == toBroker[r]
             v  == view[r]
             v2 == view'[r]
  <2>1. /\ q \in Seq(FromReq) /\ AsksKnown(q, v)
        /\ \A i \in Rids : v2[i] = IF i = rid THEN Seen(v[i].path, "closed") ELSE v[i]
    BY <1>2, <1>3
  <2> HIDE DEF q, v, v2
  <2>2. AsksKnown(Append(q, Close(rid)), v2)
    BY ONLY <2>1, rid \in Rids, AsksClose
  <2> QED
    BY <2>2 DEF q, v2
<1>6. AsksInv'
  BY <1>2, <1>4, <1>5, AsksKept
<1> QED
  BY <1>3, <1>4, <1>6

\* What the broker takes from a requester leaves the others.
LEMMA RequestAsks ==
  ASSUME ShowInv, NEW r \in Reqs, NEW kind, Request(r, kind), UNCHANGED view
  PROVE  /\ AsksInv'
         /\ toBroker[r] # <<>> /\ Head(toBroker[r]) \in FromReq /\ Head(toBroker[r]).kind = kind
         /\ Head(toBroker[r]).rid \in Rids /\ (kind = "list" => Head(toBroker[r]).path \in Paths)
         /\ \A q \in Reqs : toBroker'[q] = IF q = r THEN Tail(toBroker[r]) ELSE toBroker[q]
<1>1. RestOK /\ AsksInv /\ toBroker[r] \in Seq(FromReq) /\ AsksKnown(toBroker[r], view[r])
  BY ShowInvAt
<1>2. /\ toBroker[r] # <<>> /\ Head(toBroker[r]) \in FromReq /\ Head(toBroker[r]).kind = kind
      /\ Head(toBroker[r]).rid \in Rids /\ (kind = "list" => Head(toBroker[r]).path \in Paths)
      /\ \A q \in Reqs : toBroker'[q] = IF q = r THEN Tail(toBroker[r]) ELSE toBroker[q]
  BY <1>1, RequestType
<1>3. AsksKnown(Tail(toBroker[r]), view[r])
  BY <1>1, <1>2, AsksTaken
<1>4. AsksKnown(toBroker'[r], view'[r]) /\ \A q \in Reqs : q # r => toBroker'[q] = toBroker[q] /\ view'[q] = view[q]
  BY <1>2, <1>3
<1>5. AsksInv'
  BY <1>1, <1>4, AsksKept
<1> QED
  BY <1>2, <1>5

\* What Shown makes of a view
LEMMA ShownOpen ==
  ASSUME NEW v \in View, NEW m \in ToReq
  PROVE  /\ Shown(v, m).path = v.path /\ Shown(v, m).state \in {v.state, "ended"}
         /\ Shown(v, m).state = "open" => v.state = "open" /\ m.kind # "closed"
<1>1. CASE m.kind = "closed"
  <2>1. Shown(v, m) = Seen(v.path, "ended")
    BY <1>1 DEF Shown
  <2> QED
    BY <2>1 DEF Seen
<1>2. CASE m.kind # "closed" /\ v.state # "open"
  BY <1>2 DEF Shown
<1>3. CASE m.kind # "closed" /\ v.state = "open"
  BY <1>3, ShownIs
<1> QED
  BY <1>1, <1>2, <1>3

LEMMA ReceiveAsks ==
  ASSUME ShowInv, NEW r \in Reqs, Receive(r)
  PROVE  /\ AsksInv' /\ toReq[r] # <<>> /\ Head(toReq[r]) \in ToReq /\ Head(toReq[r]).rid \in Rids
         /\ \A q \in Reqs : toReq'[q] = IF q = r THEN Tail(toReq[r]) ELSE toReq[q]
         /\ \A q \in Reqs, i \in Rids : view'[q][i] =
              IF q = r /\ i = Head(toReq[r]).rid THEN Shown(view[q][i], Head(toReq[r])) ELSE view[q][i]
<1> DEFINE m == Head(toReq[r])
<1>1. /\ toReq[r] # <<>> /\ toReq' = [toReq EXCEPT ![r] = Tail(@)]
      /\ view' = [view EXCEPT ![r][m.rid] = Shown(@, m)] /\ UNCHANGED toBroker
  BY DEF Receive
<1>2. RestOK /\ AsksInv /\ AsksKnown(toBroker[r], view[r]) /\ toReq[r] \in Seq(ToReq)
      /\ \A i \in Rids : view[r][i] \in View
  BY ShowInvAt
<1>3. m \in ToReq
  BY <1>1, <1>2
<1>4. m.rid \in Rids
  BY <1>3 DEF ToReq
<1> HIDE DEF m
<1>5. /\ \A q \in Reqs : toReq'[q] = IF q = r THEN Tail(toReq[r]) ELSE toReq[q]
      /\ \A q \in Reqs : q # r => view'[q] = view[q]
      /\ \A q \in Reqs, i \in Rids : view'[q][i] = IF q = r /\ i = m.rid THEN Shown(view[q][i], m) ELSE view[q][i]
  BY <1>1, <1>2, <1>4 DEF RestOK
<1>6. \A i \in Rids : view'[r][i].path = view[r][i].path /\ view'[r][i].state \in {view[r][i].state, "ended"}
  BY <1>2, <1>3, <1>5, ShownOpen
<1>7. AsksKnown(toBroker[r], view'[r])
  BY <1>2, <1>6, AsksEnded
<1>8. AsksInv'
  BY <1>1, <1>2, <1>5, <1>7, AsksKept
<1> QED
  BY <1>1, <1>3, <1>4, <1>5, <1>8 DEF m

LEMMA DisconnectAsks ==
  ASSUME ShowInv, NEW r \in Reqs, Disconnect(r)
  PROVE  AsksInv' /\ \A q \in Reqs : q # r => /\ toBroker'[q] = toBroker[q] /\ view'[q] = view[q]
                                              /\ toReq'[q] = toReq[q] /\ reqTab'[q] = reqTab[q]
<1>1. /\ reqTab' = [reqTab EXCEPT ![r] = [i \in Rids |-> None]]
      /\ toBroker' = [toBroker EXCEPT ![r] = <<>>] /\ toReq' = [toReq EXCEPT ![r] = <<>>]
      /\ view' = [view EXCEPT ![r] = [i \in Rids |-> Unused]]
  BY DEF Disconnect
<1>2. RestOK /\ AsksInv /\ reqTab \in ReqTables
  BY ShowInvAt, IInvAt
<1>3. /\ toBroker'[r] = <<>>
      /\ \A q \in Reqs : q # r => /\ toBroker'[q] = toBroker[q] /\ view'[q] = view[q]
                                  /\ toReq'[q] = toReq[q] /\ reqTab'[q] = reqTab[q]
  BY <1>1, <1>2 DEF RestOK, ReqTables
<1>4. AsksKnown(<<>>, view'[r])
  BY AsksNone
<1> QED
  BY <1>2, <1>3, <1>4, AsksKept

\* A list that nothing happened to
LEMMA ShowsSame ==
  ASSUME NEW r \in Reqs, NEW i \in Rids, Shows(r, i),
         view'[r][i] = view[r][i], reqTab'[r][i] = reqTab[r][i], toReq'[r] = toReq[r],
         \A k \in Nat : Lists(toBroker[r], k, i, view[r][i].path) =>
           \E j \in Nat : Lists(toBroker'[r], j, i, view[r][i].path),
         reqTab[r][i] # None => stream'[reqTab[r][i]].cache = stream[reqTab[r][i]].cache
  PROVE  Shows(r, i)'
<1>1. CASE \E k \in Nat : Lists(toBroker[r], k, i, view[r][i].path)
  BY <1>1 DEF Shows
<1>2. CASE \E k \in Nat : Ends(toReq[r], k, i)
  BY <1>2 DEF Shows
<1>3. CASE /\ reqTab[r][i] # None /\ reqTab[r][i] = view[r][i].path
           /\ Follows(toReq[r], i, view[r][i], stream[reqTab[r][i]].cache)
  BY <1>3 DEF Shows
<1> QED
  BY <1>1, <1>2, <1>3 DEF Shows

\* A requester that asks again keeps what it shows of other paths.
LEMMA ClientListShows ==
  ASSUME ShowInv, NEW r0 \in Reqs, NEW i0 \in Rids, NEW p0 \in Paths, ClientList(r0, i0, p0)
  PROVE  ViewsInv'
<1>1. /\ lost' = StillOpen
      /\ UNCHANGED <<stream, reqTab, toReq>>
  BY DEF ClientList, broker
<1>2. /\ \A q \in Reqs : q # r0 => toBroker'[q] = toBroker[q] /\ view'[q] = view[q]
      /\ \A i \in Rids : view'[r0][i] = IF i = i0 THEN Seen(p0, "open")
              ELSE IF view[r0][i].state = "open" /\ view[r0][i].path = p0 THEN Seen(p0, "replaced")
              ELSE view[r0][i]
      /\ toBroker'[r0] = Append(toBroker[r0], List(i0, p0))
  BY ClientListAsks
<1>3. ViewsInv /\ \A r \in Reqs : toBroker[r] \in Seq(FromReq)
  BY ShowInvAt
<1>4. /\ \A k \in Nat, i \in Rids, p \in Paths : Lists(toBroker[r0], k, i, p) => Lists(toBroker'[r0], k, i, p)
      /\ Lists(toBroker'[r0], Len(toBroker[r0]) + 1, i0, p0) /\ Len(toBroker[r0]) + 1 \in Nat
  <2>1. List(i0, p0) \in FromReq /\ List(i0, p0).kind = "list" /\ List(i0, p0).rid = i0 /\ List(i0, p0).path = p0
    BY MessageTypes DEF List
  <2>2. Len(toBroker[r0]) + 1 \in Nat
    BY <1>3
  <2> QED
    BY <1>2, <1>3, <2>1, <2>2, AppendedFromReq
<1> SUFFICES ASSUME NEW r \in Reqs, NEW i \in Rids, view'[r][i].state = "open", <<r, i>> \notin lost'
             PROVE  Shows(r, i)'
  BY DEF ViewsInv
<1>5. CASE r = r0 /\ i = i0
  <2>1. view'[r][i].path = p0
    BY <1>2, <1>5 DEF Seen
  <2> QED
    BY <1>4, <1>5, <2>1 DEF Shows
<1>6. CASE r # r0 \/ i # i0
  <2>1. view'[r][i] = view[r][i]
    BY <1>2, <1>6 DEF Seen
  <2>2. <<r, i>> \notin lost
    BY <1>1 DEF StillOpen
  <2>3. Shows(r, i) /\ view[r][i].path \in Paths \cup {None}
    BY <1>3, <2>1, <2>2, ShowInvAt DEF ViewsInv, View
  <2>4. \A k \in Nat : Lists(toBroker[r], k, i, view[r][i].path) => Lists(toBroker'[r], k, i, view[r][i].path)
    <3>1. CASE r # r0
      BY <1>2, <3>1
    <3>2. CASE r = r0
      <4>1. \A k \in Nat : Lists(toBroker[r], k, i, view[r][i].path) => view[r][i].path \in Paths
        <5> SUFFICES ASSUME NEW k \in Nat, Lists(toBroker[r], k, i, view[r][i].path) PROVE view[r][i].path \in Paths
          OBVIOUS
        <5>1. toBroker[r][k] \in FromReq /\ toBroker[r][k].kind = "list" /\ toBroker[r][k].path = view[r][i].path
          BY <1>3 DEF Lists
        <5> QED
          BY <5>1 DEF FromReq
      <4> QED
        BY <1>4, <3>2, <4>1
    <3> QED
      BY <3>1, <3>2
  <2> QED
    BY <1>1, <2>1, <2>3, <2>4, ShowsSame
<1> QED
  BY <1>5, <1>6

LEMMA ClientCloseShows ==
  ASSUME ShowInv, NEW r0 \in Reqs, NEW i0 \in Rids, ClientClose(r0, i0)
  PROVE  ViewsInv'
<1>1. /\ lost' = StillOpen
      /\ UNCHANGED <<stream, reqTab, toReq>>
  BY DEF ClientClose, broker
<1>2. /\ \A q \in Reqs : q # r0 => toBroker'[q] = toBroker[q] /\ view'[q] = view[q]
      /\ \A i \in Rids : view'[r0][i] = IF i = i0 THEN Seen(view[r0][i].path, "closed") ELSE view[r0][i]
      /\ toBroker'[r0] = Append(toBroker[r0], Close(i0))
  BY ClientCloseAsks
<1>3. ViewsInv /\ \A r \in Reqs : toBroker[r] \in Seq(FromReq)
  BY ShowInvAt
<1>4. \A k \in Nat, i \in Rids : \A p : Lists(toBroker[r0], k, i, p) => Lists(toBroker'[r0], k, i, p)
  <2>1. \A k \in 1..Len(toBroker[r0]) : toBroker'[r0][k] = toBroker[r0][k] /\ k \in 1..Len(toBroker'[r0])
    BY <1>2, <1>3, MessageTypes, Appended
  <2> QED
    BY <2>1 DEF Lists
<1> SUFFICES ASSUME NEW r \in Reqs, NEW i \in Rids, view'[r][i].state = "open", <<r, i>> \notin lost'
             PROVE  Shows(r, i)'
  BY DEF ViewsInv
<1>5. r # r0 \/ i # i0
  <2>1. view'[r0][i0] = Seen(view[r0][i0].path, "closed")
    BY <1>2
  <2>2. view'[r0][i0].state = "closed"
    BY <2>1 DEF Seen
  <2> QED
    BY <2>2
<1>6. view'[r][i] = view[r][i] /\ <<r, i>> \notin lost
  BY <1>1, <1>2, <1>5 DEF StillOpen
<1>7. Shows(r, i)
  BY <1>3, <1>6 DEF ViewsInv
<1>8. \A k \in Nat : Lists(toBroker[r], k, i, view[r][i].path) => Lists(toBroker'[r], k, i, view[r][i].path)
  <2>1. CASE r # r0
    BY <1>2, <2>1
  <2>2. CASE r = r0
    BY <1>4, <2>2
  <2> QED
    BY <2>1, <2>2
<1> QED
  BY <1>1, <1>6, <1>7, <1>8, ShowsSame

\* A request that is not of i leaves what asks for i.
LEMMA RequestLeaves ==
  ASSUME NEW q \in Seq(FromReq), q # <<>>, NEW i \in Rids, NEW p \in Paths \cup {None}, NEW k \in Nat,
         Lists(q, k, i, p), Head(q).kind # "list" \/ Head(q).rid # i
  PROVE  \E j \in Nat : Lists(Tail(q), j, i, p)
<1>1. q[k] \in FromReq /\ q[k].kind = "list" /\ q[k].path = p /\ q[k].rid = i
  BY DEF Lists
<1>2. p \in Paths
  BY <1>1 DEF FromReq
<1>3. q[1] = Head(q)
  BY TakenFromReq
<1>4. k # 1
  BY <1>1, <1>3
<1> QED
  BY <1>2, <1>4, TakenFromReq

LEMMA RefuseListShows ==
  ASSUME ShowInv, NEW r0 \in Reqs, RefuseList(r0)
  PROVE  ViewsInv'
<1> DEFINE i0 == Head(toBroker[r0]).rid
           m  == Closed(i0)
<1>1. /\ Request(r0, "list") /\ toReq' = [toReq EXCEPT ![r0] = Append(@, m)]
      /\ UNCHANGED <<stream, reqTab, view, lost>>
  BY DEF RefuseList, broker
<1>2. /\ toBroker[r0] # <<>> /\ i0 \in Rids
      /\ \A q \in Reqs : toBroker'[q] = IF q = r0 THEN Tail(toBroker[r0]) ELSE toBroker[q]
  BY <1>1, RequestAsks
<1>3. m \in ToReq /\ m.kind = "closed" /\ m.rid = i0
  BY <1>2, MessageTypes DEF Closed
<1> HIDE DEF i0, m
<1>4. /\ ViewsInv /\ RestOK /\ \A r \in Reqs : toBroker[r] \in Seq(FromReq) /\ toReq[r] \in Seq(ToReq)
      /\ \A r \in Reqs, i \in Rids : view[r][i] \in View
  BY ShowInvAt
<1>5. \A q \in Reqs : toReq'[q] = IF q = r0 THEN Append(toReq[r0], m) ELSE toReq[q]
  BY <1>1, <1>4 DEF RestOK
<1> SUFFICES ASSUME NEW r \in Reqs, NEW i \in Rids, view[r][i].state = "open", <<r, i>> \notin lost
             PROVE  Shows(r, i)'
  BY <1>1 DEF ViewsInv
<1>6. Shows(r, i) /\ view[r][i].path \in Paths \cup {None}
  BY <1>4 DEF ViewsInv, View
<1>7. CASE r # r0
  BY <1>1, <1>2, <1>5, <1>6, <1>7, ShowsSame
<1>8. CASE r = r0
  <2>1. /\ \A k \in Nat : Ends(toReq'[r], k, i) <=> Ends(toReq[r], k, i) \/ (k = Len(toReq[r]) + 1 /\ i = i0)
        /\ Len(toReq[r]) + 1 \in Nat
    <3>1. Len(toReq[r]) + 1 \in Nat
      BY <1>4
    <3>2. \A k \in Nat : Ends(Append(toReq[r], m), k, i) <=>
            Ends(toReq[r], k, i) \/ (k = Len(toReq[r]) + 1 /\ m.kind = "closed" /\ m.rid = i)
      BY <1>3, <1>4, AppendedToReq
    <3> QED
      BY <1>3, <1>5, <1>8, <3>1, <3>2
  <2>2. ASSUME NEW k \in Nat, Lists(toBroker[r], k, i, view[r][i].path) PROVE Shows(r, i)'
    <3>1. CASE i = i0
      BY <2>1, <3>1 DEF Shows
    <3>2. CASE i # i0
      <4>1. \E j \in Nat : Lists(Tail(toBroker[r]), j, i, view[r][i].path)
        BY <1>2, <1>4, <1>6, <1>8, <2>2, <3>2, RequestLeaves DEF i0
      <4> QED
        BY <1>1, <1>2, <1>8, <4>1 DEF Shows
    <3> QED
      BY <3>1, <3>2
  <2>3. CASE \E k \in Nat : Ends(toReq[r], k, i)
    BY <2>1, <2>3 DEF Shows
  <2>4. CASE /\ reqTab[r][i] # None /\ reqTab[r][i] = view[r][i].path
             /\ Follows(toReq[r], i, view[r][i], stream[reqTab[r][i]].cache)
    <3>1. Follows(Append(toReq[r], m), i, view[r][i], stream[reqTab[r][i]].cache)
      BY <1>3, <1>4, <2>4, FollowsOther
    <3> QED
      BY <1>1, <1>5, <1>8, <2>4, <3>1 DEF Shows
  <2> QED
    BY <1>6, <2>2, <2>3, <2>4 DEF Shows
<1> QED
  BY <1>7, <1>8

LEMMA ReceiveShows ==
  ASSUME ShowInv, NEW r0 \in Reqs, Receive(r0)
  PROVE  ViewsInv'
<1> DEFINE m == Head(toReq[r0])
<1>1. UNCHANGED <<stream, reqTab, toBroker, lost>>
  BY DEF Receive, broker
<1>2. /\ toReq[r0] # <<>> /\ m \in ToReq
      /\ \A q \in Reqs : toReq'[q] = IF q = r0 THEN Tail(toReq[r0]) ELSE toReq[q]
      /\ \A q \in Reqs, i \in Rids : view'[q][i] = IF q = r0 /\ i = m.rid THEN Shown(view[q][i], m) ELSE view[q][i]
  BY ReceiveAsks
<1>3. /\ ViewsInv /\ \A r \in Reqs : toReq[r] \in Seq(ToReq)
      /\ \A r \in Reqs, i \in Rids : view[r][i] \in View /\ reqTab[r][i] \in Paths \cup {None}
      /\ \A p \in Paths : stream[p] # None => stream[p].cache \in Cache
  BY ShowInvAt
<1>4. m = toReq[r0][1]
  BY <1>2, <1>3
<1> HIDE DEF m
<1> SUFFICES ASSUME NEW r \in Reqs, NEW i \in Rids, view'[r][i].state = "open", <<r, i>> \notin lost
             PROVE  Shows(r, i)'
  BY <1>1 DEF ViewsInv
<1>5. /\ view'[r][i].path = view[r][i].path /\ view[r][i].state = "open" /\ view[r][i] \in View
      /\ r = r0 /\ i = m.rid => m.kind # "closed"
  BY <1>2, <1>3, ShownOpen
<1>6. Shows(r, i)
  BY <1>3, <1>5 DEF ViewsInv
<1>7. CASE r # r0
  BY <1>1, <1>2, <1>6, <1>7, ShowsSame
<1>8. CASE r = r0
  <2>1. CASE \E k \in Nat : Lists(toBroker[r], k, i, view[r][i].path)
    BY <1>1, <1>5, <2>1 DEF Shows
  <2>2. ASSUME NEW k \in Nat, Ends(toReq[r], k, i) PROVE Shows(r, i)'
    <3>1. k # 1
      BY <1>4, <1>5, <1>8, <2>2 DEF Ends
    <3>2. k - 1 \in Nat /\ Ends(Tail(toReq[r]), k - 1, i)
      BY <1>2, <1>3, <1>8, <2>2, <3>1, TakenToReq
    <3> QED
      BY <1>2, <1>8, <3>2 DEF Shows
  <2>3. CASE /\ reqTab[r][i] # None /\ reqTab[r][i] = view[r][i].path
             /\ Follows(toReq[r], i, view[r][i], stream[reqTab[r][i]].cache)
    <3>1. stream[reqTab[r][i]].cache \in Cache
      BY <1>3, <2>3, IInvAt, ShowInvAt, JoinedRows
    <3>2. Follows(Tail(toReq[r]), i, view'[r][i], stream[reqTab[r][i]].cache)
      <4>1. view'[r][i] = IF toReq[r][1].rid = i THEN Shown(view[r][i], toReq[r][1]) ELSE view[r][i]
        BY <1>2, <1>4, <1>8
      <4>2. toReq[r] \in Seq(ToReq) /\ toReq[r] # <<>> /\ ~(toReq[r][1].kind = "closed" /\ toReq[r][1].rid = i)
        BY <1>2, <1>3, <1>4, <1>5, <1>8
      <4> QED
        BY <1>5, <2>3, <3>1, <4>1, <4>2, FollowsTaken
    <3> QED
      BY <1>1, <1>2, <1>5, <1>8, <2>3, <3>2 DEF Shows
  <2> QED
    BY <1>6, <2>1, <2>2, <2>3 DEF Shows
<1> QED
  BY <1>7, <1>8

\* What becomes of the tables when i of r joins the stream of p, which is s or
\* is made as s
JoinsTo(r, i, p, s) ==
  /\ stream'[p] # None /\ stream'[p].cache = s.cache /\ stream'[p].rid = s.rid
  /\ \A q \in Paths : q # p => stream'[q] = stream[q]
  /\ \A q \in Reqs : q # r => reqTab'[q] = reqTab[q]
  /\ \A j \in Rids : reqTab'[r][j] = IF j = i THEN p ELSE IF j = s.links[r] THEN None ELSE reqTab[r][j]
  /\ s.links[r] # None => reqTab[r][s.links[r]] = p
  /\ stream[p] # None => s = stream[p]
  /\ \A q \in Reqs : q # r => toReq'[q] = toReq[q]
  /\ toReq'[r] = IF s.cache = NoUpdates THEN toReq[r] ELSE Append(toReq[r], Updates(i, s.cache))

LEMMA JoinListTo ==
  ASSUME ShowInv, NEW r \in Reqs, JoinList(r)
  PROVE  /\ Request(r, "list")
         /\ UNCHANGED <<node, link, virtual, fromResp, content, open, subs, view, lost>>
         /\ \E s \in Stream : /\ JoinsAs(r, Head(toBroker[r]).rid, Head(toBroker[r]).path, s)
                              /\ JoinsTo(r, Head(toBroker[r]).rid, Head(toBroker[r]).path, s)
<1> DEFINE rid == Head(toBroker[r]).rid
           p   == Head(toBroker[r]).path
<1>1. /\ Request(r, "list")
      /\ UNCHANGED <<node, link, virtual, fromResp, content, open, subs, view, lost>>
      /\ IInv
  BY ShowInvAt, JoinListIs
<1>2. PICK s \in Stream : JoinsAs(r, rid, p, s)
  BY <1>1, JoinListIs
<1>3. rid \in Rids /\ p \in Paths
  BY <1>1, RequestAsks
<1> HIDE DEF rid, p
<1>4. /\ RestOK /\ Joined(stream, reqTab) /\ None \notin Stream
      /\ stream \in StreamTable /\ reqTab \in ReqTables
  BY <1>1, IInvAt
<1> DEFINE s2 == [s EXCEPT !.links = Added(s.links, r, rid)]
<1>5. s2 \in Stream /\ s2.rid = s.rid /\ s2.cache = s.cache /\ s2 # None
  <2>1. Added(s.links, r, rid) \in [Reqs -> Rids \cup {None}]
    BY <1>3 DEF Stream, Added
  <2> QED
    BY <1>4, <2>1 DEF Stream
<1> HIDE DEF s2
<1>6. stream'[p] = s2 /\ \A q \in Paths : q # p => stream'[q] = stream[q]
  BY <1>2, <1>3, <1>4 DEF JoinsAs, StreamTable, s2
<1>7. /\ \A q \in Reqs : q # r => reqTab'[q] = reqTab[q]
      /\ \A j \in Rids : reqTab'[r][j] = IF j = rid THEN p ELSE IF j = s.links[r] THEN None ELSE reqTab[r][j]
  BY <1>2, <1>4 DEF JoinsAs, TabAdded, ReqTables
<1>8. s = stream[p] \/ (stream[p] = None /\ s.links = NoLinks)
  BY <1>2 DEF JoinsAs
<1>9. stream[p] # None => s = stream[p]
  BY <1>8
<1>10. s.links[r] # None => reqTab[r][s.links[r]] = p
  <2>1. CASE stream[p] # None
    BY <1>3, <1>4, <1>9, <2>1, JoinedRows
  <2>2. CASE stream[p] = None
    BY <1>4, <1>8, <2>2 DEF NoLinks
  <2> QED
    BY <2>1, <2>2
<1>11. /\ \A q \in Reqs : q # r => toReq'[q] = toReq[q]
       /\ toReq'[r] = IF s.cache = NoUpdates THEN toReq[r] ELSE Append(toReq[r], Updates(rid, s.cache))
  <2>0. toReq \in [Reqs -> Seq(ToReq)]
    BY <1>4 DEF RestOK
  <2>1. CASE toReq' = FirstUpdates(r, rid, s.cache)
    BY <2>0, <2>1 DEF FirstUpdates
  <2>2. CASE s.cache = NoUpdates /\ UNCHANGED toReq
    BY <2>2
  <2> QED
    BY <1>2, <2>1, <2>2 DEF JoinsAs
<1>12. JoinsTo(r, rid, p, s)
  BY <1>5, <1>6, <1>7, <1>9, <1>10, <1>11 DEF JoinsTo
<1> QED
  BY <1>1, <1>2, <1>12 DEF rid, p

\* A list that was ended stays so with one more message.
LEMMA EndsKept ==
  ASSUME NEW q \in Seq(ToReq), NEW m \in ToReq, NEW i \in Rids, NEW k \in Nat, Ends(q, k, i)
  PROVE  Ends(Append(q, m), k, i)
<1>1. k \in 1..Len(Append(q, m)) /\ Append(q, m)[k] = q[k]
  BY Appended DEF Ends
<1> QED
  BY <1>1 DEF Ends

LEMMA JoinListShows ==
  ASSUME ShowInv, NEW r0 \in Reqs, JoinList(r0)
  PROVE  ViewsInv'
<1> DEFINE i0 == Head(toBroker[r0]).rid
           p0 == Head(toBroker[r0]).path
<1>1. Request(r0, "list") /\ UNCHANGED <<view, lost>>
  BY JoinListTo
<1>2. PICK s \in Stream : JoinsTo(r0, i0, p0, s)
  BY JoinListTo
<1>3. /\ toBroker[r0] # <<>> /\ i0 \in Rids /\ p0 \in Paths /\ Head(toBroker[r0]).kind = "list"
      /\ \A q \in Reqs : toBroker'[q] = IF q = r0 THEN Tail(toBroker[r0]) ELSE toBroker[q]
  BY <1>1, RequestAsks
<1>4. /\ ViewsInv /\ \A r \in Reqs : /\ toBroker[r] \in Seq(FromReq) /\ toReq[r] \in Seq(ToReq)
                                     /\ AsksKnown(toBroker[r], view[r])
      /\ \A r \in Reqs, i \in Rids : view[r][i] \in View
      /\ s.cache \in Cache
  BY ShowInvAt DEF Stream
<1>5. Lists(toBroker[r0], 1, i0, p0)
  <2>1. 1 \in 1..Len(toBroker[r0]) /\ toBroker[r0][1] = Head(toBroker[r0])
    BY <1>3, <1>4, TakenFromReq
  <2> QED
    BY <1>3, <2>1 DEF Lists
<1> HIDE DEF i0, p0
<1>6. /\ view[r0][i0].path = p0
      /\ \A h \in Rids : h # i0 /\ view[r0][h].state = "open" /\ view[r0][h].path = p0 =>
           \E j \in Nat : 1 < j /\ Lists(toBroker[r0], j, h, p0)
  <2>1. AsksKnown(toBroker[r0], view[r0])
    BY <1>4
  <2> QED
    BY <1>3, <1>5, <2>1 DEF AsksKnown
<1>7. None \notin Paths /\ None \notin Rids
  BY ShowInvAt, IInvAt
<1> SUFFICES ASSUME NEW r \in Reqs, NEW i \in Rids, view[r][i].state = "open", <<r, i>> \notin lost
             PROVE  Shows(r, i)'
  BY <1>1 DEF ViewsInv
<1>8. Shows(r, i) /\ view[r][i].path \in Paths \cup {None}
  BY <1>4 DEF ViewsInv, View
<1>9. reqTab[r][i] # None => reqTab[r][i] \in Paths /\ stream[reqTab[r][i]] # None
  BY ShowInvAt, IInvAt, JoinedRows
<1>10. reqTab[r][i] # None => stream'[reqTab[r][i]].cache = stream[reqTab[r][i]].cache
  <2>1. CASE reqTab[r][i] = p0
    BY <1>2, <1>9, <2>1 DEF JoinsTo
  <2>2. CASE reqTab[r][i] # p0
    BY <1>2, <1>9, <2>2 DEF JoinsTo
  <2> QED
    BY <2>1, <2>2
<1>11. CASE r # r0
  <2>1. reqTab'[r][i] = reqTab[r][i] /\ toReq'[r] = toReq[r] /\ toBroker'[r] = toBroker[r]
    BY <1>2, <1>3, <1>11 DEF JoinsTo
  <2> QED
    BY <1>1, <1>8, <1>10, <2>1, ShowsSame
<1>12. CASE r = r0 /\ i = i0
  <2>1. reqTab'[r][i] = p0 /\ view'[r][i] = view[r][i] /\ view[r][i].path = p0 /\ p0 # None
    BY <1>1, <1>2, <1>3, <1>6, <1>7, <1>12 DEF JoinsTo
  <2>2. stream'[p0].cache = s.cache
    BY <1>2 DEF JoinsTo
  <2>3. Follows(toReq'[r], i, view[r][i], s.cache)
    <3>1. CASE s.cache = NoUpdates
      BY <3>1 DEF NoUpdates, Follows
    <3>2. CASE s.cache # NoUpdates
      <4>1. toReq'[r] = Append(toReq[r], Updates(i, s.cache))
        BY <1>2, <1>12, <3>2 DEF JoinsTo
      <4> QED
        BY <1>4, <4>1, FollowsUpdates
    <3> QED
      BY <3>1, <3>2
  <2> QED
    BY <2>1, <2>2, <2>3 DEF Shows
<1>13. CASE r = r0 /\ i # i0
  <2>1. /\ \A k \in Nat : Ends(toReq[r], k, i) => Ends(toReq'[r], k, i)
        /\ \A v, c : Follows(toReq[r], i, v, c) => Follows(toReq'[r], i, v, c)
    <3>1. CASE s.cache = NoUpdates
      BY <1>2, <1>13, <3>1 DEF JoinsTo
    <3>2. CASE s.cache # NoUpdates
      <4>1. toReq'[r] = Append(toReq[r], Updates(i0, s.cache))
        BY <1>2, <1>13, <3>2 DEF JoinsTo
      <4>2. Updates(i0, s.cache) \in ToReq /\ Updates(i0, s.cache).rid = i0
        BY <1>3, <1>4, MessageTypes DEF Updates
      <4>3. toReq[r] \in Seq(ToReq)
        BY <1>4
      <4>4. \A k \in Nat : Ends(toReq[r], k, i) => Ends(toReq'[r], k, i)
        BY <4>1, <4>2, <4>3, EndsKept
      <4>5. \A v, c : Follows(toReq[r], i, v, c) => Follows(toReq'[r], i, v, c)
        BY <1>13, <4>1, <4>2, <4>3, FollowsOther
      <4> QED
        BY <4>4, <4>5
    <3> QED
      BY <3>1, <3>2
  <2>2. ASSUME NEW k \in Nat, Lists(toBroker[r], k, i, view[r][i].path) PROVE Shows(r, i)'
    <3>1. \E j \in Nat : Lists(Tail(toBroker[r]), j, i, view[r][i].path)
      BY <1>3, <1>4, <1>8, <1>13, <2>2, RequestLeaves DEF i0
    <3> QED
      BY <1>1, <1>3, <1>13, <3>1 DEF Shows
  <2>3. CASE \E k \in Nat : Ends(toReq[r], k, i)
    BY <2>1, <2>3 DEF Shows
  <2>4. CASE /\ reqTab[r][i] # None /\ reqTab[r][i] = view[r][i].path
             /\ Follows(toReq[r], i, view[r][i], stream[reqTab[r][i]].cache)
    <3>1. CASE i = s.links[r0]
      <4>1. view[r][i].path = p0
        BY <1>2, <1>7, <1>13, <2>4, <3>1 DEF JoinsTo
      <4>2. PICK k \in Nat : Lists(toBroker[r], k, i, view[r][i].path)
        BY <1>6, <1>13, <4>1
      <4> QED
        BY <2>2, <4>2
    <3>2. CASE i # s.links[r0]
      <4>1. reqTab'[r][i] = reqTab[r][i]
        BY <1>2, <1>13, <3>2 DEF JoinsTo
      <4>2. Follows(toReq'[r], i, view[r][i], stream'[reqTab[r][i]].cache)
        BY <1>10, <2>1, <2>4
      <4> QED
        BY <1>1, <2>4, <4>1, <4>2 DEF Shows
    <3> QED
      BY <3>1, <3>2
  <2> QED
    BY <1>8, <2>2, <2>3, <2>4 DEF Shows
<1> QED
  BY <1>11, <1>12, <1>13

\* What a requester that leaves lets the others keep
Leaves ==
  /\ \A p \in Paths : stream'[p] # None =>
       stream[p] # None /\ stream'[p].cache = stream[p].cache /\ stream'[p].rid = stream[p].rid
  /\ link => \E told \in SUBSET PRids : Tells(told)
  /\ ~link => UNCHANGED toResp

LEMMA LeaveAllLeaves ==
  ASSUME ShowInv, NEW r \in Reqs, NEW ps \in SUBSET Paths, \A p \in ps : stream[p] # None,
         LeaveAll(r, ps)
  PROVE  Leaves
<1>1. /\ stream' = Left(stream, r, ps)
      /\ link => \E told \in SUBSET PRids : Tells(told)
      /\ ~link => UNCHANGED toResp
  BY ShowInvAt, LeaveAllIs
<1>2. ASSUME NEW p \in Paths, stream'[p] # None
      PROVE  stream[p] # None /\ stream'[p].cache = stream[p].cache /\ stream'[p].rid = stream[p].rid
  <2>1. CASE p \in ps
    <3>1. stream[p] \in Stream
      BY <2>1, ShowInvAt
    <3>2. stream'[p] = [stream[p] EXCEPT !.links[r] = None]
      BY <1>1, <1>2, <2>1 DEF Left
    <3>3. stream'[p].cache = stream[p].cache /\ stream'[p].rid = stream[p].rid
      BY <3>1, <3>2 DEF Stream
    <3> QED
      BY <2>1, <3>3
  <2>2. CASE p \notin ps
    BY <1>1, <1>2, <2>2 DEF Left
  <2> QED
    BY <2>1, <2>2
<1> QED
  BY <1>1, <1>2 DEF Leaves

LEMMA CloseListLeaves ==
  ASSUME ShowInv, NEW r \in Reqs, CloseList(r)
  PROVE  /\ Leaves /\ Request(r, "close")
         /\ \A q \in Reqs, i \in Rids : q # r \/ i # Head(toBroker[r]).rid => reqTab'[q][i] = reqTab[q][i]
<1> DEFINE rid == Head(toBroker[r]).rid
           I   == {rid}
           ps  == {reqTab[r][i] : i \in I} \ {None}
<1>1. /\ Request(r, "close") /\ LeaveAll(r, {reqTab[r][rid]} \ {None})
      /\ reqTab' = [reqTab EXCEPT ![r][rid] = None] /\ UNCHANGED view
  BY DEF CloseList
<1>2. IInv /\ reqTab \in ReqTables
  BY ShowInvAt, IInvAt
<1>3. rid \in Rids
  BY <1>1, RequestAsks
<1> HIDE DEF rid
<1>4. ps = {reqTab[r][rid]} \ {None} /\ I \in SUBSET Rids
  BY <1>3
<1> HIDE DEF I
<1>5. ps \in SUBSET Paths /\ \A p \in ps : stream[p] # None
  BY <1>2, <1>4, LeftPaths
<1> HIDE DEF ps
<1>6. Leaves
  BY <1>1, <1>4, <1>5, LeaveAllLeaves
<1>7. \A q \in Reqs, i \in Rids : q # r \/ i # rid => reqTab'[q][i] = reqTab[q][i]
  BY <1>1, <1>2, <1>3 DEF ReqTables
<1> QED
  BY <1>1, <1>6, <1>7 DEF rid

LEMMA DisconnectLeaves ==
  ASSUME ShowInv, NEW r \in Reqs, Disconnect(r)
  PROVE  Leaves
<1> DEFINE I   == Rids
           ps  == {reqTab[r][i] : i \in I} \ {None}
<1>1. LeaveAll(r, ps) /\ I \in SUBSET Rids
  BY DEF Disconnect
<1> HIDE DEF I
<1>2. ps \in SUBSET Paths /\ \A p \in ps : stream[p] # None
  BY <1>1, ShowInvAt, LeftPaths
<1> HIDE DEF ps
<1> QED
  BY <1>1, <1>2, LeaveAllLeaves

\* The row of a list has a stream, also after a step.
LEMMA RowsNow ==
  ASSUME ShowInv, StepInv', NEW r \in Reqs, NEW i \in Rids
  PROVE  /\ reqTab[r][i] # None => /\ reqTab[r][i] \in Paths /\ stream[reqTab[r][i]] # None
                                   /\ stream[reqTab[r][i]].links[r] = i
         /\ reqTab'[r][i] # None => reqTab'[r][i] \in Paths /\ stream'[reqTab'[r][i]] # None
<1>1. Joined(stream, reqTab) /\ Joined(stream', reqTab')
  BY ShowInvAt DEF StepInv, IInv
<1> QED
  BY <1>1, JoinedRows

LEMMA CloseListShows ==
  ASSUME ShowInv, StepInv', NEW r0 \in Reqs, CloseList(r0)
  PROVE  ViewsInv'
<1> DEFINE i0 == Head(toBroker[r0]).rid
<1>1. UNCHANGED <<toReq, view, lost>>
  BY DEF CloseList
<1>2. /\ Leaves /\ Request(r0, "close")
      /\ \A q \in Reqs, i \in Rids : q # r0 \/ i # i0 => reqTab'[q][i] = reqTab[q][i]
  BY CloseListLeaves
<1>3. /\ toBroker[r0] # <<>> /\ i0 \in Rids /\ Head(toBroker[r0]).kind = "close"
      /\ \A q \in Reqs : toBroker'[q] = IF q = r0 THEN Tail(toBroker[r0]) ELSE toBroker[q]
  BY <1>1, <1>2, RequestAsks
<1>4. /\ ViewsInv /\ \A r \in Reqs : toBroker[r] \in Seq(FromReq) /\ AsksKnown(toBroker[r], view[r])
      /\ \A r \in Reqs, i \in Rids : view[r][i] \in View
  BY ShowInvAt
<1>5. Closes(toBroker[r0], 1, i0)
  <2>1. 1 \in 1..Len(toBroker[r0]) /\ toBroker[r0][1] = Head(toBroker[r0])
    BY <1>3, <1>4, TakenFromReq
  <2> QED
    BY <1>3, <2>1 DEF Closes
<1>6. view[r0][i0].state # "open"
  BY <1>3, <1>4, <1>5 DEF AsksKnown
<1> SUFFICES ASSUME NEW r \in Reqs, NEW i \in Rids, view[r][i].state = "open", <<r, i>> \notin lost
             PROVE  Shows(r, i)'
  BY <1>1 DEF ViewsInv
<1>7. Shows(r, i) /\ view[r][i].path \in Paths \cup {None}
  BY <1>4 DEF ViewsInv, View
<1>8. r # r0 \/ i # i0
  BY <1>6
<1>9. reqTab'[r][i] = reqTab[r][i]
  BY <1>2, <1>8
<1>10. reqTab[r][i] # None => stream'[reqTab[r][i]].cache = stream[reqTab[r][i]].cache
  BY <1>2, <1>9, RowsNow DEF Leaves
<1>11. ASSUME NEW k \in Nat, Lists(toBroker[r], k, i, view[r][i].path)
       PROVE  \E j \in Nat : Lists(toBroker'[r], j, i, view[r][i].path)
  <2>1. CASE r # r0
    BY <1>3, <1>11, <2>1
  <2>2. CASE r = r0
    <3>1. \E j \in Nat : Lists(Tail(toBroker[r]), j, i, view[r][i].path)
      BY <1>3, <1>4, <1>7, <1>11, <2>2, RequestLeaves
    <3> QED
      BY <1>3, <2>2, <3>1
  <2> QED
    BY <2>1, <2>2
<1> QED
  BY <1>1, <1>7, <1>9, <1>10, <1>11, ShowsSame

LEMMA DisconnectShows ==
  ASSUME ShowInv, StepInv', NEW r0 \in Reqs, Disconnect(r0)
  PROVE  ViewsInv'
<1>1. /\ view' = [view EXCEPT ![r0] = [i \in Rids |-> Unused]] /\ lost' = {e \in lost : e[1] # r0}
  BY DEF Disconnect
<1>2. \A q \in Reqs : q # r0 => /\ toBroker'[q] = toBroker[q] /\ view'[q] = view[q]
                                /\ toReq'[q] = toReq[q] /\ reqTab'[q] = reqTab[q]
  BY DisconnectAsks
<1>3. Leaves
  BY DisconnectLeaves
<1>4. ViewsInv /\ \A i \in Rids : view'[r0][i].state # "open"
  <2>1. ViewsInv /\ RestOK
    BY ShowInvAt
  <2>2. \A i \in Rids : view'[r0][i] = Unused
    BY <1>1, <2>1 DEF RestOK
  <2> QED
    BY <2>1, <2>2 DEF Unused, Seen
<1> SUFFICES ASSUME NEW r \in Reqs, NEW i \in Rids, view'[r][i].state = "open", <<r, i>> \notin lost'
             PROVE  Shows(r, i)'
  BY DEF ViewsInv
<1>5. r # r0
  BY <1>4
<1>6. /\ toBroker'[r] = toBroker[r] /\ view'[r] = view[r] /\ toReq'[r] = toReq[r] /\ reqTab'[r] = reqTab[r]
      /\ <<r, i>> \notin lost
  BY <1>1, <1>2, <1>5
<1>7. Shows(r, i)
  BY <1>4, <1>6 DEF ViewsInv
<1>8. reqTab[r][i] # None => stream'[reqTab[r][i]].cache = stream[reqTab[r][i]].cache
  BY <1>3, <1>6, RowsNow DEF Leaves
<1> QED
  BY <1>6, <1>7, <1>8, ShowsSame

\* Streams that keep their caches, with no message to or from a requester
LEMMA CachesSame ==
  ASSUME ShowInv, StepInv', UNCHANGED <<reqTab, toBroker, toReq, view, lost>>,
         \A p \in Paths : stream[p] # None => stream'[p].cache = stream[p].cache
  PROVE  ViewsInv'
<1>1. ViewsInv
  BY ShowInvAt
<1> SUFFICES ASSUME NEW r \in Reqs, NEW i \in Rids, view[r][i].state = "open", <<r, i>> \notin lost
             PROVE  Shows(r, i)'
  BY DEF ViewsInv
<1>2. Shows(r, i)
  BY <1>1 DEF ViewsInv
<1>3. reqTab[r][i] # None => stream'[reqTab[r][i]].cache = stream[reqTab[r][i]].cache
  BY RowsNow
<1> QED
  BY <1>2, <1>3, ShowsSame

\* The streams of the freed node are forgotten; the others stay.
LEMMA FreeNodeShows ==
  ASSUME ShowInv, StepInv', FreeNode
  PROVE  ViewsInv'
<1> DEFINE freed == {p \in Remote : stream[p] # None}
<1>1. /\ stream' = [p \in Paths |-> IF p \in freed THEN None ELSE stream[p]]
      /\ lost' = lost \cup {e \in Reqs \X Rids : reqTab[e[1]][e[2]] \in freed /\ view[e[1]][e[2]].state = "open"}
      /\ reqTab' = [r \in Reqs |-> [i \in Rids |-> IF reqTab[r][i] \in freed THEN None ELSE reqTab[r][i]]]
      /\ UNCHANGED <<toBroker, toReq, view>>
  BY DEF FreeNode
<1> HIDE DEF freed
<1>2. ViewsInv
  BY ShowInvAt
<1> SUFFICES ASSUME NEW r \in Reqs, NEW i \in Rids, view[r][i].state = "open", <<r, i>> \notin lost'
             PROVE  Shows(r, i)'
  BY <1>1 DEF ViewsInv
<1>3. <<r, i>> \notin lost /\ reqTab[r][i] \notin freed
  BY <1>1
<1>4. Shows(r, i)
  BY <1>2, <1>3 DEF ViewsInv
<1>5. reqTab'[r][i] = reqTab[r][i]
  BY <1>1, <1>3
<1>6. reqTab[r][i] # None => stream'[reqTab[r][i]].cache = stream[reqTab[r][i]].cache
  <2>1. reqTab[r][i] # None => reqTab[r][i] \in Paths
    BY RowsNow
  <2> QED
    BY <1>1, <1>3, <2>1
<1> QED
  BY <1>1, <1>4, <1>5, <1>6, ShowsSame

\* A message to all requesters of a stream, with a change of its cache
LEMMA ToAllShows ==
  ASSUME ShowInv, NEW p \in Paths, stream[p] # None, NEW c, NEW msg \in [Rids -> ToReq],
         \A i \in Rids : msg[i].rid = i,
         stream' = [stream EXCEPT ![p].cache = c], toReq' = ToAll(stream[p].links, msg),
         UNCHANGED <<reqTab, toBroker, view, lost>>,
         \A i \in Rids, q \in Seq(ToReq), v \in View :
           Follows(q, i, v, stream[p].cache) => Follows(Append(q, msg[i]), i, v, c)
  PROVE  ViewsInv'
<1>1. /\ ViewsInv /\ Joined(stream, reqTab) /\ stream \in StreamTable
      /\ \A r \in Reqs : toReq[r] \in Seq(ToReq)
      /\ \A r \in Reqs, i \in Rids : view[r][i] \in View /\ reqTab[r][i] \in Paths \cup {None}
      /\ stream[p] \in Stream /\ stream[p].links \in [Reqs -> Rids \cup {None}]
      /\ None \notin Rids /\ None \notin Paths
  BY ShowInvAt, IInvAt
<1>2. stream'[p].cache = c /\ \A q \in Paths : q # p => stream'[q] = stream[q]
  BY <1>1 DEF StreamTable, Stream
<1> SUFFICES ASSUME NEW r \in Reqs, NEW i \in Rids, view[r][i].state = "open", <<r, i>> \notin lost
             PROVE  Shows(r, i)'
  BY DEF ViewsInv
<1>3. Shows(r, i)
  BY <1>1 DEF ViewsInv
<1> DEFINE q == toReq[r]
           l == stream[p].links[r]
<1>4. q \in Seq(ToReq) /\ toReq'[r] = (IF l = None THEN q ELSE Append(q, msg[l])) /\ l \in Rids \cup {None}
  BY <1>1 DEF ToAll
<1>5. l # None => l \in Rids /\ msg[l] \in ToReq /\ msg[l].rid = l /\ reqTab[r][l] = p
  BY <1>1, <1>4 DEF Joined
<1>6. reqTab[r][i] = p => l = i
  BY <1>1 DEF Joined
<1> HIDE DEF q, l
<1>7. CASE \E k \in Nat : Lists(toBroker[r], k, i, view[r][i].path)
  BY <1>7 DEF Shows
<1>8. ASSUME NEW k \in Nat, Ends(q, k, i) PROVE Shows(r, i)'
  <2>1. Ends(toReq'[r], k, i)
    BY <1>4, <1>5, <1>8, EndsKept
  <2> QED
    BY <2>1 DEF Shows
<1>9. CASE /\ reqTab[r][i] # None /\ reqTab[r][i] = view[r][i].path
           /\ Follows(q, i, view[r][i], stream[reqTab[r][i]].cache)
  <2>1. CASE reqTab[r][i] = p
    <3>1. l = i /\ l # None
      BY <1>1, <1>6, <2>1
    <3>2. Follows(Append(q, msg[i]), i, view[r][i], c)
      BY <1>1, <1>4, <1>9, <2>1
    <3>3. Follows(toReq'[r], i, view'[r][i], stream'[reqTab'[r][i]].cache)
      BY <1>2, <1>4, <2>1, <3>1, <3>2
    <3> QED
      BY <1>9, <3>3 DEF Shows
  <2>2. CASE reqTab[r][i] # p
    <3>1. l # None => msg[l].rid # i
      BY <1>5, <2>2
    <3>2. Follows(toReq'[r], i, view[r][i], stream[reqTab[r][i]].cache)
      BY <1>4, <1>5, <1>9, <3>1, FollowsOther
    <3>3. stream'[reqTab[r][i]] = stream[reqTab[r][i]]
      BY <1>1, <1>2, <1>9, <2>2
    <3>4. Follows(toReq'[r], i, view'[r][i], stream'[reqTab'[r][i]].cache)
      BY <3>2, <3>3
    <3> QED
      BY <1>9, <3>4 DEF Shows
  <2> QED
    BY <2>1, <2>2
<1> QED
  BY <1>3, <1>7, <1>8, <1>9 DEF Shows, q

\* All of the cache is sent after every response.
LEMMA ListResponseShows ==
  ASSUME ShowInv, StepInv', ListResponse
  PROVE  ViewsInv'
<1> DEFINE p == respTab[fromResp[1].rid]
<1>1. /\ UNCHANGED <<reqTab, toBroker, view, lost>>
      /\ p = None => UNCHANGED <<stream, toReq>>
      /\ p # None => p \in Paths /\ stream[p] # None /\ \E c \in Cache : Answers(p, fromResp[1], c)
  BY ShowInvAt, ListResponseIs
<1> HIDE DEF p
<1>2. CASE p = None
  BY <1>1, <1>2, CachesSame
<1>3. CASE p # None
  <2>1. PICK c \in Cache : Answers(p, fromResp[1], c)
    BY <1>1, <1>3
  <2> DEFINE msg == [i \in Rids |-> Updates(i, c)]
  <2>2. stream' = [stream EXCEPT ![p].cache = c] /\ toReq' = ToAll(stream[p].links, msg)
    BY <2>1 DEF Answers
  <2>3. msg \in [Rids -> ToReq]
    BY MessageTypes
  <2>4. \A i \in Rids : msg[i].rid = i /\ msg[i] = Updates(i, c)
    BY DEF Updates
  <2> HIDE DEF msg
  <2>5. \A i \in Rids, q \in Seq(ToReq), v \in View :
          Follows(q, i, v, stream[p].cache) => Follows(Append(q, msg[i]), i, v, c)
    BY <2>4, FollowsUpdates
  <2> QED
    BY <1>1, <1>3, <2>2, <2>3, <2>4, <2>5, ToAllShows
<1> QED
  BY <1>2, <1>3

\* A change of one name is made in the cache and sent.
LEMMA ChangedShows ==
  ASSUME ShowInv, StepInv', UNCHANGED <<reqTab, toBroker, view, lost>>,
         NEW p \in Paths, NEW n \in Items, NEW b \in BOOLEAN, Changed(p, n, b)
  PROVE  ViewsInv'
<1>1. CASE stream[p] = None
  <2>1. UNCHANGED <<stream, toReq>>
    BY <1>1 DEF Changed
  <2> QED
    BY <2>1, CachesSame
<1>2. CASE stream[p] # None
  <2> DEFINE s   == stream[p]
             c   == [s.cache EXCEPT !.names = With(@, n, b)]
             msg == [i \in Rids |-> Change(i, n, b)]
  <2>1. stream \in StreamTable /\ s \in Stream /\ s.cache \in Cache
    BY <1>2, ShowInvAt, IInvAt
  <2>2. stream' = [stream EXCEPT ![p].cache.names = With(@, n, b)] /\ toReq' = ToAll(s.links, msg)
    BY <1>2 DEF Changed
  <2>3. stream' = [stream EXCEPT ![p].cache = c]
    BY <2>1, <2>2 DEF StreamTable, Stream, Cache
  <2>4. msg \in [Rids -> ToReq]
    BY MessageTypes
  <2>5. \A i \in Rids : msg[i].rid = i /\ msg[i] = Change(i, n, b)
    BY DEF Change
  <2> HIDE DEF msg
  <2>6. ASSUME NEW i \in Rids, NEW q \in Seq(ToReq), NEW v \in View, Follows(q, i, v, s.cache)
        PROVE  Follows(Append(q, msg[i]), i, v, c)
    <3>1. Follows(Append(q, Change(i, n, b)), i, v, [s.cache EXCEPT !.names = With(@, n, b)])
      BY <2>1, <2>6, FollowsChange
    <3> QED
      BY <2>5, <3>1
  <2> HIDE DEF c
  <2>7. \A i \in Rids, q \in Seq(ToReq), v \in View :
          Follows(q, i, v, s.cache) => Follows(Append(q, msg[i]), i, v, c)
    BY <2>6
  <2> QED
    BY <1>2, <2>2, <2>3, <2>4, <2>5, <2>7, ToAllShows
<1> QED
  BY <1>1, <1>2

LEMMA SetAttributeShows ==
  ASSUME ShowInv, StepInv', NEW p \in Remote, NEW b \in BOOLEAN, SetAttribute(p, b)
  PROVE  ViewsInv'
<1>1. Changed(p, Attr, b) /\ UNCHANGED <<reqTab, toBroker, view, lost>> /\ p \in Paths /\ Attr \in Items
  BY DEF SetAttribute, Paths, Items
<1> QED
  BY <1>1, ChangedShows

LEMMA LocalChangeShows ==
  ASSUME ShowInv, StepInv', NEW p \in Local, NEW n \in Names, LocalChange(p, n)
  PROVE  ViewsInv'
<1>1. /\ Changed(p, n, n \notin content[p]) /\ UNCHANGED <<reqTab, toBroker, view, lost>>
      /\ p \in Paths /\ n \in Items
  BY DEF LocalChange, Paths, Items
<1>2. ASSUME NEW b \in BOOLEAN, b = (n \notin content[p]) PROVE ViewsInv'
  BY <1>1, <1>2, ChangedShows
<1>3. (n \notin content[p]) \in BOOLEAN
  OBVIOUS
<1> QED
  BY <1>2, <1>3

\* The streams get other rids with the responder.
LEMMA RespConnectShows ==
  ASSUME ShowInv, StepInv', RespConnect
  PROVE  ViewsInv'
<1>1. UNCHANGED <<reqTab, toBroker, toReq, view, lost>>
  BY ShowInvAt, RespConnectIs
<1>2. PICK a \in Orders(RemoteStreams) : AsksIn(a)
  BY ShowInvAt, RespConnectIs
<1>3. ASSUME NEW p \in Paths, stream[p] # None PROVE stream'[p].cache = stream[p].cache
  <2>1. stream[p] \in Stream
    BY <1>3, ShowInvAt
  <2>2. CASE p \in Range(a)
    <3>1. stream'[p] = [stream[p] EXCEPT !.rid = nodeRid + (CHOOSE i \in DOMAIN a : a[i] = p)]
      BY <1>2, <2>2 DEF AsksIn
    <3> QED
      BY <2>1, <3>1 DEF Stream
  <2>3. CASE p \notin Range(a)
    BY <1>2, <2>3 DEF AsksIn
  <2> QED
    BY <2>2, <2>3
<1> QED
  BY <1>1, <1>3, CachesSame

\* Every requester of a remote path is sent that the responder went.
LEMMA RespDisconnectShows ==
  ASSUME ShowInv, RespDisconnect
  PROVE  ViewsInv'
<1>1. /\ UNCHANGED <<reqTab, toBroker, view, lost>>
      /\ stream' = [p \in Paths |-> IF p \in Remote /\ stream[p] # None
                                    THEN [stream[p] EXCEPT !.cache = Offline] ELSE stream[p]]
  BY ShowInvAt, RespDisconnectIs
<1>2. /\ ViewsInv /\ Joined(stream, reqTab) /\ None \notin Rids
      /\ \A r \in Reqs : toReq[r] \in Seq(ToReq)
      /\ \A r \in Reqs, i \in Rids : reqTab[r][i] \in Paths \cup {None}
  BY ShowInvAt, IInvAt
<1> SUFFICES ASSUME NEW r \in Reqs, NEW i \in Rids, view[r][i].state = "open", <<r, i>> \notin lost
             PROVE  Shows(r, i)'
  BY <1>1 DEF ViewsInv
<1>3. Shows(r, i)
  BY <1>2 DEF ViewsInv
<1>4. PICK f \in Seq(ToReq) : Offlines(r, f) /\ toReq'[r] = toReq[r] \o f
  BY ShowInvAt, RespDisconnectIs
<1> DEFINE q == toReq[r]
           v == view[r][i]
<1>5. q \in Seq(ToReq)
  BY <1>2
<1>6. CASE \E k \in Nat : Lists(toBroker[r], k, i, view[r][i].path)
  BY <1>1, <1>6 DEF Shows
<1>7. ASSUME NEW k \in Nat, Ends(q, k, i) PROVE Shows(r, i)'
  <2>1. Ends(q \o f, k, i)
    BY <1>5, <1>7, FollowsAll
  <2> QED
    BY <1>4, <2>1 DEF Shows
<1>8. CASE reqTab[r][i] # None /\ reqTab[r][i] = v.path /\ Follows(q, i, v, stream[reqTab[r][i]].cache)
  <2> DEFINE p == reqTab[r][i]
  <2>1. p \in Paths /\ stream[p] # None /\ stream[p] \in Stream /\ stream[p].links[r] = i
    BY <1>2, <1>8, ShowInvAt DEF Joined
  <2>2. CASE p \in Remote
    <3>1. p \in RemoteOf(r)
      BY <1>2, <2>1, <2>2 DEF RemoteOf
    <3>2. stream'[p].cache = Offline
      BY <1>1, <2>1, <2>2 DEF Stream
    <3>3. PICK j \in 1..Len(f) : /\ f[j] = Updates(i, Offline)
                                 /\ \A h \in 1..Len(f) : h # j => f[h].rid # i
      <4>1. \E j \in 1..Len(f) : /\ f[j] = Updates(stream[p].links[r], Offline)
                                 /\ \A h \in 1..Len(f) : h # j => f[h].rid # stream[p].links[r]
        BY <1>4, <3>1 DEF Offlines
      <4> QED
        BY <2>1, <4>1
    <3>4. f[j].kind = "updates" /\ f[j].rid = i /\ f[j].cache = Offline
      BY <3>3 DEF Updates
    <3> HIDE DEF q, v
    <3>5. Follows(q \o f, i, v, Offline)
      BY <1>5, <3>3, <3>4, FollowsAll
    <3> QED
      BY <1>1, <1>4, <1>8, <3>2, <3>5 DEF Shows, q, v
  <2>3. CASE p \notin Remote
    <3>1. stream'[p] = stream[p]
      BY <1>1, <2>1, <2>3
    <3>2. ASSUME NEW j \in 1..Len(f) PROVE f[j].rid # i
      <4>1. PICK p2 \in RemoteOf(r) : f[j] = Updates(stream[p2].links[r], Offline)
        BY <1>4 DEF Offlines
      <4>2. reqTab[r][stream[p2].links[r]] = p2 /\ f[j].rid = stream[p2].links[r] /\ p2 \in Remote
        BY <1>2, <4>1 DEF Joined, RemoteOf, Updates, Paths
      <4> QED
        BY <2>3, <4>2
    <3> HIDE DEF q, v
    <3>3. Follows(q \o f, i, v, stream[p].cache)
      BY <1>5, <1>8, <3>2, FollowsAll
    <3> QED
      BY <1>1, <1>4, <1>8, <3>1, <3>3 DEF Shows, q, v
  <2> QED
    BY <2>2, <2>3
<1> QED
  BY <1>3, <1>6, <1>7, <1>8 DEF Shows

\* What the responder does is nothing yet to a requester.
LEMMA ResponderShows ==
  ASSUME ShowInv, StepInv', UNCHANGED <<stream, reqTab, toBroker, toReq, view, lost>>
  PROVE  ViewsInv'
BY CachesSame

\* What ShowInv says of the stream of a remote path
LEMMA RemoteAt ==
  ASSUME ShowInv, NEW p \in Remote, stream[p] # None
  PROVE  /\ p \in Paths /\ p # None /\ stream[p] \in Stream /\ stream[p].cache \in Cache
         /\ link => /\ Feeds(p) /\ stream[p].rid \in PRids /\ stream[p].rid # 0
                    /\ respTab[stream[p].rid] = p
         /\ ~link => stream[p].cache.disc
<1>1. /\ RemoteInv /\ Listed(stream, respTab, node, link, nodeRid)
      /\ p \in Paths /\ p # None /\ stream[p] \in Stream /\ stream[p].cache \in Cache
  BY ShowInvAt, IInvAt DEF Paths
<1>2. link => stream[p].rid \in PRids /\ respTab[stream[p].rid] = p
  BY <1>1 DEF Listed
<1>3. \A i \in PRids : i # 0
  BY DEF PRids
<1> QED
  BY <1>1, <1>2, <1>3 DEF RemoteInv

\* The responder still feeds a stream that keeps its rid and its cache.
LEMMA FeedsKept ==
  ASSUME NEW p \in Remote, Feeds(p), UNCHANGED <<subs, fromResp>>,
         stream'[p].rid = stream[p].rid, stream'[p].cache = stream[p].cache, content'[p] = content[p],
         \A k \in Nat : Lists(toResp, k, stream[p].rid, p) =>
           \E j \in Nat : Lists(toResp', j, stream[p].rid, p)
  PROVE  Feeds(p)'
<1>1. CASE \E k \in Nat : Lists(toResp, k, stream[p].rid, p)
  BY <1>1 DEF Feeds
<1>2. CASE subs[p] = stream[p].rid /\ ComesToHold(fromResp, stream[p].rid, stream[p].cache, content[p])
  BY <1>2 DEF Feeds
<1> QED
  BY <1>1, <1>2 DEF Feeds

\* A step of requesters only
LEMMA RemoteKept ==
  ASSUME ShowInv, UNCHANGED <<link, subs, fromResp>>, \A p \in Remote : content'[p] = content[p],
         \A p \in Paths : stream'[p] # None =>
           stream[p] # None /\ stream'[p].rid = stream[p].rid /\ stream'[p].cache = stream[p].cache,
         \A p \in Remote, i \in PRids, k \in Nat : Lists(toResp, k, i, p) => \E j \in Nat : Lists(toResp', j, i, p)
  PROVE  RemoteInv'
<1> SUFFICES ASSUME NEW p \in Remote, stream'[p] # None
             PROVE  (link => Feeds(p)') /\ (~link => stream'[p].cache.disc)
  BY ShowInvAt DEF RemoteInv, RestOK
<1>1. p \in Paths
  BY DEF Paths
<1>2. stream[p] # None /\ stream'[p].rid = stream[p].rid /\ stream'[p].cache = stream[p].cache
  BY <1>1
<1>3. link => Feeds(p) /\ stream[p].rid \in PRids
  BY <1>2, RemoteAt
<1>4. link => Feeds(p)'
  BY <1>2, <1>3, FeedsKept
<1> QED
  BY <1>2, <1>4, RemoteAt

LEMMA ListsAppended ==
  ASSUME NEW q \in Seq(ToResp), NEW f \in Seq(ToResp), NEW p, NEW i, NEW k \in Nat, Lists(q, k, i, p)
  PROVE  Lists(q \o f, k, i, p)
<1>1. k \in 1..Len(q) /\ Len(q \o f) = Len(q) + Len(f) /\ \A j \in 1..Len(q) : (q \o f)[j] = q[j]
  BY ConcatProperties DEF Lists
<1>2. k \in 1..Len(q \o f)
  BY <1>1
<1> QED
  BY <1>1, <1>2 DEF Lists

\* The closes that a responder is told of come last.
LEMMA LeavesRemote ==
  ASSUME ShowInv, Leaves, UNCHANGED <<link, subs, fromResp, content>>
  PROVE  RemoteInv'
<1>1. toResp \in Seq(ToResp) /\ link \in BOOLEAN
  BY ShowInvAt DEF RestOK
<1>2. ASSUME NEW p \in Remote, NEW i \in PRids, NEW k \in Nat, Lists(toResp, k, i, p)
      PROVE  \E j \in Nat : Lists(toResp', j, i, p)
  <2>1. CASE link
    <3>1. PICK told \in SUBSET PRids : Tells(told)
      BY <2>1 DEF Leaves
    <3>2. PICK a \in Orders(told) : toResp' = toResp \o Each(a)
      BY <3>1 DEF Tells
    <3>3. Each(a) \in Seq(ToResp)
      BY EachType
    <3> QED
      BY <1>1, <1>2, <3>2, <3>3, ListsAppended
  <2>2. CASE ~link
    BY <1>2, <2>2 DEF Leaves
  <2> QED
    BY <1>1, <2>1, <2>2
<1>3. \A p \in Paths : stream'[p] # None =>
        stream[p] # None /\ stream'[p].rid = stream[p].rid /\ stream'[p].cache = stream[p].cache
  BY DEF Leaves
<1> QED
  BY <1>2, <1>3, RemoteKept

\* A stream that is made is asked for, or the responder is away.
LEMMA JoinListRemote ==
  ASSUME ShowInv, NEW r \in Reqs, JoinList(r)
  PROVE  RemoteInv'
<1> DEFINE i0 == Head(toBroker[r]).rid
           p0 == Head(toBroker[r]).path
<1>1. UNCHANGED <<link, fromResp, content, subs>>
  BY JoinListTo
<1>2. PICK s \in Stream : JoinsAs(r, i0, p0, s) /\ JoinsTo(r, i0, p0, s)
  BY JoinListTo
<1> HIDE DEF i0, p0
<1>3. toResp \in Seq(ToResp) /\ link \in BOOLEAN /\ nodeRid \in Nat
  BY ShowInvAt, IInvAt DEF RestOK
<1>4. ASSUME NEW p \in Remote, NEW i \in PRids, NEW k \in Nat, Lists(toResp, k, i, p)
      PROVE  \E j \in Nat : Lists(toResp', j, i, p)
  <2>1. CASE UNCHANGED toResp
    BY <1>4, <2>1
  <2>2. CASE toResp' = Append(toResp, List(nodeRid + 1, p0)) /\ nodeRid + 1 \in PRids /\ p0 \in Remote
    <3>1. List(nodeRid + 1, p0) \in ToResp
      BY <2>2, MessageTypes
    <3>2. /\ Len(toResp') = Len(toResp) + 1 /\ k \in 1..Len(toResp) /\ toResp'[k] = toResp[k]
      BY <1>3, <1>4, <2>2, <3>1, Appended DEF Lists
    <3>3. k \in 1..Len(toResp')
      BY <1>3, <3>2
    <3> QED
      BY <1>4, <3>2, <3>3 DEF Lists
  <2> QED
    BY <1>2, <2>1, <2>2 DEF JoinsAs
<1>5. /\ stream'[p0] # None /\ stream'[p0].cache = s.cache /\ stream'[p0].rid = s.rid
      /\ stream[p0] # None => s = stream[p0]
      /\ \A q \in Paths : q # p0 => stream'[q] = stream[q]
  BY <1>2 DEF JoinsTo
<1>6. CASE stream[p0] # None
  <2>1. \A p \in Paths : stream'[p] # None =>
          stream[p] # None /\ stream'[p].rid = stream[p].rid /\ stream'[p].cache = stream[p].cache
    BY <1>5, <1>6
  <2> QED
    BY <1>1, <1>4, <2>1, RemoteKept
<1>7. CASE stream[p0] = None
  <2> SUFFICES ASSUME NEW p \in Remote, stream'[p] # None
               PROVE  (link => Feeds(p)') /\ (~link => stream'[p].cache.disc)
    BY <1>1, <1>3 DEF RemoteInv
  <2>1. p \in Paths
    BY DEF Paths
  <2>2. CASE p # p0
    <3>1. stream'[p] = stream[p] /\ stream[p] # None
      BY <1>5, <2>1, <2>2
    <3>2. link => Feeds(p) /\ stream[p].rid \in PRids
      BY <3>1, RemoteAt
    <3>3. link => Feeds(p)'
      BY <1>1, <1>4, <3>1, <3>2, FeedsKept
    <3> QED
      BY <3>1, <3>3, RemoteAt
  <2>3. CASE p = p0
    <3>0. s # stream[p0]
      BY <1>7, IInvAt, ShowInvAt
    <3>1. CASE link
      <4>1. /\ s.rid = nodeRid + 1 /\ nodeRid + 1 \in PRids
            /\ toResp' = Append(toResp, List(nodeRid + 1, p0))
        BY <1>2, <2>3, <3>0, <3>1 DEF JoinsAs
      <4>2. List(nodeRid + 1, p0) \in ToResp
        BY <2>3, <4>1, MessageTypes
      <4>3. Len(toResp') = Len(toResp) + 1 /\ toResp'[Len(toResp) + 1] = List(nodeRid + 1, p0)
        BY <1>3, <4>1, <4>2, Appended
      <4>4. Len(toResp) + 1 \in Nat /\ Len(toResp) + 1 \in 1..(Len(toResp) + 1)
        BY <1>3
      <4>5. Lists(toResp', Len(toResp) + 1, s.rid, p)
        BY <2>3, <4>1, <4>3, <4>4 DEF Lists, List
      <4> QED
        BY <1>5, <2>3, <3>1, <4>4, <4>5 DEF Feeds
    <3>2. CASE ~link
      <4>1. s.cache = Offline
        BY <1>2, <2>3, <3>0, <3>2 DEF JoinsAs
      <4> QED
        BY <1>5, <2>3, <3>2, <4>1 DEF Offline
    <3> QED
      BY <1>3, <3>1, <3>2
  <2> QED
    BY <2>2, <2>3
<1> QED
  BY <1>6, <1>7

\* The broker takes a report.
LEMMA ListResponseRemote ==
  ASSUME ShowInv, ListResponse
  PROVE  RemoteInv'
<1> DEFINE m  == fromResp[1]
           p0 == respTab[m.rid]
<1>1. /\ link /\ fromResp # <<>> /\ fromResp \in Seq(FromResp) /\ fromResp' = Tail(fromResp)
      /\ UNCHANGED <<link, respTab, toResp, content, subs>>
      /\ p0 = None => UNCHANGED stream
      /\ p0 # None => /\ p0 \in Paths /\ stream[p0] # None /\ stream[p0].rid = m.rid
                      /\ \E c \in Cache : Answers(p0, m, c)
  BY ShowInvAt, ListResponseIs
<1>2. stream \in StreamTable
  BY ShowInvAt, IInvAt
<1> HIDE DEF p0, m
<1>3. \E c \in Cache :
        /\ p0 # None => /\ stream'[p0].cache = c /\ stream'[p0].rid = stream[p0].rid
                        /\ \A q \in Paths : q # p0 => stream'[q] = stream[q]
                        /\ m.kind = "updates" => c.head /\ ~c.disc /\ \A n \in Names : n \in c.names <=> n \in m.names
                        /\ m.kind = "change" =>
                             /\ c.head = stream[p0].cache.head /\ c.disc = stream[p0].cache.disc
                             /\ \A n \in Names : n \in c.names <=>
                                  IF n = m.name THEN m.present ELSE n \in stream[p0].cache.names
  <2>1. CASE p0 = None
    BY <2>1, CacheTypes
  <2>2. CASE p0 # None
    <3>1. PICK c \in Cache : Answers(p0, m, c)
      BY <1>1, <2>2
    <3>2. stream[p0] \in Stream /\ stream' = [stream EXCEPT ![p0].cache = c]
      BY <1>1, <1>2, <2>2, <3>1 DEF Answers, StreamTable
    <3>3. /\ stream'[p0].cache = c /\ stream'[p0].rid = stream[p0].rid
          /\ \A q \in Paths : q # p0 => stream'[q] = stream[q]
      BY <1>1, <1>2, <2>2, <3>2 DEF StreamTable, Stream
    <3> QED
      BY <3>1, <3>3 DEF Answers
  <2> QED
    BY <2>1, <2>2
<1>4. PICK c2 \in Cache :
        p0 # None => /\ stream'[p0].cache = c2 /\ stream'[p0].rid = stream[p0].rid
                     /\ \A q \in Paths : q # p0 => stream'[q] = stream[q]
                     /\ m.kind = "updates" => c2.head /\ ~c2.disc /\ \A n \in Names : n \in c2.names <=> n \in m.names
                     /\ m.kind = "change" =>
                          /\ c2.head = stream[p0].cache.head /\ c2.disc = stream[p0].cache.disc
                          /\ \A n \in Names : n \in c2.names <=>
                               IF n = m.name THEN m.present ELSE n \in stream[p0].cache.names
  BY <1>3
<1> SUFFICES ASSUME NEW p \in Remote, stream'[p] # None PROVE Feeds(p)'
  BY <1>1 DEF RemoteInv
<1>5. stream[p] # None /\ p \in Paths
  BY <1>1, <1>4 DEF Paths
<1>6. Feeds(p) /\ respTab[stream[p].rid] = p /\ p # None
  BY <1>1, <1>5, RemoteAt
<1>7. m.rid = stream[p].rid <=> p = p0
  BY <1>1, <1>6 DEF p0
<1>8. stream'[p].rid = stream[p].rid /\ (p # p0 => stream'[p] = stream[p])
  BY <1>1, <1>4, <1>5
<1>9. CASE \E k \in Nat : Lists(toResp, k, stream[p].rid, p)
  BY <1>1, <1>8, <1>9 DEF Feeds
<1>10. CASE subs[p] = stream[p].rid /\ ComesToHold(fromResp, stream[p].rid, stream[p].cache, content[p])
  <2> DEFINE c == stream[p].cache
             c3 == stream'[p].cache
             i == stream[p].rid
  <2>1. m.rid # i => c3 = c
    BY <1>7, <1>8
  <2>2. m.rid = i /\ m.kind = "updates" =>
          c3.head /\ ~c3.disc /\ \A n \in Names : n \in c3.names <=> n \in m.names
    BY <1>4, <1>6, <1>7
  <2>3. m.rid = i /\ m.kind = "change" =>
          /\ c3.head = c.head /\ c3.disc = c.disc
          /\ \A n \in Names : n \in c3.names <=> IF n = m.name THEN m.present ELSE n \in c.names
    BY <1>4, <1>6, <1>7
  <2>4. ComesToHold(fromResp, i, c, content[p])
    BY <1>10
  <2> HIDE DEF c, c3, i
  <2>5. ComesToHold(Tail(fromResp), i, c3, content[p])
    BY <1>1, <2>1, <2>2, <2>3, <2>4, HoldsTaken DEF m
  <2> QED
    BY <1>1, <1>8, <1>10, <2>5 DEF Feeds, c3, i
<1> QED
  BY <1>6, <1>9, <1>10 DEF Feeds

\* Every stream is asked for anew.
LEMMA RespConnectRemote ==
  ASSUME ShowInv, RespConnect
  PROVE  RemoteInv'
<1>1. IInv /\ nodeRid \in Nat /\ link' = TRUE
  BY ShowInvAt, IInvAt, RespConnectIs
<1>2. PICK a \in Orders(RemoteStreams) : AsksIn(a)
  BY <1>1, RespConnectIs
<1>3. /\ a \in Seq(RemoteStreams) /\ DOMAIN a = 1..Len(a) /\ Len(a) \in Nat /\ Range(a) = RemoteStreams
      /\ \A x \in RemoteStreams : \E i \in 1..Len(a) : a[i] = x
  BY RemoteOrders
<1>4. Len(toResp') = Len(a) /\ \A i \in 1..Len(a) : toResp'[i] = List(nodeRid + i, a[i])
  BY <1>1, <1>2, AskedAnew
<1> SUFFICES ASSUME NEW p \in Remote, stream'[p] # None PROVE Feeds(p)'
  BY <1>1 DEF RemoteInv
<1> DEFINE c == CHOOSE i \in DOMAIN a : a[i] = p
<1>5. p \in Paths
  BY DEF Paths
<1>6. p \in RemoteStreams
  BY <1>2, <1>3, <1>5 DEF AsksIn, RemoteStreams
<1>7. c \in 1..Len(a) /\ a[c] = p
  BY <1>3, <1>6
<1>8. stream[p] \in Stream
  BY <1>6, ShowInvAt, RemoteAt DEF RemoteStreams
<1>9. stream'[p].rid = nodeRid + c
  <2>1. stream'[p] = [stream[p] EXCEPT !.rid = nodeRid + c]
    BY <1>2, <1>3, <1>5, <1>6 DEF AsksIn
  <2> QED
    BY <1>8, <2>1 DEF Stream
<1> HIDE DEF c
<1>10. c \in Nat /\ Lists(toResp', c, nodeRid + c, p)
  <2>1. c \in Nat
    BY <1>3, <1>7
  <2>2. c \in 1..Len(toResp') /\ toResp'[c] = List(nodeRid + c, p)
    BY <1>4, <1>7
  <2>3. toResp'[c].kind = "list" /\ toResp'[c].rid = nodeRid + c /\ toResp'[c].path = p
    BY <2>2 DEF List
  <2> QED
    BY <2>1, <2>2, <2>3 DEF Lists
<1> QED
  BY <1>9, <1>10 DEF Feeds

\* Every stream starts over.
LEMMA RespDisconnectRemote ==
  ASSUME ShowInv, RespDisconnect
  PROVE  RemoteInv'
<1>1. /\ link' = FALSE
      /\ stream' = [p \in Paths |-> IF p \in Remote /\ stream[p] # None
                                    THEN [stream[p] EXCEPT !.cache = Offline] ELSE stream[p]]
  BY ShowInvAt, RespDisconnectIs
<1> SUFFICES ASSUME NEW p \in Remote, stream'[p] # None PROVE stream'[p].cache.disc
  BY <1>1 DEF RemoteInv
<1>2. p \in Paths /\ stream[p] # None
  BY <1>1 DEF Paths
<1>3. stream[p] \in Stream /\ stream'[p] = [stream[p] EXCEPT !.cache = Offline]
  BY <1>1, <1>2, RemoteAt
<1>4. stream'[p].cache = Offline
  BY <1>3 DEF Stream
<1> QED
  BY <1>4 DEF Offline

LEMMA FreeNodeRemote ==
  ASSUME ShowInv, FreeNode
  PROVE  RemoteInv'
<1>1. \A p \in Remote : stream'[p] = None
  BY DEF FreeNode, Paths
<1> QED
  BY <1>1 DEF RemoteInv

\* The attribute is none of the node's own names.
LEMMA SetAttributeRemote ==
  ASSUME ShowInv, NEW p0 \in Remote, NEW b \in BOOLEAN, SetAttribute(p0, b)
  PROVE  RemoteInv'
<1>1. Changed(p0, Attr, b) /\ UNCHANGED <<link, toResp, fromResp, content, subs>>
  BY DEF SetAttribute, responder
<1>2. stream \in StreamTable /\ link \in BOOLEAN
  BY ShowInvAt, IInvAt DEF RestOK
<1> SUFFICES ASSUME NEW p \in Remote, stream'[p] # None
             PROVE  (link => Feeds(p)') /\ (~link => stream'[p].cache.disc)
  BY <1>1, <1>2 DEF RemoteInv
<1>3. /\ stream[p] # None /\ stream'[p].rid = stream[p].rid
      /\ stream'[p].cache.head = stream[p].cache.head /\ stream'[p].cache.disc = stream[p].cache.disc
      /\ \A n \in Names : n \in stream'[p].cache.names <=> n \in stream[p].cache.names
  <2>1. CASE stream[p0] = None \/ p # p0
    <3>1. stream'[p] = stream[p]
      BY <1>1, <1>2, <2>1 DEF Changed, StreamTable, Paths
    <3> QED
      BY <3>1
  <2>2. CASE stream[p0] # None /\ p = p0
    <3>1. stream' = [stream EXCEPT ![p].cache.names = With(@, Attr, b)]
      BY <1>1, <2>2 DEF Changed
    <3>2. p \in Paths /\ stream[p] \in Stream /\ stream[p].cache \in Cache
      BY <2>2, RemoteAt
    <3>3. stream'[p] = [stream[p] EXCEPT !.cache.names = With(@, Attr, b)]
      BY <1>2, <3>1, <3>2 DEF StreamTable
    <3>4. /\ stream'[p].rid = stream[p].rid
          /\ stream'[p].cache.head = stream[p].cache.head /\ stream'[p].cache.disc = stream[p].cache.disc
          /\ stream'[p].cache.names = With(stream[p].cache.names, Attr, b)
      BY <3>2, <3>3 DEF Stream, Cache
    <3> QED
      BY <2>2, <3>4, ListConstants DEF With
  <2> QED
    BY <2>1, <2>2
<1>4. link => Feeds(p)'
  <2> SUFFICES ASSUME link PROVE Feeds(p)'
    OBVIOUS
  <2>1. Feeds(p)
    BY <1>3, RemoteAt
  <2>2. CASE \E k \in Nat : Lists(toResp, k, stream[p].rid, p)
    BY <1>1, <1>3, <2>2 DEF Feeds
  <2>3. CASE subs[p] = stream[p].rid /\ ComesToHold(fromResp, stream[p].rid, stream[p].cache, content[p])
    <3>1. ComesToHold(fromResp, stream[p].rid, stream'[p].cache, content[p])
      BY <1>3, <2>3, HoldsAlike
    <3> QED
      BY <1>1, <1>3, <2>3, <3>1 DEF Feeds
  <2> QED
    BY <2>1, <2>2, <2>3 DEF Feeds
<1> QED
  BY <1>3, <1>4, RemoteAt

\* A local node is none of the responder's.
LEMMA LocalChangeRemote ==
  ASSUME ShowInv, NEW p0 \in Local, NEW n \in Names, LocalChange(p0, n)
  PROVE  RemoteInv'
<1>1. /\ Changed(p0, n, n \notin content[p0]) /\ UNCHANGED <<link, toResp, fromResp, subs>>
      /\ content' = [content EXCEPT ![p0] = With(@, n, n \notin @)]
  BY DEF LocalChange
<1>2. stream \in StreamTable /\ link \in BOOLEAN /\ content \in [Paths -> SUBSET Names]
  BY ShowInvAt, IInvAt DEF RestOK
<1> SUFFICES ASSUME NEW p \in Remote, stream'[p] # None
             PROVE  (link => Feeds(p)') /\ (~link => stream'[p].cache.disc)
  BY <1>1, <1>2 DEF RemoteInv
<1>3. p \in Paths /\ p0 \in Paths /\ p # p0
  BY ListConstants DEF Paths
<1>4. stream'[p] = stream[p] /\ content'[p] = content[p]
  BY <1>1, <1>2, <1>3 DEF Changed, StreamTable
<1>5. link => Feeds(p)'
  BY <1>1, <1>4, RemoteAt, FeedsKept
<1> QED
  BY <1>4, <1>5, RemoteAt

\* What the responder takes leaves the other requests.
LEMMA TakenLists ==
  ASSUME NEW q \in Seq(ToResp), q # <<>>, NEW i, NEW p, NEW k \in Nat, Lists(q, k, i, p)
  PROVE  \/ k = 1 /\ Head(q).kind = "list" /\ Head(q).rid = i /\ Head(q).path = p
         \/ \E j \in Nat : Lists(Tail(q), j, i, p)
<1>1. k \in 1..Len(q) /\ Len(q) \in Nat /\ Len(Tail(q)) = Len(q) - 1
      /\ q[1] = Head(q) /\ \A j \in 1..Len(Tail(q)) : Tail(q)[j] = q[j + 1]
  BY DEF Lists
<1>2. CASE k = 1
  BY <1>1, <1>2 DEF Lists
<1>3. CASE k # 1
  <2>1. k - 1 \in Nat /\ k - 1 \in 1..Len(Tail(q)) /\ Tail(q)[k - 1] = q[k]
    BY <1>1, <1>3
  <2>2. Lists(Tail(q), k - 1, i, p)
    BY <2>1 DEF Lists
  <2> QED
    BY <2>1, <2>2
<1> QED
  BY <1>2, <1>3

\* A list is answered with what the node has; that of another path stays.
LEMMA RespListRemote ==
  ASSUME ShowInv, RespList
  PROVE  RemoteInv'
<1> DEFINE i0 == Head(toResp).rid
           p0 == Head(toResp).path
           m  == [kind |-> "updates", rid |-> i0, names |-> content[p0]]
<1>1. /\ link /\ toResp # <<>> /\ Head(toResp).kind = "list" /\ toResp' = Tail(toResp)
      /\ subs' = [subs EXCEPT ![p0] = i0] /\ fromResp' = Append(fromResp, m)
      /\ UNCHANGED <<link, stream, content>>
  BY DEF RespList, broker
<1>2. /\ InStep(toResp, open, subs, respTab, nodeRid) /\ RestOK
      /\ toResp \in Seq(ToResp) /\ subs \in [Remote -> 0..MaxRid]
      /\ fromResp \in Seq(FromResp) /\ content \in [Paths -> SUBSET Names]
  BY ShowInvAt, StepInvAt DEF RestOK
<1>3. i0 \in PRids /\ p0 \in Remote /\ p0 \in Paths
  BY <1>1, <1>2, TakenByResponder DEF Paths
<1>4. m \in FromResp
  BY <1>2, <1>3 DEF FromResp
<1>5. m.kind = "updates" /\ m.rid = i0 /\ m.names = content[p0]
  OBVIOUS
<1>6. Lists(toResp, 1, i0, p0)
  <2>1. toResp[1] = Head(toResp) /\ 1 \in 1..Len(toResp)
    BY <1>1, <1>2
  <2> QED
    BY <1>1, <2>1 DEF Lists
<1> HIDE DEF i0, p0, m
<1>7. open[i0] = None
  BY <1>2, <1>3, <1>6 DEF InStep, AsksOK
<1> SUFFICES ASSUME NEW p \in Remote, stream[p] # None PROVE Feeds(p)'
  BY <1>1 DEF RemoteInv
<1> DEFINE i == stream[p].rid
<1>8. Feeds(p) /\ i \in PRids /\ i # 0 /\ p # None
  BY <1>1, RemoteAt
<1>9. ASSUME NEW k \in Nat, Lists(toResp, k, i, p) PROVE Feeds(p)'
  <2>1. (i0 = i /\ p0 = p) \/ \E j \in Nat : Lists(Tail(toResp), j, i, p)
    BY <1>1, <1>2, <1>9, TakenLists DEF i0, p0
  <2>2. CASE i0 = i /\ p0 = p
    <3>1. ComesToHold(Append(fromResp, m), i, stream[p].cache, content[p])
      BY <1>2, <1>4, <1>5, <1>8, <2>2, HoldsListed
    <3>2. subs'[p] = i
      BY <1>1, <1>2, <2>2
    <3> QED
      BY <1>1, <3>1, <3>2 DEF Feeds
  <2>3. CASE \E j \in Nat : Lists(Tail(toResp), j, i, p)
    BY <1>1, <2>3 DEF Feeds
  <2> QED
    BY <2>1, <2>2, <2>3
<1>10. CASE subs[p] = i /\ ComesToHold(fromResp, i, stream[p].cache, content[p])
  <2>1. open[i] = p
    BY <1>2, <1>8, <1>10 DEF InStep, SubsOK
  <2>2. p # p0
    <3> SUFFICES ASSUME p = p0 PROVE FALSE
      OBVIOUS
    <3>1. PICK j \in Nat : Closes(toResp, j, i) /\ j < 1
      BY <1>2, <1>3, <1>6, <1>8, <2>1 DEF InStep, OpensOK
    <3> QED
      BY <3>1 DEF Closes
  <2>3. i # i0
    BY <1>7, <1>8, <2>1
  <2>4. ComesToHold(Append(fromResp, m), i, stream[p].cache, content[p])
    BY <1>2, <1>4, <1>5, <1>8, <1>10, <2>3, HoldsOther
  <2>5. subs'[p] = i
    BY <1>1, <1>2, <1>10, <2>2
  <2> QED
    BY <1>1, <2>4, <2>5 DEF Feeds
<1> QED
  BY <1>8, <1>9, <1>10 DEF Feeds

\* A close is not of a list that the broker has.
LEMMA RespCloseRemote ==
  ASSUME ShowInv, RespClose
  PROVE  RemoteInv'
<1> DEFINE i0 == Head(toResp).rid
<1>1. /\ link /\ toResp # <<>> /\ Head(toResp).kind = "close" /\ toResp' = Tail(toResp)
      /\ subs' = IF open[i0] = None THEN subs ELSE [subs EXCEPT ![open[i0]] = 0]
      /\ UNCHANGED <<link, stream, fromResp, content>>
  BY DEF RespClose, broker
<1>2. /\ InStep(toResp, open, subs, respTab, nodeRid) /\ RestOK
      /\ toResp \in Seq(ToResp) /\ subs \in [Remote -> 0..MaxRid]
  BY ShowInvAt, StepInvAt
<1>3. i0 \in PRids
  BY <1>1, <1>2, TakenByResponder
<1>4. Closes(toResp, 1, i0)
  <2>1. toResp[1] = Head(toResp) /\ 1 \in 1..Len(toResp)
    BY <1>1, <1>2
  <2> QED
    BY <1>1, <2>1 DEF Closes
<1> HIDE DEF i0
<1>5. respTab[i0] = None
  BY <1>2, <1>3, <1>4 DEF InStep, ClosesOK
<1> SUFFICES ASSUME NEW p \in Remote, stream[p] # None PROVE Feeds(p)'
  BY <1>1 DEF RemoteInv
<1> DEFINE i == stream[p].rid
<1>6. Feeds(p) /\ i \in PRids /\ i # 0 /\ p # None /\ respTab[i] = p
  BY <1>1, RemoteAt
<1>7. ASSUME NEW k \in Nat, Lists(toResp, k, i, p) PROVE Feeds(p)'
  <2>1. \E j \in Nat : Lists(Tail(toResp), j, i, p)
    BY <1>1, <1>2, <1>7, TakenLists
  <2> QED
    BY <1>1, <2>1 DEF Feeds
<1>8. CASE subs[p] = i /\ ComesToHold(fromResp, i, stream[p].cache, content[p])
  <2>1. open[i0] # None => subs[open[i0]] = i0
    BY <1>2, <1>3 DEF InStep, OpensOK
  <2>2. open[i0] # p
    BY <1>5, <1>6, <1>8, <2>1
  <2>3. subs'[p] = subs[p]
    BY <1>1, <1>2, <2>2
  <2> QED
    BY <1>1, <1>8, <2>3 DEF Feeds
<1> QED
  BY <1>6, <1>7, <1>8 DEF Feeds

\* The responder reports a change under the rid of the path's list.
LEMMA RespChangeRemote ==
  ASSUME ShowInv, NEW p0 \in Remote, NEW n \in Names, RespChange(p0, n)
  PROVE  RemoteInv'
<1> DEFINE b == n \notin content[p0]
           m == Change(subs[p0], n, b)
<1>1. /\ link /\ content' = [content EXCEPT ![p0] = With(@, n, b)]
      /\ fromResp' = IF subs[p0] = 0 THEN fromResp ELSE Append(fromResp, m)
      /\ UNCHANGED <<link, stream, toResp, subs>>
  BY DEF RespChange, broker
<1>2. /\ SubsOK(open, subs) /\ content \in [Paths -> SUBSET Names] /\ fromResp \in Seq(FromResp)
      /\ p0 \in Paths /\ b \in BOOLEAN
  BY ShowInvAt, StepInvAt DEF RestOK, InStep, Paths
<1>3. subs[p0] # 0 => subs[p0] \in PRids /\ open[subs[p0]] = p0 /\ m \in FromResp /\ m.rid = subs[p0]
  <2>1. subs[p0] # 0 => subs[p0] \in PRids /\ open[subs[p0]] = p0
    BY <1>2 DEF SubsOK
  <2> QED
    BY <1>2, <2>1, MessageTypes DEF Change
<1> HIDE DEF m
<1> SUFFICES ASSUME NEW p \in Remote, stream[p] # None PROVE Feeds(p)'
  BY <1>1 DEF RemoteInv
<1> DEFINE i == stream[p].rid
<1>4. Feeds(p) /\ i \in PRids /\ i # 0
  BY <1>1, RemoteAt
<1>5. CASE \E k \in Nat : Lists(toResp, k, i, p)
  BY <1>1, <1>5 DEF Feeds
<1>6. CASE subs[p] = i /\ ComesToHold(fromResp, i, stream[p].cache, content[p])
  <2>1. CASE p = p0
    <3> HIDE DEF b
    <3>1. ComesToHold(Append(fromResp, Change(i, n, b)), i, stream[p].cache, With(content[p], n, b))
      BY <1>2, <1>4, <1>6, HoldsChange
    <3>2. fromResp' = Append(fromResp, Change(i, n, b)) /\ content'[p] = With(content[p], n, b)
      BY <1>1, <1>2, <1>4, <1>6, <2>1 DEF m
    <3> QED
      BY <1>1, <1>6, <3>1, <3>2 DEF Feeds
  <2>2. CASE p # p0
    <3>1. content'[p] = content[p]
      BY <1>1, <1>2, <2>2 DEF Paths
    <3>2. open[i] = p
      BY <1>2, <1>4, <1>6 DEF SubsOK
    <3>3. ComesToHold(fromResp', i, stream[p].cache, content[p])
      <4>1. CASE subs[p0] = 0
        BY <1>1, <1>6, <4>1
      <4>2. CASE subs[p0] # 0
        <5>1. m.rid # i /\ m \in FromResp
          BY <1>3, <2>2, <3>2, <4>2
        <5> QED
          BY <1>1, <1>2, <1>4, <1>6, <4>2, <5>1, HoldsOther
      <4> QED
        BY <4>1, <4>2
    <3> QED
      BY <1>1, <1>6, <3>1, <3>3 DEF Feeds
  <2> QED
    BY <2>1, <2>2
<1> QED
  BY <1>4, <1>5, <1>6 DEF Feeds

\* Most steps are nothing to the streams of local nodes.
LEMMA LocalKept ==
  ASSUME ShowInv, \A p \in Local : content'[p] = content[p],
         \A p \in Local : stream'[p] # None => stream[p] # None /\ stream'[p].cache = stream[p].cache
  PROVE  LocalInv'
BY ShowInvAt DEF LocalInv

\* A stream that is made has all that the node has.
LEMMA JoinListLocal ==
  ASSUME ShowInv, NEW r \in Reqs, JoinList(r)
  PROVE  LocalInv'
<1> DEFINE i0 == Head(toBroker[r]).rid
           p0 == Head(toBroker[r]).path
<1>1. UNCHANGED content
  BY JoinListTo
<1>2. PICK s \in Stream : JoinsAs(r, i0, p0, s) /\ JoinsTo(r, i0, p0, s)
  BY JoinListTo
<1> HIDE DEF i0, p0
<1>3. /\ stream'[p0].cache = s.cache /\ (stream[p0] # None => s = stream[p0])
      /\ \A q \in Paths : q # p0 => stream'[q] = stream[q]
  BY <1>2 DEF JoinsTo
<1>4. LocalInv /\ None \notin Stream
  BY ShowInvAt, IInvAt
<1> SUFFICES ASSUME NEW p \in Local, stream'[p] # None
             PROVE  /\ stream'[p].cache.head /\ ~stream'[p].cache.disc
                    /\ \A n \in Names : n \in stream'[p].cache.names <=> n \in content[p]
  BY <1>1 DEF LocalInv
<1>5. p \in Paths /\ p \notin Remote
  BY ListConstants DEF Paths
<1>6. CASE p # p0 \/ stream[p] # None
  <2>1. stream[p] # None /\ stream'[p].cache = stream[p].cache
    BY <1>3, <1>5, <1>6
  <2> QED
    BY <1>4, <2>1 DEF LocalInv
<1>7. CASE p = p0 /\ stream[p] = None
  <2>1. s.cache = OwnCache(p)
    BY <1>2, <1>4, <1>5, <1>7 DEF JoinsAs
  <2>2. stream'[p].cache = OwnCache(p)
    BY <1>3, <1>7, <2>1
  <2> QED
    BY <2>2 DEF OwnCache
<1> QED
  BY <1>6, <1>7

\* A change of the node is made in the cache.
LEMMA LocalChangeLocal ==
  ASSUME ShowInv, NEW p0 \in Local, NEW n \in Names, LocalChange(p0, n)
  PROVE  LocalInv'
<1> DEFINE b == n \notin content[p0]
<1>1. Changed(p0, n, b) /\ content' = [content EXCEPT ![p0] = With(@, n, b)]
  BY DEF LocalChange
<1>2. /\ LocalInv /\ stream \in StreamTable /\ content \in [Paths -> SUBSET Names]
      /\ \A p \in Local : p \in Paths
  BY ShowInvAt, IInvAt DEF RestOK, Paths
<1>3. b \in BOOLEAN
  OBVIOUS
<1> HIDE DEF b
<1> SUFFICES ASSUME NEW p \in Local, stream'[p] # None
             PROVE  /\ stream'[p].cache.head /\ ~stream'[p].cache.disc
                    /\ \A x \in Names : x \in stream'[p].cache.names <=> x \in content'[p]
  BY DEF LocalInv
<1>4. CASE p # p0
  <2>1. stream'[p] = stream[p] /\ content'[p] = content[p]
    BY <1>1, <1>2, <1>4 DEF Changed, StreamTable
  <2> QED
    BY <1>2, <2>1 DEF LocalInv
<1>5. CASE p = p0
  <2>1. stream[p] # None
    BY <1>1, <1>5 DEF Changed
  <2>2. stream' = [stream EXCEPT ![p].cache.names = With(@, n, b)]
    BY <1>1, <1>5, <2>1 DEF Changed
  <2>3. p \in Paths /\ stream[p] \in Stream /\ stream[p].cache \in Cache
    BY <1>2, <2>1, ShowInvAt
  <2>4. stream'[p] = [stream[p] EXCEPT !.cache.names = With(@, n, b)]
    BY <1>2, <2>2, <2>3 DEF StreamTable
  <2>5. /\ stream'[p].cache.head = stream[p].cache.head /\ stream'[p].cache.disc = stream[p].cache.disc
        /\ stream'[p].cache.names = With(stream[p].cache.names, n, b)
    BY <2>3, <2>4 DEF Stream, Cache
  <2>6. content'[p] = With(content[p], n, b)
    BY <1>1, <1>2, <1>5
  <2>7. /\ stream[p].cache.head /\ ~stream[p].cache.disc
        /\ \A x \in Names : x \in stream[p].cache.names <=> x \in content[p]
    BY <1>2, <2>1 DEF LocalInv
  <2>8. \A x \in Names : x \in With(stream[p].cache.names, n, b) <=> x \in With(content[p], n, b)
    BY <1>3, <2>7 DEF With
  <2> QED
    BY <2>5, <2>6, <2>7, <2>8
<1> QED
  BY <1>4, <1>5

\* What happens to the streams of the responder's node
LEMMA RemoteStepLocal ==
  ASSUME ShowInv, RespConnect \/ RespDisconnect \/ FreeNode \/ ListResponse
  PROVE  LocalInv'
<1>1. stream \in StreamTable /\ content \in [Paths -> SUBSET Names] /\ IInv
  BY ShowInvAt, IInvAt DEF RestOK
<1> SUFFICES ASSUME NEW p \in Local PROVE content'[p] = content[p] /\ stream'[p] = stream[p]
  BY LocalKept
<1>2. p \in Paths /\ p \notin Remote
  BY ListConstants DEF Paths
<1>3. CASE RespConnect
  <2>1. content'[p] = content[p]
    BY <1>2, <1>3 DEF RespConnect
  <2>2. PICK a \in Orders(RemoteStreams) : AsksIn(a)
    BY <1>1, <1>3, RespConnectIs
  <2>3. p \notin Range(a)
    BY <1>2, RemoteOrders DEF RemoteStreams
  <2> QED
    BY <1>2, <2>1, <2>2, <2>3 DEF AsksIn
<1>4. CASE RespDisconnect
  BY <1>1, <1>2, <1>4, RespDisconnectIs
<1>5. CASE FreeNode
  BY <1>2, <1>5 DEF FreeNode, responder
<1>6. CASE ListResponse
  <2> DEFINE q == respTab[fromResp[1].rid]
  <2>1. /\ UNCHANGED content
        /\ q = None => UNCHANGED stream
        /\ q # None => q \in Remote /\ \E c \in Cache : stream' = [stream EXCEPT ![q].cache = c]
    BY <1>1, <1>6, ListResponseIs DEF Answers
  <2> HIDE DEF q
  <2>2. stream'[p] = stream[p]
    BY <1>1, <1>2, <2>1 DEF StreamTable
  <2> QED
    BY <2>1, <2>2
<1> QED
  BY <1>3, <1>4, <1>5, <1>6

LEMMA SetAttributeLocal ==
  ASSUME ShowInv, NEW p0 \in Remote, NEW b \in BOOLEAN, SetAttribute(p0, b)
  PROVE  LocalInv'
<1>1. Changed(p0, Attr, b) /\ UNCHANGED content
  BY DEF SetAttribute, responder
<1>2. stream \in StreamTable
  BY ShowInvAt, IInvAt
<1>3. \A p \in Local : p # p0 /\ p \in Paths
  BY ListConstants DEF Paths
<1>4. \A p \in Local : stream'[p] = stream[p]
  BY <1>1, <1>2, <1>3 DEF Changed, StreamTable
<1> QED
  BY <1>1, <1>4, LocalKept

LEMMA LeavesLocal ==
  ASSUME ShowInv, Leaves, UNCHANGED content
  PROVE  LocalInv'
<1>1. \A p \in Local : stream'[p] # None => stream[p] # None /\ stream'[p].cache = stream[p].cache
  BY DEF Leaves, Paths
<1> QED
  BY <1>1, LocalKept

-----------------------------------------------------------------------------
\* Steps that only a requester has a part in
LEMMA RequesterShowInv ==
  ASSUME ShowInv, StepInv', NEW r \in Reqs,
         \/ \E i \in Rids : ClientClose(r, i) \/ \E p \in Paths : ClientList(r, i, p)
         \/ RefuseList(r) \/ Receive(r)
  PROVE  ShowInv'
<1>1. UNCHANGED <<link, stream, subs, fromResp, toResp, content>>
  BY DEF ClientClose, ClientList, RefuseList, Receive, broker, responder
<1>2. RemoteInv' /\ LocalInv'
  BY <1>1, RemoteKept, LocalKept
<1>3. ASSUME NEW i \in Rids, ClientClose(r, i) PROVE ViewsInv' /\ AsksInv'
  BY <1>3, ClientCloseShows, ClientCloseAsks
<1>4. ASSUME NEW i \in Rids, NEW p \in Paths, ClientList(r, i, p) PROVE ViewsInv' /\ AsksInv'
  BY <1>4, ClientListShows, ClientListAsks
<1>5. CASE RefuseList(r)
  <2>1. Request(r, "list") /\ UNCHANGED view
    BY <1>5 DEF RefuseList
  <2> QED
    BY <1>2, <1>5, <2>1, RefuseListShows, RequestAsks DEF ShowInv
<1>6. CASE Receive(r)
  BY <1>2, <1>6, ReceiveShows, ReceiveAsks DEF ShowInv
<1> QED
  BY <1>2, <1>3, <1>4, <1>5, <1>6 DEF ShowInv

\* Steps that change the streams a requester is in
LEMMA StreamShowInv ==
  ASSUME ShowInv, StepInv', NEW r \in Reqs, JoinList(r) \/ CloseList(r) \/ Disconnect(r)
  PROVE  ShowInv'
<1>1. CASE JoinList(r)
  <2>1. Request(r, "list") /\ UNCHANGED view
    BY <1>1, JoinListTo
  <2> QED
    BY <1>1, <2>1, JoinListShows, RequestAsks, JoinListRemote, JoinListLocal DEF ShowInv
<1>2. CASE CloseList(r)
  <2>1. Request(r, "close") /\ Leaves /\ UNCHANGED <<view, link, subs, fromResp, content>>
    BY <1>2, CloseListLeaves DEF CloseList, responder
  <2> QED
    BY <1>2, <2>1, CloseListShows, RequestAsks, LeavesRemote, LeavesLocal DEF ShowInv
<1>3. CASE Disconnect(r)
  <2>1. Leaves /\ UNCHANGED <<link, subs, fromResp, content>>
    BY <1>3, DisconnectLeaves DEF Disconnect, responder
  <2> QED
    BY <1>3, <2>1, DisconnectShows, DisconnectAsks, LeavesRemote, LeavesLocal DEF ShowInv
<1> QED
  BY <1>1, <1>2, <1>3

\* Steps of the broker and the responder
LEMMA BrokerShowInv ==
  ASSUME ShowInv, StepInv', ListResponse \/ RespConnect \/ RespDisconnect \/ FreeNode
  PROVE  ShowInv'
<1>1. UNCHANGED <<toBroker, view>>
  BY DEF ListResponse, RespConnect, RespDisconnect, FreeNode
<1>2. AsksInv'
  BY <1>1, ShowInvAt DEF AsksInv
<1>3. LocalInv'
  BY RemoteStepLocal
<1>4. ViewsInv'
  BY ListResponseShows, RespConnectShows, RespDisconnectShows, FreeNodeShows
<1>5. RemoteInv'
  BY ListResponseRemote, RespConnectRemote, RespDisconnectRemote, FreeNodeRemote
<1> QED
  BY <1>2, <1>3, <1>4, <1>5 DEF ShowInv

LEMMA ChangeShowInv ==
  ASSUME ShowInv, StepInv',
         \/ \E p \in Remote, b \in BOOLEAN : SetAttribute(p, b)
         \/ \E p \in Local, n \in Names : LocalChange(p, n)
  PROVE  ShowInv'
<1>1. UNCHANGED <<toBroker, view>>
  BY DEF SetAttribute, LocalChange
<1>2. AsksInv'
  BY <1>1, ShowInvAt DEF AsksInv
<1>3. ASSUME NEW p \in Remote, NEW b \in BOOLEAN, SetAttribute(p, b) PROVE ViewsInv' /\ RemoteInv' /\ LocalInv'
  BY <1>3, SetAttributeShows, SetAttributeRemote, SetAttributeLocal
<1>4. ASSUME NEW p \in Local, NEW n \in Names, LocalChange(p, n) PROVE ViewsInv' /\ RemoteInv' /\ LocalInv'
  BY <1>4, LocalChangeShows, LocalChangeRemote, LocalChangeLocal
<1> QED
  BY <1>2, <1>3, <1>4 DEF ShowInv

LEMMA ResponderShowInv ==
  ASSUME ShowInv, StepInv',
         RespList \/ RespClose \/ \E p \in Remote, n \in Names : RespChange(p, n)
  PROVE  ShowInv'
<1>1. UNCHANGED <<stream, reqTab, toBroker, toReq, view, lost>>
  BY DEF RespList, RespClose, RespChange, broker
<1>2. AsksInv'
  BY <1>1, ShowInvAt DEF AsksInv
<1>3. \A p \in Local : content'[p] = content[p]
  <2>1. CASE RespList \/ RespClose
    BY <2>1 DEF RespList, RespClose
  <2>2. ASSUME NEW p0 \in Remote, NEW n \in Names, RespChange(p0, n) PROVE \A p \in Local : content'[p] = content[p]
    <3>1. content \in [Paths -> SUBSET Names]
      BY ShowInvAt DEF RestOK
    <3>2. \A p \in Local : p # p0 /\ p \in Paths
      BY ListConstants DEF Paths
    <3> QED
      BY <2>2, <3>1, <3>2 DEF RespChange
  <2> QED
    BY <2>1, <2>2
<1>4. LocalInv'
  BY <1>1, <1>3, LocalKept
<1>5. ViewsInv'
  BY <1>1, ResponderShows
<1>6. RemoteInv'
  BY RespListRemote, RespCloseRemote, RespChangeRemote
<1> QED
  BY <1>2, <1>4, <1>5, <1>6 DEF ShowInv

\* At first nothing is listed.
LEMMA InitShowInv ==
  Init => ShowInv
<1> SUFFICES ASSUME Init PROVE ShowInv
  OBVIOUS
<1>1. /\ \A p \in Paths : stream[p] = None
      /\ \A r \in Reqs : toBroker[r] = <<>> /\ \A i \in Rids : view[r][i] = Unused
  BY DEF Init
<1>2. RemoteInv /\ LocalInv
  BY <1>1 DEF RemoteInv, LocalInv, Paths
<1>3. ViewsInv
  BY <1>1 DEF ViewsInv, Unused, Seen
<1>4. AsksInv
  BY <1>1, AsksNone DEF AsksInv
<1> QED
  BY <1>2, <1>3, <1>4, InitStepInv DEF ShowInv

\* Every step keeps what the lists show.
LEMMA NextShowInv ==
  ShowInv /\ [Next]_vars => ShowInv'
<1> SUFFICES ASSUME ShowInv, [Next]_vars PROVE ShowInv'
  OBVIOUS
<1>1. StepInv'
  BY NextStepInv DEF ShowInv
<1>2. CASE UNCHANGED vars
  <2>1. UNCHANGED <<link, stream, reqTab, toBroker, toReq, toResp, fromResp, content, subs, view, lost>>
    BY <1>2 DEF vars, broker, responder
  <2>2. AsksInv'
    BY <2>1, ShowInvAt DEF AsksInv
  <2> QED
    BY <1>1, <2>1, <2>2, ResponderShows, RemoteKept, LocalKept DEF ShowInv
<1>3. CASE Next
  <2>1. ASSUME NEW r \in Reqs,
               \/ Disconnect(r)
               \/ \E i \in Rids : ClientClose(r, i) \/ \E p \in Paths : ClientList(r, i, p)
               \/ RefuseList(r) \/ JoinList(r) \/ CloseList(r) \/ Receive(r)
        PROVE  ShowInv'
    BY <1>1, <2>1, RequesterShowInv, StreamShowInv
  <2>2. CASE ListResponse \/ RespConnect \/ RespDisconnect \/ FreeNode
    BY <1>1, <2>2, BrokerShowInv
  <2>3. CASE \/ \E p \in Remote, b \in BOOLEAN : SetAttribute(p, b)
             \/ \E p \in Local, n \in Names : LocalChange(p, n)
    BY <1>1, <2>3, ChangeShowInv
  <2>4. CASE RespList \/ RespClose \/ \E p \in Remote, n \in Names : RespChange(p, n)
    BY <1>1, <2>4, ResponderShowInv
  <2> QED
    BY <1>3, <2>1, <2>2, <2>3, <2>4 DEF Next
<1> QED
  BY <1>2, <1>3

\* A list of which nothing is under way shows the cache of its stream.
LEMMA QuietShows ==
  ASSUME ShowInv, NEW r \in Reqs, NEW i \in Rids, view[r][i].state = "open", <<r, i>> \notin lost,
         toBroker[r] = <<>>, toReq[r] = <<>>
  PROVE  /\ view[r][i].path \in Paths /\ stream[view[r][i].path] # None
         /\ LET v == view[r][i]
                c == stream[view[r][i].path].cache IN
            /\ c.head \/ c.disc => v.disc = c.disc
            /\ c.head => \A n \in Items : n \in v.names <=> n \in c.names
<1>1. Shows(r, i) /\ StepInv /\ Joined(stream, reqTab) /\ reqTab[r][i] \in Paths \cup {None}
  BY ShowInvAt, IInvAt DEF ViewsInv
<1>2. /\ \A k \in Nat, p \in Paths \cup {view[r][i].path} : ~Lists(toBroker[r], k, i, p)
      /\ \A k \in Nat : ~Ends(toReq[r], k, i) /\ ~Renews(toReq[r], k, i) /\ \A n \in Items : ~Mentions(toReq[r], k, i, n)
  BY DEF Lists, Ends, Renews, Mentions
<1>3. /\ reqTab[r][i] # None /\ reqTab[r][i] = view[r][i].path
      /\ Follows(toReq[r], i, view[r][i], stream[reqTab[r][i]].cache)
  BY <1>1, <1>2 DEF Shows
<1>4. reqTab[r][i] \in Paths /\ stream[reqTab[r][i]] # None
  BY <1>1, <1>3 DEF Joined
<1> DEFINE v == view[r][i]
           c == stream[view[r][i].path].cache
<1>5. Follows(toReq[r], i, v, c)
  BY <1>3
<1>6. c.head \/ c.disc => v.disc = c.disc
  <2>1. c.head \/ c.disc => ComesToDisc(toReq[r], i, v, c.disc)
    BY <1>5 DEF Follows
  <2> QED
    BY <1>2, <2>1 DEF ComesToDisc
<1>7. c.head => \A n \in Items : n \in v.names <=> n \in c.names
  <2>1. c.head => \A n \in Items : ComesToName(toReq[r], i, v, n, n \in c.names)
    BY <1>5 DEF Follows
  <2> QED
    BY <1>2, <2>1 DEF ComesToName
<1> QED
  BY <1>3, <1>4, <1>6, <1>7

\* When nothing is under way, every list that a requester relies on shows what
\* its node has, or that its responder is not there: the messages of a
\* requester come to the cache of its stream, and the reports of the responder
\* bring the cache to what the node has (broker_list_dslink_response and
\* broker_stream_list_disconnect in msg_list_remote.c, send_list_updates,
\* update_list_attribute and update_list_child in msg_list.c, and the SDK's
\* list_response.c).
THEOREM QuietIsCurrentAlways ==
  Spec => []QuietIsCurrent
<1>1. ShowInv => QuietIsCurrent
  <2> SUFFICES ASSUME ShowInv, Quiet, NEW e \in Relied \ lost
               PROVE  LET v == view[e[1]][e[2]] IN
                      IF v.path \in Remote /\ ~link THEN v.disc
                      ELSE ~v.disc /\ v.names \ {Attr} = content[v.path]
    BY DEF QuietIsCurrent
  <2>1. PICK r \in Reqs, i \in Rids : e = <<r, i>>
    BY DEF Relied
  <2>2. view[r][i].state = "open" /\ <<r, i>> \notin lost
    BY <2>1 DEF Relied
  <2> DEFINE v == view[r][i]
             p == v.path
             c == stream[p].cache
  <2>3. toBroker[r] = <<>> /\ toReq[r] = <<>> /\ toResp = <<>> /\ fromResp = <<>>
    BY DEF Quiet
  <2>4. p \in Paths /\ stream[p] # None
    BY <2>2, <2>3, QuietShows
  <2>5. c.head \/ c.disc => v.disc = c.disc
    BY <2>2, <2>3, QuietShows
  <2>6. c.head => \A n \in Items : n \in v.names <=> n \in c.names
    BY <2>2, <2>3, QuietShows
  <2>7. v \in View /\ content[p] \subseteq Names /\ c \in Cache /\ link \in BOOLEAN
    BY <2>4, ShowInvAt DEF RestOK
  <2> HIDE DEF v, p, c
  <2>8. ASSUME c.head, ~c.disc, \A n \in Names : n \in c.names <=> n \in content[p]
        PROVE  ~v.disc /\ v.names \ {Attr} = content[p]
    <3>1. v.disc = c.disc /\ \A n \in Items : n \in v.names <=> n \in c.names
      BY <2>5, <2>6, <2>8
    <3>2. v.disc = FALSE
      BY <2>7, <2>8, <3>1 DEF Cache
    <3>3. v.names \subseteq Items
      BY <2>7 DEF View
    <3> QED
      BY <2>7, <2>8, <3>1, <3>2, <3>3, ListConstants DEF Items
  <2>9. CASE p \in Remote /\ ~link
    <3>1. c.disc
      BY <2>4, <2>9, RemoteAt DEF c
    <3>2. v.disc
      BY <2>5, <3>1
    <3> QED
      BY <2>1, <2>9, <3>2 DEF v, p
  <2>10. CASE p \in Remote /\ link
    <3>1. Feeds(p)
      BY <2>4, <2>10, RemoteAt
    <3>2. \A k \in Nat : ~Lists(toResp, k, stream[p].rid, p)
      BY <2>3 DEF Lists
    <3>3. ComesToHold(<<>>, stream[p].rid, c, content[p])
      BY <2>3, <3>1, <3>2 DEF Feeds, c
    <3>4. c.head /\ ~c.disc /\ \A n \in Names : n \in c.names <=> n \in content[p]
      BY <3>3 DEF ComesToHold, Reports
    <3> QED
      BY <2>1, <2>8, <2>10, <3>4 DEF v, p
  <2>11. CASE p \in Local
    <3>1. c.head /\ ~c.disc /\ \A n \in Names : n \in c.names <=> n \in content[p]
      BY <2>4, <2>11, ShowInvAt DEF LocalInv, c
    <3>2. p \notin Remote
      BY <2>11, ListConstants
    <3> QED
      BY <2>1, <2>8, <3>1, <3>2 DEF v, p
  <2> QED
    BY <2>4, <2>7, <2>9, <2>10, <2>11 DEF Paths
<1> QED
  BY InitShowInv, NextShowInv, <1>1, PTL DEF Spec

=============================================================================
