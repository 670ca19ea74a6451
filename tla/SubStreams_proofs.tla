------------------------- MODULE SubStreams_proofs -------------------------
(***************************************************************************)
(* Proofs about SubStreams, for any finite sets of requesters and paths.   *)
(*                                                                         *)
(* The invariant Inv ties the three places that have to agree: the         *)
(* broker's streams (Placed, Covered), the requests under way to the       *)
(* responder with its table of paths (InStep), and the values under way    *)
(* back (Ordered, Current). A function of the broker works on the record   *)
(* b of the broker's variables, so its lemma says what it makes of any b,  *)
(* and Held(b) is the broker's part of the invariant, kept by every call,  *)
(* also by each call of the loops that free or join one subscription after *)
(* the other.                                                              *)
(***************************************************************************)
EXTENDS SubStreams, FiniteSetTheorems, SequenceTheorems, WellFoundedInduction, TLAPS

-----------------------------------------------------------------------------
\* A set of numbers has a least one.
LEMMA Least ==
  ASSUME NEW S \in SUBSET Nat, S # {}
  PROVE  \E n \in S : \A m \in S : n <= m
<1> DEFINE R == OpToRel(<, Nat)
<1>1. IsWellFoundedOn(R, Nat)
  BY NatLessThanWellFounded
<1>2. \A x \in Nat, y \in Nat : <<y, x>> \in R <=> y < x
  BY DEF OpToRel
<1> HIDE DEF R
<1>3. PICK x \in S : \A y \in S : ~(<<y, x>> \in R)
  BY <1>1, WFMin
<1>4. \A y \in S : ~(y < x)
  BY <1>2, <1>3
<1> QED
  BY <1>4

\* What holds of 0 and of each number after one it holds of, up to n
LEMMA Upward ==
  ASSUME NEW n \in Nat, NEW S, 0 \in S, \A i \in 1..n : i - 1 \in S => i \in S
  PROVE  0..n \subseteq S
<1> SUFFICES ASSUME (0..n) \ S # {} PROVE FALSE
  OBVIOUS
<1>1. (0..n) \ S \in SUBSET Nat
  OBVIOUS
<1>2. PICK i \in (0..n) \ S : \A j \in (0..n) \ S : i <= j
  BY <1>1, Least
<1>3. i # 0 /\ i \in 1..n /\ i - 1 \in 0..n
  BY <1>2
<1>4. i - 1 \in S
  BY <1>2, <1>3
<1> QED
  BY <1>2, <1>3, <1>4

\* What step i makes of the result of the steps before it
Walks(f, n, a, G) == f = [i \in 0..n |-> IF i = 0 THEN a ELSE G[<<f[i - 1], i>>]]

\* If every step leads from one of J[i - 1] to one of J[i], there is such a walk.
Leads(n, a, J, G) == a \in J[0] /\ \A i \in 1..n : \A x \in J[i - 1] : G[<<x, i>>] \in J[i]
Passes(f, n, J) == \A i \in 0..n : f[i] \in J[i]

LEMMA Walk ==
  ASSUME NEW n \in Nat, NEW X, NEW a, NEW J \in [0..n -> SUBSET X], NEW G, Leads(n, a, J, G)
  PROVE  \E f : Walks(f, n, a, G) /\ Passes(f, n, J)
<1> USE DEF Leads
<1> DEFINE Fine(f, m) == /\ f[0] = a /\ \A i \in 1..m : f[i] = G[<<f[i - 1], i>>]
                         /\ \A i \in 0..m : f[i] \in J[i]
           S == {m \in 0..n : \E f \in [0..m -> X] : Fine(f, m)}
<1>1. 0 \in S
  <2> DEFINE f == [i \in 0..0 |-> a]
  <2>1. 0 \in 0..n /\ J[0] \subseteq X
    OBVIOUS
  <2>2. f \in [0..0 -> X] /\ Fine(f, 0)
    BY <2>1
  <2> HIDE DEF f
  <2> QED
    BY <2>1, <2>2
<1>2. ASSUME NEW m \in 1..n, m - 1 \in S PROVE m \in S
  <2>1. PICK f \in [0..m - 1 -> X] : Fine(f, m - 1)
    BY <1>2
  <2> DEFINE g == [i \in 0..m |-> IF i = m THEN G[<<f[m - 1], m>>] ELSE f[i]]
  <2>2. m - 1 \in 0..m - 1 /\ m \in 0..n /\ J[m] \subseteq X
    OBVIOUS
  <2>3. G[<<f[m - 1], m>>] \in J[m]
    BY <2>1, <2>2
  <2>4. g \in [0..m -> X]
    BY <2>2, <2>3
  <2>5. g[m] = G[<<f[m - 1], m>>] /\ \A i \in 0..m - 1 : g[i] = f[i]
    OBVIOUS
  <2> HIDE DEF g
  <2>6. Fine(g, m)
    <3>1. g[0] = a
      BY <2>1, <2>5
    <3>2. ASSUME NEW i \in 1..m PROVE g[i] = G[<<g[i - 1], i>>]
      <4>1. CASE i = m
        BY <2>2, <2>5, <4>1
      <4>2. CASE i # m
        <5>1. i \in 1..m - 1 /\ i \in 0..m - 1 /\ i - 1 \in 0..m - 1
          BY <4>2
        <5> QED
          BY <2>1, <2>5, <5>1
      <4> QED
        BY <4>1, <4>2
    <3>3. ASSUME NEW i \in 0..m PROVE g[i] \in J[i]
      <4>1. CASE i = m
        BY <2>3, <2>5, <4>1
      <4>2. CASE i # m
        <5>1. i \in 0..m - 1
          BY <4>2
        <5> QED
          BY <2>1, <2>5, <5>1
      <4> QED
        BY <4>1, <4>2
    <3> QED
      BY <3>1, <3>2, <3>3
  <2> HIDE DEF Fine
  <2> QED
    BY <2>2, <2>4, <2>6
<1> HIDE DEF S
<1>3. n \in S
  BY <1>1, <1>2, Upward
<1>4. PICK f \in [0..n -> X] : Fine(f, n)
  BY <1>3 DEF S
<1>5. ASSUME NEW i \in 0..n PROVE f[i] = IF i = 0 THEN a ELSE G[<<f[i - 1], i>>]
  <2>1. CASE i = 0
    BY <1>4, <2>1
  <2>2. CASE i # 0
    <3>1. i \in 1..n
      BY <2>2
    <3> QED
      BY <1>4, <2>2, <3>1
  <2> QED
    BY <2>1, <2>2
<1>6. f = [i \in 0..n |-> IF i = 0 THEN a ELSE G[<<f[i - 1], i>>]]
  BY <1>5
<1>7. Passes(f, n, J)
  BY <1>4 DEF Passes
<1> QED
  BY <1>6, <1>7 DEF Walks

LEMMA OrdersAll ==
  ASSUME NEW S, IsFiniteSet(S), NEW a \in SetToSeqs(S)
  PROVE  /\ a \in Seq(S) /\ Len(a) = Cardinality(S)
         /\ \A i, j \in 1..Len(a) : a[i] = a[j] => i = j
         /\ \A x \in S : \E i \in 1..Len(a) : a[i] = x
<1> DEFINE n == Cardinality(S)
<1>1. n \in Nat /\ a \in [1..n -> S] /\ \A i, j \in 1..n : a[i] = a[j] => i = j
  BY FS_CardinalityType DEF SetToSeqs
<1>2. a \in Injection(1..n, S)
  BY <1>1 DEF Injection, IsInjective
<1>3. IsFiniteSet(1..n) /\ Cardinality(1..n) = n
  BY <1>1, FS_Interval
<1>4. a \in Surjection(1..n, S)
  BY <1>2, <1>3, FS_Injection
<1> QED
  BY <1>1, <1>4 DEF Surjection

\* The highest of some qos
LEMMA TopIs ==
  ASSUME NEW S \in SUBSET (0..2), S # {}
  PROVE  Max(S) \in S /\ \A x \in S : x <= Max(S)
<1>1. \E x \in S : \A y \in S : x >= y
  <2>1. CASE 2 \in S
    BY <2>1
  <2>2. CASE 2 \notin S /\ 1 \in S
    BY <2>2
  <2>3. CASE 2 \notin S /\ 1 \notin S
    <3>1. \A x \in S : x = 0
      BY <2>3
    <3>2. PICK z \in S : TRUE
      OBVIOUS
    <3>3. z = 0
      BY <3>1
    <3> WITNESS z \in S
    <3> QED
      BY <3>1, <3>3
  <2> QED
    BY <2>1, <2>2, <2>3
<1>2. \A x \in S, y \in S : x >= y => y <= x
  OBVIOUS
<1> QED
  BY <1>1, <1>2 DEF Max

\* What is left of a list: the entries that are not in S, each once if it was.
Distinct(s) == \A i, j \in 1..Len(s) : s[i] = s[j] => i = j

LEMMA WithoutIs ==
  ASSUME NEW X, NEW s \in Seq(X), NEW S
  PROVE  /\ Without(s, S) \in Seq(X)
         /\ \A x : (\E i \in 1..Len(Without(s, S)) : Without(s, S)[i] = x)
                   <=> x \notin S /\ \E i \in 1..Len(s) : s[i] = x
         /\ Distinct(s) => Distinct(Without(s, S))
<1> DEFINE n == Len(s)
           G == [e \in Seq(X) \X (1..n) |-> IF s[e[2]] \in S THEN e[1] ELSE Append(e[1], s[e[2]])]
           Kept(t, m) == /\ t \in Seq(X)
                         /\ \A x : (\E i \in 1..Len(t) : t[i] = x) <=> x \notin S /\ \E i \in 1..m : s[i] = x
                         /\ Distinct(s) => Distinct(t)
           J == [m \in 0..n |-> {t \in Seq(X) : Kept(t, m)}]
           W == CHOOSE f : f = [i \in 0..n |-> IF i = 0 THEN <<>>
                                 ELSE IF s[i] \in S THEN f[i - 1] ELSE Append(f[i - 1], s[i])]
<1>1. n \in Nat /\ \A i \in 1..n : s[i] \in X
  OBVIOUS
<1>2. <<>> \in Seq(X) /\ Kept(<<>>, 0)
  BY DEF Distinct
<1>3. ASSUME NEW m \in 1..n, NEW t, Kept(t, m - 1), s[m] \in S PROVE Kept(t, m)
  <2>1. \A x : x \notin S => ((\E i \in 1..m : s[i] = x) <=> \E i \in 1..m - 1 : s[i] = x)
    <3> SUFFICES ASSUME NEW x, x \notin S, NEW i \in 1..m, s[i] = x PROVE i \in 1..m - 1
      OBVIOUS
    <3>1. i # m
      BY <1>3
    <3> QED
      BY <3>1
  <2> QED
    BY <1>3, <2>1
<1>4. ASSUME NEW m \in 1..n, NEW t, Kept(t, m - 1), s[m] \notin S PROVE Kept(Append(t, s[m]), m)
  <2> DEFINE u == Append(t, s[m])
  <2>1. /\ t \in Seq(X) /\ u \in Seq(X) /\ Len(u) = Len(t) + 1 /\ Len(t) \in Nat /\ u[Len(t) + 1] = s[m]
        /\ \A i \in 1..Len(t) : u[i] = t[i]
    BY <1>1, <1>4
  <2> HIDE DEF u
  <2>2. \A x : (\E i \in 1..Len(u) : u[i] = x) <=> x = s[m] \/ \E i \in 1..Len(t) : t[i] = x
    <3> TAKE x
    <3>1. ASSUME NEW i \in 1..Len(u), u[i] = x PROVE x = s[m] \/ \E k \in 1..Len(t) : t[k] = x
      <4>1. i = Len(t) + 1 \/ i \in 1..Len(t)
        BY <2>1
      <4> QED
        BY <2>1, <3>1, <4>1
    <3>2. ASSUME x = s[m] PROVE \E i \in 1..Len(u) : u[i] = x
      <4>1. Len(t) + 1 \in 1..Len(u)
        BY <2>1
      <4> QED
        BY <2>1, <3>2, <4>1
    <3>3. ASSUME NEW i \in 1..Len(t), t[i] = x PROVE \E k \in 1..Len(u) : u[k] = x
      <4>1. i \in 1..Len(u) /\ u[i] = x
        BY <2>1, <3>3
      <4> QED
        BY <4>1
    <3> QED
      BY <3>1, <3>2, <3>3
  <2>3. \A x : (\E i \in 1..m : s[i] = x) <=> x = s[m] \/ \E i \in 1..m - 1 : s[i] = x
    <3> TAKE x
    <3>1. \A i \in 1..m : i = m \/ i \in 1..m - 1
      OBVIOUS
    <3>2. m \in 1..m /\ \A i \in 1..m - 1 : i \in 1..m
      OBVIOUS
    <3> QED
      BY <3>1, <3>2
  <2>4. \A x : (\E i \in 1..Len(u) : u[i] = x) <=> x \notin S /\ \E i \in 1..m : s[i] = x
    BY <1>4, <2>2, <2>3
  <2>5. ASSUME Distinct(s) PROVE Distinct(u)
    <3>1. Distinct(t)
      BY <1>4, <2>5
    <3>2. ASSUME NEW i \in 1..Len(t) PROVE t[i] # s[m]
      <4>1. PICK k \in 1..m - 1 : s[k] = t[i]
        BY <1>4, <3>2
      <4>2. k \in 1..n /\ k # m
        BY <1>1
      <4> QED
        BY <2>5, <4>1, <4>2 DEF Distinct
    <3> SUFFICES ASSUME NEW i \in 1..Len(u), NEW j \in 1..Len(u), u[i] = u[j] PROVE i = j
      BY DEF Distinct
    <3>3. (i = Len(t) + 1 \/ i \in 1..Len(t)) /\ (j = Len(t) + 1 \/ j \in 1..Len(t))
      BY <2>1
    <3>4. CASE i \in 1..Len(t) /\ j \in 1..Len(t)
      BY <2>1, <3>1, <3>4 DEF Distinct
    <3>5. CASE i = Len(t) + 1 /\ j \in 1..Len(t)
      BY <2>1, <3>2, <3>5
    <3>6. CASE i \in 1..Len(t) /\ j = Len(t) + 1
      BY <2>1, <3>2, <3>6
    <3> QED
      BY <3>3, <3>4, <3>5, <3>6
  <2> QED
    BY <2>1, <2>4, <2>5 DEF u
<1> HIDE DEF Kept
<1>5. J \in [0..n -> SUBSET Seq(X)] /\ <<>> \in J[0]
  BY <1>1, <1>2
<1>6. ASSUME NEW m \in 1..n, NEW t \in J[m - 1] PROVE G[<<t, m>>] \in J[m]
  <2>1. m - 1 \in 0..n /\ m \in 0..n
    OBVIOUS
  <2>2. t \in Seq(X) /\ Kept(t, m - 1)
    BY <2>1
  <2>3. G[<<t, m>>] = IF s[m] \in S THEN t ELSE Append(t, s[m])
    BY <2>2
  <2>4. Append(t, s[m]) \in Seq(X)
    BY <1>1, <2>2
  <2>5. G[<<t, m>>] \in Seq(X) /\ Kept(G[<<t, m>>], m)
    BY <1>3, <1>4, <2>2, <2>3, <2>4
  <2> HIDE DEF G
  <2> QED
    BY <2>1, <2>5
<1>7. \A t \in Seq(X), i \in 1..n : G[<<t, i>>] = IF s[i] \in S THEN t ELSE Append(t, s[i])
  OBVIOUS
<1>8. \A i \in 0..n : \A t \in J[i] : t \in Seq(X) /\ Kept(t, i)
  OBVIOUS
<1> HIDE DEF G, J, n
<1>9. PICK f : /\ f = [i \in 0..n |-> IF i = 0 THEN <<>> ELSE G[<<f[i - 1], i>>]]
               /\ \A i \in 0..n : f[i] \in J[i]
  <2> DEFINE SX == Seq(X)
             a  == <<>>
  <2>1. n \in Nat /\ J \in [0..n -> SUBSET SX] /\ Leads(n, a, J, G)
    BY <1>1, <1>5, <1>6 DEF Leads
  <2> HIDE DEF SX, a
  <2>2. \E f : Walks(f, n, a, G) /\ Passes(f, n, J)
    BY ONLY <2>1, Walk
  <2> QED
    BY <2>2 DEF a, Walks, Passes
<1>10. \A i \in 1..n : i - 1 \in 0..n /\ f[i - 1] \in Seq(X)
  <2>1. \A i \in 1..n : i - 1 \in 0..n
    BY <1>1
  <2> QED
    BY <1>8, <1>9, <2>1
<1>11. f = [i \in 0..n |-> IF i = 0 THEN <<>> ELSE IF s[i] \in S THEN f[i - 1] ELSE Append(f[i - 1], s[i])]
  <2>1. ASSUME NEW i \in 0..n
        PROVE  (IF i = 0 THEN <<>> ELSE G[<<f[i - 1], i>>])
                 = IF i = 0 THEN <<>> ELSE IF s[i] \in S THEN f[i - 1] ELSE Append(f[i - 1], s[i])
    <3>1. i = 0 \/ i \in 1..n
      BY <1>1
    <3> QED
      BY <1>7, <1>10, <3>1
  <2> QED
    BY <1>9, <2>1
<1>12. W = [i \in 0..n |-> IF i = 0 THEN <<>> ELSE IF s[i] \in S THEN W[i - 1] ELSE Append(W[i - 1], s[i])]
  BY <1>11
<1>13. Without(s, S) = W[n]
  BY DEF Without, n
<1> HIDE DEF W
<1>20. ASSUME NEW i \in 0..n
       PROVE  W[i] = IF i = 0 THEN <<>> ELSE IF s[i] \in S THEN W[i - 1] ELSE Append(W[i - 1], s[i])
  BY <1>12
<1>14. 0..n \subseteq {i \in 0..n : W[i] \in J[i]}
  <2> DEFINE Z == {i \in 0..n : W[i] \in J[i]}
  <2>1. 0 \in 0..n /\ W[0] = <<>>
    BY <1>1, <1>20
  <2>2. ASSUME NEW i \in 1..n, i - 1 \in Z PROVE i \in Z
    <3>1. i \in 0..n /\ W[i - 1] \in Seq(X) /\ W[i - 1] \in J[i - 1]
      BY <1>1, <1>8, <2>2
    <3>2. i # 0 /\ W[i] = IF s[i] \in S THEN W[i - 1] ELSE Append(W[i - 1], s[i])
      BY <1>1, <1>20, <3>1
    <3>3. W[i] = G[<<W[i - 1], i>>]
      BY <1>7, <3>1, <3>2
    <3> QED
      BY <1>6, <3>1, <3>3
  <2>3. 0 \in Z
    BY <1>5, <2>1
  <2> HIDE DEF Z
  <2>4. 0..n \subseteq Z
    BY <1>1, <2>2, <2>3, Upward
  <2> QED
    BY <2>4 DEF Z
<1>15. W[n] \in Seq(X) /\ Kept(W[n], n)
  BY <1>1, <1>8, <1>14
<1> QED
  BY <1>13, <1>15 DEF Kept, n

-----------------------------------------------------------------------------
(***************************************************************************)
(* What the responder uses and what is under way to it                     *)
(***************************************************************************)
Msg  == {Ask(p, s, q) : p \in Paths, s \in Nat, q \in 0..2} \cup {Drop(s) : s \in Nat}
Sids == [Paths -> Nat \cup {NoSid}]

\* A table tab of the responder uses s for p, or the i-th message of out asks for it.
Use(tab, out, p, s, i) ==
  IF i = 0 THEN tab[p] = s ELSE out[i].method = "subscribe" /\ out[i].path = p /\ out[i].sid = s
Dropped(out, s, i) == out[i].method = "unsubscribe" /\ out[i].sid = s

\* now gives the sid of each path that has a stream. A sid a path had before is
\* dropped after its last use; the present one is used and not dropped; and
\* between two sids of a path the first is dropped.
OldDropped(now, out, tab) ==
  \A p \in Paths, s \in Nat, i \in 0..Len(out) :
    Use(tab, out, p, s, i) /\ s # now[p] => \E j \in i + 1..Len(out) : Dropped(out, s, j)
NowUsed(now, out, tab) ==
  \A p \in Paths : now[p] # NoSid =>
    (\E i \in 0..Len(out) : Use(tab, out, p, now[p], i)) /\ \A j \in 1..Len(out) : ~Dropped(out, now[p], j)
DroppedBetween(out, tab) ==
  \A p \in Paths, s, t \in Nat, i, j \in 0..Len(out) :
    i < j /\ Use(tab, out, p, s, i) /\ Use(tab, out, p, t, j) /\ s # t => \E k \in i + 1..j - 1 : Dropped(out, s, k)
InStep(now, out, tab) == OldDropped(now, out, tab) /\ NowUsed(now, out, tab) /\ DroppedBetween(out, tab)

LEMMA MsgIs ==
  /\ \A p \in Paths, s \in Nat, q \in 0..2 : Ask(p, s, q) \in Msg
  /\ \A s \in Nat : Drop(s) \in Msg
  /\ \A m \in Msg : m.sid \in Nat /\ (m.method = "subscribe" \/ m.method = "unsubscribe")
  /\ \A m \in Msg : m.method = "subscribe" => m.path \in Paths
<1>1. \A p \in Paths, s \in Nat, q \in 0..2 : Ask(p, s, q) \in Msg
  BY DEF Msg
<1>2. \A s \in Nat : Drop(s) \in Msg
  BY DEF Msg
<1>3. ASSUME NEW m \in Msg
      PROVE  m.sid \in Nat /\ (m.method = "subscribe" \/ m.method = "unsubscribe") /\ (m.method = "subscribe" => m.path \in Paths)
  <2>1. CASE \E p \in Paths, s \in Nat, q \in 0..2 : m = Ask(p, s, q)
    BY <2>1 DEF Ask
  <2>2. CASE \E s \in Nat : m = Drop(s)
    BY <2>2 DEF Drop
  <2> QED
    BY <2>1, <2>2 DEF Msg
<1> QED
  BY <1>1, <1>2, <1>3

\* A message more
More(out, tab, m, o2) ==
  /\ o2 \in Seq(Msg) /\ Len(out) \in Nat /\ Len(o2) = Len(out) + 1 /\ o2[Len(out) + 1] = m
  /\ \A i \in 1..Len(out) : o2[i] = out[i]
  /\ \A p, s : \A i \in 0..Len(out) : Use(tab, o2, p, s, i) <=> Use(tab, out, p, s, i)
  /\ \A s : \A i \in 1..Len(out) : Dropped(o2, s, i) <=> Dropped(out, s, i)
  /\ \A p, s : Use(tab, o2, p, s, Len(o2)) <=> m.method = "subscribe" /\ m.path = p /\ m.sid = s
  /\ \A s : Dropped(o2, s, Len(o2)) <=> m.method = "unsubscribe" /\ m.sid = s

LEMMA SentIs ==
  ASSUME NEW out \in Seq(Msg), NEW tab, NEW m \in Msg
  PROVE  More(out, tab, m, Append(out, m))
<1> DEFINE o2 == Append(out, m)
<1>1. /\ o2 \in Seq(Msg) /\ Len(out) \in Nat /\ Len(o2) = Len(out) + 1 /\ o2[Len(out) + 1] = m
      /\ \A i \in 1..Len(out) : o2[i] = out[i]
  BY AppendProperties
<1>2. ASSUME NEW p, NEW s, NEW i \in 0..Len(out) PROVE Use(tab, o2, p, s, i) <=> Use(tab, out, p, s, i)
  <2>1. CASE i = 0
    BY <2>1 DEF Use
  <2>2. CASE i # 0
    <3>1. i \in 1..Len(out)
      BY <1>1, <2>2
    <3>2. o2[i] = out[i]
      BY <1>1, <3>1
    <3> QED
      BY <2>2, <3>2 DEF Use
  <2> QED
    BY <2>1, <2>2
<1>3. ASSUME NEW s, NEW i \in 1..Len(out) PROVE Dropped(o2, s, i) <=> Dropped(out, s, i)
  <2>1. o2[i] = out[i]
    BY <1>1
  <2> QED
    BY <2>1 DEF Dropped
<1> HIDE DEF o2
<1>4. Len(o2) # 0 /\ o2[Len(o2)] = m
  BY <1>1
<1>5. \A p, s : Use(tab, o2, p, s, Len(o2)) <=> m.method = "subscribe" /\ m.path = p /\ m.sid = s
  BY <1>4 DEF Use
<1>6. \A s : Dropped(o2, s, Len(o2)) <=> m.method = "unsubscribe" /\ m.sid = s
  BY <1>4 DEF Dropped
<1>7. More(out, tab, m, o2)
  BY <1>1, <1>2, <1>3, <1>5, <1>6 DEF More
<1> QED
  BY <1>7 DEF o2

LEMMA InStepAsk ==
  ASSUME NEW now \in Sids, NEW tab \in Sids, NEW out \in Seq(Msg), InStep(now, out, tab),
         NEW p \in Paths, NEW s \in Nat, NEW q \in 0..2,
         now[p] = s \/ (now[p] = NoSid /\ \A i \in 1..Len(out) : ~Dropped(out, s, i))
  PROVE  InStep([now EXCEPT ![p] = s], Append(out, Ask(p, s, q)), tab)
<1> DEFINE n2 == [now EXCEPT ![p] = s]
           m  == Ask(p, s, q)
           o2 == Append(out, m)
           n  == Len(out)
<1>1. n2 \in Sids /\ n2[p] = s /\ \A x \in Paths : x # p => n2[x] = now[x]
  BY DEF Sids
<1>2. m \in Msg /\ m.method = "subscribe" /\ m.path = p /\ m.sid = s
  BY MsgIs DEF Ask
<1> HIDE DEF m
<1>3. More(out, tab, m, o2)
  BY <1>2, SentIs
<1>4. /\ n \in Nat /\ Len(o2) = n + 1
      /\ \A x, t : \A i \in 0..n : Use(tab, o2, x, t, i) <=> Use(tab, out, x, t, i)
      /\ \A t : \A i \in 1..n : Dropped(o2, t, i) <=> Dropped(out, t, i)
      /\ \A x, t : Use(tab, o2, x, t, n + 1) <=> p = x /\ s = t
      /\ \A t : ~Dropped(o2, t, n + 1)
  BY <1>2, <1>3 DEF More
<1>5. \A i \in 0..n + 1 : i \in 0..n \/ i = n + 1
  BY <1>4
<1>6. \A t \in Nat, i \in 0..n : t # s /\ Use(tab, out, p, t, i) => \E j \in i + 1..n : Dropped(out, t, j)
  <2>1. \A t \in Nat : t # s => t # now[p]
    BY NoSidIsNone
  <2> QED
    BY <2>1 DEF InStep, OldDropped
<1> HIDE DEF n2, o2
<1>7. OldDropped(n2, o2, tab)
  <2> SUFFICES ASSUME NEW x \in Paths, NEW t \in Nat, NEW i \in 0..n + 1, Use(tab, o2, x, t, i), t # n2[x]
               PROVE  \E j \in i + 1..n + 1 : Dropped(o2, t, j)
    BY <1>4 DEF OldDropped
  <2>1. i \in 0..n
    BY <1>1, <1>4, <1>5
  <2>2. Use(tab, out, x, t, i)
    BY <1>4, <2>1
  <2>3. \E j \in i + 1..n : Dropped(out, t, j)
    BY <1>1, <1>6, <2>1, <2>2 DEF InStep, OldDropped
  <2> QED
    BY <1>4, <2>1, <2>3
<1>8. NowUsed(n2, o2, tab)
  <2> SUFFICES ASSUME NEW x \in Paths, n2[x] # NoSid
               PROVE  (\E i \in 0..n + 1 : Use(tab, o2, x, n2[x], i)) /\ \A j \in 1..n + 1 : ~Dropped(o2, n2[x], j)
    BY <1>4 DEF NowUsed
  <2>1. CASE x = p
    <3>1. \A j \in 1..n : ~Dropped(out, s, j)
      BY NoSidIsNone DEF InStep, NowUsed
    <3>2. \A j \in 1..n + 1 : j \in 1..n \/ j = n + 1
      BY <1>4
    <3>3. n + 1 \in 0..n + 1
      BY <1>4
    <3> QED
      BY <1>1, <1>4, <2>1, <3>1, <3>2, <3>3
  <2>2. CASE x # p
    <3>1. n2[x] = now[x]
      BY <1>1, <2>2
    <3>2. (\E i \in 0..n : Use(tab, out, x, n2[x], i)) /\ \A j \in 1..n : ~Dropped(out, n2[x], j)
      BY <3>1 DEF InStep, NowUsed
    <3>3. (\A j \in 1..n + 1 : j \in 1..n \/ j = n + 1) /\ \A i \in 0..n : i \in 0..n + 1
      BY <1>4
    <3> QED
      BY <1>4, <3>2, <3>3
  <2> QED
    BY <2>1, <2>2
<1>9. DroppedBetween(o2, tab)
  <2> SUFFICES ASSUME NEW x \in Paths, NEW t \in Nat, NEW u \in Nat, NEW i \in 0..n + 1, NEW j \in 0..n + 1, i < j,
                      Use(tab, o2, x, t, i), Use(tab, o2, x, u, j), t # u
               PROVE  \E k \in i + 1..j - 1 : Dropped(o2, t, k)
    BY <1>4 DEF DroppedBetween
  <2>1. i \in 0..n /\ Use(tab, out, x, t, i)
    BY <1>4
  <2>2. CASE j = n + 1
    <3>1. x = p /\ u = s
      BY <1>4, <2>2
    <3>2. PICK k \in i + 1..n : Dropped(out, t, k)
      BY <1>6, <2>1, <3>1
    <3>3. k \in i + 1..j - 1 /\ k \in 1..n
      BY <1>4, <2>1, <2>2
    <3> QED
      BY <1>4, <3>2, <3>3
  <2>3. CASE j \in 0..n
    <3>1. Use(tab, out, x, u, j)
      BY <1>4, <2>3
    <3>2. PICK k \in i + 1..j - 1 : Dropped(out, t, k)
      BY <2>1, <2>3, <3>1 DEF InStep, DroppedBetween
    <3>3. k \in 1..n
      BY <1>4, <2>1, <2>3
    <3> QED
      BY <1>4, <3>2, <3>3
  <2> QED
    BY <1>5, <2>2, <2>3
<1> QED
  BY <1>7, <1>8, <1>9 DEF InStep, n2, o2, m

LEMMA InStepDrop ==
  ASSUME NEW now \in Sids, NEW tab \in Sids, NEW out \in Seq(Msg), InStep(now, out, tab),
         NEW p \in Paths, now[p] # NoSid, \A x \in Paths : x # p => now[x] # now[p]
  PROVE  InStep([now EXCEPT ![p] = NoSid], Append(out, Drop(now[p])), tab)
<1> DEFINE n2 == [now EXCEPT ![p] = NoSid]
           m  == Drop(now[p])
           o2 == Append(out, m)
           n  == Len(out)
<1>1. n2 \in Sids /\ n2[p] = NoSid /\ \A x \in Paths : x # p => n2[x] = now[x]
  BY DEF Sids
<1>2. m \in Msg /\ m.method = "unsubscribe" /\ m.sid = now[p]
  <2>1. now[p] \in Nat
    BY DEF Sids
  <2> QED
    BY <2>1, MsgIs DEF Drop
<1> HIDE DEF m
<1>3. More(out, tab, m, o2)
  BY <1>2, SentIs
<1>4. /\ n \in Nat /\ Len(o2) = n + 1
      /\ \A x, t : \A i \in 0..n : Use(tab, o2, x, t, i) <=> Use(tab, out, x, t, i)
      /\ \A t : \A i \in 1..n : Dropped(o2, t, i) <=> Dropped(out, t, i)
      /\ \A x, t : ~Use(tab, o2, x, t, n + 1)
      /\ \A t : Dropped(o2, t, n + 1) <=> now[p] = t
  BY <1>2, <1>3 DEF More
<1>5. /\ \A i \in 0..n + 1 : i \in 0..n \/ i = n + 1
      /\ \A i \in 1..n + 1 : i \in 1..n \/ i = n + 1
      /\ \A i \in 0..n : i \in 0..n + 1 /\ n + 1 \in i + 1..n + 1
      /\ \A i \in 0..n : \A j \in i + 1..n : j \in i + 1..n + 1 /\ j \in 1..n
  BY <1>4
<1> HIDE DEF n2, o2
<1>6. OldDropped(n2, o2, tab)
  <2> SUFFICES ASSUME NEW x \in Paths, NEW t \in Nat, NEW i \in 0..n + 1, Use(tab, o2, x, t, i), t # n2[x]
               PROVE  \E j \in i + 1..n + 1 : Dropped(o2, t, j)
    BY <1>4 DEF OldDropped
  <2>1. i \in 0..n /\ Use(tab, out, x, t, i)
    BY <1>4, <1>5
  <2>2. CASE t = now[p]
    BY <1>4, <1>5, <2>1, <2>2
  <2>3. CASE t # now[p]
    <3>1. t # now[x]
      BY <1>1, <2>3
    <3>2. \E j \in i + 1..n : Dropped(out, t, j)
      BY <2>1, <3>1 DEF InStep, OldDropped
    <3> QED
      BY <1>4, <1>5, <2>1, <3>2
  <2> QED
    BY <2>2, <2>3
<1>7. NowUsed(n2, o2, tab)
  <2> SUFFICES ASSUME NEW x \in Paths, n2[x] # NoSid
               PROVE  (\E i \in 0..n + 1 : Use(tab, o2, x, n2[x], i)) /\ \A j \in 1..n + 1 : ~Dropped(o2, n2[x], j)
    BY <1>4 DEF NowUsed
  <2>1. x # p /\ n2[x] = now[x] /\ n2[x] # now[p]
    BY <1>1
  <2>2. (\E i \in 0..n : Use(tab, out, x, n2[x], i)) /\ \A j \in 1..n : ~Dropped(out, n2[x], j)
    BY <2>1 DEF InStep, NowUsed
  <2> QED
    BY <1>4, <1>5, <2>1, <2>2
<1>8. DroppedBetween(o2, tab)
  <2> SUFFICES ASSUME NEW x \in Paths, NEW t \in Nat, NEW u \in Nat, NEW i \in 0..n + 1, NEW j \in 0..n + 1, i < j,
                      Use(tab, o2, x, t, i), Use(tab, o2, x, u, j), t # u
               PROVE  \E k \in i + 1..j - 1 : Dropped(o2, t, k)
    BY <1>4 DEF DroppedBetween
  <2>1. i \in 0..n /\ j \in 0..n /\ Use(tab, out, x, t, i) /\ Use(tab, out, x, u, j)
    BY <1>4, <1>5
  <2>2. PICK k \in i + 1..j - 1 : Dropped(out, t, k)
    BY <2>1 DEF InStep, DroppedBetween
  <2>3. k \in 1..n
    BY <1>4, <2>1
  <2> QED
    BY <1>4, <2>2, <2>3
<1> QED
  BY <1>6, <1>7, <1>8 DEF InStep, n2, o2, m

\* The first message is gone: what was the i-th is the one before.
Less(out, tab, t2, o2) ==
  /\ o2 \in Seq(Msg) /\ Len(out) \in Nat /\ Len(out) # 0 /\ Len(o2) = Len(out) - 1 /\ Head(out) = out[1] /\ out[1] \in Msg
  /\ \A i \in 1..Len(o2) : o2[i] = out[i + 1]
  /\ \A p, s : \A i \in 1..Len(o2) : Use(t2, o2, p, s, i) <=> Use(tab, out, p, s, i + 1)
  /\ \A s : \A i \in 1..Len(o2) : Dropped(o2, s, i) <=> Dropped(out, s, i + 1)
  /\ \A p, s : Use(tab, out, p, s, 1) <=> Head(out).method = "subscribe" /\ Head(out).path = p /\ Head(out).sid = s
  /\ \A s : Dropped(out, s, 1) <=> Head(out).method = "unsubscribe" /\ Head(out).sid = s
  /\ \A p, s : Use(t2, o2, p, s, 0) <=> t2[p] = s
  /\ \A p, s : Use(tab, out, p, s, 0) <=> tab[p] = s

LEMMA TakenIs ==
  ASSUME NEW out \in Seq(Msg), out # <<>>, NEW tab, NEW t2
  PROVE  Less(out, tab, t2, Tail(out))
<1> DEFINE o2 == Tail(out)
<1>1. /\ o2 \in Seq(Msg) /\ Len(out) \in Nat /\ Len(out) # 0 /\ Len(o2) = Len(out) - 1
      /\ Head(out) = out[1] /\ out[1] \in Msg /\ \A i \in 1..Len(o2) : o2[i] = out[i + 1]
  BY HeadTailProperties
<1> HIDE DEF o2
<1>2. ASSUME NEW p, NEW s, NEW i \in 1..Len(o2) PROVE Use(t2, o2, p, s, i) <=> Use(tab, out, p, s, i + 1)
  <2>1. o2[i] = out[i + 1] /\ i # 0 /\ i + 1 # 0
    BY <1>1
  <2> QED
    BY <2>1 DEF Use
<1>3. ASSUME NEW s, NEW i \in 1..Len(o2) PROVE Dropped(o2, s, i) <=> Dropped(out, s, i + 1)
  <2>1. o2[i] = out[i + 1]
    BY <1>1
  <2> QED
    BY <2>1 DEF Dropped
<1>4. \A p, s : Use(tab, out, p, s, 1) <=> Head(out).method = "subscribe" /\ Head(out).path = p /\ Head(out).sid = s
  BY <1>1 DEF Use
<1>5. \A s : Dropped(out, s, 1) <=> Head(out).method = "unsubscribe" /\ Head(out).sid = s
  BY <1>1 DEF Dropped
<1>6. /\ \A p, s : Use(t2, o2, p, s, 0) <=> t2[p] = s
      /\ \A p, s : Use(tab, out, p, s, 0) <=> tab[p] = s
  BY DEF Use
<1>7. Less(out, tab, t2, o2)
  BY <1>1, <1>2, <1>3, <1>4, <1>5, <1>6 DEF Less
<1> QED
  BY <1>7 DEF o2

LEMMA InStepTakeAsk ==
  ASSUME NEW now \in Sids, NEW tab \in Sids, NEW out \in Seq(Msg), out # <<>>, InStep(now, out, tab),
         Head(out).method = "subscribe", NEW p, p = Head(out).path, NEW s, s = Head(out).sid
  PROVE  /\ p \in Paths /\ s \in Nat /\ InStep(now, Tail(out), [tab EXCEPT ![p] = s])
         /\ tab[p] \in {s, NoSid}
<1> DEFINE t2 == [tab EXCEPT ![p] = s]
           o2 == Tail(out)
           n  == Len(o2)
<1>1. Less(out, tab, t2, o2)
  BY TakenIs
<1>2. p \in Paths /\ s \in Nat
  BY <1>1, MsgIs DEF Less
<1>3. t2[p] = s /\ \A x \in Paths : x # p => t2[x] = tab[x]
  BY <1>2 DEF Sids
<1> HIDE DEF t2, o2
<1>4. /\ n \in Nat /\ Len(out) = n + 1
      /\ \A x, t : \A i \in 1..n : Use(t2, o2, x, t, i) <=> Use(tab, out, x, t, i + 1)
      /\ \A t : \A i \in 1..n : Dropped(o2, t, i) <=> Dropped(out, t, i + 1)
      /\ \A x, t : Use(tab, out, x, t, 1) <=> x = p /\ t = s
      /\ \A t : ~Dropped(out, t, 1)
      /\ \A x, t : Use(t2, o2, x, t, 0) <=> t2[x] = t
      /\ \A x, t : Use(tab, out, x, t, 0) <=> tab[x] = t
  <2>1. Head(out).method # "unsubscribe"
    OBVIOUS
  <2>2. Len(o2) = Len(out) - 1 /\ Len(out) \in Nat /\ Len(out) # 0
    BY <1>1 DEF Less
  <2>3. n \in Nat /\ Len(out) = n + 1
    BY <2>2
  <2> QED
    BY <1>1, <2>1, <2>3 DEF Less
\* A use that is left was a use before, and not of the place in front of it.
<1>5. ASSUME NEW x \in Paths, NEW t, NEW i \in 0..n, Use(t2, o2, x, t, i)
      PROVE  \E k \in 0..n + 1 : k \in i..i + 1 /\ (i > 0 => k = i + 1) /\ Use(tab, out, x, t, k)
  <2>1. CASE i > 0
    <3>1. i \in 1..n /\ i + 1 \in 0..n + 1
      BY <1>4, <2>1
    <3> QED
      BY <1>4, <1>5, <3>1
  <2>2. CASE i = 0 /\ x = p
    <3>1. t = s
      BY <1>3, <1>4, <1>5, <2>2
    <3>2. 1 \in 0..n + 1 /\ 1 \in i..i + 1
      BY <1>4, <2>2
    <3> QED
      BY <1>4, <2>2, <3>1, <3>2
  <2>3. CASE i = 0 /\ x # p
    <3>1. tab[x] = t
      BY <1>3, <1>4, <1>5, <2>3
    <3> QED
      BY <1>4, <2>3, <3>1
  <2> QED
    BY <2>1, <2>2, <2>3
<1>6. ASSUME NEW t, NEW j \in 1..n + 1, Dropped(out, t, j) PROVE j - 1 \in 1..n /\ Dropped(o2, t, j - 1)
  <2>1. j # 1
    BY <1>4, <1>6
  <2>2. j - 1 \in 1..n /\ (j - 1) + 1 = j
    BY <1>4, <2>1
  <2> QED
    BY <1>4, <1>6, <2>2
<1>7. OldDropped(now, o2, t2)
  <2> SUFFICES ASSUME NEW x \in Paths, NEW t \in Nat, NEW i \in 0..n, Use(t2, o2, x, t, i), t # now[x]
               PROVE  \E j \in i + 1..n : Dropped(o2, t, j)
    BY DEF OldDropped
  <2>1. PICK k \in 0..n + 1 : k \in i..i + 1 /\ (i > 0 => k = i + 1) /\ Use(tab, out, x, t, k)
    BY <1>5
  <2>2. PICK j \in k + 1..n + 1 : Dropped(out, t, j)
    BY <1>4, <2>1 DEF InStep, OldDropped
  <2>3. j \in 1..n + 1
    BY <1>4, <2>1
  <2>4. j - 1 \in 1..n /\ Dropped(o2, t, j - 1)
    BY <1>6, <2>2, <2>3
  <2>5. j - 1 \in i + 1..n
    BY <1>4, <2>1, <2>4
  <2> QED
    BY <2>4, <2>5
<1>8. tab[p] \in {s, NoSid}
  <2> SUFFICES ASSUME tab[p] # s, tab[p] # NoSid PROVE FALSE
    OBVIOUS
  <2>1. tab[p] \in Nat /\ 0 \in 0..n + 1 /\ 1 \in 0..n + 1 /\ 0 < 1
    BY <1>2, <1>4 DEF Sids
  <2>2. Use(tab, out, p, tab[p], 0) /\ Use(tab, out, p, s, 1)
    BY <1>4
  <2>3. PICK k \in 0 + 1..1 - 1 : Dropped(out, tab[p], k)
    BY <1>2, <1>4, <2>1, <2>2 DEF InStep, DroppedBetween
  <2> QED
    BY <2>3
<1>9. NowUsed(now, o2, t2)
  <2> SUFFICES ASSUME NEW x \in Paths, now[x] # NoSid
               PROVE  (\E i \in 0..n : Use(t2, o2, x, now[x], i)) /\ \A j \in 1..n : ~Dropped(o2, now[x], j)
    BY DEF NowUsed
  <2>1. PICK i \in 0..n + 1 : Use(tab, out, x, now[x], i)
    BY <1>4 DEF InStep, NowUsed
  <2>2. \A j \in 1..n + 1 : ~Dropped(out, now[x], j)
    BY <1>4 DEF InStep, NowUsed
  <2>3. \A j \in 1..n : j + 1 \in 1..n + 1
    BY <1>4
  <2>4. \A j \in 1..n : ~Dropped(o2, now[x], j)
    BY <1>4, <2>2, <2>3
  <2>5. \E k \in 0..n : Use(t2, o2, x, now[x], k)
    <3>1. CASE i > 1
      <4>1. i - 1 \in 1..n /\ (i - 1) + 1 = i /\ i - 1 \in 0..n
        BY <1>4, <3>1
      <4>2. Use(t2, o2, x, now[x], i - 1) <=> Use(tab, out, x, now[x], (i - 1) + 1)
        BY ONLY <1>4, <4>1
      <4> QED
        BY <2>1, <4>1, <4>2
    <3>2. CASE i = 1
      BY <1>3, <1>4, <2>1, <3>2
    <3>3. CASE i = 0
      BY <1>3, <1>4, <1>8, <2>1, <3>3
    <3> QED
      BY <1>4, <3>1, <3>2, <3>3
  <2> QED
    BY <2>4, <2>5
<1>10. DroppedBetween(o2, t2)
  <2> SUFFICES ASSUME NEW x \in Paths, NEW t \in Nat, NEW u \in Nat, NEW i \in 0..n, NEW j \in 0..n, i < j,
                      Use(t2, o2, x, t, i), Use(t2, o2, x, u, j), t # u
               PROVE  \E k \in i + 1..j - 1 : Dropped(o2, t, k)
    BY DEF DroppedBetween
  <2>1. PICK a \in 0..n + 1 : a \in i..i + 1 /\ (i > 0 => a = i + 1) /\ Use(tab, out, x, t, a)
    BY <1>5
  <2>2. PICK b \in 0..n + 1 : b \in j..j + 1 /\ (j > 0 => b = j + 1) /\ Use(tab, out, x, u, b)
    BY <1>5
  <2>3. a < b
    BY <1>4, <2>1, <2>2
  <2>4. PICK k \in a + 1..b - 1 : Dropped(out, t, k)
    BY <1>4, <2>1, <2>2, <2>3 DEF InStep, DroppedBetween
  <2>5. k \in 1..n + 1
    BY <1>4, <2>1, <2>2
  <2>6. k - 1 \in 1..n /\ Dropped(o2, t, k - 1)
    BY <1>6, <2>4, <2>5
  <2>7. k - 1 \in i + 1..j - 1
    BY <1>4, <2>1, <2>2, <2>6
  <2> QED
    BY <2>6, <2>7
<1> QED
  BY <1>2, <1>7, <1>8, <1>9, <1>10 DEF InStep, o2, t2

LEMMA InStepTakeDrop ==
  ASSUME NEW now \in Sids, NEW tab \in Sids, NEW out \in Seq(Msg), out # <<>>, InStep(now, out, tab),
         Head(out).method = "unsubscribe", NEW s, s = Head(out).sid,
         NEW t2 \in Sids, \A x \in Paths : t2[x] = IF tab[x] = s THEN NoSid ELSE tab[x]
  PROVE  InStep(now, Tail(out), t2)
<1> DEFINE o2 == Tail(out)
           n  == Len(o2)
<1>1. Less(out, tab, t2, o2)
  BY TakenIs
<1> HIDE DEF o2
<1>4. /\ n \in Nat /\ Len(out) = n + 1
      /\ \A x, t : \A i \in 1..n : Use(t2, o2, x, t, i) <=> Use(tab, out, x, t, i + 1)
      /\ \A t : \A i \in 1..n : Dropped(o2, t, i) <=> Dropped(out, t, i + 1)
      /\ \A x, t : ~Use(tab, out, x, t, 1)
      /\ \A t : Dropped(out, t, 1) <=> t = s
      /\ \A x, t : Use(t2, o2, x, t, 0) <=> t2[x] = t
      /\ \A x, t : Use(tab, out, x, t, 0) <=> tab[x] = t
  <2>1. Head(out).method # "subscribe"
    OBVIOUS
  <2>2. Len(o2) = Len(out) - 1 /\ Len(out) \in Nat /\ Len(out) # 0
    BY <1>1 DEF Less
  <2>3. n \in Nat /\ Len(out) = n + 1
    BY <2>2
  <2> QED
    BY <1>1, <2>1, <2>3 DEF Less
\* A use that is left was a use before; the first one is not of the sid dropped.
<1>5. ASSUME NEW x \in Paths, NEW t \in Nat, NEW i \in 0..n, Use(t2, o2, x, t, i)
      PROVE  \E k \in 0..n + 1 : k = (IF i > 0 THEN i + 1 ELSE 0) /\ Use(tab, out, x, t, k) /\ (i = 0 => t # s)
  <2>1. CASE i > 0
    <3>1. i \in 1..n /\ i + 1 \in 0..n + 1
      BY <1>4, <2>1
    <3> QED
      BY <1>4, <1>5, <2>1, <3>1
  <2>2. CASE i = 0
    <3>1. tab[x] = t /\ t # s
      BY <1>4, <1>5, <2>2, NoSidIsNone
    <3> QED
      BY <1>4, <2>2, <3>1
  <2> QED
    BY <2>1, <2>2
<1>6. ASSUME NEW t, NEW j \in 2..n + 1, Dropped(out, t, j) PROVE j - 1 \in 1..n /\ Dropped(o2, t, j - 1)
  <2>2. j - 1 \in 1..n /\ (j - 1) + 1 = j
    BY <1>4
  <2> QED
    BY <1>4, <1>6, <2>2
<1>7. OldDropped(now, o2, t2)
  <2> SUFFICES ASSUME NEW x \in Paths, NEW t \in Nat, NEW i \in 0..n, Use(t2, o2, x, t, i), t # now[x]
               PROVE  \E j \in i + 1..n : Dropped(o2, t, j)
    BY DEF OldDropped
  <2>1. PICK k \in 0..n + 1 : k = (IF i > 0 THEN i + 1 ELSE 0) /\ Use(tab, out, x, t, k) /\ (i = 0 => t # s)
    BY <1>5
  <2>2. PICK j \in k + 1..n + 1 : Dropped(out, t, j)
    BY <1>4, <2>1 DEF InStep, OldDropped
  <2>3. j \in 2..n + 1
    <3>1. j = 1 => t = s
      BY <1>4, <2>2
    <3> QED
      BY <1>4, <2>1, <3>1
  <2>4. j - 1 \in 1..n /\ Dropped(o2, t, j - 1)
    BY <1>6, <2>2, <2>3
  <2>5. j - 1 \in i + 1..n
    BY <1>4, <2>1, <2>4
  <2> QED
    BY <2>4, <2>5
<1>9. NowUsed(now, o2, t2)
  <2> SUFFICES ASSUME NEW x \in Paths, now[x] # NoSid
               PROVE  (\E i \in 0..n : Use(t2, o2, x, now[x], i)) /\ \A j \in 1..n : ~Dropped(o2, now[x], j)
    BY DEF NowUsed
  <2>1. PICK i \in 0..n + 1 : Use(tab, out, x, now[x], i)
    BY <1>4 DEF InStep, NowUsed
  <2>2. \A j \in 1..n + 1 : ~Dropped(out, now[x], j)
    BY <1>4 DEF InStep, NowUsed
  <2>3. 1 \in 1..n + 1 /\ \A j \in 1..n : j + 1 \in 1..n + 1
    BY <1>4
  <2>4. now[x] # s /\ \A j \in 1..n : ~Dropped(o2, now[x], j)
    BY <1>4, <2>2, <2>3
  <2>5. \E k \in 0..n : Use(t2, o2, x, now[x], k)
    <3>1. CASE i > 1
      <4>1. i - 1 \in 1..n /\ (i - 1) + 1 = i /\ i - 1 \in 0..n
        BY <1>4, <3>1
      <4>2. Use(t2, o2, x, now[x], i - 1) <=> Use(tab, out, x, now[x], (i - 1) + 1)
        BY ONLY <1>4, <4>1
      <4> QED
        BY <2>1, <4>1, <4>2
    <3>2. i # 1
      BY <1>4, <2>1
    <3>3. CASE i = 0
      <4>1. t2[x] = now[x]
        BY <1>4, <2>1, <2>4, <3>3
      <4> QED
        BY <1>4, <4>1
    <3> QED
      BY <1>4, <3>1, <3>2, <3>3
  <2> QED
    BY <2>4, <2>5
<1>10. DroppedBetween(o2, t2)
  <2> SUFFICES ASSUME NEW x \in Paths, NEW t \in Nat, NEW u \in Nat, NEW i \in 0..n, NEW j \in 0..n, i < j,
                      Use(t2, o2, x, t, i), Use(t2, o2, x, u, j), t # u
               PROVE  \E k \in i + 1..j - 1 : Dropped(o2, t, k)
    BY DEF DroppedBetween
  <2>1. PICK a \in 0..n + 1 : a = (IF i > 0 THEN i + 1 ELSE 0) /\ Use(tab, out, x, t, a) /\ (i = 0 => t # s)
    BY <1>5
  <2>2. PICK b \in 0..n + 1 : b = (IF j > 0 THEN j + 1 ELSE 0) /\ Use(tab, out, x, u, b) /\ (j = 0 => u # s)
    BY <1>5
  <2>3. a < b
    BY <1>4, <2>1, <2>2
  <2>4. PICK k \in a + 1..b - 1 : Dropped(out, t, k)
    BY <1>4, <2>1, <2>2, <2>3 DEF InStep, DroppedBetween
  <2>5. k \in 2..n + 1
    <3>1. k = 1 => t = s
      BY <1>4, <2>4
    <3> QED
      BY <1>4, <2>1, <2>2, <3>1
  <2>6. k - 1 \in 1..n /\ Dropped(o2, t, k - 1)
    BY <1>6, <2>4, <2>5
  <2>7. k - 1 \in i + 1..j - 1
    BY <1>4, <2>1, <2>2, <2>6
  <2> QED
    BY <2>6, <2>7
<1> QED
  BY <1>7, <1>9, <1>10 DEF InStep, o2

\* A new session: every stream is asked for, and nothing else.
LEMMA InStepAnew ==
  ASSUME NEW now \in Sids, NEW tab, \A p \in Paths : tab[p] = NoSid, NEW out \in Seq(Msg),
         \A i \in 1..Len(out) : out[i].method = "subscribe" /\ out[i].sid = now[out[i].path],
         \A p \in Paths : now[p] # NoSid => \E i \in 1..Len(out) : out[i].path = p
  PROVE  InStep(now, out, tab)
<1>1. \A p \in Paths, s \in Nat : ~Use(tab, out, p, s, 0)
  BY NoSidIsNone DEF Use
<1>2. \A p \in Paths : \A s \in Nat : \A i \in 0..Len(out) : Use(tab, out, p, s, i) => i \in 1..Len(out) /\ s = now[p]
  <2> SUFFICES ASSUME NEW p \in Paths, NEW s \in Nat, NEW i \in 0..Len(out), Use(tab, out, p, s, i)
               PROVE  i \in 1..Len(out) /\ s = now[p]
    OBVIOUS
  <2>1. i # 0
    BY <1>1
  <2>2. i \in 1..Len(out)
    BY <2>1
  <2> QED
    BY <2>1, <2>2 DEF Use
<1>3. \A s : \A i \in 1..Len(out) : ~Dropped(out, s, i)
  BY DEF Dropped
<1>4. OldDropped(now, out, tab)
  BY <1>2 DEF OldDropped
<1>5. DroppedBetween(out, tab)
  BY <1>2 DEF DroppedBetween
<1>6. NowUsed(now, out, tab)
  <2> SUFFICES ASSUME NEW p \in Paths, now[p] # NoSid PROVE \E i \in 0..Len(out) : Use(tab, out, p, now[p], i)
    BY <1>3 DEF NowUsed
  <2>1. PICK i \in 1..Len(out) : out[i].path = p
    OBVIOUS
  <2>2. i # 0 /\ i \in 0..Len(out)
    OBVIOUS
  <2>3. Use(tab, out, p, now[p], i)
    BY <2>1, <2>2 DEF Use
  <2> QED
    BY <2>2, <2>3
<1> QED
  BY <1>4, <1>5, <1>6 DEF InStep

-----------------------------------------------------------------------------
(***************************************************************************)
(* The calls of the broker, by what they leave                             *)
(***************************************************************************)
\* The broker between two calls, and within one: a stream that is new has no
\* valid qos and no requester yet.
Subs   == [Reqs -> [Paths -> SubRequester \cup {NoSub}]]
Stream0 == [sid : Nat, qos : Nat, reqs : SUBSET Reqs, last : Value \cup {NoValue}]
Broker == [sub : Subs, stream : [Paths -> Stream \cup {NoStream}],
           pending : Seq(Reqs \X Paths), sid : Nat, out : Seq(Msg)]
Loose  == [sub : Subs, stream : [Paths -> Stream0 \cup {NoStream}],
           pending : Seq(Reqs \X Paths), sid : Nat, out : Seq(Msg)]

Member(b, r, p) == b.stream[p] # NoStream /\ r \in b.stream[p].reqs
\* Who is in a stream is subscribed.
Known(b) == \A r \in Reqs, p \in Paths : Member(b, r, p) => b.sub[r][p] # NoSub

\* The stream of p is asked for with q, or nothing is sent.
Asked(b, c, u, p, s, q) == c.out = b.out \/ (u /\ c.out = Append(b.out, Ask(p, s, q)))

Fields(b) == b = [sub |-> b.sub, stream |-> b.stream, pending |-> b.pending, sid |-> b.sid, out |-> b.out]

LEMMA QosSet ==
  ASSUME NEW b, Fields(b), NEW p, NEW q
  PROVE  [b EXCEPT !.stream[p].qos = q]
           = [sub |-> b.sub, stream |-> [b.stream EXCEPT ![p].qos = q], pending |-> b.pending, sid |-> b.sid, out |-> b.out]
BY DEF Fields

\* broker_update_stream_qos
Requoted(b, c, u, p) ==
  \E q \in 0..2 :
    /\ c.stream = [b.stream EXCEPT ![p].qos = q] /\ \A r \in b.stream[p].reqs : q >= b.sub[r][p].qos
    /\ c.sub = b.sub /\ c.pending = b.pending /\ c.sid = b.sid
    /\ Asked(b, c, u, p, b.stream[p].sid, q) /\ (u /\ b.stream[p].qos \notin 0..2 => c.out # b.out)

LEMMA UpdateStreamQosIs ==
  ASSUME NEW b \in Loose, NEW u \in BOOLEAN, NEW p \in Paths, b.stream[p] \in Stream0,
         \A r \in b.stream[p].reqs : b.sub[r][p] # NoSub
  PROVE  UpdateStreamQos(b, u, p) \in Loose /\ Requoted(b, UpdateStreamQos(b, u, p), u, p)
<1> DEFINE s   == b.stream[p]
           Q   == {b.sub[r][p].qos : r \in s.reqs} \cup {0}
           top == Max(Q)
           m   == Ask(p, s.sid, top)
           c   == UpdateStreamQos(b, u, p)
<1>1. /\ b.stream \in [Paths -> Stream0 \cup {NoStream}]
      /\ b.sub \in Subs /\ b.sid \in Nat /\ b.out \in Seq(Msg) /\ b.pending \in Seq(Reqs \X Paths)
      /\ Fields(b)
  BY DEF Loose, Fields
<1>2. s \in Stream0 /\ s.sid \in Nat /\ s.reqs \subseteq Reqs
  BY <1>1 DEF Stream0
<1>3. Q \in SUBSET (0..2) /\ Q # {}
  <2>1. ASSUME NEW r \in s.reqs PROVE b.sub[r][p].qos \in 0..2
    <3>1. r \in Reqs /\ b.sub[r][p] \in SubRequester
      BY <1>1, <1>2 DEF Subs
    <3> QED
      BY <3>1 DEF SubRequester
  <2> QED
    BY <2>1
<1> HIDE DEF Q
<1>4. top \in 0..2 /\ \A x \in Q : x <= top
  BY <1>3, TopIs
<1>5. \A r \in s.reqs : top >= b.sub[r][p].qos
  <2>1. \A r \in s.reqs : b.sub[r][p].qos \in Q
    BY DEF Q
  <2>2. \A x \in Q : top >= x
    BY <1>3, <1>4
  <2> QED
    BY <2>1, <2>2
<1>6. c = IF top # s.qos THEN Send([b EXCEPT !.stream[p].qos = top], u, m) ELSE [b EXCEPT !.stream[p].qos = top]
  BY DEF UpdateStreamQos, Q
<1> HIDE DEF top
<1>7. m \in Msg
  BY <1>2, <1>4, MsgIs
<1> HIDE DEF m, c
<1>8. /\ c.stream = [b.stream EXCEPT ![p].qos = top] /\ c.sub = b.sub /\ c.pending = b.pending /\ c.sid = b.sid
      /\ c.out = IF top # s.qos /\ u THEN Append(b.out, m) ELSE b.out
      /\ c = [sub |-> c.sub, stream |-> c.stream, pending |-> c.pending, sid |-> c.sid, out |-> c.out]
  <2>1. [b EXCEPT !.stream[p].qos = top] = [sub |-> b.sub, stream |-> [b.stream EXCEPT ![p].qos = top],
                                            pending |-> b.pending, sid |-> b.sid, out |-> b.out]
    BY <1>1, QosSet
  <2> QED
    BY <1>6, <2>1 DEF Send
<1>9. [b.stream EXCEPT ![p].qos = top]
        \in [Paths -> Stream0 \cup {NoStream}]
  <2>1. [s EXCEPT !.qos = top] \in Stream0
    BY <1>2, <1>4 DEF Stream0
  <2> QED
    BY <1>1, <2>1
<1>10. c.out \in Seq(Msg) /\ (c.out = b.out \/ c.out = Append(b.out, m)) /\ (u /\ s.qos \notin 0..2 => c.out # b.out)
  <2>1. Append(b.out, m) \in Seq(Msg) /\ Append(b.out, m) # b.out
    <3>1. Append(b.out, m) \in Seq(Msg) /\ Len(Append(b.out, m)) = Len(b.out) + 1 /\ Len(b.out) \in Nat
      BY <1>1, <1>7, AppendProperties
    <3> QED
      BY <3>1
  <2> QED
    BY <1>1, <1>4, <1>8, <2>1
<1>11. c \in Loose
  BY <1>1, <1>8, <1>9, <1>10 DEF Loose
<1>12. Requoted(b, c, u, p)
  <2>1. Asked(b, c, u, p, s.sid, top)
    BY <1>8 DEF Asked, m
  <2> QED
    BY <1>4, <1>5, <1>8, <1>10, <2>1 DEF Requoted
<1> QED
  BY <1>11, <1>12 DEF c

LEMMA FieldsSet ==
  ASSUME NEW b, Fields(b)
  PROVE  /\ \A p, q : [b EXCEPT !.stream[p].reqs = q]
              = [sub |-> b.sub, stream |-> [b.stream EXCEPT ![p].reqs = q], pending |-> b.pending, sid |-> b.sid, out |-> b.out]
         /\ \A p, s, n : [b EXCEPT !.stream[p] = s, !.sid = n]
              = [sub |-> b.sub, stream |-> [b.stream EXCEPT ![p] = s], pending |-> b.pending, sid |-> n, out |-> b.out]
         /\ \A p, s : [b EXCEPT !.stream[p] = s]
              = [sub |-> b.sub, stream |-> [b.stream EXCEPT ![p] = s], pending |-> b.pending, sid |-> b.sid, out |-> b.out]
         /\ \A r, p, v : [b EXCEPT !.sub[r][p].got = v]
              = [sub |-> [b.sub EXCEPT ![r][p].got = v], stream |-> b.stream, pending |-> b.pending, sid |-> b.sid, out |-> b.out]
         /\ \A o : [b EXCEPT !.out = o]
              = [sub |-> b.sub, stream |-> b.stream, pending |-> b.pending, sid |-> b.sid, out |-> o]
<1>1. \A p, q : [b EXCEPT !.stream[p].reqs = q]
              = [sub |-> b.sub, stream |-> [b.stream EXCEPT ![p].reqs = q], pending |-> b.pending, sid |-> b.sid, out |-> b.out]
  BY DEF Fields
<1>2. \A p, s, n : [b EXCEPT !.stream[p] = s, !.sid = n]
              = [sub |-> b.sub, stream |-> [b.stream EXCEPT ![p] = s], pending |-> b.pending, sid |-> n, out |-> b.out]
  <2> SUFFICES ASSUME NEW p, NEW s, NEW n
               PROVE  [b EXCEPT !.stream[p] = s, !.sid = n]
              = [sub |-> b.sub, stream |-> [b.stream EXCEPT ![p] = s], pending |-> b.pending, sid |-> n, out |-> b.out]
    OBVIOUS
  <2>1. [b EXCEPT !.stream[p] = s, !.sid = n] = [[b EXCEPT !.stream[p] = s] EXCEPT !.sid = n]
    OBVIOUS
  <2>2. [b EXCEPT !.stream[p] = s]
          = [sub |-> b.sub, stream |-> [b.stream EXCEPT ![p] = s], pending |-> b.pending, sid |-> b.sid, out |-> b.out]
    BY DEF Fields
  <2> DEFINE d == [b EXCEPT !.stream[p] = s]
             x == [b.stream EXCEPT ![p] = s]
  <2>3. [d EXCEPT !.sid = n] = [sub |-> b.sub, stream |-> x, pending |-> b.pending, sid |-> n, out |-> b.out]
    <3> HIDE DEF d, x
    <3>1. d = [sub |-> b.sub, stream |-> x, pending |-> b.pending, sid |-> b.sid, out |-> b.out]
      BY <2>2 DEF d, x
    <3> QED
      BY <3>1
  <2> QED
    BY <2>1, <2>3
<1>3. \A p, s : [b EXCEPT !.stream[p] = s]
              = [sub |-> b.sub, stream |-> [b.stream EXCEPT ![p] = s], pending |-> b.pending, sid |-> b.sid, out |-> b.out]
  BY DEF Fields
<1>4. \A r, p, v : [b EXCEPT !.sub[r][p].got = v]
              = [sub |-> [b.sub EXCEPT ![r][p].got = v], stream |-> b.stream, pending |-> b.pending, sid |-> b.sid, out |-> b.out]
  BY DEF Fields
<1>5. \A o : [b EXCEPT !.out = o]
              = [sub |-> b.sub, stream |-> b.stream, pending |-> b.pending, sid |-> b.sid, out |-> o]
  BY DEF Fields
<1> QED
  BY <1>1, <1>2, <1>3, <1>4, <1>5

LEMMA BrokerIs ==
  ASSUME NEW b \in Broker
  PROVE  /\ Fields(b) /\ b.sub \in Subs /\ b.stream \in [Paths -> Stream \cup {NoStream}]
         /\ b.pending \in Seq(Reqs \X Paths) /\ b.sid \in Nat /\ b.out \in Seq(Msg)
         /\ b.stream \in [Paths -> Stream0 \cup {NoStream}] /\ b \in Loose
         /\ \A p \in Paths : b.stream[p] # NoStream =>
              /\ b.stream[p] \in Stream /\ b.stream[p] \in Stream0 /\ b.stream[p].sid \in Nat /\ b.stream[p].qos \in 0..2
              /\ b.stream[p].reqs \subseteq Reqs /\ b.stream[p].reqs # {} /\ b.stream[p].last \in Value \cup {NoValue}
              /\ b.stream[p] = [sid |-> b.stream[p].sid, qos |-> b.stream[p].qos,
                                reqs |-> b.stream[p].reqs, last |-> b.stream[p].last]
         /\ \A r \in Reqs, p \in Paths : b.sub[r][p] # NoSub =>
              b.sub[r][p] \in SubRequester /\ b.sub[r][p].qos \in 0..2 /\ b.sub[r][p].got \in Value \cup {NoValue}
<1>1. /\ Fields(b) /\ b.sub \in Subs /\ b.stream \in [Paths -> Stream \cup {NoStream}]
      /\ b.pending \in Seq(Reqs \X Paths) /\ b.sid \in Nat /\ b.out \in Seq(Msg)
  BY DEF Broker, Fields
<1>2. ASSUME NEW s \in Stream
      PROVE  /\ s \in Stream0 /\ s.sid \in Nat /\ s.qos \in 0..2
             /\ s.reqs \subseteq Reqs /\ s.reqs # {} /\ s.last \in Value \cup {NoValue}
             /\ s = [sid |-> s.sid, qos |-> s.qos, reqs |-> s.reqs, last |-> s.last]
  <2>1. s.reqs \in (SUBSET Reqs) \ {{}} /\ s.sid \in Nat /\ s.qos \in 0..2 /\ s.last \in Value \cup {NoValue}
    BY DEF Stream
  <2>2. s.reqs \subseteq Reqs /\ s.reqs # {}
    BY <2>1
  <2>3. s \in Stream0
    BY DEF Stream, Stream0
  <2>4. s = [sid |-> s.sid, qos |-> s.qos, reqs |-> s.reqs, last |-> s.last]
    BY DEF Stream
  <2> QED
    BY <2>1, <2>2, <2>3, <2>4
<1>3. b.stream \in [Paths -> Stream0 \cup {NoStream}]
  BY <1>1, <1>2
<1>4. b \in Loose
  BY <1>1, <1>3 DEF Loose, Fields
<1>5. \A p \in Paths : b.stream[p] # NoStream => b.stream[p] \in Stream
  BY <1>1
<1>6. \A r \in Reqs, p \in Paths : b.sub[r][p] # NoSub => b.sub[r][p] \in SubRequester
  BY <1>1 DEF Subs
<1>7. \A x \in SubRequester : x.qos \in 0..2 /\ x.got \in Value \cup {NoValue}
  BY DEF SubRequester
<1> QED
  BY <1>1, <1>2, <1>3, <1>4, <1>5, <1>6, <1>7

\* broker_subscribe_remote: r is in the stream of p, which may be new
EntersAs(b, c, u, r, p, q, s, l, R) ==
  /\ b.stream[p] = NoStream =>
       s = b.sid /\ l = NoValue /\ R = {r} /\ c.sid = b.sid + 1 /\ (u => c.out # b.out)
  /\ b.stream[p] # NoStream =>
       s = b.stream[p].sid /\ l = b.stream[p].last /\ R = b.stream[p].reqs \cup {r} /\ c.sid = b.sid
  /\ c.stream = [b.stream EXCEPT ![p] = [sid |-> s, qos |-> q, reqs |-> R, last |-> l]]
  /\ \A x \in R : q >= b.sub[x][p].qos
  /\ c.sub = IF l = NoValue THEN b.sub ELSE [b.sub EXCEPT ![r][p].got = l]
  /\ c.pending = b.pending /\ Asked(b, c, u, p, s, q)
Enters(b, c, u, r, p) ==
  \E q \in 0..2, s \in Nat, l \in Value \cup {NoValue}, R \in SUBSET Reqs : EntersAs(b, c, u, r, p, q, s, l, R)

LEMMA SubscribeRemoteIs ==
  ASSUME NEW b \in Broker, NEW u \in BOOLEAN, NEW r \in Reqs, NEW p \in Paths, Known(b), b.sub[r][p] # NoSub
  PROVE  SubscribeRemote(b, u, r, p) \in Broker /\ Enters(b, SubscribeRemote(b, u, r, p), u, r, p)
<1> DEFINE fresh == b.stream[p] = NoStream
           s   == IF fresh THEN b.sid ELSE b.stream[p].sid
           l   == IF fresh THEN NoValue ELSE b.stream[p].last
           R   == (IF fresh THEN {} ELSE b.stream[p].reqs) \cup {r}
           k   == IF fresh THEN InvalidQos ELSE b.stream[p].qos
           new == IF fresh THEN NewStream(b, p) ELSE b
           mid == [new EXCEPT !.stream[p].reqs = @ \cup {r}]
           in  == UpdateStreamQos(mid, u, p)
           c   == SubscribeRemote(b, u, r, p)
<1>1. /\ Fields(b) /\ b.sub \in Subs /\ b.stream \in [Paths -> Stream \cup {NoStream}]
      /\ b.pending \in Seq(Reqs \X Paths) /\ b.sid \in Nat /\ b.out \in Seq(Msg)
      /\ b.stream \in [Paths -> Stream0 \cup {NoStream}]
  BY BrokerIs
<1>2. /\ s \in Nat /\ l \in Value \cup {NoValue} /\ R \in SUBSET Reqs /\ k \in Nat /\ (k \notin 0..2 <=> fresh)
      /\ r \in R
  <2>1. CASE fresh
    BY <1>1, <2>1 DEF InvalidQos
  <2>2. CASE ~fresh
    <3>1. /\ b.stream[p].sid \in Nat /\ b.stream[p].qos \in 0..2 /\ b.stream[p].reqs \subseteq Reqs
          /\ b.stream[p].last \in Value \cup {NoValue}
      BY <2>2, BrokerIs
    <3> QED
      BY <2>2, <3>1
  <2> QED
    BY <2>1, <2>2
<1> DEFINE old == [sid |-> s, qos |-> k, reqs |-> R \ {r}, last |-> l]
           st  == [sid |-> s, qos |-> k, reqs |-> R, last |-> l]
           n   == IF fresh THEN b.sid + 1 ELSE b.sid
<1>3. /\ Fields(mid) /\ mid.stream = [b.stream EXCEPT ![p] = st] /\ mid.sub = b.sub /\ mid.pending = b.pending
      /\ mid.sid = n /\ mid.out = b.out
  <2>1. CASE fresh
    <3> DEFINE e == [sid |-> b.sid, qos |-> InvalidQos, reqs |-> {}, last |-> NoValue]
    <3>1. new = [sub |-> b.sub, stream |-> [b.stream EXCEPT ![p] = e], pending |-> b.pending, sid |-> b.sid + 1, out |-> b.out]
      <4>1. new = [b EXCEPT !.stream[p] = e, !.sid = b.sid + 1]
        BY <1>1, <2>1 DEF NewStream
      <4> HIDE DEF new, e
      <4>2. \A x, t, m : [b EXCEPT !.stream[x] = t, !.sid = m]
              = [sub |-> b.sub, stream |-> [b.stream EXCEPT ![x] = t], pending |-> b.pending, sid |-> m, out |-> b.out]
        BY ONLY <1>1, FieldsSet
      <4> QED
        BY <4>1, <4>2
    <3> HIDE DEF new
    <3>2. Fields(new) /\ new.stream[p] = e
      <4> HIDE DEF e
      <4> QED
        BY <1>1, <3>1 DEF Fields
    <3>3. mid = [sub |-> b.sub, stream |-> [new.stream EXCEPT ![p].reqs = {r}], pending |-> b.pending, sid |-> b.sid + 1, out |-> b.out]
      <4>1. mid = [new EXCEPT !.stream[p].reqs = {r}]
        BY <3>2
      <4> HIDE DEF mid, e
      <4>2. new.sub = b.sub /\ new.pending = b.pending /\ new.sid = b.sid + 1 /\ new.out = b.out
        BY <3>1
      <4>3. \A y, g : [new EXCEPT !.stream[y].reqs = g]
              = [sub |-> new.sub, stream |-> [new.stream EXCEPT ![y].reqs = g], pending |-> new.pending, sid |-> new.sid, out |-> new.out]
        BY ONLY <3>2, FieldsSet
      <4> HIDE DEF new
      <4> QED
        BY <4>1, <4>2, <4>3
    <3>4. [new.stream EXCEPT ![p].reqs = {r}] = [b.stream EXCEPT ![p] = st]
      <4>1. [e EXCEPT !.reqs = {r}] = st
        BY <2>1
      <4>2. new.stream = [b.stream EXCEPT ![p] = e]
        BY <3>1
      <4> HIDE DEF e, st
      <4>3. [new.stream EXCEPT ![p].reqs = {r}] = [new.stream EXCEPT ![p] = [e EXCEPT !.reqs = {r}]]
        BY <3>2
      <4> QED
        BY <1>1, <4>1, <4>2, <4>3
    <3> QED
      BY <2>1, <3>3, <3>4 DEF Fields
  <2>2. CASE ~fresh
    <3>1. mid = [sub |-> b.sub, stream |-> [b.stream EXCEPT ![p].reqs = R], pending |-> b.pending, sid |-> b.sid, out |-> b.out]
      <4>1. mid = [b EXCEPT !.stream[p].reqs = R]
        BY <2>2
      <4> HIDE DEF mid, R
      <4>2. \A x, t : [b EXCEPT !.stream[x].reqs = t]
              = [sub |-> b.sub, stream |-> [b.stream EXCEPT ![x].reqs = t], pending |-> b.pending, sid |-> b.sid, out |-> b.out]
        BY ONLY <1>1, FieldsSet
      <4> QED
        BY <4>1, <4>2
    <3>2. [b.stream EXCEPT ![p].reqs = R] = [b.stream EXCEPT ![p] = st]
      <4>1. b.stream[p] = [sid |-> s, qos |-> k, reqs |-> b.stream[p].reqs, last |-> l]
        BY <2>2, BrokerIs
      <4>2. [b.stream[p] EXCEPT !.reqs = R] = st
        BY <4>1
      <4> HIDE DEF st
      <4> QED
        BY <1>1, <4>2
    <3> QED
      BY <2>2, <3>1, <3>2 DEF Fields
  <2> QED
    BY <2>1, <2>2
<1>4. c = Hand(in, r, p, in.stream[p].last)
  BY DEF SubscribeRemote
<1>5. st \in Stream0 /\ n \in Nat
  BY <1>1, <1>2 DEF Stream0
<1> HIDE DEF mid, new, s, l, R, k
<1>6. st.sid = s /\ st.qos = k /\ st.reqs = R /\ st.last = l
  OBVIOUS
<1> HIDE DEF st, n
<1>7. mid.stream \in [Paths -> Stream0 \cup {NoStream}] /\ mid.stream[p] = st
  BY <1>1, <1>3, <1>5
<1>8. mid \in Loose
  BY <1>1, <1>3, <1>5, <1>7 DEF Loose, Fields
<1>9. \A x \in R : b.sub[x][p] # NoSub
  BY <1>2 DEF Known, Member, R, fresh
<1>10. in \in Loose /\ Requoted(mid, in, u, p)
  BY <1>3, <1>5, <1>6, <1>7, <1>8, <1>9, UpdateStreamQosIs
<1> HIDE DEF in, c, fresh
<1>11. PICK q \in 0..2 :
         /\ in.stream = [mid.stream EXCEPT ![p].qos = q] /\ \A x \in mid.stream[p].reqs : q >= mid.sub[x][p].qos
         /\ in.sub = mid.sub /\ in.pending = mid.pending /\ in.sid = mid.sid
         /\ Asked(mid, in, u, p, mid.stream[p].sid, q) /\ (u /\ mid.stream[p].qos \notin 0..2 => in.out # mid.out)
  BY <1>10 DEF Requoted
<1> DEFINE fin == [sid |-> s, qos |-> q, reqs |-> R, last |-> l]
<1>12. in.stream = [b.stream EXCEPT ![p] = fin] /\ in.stream[p] = fin
  <2>1. in.stream = [mid.stream EXCEPT ![p] = [st EXCEPT !.qos = q]]
    BY <1>7, <1>11
  <2>2. [st EXCEPT !.qos = q] = fin
    BY DEF st
  <2> HIDE DEF fin
  <2> QED
    BY <1>1, <1>3, <2>1, <2>2
<1>13. fin \in Stream
  <2>1. R \in (SUBSET Reqs) \ {{}}
    BY <1>2
  <2> QED
    BY <1>2, <2>1 DEF Stream
<1>14. in.sub = b.sub /\ in.pending = b.pending /\ in.sid = n /\ Fields(in) /\ in.out \in Seq(Msg) /\ in.stream[p].last = l
  BY <1>3, <1>10, <1>11, <1>12 DEF Loose, Fields
<1>15. Asked(b, in, u, p, s, q) /\ (u /\ fresh => in.out # b.out)
  BY <1>2, <1>3, <1>6, <1>7, <1>11 DEF Asked
<1> HIDE DEF fin
<1>16. /\ c.stream = in.stream /\ c.pending = in.pending /\ c.sid = in.sid /\ c.out = in.out /\ Fields(c)
       /\ c.sub = IF l = NoValue THEN b.sub ELSE [b.sub EXCEPT ![r][p].got = l]
  <2>1. CASE l = NoValue
    BY <1>4, <1>14, <2>1 DEF Hand
  <2>2. CASE l # NoValue
    <3>1. c = [in EXCEPT !.sub[r][p].got = l]
      BY <1>4, <1>14, <2>2 DEF Hand
    <3>2. c = [sub |-> [in.sub EXCEPT ![r][p].got = l], stream |-> in.stream, pending |-> in.pending, sid |-> in.sid, out |-> in.out]
      <4>1. \A x, y, v : [in EXCEPT !.sub[x][y].got = v]
              = [sub |-> [in.sub EXCEPT ![x][y].got = v], stream |-> in.stream, pending |-> in.pending, sid |-> in.sid, out |-> in.out]
        BY ONLY <1>14, FieldsSet
      <4> HIDE DEF in, c
      <4> QED
        BY <3>1, <4>1
    <3> QED
      BY <1>14, <2>2, <3>2 DEF Fields
  <2> QED
    BY <2>1, <2>2
<1>17. c.sub \in Subs
  <2>1. l \in Value \cup {NoValue} => [b.sub[r][p] EXCEPT !.got = l] \in SubRequester
    BY BrokerIs DEF SubRequester
  <2> QED
    BY <1>1, <1>2, <1>16, <2>1 DEF Subs
<1>18. c.stream \in [Paths -> Stream \cup {NoStream}]
  BY <1>1, <1>12, <1>13, <1>16
<1>19. c \in Broker
  BY <1>1, <1>5, <1>14, <1>16, <1>17, <1>18 DEF Broker, Fields
<1>20. Enters(b, c, u, r, p)
  <2>1. /\ b.stream[p] = NoStream => s = b.sid /\ l = NoValue /\ R = {r} /\ c.sid = b.sid + 1 /\ (u => c.out # b.out)
        /\ b.stream[p] # NoStream =>
             s = b.stream[p].sid /\ l = b.stream[p].last /\ R = b.stream[p].reqs \cup {r} /\ c.sid = b.sid
    BY <1>14, <1>15, <1>16 DEF fresh, s, l, R, n
  <2>2. \A x \in R : q >= b.sub[x][p].qos
    BY <1>3, <1>6, <1>7, <1>11
  <2>3. Asked(b, c, u, p, s, q)
    BY <1>15, <1>16 DEF Asked
  <2>4. c.stream = [b.stream EXCEPT ![p] = [sid |-> s, qos |-> q, reqs |-> R, last |-> l]]
    BY <1>12, <1>16 DEF fin
  <2>5. EntersAs(b, c, u, r, p, q, s, l, R)
    BY <1>14, <1>16, <2>1, <2>2, <2>3, <2>4 DEF EntersAs
  <2>6. q \in 0..2 /\ s \in Nat /\ l \in Value \cup {NoValue} /\ R \in SUBSET Reqs
    BY <1>2
  <2> HIDE DEF s, l, R, c
  <2> QED
    BY <2>5, <2>6 DEF Enters
<1> QED
  BY <1>19, <1>20 DEF c

\* broker_free_sub_requester: the subscription is gone, and its stream if nobody is left in it
Leaves(b, c, u, r, p) ==
  /\ c.sub = [b.sub EXCEPT ![r][p] = NoSub]
  /\ c.pending = Without(b.pending, {<<r, p>>}) /\ c.sid = b.sid
  /\ \/ ~Member(b, r, p) /\ c.stream = b.stream /\ c.out = b.out
     \/ /\ Member(b, r, p) /\ b.stream[p].reqs # {r}
        /\ c.stream = [b.stream EXCEPT ![p].reqs = @ \ {r}] /\ c.out = b.out
     \/ /\ Member(b, r, p) /\ b.stream[p].reqs = {r} /\ c.stream = [b.stream EXCEPT ![p] = NoStream]
        /\ c.out = IF u THEN Append(b.out, Drop(b.stream[p].sid)) ELSE b.out

\* The subscription of x to y is v, and l waits.
Left(b, x, y, v, l) == [b EXCEPT !.sub[x][y] = v, !.pending = l]
LEMMA LeftIs ==
  ASSUME NEW b, Fields(b), NEW x, NEW y, NEW v, NEW l
  PROVE  Left(b, x, y, v, l)
           = [sub |-> [b.sub EXCEPT ![x][y] = v], stream |-> b.stream, pending |-> l, sid |-> b.sid, out |-> b.out]
<1>1. Left(b, x, y, v, l) = [[b EXCEPT !.sub[x][y] = v] EXCEPT !.pending = l]
  BY DEF Left
<1> DEFINE d == [b EXCEPT !.sub[x][y] = v]
           t == [b.sub EXCEPT ![x][y] = v]
<1>2. d = [sub |-> t, stream |-> b.stream, pending |-> b.pending, sid |-> b.sid, out |-> b.out]
  BY DEF Fields
<1>3. [d EXCEPT !.pending = l] = [sub |-> t, stream |-> b.stream, pending |-> l, sid |-> b.sid, out |-> b.out]
  <2> HIDE DEF d, t
  <2> QED
    BY <1>2
<1> QED
  BY <1>1, <1>3

LEMMA FreeSubIs ==
  ASSUME NEW b \in Broker, NEW u \in BOOLEAN, NEW r \in Reqs, NEW p \in Paths
  PROVE  FreeSub(b, u, r, p) \in Broker /\ Leaves(b, FreeSub(b, u, r, p), u, r, p)
<1> DEFINE w   == Without(b.pending, {<<r, p>>})
           S   == [b.sub EXCEPT ![r][p] = NoSub]
           out == [b EXCEPT !.sub[r][p] = NoSub, !.pending = Without(@, {<<r, p>>})]
           off == [out EXCEPT !.stream[p].reqs = @ \ {r}]
           c   == FreeSub(b, u, r, p)
           T   == [b.stream EXCEPT ![p].reqs = @ \ {r}]
<1>1. /\ Fields(b) /\ b.sub \in Subs /\ b.stream \in [Paths -> Stream \cup {NoStream}]
      /\ b.pending \in Seq(Reqs \X Paths) /\ b.sid \in Nat /\ b.out \in Seq(Msg)
  BY BrokerIs
<1>2. w \in Seq(Reqs \X Paths)
  BY <1>1, WithoutIs
<1>3. S \in Subs
  BY <1>1 DEF Subs
<1>4. out = [sub |-> S, stream |-> b.stream, pending |-> w, sid |-> b.sid, out |-> b.out] /\ Fields(out)
  <2>1. out = Left(b, r, p, NoSub, w)
    BY DEF Left
  <2> HIDE DEF out, w
  <2>3. out = [sub |-> S, stream |-> b.stream, pending |-> w, sid |-> b.sid, out |-> b.out]
    BY <1>1, <2>1, LeftIs
  <2> QED
    BY <2>3 DEF Fields
<1>11. Fields(out)
  BY <1>4
<1>5. /\ out.sub = S /\ out.stream = b.stream /\ out.pending = w /\ out.sid = b.sid /\ out.out = b.out
  BY <1>4
<1>6. c = IF ~Member(b, r, p) THEN out
          ELSE IF off.stream[p].reqs = {} THEN FreeEmptyStream(off, u, p) ELSE off
  BY DEF FreeSub, Member
<1> HIDE DEF c, w, S
<1>7. ASSUME Member(b, r, p)
      PROVE  /\ off = [sub |-> S, stream |-> T, pending |-> w, sid |-> b.sid, out |-> b.out] /\ Fields(off)
             /\ T[p] = [b.stream[p] EXCEPT !.reqs = @ \ {r}] /\ T[p].reqs = b.stream[p].reqs \ {r} /\ T[p].sid = b.stream[p].sid
             /\ b.stream[p].sid \in Nat /\ (b.stream[p].reqs # {r} => T[p] \in Stream)
  <2>1. b.stream[p] \in Stream /\ r \in b.stream[p].reqs
    BY <1>1, <1>7 DEF Member
  <2>2. /\ b.stream[p].reqs \in (SUBSET Reqs) \ {{}} /\ b.stream[p].sid \in Nat /\ b.stream[p].qos \in 0..2
        /\ b.stream[p].last \in Value \cup {NoValue}
        /\ b.stream[p] = [sid |-> b.stream[p].sid, qos |-> b.stream[p].qos,
                          reqs |-> b.stream[p].reqs, last |-> b.stream[p].last]
    BY <2>1 DEF Stream
  <2>3. T[p] = [b.stream[p] EXCEPT !.reqs = @ \ {r}]
    BY <1>1
  <2>4. T[p] = [sid |-> b.stream[p].sid, qos |-> b.stream[p].qos, reqs |-> b.stream[p].reqs \ {r}, last |-> b.stream[p].last]
    BY <2>2, <2>3
  <2>5. b.stream[p].reqs # {r} => b.stream[p].reqs \ {r} \in (SUBSET Reqs) \ {{}}
    BY <2>1, <2>2
  <2>6. off = [sub |-> S, stream |-> T, pending |-> w, sid |-> b.sid, out |-> b.out]
    <3> DEFINE t == b.stream[p].reqs \ {r}
    <3>1. off = [out EXCEPT !.stream[p].reqs = t]
      BY <1>5
    <3> HIDE DEF off, out, t
    <3>2. \A x, y : [out EXCEPT !.stream[x].reqs = y]
            = [sub |-> out.sub, stream |-> [out.stream EXCEPT ![x].reqs = y], pending |-> out.pending, sid |-> out.sid, out |-> out.out]
      BY ONLY <1>11, FieldsSet
    <3> QED
      BY <1>5, <3>1, <3>2 DEF t
  <2>7. Fields(off)
    BY <2>6 DEF Fields
  <2> HIDE DEF T
  <2>8. b.stream[p].reqs # {r} => T[p] \in Stream
    BY <2>2, <2>4, <2>5 DEF Stream
  <2>9. T[p].reqs = b.stream[p].reqs \ {r} /\ T[p].sid = b.stream[p].sid
    BY <2>4
  <2> QED
    BY <2>2, <2>3, <2>6, <2>7, <2>8, <2>9
<1> HIDE DEF out, off
<1>8. CASE ~Member(b, r, p)
  <2>1. c \in Broker
    BY <1>1, <1>2, <1>3, <1>4, <1>6, <1>8 DEF Broker
  <2>2. Leaves(b, c, u, r, p)
    BY <1>5, <1>6, <1>8 DEF Leaves, S, w
  <2> QED
    BY <2>1, <2>2 DEF c
<1>9. CASE Member(b, r, p) /\ b.stream[p].reqs # {r}
  <2>1. off.stream = T /\ off.sub = S /\ off.pending = w /\ off.sid = b.sid /\ off.out = b.out
    BY <1>7, <1>9
  <2>2. T[p] \in Stream /\ T[p].reqs # {}
    <3>1. T[p] \in Stream /\ T[p].reqs = b.stream[p].reqs \ {r}
      BY <1>7, <1>9
    <3>2. r \in b.stream[p].reqs
      BY <1>9 DEF Member
    <3> QED
      BY <1>9, <3>1, <3>2
  <2>3. c = off
    BY <1>6, <1>9, <2>1, <2>2
  <2>4. T \in [Paths -> Stream \cup {NoStream}]
    BY <1>1, <2>2
  <2> HIDE DEF T
  <2>5. c \in Broker
    BY <1>1, <1>2, <1>3, <1>7, <1>9, <2>3, <2>4 DEF Broker
  <2>6. Leaves(b, c, u, r, p)
    BY <1>9, <2>1, <2>3 DEF Leaves, S, w, T
  <2> QED
    BY <2>5, <2>6 DEF c
<1>10. CASE Member(b, r, p) /\ b.stream[p].reqs = {r}
  <2> DEFINE N == [b.stream EXCEPT ![p] = NoStream]
             o == IF u THEN Append(b.out, Drop(b.stream[p].sid)) ELSE b.out
  <2>1. /\ off.stream = T /\ off.sub = S /\ off.pending = w /\ off.sid = b.sid /\ off.out = b.out /\ Fields(off)
        /\ off.stream[p].reqs = {} /\ off.stream[p].sid = b.stream[p].sid /\ b.stream[p].sid \in Nat
    <3>1. b.stream[p].reqs \ {r} = {}
      BY <1>10
    <3>2. /\ off = [sub |-> S, stream |-> T, pending |-> w, sid |-> b.sid, out |-> b.out] /\ Fields(off)
          /\ T[p].reqs = b.stream[p].reqs \ {r} /\ T[p].sid = b.stream[p].sid /\ b.stream[p].sid \in Nat
      BY <1>7, <1>10
    <3> HIDE DEF T
    <3> QED
      BY <3>1, <3>2
  <2>2. c = [Send(off, u, Drop(b.stream[p].sid)) EXCEPT !.stream[p] = NoStream]
    BY <1>6, <1>10, <2>1 DEF FreeEmptyStream
  <2> DEFINE d == Send(off, u, Drop(b.stream[p].sid))
  <2>3. d = [sub |-> S, stream |-> T, pending |-> w, sid |-> b.sid, out |-> o]
    <3>1. CASE u
      <4>1. d = [off EXCEPT !.out = o]
        BY <2>1, <3>1 DEF Send
      <4> HIDE DEF d, o, T
      <4>2. \A x : [off EXCEPT !.out = x]
              = [sub |-> off.sub, stream |-> off.stream, pending |-> off.pending, sid |-> off.sid, out |-> x]
        BY ONLY <2>1, FieldsSet
      <4> QED
        BY <2>1, <4>1, <4>2
    <3>2. CASE ~u
      <4>1. d = off /\ o = b.out
        BY <3>2 DEF Send
      <4> HIDE DEF d, o, T
      <4> QED
        BY <1>7, <1>10, <4>1
    <3> QED
      BY <3>1, <3>2
  <2>4. c = [sub |-> S, stream |-> N, pending |-> w, sid |-> b.sid, out |-> o]
    <3>1. c = [d EXCEPT !.stream[p] = NoStream]
      BY <2>2
    <3> HIDE DEF d, o
    <3>2. Fields(d) /\ d.sub = S /\ d.stream = T /\ d.pending = w /\ d.sid = b.sid /\ d.out = o
      BY <2>3 DEF Fields
    <3>3. \A x, y : [d EXCEPT !.stream[x] = y]
            = [sub |-> d.sub, stream |-> [d.stream EXCEPT ![x] = y], pending |-> d.pending, sid |-> d.sid, out |-> d.out]
      BY ONLY <3>2, FieldsSet
    <3>4. [T EXCEPT ![p] = NoStream] = N
      BY <1>1
    <3> HIDE DEF N, T
    <3> QED
      BY <3>1, <3>2, <3>3, <3>4
  <2>5. N \in [Paths -> Stream \cup {NoStream}]
    BY <1>1
  <2>6. o \in Seq(Msg)
    <3>1. Drop(b.stream[p].sid) \in Msg
      BY <2>1, MsgIs
    <3> QED
      BY <1>1, <3>1, AppendProperties
  <2> HIDE DEF N, o
  <2>7. c \in Broker
    BY <1>1, <1>2, <1>3, <2>4, <2>5, <2>6 DEF Broker
  <2>8. Leaves(b, c, u, r, p)
    BY <1>10, <2>4 DEF Leaves, S, w, N, o
  <2> QED
    BY <2>7, <2>8 DEF c
<1> QED
  BY <1>8, <1>9, <1>10

-----------------------------------------------------------------------------
(***************************************************************************)
(* The inductive invariant. Its first part is about b, the broker between  *)
(* two calls; the other variables do not change in a handler of the broker *)
(***************************************************************************)
Update0 == [sid : Nat, val : Value]
EnvType ==
  /\ known \in BOOLEAN /\ up \in BOOLEAN /\ fromResp \in Seq(Update0)
  /\ pathSub \in Sids /\ sidSub \subseteq Nat \X Paths
  /\ val \in [Paths -> Value \cup {NoValue}] /\ count \in Nat

\* The sid under which the broker knows each path
SidOf(b) == [p \in Paths |-> IF b.stream[p] = NoStream THEN NoSid ELSE b.stream[p].sid]

\* Every sid that is in use anywhere was handed out, and for one path only.
OwnedBy(own, b) ==
  /\ \A p \in Paths : b.stream[p] # NoStream => b.stream[p].sid < b.sid /\ own[b.stream[p].sid] = p
  /\ \A i \in 1..Len(b.out) : b.out[i].sid < b.sid /\ (b.out[i].method = "subscribe" => own[b.out[i].sid] = b.out[i].path)
  /\ \A e \in sidSub : e[1] < b.sid /\ own[e[1]] = e[2]
  /\ \A i \in 1..Len(fromResp) : fromResp[i].sid < b.sid /\ own[fromResp[i].sid] = fromResp[i].val[1]

\* What the broker, the responder and the messages between them agree on
Agreed(b) ==
  /\ \E own : OwnedBy(own, b)
  /\ up => InStep(SidOf(b), b.out, pathSub)
  /\ ~up => b.out = <<>>

LEMMA SidOfIs ==
  ASSUME NEW b \in Broker
  PROVE  /\ SidOf(b) \in Sids
         /\ \A p \in Paths : /\ SidOf(b)[p] = NoSid <=> b.stream[p] = NoStream
                             /\ b.stream[p] # NoStream => SidOf(b)[p] = b.stream[p].sid /\ b.stream[p].sid \in Nat
<1>1. \A p \in Paths : b.stream[p] # NoStream => b.stream[p].sid \in Nat
  BY BrokerIs
<1> QED
  BY <1>1, NoSidIsNone DEF SidOf, Sids

\* No path loses or gets a stream: at most the one of p is asked for again.
LEMMA AgreedAsk ==
  ASSUME NEW b \in Broker, NEW c \in Broker, EnvType, Agreed(b), SidOf(c) = SidOf(b), c.sid = b.sid,
         NEW p \in Paths, NEW q \in 0..2, c.out = b.out \/ (b.stream[p] # NoStream /\ Asked(b, c, up, p, b.stream[p].sid, q))
  PROVE  Agreed(c)
<1> DEFINE s == b.stream[p].sid
<1>1. /\ b.out \in Seq(Msg) /\ c.out \in Seq(Msg) /\ b.sid \in Nat /\ SidOf(b) \in Sids
      /\ \A x \in Paths : c.stream[x] = NoStream <=> b.stream[x] = NoStream
      /\ \A x \in Paths : c.stream[x] # NoStream => c.stream[x].sid = b.stream[x].sid
  <2>1. \A x \in Paths : /\ SidOf(b)[x] = NoSid <=> b.stream[x] = NoStream
                         /\ b.stream[x] # NoStream => SidOf(b)[x] = b.stream[x].sid
    BY SidOfIs
  <2>2. \A x \in Paths : /\ SidOf(c)[x] = NoSid <=> c.stream[x] = NoStream
                         /\ c.stream[x] # NoStream => SidOf(c)[x] = c.stream[x].sid
    BY SidOfIs
  <2>3. SidOf(b) \in Sids
    BY SidOfIs
  <2>4. b.out \in Seq(Msg) /\ c.out \in Seq(Msg) /\ b.sid \in Nat
    BY BrokerIs
  <2> QED
    BY <2>1, <2>2, <2>3, <2>4
<1>2. PICK own : OwnedBy(own, b)
  BY DEF Agreed
<1>3. CASE c.out = b.out
  <2>1. OwnedBy(own, c)
    BY <1>1, <1>2, <1>3 DEF OwnedBy
  <2> QED
    BY <1>3, <2>1 DEF Agreed
<1>4. CASE c.out # b.out
  <2>1. up /\ c.out = Append(b.out, Ask(p, s, q)) /\ b.stream[p] # NoStream
    BY <1>4 DEF Asked
  <2>2. s \in Nat /\ s < b.sid /\ own[s] = p /\ Ask(p, s, q) \in Msg
    BY <1>2, <2>1, BrokerIs, MsgIs DEF OwnedBy
  <2>3. Ask(p, s, q).sid = s /\ Ask(p, s, q).path = p
    BY DEF Ask
  <2> DEFINE m == Ask(p, s, q)
  <2> HIDE DEF m, s
  <2>4. Len(b.out) \in Nat /\ Len(c.out) = Len(b.out) + 1 /\ c.out[Len(b.out) + 1] = m
        /\ \A i \in 1..Len(b.out) : c.out[i] = b.out[i]
    BY <1>1, <2>1, <2>2, AppendProperties DEF m
  <2>5. \A i \in 1..Len(c.out) : i \in 1..Len(b.out) \/ i = Len(b.out) + 1
    BY <2>4
  <2>6. ASSUME NEW i \in 1..Len(c.out)
        PROVE  c.out[i].sid < c.sid /\ (c.out[i].method = "subscribe" => own[c.out[i].sid] = c.out[i].path)
    <3>1. CASE i \in 1..Len(b.out)
      BY <1>2, <2>4, <3>1 DEF OwnedBy
    <3>2. CASE i = Len(b.out) + 1
      BY <2>2, <2>3, <2>4, <3>2 DEF m
    <3> QED
      BY <2>5, <3>1, <3>2
  <2>7. OwnedBy(own, c)
    <3>1. \A x \in Paths : c.stream[x] # NoStream => c.stream[x].sid < c.sid /\ own[c.stream[x].sid] = x
      BY <1>1, <1>2 DEF OwnedBy
    <3>2. /\ \A e \in sidSub : e[1] < c.sid /\ own[e[1]] = e[2]
          /\ \A i \in 1..Len(fromResp) : fromResp[i].sid < c.sid /\ own[fromResp[i].sid] = fromResp[i].val[1]
      BY <1>2 DEF OwnedBy
    <3> QED
      BY <2>6, <3>1, <3>2 DEF OwnedBy
  <2>8. SidOf(b)[p] = s
    BY <2>1, SidOfIs DEF s
  <2>9. InStep([SidOf(b) EXCEPT ![p] = s], c.out, pathSub)
    <3> DEFINE now == SidOf(b)
    <3>1. now \in Sids /\ now[p] = s /\ InStep(now, b.out, pathSub) /\ pathSub \in Sids /\ b.out \in Seq(Msg) /\ s \in Nat
      BY <1>1, <2>1, <2>2, <2>8 DEF Agreed, EnvType
    <3> HIDE DEF now
    <3>2. InStep([now EXCEPT ![p] = s], Append(b.out, Ask(p, s, q)), pathSub)
      BY <3>1, InStepAsk
    <3> QED
      BY <2>1, <3>2 DEF now, s
  <2>10. [SidOf(b) EXCEPT ![p] = s] = SidOf(c)
    BY <1>1, <2>8 DEF Sids
  <2> QED
    BY <2>1, <2>7, <2>9, <2>10 DEF Agreed
<1> QED
  BY <1>3, <1>4

\* A path gets a stream, under the next sid.
LEMMA AgreedNew ==
  ASSUME NEW b \in Broker, NEW c \in Broker, EnvType, Agreed(b), NEW p \in Paths, b.stream[p] = NoStream,
         c.sid = b.sid + 1, SidOf(c) = [SidOf(b) EXCEPT ![p] = b.sid],
         NEW q \in 0..2, IF up THEN c.out = Append(b.out, Ask(p, b.sid, q)) ELSE c.out = b.out
  PROVE  Agreed(c)
<1> DEFINE s == b.sid
           now == SidOf(b)
           n2  == SidOf(c)
<1>1. /\ b.out \in Seq(Msg) /\ c.out \in Seq(Msg) /\ s \in Nat /\ now \in Sids /\ now[p] = NoSid
      /\ n2[p] = s /\ \A x \in Paths : x # p => n2[x] = now[x]
  BY BrokerIs, SidOfIs DEF Sids
<1>2. /\ \A x \in Paths : c.stream[x] # NoStream => c.stream[x].sid = n2[x] /\ n2[x] # NoSid
      /\ \A x \in Paths : now[x] # NoSid => b.stream[x] # NoStream /\ b.stream[x].sid = now[x] /\ now[x] \in Nat
  BY SidOfIs
<1> HIDE DEF now, n2
<1>3. PICK own : OwnedBy(own, b)
  BY DEF Agreed
<1> DEFINE o2 == [n \in Nat |-> IF n = s THEN p ELSE own[n]]
<1>4. o2[s] = p /\ \A n \in Nat : n < s => o2[n] = own[n]
  BY <1>1
<1> HIDE DEF o2
<1>5. \A i \in 1..Len(b.out) : b.out[i] \in Msg /\ b.out[i].sid \in Nat
  <2>1. \A i \in 1..Len(b.out) : b.out[i] \in Msg
    BY <1>1
  <2> QED
    BY <2>1, MsgIs
<1>6. (\A e \in sidSub : e[1] \in Nat) /\ \A i \in 1..Len(fromResp) : fromResp[i].sid \in Nat
  <2>1. \A i \in 1..Len(fromResp) : fromResp[i] \in Update0
    BY DEF EnvType
  <2> QED
    BY <2>1 DEF EnvType, Update0
<1>7. \A n \in Nat : n < s => n < c.sid
  BY <1>1
<1>8. \A x \in Paths : c.stream[x] # NoStream => c.stream[x].sid < c.sid /\ o2[c.stream[x].sid] = x
  <2> SUFFICES ASSUME NEW x \in Paths, c.stream[x] # NoStream PROVE n2[x] < c.sid /\ o2[n2[x]] = x
    BY <1>2
  <2>1. CASE x = p
    BY <1>1, <1>4, <2>1
  <2>2. CASE x # p
    <3>1. now[x] # NoSid /\ n2[x] = now[x]
      BY <1>1, <1>2, <2>2
    <3>2. now[x] \in Nat /\ now[x] < s /\ own[now[x]] = x
      BY <1>2, <1>3, <3>1 DEF OwnedBy
    <3> QED
      BY <1>4, <1>7, <3>1, <3>2
  <2> QED
    BY <2>1, <2>2
<1>9. /\ \A e \in sidSub : e[1] < c.sid /\ o2[e[1]] = e[2]
      /\ \A i \in 1..Len(fromResp) : fromResp[i].sid < c.sid /\ o2[fromResp[i].sid] = fromResp[i].val[1]
  BY <1>3, <1>4, <1>6, <1>7 DEF OwnedBy
<1>10. \A i \in 1..Len(b.out) : b.out[i].sid < c.sid /\ (b.out[i].method = "subscribe" => o2[b.out[i].sid] = b.out[i].path)
  BY <1>3, <1>4, <1>5, <1>7 DEF OwnedBy
<1>11. CASE ~up
  <2>1. OwnedBy(o2, c)
    BY <1>8, <1>9, <1>10, <1>11 DEF OwnedBy
  <2> QED
    BY <1>11, <2>1 DEF Agreed
<1>12. CASE up
  <2> DEFINE m == Ask(p, s, q)
  <2>1. m \in Msg /\ m.sid = s /\ m.path = p
    BY <1>1, MsgIs DEF Ask
  <2>2. c.out = Append(b.out, m)
    BY <1>12
  <2> HIDE DEF m
  <2>3. Len(b.out) \in Nat /\ Len(c.out) = Len(b.out) + 1 /\ c.out[Len(b.out) + 1] = m
        /\ \A i \in 1..Len(b.out) : c.out[i] = b.out[i]
    BY <1>1, <2>1, <2>2, AppendProperties
  <2>4. \A i \in 1..Len(c.out) : i \in 1..Len(b.out) \/ i = Len(b.out) + 1
    BY <2>3
  <2>5. ASSUME NEW i \in 1..Len(c.out)
        PROVE  c.out[i].sid < c.sid /\ (c.out[i].method = "subscribe" => o2[c.out[i].sid] = c.out[i].path)
    <3>1. CASE i \in 1..Len(b.out)
      BY <1>10, <2>3, <3>1
    <3>2. CASE i = Len(b.out) + 1
      BY <1>1, <1>4, <2>1, <2>3, <3>2
    <3> QED
      BY <2>4, <3>1, <3>2
  <2>6. OwnedBy(o2, c)
    BY <1>8, <1>9, <2>5 DEF OwnedBy
  <2>7. \A i \in 1..Len(b.out) : ~Dropped(b.out, s, i)
    <3>1. \A i \in 1..Len(b.out) : b.out[i].sid # s
      BY <1>1, <1>3, <1>5 DEF OwnedBy
    <3> QED
      BY <3>1 DEF Dropped
  <2>8. InStep([now EXCEPT ![p] = s], Append(b.out, Ask(p, s, q)), pathSub)
    <3>1. InStep(now, b.out, pathSub) /\ pathSub \in Sids
      BY <1>12 DEF Agreed, EnvType, now
    <3> HIDE DEF s
    <3> QED
      BY <1>1, <2>7, <3>1, InStepAsk
  <2> QED
    BY <1>12, <2>2, <2>6, <2>8 DEF Agreed, now, m
<1> QED
  BY <1>11, <1>12

\* The stream of a path goes.
LEMMA AgreedDrop ==
  ASSUME NEW b \in Broker, NEW c \in Broker, EnvType, Agreed(b), NEW p \in Paths, b.stream[p] # NoStream,
         c.sid = b.sid, SidOf(c) = [SidOf(b) EXCEPT ![p] = NoSid],
         IF up THEN c.out = Append(b.out, Drop(b.stream[p].sid)) ELSE c.out = b.out
  PROVE  Agreed(c)
<1> DEFINE s == b.stream[p].sid
           now == SidOf(b)
           n2  == SidOf(c)
<1>1. /\ b.out \in Seq(Msg) /\ c.out \in Seq(Msg) /\ s \in Nat /\ now \in Sids /\ now[p] = s
      /\ n2[p] = NoSid /\ \A x \in Paths : x # p => n2[x] = now[x]
  BY BrokerIs, SidOfIs DEF Sids
<1>2. /\ \A x \in Paths : c.stream[x] # NoStream => c.stream[x].sid = n2[x] /\ n2[x] # NoSid
      /\ \A x \in Paths : now[x] # NoSid => b.stream[x] # NoStream /\ b.stream[x].sid = now[x] /\ now[x] \in Nat
  BY SidOfIs
<1>3. PICK own : OwnedBy(own, b)
  BY DEF Agreed
<1> HIDE DEF now, n2, s
<1>4. \A x \in Paths : now[x] # NoSid => now[x] < b.sid /\ own[now[x]] = x
  BY <1>2, <1>3 DEF OwnedBy
<1>5. \A x \in Paths : c.stream[x] # NoStream => c.stream[x].sid < c.sid /\ own[c.stream[x].sid] = x
  <2> SUFFICES ASSUME NEW x \in Paths, c.stream[x] # NoStream PROVE n2[x] < c.sid /\ own[n2[x]] = x
    BY <1>2
  <2>1. x # p
    BY <1>1, <1>2
  <2>2. n2[x] = now[x] /\ now[x] # NoSid
    BY <1>1, <1>2, <2>1
  <2> QED
    BY <1>4, <2>2
<1>6. /\ \A e \in sidSub : e[1] < c.sid /\ own[e[1]] = e[2]
      /\ \A i \in 1..Len(fromResp) : fromResp[i].sid < c.sid /\ own[fromResp[i].sid] = fromResp[i].val[1]
  BY <1>3 DEF OwnedBy
<1>7. CASE ~up
  <2>1. OwnedBy(own, c)
    BY <1>3, <1>5, <1>6, <1>7 DEF OwnedBy
  <2> QED
    BY <1>7, <2>1 DEF Agreed
<1>8. CASE up
  <2> DEFINE m == Drop(s)
  <2>1. m \in Msg /\ m.sid = s /\ m.method = "unsubscribe"
    BY <1>1, MsgIs DEF Drop
  <2>2. c.out = Append(b.out, m)
    BY <1>8 DEF s
  <2> HIDE DEF m
  <2>3. Len(b.out) \in Nat /\ Len(c.out) = Len(b.out) + 1 /\ c.out[Len(b.out) + 1] = m
        /\ \A i \in 1..Len(b.out) : c.out[i] = b.out[i]
    BY <1>1, <2>1, <2>2, AppendProperties
  <2>4. \A i \in 1..Len(c.out) : i \in 1..Len(b.out) \/ i = Len(b.out) + 1
    BY <2>3
  <2>5. ASSUME NEW i \in 1..Len(c.out)
        PROVE  c.out[i].sid < c.sid /\ (c.out[i].method = "subscribe" => own[c.out[i].sid] = c.out[i].path)
    <3>1. CASE i \in 1..Len(b.out)
      BY <1>3, <2>3, <3>1 DEF OwnedBy
    <3>2. CASE i = Len(b.out) + 1
      <4>1. s < c.sid /\ m.method # "subscribe"
        BY <1>1, <1>4, <2>1, NoSidIsNone
      <4> QED
        BY <2>1, <2>3, <3>2, <4>1
    <3> QED
      BY <2>4, <3>1, <3>2
  <2>6. OwnedBy(own, c)
    BY <1>5, <1>6, <2>5 DEF OwnedBy
  <2>7. now[p] # NoSid /\ \A x \in Paths : x # p => now[x] # now[p]
    <3>1. now[p] # NoSid
      BY <1>1, NoSidIsNone
    <3> QED
      BY <1>4, <3>1
  <2>8. InStep([now EXCEPT ![p] = NoSid], Append(b.out, Drop(now[p])), pathSub)
    <3>1. InStep(now, b.out, pathSub) /\ pathSub \in Sids
      BY <1>8 DEF Agreed, EnvType, now
    <3> QED
      BY <1>1, <2>7, <3>1, InStepDrop
  <2> QED
    BY <1>1, <1>8, <2>2, <2>6, <2>8 DEF Agreed, now, m
<1> QED
  BY <1>7, <1>8

LEMMA StreamIs ==
  ASSUME NEW s \in Nat, NEW q \in 0..2, NEW R \in SUBSET Reqs, NEW r \in R, NEW l \in Value \cup {NoValue}
  PROVE  /\ [sid |-> s, qos |-> q, reqs |-> R, last |-> l] \in Stream
         /\ [sid |-> s, qos |-> q, reqs |-> R, last |-> l] # NoStream
<1>1. R \in (SUBSET Reqs) \ {{}}
  OBVIOUS
<1>2. [sid |-> s, qos |-> q, reqs |-> R, last |-> l] \in Stream
  BY <1>1 DEF Stream
<1> QED
  BY <1>2, NoneApart

LEMMA EntersAgreed ==
  ASSUME NEW b \in Broker, NEW c \in Broker, EnvType, Agreed(b), NEW r \in Reqs, NEW p \in Paths, Enters(b, c, up, r, p)
  PROVE  Agreed(c)
<1>e. PICK q \in 0..2, s \in Nat, l \in Value \cup {NoValue}, R \in SUBSET Reqs : EntersAs(b, c, up, r, p, q, s, l, R)
  BY DEF Enters
<1>1. /\ b.stream[p] = NoStream =>
           s = b.sid /\ l = NoValue /\ R = {r} /\ c.sid = b.sid + 1 /\ (up => c.out # b.out)
      /\ b.stream[p] # NoStream =>
           s = b.stream[p].sid /\ l = b.stream[p].last /\ R = b.stream[p].reqs \cup {r} /\ c.sid = b.sid
      /\ c.stream = [b.stream EXCEPT ![p] = [sid |-> s, qos |-> q, reqs |-> R, last |-> l]]
      /\ Asked(b, c, up, p, s, q)
  BY <1>e DEF EntersAs
<1> DEFINE st == [sid |-> s, qos |-> q, reqs |-> R, last |-> l]
<1>2. st # NoStream /\ st.sid = s
  <2>1. r \in R
    BY <1>1
  <2> QED
    BY <2>1, StreamIs
<1>3. b.stream \in [Paths -> Stream \cup {NoStream}]
  BY BrokerIs
<1> HIDE DEF st
<1>4. c.stream[p] = st /\ \A x \in Paths : x # p => c.stream[x] = b.stream[x]
  BY <1>1, <1>3 DEF st
<1>5. SidOf(c) = [SidOf(b) EXCEPT ![p] = s]
  BY <1>2, <1>4 DEF SidOf
<1>6. CASE b.stream[p] = NoStream
  <2>1. s = b.sid /\ c.sid = b.sid + 1 /\ IF up THEN c.out = Append(b.out, Ask(p, s, q)) ELSE c.out = b.out
    BY <1>1, <1>6 DEF Asked
  <2> QED
    BY <1>5, <1>6, <2>1, AgreedNew
<1>7. CASE b.stream[p] # NoStream
  <2>1. s = b.stream[p].sid /\ c.sid = b.sid
    BY <1>1, <1>7
  <2>2. SidOf(c) = SidOf(b)
    BY <1>2, <1>4, <1>7, <2>1 DEF SidOf
  <2>3. Asked(b, c, up, p, b.stream[p].sid, q)
    BY <1>1, <2>1
  <2> QED
    BY <1>7, <2>1, <2>2, <2>3, AgreedAsk
<1> QED
  BY <1>6, <1>7

LEMMA RequotedAgreed ==
  ASSUME NEW b \in Broker, NEW c \in Broker, EnvType, Agreed(b), NEW p \in Paths, b.stream[p] # NoStream, Requoted(b, c, up, p)
  PROVE  Agreed(c)
<1>1. PICK q \in 0..2 : /\ c.stream = [b.stream EXCEPT ![p].qos = q]
                        /\ c.sid = b.sid /\ Asked(b, c, up, p, b.stream[p].sid, q)
  BY DEF Requoted
<1>2. /\ b.stream \in [Paths -> Stream \cup {NoStream}] /\ c.stream \in [Paths -> Stream \cup {NoStream}]
      /\ b.stream[p] \in Stream
  BY BrokerIs
<1>3. [b.stream[p] EXCEPT !.qos = q] \in Stream /\ [b.stream[p] EXCEPT !.qos = q].sid = b.stream[p].sid
  BY <1>2 DEF Stream
<1>4. c.stream[p] = [b.stream[p] EXCEPT !.qos = q] /\ \A x \in Paths : x # p => c.stream[x] = b.stream[x]
  BY <1>1, <1>2
<1>5. c.stream[p] # NoStream /\ c.stream[p].sid = b.stream[p].sid
  BY <1>3, <1>4, NoneApart
<1>6. SidOf(c) = SidOf(b)
  BY <1>4, <1>5 DEF SidOf
<1> QED
  BY <1>1, <1>6, AgreedAsk

LEMMA LeavesAgreed ==
  ASSUME NEW b \in Broker, NEW c \in Broker, EnvType, Agreed(b), NEW r \in Reqs, NEW p \in Paths, Leaves(b, c, up, r, p)
  PROVE  Agreed(c)
<1>1. /\ b.stream \in [Paths -> Stream \cup {NoStream}] /\ c.stream \in [Paths -> Stream \cup {NoStream}]
      /\ c.sid = b.sid
  BY BrokerIs DEF Leaves
<1>2. CASE ~Member(b, r, p) /\ c.stream = b.stream /\ c.out = b.out
  <2>1. SidOf(c) = SidOf(b)
    BY <1>2 DEF SidOf
  <2>2. 0 \in 0..2
    OBVIOUS
  <2> QED
    BY <1>1, <1>2, <2>1, <2>2, AgreedAsk
<1>3. CASE Member(b, r, p) /\ c.stream = [b.stream EXCEPT ![p].reqs = @ \ {r}] /\ c.out = b.out /\ b.stream[p].reqs # {r}
  <2>1. b.stream[p] \in Stream /\ b.stream[p].reqs \in SUBSET Reqs /\ r \in b.stream[p].reqs /\ b.stream[p] # NoStream
    BY <1>3, BrokerIs DEF Member
  <2>2. c.stream[p] = [b.stream[p] EXCEPT !.reqs = @ \ {r}] /\ \A x \in Paths : x # p => c.stream[x] = b.stream[x]
    BY <1>1, <1>3
  <2>3. c.stream[p] \in Stream /\ c.stream[p].sid = b.stream[p].sid
    <3>1. b.stream[p].reqs \ {r} \in (SUBSET Reqs) \ {{}}
      BY <1>3, <2>1
    <3> QED
      BY <2>1, <2>2, <3>1 DEF Stream
  <2>4. SidOf(c) = SidOf(b)
    BY <2>1, <2>2, <2>3, NoneApart DEF SidOf
  <2>5. 0 \in 0..2
    OBVIOUS
  <2> QED
    BY <1>1, <1>3, <2>4, <2>5, AgreedAsk
<1>4. CASE /\ Member(b, r, p) /\ c.stream = [b.stream EXCEPT ![p] = NoStream]
           /\ c.out = IF up THEN Append(b.out, Drop(b.stream[p].sid)) ELSE b.out
  <2>1. SidOf(c) = [SidOf(b) EXCEPT ![p] = NoSid]
    BY <1>1, <1>4 DEF SidOf
  <2>2. b.stream[p] # NoStream
    BY <1>4 DEF Member
  <2> QED
    BY <1>1, <1>4, <2>1, <2>2, AgreedDrop
<1> QED
  BY <1>2, <1>3, <1>4 DEF Leaves

\* The value x of path p is not ahead of what the responder has and has sent.
Behind(x, p) ==
  x # NoValue => /\ x[1] = p /\ x[2] <= count
                 /\ val[p] # NoValue => x[2] <= val[p][2]
                 /\ \A i \in 1..Len(fromResp) : fromResp[i].val[1] = p => x[2] <= fromResp[i].val[2]
Ordered(b) ==
  /\ \A p \in Paths : b.stream[p] # NoStream => Behind(b.stream[p].last, p)
  /\ \A r \in Reqs, p \in Paths : b.sub[r][p] # NoSub => Behind(b.sub[r][p].got, p)
  /\ \A r \in Reqs, p \in Paths : Member(b, r, p) /\ b.sub[r][p].got # NoValue /\ b.stream[p].last # NoValue
       => b.sub[r][p].got[2] <= b.stream[p].last[2]

\* A sid is asked for in what is under way.
Asking(out, s) == \E i \in 1..Len(out) : out[i].method = "subscribe" /\ out[i].sid = s
\* The last update under way for s is v.
Coming(s, v) == \E i \in 1..Len(fromResp) :
  fromResp[i].sid = s /\ fromResp[i].val = v /\ \A j \in i + 1..Len(fromResp) : fromResp[j].sid # s
Arrived(b, p) ==
  /\ \A i \in 1..Len(fromResp) : fromResp[i].sid # b.stream[p].sid
  /\ b.stream[p].last = val[p] /\ \A r \in b.stream[p].reqs : b.sub[r][p].got = val[p]
Current(b) ==
  \A p \in Paths : b.stream[p] # NoStream /\ val[p] # NoValue =>
    Asking(b.out, b.stream[p].sid) \/ Coming(b.stream[p].sid, val[p]) \/ Arrived(b, p)

\* A stream has at least the qos of each requester in it.
Covered(b) ==
  \A r \in Reqs, p \in Paths : Member(b, r, p) => b.sub[r][p] # NoSub /\ b.stream[p].qos >= b.sub[r][p].qos

\* Where the subscriptions are
Waits(b, r, p) == \E i \in 1..Len(b.pending) : b.pending[i] = <<r, p>>
Placed(b, k) ==
  /\ Distinct(b.pending)
  /\ k  => b.pending = <<>> /\ \A r \in Reqs, p \in Paths : b.sub[r][p] # NoSub <=> Member(b, r, p)
  /\ ~k => /\ \A p \in Paths : b.stream[p] = NoStream
           /\ \A r \in Reqs, p \in Paths : b.sub[r][p] # NoSub <=> Waits(b, r, p)

\* The broker's part of the invariant
Sound(b) == Agreed(b) /\ Covered(b) /\ Ordered(b) /\ (up => Current(b))
Held(b) == b \in Broker /\ Placed(b, known) /\ Sound(b)

-----------------------------------------------------------------------------
\* What is left when the subscription of r to p is gone
Fewer(b, c, r, p) ==
  /\ c.sub[r][p] = NoSub /\ \A x \in Reqs, y \in Paths : x # r \/ y # p => c.sub[x][y] = b.sub[x][y]
  /\ \A x \in Reqs, y \in Paths : Member(c, x, y) <=> Member(b, x, y) /\ (x # r \/ y # p)
  /\ \A y \in Paths : c.stream[y] # NoStream =>
       /\ b.stream[y] # NoStream /\ c.stream[y].sid = b.stream[y].sid /\ c.stream[y].qos = b.stream[y].qos
       /\ c.stream[y].last = b.stream[y].last /\ c.stream[y].reqs \subseteq b.stream[y].reqs
  /\ \A s : Asking(b.out, s) => Asking(c.out, s)

LEMMA AskingMore ==
  ASSUME NEW out \in Seq(Msg), NEW m \in Msg
  PROVE  /\ \A s : Asking(out, s) => Asking(Append(out, m), s)
         /\ m.method = "subscribe" => Asking(Append(out, m), m.sid)
<1> DEFINE o2 == Append(out, m)
<1>1. /\ Len(out) \in Nat /\ Len(o2) = Len(out) + 1 /\ o2[Len(out) + 1] = m
      /\ \A i \in 1..Len(out) : o2[i] = out[i]
  BY AppendProperties
<1> HIDE DEF o2
<1>2. /\ \A i \in 1..Len(out) : i \in 1..Len(o2)
      /\ Len(out) + 1 \in 1..Len(o2)
  BY <1>1
<1>3. \A s : Asking(out, s) => Asking(o2, s)
  BY <1>1, <1>2 DEF Asking
<1>4. m.method = "subscribe" => Asking(o2, m.sid)
  BY <1>1, <1>2 DEF Asking
<1> QED
  BY <1>3, <1>4 DEF o2

LEMMA LeavesFewer ==
  ASSUME NEW b \in Broker, NEW c \in Broker, NEW r \in Reqs, NEW p \in Paths, Leaves(b, c, up, r, p)
  PROVE  Fewer(b, c, r, p)
<1>1. /\ b.stream \in [Paths -> Stream \cup {NoStream}] /\ c.stream \in [Paths -> Stream \cup {NoStream}]
      /\ b.out \in Seq(Msg) /\ b.sub \in Subs
  BY BrokerIs
<1>2. c.sub[r][p] = NoSub /\ \A x \in Reqs, y \in Paths : x # r \/ y # p => c.sub[x][y] = b.sub[x][y]
  <2>1. c.sub = [b.sub EXCEPT ![r][p] = NoSub]
    BY DEF Leaves
  <2> QED
    BY <1>1, <2>1 DEF Subs
<1>3. /\ \A x \in Reqs, y \in Paths : Member(c, x, y) <=> Member(b, x, y) /\ (x # r \/ y # p)
      /\ \A y \in Paths : c.stream[y] # NoStream =>
           /\ b.stream[y] # NoStream /\ c.stream[y].sid = b.stream[y].sid /\ c.stream[y].qos = b.stream[y].qos
           /\ c.stream[y].last = b.stream[y].last /\ c.stream[y].reqs \subseteq b.stream[y].reqs
  <2>1. CASE ~Member(b, r, p) /\ c.stream = b.stream
    BY <2>1 DEF Member
  <2>2. CASE Member(b, r, p) /\ b.stream[p].reqs # {r} /\ c.stream = [b.stream EXCEPT ![p].reqs = @ \ {r}]
    <3>1. b.stream[p] \in Stream /\ b.stream[p] # NoStream /\ r \in b.stream[p].reqs /\ b.stream[p].reqs \in SUBSET Reqs
      BY <2>2, BrokerIs DEF Member
    <3>2. c.stream[p] = [b.stream[p] EXCEPT !.reqs = @ \ {r}] /\ \A x \in Paths : x # p => c.stream[x] = b.stream[x]
      BY <1>1, <2>2
    <3>3. /\ c.stream[p].reqs = b.stream[p].reqs \ {r} /\ c.stream[p].sid = b.stream[p].sid
          /\ c.stream[p].qos = b.stream[p].qos /\ c.stream[p].last = b.stream[p].last /\ c.stream[p] \in Stream
      <4>1. b.stream[p].reqs \ {r} \in (SUBSET Reqs) \ {{}}
        BY <2>2, <3>1
      <4> QED
        BY <3>1, <3>2, <4>1 DEF Stream
    <3>4. c.stream[p] # NoStream
      BY <3>3, NoneApart
    <3>5. ASSUME NEW x \in Reqs, NEW y \in Paths PROVE Member(c, x, y) <=> Member(b, x, y) /\ (x # r \/ y # p)
      <4>1. CASE y = p
        BY <3>1, <3>3, <3>4, <4>1 DEF Member
      <4>2. CASE y # p
        BY <3>2, <4>2 DEF Member
      <4> QED
        BY <4>1, <4>2
    <3>6. ASSUME NEW y \in Paths, c.stream[y] # NoStream
          PROVE  /\ b.stream[y] # NoStream /\ c.stream[y].sid = b.stream[y].sid /\ c.stream[y].qos = b.stream[y].qos
                 /\ c.stream[y].last = b.stream[y].last /\ c.stream[y].reqs \subseteq b.stream[y].reqs
      <4>1. CASE y = p
        BY <3>1, <3>3, <4>1
      <4>2. CASE y # p
        BY <3>2, <3>6, <4>2
      <4> QED
        BY <4>1, <4>2
    <3> QED
      BY <3>5, <3>6
  <2>3. CASE Member(b, r, p) /\ b.stream[p].reqs = {r} /\ c.stream = [b.stream EXCEPT ![p] = NoStream]
    <3>1. c.stream[p] = NoStream /\ \A x \in Paths : x # p => c.stream[x] = b.stream[x]
      BY <1>1, <2>3
    <3>2. \A x : x \in b.stream[p].reqs => x = r
      BY <2>3
    <3>3. ASSUME NEW x \in Reqs, NEW y \in Paths PROVE Member(c, x, y) <=> Member(b, x, y) /\ (x # r \/ y # p)
      <4>1. CASE y = p
        BY <3>1, <3>2, <4>1 DEF Member
      <4>2. CASE y # p
        BY <3>1, <4>2 DEF Member
      <4> QED
        BY <4>1, <4>2
    <3> QED
      BY <3>1, <3>3
  <2> QED
    BY <2>1, <2>2, <2>3 DEF Leaves
<1>4. \A s : Asking(b.out, s) => Asking(c.out, s)
  <2>1. CASE c.out = b.out
    BY <2>1
  <2>2. CASE Member(b, r, p) /\ c.out = Append(b.out, Drop(b.stream[p].sid))
    <3>1. Drop(b.stream[p].sid) \in Msg
      BY <2>2, BrokerIs, MsgIs DEF Member
    <3> QED
      BY <1>1, <2>2, <3>1, AskingMore
  <2> QED
    BY <2>1, <2>2 DEF Leaves
<1> QED
  BY <1>2, <1>3, <1>4 DEF Fewer

LEMMA LeavesHeld ==
  ASSUME NEW b \in Broker, NEW c \in Broker, EnvType, Held(b), NEW r \in Reqs, NEW p \in Paths, Leaves(b, c, up, r, p)
  PROVE  Held(c)
<1>1. Fewer(b, c, r, p)
  BY LeavesFewer
<1>2. Agreed(c)
  BY LeavesAgreed DEF Held, Sound
<1>3. Covered(c)
  <2> SUFFICES ASSUME NEW x \in Reqs, NEW y \in Paths, Member(c, x, y)
               PROVE  c.sub[x][y] # NoSub /\ c.stream[y].qos >= c.sub[x][y].qos
    BY DEF Covered
  <2>1. Member(b, x, y) /\ (x # r \/ y # p) /\ c.sub[x][y] = b.sub[x][y] /\ c.stream[y] # NoStream
    BY <1>1 DEF Fewer, Member
  <2>2. c.stream[y].qos = b.stream[y].qos
    BY <1>1, <2>1 DEF Fewer
  <2> QED
    BY <2>1, <2>2 DEF Held, Sound, Covered
<1>4. Ordered(c)
  <2>1. ASSUME NEW y \in Paths, c.stream[y] # NoStream PROVE Behind(c.stream[y].last, y)
    BY <1>1, <2>1 DEF Fewer, Held, Sound, Ordered
  <2>2. ASSUME NEW x \in Reqs, NEW y \in Paths, c.sub[x][y] # NoSub PROVE Behind(c.sub[x][y].got, y)
    BY <1>1, <2>2 DEF Fewer, Held, Sound, Ordered
  <2>3. ASSUME NEW x \in Reqs, NEW y \in Paths, Member(c, x, y), c.sub[x][y].got # NoValue, c.stream[y].last # NoValue
        PROVE  c.sub[x][y].got[2] <= c.stream[y].last[2]
    <3>1. Member(b, x, y) /\ c.sub[x][y] = b.sub[x][y] /\ c.stream[y] # NoStream
      BY <1>1, <2>3 DEF Fewer, Member
    <3>2. c.stream[y].last = b.stream[y].last
      BY <1>1, <3>1 DEF Fewer
    <3> QED
      BY <2>3, <3>1, <3>2 DEF Held, Sound, Ordered
  <2> QED
    BY <2>1, <2>2, <2>3 DEF Ordered
<1>5. ASSUME up PROVE Current(c)
  <2> SUFFICES ASSUME NEW y \in Paths, c.stream[y] # NoStream, val[y] # NoValue
               PROVE  Asking(c.out, c.stream[y].sid) \/ Coming(c.stream[y].sid, val[y]) \/ Arrived(c, y)
    BY DEF Current
  <2>1. /\ b.stream[y] # NoStream /\ c.stream[y].sid = b.stream[y].sid
        /\ c.stream[y].last = b.stream[y].last /\ c.stream[y].reqs \subseteq b.stream[y].reqs
    BY <1>1 DEF Fewer
  <2>2. \A s : Asking(b.out, s) => Asking(c.out, s)
    BY <1>1 DEF Fewer
  <2>3. Asking(b.out, b.stream[y].sid) \/ Coming(b.stream[y].sid, val[y]) \/ Arrived(b, y)
    BY <1>5, <2>1 DEF Held, Sound, Current
  <2>4. ASSUME Arrived(b, y) PROVE Arrived(c, y)
    <3>1. ASSUME NEW x \in c.stream[y].reqs PROVE c.sub[x][y].got = val[y]
      <4>1. x \in Reqs /\ x \in b.stream[y].reqs /\ Member(c, x, y)
        BY <2>1, BrokerIs DEF Member
      <4>2. c.sub[x][y] = b.sub[x][y]
        BY <1>1, <4>1 DEF Fewer
      <4> QED
        BY <2>4, <4>1, <4>2 DEF Arrived
    <3> QED
      BY <2>1, <2>4, <3>1 DEF Arrived
  <2> QED
    BY <2>1, <2>2, <2>3, <2>4
<1>6. Placed(c, known)
  <2>1. /\ b.pending \in Seq(Reqs \X Paths) /\ c.pending = Without(b.pending, {<<r, p>>})
    BY BrokerIs DEF Leaves
  <2> DEFINE X == Reqs \X Paths
             S == {<<r, p>>}
             s == b.pending
             t == c.pending
  <2>2. /\ \A x : (\E i \in 1..Len(t) : t[i] = x) <=> x \notin S /\ \E i \in 1..Len(s) : s[i] = x
        /\ Distinct(s) => Distinct(t)
    <3>1. s \in Seq(X) /\ t = Without(s, S)
      BY <2>1
    <3> HIDE DEF X, S, s, t
    <3> QED
      BY <3>1, WithoutIs
  <2>3. \A x \in Reqs, y \in Paths : Waits(c, x, y) <=> Waits(b, x, y) /\ (x # r \/ y # p)
    <3>1. \A x \in Reqs, y \in Paths : <<x, y>> \notin S <=> (x # r \/ y # p)
      OBVIOUS
    <3> HIDE DEF S
    <3> QED
      BY <2>2, <3>1 DEF Waits
  <2>4. Distinct(t)
    BY <2>2 DEF Held, Placed
  <2>5. ASSUME known PROVE c.pending = <<>> /\ \A x \in Reqs, y \in Paths : c.sub[x][y] # NoSub <=> Member(c, x, y)
    <3>1. b.pending = <<>> /\ \A x \in Reqs, y \in Paths : b.sub[x][y] # NoSub <=> Member(b, x, y)
      BY <2>5 DEF Held, Placed
    <3>2. t = <<>>
      <4>1. \A x : ~\E i \in 1..Len(s) : s[i] = x
        BY <3>1
      <4>2. t \in Seq(X)
        BY BrokerIs
      <4>3. \A i \in 1..Len(t) : FALSE
        BY <2>2, <4>1
      <4> HIDE DEF t
      <4> QED
        BY <4>2, <4>3
    <3>3. ASSUME NEW x \in Reqs, NEW y \in Paths PROVE c.sub[x][y] # NoSub <=> Member(c, x, y)
      <4>1. CASE x = r /\ y = p
        BY <1>1, <4>1 DEF Fewer
      <4>2. CASE x # r \/ y # p
        BY <1>1, <3>1, <4>2 DEF Fewer
      <4> QED
        BY <4>1, <4>2
    <3> QED
      BY <3>2, <3>3
  <2>6. ASSUME ~known
        PROVE  /\ \A y \in Paths : c.stream[y] = NoStream
               /\ \A x \in Reqs, y \in Paths : c.sub[x][y] # NoSub <=> Waits(c, x, y)
    <3>1. (\A y \in Paths : b.stream[y] = NoStream) /\ \A x \in Reqs, y \in Paths : b.sub[x][y] # NoSub <=> Waits(b, x, y)
      BY <2>6 DEF Held, Placed
    <3>2. \A y \in Paths : c.stream[y] = NoStream
      BY <1>1, <3>1 DEF Fewer
    <3>3. ASSUME NEW x \in Reqs, NEW y \in Paths PROVE c.sub[x][y] # NoSub <=> Waits(c, x, y)
      <4>1. CASE x = r /\ y = p
        BY <1>1, <2>3, <4>1 DEF Fewer
      <4>2. CASE x # r \/ y # p
        BY <1>1, <2>3, <3>1, <4>2 DEF Fewer
      <4> QED
        BY <4>1, <4>2
    <3> QED
      BY <3>2, <3>3
  <2> QED
    BY <2>4, <2>5, <2>6 DEF Placed
<1> QED
  BY <1>2, <1>3, <1>4, <1>5, <1>6 DEF Held, Sound

\* The subscription of r to p is new, has another qos or enters its stream, and may be handed the last value.
Serves(b, c, r, p) ==
  /\ \A x \in Reqs, y \in Paths : x # r \/ y # p => c.sub[x][y] = b.sub[x][y]
  /\ c.sub[r][p] # NoSub
  /\ \/ b.sub[r][p] # NoSub /\ c.sub[r][p].got = b.sub[r][p].got
        /\ (Member(c, r, p) => Member(b, r, p) \/ c.stream[p].last = NoValue)
     \/ c.stream[p] # NoStream /\ c.stream[p].last # NoValue /\ c.sub[r][p].got = c.stream[p].last
     \/ b.sub[r][p] = NoSub /\ c.sub[r][p].got = NoValue /\ (Member(c, r, p) => c.stream[p].last = NoValue)
  /\ \A y \in Paths : y # p => c.stream[y] = b.stream[y]
  /\ \A x \in Reqs : x # r => (Member(c, x, p) <=> Member(b, x, p))
  /\ b.stream[p] # NoStream => /\ c.stream[p] # NoStream /\ c.stream[p].sid = b.stream[p].sid
                               /\ c.stream[p].last = b.stream[p].last
  /\ b.stream[p] = NoStream /\ c.stream[p] # NoStream =>
       c.stream[p].last = NoValue /\ (up => Asking(c.out, c.stream[p].sid))
  /\ \A x \in Reqs : Member(c, x, p) => c.sub[x][p] # NoSub /\ c.stream[p].qos >= c.sub[x][p].qos
  /\ \A s : Asking(b.out, s) => Asking(c.out, s)

LEMMA ServesSound ==
  ASSUME NEW b \in Broker, NEW c \in Broker, EnvType, Sound(b), NEW r \in Reqs, NEW p \in Paths, Serves(b, c, r, p), Agreed(c)
  PROVE  Sound(c)
<1>1. Covered(c)
  <2> SUFFICES ASSUME NEW x \in Reqs, NEW y \in Paths, Member(c, x, y)
               PROVE  c.sub[x][y] # NoSub /\ c.stream[y].qos >= c.sub[x][y].qos
    BY DEF Covered
  <2>1. CASE y = p
    BY <2>1 DEF Serves
  <2>2. CASE y # p
    <3>1. c.stream[y] = b.stream[y] /\ c.sub[x][y] = b.sub[x][y]
      BY <2>2 DEF Serves
    <3> QED
      BY <3>1 DEF Sound, Covered, Member
  <2> QED
    BY <2>1, <2>2
<1>2. Ordered(c)
  <2>1. ASSUME NEW y \in Paths, c.stream[y] # NoStream PROVE Behind(c.stream[y].last, y)
    <3>1. CASE y # p
      <4>1. c.stream[y] = b.stream[y]
        BY <3>1 DEF Serves
      <4> QED
        BY <2>1, <4>1 DEF Sound, Ordered
    <3>2. CASE y = p /\ b.stream[p] # NoStream
      <4>1. c.stream[y].last = b.stream[y].last
        BY <3>2 DEF Serves
      <4> QED
        BY <3>2, <4>1 DEF Sound, Ordered
    <3>3. CASE y = p /\ b.stream[p] = NoStream
      <4>1. c.stream[y].last = NoValue
        BY <2>1, <3>3 DEF Serves
      <4> QED
        BY <4>1 DEF Behind
    <3> QED
      BY <3>1, <3>2, <3>3
  <2>2. ASSUME NEW x \in Reqs, NEW y \in Paths, c.sub[x][y] # NoSub PROVE Behind(c.sub[x][y].got, y)
    <3>1. CASE x # r \/ y # p
      <4>1. c.sub[x][y] = b.sub[x][y]
        BY <3>1 DEF Serves
      <4> QED
        BY <2>2, <4>1 DEF Sound, Ordered
    <3>2. CASE x = r /\ y = p
      <4>1. \/ b.sub[r][p] # NoSub /\ c.sub[r][p].got = b.sub[r][p].got
            \/ c.stream[p] # NoStream /\ c.sub[r][p].got = c.stream[p].last
            \/ c.sub[r][p].got = NoValue
        BY DEF Serves
      <4>2. CASE b.sub[r][p] # NoSub /\ c.sub[r][p].got = b.sub[r][p].got
        BY <3>2, <4>2 DEF Sound, Ordered
      <4>3. CASE c.stream[p] # NoStream /\ c.sub[r][p].got = c.stream[p].last
        BY <2>1, <3>2, <4>3
      <4>4. CASE c.sub[r][p].got = NoValue
        BY <3>2, <4>4 DEF Behind
      <4> QED
        BY <4>1, <4>2, <4>3, <4>4
    <3> QED
      BY <3>1, <3>2
  <2>3. ASSUME NEW x \in Reqs, NEW y \in Paths, Member(c, x, y), c.sub[x][y].got # NoValue, c.stream[y].last # NoValue
        PROVE  c.sub[x][y].got[2] <= c.stream[y].last[2]
    <3>1. CASE y # p
      <4>1. c.stream[y] = b.stream[y] /\ c.sub[x][y] = b.sub[x][y]
        BY <3>1 DEF Serves
      <4> QED
        BY <2>3, <4>1 DEF Sound, Ordered, Member
    <3>2. b.stream[p] = NoStream /\ y = p => FALSE
      BY <2>3 DEF Serves, Member
    <3>3. CASE y = p /\ x # r
      <4>1. c.sub[x][y] = b.sub[x][y] /\ Member(b, x, y) /\ c.stream[y].last = b.stream[y].last
        BY <2>3, <3>2, <3>3 DEF Serves
      <4> QED
        BY <2>3, <4>1 DEF Sound, Ordered
    <3>4. CASE y = p /\ x = r
      <4>1. \/ c.sub[r][p].got = b.sub[r][p].got /\ Member(b, r, p)
            \/ c.sub[r][p].got = c.stream[p].last
        BY <2>3, <3>4 DEF Serves
      <4>2. c.stream[y].last = b.stream[y].last
        BY <3>2, <3>4 DEF Serves
      <4>3. CASE c.sub[r][p].got = b.sub[r][p].got /\ Member(b, r, p)
        BY <2>3, <3>4, <4>2, <4>3 DEF Sound, Ordered
      <4>4. CASE c.sub[r][p].got = c.stream[p].last
        <5>1. c.stream[p].last \in Value
          BY <2>3, <3>4, BrokerIs DEF Member
        <5>2. c.stream[p].last[2] \in Nat
          BY <5>1 DEF Value
        <5> QED
          BY <3>4, <4>4, <5>2
      <4> QED
        BY <4>1, <4>3, <4>4
    <3> QED
      BY <3>1, <3>3, <3>4
  <2> QED
    BY <2>1, <2>2, <2>3 DEF Ordered
<1>3. ASSUME up PROVE Current(c)
  <2> SUFFICES ASSUME NEW y \in Paths, c.stream[y] # NoStream, val[y] # NoValue
               PROVE  Asking(c.out, c.stream[y].sid) \/ Coming(c.stream[y].sid, val[y]) \/ Arrived(c, y)
    BY DEF Current
  <2>1. \A s : Asking(b.out, s) => Asking(c.out, s)
    BY DEF Serves
  <2>2. CASE y # p
    <3>1. c.stream[y] = b.stream[y] /\ \A x \in Reqs : c.sub[x][y] = b.sub[x][y]
      BY <2>2 DEF Serves
    <3>2. Asking(b.out, b.stream[y].sid) \/ Coming(b.stream[y].sid, val[y]) \/ Arrived(b, y)
      BY <1>3, <3>1 DEF Sound, Current
    <3>3. Arrived(b, y) => Arrived(c, y)
      <4>1. c.stream[y].reqs \subseteq Reqs
        BY BrokerIs
      <4> QED
        BY <3>1, <4>1 DEF Arrived
    <3> QED
      BY <2>1, <3>1, <3>2, <3>3
  <2>3. CASE y = p /\ b.stream[p] = NoStream
    BY <1>3, <2>3 DEF Serves
  <2>4. CASE y = p /\ b.stream[p] # NoStream
    <3>1. c.stream[p].sid = b.stream[p].sid /\ c.stream[p].last = b.stream[p].last
      BY <2>4 DEF Serves
    <3>2. Asking(b.out, b.stream[p].sid) \/ Coming(b.stream[p].sid, val[p]) \/ Arrived(b, p)
      BY <1>3, <2>4 DEF Sound, Current
    <3>3. ASSUME Arrived(b, p) PROVE Arrived(c, p)
      <4>1. c.stream[p].last = val[p] /\ \A i \in 1..Len(fromResp) : fromResp[i].sid # c.stream[p].sid
        BY <3>1, <3>3 DEF Arrived
      <4>2. ASSUME NEW x \in c.stream[p].reqs PROVE c.sub[x][p].got = val[p]
        <5>1. x \in Reqs /\ Member(c, x, p)
          BY <2>4, BrokerIs DEF Member
        <5>2. CASE x # r
          <6>1. c.sub[x][p] = b.sub[x][p] /\ Member(b, x, p)
            BY <5>1, <5>2 DEF Serves
          <6> QED
            BY <3>3, <6>1 DEF Arrived, Member
        <5>3. CASE x = r
          <6>1. c.stream[p].last # NoValue
            BY <2>4, <4>1
          <6>2. \/ c.sub[r][p].got = b.sub[r][p].got /\ Member(b, r, p)
                \/ c.sub[r][p].got = c.stream[p].last
            BY <5>1, <5>3, <6>1 DEF Serves
          <6> QED
            BY <3>3, <4>1, <5>3, <6>2 DEF Arrived, Member
        <5> QED
          BY <5>2, <5>3
      <4> QED
        BY <4>1, <4>2 DEF Arrived
    <3> QED
      BY <2>1, <2>4, <3>1, <3>2, <3>3
  <2> QED
    BY <2>2, <2>3, <2>4
<1> QED
  BY <1>1, <1>2, <1>3 DEF Sound

\* d is b with another subscription of r to p, which has the same value or none
Set(b, d, r, p) ==
  /\ d.stream = b.stream /\ d.pending = b.pending /\ d.sid = b.sid /\ d.out = b.out
  /\ \A x \in Reqs, y \in Paths : x # r \/ y # p => d.sub[x][y] = b.sub[x][y]
  /\ d.sub[r][p] # NoSub
  /\ IF b.sub[r][p] = NoSub THEN d.sub[r][p].got = NoValue ELSE d.sub[r][p].got = b.sub[r][p].got

LEMMA AgreedSame ==
  ASSUME NEW b \in Broker, NEW c \in Broker, EnvType, Agreed(b), c.stream = b.stream, c.sid = b.sid, c.out = b.out
  PROVE  Agreed(c)
<1>1. SidOf(c) = SidOf(b)
  BY DEF SidOf
<1> QED
  BY <1>1 DEF Agreed, OwnedBy

\* A handler hands over the last value of the stream.
LEMMA HandIs ==
  ASSUME NEW b \in Broker, NEW r \in Reqs, NEW p \in Paths, b.sub[r][p] # NoSub, NEW l \in Value \cup {NoValue}
  PROVE  LET c == Hand(b, r, p, l) IN
         /\ c \in Broker /\ c.stream = b.stream /\ c.pending = b.pending /\ c.sid = b.sid /\ c.out = b.out
         /\ c.sub = IF l = NoValue THEN b.sub ELSE [b.sub EXCEPT ![r][p].got = l]
<1> DEFINE c == Hand(b, r, p, l)
<1>1. /\ Fields(b) /\ b.sub \in Subs /\ b.stream \in [Paths -> Stream \cup {NoStream}]
      /\ b.pending \in Seq(Reqs \X Paths) /\ b.sid \in Nat /\ b.out \in Seq(Msg) /\ b.sub[r][p] \in SubRequester
  BY BrokerIs
<1>2. CASE l = NoValue
  BY <1>2 DEF Hand
<1>3. CASE l # NoValue
  <2> DEFINE S == [b.sub EXCEPT ![r][p].got = l]
  <2>1. c = [b EXCEPT !.sub[r][p].got = l]
    BY <1>3 DEF Hand
  <2>2. S \in Subs
    <3>1. [b.sub[r][p] EXCEPT !.got = l] \in SubRequester
      BY <1>1 DEF SubRequester
    <3> QED
      BY <1>1, <3>1 DEF Subs
  <2> HIDE DEF c, S
  <2>3. \A x, y, v : [b EXCEPT !.sub[x][y].got = v]
              = [sub |-> [b.sub EXCEPT ![x][y].got = v], stream |-> b.stream, pending |-> b.pending, sid |-> b.sid, out |-> b.out]
    BY ONLY <1>1, FieldsSet
  <2>4. c = [sub |-> S, stream |-> b.stream, pending |-> b.pending, sid |-> b.sid, out |-> b.out]
    BY <2>1, <2>3 DEF S
  <2>5. c \in Broker
    BY <1>1, <2>2, <2>4 DEF Broker
  <2> QED
    BY <1>3, <2>4, <2>5 DEF c, S
<1> QED
  BY <1>2, <1>3

\* The got of one subscription changed, if at all.
GotFrom(S, T, r, p, l) ==
  /\ S \in Subs /\ S[r][p] # NoSub /\ l \in Value \cup {NoValue}
  /\ T = IF l = NoValue THEN S ELSE [S EXCEPT ![r][p].got = l]
GotIs(S, T, r, p, l) ==
  /\ \A x \in Reqs, y \in Paths : x # r \/ y # p => T[x][y] = S[x][y]
  /\ T[r][p] # NoSub /\ T[r][p].qos = S[r][p].qos /\ T[r][p].got = IF l = NoValue THEN S[r][p].got ELSE l

LEMMA GotSet ==
  ASSUME NEW S, NEW T, NEW r \in Reqs, NEW p \in Paths, NEW l, GotFrom(S, T, r, p, l)
  PROVE  GotIs(S, T, r, p, l)
<1>1. CASE l = NoValue
  BY <1>1 DEF GotFrom, GotIs
<1>2. CASE l # NoValue
  <2>1. S \in Subs /\ S[r][p] \in SubRequester /\ l \in Value
    BY <1>2 DEF Subs, GotFrom
  <2> DEFINE g == [S[r][p] EXCEPT !.got = l]
  <2>2. g \in SubRequester /\ g.qos = S[r][p].qos /\ g.got = l
    BY <2>1 DEF SubRequester
  <2>3. T = [S EXCEPT ![r] = [S[r] EXCEPT ![p] = g]]
    BY <1>2 DEF GotFrom
  <2> HIDE DEF g
  <2>4. T[r][p] = g /\ \A x \in Reqs, y \in Paths : x # r \/ y # p => T[x][y] = S[x][y]
    BY <2>1, <2>3 DEF Subs
  <2> QED
    BY <1>2, <2>2, <2>4, NoneApart DEF GotIs
<1> QED
  BY <1>1, <1>2

LEMMA EntersServes ==
  ASSUME NEW b \in Broker, NEW d \in Broker, NEW c \in Broker, EnvType, Known(b),
         NEW r \in Reqs, NEW p \in Paths, Set(b, d, r, p), Enters(d, c, up, r, p)
  PROVE  Serves(b, c, r, p) /\ Member(c, r, p)
<1>e. PICK q \in 0..2, s \in Nat, l \in Value \cup {NoValue}, R \in SUBSET Reqs : EntersAs(d, c, up, r, p, q, s, l, R)
  BY DEF Enters
<1>1. /\ d.stream[p] = NoStream =>
           s = d.sid /\ l = NoValue /\ R = {r} /\ c.sid = d.sid + 1 /\ (up => c.out # d.out)
      /\ d.stream[p] # NoStream =>
           s = d.stream[p].sid /\ l = d.stream[p].last /\ R = d.stream[p].reqs \cup {r} /\ c.sid = d.sid
      /\ c.stream = [d.stream EXCEPT ![p] = [sid |-> s, qos |-> q, reqs |-> R, last |-> l]]
      /\ \A x \in R : q >= d.sub[x][p].qos
      /\ c.sub = IF l = NoValue THEN d.sub ELSE [d.sub EXCEPT ![r][p].got = l]
      /\ Asked(d, c, up, p, s, q)
  BY <1>e DEF EntersAs
<1>2. d.stream = b.stream /\ d.out = b.out /\ d.sub \in Subs /\ d.sub[r][p] # NoSub /\ b.out \in Seq(Msg)
      /\ b.stream \in [Paths -> Stream \cup {NoStream}]
  BY BrokerIs DEF Set
<1> DEFINE st == [sid |-> s, qos |-> q, reqs |-> R, last |-> l]
<1>3. st # NoStream /\ st.sid = s /\ st.reqs = R /\ st.qos = q /\ st.last = l /\ r \in R
  <2>1. r \in R
    BY <1>1
  <2> QED
    BY <2>1, StreamIs
<1> HIDE DEF st
<1>4. c.stream[p] = st /\ \A x \in Paths : x # p => c.stream[x] = b.stream[x]
  BY <1>1, <1>2 DEF st
<1>5. /\ \A x \in Reqs, y \in Paths : x # r \/ y # p => c.sub[x][y] = d.sub[x][y]
      /\ c.sub[r][p] # NoSub /\ c.sub[r][p].qos = d.sub[r][p].qos
      /\ c.sub[r][p].got = IF l = NoValue THEN d.sub[r][p].got ELSE l
  <2>1. GotFrom(d.sub, c.sub, r, p, l)
    BY <1>1, <1>2 DEF GotFrom
  <2>2. GotIs(d.sub, c.sub, r, p, l)
    BY <2>1, GotSet
  <2> QED
    BY <2>2 DEF GotIs
<1>6. \A x \in Reqs, y \in Paths : x # r \/ y # p => c.sub[x][y] = b.sub[x][y]
  BY <1>5 DEF Set
<1>7. \A x \in Reqs : x # r => (Member(c, x, p) <=> Member(b, x, p))
  BY <1>1, <1>2, <1>3, <1>4 DEF Member
<1>8. Member(c, r, p)
  BY <1>3, <1>4 DEF Member
<1>9. /\ b.stream[p] # NoStream => /\ c.stream[p] # NoStream /\ c.stream[p].sid = b.stream[p].sid
                                   /\ c.stream[p].last = b.stream[p].last
      /\ b.stream[p] = NoStream => c.stream[p].last = NoValue
  BY <1>1, <1>2, <1>3, <1>4
<1>10. /\ \A t : Asking(b.out, t) => Asking(c.out, t)
       /\ c.out # b.out => Asking(c.out, s)
  <2>1. CASE c.out = b.out
    BY <2>1
  <2>2. CASE c.out = Append(b.out, Ask(p, s, q))
    <3>1. Ask(p, s, q) \in Msg /\ Ask(p, s, q).method = "subscribe" /\ Ask(p, s, q).sid = s
      BY MsgIs DEF Ask
    <3> QED
      BY <1>2, <2>2, <3>1, AskingMore
  <2> QED
    BY <1>1, <1>2, <2>1, <2>2 DEF Asked
<1>11. b.stream[p] = NoStream /\ up => Asking(c.out, c.stream[p].sid)
  BY <1>1, <1>2, <1>3, <1>4, <1>10
<1>12. ASSUME NEW x \in Reqs, Member(c, x, p) PROVE c.sub[x][p] # NoSub /\ c.stream[p].qos >= c.sub[x][p].qos
  <2>1. x \in R /\ q >= d.sub[x][p].qos /\ c.stream[p].qos = q
    BY <1>1, <1>3, <1>4, <1>12 DEF Member
  <2>2. CASE x = r
    BY <1>5, <2>1, <2>2
  <2>3. CASE x # r
    <3>1. c.sub[x][p] = d.sub[x][p] /\ c.sub[x][p] = b.sub[x][p] /\ Member(b, x, p)
      BY <1>5, <1>6, <1>7, <1>12, <2>3
    <3> QED
      BY <2>1, <3>1 DEF Known
  <2> QED
    BY <2>2, <2>3
<1>13. \/ b.sub[r][p] # NoSub /\ c.sub[r][p].got = b.sub[r][p].got
        /\ (Member(c, r, p) => Member(b, r, p) \/ c.stream[p].last = NoValue)
       \/ c.stream[p] # NoStream /\ c.stream[p].last # NoValue /\ c.sub[r][p].got = c.stream[p].last
       \/ b.sub[r][p] = NoSub /\ c.sub[r][p].got = NoValue /\ (Member(c, r, p) => c.stream[p].last = NoValue)
  <2>1. CASE l # NoValue
    BY <1>3, <1>4, <1>5, <2>1
  <2>2. CASE l = NoValue
    <3>1. c.sub[r][p].got = d.sub[r][p].got /\ c.stream[p].last = NoValue
      BY <1>3, <1>4, <1>5, <2>2
    <3> QED
      BY <3>1 DEF Set
  <2> QED
    BY <2>1, <2>2
<1>14. Serves(b, c, r, p)
  BY <1>4, <1>5, <1>6, <1>7, <1>9, <1>10, <1>11, <1>12, <1>13 DEF Serves
<1> QED
  BY <1>8, <1>14

\* Another qos that nothing needs to be told of
LEMMA SetServes ==
  ASSUME NEW b \in Broker, NEW d \in Broker, Covered(b), NEW r \in Reqs, NEW p \in Paths, Set(b, d, r, p), b.sub[r][p] # NoSub,
         b.stream[p] = NoStream \/ d.sub[r][p].qos = b.sub[r][p].qos
  PROVE  Serves(b, d, r, p)
<1>1. \A x \in Reqs, y \in Paths : Member(d, x, y) <=> Member(b, x, y)
  BY DEF Set, Member
<1>2. ASSUME NEW x \in Reqs, Member(d, x, p) PROVE d.sub[x][p] # NoSub /\ d.stream[p].qos >= d.sub[x][p].qos
  <2>1. Member(b, x, p) /\ b.stream[p] # NoStream /\ d.stream[p] = b.stream[p]
    BY <1>1, <1>2 DEF Set, Member
  <2>2. d.sub[x][p] # NoSub /\ d.sub[x][p].qos = b.sub[x][p].qos
    BY <2>1 DEF Set, Covered
  <2> QED
    BY <2>1, <2>2 DEF Covered
<1> QED
  BY <1>1, <1>2 DEF Serves, Set

LEMMA RequotedServes ==
  ASSUME NEW b \in Broker, NEW d \in Broker, NEW c \in Broker, Known(b), NEW r \in Reqs, NEW p \in Paths,
         Set(b, d, r, p), b.sub[r][p] # NoSub, b.stream[p] # NoStream, Requoted(d, c, up, p)
  PROVE  Serves(b, c, r, p) /\ \A x \in Reqs, y \in Paths : Member(c, x, y) <=> Member(b, x, y)
<1>1. PICK q \in 0..2 :
        /\ c.stream = [d.stream EXCEPT ![p].qos = q] /\ \A x \in d.stream[p].reqs : q >= d.sub[x][p].qos
        /\ c.sub = d.sub /\ Asked(d, c, up, p, d.stream[p].sid, q)
  BY DEF Requoted
<1>2. d.stream = b.stream /\ d.out = b.out /\ b.out \in Seq(Msg) /\ b.stream[p] \in Stream /\ b.stream[p].sid \in Nat
      /\ b.stream \in [Paths -> Stream \cup {NoStream}]
  BY BrokerIs DEF Set
<1> DEFINE st == [b.stream[p] EXCEPT !.qos = q]
<1>3. st # NoStream /\ st.sid = b.stream[p].sid /\ st.reqs = b.stream[p].reqs /\ st.qos = q /\ st.last = b.stream[p].last
  <2>1. st \in Stream
    BY <1>2 DEF Stream
  <2> QED
    BY <1>2, <2>1, NoneApart DEF Stream
<1>4. c.stream[p] = st /\ \A x \in Paths : x # p => c.stream[x] = b.stream[x]
  BY <1>1, <1>2
<1> HIDE DEF st
<1>5. \A x \in Reqs, y \in Paths : Member(c, x, y) <=> Member(b, x, y)
  BY <1>3, <1>4 DEF Member
<1>6. \A t : Asking(b.out, t) => Asking(c.out, t)
  <2>1. CASE c.out = b.out
    BY <2>1
  <2>2. CASE c.out = Append(b.out, Ask(p, b.stream[p].sid, q))
    <3>1. Ask(p, b.stream[p].sid, q) \in Msg
      BY <1>2, MsgIs
    <3> QED
      BY <1>2, <2>2, <3>1, AskingMore
  <2> QED
    BY <1>1, <1>2, <2>1, <2>2 DEF Asked
<1>7. ASSUME NEW x \in Reqs, Member(c, x, p) PROVE c.sub[x][p] # NoSub /\ c.stream[p].qos >= c.sub[x][p].qos
  <2>1. Member(b, x, p) /\ x \in d.stream[p].reqs
    BY <1>2, <1>5, <1>7 DEF Member
  <2>2. c.sub[x][p] # NoSub
    BY <1>1, <2>1 DEF Set, Known
  <2> QED
    BY <1>1, <1>3, <1>4, <2>1, <2>2
<1>8. c.sub[r][p] # NoSub /\ c.sub[r][p].got = b.sub[r][p].got
      /\ \A x \in Reqs, y \in Paths : x # r \/ y # p => c.sub[x][y] = b.sub[x][y]
  BY <1>1 DEF Set
<1>9. Serves(b, c, r, p)
  BY <1>3, <1>4, <1>5, <1>6, <1>7, <1>8 DEF Serves
<1> QED
  BY <1>5, <1>9

LEMMA HandServes ==
  ASSUME NEW b \in Broker, NEW d \in Broker, NEW c \in Broker, NEW r \in Reqs, NEW p \in Paths,
         Serves(b, d, r, p), d.stream[p] # NoStream, c = Hand(d, r, p, d.stream[p].last)
  PROVE  Serves(b, c, r, p) /\ c.stream = d.stream /\ c.pending = d.pending /\ c.sid = d.sid /\ c.out = d.out
<1> DEFINE l == d.stream[p].last
<1>1. l \in Value \cup {NoValue} /\ d.sub[r][p] # NoSub /\ d.sub \in Subs
  BY BrokerIs DEF Serves
<1>2. /\ c.stream = d.stream /\ c.pending = d.pending /\ c.sid = d.sid /\ c.out = d.out
      /\ c.sub = IF l = NoValue THEN d.sub ELSE [d.sub EXCEPT ![r][p].got = l]
  BY <1>1, HandIs
<1>3. \A x \in Reqs, y \in Paths : Member(c, x, y) <=> Member(d, x, y)
  BY <1>2 DEF Member
<1>4. CASE l = NoValue
  BY <1>2, <1>3, <1>4 DEF Serves
<1>5. CASE l # NoValue
  <2> HIDE DEF l
  <2>1. /\ \A x \in Reqs, y \in Paths : x # r \/ y # p => c.sub[x][y] = d.sub[x][y]
        /\ c.sub[r][p] # NoSub /\ c.sub[r][p].qos = d.sub[r][p].qos
        /\ c.sub[r][p].got = IF l = NoValue THEN d.sub[r][p].got ELSE l
    <3>1. GotFrom(d.sub, c.sub, r, p, l)
      BY <1>1, <1>2 DEF GotFrom
    <3>2. GotIs(d.sub, c.sub, r, p, l)
      BY <3>1, GotSet
    <3> QED
      BY <3>2 DEF GotIs
  <2>2. ASSUME NEW x \in Reqs, Member(c, x, p) PROVE c.sub[x][p] # NoSub /\ c.stream[p].qos >= c.sub[x][p].qos
    <3>1. d.sub[x][p] # NoSub /\ d.stream[p].qos >= d.sub[x][p].qos
      BY <1>3, <2>2 DEF Serves
    <3>2. c.sub[x][p] # NoSub /\ c.sub[x][p].qos = d.sub[x][p].qos
      BY <2>1, <3>1
    <3> QED
      BY <1>2, <3>1, <3>2
  <2>3. \A x \in Reqs, y \in Paths : x # r \/ y # p => c.sub[x][y] = b.sub[x][y]
    BY <2>1 DEF Serves
  <2>4. /\ \A y \in Paths : y # p => c.stream[y] = b.stream[y]
        /\ \A x \in Reqs : x # r => (Member(c, x, p) <=> Member(b, x, p))
        /\ b.stream[p] # NoStream => /\ c.stream[p] # NoStream /\ c.stream[p].sid = b.stream[p].sid
                                     /\ c.stream[p].last = b.stream[p].last
        /\ b.stream[p] = NoStream /\ c.stream[p] # NoStream =>
             c.stream[p].last = NoValue /\ (up => Asking(c.out, c.stream[p].sid))
        /\ \A s : Asking(b.out, s) => Asking(c.out, s)
    BY <1>2, <1>3 DEF Serves
  <2>5. c.stream[p] # NoStream /\ c.stream[p].last # NoValue /\ c.sub[r][p].got = c.stream[p].last
    BY <1>2, <1>5, <2>1 DEF l
  <2> QED
    BY <1>2, <2>1, <2>2, <2>3, <2>4, <2>5 DEF Serves
<1> QED
  BY <1>2, <1>4, <1>5

LEMMA CoveredKnown ==
  ASSUME NEW b, Covered(b) PROVE Known(b)
BY DEF Covered, Known

LEMMA HeldIs ==
  ASSUME NEW b, Held(b)
  PROVE  b \in Broker /\ Placed(b, known) /\ Sound(b) /\ Agreed(b) /\ Covered(b) /\ Ordered(b) /\ Known(b)
<1>1. b \in Broker /\ Placed(b, known) /\ Sound(b) /\ Agreed(b) /\ Covered(b) /\ Ordered(b)
  BY DEF Held, Sound
<1> QED
  BY <1>1, CoveredKnown

-----------------------------------------------------------------------------
\* A subscription that lives on has no older value than before.
Forward(b, c) ==
  \A x \in Reqs, y \in Paths : b.sub[x][y] # NoSub /\ c.sub[x][y] # NoSub /\ b.sub[x][y].got # NoValue =>
    c.sub[x][y].got # NoValue /\ c.sub[x][y].got[2] >= b.sub[x][y].got[2]
\* Subscriptions are as they were or gone.
Shrunk(b, c) == \A x \in Reqs, y \in Paths : c.sub[x][y] = b.sub[x][y] \/ c.sub[x][y] = NoSub

LEMMA GotNat ==
  ASSUME NEW b \in Broker, NEW x \in Reqs, NEW y \in Paths, b.sub[x][y] # NoSub, b.sub[x][y].got # NoValue
  PROVE  b.sub[x][y].got[2] \in Nat
<1>1. b.sub[x][y].got \in Value
  BY BrokerIs
<1> QED
  BY <1>1 DEF Value

LEMMA ServesForward ==
  ASSUME NEW b, Held(b), NEW c \in Broker, NEW r \in Reqs, NEW p \in Paths, Serves(b, c, r, p)
  PROVE  Forward(b, c)
<1> SUFFICES ASSUME NEW x \in Reqs, NEW y \in Paths, b.sub[x][y] # NoSub, c.sub[x][y] # NoSub, b.sub[x][y].got # NoValue
             PROVE  c.sub[x][y].got # NoValue /\ c.sub[x][y].got[2] >= b.sub[x][y].got[2]
  BY DEF Forward
<1>1. b \in Broker /\ Placed(b, known) /\ Ordered(b)
  BY HeldIs
<1>2. b.sub[x][y].got[2] \in Nat
  BY <1>1, GotNat
<1>3. CASE c.sub[x][y].got = b.sub[x][y].got
  BY <1>2, <1>3
<1>4. CASE c.sub[x][y].got # b.sub[x][y].got
  <2>1. x = r /\ y = p
    BY <1>4 DEF Serves
  <2>2. c.stream[p] # NoStream /\ c.stream[p].last # NoValue /\ c.sub[r][p].got = c.stream[p].last
    BY <1>4, <2>1 DEF Serves
  <2>3. b.stream[p] # NoStream
    BY <2>2 DEF Serves
  <2>4. c.stream[p].last = b.stream[p].last
    BY <2>3 DEF Serves
  <2>5. known
    BY <1>1, <2>3 DEF Placed
  <2>6. Member(b, r, p)
    BY <1>1, <2>1, <2>5 DEF Placed
  <2>7. b.sub[r][p].got[2] <= b.stream[p].last[2]
    BY <1>1, <2>1, <2>2, <2>4, <2>6 DEF Ordered
  <2>8. b.stream[p].last \in Value
    BY <1>1, <2>2, <2>3, <2>4, BrokerIs
  <2>9. b.stream[p].last[2] \in Nat
    BY <2>8 DEF Value
  <2> QED
    BY <1>2, <2>1, <2>2, <2>4, <2>7, <2>9
<1> QED
  BY <1>3, <1>4

-----------------------------------------------------------------------------
\* The subscription of r to p becomes n.
LEMMA SubSetIs ==
  ASSUME NEW b \in Broker, NEW r \in Reqs, NEW p \in Paths, NEW n \in SubRequester,
         IF b.sub[r][p] = NoSub THEN n.got = NoValue ELSE n.got = b.sub[r][p].got
  PROVE  LET d == [b EXCEPT !.sub[r][p] = n] IN d \in Broker /\ Set(b, d, r, p) /\ d.sub[r][p] = n /\ Fields(d)
<1> DEFINE d == [b EXCEPT !.sub[r][p] = n]
           S == [b.sub EXCEPT ![r][p] = n]
<1>1. /\ Fields(b) /\ b.sub \in Subs /\ b.stream \in [Paths -> Stream \cup {NoStream}]
      /\ b.pending \in Seq(Reqs \X Paths) /\ b.sid \in Nat /\ b.out \in Seq(Msg)
  BY BrokerIs
<1>2. S \in Subs /\ S[r][p] = n /\ \A x \in Reqs, y \in Paths : x # r \/ y # p => S[x][y] = b.sub[x][y]
  BY <1>1 DEF Subs
<1> HIDE DEF S
<1>3. d = [sub |-> S, stream |-> b.stream, pending |-> b.pending, sid |-> b.sid, out |-> b.out]
  BY <1>1 DEF Fields, S
<1> HIDE DEF d
<1>4. d \in Broker /\ Fields(d)
  BY <1>1, <1>2, <1>3 DEF Broker, Fields
<1>5. n # NoSub
  BY NoneApart
<1>6. Set(b, d, r, p)
  BY <1>2, <1>3, <1>5 DEF Set
<1> QED
  BY <1>2, <1>3, <1>4, <1>6 DEF d

LEMMA WithoutSidIs ==
  ASSUME NEW b, Held(b), EnvType, NEW r \in Reqs, NEW p \in Paths, NEW o \in Paths
  PROVE  LET c == WithoutSid(b, r, p, o) IN
         /\ Held(c) /\ c \in Broker /\ c.sub[r][p] = b.sub[r][p] /\ c.stream[p] = b.stream[p]
         /\ Shrunk(b, c)
<1>0. b \in Broker
  BY HeldIs
<1>1. CASE o = p
  BY <1>0, <1>1 DEF WithoutSid, Shrunk
<1>2. CASE o # p
  <2> DEFINE c == FreeSub(b, up, r, o)
  <2>1. WithoutSid(b, r, p, o) = c
    BY <1>2 DEF WithoutSid
  <2>2. c \in Broker /\ Leaves(b, c, up, r, o)
    BY <1>0, FreeSubIs DEF EnvType
  <2> HIDE DEF c
  <2>3. Held(c) /\ Fewer(b, c, r, o)
    BY <1>0, <2>2, LeavesHeld, LeavesFewer
  <2>4. c.sub[r][p] = b.sub[r][p] /\ Shrunk(b, c)
    BY <1>2, <2>3 DEF Fewer, Shrunk
  <2>5. c.stream[p] = b.stream[p]
    <3>1. b.stream \in [Paths -> Stream \cup {NoStream}]
      BY <1>0, BrokerIs
    <3> QED
      BY <1>2, <2>2, <3>1 DEF Leaves
  <2> QED
    BY <2>1, <2>2, <2>3, <2>4, <2>5
<1> QED
  BY <1>1, <1>2

\* handle_subscribe of a new path, the responder known
LEMMA JoinHeld ==
  ASSUME NEW b, Held(b), EnvType, known, NEW r \in Reqs, NEW p \in Paths, b.sub[r][p] = NoSub,
         NEW n \in SubRequester, n.got = NoValue
  PROVE  LET c == SubscribeRemote([b EXCEPT !.sub[r][p] = n], up, r, p) IN Held(c) /\ c \in Broker /\ Forward(b, c)
           /\ \A x \in Reqs, y \in Paths : x # r \/ y # p => c.sub[x][y] = b.sub[x][y]
<1> DEFINE d == [b EXCEPT !.sub[r][p] = n]
           c == SubscribeRemote(d, up, r, p)
<1>0. b \in Broker /\ Placed(b, known) /\ Sound(b) /\ Agreed(b) /\ Known(b)
  BY HeldIs
<1>1. d \in Broker /\ Set(b, d, r, p) /\ d.sub[r][p] = n
  BY <1>0, SubSetIs
<1> HIDE DEF d
<1>2. Known(d)
  <2> SUFFICES ASSUME NEW x \in Reqs, NEW y \in Paths, Member(d, x, y) PROVE d.sub[x][y] # NoSub
    BY DEF Known
  <2>1. Member(b, x, y)
    BY <1>1 DEF Set, Member
  <2> QED
    BY <1>0, <1>1, <2>1 DEF Set, Known
<1>3. Agreed(d)
  BY <1>0, <1>1, AgreedSame DEF Set
<1>4. c \in Broker /\ Enters(d, c, up, r, p)
  BY <1>1, <1>2, NoneApart, SubscribeRemoteIs DEF EnvType
<1> HIDE DEF c
<1>5. Agreed(c)
  BY <1>1, <1>3, <1>4, EntersAgreed
<1>6. Serves(b, c, r, p) /\ Member(c, r, p)
  BY <1>0, <1>1, <1>4, EntersServes
<1>7. Sound(c)
  BY <1>0, <1>4, <1>5, <1>6, ServesSound
<1>8. c.pending = b.pending
  BY <1>1, <1>4 DEF Enters, EntersAs, Set
<1>9. Placed(c, known)
  <2>1. ASSUME NEW x \in Reqs, NEW y \in Paths PROVE c.sub[x][y] # NoSub <=> Member(c, x, y)
    <3>1. CASE x = r /\ y = p
      BY <1>6, <3>1 DEF Serves
    <3>2. CASE ~(x = r /\ y = p)
      <4>1. c.sub[x][y] = b.sub[x][y] /\ (b.sub[x][y] # NoSub <=> Member(b, x, y))
        BY <1>0, <1>6, <3>2 DEF Serves, Placed
      <4>2. Member(c, x, y) <=> Member(b, x, y)
        BY <1>6, <3>2 DEF Serves, Member
      <4> QED
        BY <4>1, <4>2
    <3> QED
      BY <3>1, <3>2
  <2> QED
    BY <1>0, <1>8, <2>1 DEF Placed
<1>10. Forward(b, c)
  BY <1>4, <1>6, ServesForward
<1> QED
  BY <1>4, <1>6, <1>7, <1>9, <1>10 DEF c, d, Held, Serves

\* handle_subscribe of a new path, the responder not known
WaitCall(b, r, p, n) == [[b EXCEPT !.sub[r][p] = n] EXCEPT !.pending = Append(@, <<r, p>>)]

LEMMA WaitHeld ==
  ASSUME NEW b, Held(b), EnvType, ~known, NEW r \in Reqs, NEW p \in Paths, b.sub[r][p] = NoSub,
         NEW n \in SubRequester, n.got = NoValue
  PROVE  LET c == WaitCall(b, r, p, n) IN Held(c) /\ c \in Broker /\ Forward(b, c)
           /\ \A x \in Reqs, y \in Paths : x # r \/ y # p => c.sub[x][y] = b.sub[x][y]
<1> DEFINE d == [b EXCEPT !.sub[r][p] = n]
           w == Append(b.pending, <<r, p>>)
           c == [d EXCEPT !.pending = Append(@, <<r, p>>)]
<1>0. b \in Broker /\ Placed(b, known) /\ Sound(b) /\ Agreed(b) /\ Known(b)
  BY HeldIs
<1>1. d \in Broker /\ Set(b, d, r, p) /\ d.sub[r][p] = n /\ Fields(d)
  BY <1>0, SubSetIs
<1>2. /\ b.stream \in [Paths -> Stream \cup {NoStream}] /\ d.sub \in Subs
      /\ b.pending \in Seq(Reqs \X Paths) /\ b.sid \in Nat /\ b.out \in Seq(Msg)
  BY <1>0, <1>1, BrokerIs
<1> HIDE DEF d
<1>3. c = [sub |-> d.sub, stream |-> b.stream, pending |-> w, sid |-> b.sid, out |-> b.out]
  <2>1. c = [d EXCEPT !.pending = w]
    BY <1>1 DEF Set
  <2> HIDE DEF c, w
  <2> QED
    BY <1>1, <2>1 DEF Fields, Set
<1>4. /\ w \in Seq(Reqs \X Paths) /\ Len(b.pending) \in Nat /\ Len(w) = Len(b.pending) + 1 /\ w[Len(b.pending) + 1] = <<r, p>>
      /\ \A i \in 1..Len(b.pending) : w[i] = b.pending[i]
  <2> DEFINE X == Reqs \X Paths
             e == <<r, p>>
  <2>1. b.pending \in Seq(X) /\ e \in X
    BY <1>2
  <2> HIDE DEF X, e
  <2>2. /\ Append(b.pending, e) \in Seq(X) /\ Len(Append(b.pending, e)) = Len(b.pending) + 1 /\ Append(b.pending, e)[Len(b.pending) + 1] = e
        /\ \A i \in 1..Len(b.pending) : Append(b.pending, e)[i] = b.pending[i]
    BY <2>1, AppendProperties
  <2>3. Len(b.pending) \in Nat
    BY <2>1
  <2> QED
    BY <2>2, <2>3 DEF X, e
<1> HIDE DEF w, c
<1>5. c \in Broker
  BY <1>2, <1>3, <1>4 DEF Broker
<1>6. c.stream = b.stream /\ c.sid = b.sid /\ c.out = b.out /\ c.pending = w /\ c.sub = d.sub
  BY <1>3
<1>7. Agreed(c)
  BY <1>0, <1>5, <1>6, AgreedSame
<1>8. \A y \in Paths : b.stream[y] = NoStream
  BY <1>0 DEF Placed
<1>9. Serves(b, c, r, p)
  <2>1. \A x \in Reqs, y \in Paths : ~Member(c, x, y) /\ ~Member(b, x, y)
    BY <1>6, <1>8 DEF Member
  <2>2. c.sub[r][p] # NoSub /\ c.sub[r][p].got = NoValue /\ \A x \in Reqs, y \in Paths : x # r \/ y # p => c.sub[x][y] = b.sub[x][y]
    BY <1>1, <1>6, NoneApart DEF Set
  <2> QED
    BY <1>6, <1>8, <2>1, <2>2 DEF Serves
<1>10. Sound(c)
  BY <1>0, <1>5, <1>7, <1>9, ServesSound
<1>11. \A i \in 1..Len(w) : i \in 1..Len(b.pending) \/ i = Len(b.pending) + 1
  BY <1>4
<1>12. \A x \in Reqs, y \in Paths : Waits(c, x, y) <=> Waits(b, x, y) \/ (x = r /\ y = p)
  <2> TAKE x \in Reqs, y \in Paths
  <2>1. ASSUME NEW i \in 1..Len(w), w[i] = <<x, y>> PROVE Waits(b, x, y) \/ (x = r /\ y = p)
    <3>1. CASE i \in 1..Len(b.pending)
      BY <1>4, <2>1, <3>1 DEF Waits
    <3>2. CASE i = Len(b.pending) + 1
      BY <1>4, <2>1, <3>2
    <3> QED
      BY <1>11, <3>1, <3>2
  <2>2. ASSUME NEW i \in 1..Len(b.pending), b.pending[i] = <<x, y>> PROVE i \in 1..Len(w) /\ w[i] = <<x, y>>
    BY <1>4, <2>2
  <2>3. Len(b.pending) + 1 \in 1..Len(w)
    BY <1>4
  <2> QED
    BY <1>4, <1>6, <2>1, <2>2, <2>3 DEF Waits
<1>13. Distinct(w)
  <2> SUFFICES ASSUME NEW i \in 1..Len(w), NEW j \in 1..Len(w), w[i] = w[j] PROVE i = j
    BY DEF Distinct
  <2>1. \A k \in 1..Len(b.pending) : b.pending[k] # <<r, p>>
    BY <1>0 DEF Placed, Waits
  <2>2. CASE i \in 1..Len(b.pending) /\ j \in 1..Len(b.pending)
    <3>1. b.pending[i] = b.pending[j]
      BY <1>4, <2>2
    <3> QED
      BY <1>0, <2>2, <3>1 DEF Placed, Distinct
  <2>3. CASE i = Len(b.pending) + 1 /\ j \in 1..Len(b.pending)
    BY <1>4, <2>1, <2>3
  <2>4. CASE i \in 1..Len(b.pending) /\ j = Len(b.pending) + 1
    BY <1>4, <2>1, <2>4
  <2>5. CASE i = Len(b.pending) + 1 /\ j = Len(b.pending) + 1
    BY <2>5
  <2> QED
    BY <1>11, <2>2, <2>3, <2>4, <2>5
<1>14. Placed(c, known)
  <2>1. ASSUME NEW x \in Reqs, NEW y \in Paths PROVE c.sub[x][y] # NoSub <=> Waits(c, x, y)
    BY <1>0, <1>9, <1>12 DEF Serves, Placed
  <2> QED
    BY <1>6, <1>8, <1>13, <2>1 DEF Placed
<1>15. Forward(b, c)
  BY <1>5, <1>9, ServesForward
<1> QED
  <2>1. Held(c) /\ c \in Broker /\ Forward(b, c)
    BY <1>5, <1>10, <1>14, <1>15 DEF Held
  <2>2. \A x \in Reqs, y \in Paths : x # r \/ y # p => c.sub[x][y] = b.sub[x][y]
    BY <1>9 DEF Serves
  <2>3. c = WaitCall(b, r, p, n)
    BY DEF c, d, WaitCall
  <2> QED
    BY <2>1, <2>2, <2>3

LEMMA RequotedBroker ==
  ASSUME NEW d \in Broker, NEW c \in Loose, NEW u, NEW p \in Paths, d.stream[p] # NoStream, Requoted(d, c, u, p)
  PROVE  c \in Broker
<1>1. PICK q \in 0..2 : c.stream = [d.stream EXCEPT ![p].qos = q]
  BY DEF Requoted
<1>2. d.stream \in [Paths -> Stream \cup {NoStream}] /\ d.stream[p] \in Stream
  BY BrokerIs
<1>3. [d.stream[p] EXCEPT !.qos = q] \in Stream
  BY <1>2 DEF Stream
<1>4. c.stream \in [Paths -> Stream \cup {NoStream}]
  BY <1>1, <1>2, <1>3
<1>5. /\ c.sub \in Subs /\ c.pending \in Seq(Reqs \X Paths) /\ c.sid \in Nat /\ c.out \in Seq(Msg)
      /\ Fields(c)
  BY DEF Loose, Fields
<1> QED
  BY <1>4, <1>5 DEF Broker, Fields

\* A call that leaves every subscription in its place
LEMMA PlacedSame ==
  ASSUME NEW b, NEW c, NEW k, Placed(b, k), c.pending = b.pending,
         \A x \in Reqs, y \in Paths : c.sub[x][y] # NoSub <=> b.sub[x][y] # NoSub,
         \A x \in Reqs, y \in Paths : Member(c, x, y) <=> Member(b, x, y),
         \A y \in Paths : c.stream[y] = NoStream <=> b.stream[y] = NoStream
  PROVE  Placed(c, k)
<1>1. Distinct(c.pending)
  BY DEF Placed
<1>2. \A x \in Reqs, y \in Paths : Waits(c, x, y) <=> Waits(b, x, y)
  BY DEF Waits
<1>3. ASSUME k PROVE c.pending = <<>> /\ \A x \in Reqs, y \in Paths : c.sub[x][y] # NoSub <=> Member(c, x, y)
  <2>1. b.pending = <<>> /\ \A x \in Reqs, y \in Paths : b.sub[x][y] # NoSub <=> Member(b, x, y)
    BY <1>3 DEF Placed
  <2> QED
    BY <2>1
<1>4. ASSUME ~k
      PROVE  /\ \A y \in Paths : c.stream[y] = NoStream
             /\ \A x \in Reqs, y \in Paths : c.sub[x][y] # NoSub <=> Waits(c, x, y)
  <2>1. /\ \A y \in Paths : b.stream[y] = NoStream
        /\ \A x \in Reqs, y \in Paths : b.sub[x][y] # NoSub <=> Waits(b, x, y)
    BY <1>4 DEF Placed
  <2> QED
    BY <1>2, <2>1
<1> QED
  BY <1>1, <1>3, <1>4 DEF Placed

\* handle_subscribe of a path that is subscribed to, which becomes n
AgainCall(b, r, p, n, hand) ==
  LET d  == [b EXCEPT !.sub[r][p] = n]
      c1 == IF b.sub[r][p].qos # n.qos /\ b.stream[p] # NoStream THEN UpdateStreamQos(d, up, p) ELSE d
  IN IF hand /\ b.stream[p] # NoStream THEN Hand(c1, r, p, b.stream[p].last) ELSE c1

LEMMA AgainHeld ==
  ASSUME NEW b, Held(b), EnvType, NEW r \in Reqs, NEW p \in Paths, b.sub[r][p] # NoSub,
         NEW n \in SubRequester, n.got = b.sub[r][p].got, NEW hand \in BOOLEAN
  PROVE  LET c == AgainCall(b, r, p, n, hand)
         IN Held(c) /\ c \in Broker /\ Forward(b, c)
            /\ \A x \in Reqs, y \in Paths : x # r \/ y # p => c.sub[x][y] = b.sub[x][y]
<1> DEFINE d  == [b EXCEPT !.sub[r][p] = n]
           c1 == IF b.sub[r][p].qos # n.qos /\ b.stream[p] # NoStream THEN UpdateStreamQos(d, up, p) ELSE d
           c  == IF hand /\ b.stream[p] # NoStream THEN Hand(c1, r, p, b.stream[p].last) ELSE c1
<1>0. b \in Broker /\ Placed(b, known) /\ Sound(b) /\ Agreed(b) /\ Known(b) /\ Covered(b)
  BY HeldIs
<1>1. d \in Broker /\ Set(b, d, r, p) /\ d.sub[r][p] = n
  BY <1>0, SubSetIs
<1> HIDE DEF d
<1>2. Agreed(d)
  BY <1>0, <1>1, AgreedSame DEF Set
<1>3. /\ c1 \in Broker /\ Agreed(c1) /\ Serves(b, c1, r, p) /\ c1.pending = b.pending
      /\ \A x \in Reqs, y \in Paths : Member(c1, x, y) <=> Member(b, x, y)
  <2>1. CASE b.sub[r][p].qos # n.qos /\ b.stream[p] # NoStream
    <3> DEFINE e == UpdateStreamQos(d, up, p)
    <3>1. d \in Loose /\ d.stream[p] \in Stream0 /\ d.stream[p] # NoStream /\ \A x \in d.stream[p].reqs : d.sub[x][p] # NoSub
      <4>1. d.stream[p] = b.stream[p] /\ b.stream[p].reqs \subseteq Reqs /\ d.stream[p] \in Stream0 /\ d \in Loose
        BY <1>0, <1>1, <2>1, BrokerIs DEF Set
      <4>2. \A x \in Reqs : x \in d.stream[p].reqs => d.sub[x][p] # NoSub
        BY <1>0, <1>1, <2>1, <4>1 DEF Known, Member, Set
      <4> QED
        BY <2>1, <4>1, <4>2
    <3>2. e \in Loose /\ Requoted(d, e, up, p)
      BY <3>1, UpdateStreamQosIs DEF EnvType
    <3> HIDE DEF e
    <3>3. e \in Broker
      BY <1>1, <3>1, <3>2, RequotedBroker
    <3>4. Agreed(e)
      BY <1>1, <1>2, <3>1, <3>2, <3>3, RequotedAgreed
    <3>5. Serves(b, e, r, p) /\ \A x \in Reqs, y \in Paths : Member(e, x, y) <=> Member(b, x, y)
      BY <1>0, <1>1, <2>1, <3>2, <3>3, RequotedServes
    <3>6. e.pending = b.pending
      BY <1>1, <3>2 DEF Requoted, Set
    <3>7. c1 = e
      BY <2>1 DEF e
    <3> HIDE DEF c1
    <3> QED
      BY <3>3, <3>4, <3>5, <3>6, <3>7
  <2>2. CASE ~(b.sub[r][p].qos # n.qos /\ b.stream[p] # NoStream)
    <3>1. c1 = d
      BY <2>2
    <3>2. Serves(b, d, r, p)
      BY <1>0, <1>1, <2>2, SetServes
    <3>3. d.pending = b.pending /\ \A x \in Reqs, y \in Paths : Member(d, x, y) <=> Member(b, x, y)
      BY <1>1 DEF Set, Member
    <3> HIDE DEF c1
    <3> QED
      BY <1>1, <1>2, <3>1, <3>2, <3>3
  <2> QED
    BY <2>1, <2>2
<1> HIDE DEF c1
<1>4. /\ c \in Broker /\ Agreed(c) /\ Serves(b, c, r, p) /\ c.pending = b.pending
      /\ \A x \in Reqs, y \in Paths : Member(c, x, y) <=> Member(b, x, y)
  <2>1. CASE hand /\ b.stream[p] # NoStream
    <3> DEFINE e == Hand(c1, r, p, b.stream[p].last)
    <3>1. c1.stream[p] # NoStream /\ c1.stream[p].last = b.stream[p].last /\ c1.sub[r][p] # NoSub
      BY <1>3, <2>1 DEF Serves
    <3>2. e = Hand(c1, r, p, c1.stream[p].last) /\ c1.stream[p].last \in Value \cup {NoValue}
      BY <1>3, <3>1, BrokerIs
    <3>3. e \in Broker
      BY <1>3, <3>1, <3>2, HandIs
    <3> HIDE DEF e
    <3>4. Serves(b, e, r, p) /\ e.stream = c1.stream /\ e.pending = c1.pending /\ e.sid = c1.sid /\ e.out = c1.out
      BY <1>0, <1>3, <3>1, <3>2, <3>3, HandServes
    <3>5. Agreed(e)
      BY <1>3, <3>3, <3>4, AgreedSame
    <3>6. \A x \in Reqs, y \in Paths : Member(e, x, y) <=> Member(b, x, y)
      BY <1>3, <3>4 DEF Member
    <3>7. c = e
      BY <2>1 DEF e
    <3> HIDE DEF c
    <3> QED
      BY <1>3, <3>3, <3>4, <3>5, <3>6, <3>7
  <2>2. CASE ~(hand /\ b.stream[p] # NoStream)
    <3>1. c = c1
      BY <2>2
    <3> QED
      BY <1>3, <3>1
  <2> QED
    BY <2>1, <2>2
<1> HIDE DEF c
<1>5. Sound(c)
  BY <1>0, <1>4, ServesSound
<1>6. Placed(c, known)
  <2>1. \A x \in Reqs, y \in Paths : c.sub[x][y] # NoSub <=> b.sub[x][y] # NoSub
    BY <1>4 DEF Serves
  <2>2. ASSUME NEW y \in Paths PROVE c.stream[y] = NoStream <=> b.stream[y] = NoStream
    <3>1. \A x \in Paths : c.stream[x] # NoStream => c.stream[x].reqs # {} /\ c.stream[x].reqs \subseteq Reqs
      BY <1>4, BrokerIs
    <3>2. ASSUME c.stream[y] # NoStream PROVE b.stream[y] # NoStream
      <4>1. PICK x \in Reqs : x \in c.stream[y].reqs
        BY <3>1, <3>2
      <4>2. Member(c, x, y)
        BY <3>2, <4>1 DEF Member
      <4> QED
        BY <1>4, <4>2 DEF Member
    <3>3. b.stream[y] # NoStream => c.stream[y] # NoStream
      BY <1>4 DEF Serves
    <3> QED
      BY <3>2, <3>3
  <2> QED
    BY <1>0, <1>4, <2>1, <2>2, PlacedSame
<1>7. Forward(b, c)
  BY <1>4, ServesForward
<1> QED
  <2>1. Held(c) /\ c \in Broker /\ Forward(b, c)
    BY <1>4, <1>5, <1>6, <1>7 DEF Held
  <2>2. \A x \in Reqs, y \in Paths : x # r \/ y # p => c.sub[x][y] = b.sub[x][y]
    BY <1>4 DEF Serves
  <2>3. c = AgainCall(b, r, p, n, hand)
    BY DEF c, c1, d, AgainCall
  <2> QED
    BY <2>1, <2>2, <2>3

-----------------------------------------------------------------------------
\* Nothing that the invariant is about differs.
LEMMA SameView ==
  ASSUME NEW b, Held(b), EnvType, NEW c \in Broker,
         c.stream = b.stream, c.pending = b.pending, c.sid = b.sid, c.out = b.out,
         \A x \in Reqs, y \in Paths : /\ c.sub[x][y] = NoSub <=> b.sub[x][y] = NoSub
                                      /\ b.sub[x][y] # NoSub => c.sub[x][y].got = b.sub[x][y].got /\ c.sub[x][y].qos = b.sub[x][y].qos
  PROVE  Held(c) /\ Forward(b, c)
<1>0. b \in Broker /\ Placed(b, known) /\ Sound(b) /\ Agreed(b) /\ Known(b) /\ Covered(b) /\ Ordered(b)
  BY HeldIs
<1>1. \A x \in Reqs, y \in Paths : Member(c, x, y) <=> Member(b, x, y)
  BY DEF Member
<1>2. Agreed(c)
  BY <1>0, AgreedSame
<1>3. Placed(c, known)
  BY <1>0, <1>1, PlacedSame
<1>4. Covered(c)
  BY <1>0, <1>1 DEF Covered
<1>5. Ordered(c)
  <2>1. \A y \in Paths : c.stream[y] # NoStream => Behind(c.stream[y].last, y)
    BY <1>0 DEF Ordered
  <2>2. \A x \in Reqs, y \in Paths : c.sub[x][y] # NoSub => Behind(c.sub[x][y].got, y)
    BY <1>0 DEF Ordered
  <2>3. ASSUME NEW x \in Reqs, NEW y \in Paths, Member(c, x, y), c.sub[x][y].got # NoValue, c.stream[y].last # NoValue
        PROVE  c.sub[x][y].got[2] <= c.stream[y].last[2]
    <3>1. Member(b, x, y) /\ c.sub[x][y].got = b.sub[x][y].got
      BY <1>0, <1>1, <2>3 DEF Known
    <3> QED
      BY <1>0, <2>3, <3>1 DEF Ordered
  <2> QED
    BY <2>1, <2>2, <2>3 DEF Ordered
<1>6. ASSUME up PROVE Current(c)
  <2> SUFFICES ASSUME NEW y \in Paths, c.stream[y] # NoStream, val[y] # NoValue
               PROVE  Asking(c.out, c.stream[y].sid) \/ Coming(c.stream[y].sid, val[y]) \/ Arrived(c, y)
    BY DEF Current
  <2>1. Asking(b.out, b.stream[y].sid) \/ Coming(b.stream[y].sid, val[y]) \/ Arrived(b, y)
    BY <1>0, <1>6 DEF Sound, Current
  <2>2. ASSUME Arrived(b, y) PROVE Arrived(c, y)
    <3>1. ASSUME NEW x \in c.stream[y].reqs PROVE c.sub[x][y].got = val[y]
      <4>1. x \in Reqs /\ Member(b, x, y)
        BY BrokerIs DEF Member
      <4>2. b.sub[x][y].got = val[y] /\ b.sub[x][y] # NoSub
        BY <1>0, <2>2, <4>1 DEF Arrived, Member, Known
      <4> QED
        BY <4>1, <4>2
    <3> QED
      BY <2>2, <3>1 DEF Arrived
  <2> QED
    BY <2>1, <2>2
<1>7. Forward(b, c)
  <2> SUFFICES ASSUME NEW x \in Reqs, NEW y \in Paths, b.sub[x][y] # NoSub, c.sub[x][y] # NoSub, b.sub[x][y].got # NoValue
               PROVE  c.sub[x][y].got # NoValue /\ c.sub[x][y].got[2] >= b.sub[x][y].got[2]
    BY DEF Forward
  <2>1. c.sub[x][y].got = b.sub[x][y].got /\ b.sub[x][y].got[2] \in Nat
    BY <1>0, GotNat
  <2> QED
    BY <2>1
<1> QED
  BY <1>2, <1>3, <1>4, <1>5, <1>6, <1>7 DEF Held, Sound

LEMMA UnboundHeld ==
  ASSUME NEW b, Held(b), EnvType, NEW r \in Reqs
  PROVE  Held(Unbound(b, r)) /\ Unbound(b, r) \in Broker /\ Forward(b, Unbound(b, r))
<1> DEFINE U == [p \in Paths |-> IF b.sub[r][p] = NoSub THEN NoSub ELSE [b.sub[r][p] EXCEPT !.bound = FALSE]]
           S == [b.sub EXCEPT ![r] = U]
           c == Unbound(b, r)
<1>0. b \in Broker
  BY HeldIs
<1>1. /\ Fields(b) /\ b.sub \in Subs /\ b.stream \in [Paths -> Stream \cup {NoStream}]
      /\ b.pending \in Seq(Reqs \X Paths) /\ b.sid \in Nat /\ b.out \in Seq(Msg)
  BY <1>0, BrokerIs
<1>2. ASSUME NEW p \in Paths, b.sub[r][p] # NoSub
      PROVE  U[p] \in SubRequester /\ U[p] # NoSub /\ U[p].got = b.sub[r][p].got /\ U[p].qos = b.sub[r][p].qos
  <2>1. b.sub[r][p] \in SubRequester /\ U[p] = [b.sub[r][p] EXCEPT !.bound = FALSE]
    BY <1>0, <1>2, BrokerIs
  <2> DEFINE u == [b.sub[r][p] EXCEPT !.bound = FALSE]
  <2>2. u \in SubRequester /\ u.got = b.sub[r][p].got /\ u.qos = b.sub[r][p].qos
    BY <2>1 DEF SubRequester
  <2> HIDE DEF u, U
  <2> QED
    BY <2>1, <2>2, NoneApart DEF u
<1>3. ASSUME NEW p \in Paths, b.sub[r][p] = NoSub PROVE U[p] = NoSub
  BY <1>3
<1>4. U \in [Paths -> SubRequester \cup {NoSub}]
  <2>1. \A p \in Paths : U[p] \in SubRequester \cup {NoSub}
    BY <1>2, <1>3
  <2> QED
    BY <2>1
<1>5. c = [b EXCEPT !.sub = S]
  BY <1>1 DEF Unbound, Subs
<1> HIDE DEF U, c
<1>6. S \in Subs /\ S[r] = U /\ \A x \in Reqs : x # r => S[x] = b.sub[x]
  BY <1>1, <1>4 DEF Subs
<1> HIDE DEF S
<1>7. c = [sub |-> S, stream |-> b.stream, pending |-> b.pending, sid |-> b.sid, out |-> b.out]
  BY <1>1, <1>5 DEF Fields
<1>8. c \in Broker
  BY <1>1, <1>6, <1>7 DEF Broker
<1>9. ASSUME NEW x \in Reqs, NEW y \in Paths
      PROVE  /\ c.sub[x][y] = NoSub <=> b.sub[x][y] = NoSub
             /\ b.sub[x][y] # NoSub => c.sub[x][y].got = b.sub[x][y].got /\ c.sub[x][y].qos = b.sub[x][y].qos
  <2>1. c.sub = S
    BY <1>7
  <2>2. CASE x = r
    BY <1>2, <1>3, <1>6, <2>1, <2>2
  <2>3. CASE x # r
    BY <1>6, <2>1, <2>3
  <2> QED
    BY <2>2, <2>3
<1>10. c.stream = b.stream /\ c.pending = b.pending /\ c.sid = b.sid /\ c.out = b.out
  BY <1>7
<1>11. Held(c) /\ Forward(b, c)
  BY <1>8, <1>9, <1>10, SameView
<1> QED
  BY <1>8, <1>11 DEF c

\* Step by step, subscriptions are freed.
LEMMA FreedIs ==
  ASSUME Held(B), EnvType, NEW order \in Seq(Reqs \X Paths)
  PROVE  Held(Freed(order)) /\ Shrunk(B, Freed(order))
<1> DEFINE n == Len(order)
           X == Broker
           Rest == {x \in X : Held(x) /\ Shrunk(B, x)}
           G == [e \in X \X (1..n) |-> FreeSub(e[1], up, order[e[2]][1], order[e[2]][2])]
           J == [m \in 0..n |-> Rest]
           W == CHOOSE f : f = [i \in 0..n |-> IF i = 0 THEN B ELSE FreeSub(f[i - 1], up, order[i][1], order[i][2])]
<1>1. n \in Nat /\ \A i \in 1..n : order[i][1] \in Reqs /\ order[i][2] \in Paths
  OBVIOUS
<1>2. B \in Rest
  <2>1. B \in X /\ Shrunk(B, B)
    BY HeldIs DEF Shrunk
  <2> QED
    BY <2>1
<1>3. ASSUME NEW x \in Rest, NEW r \in Reqs, NEW p \in Paths PROVE FreeSub(x, up, r, p) \in Rest
  <2> DEFINE c == FreeSub(x, up, r, p)
  <2>1. x \in Broker /\ Held(x) /\ Shrunk(B, x)
    OBVIOUS
  <2>2. c \in Broker /\ Leaves(x, c, up, r, p)
    BY <2>1, FreeSubIs DEF EnvType
  <2> HIDE DEF c
  <2>3. Held(c) /\ Fewer(x, c, r, p)
    BY <2>1, <2>2, LeavesHeld, LeavesFewer
  <2>4. Shrunk(B, c)
    <3>1. \A y \in Reqs, z \in Paths : c.sub[y][z] = x.sub[y][z] \/ c.sub[y][z] = NoSub
      BY <2>3 DEF Fewer
    <3> QED
      BY <2>1, <3>1 DEF Shrunk
  <2>5. c \in Rest
    BY <2>2, <2>3, <2>4
  <2> QED
    BY <2>5 DEF c
<1>4. Rest \subseteq X
  OBVIOUS
<1>5. \A x \in Rest : Held(x) /\ Shrunk(B, x)
  OBVIOUS
<1> HIDE DEF Rest, X
<1>6. J \in [0..n -> SUBSET X] /\ B \in J[0]
  BY <1>1, <1>2, <1>4
<1>7. \A x \in X, i \in 1..n : G[<<x, i>>] = FreeSub(x, up, order[i][1], order[i][2])
  OBVIOUS
<1>8. ASSUME NEW m \in 1..n, NEW x \in J[m - 1] PROVE G[<<x, m>>] \in J[m]
  <2>1. m - 1 \in 0..n /\ m \in 0..n /\ order[m][1] \in Reqs /\ order[m][2] \in Paths
    BY <1>1
  <2>2. x \in Rest /\ x \in X
    BY <1>4, <2>1
  <2>3. G[<<x, m>>] \in Rest
    BY <1>3, <1>7, <2>1, <2>2
  <2> QED
    BY <2>1, <2>3
<1>9. \A i \in 0..n : J[i] = Rest
  OBVIOUS
<1> HIDE DEF G, J, n
<1>10. PICK f : /\ f = [i \in 0..n |-> IF i = 0 THEN B ELSE G[<<f[i - 1], i>>]]
                /\ \A i \in 0..n : f[i] \in J[i]
  <2> DEFINE a == B
  <2>1. n \in Nat /\ J \in [0..n -> SUBSET X] /\ Leads(n, a, J, G)
    BY <1>1, <1>6, <1>8 DEF Leads
  <2> HIDE DEF a
  <2>2. \E f : Walks(f, n, a, G) /\ Passes(f, n, J)
    BY ONLY <2>1, Walk
  <2> QED
    BY <2>2 DEF a, Walks, Passes
<1>11. \A i \in 1..n : i - 1 \in 0..n /\ f[i - 1] \in X
  <2>1. \A i \in 1..n : i - 1 \in 0..n
    BY <1>1
  <2> QED
    BY <1>4, <1>9, <1>10, <2>1
<1>12. f = [i \in 0..n |-> IF i = 0 THEN B ELSE FreeSub(f[i - 1], up, order[i][1], order[i][2])]
  <2>1. ASSUME NEW i \in 0..n
        PROVE  (IF i = 0 THEN B ELSE G[<<f[i - 1], i>>]) = IF i = 0 THEN B ELSE FreeSub(f[i - 1], up, order[i][1], order[i][2])
    <3>1. i = 0 \/ i \in 1..n
      BY <1>1
    <3> QED
      BY <1>7, <1>11, <3>1
  <2> QED
    BY <1>10, <2>1
<1>13. W = [i \in 0..n |-> IF i = 0 THEN B ELSE FreeSub(W[i - 1], up, order[i][1], order[i][2])]
  BY <1>12
<1>14. Freed(order) = W[n]
  BY DEF Freed, n
<1> HIDE DEF W
<1>15. ASSUME NEW i \in 0..n
       PROVE  W[i] = IF i = 0 THEN B ELSE FreeSub(W[i - 1], up, order[i][1], order[i][2])
  BY <1>13
<1>16. 0..n \subseteq {i \in 0..n : W[i] \in Rest}
  <2> DEFINE Z == {i \in 0..n : W[i] \in Rest}
  <2>1. 0 \in Z
    BY <1>1, <1>2, <1>15
  <2>2. ASSUME NEW i \in 1..n, i - 1 \in Z PROVE i \in Z
    <3>1. i \in 0..n /\ W[i - 1] \in Rest /\ order[i][1] \in Reqs /\ order[i][2] \in Paths /\ i # 0
      BY <1>1, <2>2
    <3>2. W[i] = FreeSub(W[i - 1], up, order[i][1], order[i][2])
      BY <1>15, <3>1
    <3> QED
      BY <1>3, <3>1, <3>2
  <2> HIDE DEF Z
  <2>4. 0..n \subseteq Z
    BY <1>1, <2>1, <2>2, Upward
  <2> QED
    BY <2>4 DEF Z
<1>17. W[n] \in Rest
  BY <1>1, <1>16
<1> QED
  BY <1>5, <1>14, <1>17

LEMMA UnboundNone ==
  ASSUME NEW b, Held(b), NEW r \in Reqs, NEW x \in Reqs, NEW y \in Paths, b.sub[x][y] = NoSub
  PROVE  Unbound(b, r).sub[x][y] = NoSub
<1>1. Fields(b) /\ b.sub \in Subs
  BY HeldIs, BrokerIs
<1> DEFINE U == [p \in Paths |-> IF b.sub[r][p] = NoSub THEN NoSub ELSE [b.sub[r][p] EXCEPT !.bound = FALSE]]
           S == [b.sub EXCEPT ![r] = U]
<1>2. Unbound(b, r) = [b EXCEPT !.sub = S]
  BY <1>1 DEF Unbound, Subs
<1>3. U[y] = NoSub \/ x # r
  OBVIOUS
<1> HIDE DEF U
<1>4. S[x][y] = NoSub
  BY <1>1, <1>3 DEF Subs
<1> HIDE DEF S
<1>5. [b EXCEPT !.sub = S].sub = S
  BY <1>1 DEF Fields
<1> QED
  BY <1>2, <1>4, <1>5

LEMMA OrderIs ==
  ASSUME NEW gone \in SUBSET (Reqs \X Paths), NEW order \in SetToSeqs(gone)
  PROVE  order \in Seq(Reqs \X Paths)
<1>1. IsFiniteSet(gone)
  BY StreamConstants, FS_Product, FS_Subset
<1>2. order \in Seq(gone)
  BY <1>1, OrdersAll
<1> QED
  BY <1>2

LEMMA FreedUnbound ==
  ASSUME Held(B), EnvType, NEW r \in Reqs, NEW gone \in SUBSET (Reqs \X Paths), NEW order \in SetToSeqs(gone)
  PROVE  Held(Unbound(Freed(order), r)) /\ Forward(B, Unbound(Freed(order), r))
<1> DEFINE d == Freed(order)
           c == Unbound(d, r)
<1>2. Held(d) /\ Shrunk(B, d)
  BY OrderIs, FreedIs
<1> HIDE DEF d
<1>3. Held(c) /\ Forward(d, c)
  BY <1>2, UnboundHeld
<1>4. \A x \in Reqs, y \in Paths : d.sub[x][y] = NoSub => c.sub[x][y] = NoSub
  BY <1>2, UnboundNone
<1>5. Forward(B, c)
  <2> SUFFICES ASSUME NEW x \in Reqs, NEW y \in Paths, B.sub[x][y] # NoSub, c.sub[x][y] # NoSub, B.sub[x][y].got # NoValue
               PROVE  c.sub[x][y].got # NoValue /\ c.sub[x][y].got[2] >= B.sub[x][y].got[2]
    BY DEF Forward
  <2>1. d.sub[x][y] = B.sub[x][y]
    BY <1>2, <1>4 DEF Shrunk
  <2> QED
    BY <1>3, <2>1 DEF Forward
<1> QED
  BY <1>3, <1>5 DEF c, d

\* The tables of the responder: a path by sid and a sid by path
Mirror ==
  /\ \A p \in Paths : pathSub[p] # NoSid => <<pathSub[p], p>> \in sidSub
  /\ \A e \in sidSub : pathSub[e[2]] = e[1]

\* The values of the responder, and of a path on their way, are in their order.
InOrder ==
  /\ \A p \in Paths : val[p] # NoValue => val[p][1] = p /\ val[p][2] <= count
  /\ \A i \in 1..Len(fromResp) :
       LET x == fromResp[i].val IN x[1] \in Paths /\ val[x[1]] # NoValue /\ x[2] <= val[x[1]][2]
  /\ \A i, j \in 1..Len(fromResp) :
       i < j /\ fromResp[i].val[1] = fromResp[j].val[1] => fromResp[i].val[2] <= fromResp[j].val[2]

\* What the connection leaves behind
Linked ==
  /\ up => known
  /\ ~up => fromResp = <<>> /\ sidSub = {} /\ \A p \in Paths : pathSub[p] = NoSid

Inv == Held(B) /\ EnvType /\ rup \subseteq Reqs /\ Mirror /\ InOrder /\ Linked

\* What NeverBack says of a step
Advances ==
  \A r \in Reqs, p \in Paths :
    (sub[r][p] # NoSub /\ sub'[r][p] # NoSub /\ sub[r][p].got # NoValue)
      => sub'[r][p].got # NoValue /\ sub'[r][p].got[2] >= sub[r][p].got[2]

LEMMA BecomesIs ==
  ASSUME NEW c, Held(c), Becomes(c)
  PROVE  B' = c
<1>1. Fields(c)
  BY HeldIs, BrokerIs
<1> QED
  BY <1>1 DEF B, Becomes, Fields

\* A handler of the broker: only the broker's variables change.
LEMMA HandlerStep ==
  ASSUME Inv, NEW c, Held(c), Becomes(c), Forward(B, c), UNCHANGED <<known, up, fromResp, respVars>>, rup' \subseteq Reqs
  PROVE  Inv' /\ Advances
<1>1. B' = c
  BY BecomesIs
<1>2. known' = known /\ up' = up /\ fromResp' = fromResp /\ pathSub' = pathSub /\ sidSub' = sidSub /\ val' = val /\ count' = count
  BY DEF respVars
<1>3. Held(B)'
  <2>1. Agreed(c) /\ Covered(c) /\ Ordered(c) /\ (up => Current(c)) /\ c \in Broker /\ Placed(c, known)
    BY DEF Held, Sound
  <2> HIDE DEF B
  <2>2. Agreed(B)'
    BY <1>1, <1>2, <2>1 DEF Agreed, OwnedBy, SidOf
  <2>3. Covered(B)'
    BY <1>1, <1>2, <2>1 DEF Covered, Member
  <2>4. Ordered(B)'
    BY <1>1, <1>2, <2>1 DEF Ordered, Member, Behind
  <2>5. (up => Current(B))'
    BY <1>1, <1>2, <2>1 DEF Current, Asking, Coming, Arrived
  <2>6. Placed(B, known)'
    <3>1. \A x \in Reqs, y \in Paths : (Waits(B, x, y)' <=> Waits(c, x, y)) /\ (Member(B, x, y)' <=> Member(c, x, y))
      BY <1>1 DEF Waits, Member
    <3>2. (known => c.pending = <<>> /\ \A r \in Reqs, p \in Paths : c.sub[r][p] # NoSub <=> Member(c, r, p))
      BY <2>1 DEF Placed
    <3>3. ~known => /\ \A p \in Paths : c.stream[p] = NoStream
                    /\ \A r \in Reqs, p \in Paths : c.sub[r][p] # NoSub <=> Waits(c, r, p)
      BY <2>1 DEF Placed
    <3>4. Distinct(c.pending)
      BY <2>1 DEF Placed
    <3> QED
      BY <1>1, <1>2, <3>1, <3>2, <3>3, <3>4 DEF Placed
  <2>7. (B \in Broker)'
    BY <1>1, <2>1
  <2> QED
    BY <2>2, <2>3, <2>4, <2>5, <2>6, <2>7 DEF Held, Sound
<1>4. EnvType' /\ Mirror' /\ InOrder' /\ Linked'
  BY <1>2 DEF Inv, EnvType, Mirror, InOrder, Linked
<1>5. Advances
  <2>1. c.sub = sub' /\ B.sub = sub
    BY DEF Becomes, B
  <2> QED
    BY <2>1 DEF Forward, Advances
<1> QED
  BY <1>3, <1>4, <1>5 DEF Inv

LEMMA StutterStep ==
  ASSUME Inv, UNCHANGED vars
  PROVE  Inv' /\ Advances
<1>1. Held(B) /\ Becomes(B)
  BY DEF Inv, Becomes, B, vars, brokerVars
<1>2. Forward(B, B)
  <2>1. B \in Broker
    BY <1>1, HeldIs
  <2> QED
    BY <2>1, GotNat DEF Forward
<1>3. UNCHANGED <<known, up, fromResp, respVars>> /\ rup' \subseteq Reqs
  BY DEF Inv, vars
<1> QED
  BY <1>1, <1>2, <1>3, HandlerStep

LEMMA ReqConnectStep ==
  ASSUME Inv, NEW r \in Reqs, ReqConnect(r)
  PROVE  Inv' /\ Advances
<1>1. Held(B) /\ Becomes(B)
  BY DEF Inv, Becomes, B, ReqConnect, brokerVars
<1>2. Forward(B, B)
  <2>1. B \in Broker
    BY <1>1, HeldIs
  <2> QED
    BY <2>1, GotNat DEF Forward
<1>3. UNCHANGED <<known, up, fromResp, respVars>> /\ rup' \subseteq Reqs
  BY DEF Inv, ReqConnect
<1> QED
  BY <1>1, <1>2, <1>3, HandlerStep

LEMMA ReqDisconnectStep ==
  ASSUME Inv, NEW r \in Reqs, ReqDisconnect(r)
  PROVE  Inv' /\ Advances
<1> DEFINE gone == {e \in {r} \X Paths : sub[r][e[2]] # NoSub /\ sub[r][e[2]].qos <= 1}
<1>1. PICK order \in SetToSeqs(gone) : Becomes(Unbound(Freed(order), r))
  BY DEF ReqDisconnect
<1>2. gone \in SUBSET (Reqs \X Paths)
  OBVIOUS
<1> HIDE DEF gone
<1>3. Held(Unbound(Freed(order), r)) /\ Forward(B, Unbound(Freed(order), r))
  BY <1>2, FreedUnbound DEF Inv
<1>4. UNCHANGED <<known, up, fromResp, respVars>> /\ rup' \subseteq Reqs
  BY DEF Inv, ReqDisconnect
<1> QED
  BY <1>1, <1>3, <1>4, HandlerStep

LEMMA UnsubscribeStep ==
  ASSUME Inv, NEW r \in Reqs, NEW p \in Paths, Unsubscribe(r, p)
  PROVE  Inv' /\ Advances
<1> DEFINE c == FreeSub(B, up, r, p)
<1>1. Becomes(c) /\ UNCHANGED <<known, up, fromResp, respVars>> /\ rup' \subseteq Reqs
  BY DEF Inv, Unsubscribe
<1>2. B \in Broker /\ Held(B) /\ EnvType
  BY HeldIs DEF Inv
<1>3. c \in Broker /\ Leaves(B, c, up, r, p)
  BY <1>2, FreeSubIs DEF EnvType
<1> HIDE DEF c
<1>4. Held(c) /\ Fewer(B, c, r, p)
  BY <1>2, <1>3, LeavesHeld, LeavesFewer
<1>5. Forward(B, c)
  <2> SUFFICES ASSUME NEW x \in Reqs, NEW y \in Paths, B.sub[x][y] # NoSub, c.sub[x][y] # NoSub, B.sub[x][y].got # NoValue
               PROVE  c.sub[x][y].got # NoValue /\ c.sub[x][y].got[2] >= B.sub[x][y].got[2]
    BY DEF Forward
  <2>1. c.sub[x][y] = B.sub[x][y]
    BY <1>4 DEF Fewer
  <2>2. B.sub[x][y].got[2] \in Nat
    BY <1>2, GotNat
  <2> QED
    BY <2>1, <2>2
<1> QED
  BY <1>1, <1>4, <1>5, HandlerStep

\* What a subscription keeps when others are freed first
LEMMA ShrunkForward ==
  ASSUME NEW b, NEW d, NEW c, Shrunk(b, d), Forward(d, c), NEW r, NEW p,
         d.sub[r][p] = b.sub[r][p], \A x \in Reqs, y \in Paths : x # r \/ y # p => c.sub[x][y] = d.sub[x][y]
  PROVE  Forward(b, c)
<1> SUFFICES ASSUME NEW x \in Reqs, NEW y \in Paths, b.sub[x][y] # NoSub, c.sub[x][y] # NoSub, b.sub[x][y].got # NoValue
             PROVE  c.sub[x][y].got # NoValue /\ c.sub[x][y].got[2] >= b.sub[x][y].got[2]
  BY DEF Forward
<1>1. d.sub[x][y] = b.sub[x][y]
  BY DEF Shrunk
<1> QED
  BY <1>1 DEF Forward

LEMMA SubscribeNewStep ==
  ASSUME Inv, NEW r \in Reqs, NEW p \in Paths, NEW q \in Qos, NEW o \in Paths, SubscribeNew(r, p, q, o)
  PROVE  Inv' /\ Advances
<1> DEFINE n == [qos |-> q, bound |-> TRUE, got |-> NoValue]
           d == WithoutSid(B, r, p, o)
           b == [d EXCEPT !.sub[r][p] = n]
           c == IF known THEN SubscribeRemote(b, up, r, p) ELSE [b EXCEPT !.pending = Append(@, <<r, p>>)]
<1>1. Becomes(c) /\ UNCHANGED <<known, up, fromResp, respVars>> /\ rup' \subseteq Reqs /\ B.sub[r][p] = NoSub
  BY DEF Inv, SubscribeNew, B
<1>2. Held(B) /\ EnvType
  BY DEF Inv
<1>3. Held(d) /\ d.sub[r][p] = B.sub[r][p] /\ Shrunk(B, d)
  BY <1>2, WithoutSidIs
<1>4. n \in SubRequester /\ n.got = NoValue
  BY QosInMemory DEF SubRequester
<1> HIDE DEF d, n
<1>5. Held(c) /\ Forward(d, c) /\ \A x \in Reqs, y \in Paths : x # r \/ y # p => c.sub[x][y] = d.sub[x][y]
  <2>0. d.sub[r][p] = NoSub
    BY <1>1, <1>3
  <2>1. CASE known
    <3> DEFINE e == SubscribeRemote(b, up, r, p)
    <3>1. Held(e) /\ Forward(d, e) /\ \A x \in Reqs, y \in Paths : x # r \/ y # p => e.sub[x][y] = d.sub[x][y]
      BY <1>2, <1>3, <1>4, <2>0, <2>1, JoinHeld
    <3>2. c = e
      BY <2>1
    <3> HIDE DEF c, e
    <3> QED
      BY <3>1, <3>2
  <2>2. CASE ~known
    <3> DEFINE e == WaitCall(d, r, p, n)
    <3>1. Held(e) /\ Forward(d, e) /\ \A x \in Reqs, y \in Paths : x # r \/ y # p => e.sub[x][y] = d.sub[x][y]
      BY <1>2, <1>3, <1>4, <2>0, <2>2, WaitHeld
    <3>2. c = e
      BY <2>2 DEF WaitCall
    <3> HIDE DEF c, e
    <3> QED
      BY <3>1, <3>2
  <2> QED
    BY <2>1, <2>2
<1> HIDE DEF c
<1>6. Forward(B, c)
  BY <1>3, <1>5, ShrunkForward
<1> QED
  BY <1>1, <1>5, <1>6, HandlerStep

LEMMA SubscribeAgainStep ==
  ASSUME Inv, NEW r \in Reqs, NEW p \in Paths, NEW q \in Qos, NEW o \in Paths, NEW newSid \in BOOLEAN,
         SubscribeAgain(r, p, q, o, newSid)
  PROVE  Inv' /\ Advances
<1> DEFINE d    == WithoutSid(B, r, p, o)
           n    == [d.sub[r][p] EXCEPT !.qos = q, !.bound = TRUE]
           hand == newSid /\ q # 2
           b    == [d EXCEPT !.sub[r][p] = n]
           c1   == IF d.sub[r][p].qos # n.qos /\ d.stream[p] # NoStream THEN UpdateStreamQos(b, up, p) ELSE b
           c    == IF hand /\ d.stream[p] # NoStream THEN Hand(c1, r, p, d.stream[p].last) ELSE c1
<1>1. /\ UNCHANGED <<known, up, fromResp, respVars>> /\ rup' \subseteq Reqs
      /\ B.sub[r][p] = sub[r][p] /\ B.stream[p] = stream[p] /\ B.sub[r][p] # NoSub
  BY DEF Inv, SubscribeAgain, B
<1>2. Held(B) /\ EnvType
  BY DEF Inv
<1>3. Held(d) /\ d \in Broker /\ d.sub[r][p] = B.sub[r][p] /\ d.stream[p] = B.stream[p] /\ Shrunk(B, d)
  BY <1>2, WithoutSidIs
<1>4. n \in SubRequester /\ n.got = d.sub[r][p].got /\ n.qos = q /\ hand \in BOOLEAN
  <2>1. d.sub[r][p] \in SubRequester
    BY <1>1, <1>3, BrokerIs
  <2> DEFINE u == d.sub[r][p]
  <2> HIDE DEF u
  <2>2. [u EXCEPT !.qos = q, !.bound = TRUE] \in SubRequester /\ [u EXCEPT !.qos = q, !.bound = TRUE].got = u.got
        /\ [u EXCEPT !.qos = q, !.bound = TRUE].qos = q
    BY <2>1, QosInMemory DEF SubRequester, u
  <2> QED
    BY <2>2 DEF u
<1>5. Becomes(c)
  <2>1. b = [d EXCEPT !.sub[r][p] = [@ EXCEPT !.qos = q, !.bound = TRUE]]
    BY <1>1, <1>3, BrokerIs DEF Fields, Subs
  <2> QED
    BY <1>1, <1>3, <1>4, <2>1 DEF SubscribeAgain
<1> HIDE DEF d, n, hand
<1>8. c = AgainCall(d, r, p, n, hand)
  BY DEF AgainCall
<1> HIDE DEF c
<1>6. Held(c) /\ Forward(d, c) /\ \A x \in Reqs, y \in Paths : x # r \/ y # p => c.sub[x][y] = d.sub[x][y]
  <2>1. d.sub[r][p] # NoSub
    BY <1>1, <1>3
  <2> QED
    BY <1>2, <1>3, <1>4, <1>8, <2>1, AgainHeld
<1>7. Forward(B, c)
  BY <1>3, <1>6, ShrunkForward
<1> QED
  BY <1>1, <1>5, <1>6, <1>7, HandlerStep

LEMMA Parts ==
  /\ B.sub = sub /\ B.stream = stream /\ B.pending = pending /\ B.sid = sid /\ B.out = toResp
  /\ B'.sub = sub' /\ B'.stream = stream' /\ B'.pending = pending' /\ B'.sid = sid' /\ B'.out = toResp'
  /\ sub \in Subs /\ stream \in [Paths -> Stream \cup {NoStream}] /\ pending \in Seq(Reqs \X Paths)
       /\ sid \in Nat /\ toResp \in Seq(Msg) <=> B \in Broker
  /\ sub' \in Subs /\ stream' \in [Paths -> Stream \cup {NoStream}] /\ pending' \in Seq(Reqs \X Paths)
       /\ sid' \in Nat /\ toResp' \in Seq(Msg) <=> B' \in Broker
<1>1. /\ B.sub = sub /\ B.stream = stream /\ B.pending = pending /\ B.sid = sid /\ B.out = toResp
      /\ B'.sub = sub' /\ B'.stream = stream' /\ B'.pending = pending' /\ B'.sid = sid' /\ B'.out = toResp'
  BY DEF B
<1>2. /\ sub \in Subs /\ stream \in [Paths -> Stream \cup {NoStream}] /\ pending \in Seq(Reqs \X Paths)
           /\ sid \in Nat /\ toResp \in Seq(Msg) => B \in Broker
      /\ sub' \in Subs /\ stream' \in [Paths -> Stream \cup {NoStream}] /\ pending' \in Seq(Reqs \X Paths)
           /\ sid' \in Nat /\ toResp' \in Seq(Msg) => B' \in Broker
  BY DEF B, Broker
<1>3. B \in Broker => /\ sub \in Subs /\ stream \in [Paths -> Stream \cup {NoStream}] /\ pending \in Seq(Reqs \X Paths)
                      /\ sid \in Nat /\ toResp \in Seq(Msg)
  BY <1>1, BrokerIs
<1>4. B' \in Broker => /\ sub' \in Subs /\ stream' \in [Paths -> Stream \cup {NoStream}] /\ pending' \in Seq(Reqs \X Paths)
                       /\ sid' \in Nat /\ toResp' \in Seq(Msg)
  <2> DEFINE c == B'
  <2>1. c.sub = sub' /\ c.stream = stream' /\ c.pending = pending' /\ c.sid = sid' /\ c.out = toResp'
    BY <1>1
  <2> HIDE DEF c
  <2>2. c \in Broker => /\ c.sub \in Subs /\ c.stream \in [Paths -> Stream \cup {NoStream}] /\ c.pending \in Seq(Reqs \X Paths)
                        /\ c.sid \in Nat /\ c.out \in Seq(Msg)
    BY BrokerIs
  <2> QED
    BY <2>1, <2>2 DEF c
<1> QED
  BY <1>1, <1>2, <1>3, <1>4

LEMMA SubSame ==
  ASSUME Inv, sub' = sub
  PROVE  Advances
<1> SUFFICES ASSUME NEW r \in Reqs, NEW p \in Paths, sub[r][p] # NoSub, sub[r][p].got # NoValue
             PROVE  sub'[r][p].got # NoValue /\ sub'[r][p].got[2] >= sub[r][p].got[2]
  BY DEF Advances
<1>1. B \in Broker
  BY HeldIs DEF Inv
<1>2. sub[r][p].got[2] \in Nat
  BY <1>1, Parts, GotNat
<1> QED
  BY <1>2

-----------------------------------------------------------------------------
\* Every stream has a sid of its own that was handed out.
Owners(b) ==
  \E own : \A p \in Paths : b.stream[p] # NoStream => b.stream[p].sid < b.sid /\ own[b.stream[p].sid] = p

\* The responder is not connected, and nothing is under way.
Offline ==
  /\ B \in Broker /\ EnvType /\ rup \subseteq Reqs
  /\ ~up /\ toResp = <<>> /\ fromResp = <<>> /\ sidSub = {} /\ \A p \in Paths : pathSub[p] = NoSid
  /\ \A p \in Paths : val[p] # NoValue => val[p][1] = p /\ val[p][2] <= count
  /\ Placed(B, known) /\ Covered(B) /\ Ordered(B) /\ Owners(B)

LEMMA OfflineInv == Offline => Inv
<1> SUFFICES ASSUME Offline PROVE Inv
  OBVIOUS
<1>1. Agreed(B)
  <2>1. PICK own : \A p \in Paths : B.stream[p] # NoStream => B.stream[p].sid < B.sid /\ own[B.stream[p].sid] = p
    BY DEF Offline, Owners
  <2>2. B.out = <<>> /\ fromResp = <<>> /\ sidSub = {}
    BY Parts DEF Offline
  <2>3. OwnedBy(own, B)
    BY <2>1, <2>2 DEF OwnedBy
  <2> QED
    BY <2>2, <2>3 DEF Agreed, Offline
<1>2. Mirror /\ InOrder /\ Linked
  BY DEF Offline, Mirror, InOrder, Linked
<1> QED
  BY <1>1, <1>2 DEF Offline, Inv, Held, Sound

\* Nobody is subscribed.
Fresh ==
  /\ known \in BOOLEAN /\ up = FALSE /\ rup = {}
  /\ sub = [r \in Reqs |-> [p \in Paths |-> NoSub]]
  /\ stream = [p \in Paths |-> NoStream]
  /\ pending = <<>> /\ sid = 0
  /\ toResp = <<>> /\ fromResp = <<>>
  /\ pathSub = [p \in Paths |-> NoSid] /\ sidSub = {}
  /\ val \in [Paths -> Value \cup {NoValue}] /\ count \in Nat
  /\ \A p \in Paths : val[p] # NoValue => val[p][1] = p /\ val[p][2] <= count

LEMMA FreshInv == Fresh => Inv
<1> SUFFICES ASSUME Fresh PROVE Offline
  BY OfflineInv
<1>1. \A r \in Reqs, p \in Paths : sub[r][p] = NoSub
  BY DEF Fresh
<1>2. \A p \in Paths : stream[p] = NoStream
  BY DEF Fresh
<1>3. B \in Broker
  <2>1. sub \in Subs
    BY DEF Fresh, Subs
  <2>2. stream \in [Paths -> Stream \cup {NoStream}] /\ pending \in Seq(Reqs \X Paths) /\ sid \in Nat /\ toResp \in Seq(Msg)
    BY DEF Fresh
  <2> QED
    BY <2>1, <2>2, Parts
<1>4. EnvType
  <2>1. pathSub \in Sids
    BY DEF Fresh, Sids
  <2>2. fromResp \in Seq(Update0) /\ sidSub \subseteq Nat \X Paths
    BY DEF Fresh
  <2> QED
    BY <2>1, <2>2 DEF Fresh, EnvType
<1>5. B.pending = <<>> /\ (\A r \in Reqs, p \in Paths : B.sub[r][p] = NoSub) /\ \A p \in Paths : B.stream[p] = NoStream
  BY <1>1, <1>2, Parts DEF Fresh
<1> HIDE DEF B
<1>6. Placed(B, known)
  <2>1. Distinct(B.pending) /\ \A r \in Reqs, p \in Paths : ~Member(B, r, p) /\ ~Waits(B, r, p)
    BY <1>5 DEF Distinct, Member, Waits
  <2> QED
    BY <1>5, <2>1 DEF Placed
<1>7. Covered(B) /\ Ordered(B) /\ Owners(B)
  BY <1>5 DEF Covered, Ordered, Owners, Member
<1> QED
  BY <1>3, <1>4, <1>6, <1>7 DEF Offline, Fresh

LEMMA InitInv == Init => Inv
<1> SUFFICES ASSUME Init PROVE Fresh
  BY FreshInv
<1> QED
  BY DEF Init, Fresh

\* Behind, after a step
After(x, p) ==
  x # NoValue => /\ x[1] = p /\ x[2] <= count'
                 /\ val'[p] # NoValue => x[2] <= val'[p][2]
                 /\ \A i \in 1..Len(fromResp') : fromResp'[i].val[1] = p => x[2] <= fromResp'[i].val[2]

LEMMA OrderedNext ==
  ASSUME \A p \in Paths : B'.stream[p] # NoStream => After(B'.stream[p].last, p),
         \A r \in Reqs, p \in Paths : B'.sub[r][p] # NoSub => After(B'.sub[r][p].got, p),
         \A r \in Reqs, p \in Paths : Member(B', r, p) /\ B'.sub[r][p].got # NoValue /\ B'.stream[p].last # NoValue
           => B'.sub[r][p].got[2] <= B'.stream[p].last[2]
  PROVE  Ordered(B)'
<1> HIDE DEF B
<1> QED
  BY DEF Ordered, Behind, After, Member

LEMMA RestartStep ==
  ASSUME Inv, Restart
  PROVE  Inv' /\ Advances
<1>1. Fresh'
  BY DEF Inv, EnvType, InOrder, Restart, Fresh
<1>2. Inv'
  BY <1>1, FreshInv, PTL
<1>3. Advances
  BY DEF Restart, Advances
<1> QED
  BY <1>2, <1>3

\* No subscription moves.
LEMMA PlacedNext ==
  ASSUME Placed(B, known), Covered(B),
         B'.sub = B.sub, B'.stream = B.stream, B'.pending = B.pending, known' = known
  PROVE  Placed(B, known)' /\ Covered(B)'
<1> HIDE DEF B
<1>1. \A x \in Reqs, y \in Paths : (Waits(B, x, y)' <=> Waits(B, x, y)) /\ (Member(B, x, y)' <=> Member(B, x, y))
  BY DEF Waits, Member
<1>2. known => B.pending = <<>> /\ \A r \in Reqs, p \in Paths : B.sub[r][p] # NoSub <=> Member(B, r, p)
  BY DEF Placed
<1>3. ~known => /\ \A p \in Paths : B.stream[p] = NoStream
                /\ \A r \in Reqs, p \in Paths : B.sub[r][p] # NoSub <=> Waits(B, r, p)
  BY DEF Placed
<1>4. Distinct(B.pending)
  BY DEF Placed
<1>5. Placed(B, known)'
  BY <1>1, <1>2, <1>3, <1>4 DEF Placed
<1>6. Covered(B)'
  BY <1>1 DEF Covered
<1> QED
  BY <1>5, <1>6

LEMMA RespDisconnectStep ==
  ASSUME Inv, RespDisconnect
  PROVE  Inv' /\ Advances
<1>0. B \in Broker /\ Placed(B, known) /\ Agreed(B) /\ Covered(B) /\ Ordered(B) /\ EnvType
  BY HeldIs DEF Inv
<1>1. B'.sub = B.sub /\ B'.stream = B.stream /\ B'.pending = B.pending /\ B'.sid = B.sid /\ known' = known
  BY Parts DEF RespDisconnect
<1>2. B' \in Broker
  BY <1>0, Parts DEF RespDisconnect
<1>3. EnvType' /\ rup' \subseteq Reqs
  <2>1. pathSub' \in Sids
    BY DEF RespDisconnect, Sids
  <2>2. fromResp' \in Seq(Update0) /\ sidSub' \subseteq Nat \X Paths
    BY DEF RespDisconnect
  <2> QED
    BY <1>0, <2>1, <2>2 DEF RespDisconnect, EnvType, Inv
<1>4. /\ ~up' /\ toResp' = <<>> /\ fromResp' = <<>> /\ sidSub' = {} /\ \A p \in Paths : pathSub'[p] = NoSid
      /\ \A p \in Paths : val'[p] # NoValue => val'[p][1] = p /\ val'[p][2] <= count'
  BY DEF RespDisconnect, Inv, InOrder
<1> HIDE DEF B
<1>5. Placed(B, known)' /\ Covered(B)'
  BY <1>0, <1>1, PlacedNext
<1>6. Ordered(B)'
  <2>1. val' = val /\ count' = count
    BY DEF RespDisconnect
  <2>2. \A x, p : Behind(x, p) => After(x, p)
    BY <1>4, <2>1 DEF Behind, After
  <2>3. \A p \in Paths : B'.stream[p] # NoStream => After(B'.stream[p].last, p)
    BY <1>0, <1>1, <2>2 DEF Ordered
  <2>4. \A r \in Reqs, p \in Paths : B'.sub[r][p] # NoSub => After(B'.sub[r][p].got, p)
    BY <1>0, <1>1, <2>2 DEF Ordered
  <2>5. \A r \in Reqs, p \in Paths : Member(B', r, p) /\ B'.sub[r][p].got # NoValue /\ B'.stream[p].last # NoValue
          => B'.sub[r][p].got[2] <= B'.stream[p].last[2]
    BY <1>0, <1>1 DEF Ordered, Member
  <2> QED
    BY <2>3, <2>4, <2>5, OrderedNext
<1>7. Owners(B)'
  BY <1>0, <1>1 DEF Owners, Agreed, OwnedBy
<1>8. Offline'
  BY <1>2, <1>3, <1>4, <1>5, <1>6, <1>7 DEF Offline
<1>9. Inv'
  BY <1>8, OfflineInv, PTL
<1> QED
  BY <1>9, SubSame DEF RespDisconnect

\* The parts of the broker once the node of the responder is freed
LEMMA NodeFreedIs ==
  ASSUME NEW b, Held(b), NEW s, Becomes(NodeFreed(b, s))
  PROVE  /\ sub' = b.sub /\ stream' = [p \in Paths |-> NoStream] /\ pending' = b.pending \o s
         /\ sid' = 0 /\ toResp' = b.out
<1>1. Fields(b)
  BY HeldIs, BrokerIs
<1> QED
  BY <1>1 DEF Fields, NodeFreed, Becomes

\* Whoever was in a stream of the responder waits for it.
LEMMA NodeFreedStep ==
  ASSUME Inv, known, ~up, known' = FALSE, UNCHANGED <<up, rup, fromResp, respVars>>,
         NEW b, Held(b), Shrunk(B, b),
         NEW s \in SetToSeqs({e \in Reqs \X Paths : b.stream[e[2]] # NoStream /\ e[1] \in b.stream[e[2]].reqs}),
         Becomes(NodeFreed(b, s))
  PROVE  Inv' /\ Advances
<1> DEFINE wait == {e \in Reqs \X Paths : b.stream[e[2]] # NoStream /\ e[1] \in b.stream[e[2]].reqs}
<1>0. b \in Broker /\ Placed(b, known) /\ Agreed(b) /\ Ordered(b) /\ EnvType /\ Linked /\ B \in Broker
  BY HeldIs DEF Inv
<1>b. b.sub \in Subs /\ b.out \in Seq(Msg)
  BY <1>0, BrokerIs
<1>1. /\ sub' = b.sub /\ stream' = [p \in Paths |-> NoStream] /\ pending' = b.pending \o s
      /\ sid' = 0 /\ toResp' = b.out
  BY NodeFreedIs
<1>2. \A r \in Reqs, p \in Paths : <<r, p>> \in wait <=> b.sub[r][p] # NoSub
  BY <1>0 DEF Placed, Member
<1>3. b.pending = <<>>
  BY <1>0 DEF Placed
<1>5. IsFiniteSet(wait) /\ wait \subseteq Reqs \X Paths /\ s \in SetToSeqs(wait)
  BY StreamConstants, FS_Product, FS_Subset
<1> HIDE DEF wait
<1>6. /\ s \in Seq(wait) /\ (\A i, j \in 1..Len(s) : s[i] = s[j] => i = j)
      /\ \A x \in wait : \E i \in 1..Len(s) : s[i] = x
  BY <1>5, OrdersAll
<1>7. \A x : x \in wait <=> \E i \in 1..Len(s) : s[i] = x
  <2>1. \A i \in 1..Len(s) : s[i] \in wait
    BY <1>6
  <2> QED
    BY <1>6, <2>1
<1>a. s \in Seq(Reqs \X Paths)
  BY <1>5, <1>6
<1>4. pending' = s
  <2> DEFINE X == Reqs \X Paths
  <2>1. s \in Seq(X)
    BY <1>a
  <2> HIDE DEF X
  <2>2. <<>> \o s = s
    BY <2>1
  <2> QED
    BY <1>1, <1>3, <2>2
<1>8. B' \in Broker
  <2>1. stream' \in [Paths -> Stream \cup {NoStream}]
    BY <1>1
  <2> QED
    BY <1>b, <1>1, <1>4, <1>a, <2>1, Parts
<1>c. B'.pending = s /\ B'.sub = b.sub /\ \A p \in Paths : B'.stream[p] = NoStream
  BY <1>1, <1>4, Parts
<1>9. Placed(B, known)'
  <2>2. Distinct(B'.pending)
    BY <1>6, <1>c DEF Distinct
  <2>3. \A r \in Reqs, p \in Paths : B'.sub[r][p] # NoSub <=> Waits(B', r, p)
    <3> SUFFICES ASSUME NEW r \in Reqs, NEW p \in Paths
                 PROVE  B'.sub[r][p] # NoSub <=> Waits(B', r, p)
      OBVIOUS
    <3> HIDE DEF B
    <3>1. Waits(B', r, p) <=> \E i \in 1..Len(s) : s[i] = <<r, p>>
      BY <1>c DEF Waits
    <3>2. Waits(B', r, p) <=> <<r, p>> \in wait
      BY <1>7, <3>1
    <3>3. B'.sub[r][p] = b.sub[r][p]
      BY <1>c
    <3> QED
      BY <1>2, <3>2, <3>3
  <2> HIDE DEF B
  <2> QED
    BY <1>c, <2>2, <2>3 DEF Placed, Waits
<1>10. Ordered(B)'
  <2>2. \A x, p : Behind(x, p) => After(x, p)
    BY DEF Behind, After, respVars
  <2>3. \A r \in Reqs, p \in Paths : B'.sub[r][p] # NoSub => After(B'.sub[r][p].got, p)
    BY <1>0, <1>c, <2>2 DEF Ordered
  <2> QED
    BY <1>c, <2>3, OrderedNext DEF Member
<1>11. Covered(B)' /\ Owners(B)'
  <2> HIDE DEF B
  <2> QED
    BY <1>c DEF Covered, Owners, Member
<1>12. Offline'
  <2>1. fromResp = <<>> /\ sidSub = {} /\ (\A p \in Paths : pathSub[p] = NoSid) /\ b.out = <<>>
    BY <1>0 DEF Linked, Agreed
  <2>2. EnvType'
    BY <1>0 DEF EnvType, respVars
  <2>3. /\ ~up' /\ toResp' = <<>> /\ fromResp' = <<>> /\ sidSub' = {} /\ (\A p \in Paths : pathSub'[p] = NoSid)
        /\ \A p \in Paths : val'[p] # NoValue => val'[p][1] = p /\ val'[p][2] <= count'
    BY <1>1, <2>1 DEF Inv, InOrder, respVars
  <2>4. rup' \subseteq Reqs
    BY DEF Inv
  <2> HIDE DEF B
  <2> QED
    BY <1>8, <1>9, <1>10, <1>11, <2>2, <2>3, <2>4 DEF Offline
<1>13. Inv'
  BY <1>12, OfflineInv, PTL
<1>14. Advances
  <2> SUFFICES ASSUME NEW r \in Reqs, NEW p \in Paths, sub[r][p] # NoSub, sub'[r][p] # NoSub, sub[r][p].got # NoValue
               PROVE  sub'[r][p].got # NoValue /\ sub'[r][p].got[2] >= sub[r][p].got[2]
    BY DEF Advances
  <2>1. sub'[r][p] = sub[r][p]
    BY <1>1, Parts DEF Shrunk
  <2>2. sub[r][p].got[2] \in Nat
    BY <1>0, Parts, GotNat
  <2> QED
    BY <2>1, <2>2
<1> QED
  BY <1>13, <1>14

LEMMA ClearConnsStep ==
  ASSUME Inv, ClearConns
  PROVE  Inv' /\ Advances
<1> DEFINE gone == {e \in (Reqs \ rup) \X Paths : sub[e[1]][e[2]] # NoSub}
           Waiting(b) == {e \in Reqs \X Paths : b.stream[e[2]] # NoStream /\ e[1] \in b.stream[e[2]].reqs}
<1>1. PICK order \in SetToSeqs(gone) :
        \/ Becomes(Freed(order)) /\ UNCHANGED known
        \/ /\ known /\ ~up /\ known' = FALSE
           /\ \E s \in SetToSeqs(Waiting(Freed(order))) : Becomes(NodeFreed(Freed(order), s))
  BY DEF ClearConns
<1>2. UNCHANGED <<up, rup, fromResp, respVars>>
  BY DEF ClearConns
<1>3. gone \in SUBSET (Reqs \X Paths)
  OBVIOUS
<1> DEFINE b == Freed(order)
<1> HIDE DEF gone
<1>4. Held(b) /\ Shrunk(B, b)
  BY <1>3, OrderIs, FreedIs DEF Inv
<1> HIDE DEF b
<1>5. CASE Becomes(b) /\ UNCHANGED known
  <2>1. Forward(B, b)
    <3> SUFFICES ASSUME NEW x \in Reqs, NEW y \in Paths, B.sub[x][y] # NoSub, b.sub[x][y] # NoSub, B.sub[x][y].got # NoValue
                 PROVE  b.sub[x][y].got # NoValue /\ b.sub[x][y].got[2] >= B.sub[x][y].got[2]
      BY DEF Forward
    <3>1. b.sub[x][y] = B.sub[x][y]
      BY <1>4 DEF Shrunk
    <3>2. B \in Broker
      BY HeldIs DEF Inv
    <3>3. B.sub[x][y].got[2] \in Nat
      BY <3>2, GotNat
    <3> QED
      BY <3>1, <3>3
  <2>2. rup' \subseteq Reqs
    BY <1>2 DEF Inv
  <2> QED
    BY <1>2, <1>4, <1>5, <2>1, <2>2, HandlerStep
<1>6. CASE /\ known /\ ~up /\ known' = FALSE
           /\ \E s \in SetToSeqs(Waiting(b)) : Becomes(NodeFreed(b, s))
  BY <1>2, <1>4, <1>6, NodeFreedStep
<1> QED
  BY <1>1, <1>5, <1>6 DEF b

-----------------------------------------------------------------------------
\* The responder sends u, the present value of a path.
Sent(u) ==
  /\ u \in Update0 /\ fromResp' = Append(fromResp, u)
  /\ u.val[1] \in Paths /\ u.val = val'[u.val[1]]
\* Values only become newer.
Raised ==
  /\ count <= count' /\ count' \in Nat
  /\ \A p \in Paths : val'[p] = val[p] \/ val'[p] = <<p, count'>>

LEMMA ValueIs ==
  ASSUME NEW v \in Value
  PROVE  v # NoValue /\ v[1] \in Paths /\ v[2] \in Nat
BY NoneApart DEF Value

LEMMA SentUpdate ==
  ASSUME EnvType, NEW u, Sent(u)
  PROVE  /\ Len(fromResp) \in Nat /\ Len(fromResp') = Len(fromResp) + 1 /\ fromResp'[Len(fromResp) + 1] = u
         /\ fromResp' \in Seq(Update0)
         /\ \A i \in 1..Len(fromResp) : fromResp'[i] = fromResp[i] /\ fromResp[i] \in Update0
         /\ \A i \in 1..Len(fromResp') : i \in 1..Len(fromResp) \/ i = Len(fromResp) + 1
         /\ Len(fromResp) + 1 \in 1..Len(fromResp') /\ \A i \in 1..Len(fromResp) : i \in 1..Len(fromResp')
<1>1. /\ Len(fromResp) \in Nat /\ Len(fromResp') = Len(fromResp) + 1 /\ fromResp'[Len(fromResp) + 1] = u
      /\ fromResp' \in Seq(Update0)
      /\ \A i \in 1..Len(fromResp) : fromResp'[i] = fromResp[i]
  <2> DEFINE X == Update0
             f == fromResp
  <2>1. f \in Seq(X) /\ u \in X
    BY DEF EnvType, Sent
  <2> HIDE DEF X, f
  <2>2. /\ Append(f, u) \in Seq(X) /\ Len(Append(f, u)) = Len(f) + 1 /\ Append(f, u)[Len(f) + 1] = u
        /\ \A i \in 1..Len(f) : Append(f, u)[i] = f[i]
    BY <2>1, AppendProperties
  <2>3. Len(f) \in Nat
    BY <2>1
  <2> QED
    BY <2>2, <2>3 DEF X, f, Sent
<1>2. \A i \in 1..Len(fromResp) : fromResp[i] \in Update0
  BY DEF EnvType
<1> QED
  BY <1>1, <1>2

LEMMA UpdateIs ==
  ASSUME EnvType, NEW i \in 1..Len(fromResp)
  PROVE  fromResp[i].sid \in Nat /\ fromResp[i].val \in Value /\ fromResp[i].val[2] \in Nat
<1>1. fromResp[i] \in Update0
  BY DEF EnvType
<1> QED
  BY <1>1 DEF Update0, Value

\* What is sent keeps the order.
LEMMA SentInOrder ==
  ASSUME EnvType, InOrder, Raised, EnvType', fromResp' = fromResp \/ \E u : Sent(u)
  PROVE  InOrder' /\ \A x \in Value \cup {NoValue}, y \in Paths : Behind(x, y) => After(x, y)
<1>1. \A p \in Paths : val'[p] # NoValue => val'[p] \in Value /\ val'[p][1] = p /\ val'[p][2] <= count' /\ val'[p][2] \in Nat
  <2> SUFFICES ASSUME NEW p \in Paths, val'[p] # NoValue
               PROVE  val'[p] \in Value /\ val'[p][1] = p /\ val'[p][2] <= count' /\ val'[p][2] \in Nat
    OBVIOUS
  <2>1. val'[p] \in Value
    BY DEF EnvType
  <2>2. val'[p][2] \in Nat /\ count \in Nat /\ count' \in Nat
    BY <2>1, ValueIs DEF EnvType
  <2>3. CASE val'[p] = val[p]
    BY <2>1, <2>2, <2>3 DEF InOrder, Raised
  <2>4. CASE val'[p] = <<p, count'>>
    BY <2>1, <2>2, <2>4
  <2> QED
    BY <2>3, <2>4 DEF Raised
<1>2. \A p \in Paths : val[p] # NoValue => val'[p] # NoValue /\ val[p][2] <= val'[p][2]
  <2> SUFFICES ASSUME NEW p \in Paths, val[p] # NoValue
               PROVE  val'[p] # NoValue /\ val[p][2] <= val'[p][2]
    OBVIOUS
  <2>1. val[p] \in Value /\ val[p][2] \in Nat /\ val[p][2] <= count /\ count \in Nat /\ count' \in Nat /\ count <= count'
    BY ValueIs DEF EnvType, InOrder, Raised
  <2>2. CASE val'[p] = val[p]
    BY <2>1, <2>2
  <2>3. CASE val'[p] = <<p, count'>>
    <3>1. <<p, count'>> \in Value
      BY <2>1 DEF Value
    <3>2. val'[p] # NoValue
      BY <2>3, <3>1, NoneApart
    <3> QED
      BY <2>1, <2>3, <3>2
  <2> QED
    BY <2>2, <2>3 DEF Raised
<1>3. ASSUME NEW i \in 1..Len(fromResp)
      PROVE  LET x == fromResp[i].val IN x[1] \in Paths /\ val'[x[1]] # NoValue /\ x[2] <= val'[x[1]][2] /\ x[2] \in Nat
  <2> DEFINE x == fromResp[i].val
  <2>1. x[1] \in Paths /\ val[x[1]] # NoValue /\ x[2] <= val[x[1]][2]
    BY DEF InOrder
  <2>2. x[2] \in Nat
    BY UpdateIs
  <2> HIDE DEF x
  <2>3. val'[x[1]] # NoValue /\ val[x[1]][2] <= val'[x[1]][2] /\ val'[x[1]][2] \in Nat /\ val[x[1]][2] \in Nat
    <3>1. val[x[1]] \in Value
      BY <2>1 DEF EnvType
    <3> QED
      BY <1>1, <1>2, <2>1, <3>1, ValueIs
  <2>4. x[2] <= val'[x[1]][2]
    BY <2>1, <2>2, <2>3
  <2> QED
    BY <2>1, <2>2, <2>3, <2>4 DEF x
<1>4. \A x \in Value, y \in Paths : Behind(x, y) => x[1] = y /\ x[2] <= count' /\ (val'[y] # NoValue => x[2] <= val'[y][2])
  <2> SUFFICES ASSUME NEW x \in Value, NEW y \in Paths, Behind(x, y)
               PROVE  x[1] = y /\ x[2] <= count' /\ (val'[y] # NoValue => x[2] <= val'[y][2])
    OBVIOUS
  <2>1. x # NoValue /\ x[2] \in Nat
    BY ValueIs
  <2>2. x[1] = y /\ x[2] <= count /\ (val[y] # NoValue => x[2] <= val[y][2])
    BY <2>1 DEF Behind
  <2>3. x[2] <= count'
    BY <2>1, <2>2 DEF Raised, EnvType
  <2>4. CASE val'[y] = val[y]
    BY <2>2, <2>3, <2>4
  <2>5. CASE val'[y] = <<y, count'>>
    BY <2>2, <2>3, <2>5
  <2> QED
    BY <2>4, <2>5 DEF Raised
<1>5. CASE fromResp' = fromResp
  <2>1. InOrder'
    BY <1>1, <1>3, <1>5 DEF InOrder
  <2>2. ASSUME NEW x \in Value, NEW y \in Paths, Behind(x, y) PROVE After(x, y)
    <3>1. \A i \in 1..Len(fromResp) : fromResp[i].val[1] = y => x[2] <= fromResp[i].val[2]
      BY <2>2, ValueIs DEF Behind
    <3> QED
      BY <1>4, <1>5, <2>2, <3>1 DEF After
  <2> QED
    BY <2>1, <2>2 DEF After
<1>6. CASE \E u : Sent(u)
  <2>1. PICK u : Sent(u)
    BY <1>6
  <2> DEFINE n == Len(fromResp)
             f == fromResp'
  <2>2. /\ n \in Nat /\ Len(f) = n + 1 /\ f[n + 1] = u
        /\ \A i \in 1..n : f[i] = fromResp[i]
        /\ \A i \in 1..Len(f) : i \in 1..n \/ i = n + 1
    BY <2>1, SentUpdate
  <2>3. u.val[1] \in Paths /\ u.val = val'[u.val[1]] /\ u.val # NoValue /\ u.val[2] \in Nat
    BY <2>1, ValueIs DEF Sent, Update0
  <2> HIDE DEF n, f
  <2>4. ASSUME NEW i \in 1..Len(f)
        PROVE  LET x == f[i].val IN x[1] \in Paths /\ val'[x[1]] # NoValue /\ x[2] <= val'[x[1]][2]
    <3>1. CASE i \in 1..n
      BY <1>3, <2>2, <3>1 DEF n
    <3>2. CASE i = n + 1
      BY <2>2, <2>3, <3>2
    <3> QED
      BY <2>2, <3>1, <3>2
  <2>5. ASSUME NEW i \in 1..Len(f), NEW j \in 1..Len(f), i < j, f[i].val[1] = f[j].val[1]
        PROVE  f[i].val[2] <= f[j].val[2]
    <3>1. i \in 1..n /\ f[i] = fromResp[i]
      BY <2>2, <2>5
    <3>2. CASE j \in 1..n
      <4>1. f[j] = fromResp[j]
        BY <2>2, <3>2
      <4> QED
        BY <2>5, <3>1, <3>2, <4>1 DEF InOrder, n
    <3>3. CASE j = n + 1
      <4>1. f[j] = u
        BY <2>2, <3>3
      <4>2. f[i].val[2] <= val'[f[i].val[1]][2]
        BY <1>3, <3>1 DEF n
      <4> QED
        BY <2>3, <2>5, <4>1, <4>2
    <3> QED
      BY <2>2, <3>2, <3>3
  <2>6. InOrder'
    BY <1>1, <2>4, <2>5 DEF InOrder, f
  <2>7. ASSUME NEW x \in Value, NEW y \in Paths, Behind(x, y) PROVE After(x, y)
    <3>1. \A i \in 1..n : fromResp[i].val[1] = y => x[2] <= fromResp[i].val[2]
      BY <2>7, ValueIs DEF Behind, n
    <3>2. ASSUME NEW i \in 1..Len(f), f[i].val[1] = y PROVE x[2] <= f[i].val[2]
      <4>1. CASE i \in 1..n
        BY <2>2, <3>1, <3>2, <4>1
      <4>2. CASE i = n + 1
        <5>1. f[i] = u
          BY <2>2, <4>2
        <5> QED
          BY <1>4, <2>3, <2>7, <3>2, <5>1
      <4> QED
        BY <2>2, <4>1, <4>2
    <3> QED
      BY <1>4, <2>7, <3>2 DEF After, f
  <2> QED
    BY <2>6, <2>7 DEF After
<1> QED
  BY <1>5, <1>6

\* Coming and Arrived, after a step
Comes(s, v) == \E i \in 1..Len(fromResp') :
  fromResp'[i].sid = s /\ fromResp'[i].val = v /\ \A j \in i + 1..Len(fromResp') : fromResp'[j].sid # s
Arrives(p) ==
  /\ \A i \in 1..Len(fromResp') : fromResp'[i].sid # B'.stream[p].sid
  /\ B'.stream[p].last = val'[p] /\ \A r \in B'.stream[p].reqs : B'.sub[r][p].got = val'[p]

LEMMA CurrentNext ==
  ASSUME \A p \in Paths : B'.stream[p] # NoStream /\ val'[p] # NoValue =>
           Asking(B'.out, B'.stream[p].sid) \/ Comes(B'.stream[p].sid, val'[p]) \/ Arrives(p)
  PROVE  Current(B)'
<1> HIDE DEF B
<1> QED
  BY DEF Current, Asking, Comes, Coming, Arrives, Arrived

\* What has not come yet still has not, unless it is what is sent.
LEMMA SentComing ==
  ASSUME EnvType, NEW u, Sent(u)
  PROVE  /\ Comes(u.sid, u.val)
         /\ \A s, v : s # u.sid /\ Coming(s, v) => Comes(s, v)
         /\ \A s : s # u.sid /\ (\A i \in 1..Len(fromResp) : fromResp[i].sid # s) => \A i \in 1..Len(fromResp') : fromResp'[i].sid # s
<1> DEFINE n == Len(fromResp)
           f == fromResp'
<1>1. /\ n \in Nat /\ Len(f) = n + 1 /\ f[n + 1] = u
      /\ \A i \in 1..n : f[i] = fromResp[i]
      /\ \A i \in 1..Len(f) : i \in 1..n \/ i = n + 1
      /\ n + 1 \in 1..Len(f) /\ \A i \in 1..n : i \in 1..Len(f)
  BY SentUpdate
<1> HIDE DEF n, f
<1>2. Comes(u.sid, u.val)
  <2>1. \A j \in n + 1 + 1..Len(f) : FALSE
    BY <1>1
  <2>2. \E i \in 1..Len(f) : f[i].sid = u.sid /\ f[i].val = u.val /\ \A j \in i + 1..Len(f) : f[j].sid # u.sid
    BY <1>1, <2>1
  <2> QED
    BY <2>2 DEF Comes, f
<1>3. ASSUME NEW s, NEW v, s # u.sid, Coming(s, v) PROVE Comes(s, v)
  <2>1. PICK i \in 1..n : fromResp[i].sid = s /\ fromResp[i].val = v /\ \A j \in i + 1..n : fromResp[j].sid # s
    BY <1>3 DEF Coming, n
  <2>2. i \in 1..Len(f) /\ f[i].sid = s /\ f[i].val = v
    BY <1>1, <2>1
  <2>3. ASSUME NEW j \in i + 1..Len(f) PROVE f[j].sid # s
    <3>1. j \in i + 1..n \/ j = n + 1
      BY <1>1
    <3>2. CASE j \in i + 1..n
      <4>1. j \in 1..n
        BY <1>1, <3>2
      <4> QED
        BY <1>1, <2>1, <3>2, <4>1
    <3>3. CASE j = n + 1
      BY <1>1, <1>3, <3>3
    <3> QED
      BY <3>1, <3>2, <3>3
  <2>4. \E k \in 1..Len(f) : f[k].sid = s /\ f[k].val = v /\ \A j \in k + 1..Len(f) : f[j].sid # s
    BY <2>2, <2>3
  <2> QED
    BY <2>4 DEF Comes, f
<1>4. ASSUME NEW s, s # u.sid, \A i \in 1..n : fromResp[i].sid # s, NEW i \in 1..Len(f) PROVE f[i].sid # s
  <2>1. CASE i \in 1..n
    BY <1>1, <1>4, <2>1
  <2>2. CASE i = n + 1
    BY <1>1, <1>4, <2>2
  <2> QED
    BY <1>1, <2>1, <2>2
<1> QED
  BY <1>2, <1>3, <1>4 DEF n, f

\* What the responder sends of p goes to the sid of p.
LEMMA OwnedSent ==
  ASSUME EnvType, NEW own, OwnedBy(own, B), NEW u, Sent(u), u.sid < B.sid, own[u.sid] = u.val[1]
  PROVE  \A i \in 1..Len(fromResp') : fromResp'[i].sid < B.sid /\ own[fromResp'[i].sid] = fromResp'[i].val[1]
<1> DEFINE n == Len(fromResp)
           f == fromResp'
<1>1. /\ n \in Nat /\ Len(f) = n + 1 /\ f[n + 1] = u
      /\ \A i \in 1..n : f[i] = fromResp[i]
      /\ \A i \in 1..Len(f) : i \in 1..n \/ i = n + 1
  BY SentUpdate
<1> HIDE DEF n, f
<1>2. ASSUME NEW i \in 1..Len(f) PROVE f[i].sid < B.sid /\ own[f[i].sid] = f[i].val[1]
  <2>1. CASE i \in 1..n
    BY <1>1, <2>1 DEF OwnedBy, n
  <2>2. CASE i = n + 1
    BY <1>1, <2>2
  <2> QED
    BY <1>1, <2>1, <2>2
<1> QED
  BY <1>2 DEF f

\* The values of subscriptions and streams are not ahead after a step that
\* changes neither.
LEMMA OrderedSame ==
  ASSUME B \in Broker, Ordered(B), B'.sub = B.sub, B'.stream = B.stream,
         \A x \in Value \cup {NoValue}, y \in Paths : Behind(x, y) => After(x, y)
  PROVE  Ordered(B)'
<1> HIDE DEF B
<1>1. ASSUME NEW p \in Paths, B'.stream[p] # NoStream PROVE After(B'.stream[p].last, p)
  <2>1. B.stream[p].last \in Value \cup {NoValue} /\ Behind(B.stream[p].last, p)
    BY <1>1, BrokerIs DEF Ordered
  <2> QED
    BY <2>1
<1>2. ASSUME NEW r \in Reqs, NEW p \in Paths, B'.sub[r][p] # NoSub PROVE After(B'.sub[r][p].got, p)
  <2>1. B.sub[r][p].got \in Value \cup {NoValue} /\ Behind(B.sub[r][p].got, p)
    BY <1>2, BrokerIs DEF Ordered
  <2> QED
    BY <2>1
<1>3. \A r \in Reqs, p \in Paths : Member(B', r, p) /\ B'.sub[r][p].got # NoValue /\ B'.stream[p].last # NoValue
        => B'.sub[r][p].got[2] <= B'.stream[p].last[2]
  BY DEF Ordered, Member
<1> QED
  BY <1>1, <1>2, <1>3, OrderedNext

LEMMA PublishStep ==
  ASSUME Inv, NEW p \in Paths, Publish(p)
  PROVE  Inv' /\ Advances
<1> DEFINE v == <<p, count'>>
           s == pathSub[p]
           u == [sid |-> s, val |-> v]
<1>0. B \in Broker /\ Placed(B, known) /\ Agreed(B) /\ Covered(B) /\ Ordered(B) /\ (up => Current(B)) /\ EnvType /\ Linked /\ Mirror /\ InOrder
  BY HeldIs DEF Inv, Held, Sound
<1>1. /\ count' = count + 1 /\ val' = [val EXCEPT ![p] = v] /\ SendVal(p, s, val'[p])
      /\ UNCHANGED <<known, up, rup, brokerVars, pathSub, sidSub>>
  BY DEF Publish
<1>2. B' = B /\ sub' = sub
  BY <1>1 DEF brokerVars, B
<1>3. v \in Value /\ v # NoValue /\ count' \in Nat /\ count \in Nat
  <2>1. count' \in Nat /\ count \in Nat
    BY <1>0, <1>1 DEF EnvType
  <2> QED
    BY <2>1, NoneApart DEF Value
<1>4. val'[p] = v /\ (\A y \in Paths : y # p => val'[y] = val[y]) /\ val' \in [Paths -> Value \cup {NoValue}]
  BY <1>0, <1>1, <1>3 DEF EnvType
<1>5. v[1] = p /\ v[2] = count'
  OBVIOUS
<1>6. s \in Nat \cup {NoSid}
  BY <1>0 DEF EnvType, Sids
<1> HIDE DEF v
<1>7. s = NoSid => fromResp' = fromResp
  BY <1>1 DEF SendVal
<1>8. s # NoSid => Sent(u) /\ u.sid = s /\ u.val = v
  <2> SUFFICES ASSUME s # NoSid PROVE Sent(u) /\ u.sid = s /\ u.val = v
    OBVIOUS
  <2>1. fromResp' = Append(fromResp, u)
    BY <1>1, <1>3, <1>4 DEF SendVal
  <2>2. u \in Update0
    BY <1>3, <1>6 DEF Update0
  <2> QED
    BY <1>4, <1>5, <2>1, <2>2 DEF Sent
<1> HIDE DEF u, B, s
<1>9. EnvType'
  <2>1. fromResp' \in Seq(Update0)
    BY <1>0, <1>7, <1>8, SentUpdate DEF EnvType
  <2> QED
    BY <1>0, <1>1, <1>3, <1>4, <2>1 DEF EnvType
<1>10. Raised
  BY <1>1, <1>3, <1>4 DEF Raised, v
<1>11. InOrder' /\ \A x \in Value \cup {NoValue}, y \in Paths : Behind(x, y) => After(x, y)
  BY <1>0, <1>7, <1>8, <1>9, <1>10, SentInOrder
<1>12. Mirror' /\ (rup \subseteq Reqs)'
  BY <1>0, <1>1 DEF Inv, Mirror
<1>13. Linked'
  BY <1>0, <1>1, <1>7 DEF Linked, s
<1>14. Placed(B, known)' /\ Covered(B)'
  BY <1>0, <1>1, <1>2, PlacedNext
<1>15. Ordered(B)'
  BY <1>0, <1>2, <1>11, OrderedSame
<1>16. PICK own : OwnedBy(own, B)
  BY <1>0 DEF Agreed
<1>17. s # NoSid => s < B.sid /\ own[s] = p
  <2> SUFFICES ASSUME s # NoSid PROVE s < B.sid /\ own[s] = p
    OBVIOUS
  <2>1. <<s, p>> \in sidSub
    BY <1>0 DEF Mirror, s
  <2> DEFINE e == <<s, p>>
  <2>2. e \in sidSub /\ e[1] = s /\ e[2] = p
    BY <2>1
  <2> HIDE DEF e
  <2> QED
    BY <1>16, <2>2 DEF OwnedBy
<1>18. Agreed(B)'
  <2>1. \A i \in 1..Len(fromResp') : fromResp'[i].sid < B.sid /\ own[fromResp'[i].sid] = fromResp'[i].val[1]
    <3>1. CASE s = NoSid
      BY <1>7, <1>16, <3>1 DEF OwnedBy
    <3>2. CASE s # NoSid
      BY <1>0, <1>5, <1>8, <1>16, <1>17, <3>2, OwnedSent
    <3> QED
      BY <3>1, <3>2
  <2>2. OwnedBy(own, B)'
    BY <1>1, <1>2, <1>16, <2>1 DEF OwnedBy
  <2>3. (up => InStep(SidOf(B), B.out, pathSub))' /\ (~up => B.out = <<>>)'
    BY <1>0, <1>1, <1>2 DEF Agreed, SidOf
  <2> QED
    BY <2>2, <2>3 DEF Agreed
<1>19. (up => Current(B))'
  <2> SUFFICES ASSUME up PROVE Current(B)'
    BY <1>1
  <2>1. ASSUME NEW y \in Paths, B.stream[y] # NoStream, val'[y] # NoValue
        PROVE  Asking(B.out, B.stream[y].sid) \/ Comes(B.stream[y].sid, val'[y]) \/ Arrives(y)
    <3> DEFINE t == B.stream[y].sid
    <3>0. t \in Nat /\ own[t] = y
      BY <1>0, <1>16, <2>1, BrokerIs DEF OwnedBy
    <3>1. CASE y = p
      <4>1. t = s \/ Asking(B.out, t)
        <5>1. SidOf(B)[p] = t /\ t # NoSid
          BY <1>0, <2>1, <3>0, <3>1, SidOfIs, NoSidIsNone
        <5>2. PICK i \in 0..Len(B.out) : Use(pathSub, B.out, p, t, i)
          BY <1>0, <5>1 DEF Agreed, InStep, NowUsed
        <5>3. CASE i = 0
          BY <5>2, <5>3 DEF Use, s
        <5>4. CASE i # 0
          <6>1. i \in 1..Len(B.out)
            BY <5>4
          <6> QED
            BY <5>2, <5>4, <6>1 DEF Use, Asking
        <5> QED
          BY <5>3, <5>4
      <4>2. CASE t = s
        <5>1. Sent(u) /\ u.sid = t /\ u.val = val'[y]
          BY <1>4, <1>8, <3>0, <3>1, <4>2, NoSidIsNone
        <5>2. Comes(u.sid, u.val)
          BY <1>0, <5>1, SentComing
        <5> QED
          BY <5>1, <5>2
      <4> QED
        BY <4>1, <4>2
    <3>2. CASE y # p
      <4>0. val'[y] = val[y]
        BY <1>4, <3>2
      <4>1. Asking(B.out, t) \/ Coming(t, val[y]) \/ Arrived(B, y)
        BY <1>0, <2>1, <4>0 DEF Current
      <4>2. CASE s = NoSid
        BY <1>2, <1>7, <4>0, <4>1, <4>2 DEF Coming, Arrived, Comes, Arrives
      <4>3. CASE s # NoSid
        <5>1. t # u.sid /\ Sent(u)
          BY <1>8, <1>17, <3>0, <3>2, <4>3
        <5>2. Coming(t, val[y]) => Comes(t, val[y])
          BY <1>0, <5>1, SentComing
        <5>3. ASSUME Arrived(B, y) PROVE Arrives(y)
          <6>1. \A i \in 1..Len(fromResp') : fromResp'[i].sid # t
            BY <1>0, <5>1, <5>3, SentComing DEF Arrived
          <6> QED
            BY <1>2, <4>0, <5>3, <6>1 DEF Arrived, Arrives
        <5> QED
          BY <4>0, <4>1, <5>2, <5>3
      <4> QED
        BY <4>2, <4>3
    <3> QED
      BY <3>1, <3>2
  <2> QED
    BY <1>2, <2>1, CurrentNext
<1>20. Inv'
  <2>1. (B \in Broker)'
    BY <1>0, <1>2
  <2>2. Held(B)'
    BY <1>14, <1>15, <1>18, <1>19, <2>1 DEF Held, Sound
  <2> QED
    BY <1>9, <1>11, <1>12, <1>13, <2>2 DEF Inv
<1> QED
  BY <1>2, <1>20, SubSame

\* The responder has taken the first message.
LEMMA TailIs ==
  ASSUME NEW out \in Seq(Msg), out # <<>>
  PROVE  /\ Tail(out) \in Seq(Msg) /\ Head(out) \in Msg /\ 1 \in 1..Len(out) /\ Head(out) = out[1]
         /\ \A i \in 1..Len(Tail(out)) : Tail(out)[i] = out[i + 1] /\ i + 1 \in 1..Len(out)
         /\ \A i \in 1..Len(out) : i = 1 \/ (i - 1 \in 1..Len(Tail(out)) /\ Tail(out)[i - 1] = out[i])
<1> DEFINE o2 == Tail(out)
<1>1. /\ o2 \in Seq(Msg) /\ Len(out) \in Nat /\ Len(out) # 0 /\ Len(o2) = Len(out) - 1
      /\ Head(out) = out[1] /\ out[1] \in Msg /\ \A i \in 1..Len(o2) : o2[i] = out[i + 1]
  BY HeadTailProperties
<1> HIDE DEF o2
<1>2. ASSUME NEW i \in 1..Len(out), i # 1 PROVE i - 1 \in 1..Len(o2) /\ o2[i - 1] = out[i]
  <2>1. i - 1 \in 1..Len(o2) /\ (i - 1) + 1 = i
    BY <1>1, <1>2
  <2>2. o2[i - 1] = out[(i - 1) + 1]
    BY <1>1, <2>1
  <2> QED
    BY <2>1, <2>2
<1>3. 1 \in 1..Len(out) /\ \A i \in 1..Len(o2) : i + 1 \in 1..Len(out)
  BY <1>1
<1> QED
  BY <1>1, <1>2, <1>3 DEF o2

LEMMA RespSubscribeStep ==
  ASSUME Inv, RespSubscribe
  PROVE  Inv' /\ Advances
<1> DEFINE m == Head(toResp)
           p == m.path
           s == m.sid
           v == val[p]
           u == [sid |-> s, val |-> v]
           o2 == Tail(toResp)
<1>0. B \in Broker /\ Placed(B, known) /\ Agreed(B) /\ Covered(B) /\ Ordered(B) /\ (up => Current(B)) /\ EnvType /\ Linked /\ Mirror /\ InOrder
  BY HeldIs DEF Inv, Held, Sound
<1>1. /\ toResp # <<>> /\ m.method = "subscribe" /\ toResp' = o2
      /\ pathSub' = [pathSub EXCEPT ![p] = s]
      /\ sidSub' = {e \in sidSub : e[1] # s} \cup {<<s, p>>}
      /\ SendVal(p, s, v)
      /\ known' = known /\ up' = up /\ rup' = rup /\ sub' = sub /\ stream' = stream
      /\ pending' = pending /\ sid' = sid /\ val' = val /\ count' = count
  BY DEF RespSubscribe
<1>2. B'.sub = B.sub /\ B'.stream = B.stream /\ B'.pending = B.pending /\ B'.sid = B.sid /\ B.out = toResp /\ B'.out = o2
  BY <1>1, Parts
<1>3. up
  BY <1>0, <1>1, <1>2 DEF Agreed
<1>4. toResp \in Seq(Msg) /\ SidOf(B) \in Sids /\ pathSub \in Sids
  BY <1>0, <1>2, BrokerIs, SidOfIs DEF EnvType
<1>5. p \in Paths /\ s \in Nat /\ InStep(SidOf(B), o2, [pathSub EXCEPT ![p] = s]) /\ pathSub[p] \in {s, NoSid}
  <2>1. InStep(SidOf(B), toResp, pathSub)
    BY <1>0, <1>2, <1>3 DEF Agreed
  <2> QED
    BY <1>1, <1>4, <2>1, InStepTakeAsk
<1>6. /\ o2 \in Seq(Msg) /\ 1 \in 1..Len(toResp) /\ m = toResp[1]
      /\ \A i \in 1..Len(o2) : o2[i] = toResp[i + 1] /\ i + 1 \in 1..Len(toResp)
      /\ \A i \in 1..Len(toResp) : i = 1 \/ (i - 1 \in 1..Len(o2) /\ o2[i - 1] = toResp[i])
  BY <1>1, <1>4, TailIs
<1>7. PICK own : OwnedBy(own, B)
  BY <1>0 DEF Agreed
<1>8. s < B.sid /\ own[s] = p
  BY <1>1, <1>2, <1>6, <1>7 DEF OwnedBy
<1>9. v \in Value \cup {NoValue} /\ (v # NoValue => v[1] = p)
  BY <1>0, <1>5 DEF EnvType, InOrder
<1>10. v = NoValue => fromResp' = fromResp
  BY <1>1 DEF SendVal
<1>11. v # NoValue => Sent(u) /\ u.sid = s /\ u.val = v
  <2> SUFFICES ASSUME v # NoValue PROVE Sent(u) /\ u.sid = s /\ u.val = v
    OBVIOUS
  <2>1. fromResp' = Append(fromResp, u)
    BY <1>1, <1>5, NoSidIsNone DEF SendVal
  <2>2. u \in Update0
    BY <1>5, <1>9 DEF Update0
  <2>3. u.val = v /\ u.sid = s
    OBVIOUS
  <2>4. u.val[1] \in Paths /\ u.val = val'[u.val[1]]
    BY <1>1, <1>5, <1>9, <2>3
  <2> HIDE DEF u
  <2> QED
    BY <2>1, <2>2, <2>3, <2>4 DEF Sent
<1> HIDE DEF m, p, s, u, o2, B
<1>12. /\ pathSub' \in Sids /\ pathSub'[p] = s /\ \A y \in Paths : y # p => pathSub'[y] = pathSub[y]
  BY <1>1, <1>4, <1>5 DEF Sids
<1>13. EnvType'
  <2>1. fromResp' \in Seq(Update0)
    BY <1>0, <1>10, <1>11, SentUpdate DEF EnvType
  <2>2. sidSub' \subseteq Nat \X Paths
    BY <1>0, <1>1, <1>5 DEF EnvType
  <2> QED
    BY <1>0, <1>1, <1>12, <2>1, <2>2 DEF EnvType
<1>14. InOrder' /\ \A x \in Value \cup {NoValue}, y \in Paths : Behind(x, y) => After(x, y)
  <2>1. Raised
    BY <1>0, <1>1 DEF Raised, EnvType
  <2> QED
    BY <1>0, <1>10, <1>11, <1>13, <2>1, SentInOrder
<1>15. Mirror'
  <2>1. ASSUME NEW y \in Paths, pathSub'[y] # NoSid PROVE <<pathSub'[y], y>> \in sidSub'
    <3>1. CASE y = p
      BY <1>1, <1>12, <3>1
    <3>2. CASE y # p
      <4> DEFINE e == <<pathSub[y], y>>
      <4>1. pathSub'[y] = pathSub[y] /\ e \in sidSub /\ e[1] = pathSub[y] /\ e[2] = y
        BY <1>0, <1>12, <2>1, <3>2 DEF Mirror
      <4>2. own[e[1]] = e[2]
        BY <1>7, <4>1 DEF OwnedBy
      <4>3. e[1] # s
        BY <1>8, <3>2, <4>1, <4>2
      <4> HIDE DEF e
      <4>4. e \in sidSub'
        BY <1>1, <4>1, <4>3
      <4> QED
        BY <4>1, <4>4 DEF e
    <3> QED
      BY <3>1, <3>2
  <2>2. ASSUME NEW e \in sidSub' PROVE pathSub'[e[2]] = e[1]
    <3>1. CASE e = <<s, p>>
      BY <1>12, <3>1
    <3>2. CASE e \in sidSub /\ e[1] # s
      <4>1. pathSub[e[2]] = e[1] /\ e[2] \in Paths /\ e[1] \in Nat
        BY <1>0, <3>2 DEF Mirror, EnvType
      <4>2. e[2] # p
        BY <1>5, <3>2, <4>1, NoSidIsNone
      <4> QED
        BY <1>12, <4>1, <4>2
    <3> QED
      BY <1>1, <3>1, <3>2
  <2> QED
    BY <2>1, <2>2 DEF Mirror
<1>16. Linked' /\ (rup \subseteq Reqs)'
  BY <1>0, <1>1, <1>3 DEF Linked, Inv
<1>17. Placed(B, known)' /\ Covered(B)'
  BY <1>0, <1>1, <1>2, PlacedNext
<1>18. Ordered(B)'
  BY <1>0, <1>2, <1>14, OrderedSame
<1>19. Agreed(B)'
  <2>1. \A i \in 1..Len(fromResp') : fromResp'[i].sid < B.sid /\ own[fromResp'[i].sid] = fromResp'[i].val[1]
    <3>1. CASE v = NoValue
      BY <1>7, <1>10, <3>1 DEF OwnedBy
    <3>2. CASE v # NoValue
      BY <1>0, <1>7, <1>8, <1>9, <1>11, <3>2, OwnedSent
    <3> QED
      BY <3>1, <3>2
  <2>2. \A i \in 1..Len(o2) : o2[i].sid < B.sid /\ (o2[i].method = "subscribe" => own[o2[i].sid] = o2[i].path)
    <3>1. \A i \in 1..Len(toResp) : toResp[i].sid < B.sid /\ (toResp[i].method = "subscribe" => own[toResp[i].sid] = toResp[i].path)
      BY <1>2, <1>7 DEF OwnedBy
    <3> SUFFICES ASSUME NEW i \in 1..Len(o2)
                 PROVE  o2[i].sid < B.sid /\ (o2[i].method = "subscribe" => own[o2[i].sid] = o2[i].path)
      OBVIOUS
    <3>2. o2[i] = toResp[i + 1] /\ i + 1 \in 1..Len(toResp)
      BY <1>6
    <3> QED
      BY <3>1, <3>2
  <2>3. \A e \in sidSub' : e[1] < B.sid /\ own[e[1]] = e[2]
    BY <1>1, <1>7, <1>8 DEF OwnedBy
  <2>4. OwnedBy(own, B)'
    BY <1>2, <1>7, <2>1, <2>2, <2>3 DEF OwnedBy
  <2>5. (up => InStep(SidOf(B), B.out, pathSub))'
    BY <1>1, <1>2, <1>5 DEF SidOf
  <2>6. (~up => B.out = <<>>)'
    BY <1>1, <1>3
  <2> QED
    BY <2>4, <2>5, <2>6 DEF Agreed
<1>20. Current(B)'
  <2>1. ASSUME NEW y \in Paths, B.stream[y] # NoStream, val[y] # NoValue
        PROVE  Asking(o2, B.stream[y].sid) \/ Comes(B.stream[y].sid, val[y]) \/ Arrives(y)
    <3> DEFINE t == B.stream[y].sid
    <3>0. own[t] = y
      BY <1>7, <2>1 DEF OwnedBy
    <3>1. CASE t = s
      <4>1. y = p /\ v # NoValue /\ v = val[y]
        BY <1>8, <2>1, <3>0, <3>1
      <4>2. Comes(u.sid, u.val)
        BY <1>0, <1>11, <4>1, SentComing
      <4> QED
        BY <1>11, <3>1, <4>1, <4>2
    <3>2. CASE t # s
      <4>1. Asking(toResp, t) \/ Coming(t, val[y]) \/ Arrived(B, y)
        BY <1>0, <1>2, <1>3, <2>1 DEF Current
      <4>2. ASSUME Asking(toResp, t) PROVE Asking(o2, t)
        <5>1. PICK i \in 1..Len(toResp) : toResp[i].method = "subscribe" /\ toResp[i].sid = t
          BY <4>2 DEF Asking
        <5>2. i # 1
          BY <1>6, <3>2, <5>1 DEF s
        <5>3. i - 1 \in 1..Len(o2) /\ o2[i - 1] = toResp[i]
          BY <1>6, <5>2
        <5> QED
          BY <5>1, <5>3 DEF Asking
      <4>3. CASE v = NoValue
        <5>1. Coming(t, val[y]) => Comes(t, val[y])
          BY <1>10, <4>3 DEF Coming, Comes
        <5>2. Arrived(B, y) => Arrives(y)
          BY <1>1, <1>2, <1>10, <4>3 DEF Arrived, Arrives
        <5> QED
          BY <4>1, <4>2, <5>1, <5>2
      <4>4. CASE v # NoValue
        <5>1. t # u.sid /\ Sent(u)
          BY <1>11, <3>2, <4>4
        <5>2. Coming(t, val[y]) => Comes(t, val[y])
          BY <1>0, <5>1, SentComing
        <5>3. ASSUME Arrived(B, y) PROVE Arrives(y)
          <6>1. \A i \in 1..Len(fromResp') : fromResp'[i].sid # t
            BY <1>0, <5>1, <5>3, SentComing DEF Arrived
          <6> QED
            BY <1>1, <1>2, <5>3, <6>1 DEF Arrived, Arrives
        <5> QED
          BY <4>1, <4>2, <5>2, <5>3
      <4> QED
        BY <4>3, <4>4
    <3> QED
      BY <3>1, <3>2
  <2> QED
    BY <1>1, <1>2, <2>1, CurrentNext
<1>21. Inv'
  <2>1. (B \in Broker)'
    BY <1>0, <1>1, <1>6, Parts
  <2>2. Held(B)'
    BY <1>17, <1>18, <1>19, <1>20, <2>1 DEF Held, Sound
  <2> QED
    BY <1>13, <1>14, <1>15, <1>16, <2>2 DEF Inv
<1> QED
  BY <1>1, <1>21, SubSame

LEMMA RespUnsubscribeStep ==
  ASSUME Inv, RespUnsubscribe
  PROVE  Inv' /\ Advances
<1> DEFINE m == Head(toResp)
           s == m.sid
           gone == {e \in sidSub : e[1] = s}
           o2 == Tail(toResp)
<1>0. B \in Broker /\ Placed(B, known) /\ Agreed(B) /\ Covered(B) /\ Ordered(B) /\ (up => Current(B)) /\ EnvType /\ Linked /\ Mirror /\ InOrder
  BY HeldIs DEF Inv, Held, Sound
<1>1. /\ toResp # <<>> /\ m.method = "unsubscribe" /\ toResp' = o2
      /\ sidSub' = sidSub \ gone
      /\ pathSub' = [p \in Paths |-> IF <<s, p>> \in gone THEN NoSid ELSE pathSub[p]]
      /\ known' = known /\ up' = up /\ rup' = rup /\ sub' = sub /\ stream' = stream
      /\ pending' = pending /\ sid' = sid /\ val' = val /\ count' = count /\ fromResp' = fromResp
  BY DEF RespUnsubscribe
<1>2. B'.sub = B.sub /\ B'.stream = B.stream /\ B'.pending = B.pending /\ B'.sid = B.sid /\ B.out = toResp /\ B'.out = o2
  BY <1>1, Parts
<1>3. up
  BY <1>0, <1>1, <1>2 DEF Agreed
<1>4. toResp \in Seq(Msg) /\ SidOf(B) \in Sids /\ pathSub \in Sids
  BY <1>0, <1>2, BrokerIs, SidOfIs DEF EnvType
<1>6. /\ o2 \in Seq(Msg) /\ 1 \in 1..Len(toResp) /\ m = toResp[1] /\ m \in Msg
      /\ \A i \in 1..Len(o2) : o2[i] = toResp[i + 1] /\ i + 1 \in 1..Len(toResp)
      /\ \A i \in 1..Len(toResp) : i = 1 \/ (i - 1 \in 1..Len(o2) /\ o2[i - 1] = toResp[i])
  BY <1>1, <1>4, TailIs
<1>5. s \in Nat /\ s # NoSid
  BY <1>6, MsgIs, NoSidIsNone
<1> HIDE DEF m, s, o2, B
<1>7. \A y \in Paths : <<s, y>> \in sidSub <=> pathSub[y] = s
  <2> TAKE y \in Paths
  <2> DEFINE e == <<s, y>>
  <2>1. e[1] = s /\ e[2] = y
    OBVIOUS
  <2> HIDE DEF e
  <2>2. e \in sidSub => pathSub[y] = s
    BY <1>0, <2>1 DEF Mirror
  <2>3. pathSub[y] = s => e \in sidSub
    BY <1>0, <1>5 DEF Mirror, e
  <2> QED
    BY <2>2, <2>3 DEF e
<1>8. \A y \in Paths : pathSub'[y] = IF pathSub[y] = s THEN NoSid ELSE pathSub[y]
  BY <1>1, <1>7
<1>9. pathSub' \in Sids
  <2>1. \A y \in Paths : pathSub'[y] \in Nat \cup {NoSid}
    BY <1>4, <1>8 DEF Sids
  <2> QED
    BY <1>1, <2>1 DEF Sids
<1>10. InStep(SidOf(B), o2, pathSub')
  <2>1. InStep(SidOf(B), toResp, pathSub)
    BY <1>0, <1>2, <1>3 DEF Agreed
  <2> DEFINE t2 == pathSub'
  <2>2. t2 \in Sids /\ (\A y \in Paths : t2[y] = IF pathSub[y] = s THEN NoSid ELSE pathSub[y]) /\ Head(toResp).method = "unsubscribe" /\ s = Head(toResp).sid
    BY <1>1, <1>8, <1>9 DEF m, s
  <2> HIDE DEF t2
  <2>3. InStep(SidOf(B), Tail(toResp), t2)
    BY <1>1, <1>4, <2>1, <2>2, InStepTakeDrop
  <2> QED
    BY <2>3 DEF t2, o2
<1>11. EnvType' /\ InOrder' /\ Linked' /\ (rup \subseteq Reqs)'
  <2>1. sidSub' \subseteq Nat \X Paths
    BY <1>0, <1>1 DEF EnvType
  <2>2. EnvType'
    BY <1>0, <1>1, <1>9, <2>1 DEF EnvType
  <2>3. InOrder' /\ Linked'
    BY <1>0, <1>1, <1>3 DEF InOrder, Linked
  <2> QED
    BY <1>1, <2>2, <2>3 DEF Inv
<1>12. Mirror'
  <2>1. ASSUME NEW y \in Paths, pathSub'[y] # NoSid PROVE <<pathSub'[y], y>> \in sidSub'
    <3> DEFINE e == <<pathSub[y], y>>
    <3>1. pathSub[y] # s /\ pathSub'[y] = pathSub[y] /\ e[1] = pathSub[y]
      BY <1>8, <2>1
    <3>2. e \in sidSub
      BY <1>0, <2>1, <3>1 DEF Mirror
    <3> HIDE DEF e
    <3>3. e \in sidSub'
      BY <1>1, <3>1, <3>2
    <3> QED
      BY <3>1, <3>3 DEF e
  <2>2. ASSUME NEW e \in sidSub' PROVE pathSub'[e[2]] = e[1]
    <3>1. e \in sidSub /\ e[1] # s
      BY <1>1
    <3>2. pathSub[e[2]] = e[1] /\ e[2] \in Paths
      BY <1>0, <3>1 DEF Mirror, EnvType
    <3> QED
      BY <1>8, <3>1, <3>2
  <2> QED
    BY <2>1, <2>2 DEF Mirror
<1>13. Placed(B, known)' /\ Covered(B)'
  BY <1>0, <1>1, <1>2, PlacedNext
<1>14. Ordered(B)'
  <2>1. \A x, y : Behind(x, y) => After(x, y)
    BY <1>1 DEF Behind, After
  <2> QED
    BY <1>0, <1>2, <2>1, OrderedSame
<1>15. Agreed(B)'
  <2>1. PICK own : OwnedBy(own, B)
    BY <1>0 DEF Agreed
  <2>2. \A i \in 1..Len(o2) : o2[i].sid < B.sid /\ (o2[i].method = "subscribe" => own[o2[i].sid] = o2[i].path)
    <3>1. \A i \in 1..Len(toResp) : toResp[i].sid < B.sid /\ (toResp[i].method = "subscribe" => own[toResp[i].sid] = toResp[i].path)
      BY <1>2, <2>1 DEF OwnedBy
    <3> SUFFICES ASSUME NEW i \in 1..Len(o2)
                 PROVE  o2[i].sid < B.sid /\ (o2[i].method = "subscribe" => own[o2[i].sid] = o2[i].path)
      OBVIOUS
    <3>2. o2[i] = toResp[i + 1] /\ i + 1 \in 1..Len(toResp)
      BY <1>6
    <3> QED
      BY <3>1, <3>2
  <2>3. \A e \in sidSub' : e[1] < B.sid /\ own[e[1]] = e[2]
    BY <1>1, <2>1 DEF OwnedBy
  <2>4. OwnedBy(own, B)'
    BY <1>1, <1>2, <2>1, <2>2, <2>3 DEF OwnedBy
  <2>5. (up => InStep(SidOf(B), B.out, pathSub))'
    BY <1>1, <1>2, <1>10 DEF SidOf
  <2>6. (~up => B.out = <<>>)'
    BY <1>1, <1>3
  <2> QED
    BY <2>4, <2>5, <2>6 DEF Agreed
<1>16. Current(B)'
  <2>1. ASSUME NEW y \in Paths, B.stream[y] # NoStream, val[y] # NoValue
        PROVE  Asking(o2, B.stream[y].sid) \/ Comes(B.stream[y].sid, val[y]) \/ Arrives(y)
    <3> DEFINE t == B.stream[y].sid
    <3>1. Asking(toResp, t) \/ Coming(t, val[y]) \/ Arrived(B, y)
      BY <1>0, <1>2, <1>3, <2>1 DEF Current
    <3>2. ASSUME Asking(toResp, t) PROVE Asking(o2, t)
      <4>1. PICK i \in 1..Len(toResp) : toResp[i].method = "subscribe" /\ toResp[i].sid = t
        BY <3>2 DEF Asking
      <4>2. i # 1
        BY <1>1, <1>6, <4>1
      <4>3. i - 1 \in 1..Len(o2) /\ o2[i - 1] = toResp[i]
        BY <1>6, <4>2
      <4> QED
        BY <4>1, <4>3 DEF Asking
    <3>3. Coming(t, val[y]) => Comes(t, val[y])
      BY <1>1 DEF Coming, Comes
    <3>4. Arrived(B, y) => Arrives(y)
      BY <1>1, <1>2 DEF Arrived, Arrives
    <3> QED
      BY <3>1, <3>2, <3>3, <3>4
  <2> QED
    BY <1>1, <1>2, <2>1, CurrentNext
<1>17. Inv'
  <2>1. (B \in Broker)'
    BY <1>0, <1>1, <1>6, Parts
  <2>2. Held(B)'
    BY <1>13, <1>14, <1>15, <1>16, <2>1 DEF Held, Sound
  <2> QED
    BY <1>11, <1>12, <2>2 DEF Inv
<1> QED
  BY <1>1, <1>17, SubSame

\* The broker has taken the first update.
LEMMA FirstIs ==
  ASSUME EnvType, fromResp # <<>>, fromResp' = Tail(fromResp)
  PROVE  /\ fromResp' \in Seq(Update0) /\ 1 \in 1..Len(fromResp) /\ Head(fromResp) = fromResp[1] /\ Len(fromResp') \in Nat
         /\ \A i \in 1..Len(fromResp') : fromResp'[i] = fromResp[i + 1] /\ i + 1 \in 1..Len(fromResp)
         /\ \A i \in 1..Len(fromResp) : i = 1 \/ (i - 1 \in 1..Len(fromResp') /\ fromResp'[i - 1] = fromResp[i])
         /\ Len(fromResp') = Len(fromResp) - 1 /\ Len(fromResp) \in Nat
<1> DEFINE f == fromResp
           g == Tail(f)
           X == Update0
<1>0. f \in Seq(X) /\ f # <<>>
  BY DEF EnvType
<1> HIDE DEF f, X
<1>1. /\ g \in Seq(X) /\ Len(f) \in Nat /\ Len(f) # 0 /\ Len(g) = Len(f) - 1
      /\ Head(f) = f[1] /\ \A i \in 1..Len(g) : g[i] = f[i + 1]
  BY <1>0, HeadTailProperties
<1>2. fromResp' = g
  BY DEF f
<1> HIDE DEF g
<1>3. ASSUME NEW i \in 1..Len(f), i # 1 PROVE i - 1 \in 1..Len(g) /\ g[i - 1] = f[i]
  <2>1. i - 1 \in 1..Len(g) /\ (i - 1) + 1 = i
    BY <1>1, <1>3
  <2>2. g[i - 1] = f[(i - 1) + 1]
    BY <1>1, <2>1
  <2> QED
    BY <2>1, <2>2
<1>4. 1 \in 1..Len(f) /\ Len(g) \in Nat /\ \A i \in 1..Len(g) : i + 1 \in 1..Len(f)
  BY <1>1
<1> QED
  BY <1>1, <1>2, <1>3, <1>4 DEF f, X

\* What an update v does to the stream of p, if it is the one that is meant
Updated(p, in, v) ==
  /\ B'.stream[p] = NoStream <=> B.stream[p] = NoStream
  /\ B.stream[p] # NoStream =>
       /\ B'.stream[p].sid = B.stream[p].sid /\ B'.stream[p].qos = B.stream[p].qos /\ B'.stream[p].reqs = B.stream[p].reqs
       /\ B'.stream[p].last = IF in THEN v ELSE B.stream[p].last
  /\ \A r \in Reqs :
       /\ B'.sub[r][p] = NoSub <=> B.sub[r][p] = NoSub
       /\ B.sub[r][p] # NoSub =>
            /\ B'.sub[r][p].qos = B.sub[r][p].qos
            /\ B'.sub[r][p].got = IF in /\ Member(B, r, p) THEN v ELSE B.sub[r][p].got

LEMMA UpdateIsDone ==
  ASSUME Inv, Update, NEW v, v = Head(fromResp).val, NEW t, t = Head(fromResp).sid
  PROVE  /\ B' \in Broker
         /\ \A p \in Paths : Updated(p, B.stream[p] # NoStream /\ B.stream[p].sid = t, v)
<1> DEFINE to == {p \in Paths : stream[p] # NoStream /\ stream[p].sid = t}
<1>0. B \in Broker /\ Known(B) /\ EnvType
  BY HeldIs DEF Inv
<1>1. /\ fromResp # <<>> /\ fromResp' = Tail(fromResp)
      /\ stream' = [p \in Paths |-> IF p \in to THEN Taken(stream[p], v) ELSE stream[p]]
      /\ sub' = [r \in Reqs |-> [p \in Paths |->
                   IF p \in to /\ r \in stream[p].reqs THEN [sub[r][p] EXCEPT !.got = v] ELSE sub[r][p]]]
      /\ pending' = pending /\ sid' = sid /\ toResp' = toResp
  BY DEF Update
<1>2. v \in Value
  <2>1. 1 \in 1..Len(fromResp) /\ Head(fromResp) = fromResp[1]
    BY <1>0, <1>1, FirstIs
  <2> QED
    BY <1>0, <2>1, UpdateIs
<1>3. /\ \A p \in Paths : p \in to <=> B.stream[p] # NoStream /\ B.stream[p].sid = t
      /\ \A r \in Reqs, p \in Paths : p \in to /\ r \in stream[p].reqs <=> p \in to /\ Member(B, r, p)
  BY Parts DEF Member
<1>4. ASSUME NEW p \in Paths, p \in to
      PROVE  /\ Taken(stream[p], v) \in Stream /\ Taken(stream[p], v) # NoStream /\ Taken(stream[p], v).last = v
             /\ Taken(stream[p], v).sid = stream[p].sid /\ Taken(stream[p], v).qos = stream[p].qos /\ Taken(stream[p], v).reqs = stream[p].reqs
  <2>1. stream[p] \in Stream
    BY <1>0, <1>4, Parts, BrokerIs
  <2>2. /\ Taken(stream[p], v) \in Stream /\ Taken(stream[p], v).last = v
        /\ Taken(stream[p], v).sid = stream[p].sid /\ Taken(stream[p], v).qos = stream[p].qos /\ Taken(stream[p], v).reqs = stream[p].reqs
    BY <1>2, <2>1 DEF Stream, Taken
  <2> QED
    BY <2>2, NoneApart
<1>5. ASSUME NEW r \in Reqs, NEW p \in Paths, p \in to, Member(B, r, p)
      PROVE  LET n == [sub[r][p] EXCEPT !.got = v] IN n \in SubRequester /\ n # NoSub /\ n.got = v /\ n.qos = sub[r][p].qos
  <2>1. B.sub[r][p] # NoSub
    BY <1>0, <1>5 DEF Known
  <2>2. sub[r][p] \in SubRequester
    BY <1>0, <2>1, Parts, BrokerIs
  <2> DEFINE n == [sub[r][p] EXCEPT !.got = v]
  <2>3. n \in SubRequester /\ n.got = v /\ n.qos = sub[r][p].qos
    BY <1>2, <2>2 DEF SubRequester
  <2> HIDE DEF n
  <2>4. n # NoSub
    BY <2>3, NoneApart
  <2> QED
    BY <2>3, <2>4 DEF n
<1> HIDE DEF to
<1>6. B' \in Broker
  <2>1. stream' \in [Paths -> Stream \cup {NoStream}]
    <3>1. stream \in [Paths -> Stream \cup {NoStream}]
      BY <1>0, Parts
    <3> QED
      BY <1>1, <1>4, <3>1
  <2>2. sub' \in Subs
    <3>1. sub \in Subs
      BY <1>0, Parts
    <3>2. ASSUME NEW r \in Reqs, NEW p \in Paths
          PROVE  (IF p \in to /\ r \in stream[p].reqs THEN [sub[r][p] EXCEPT !.got = v] ELSE sub[r][p]) \in SubRequester \cup {NoSub}
      <4>1. CASE p \in to /\ r \in stream[p].reqs
        BY <1>3, <1>5, <4>1
      <4>2. CASE ~(p \in to /\ r \in stream[p].reqs)
        BY <3>1, <4>2 DEF Subs
      <4> QED
        BY <4>1, <4>2
    <3> QED
      BY <1>1, <3>2 DEF Subs
  <2> QED
    BY <1>0, <1>1, <2>1, <2>2, Parts
<1>7. ASSUME NEW p \in Paths PROVE Updated(p, p \in to, v)
  <2>1. B'.stream[p] = IF p \in to THEN Taken(stream[p], v) ELSE stream[p]
    BY <1>1, Parts
  <2>2. B.stream[p] = stream[p] /\ (p \in to => stream[p] # NoStream)
    BY <1>3, Parts
  <2>3. /\ B'.stream[p] = NoStream <=> B.stream[p] = NoStream
        /\ B.stream[p] # NoStream =>
             /\ B'.stream[p].sid = B.stream[p].sid /\ B'.stream[p].qos = B.stream[p].qos /\ B'.stream[p].reqs = B.stream[p].reqs
             /\ B'.stream[p].last = IF p \in to THEN v ELSE B.stream[p].last
    BY <1>4, <2>1, <2>2
  <2>4. ASSUME NEW r \in Reqs
        PROVE  /\ B'.sub[r][p] = NoSub <=> B.sub[r][p] = NoSub
               /\ B.sub[r][p] # NoSub =>
                    /\ B'.sub[r][p].qos = B.sub[r][p].qos
                    /\ B'.sub[r][p].got = IF p \in to /\ Member(B, r, p) THEN v ELSE B.sub[r][p].got
    <3>1. B'.sub[r][p] = IF p \in to /\ r \in stream[p].reqs THEN [sub[r][p] EXCEPT !.got = v] ELSE sub[r][p]
      BY <1>1, Parts
    <3>2. B.sub[r][p] = sub[r][p]
      BY Parts
    <3>3. CASE p \in to /\ Member(B, r, p)
      <4>1. B'.sub[r][p] = [sub[r][p] EXCEPT !.got = v]
        BY <1>3, <3>1, <3>3
      <4>2. B.sub[r][p] # NoSub
        BY <1>0, <3>3 DEF Known
      <4> QED
        BY <1>5, <3>2, <3>3, <4>1, <4>2
    <3>4. CASE ~(p \in to /\ Member(B, r, p))
      <4>1. B'.sub[r][p] = B.sub[r][p]
        BY <1>3, <3>1, <3>2, <3>4
      <4> QED
        BY <3>4, <4>1
    <3> QED
      BY <3>3, <3>4
  <2> HIDE DEF B
  <2> QED
    BY <2>3, <2>4 DEF Updated
<1>8. ASSUME NEW p \in Paths PROVE Updated(p, B.stream[p] # NoStream /\ B.stream[p].sid = t, v)
  <2> DEFINE in == B.stream[p] # NoStream /\ B.stream[p].sid = t
  <2>1. (p \in to) = in
    BY <1>3
  <2>2. Updated(p, p \in to, v)
    BY <1>7
  <2> QED
    BY <2>1, <2>2 DEF Updated
<1> QED
  BY <1>6, <1>8

LEMMA UpdateStep ==
  ASSUME Inv, Update
  PROVE  Inv' /\ Advances
<1> DEFINE u == Head(fromResp)
           v == u.val
           t == u.sid
           In(p) == B.stream[p] # NoStream /\ B.stream[p].sid = t
<1>0. B \in Broker /\ Placed(B, known) /\ Agreed(B) /\ Covered(B) /\ Ordered(B) /\ (up => Current(B)) /\ EnvType /\ Linked /\ Mirror /\ InOrder /\ Known(B)
  BY HeldIs DEF Inv, Held, Sound
<1>1. /\ fromResp # <<>> /\ fromResp' = Tail(fromResp)
      /\ pending' = pending /\ sid' = sid /\ toResp' = toResp /\ known' = known /\ up' = up /\ rup' = rup
      /\ pathSub' = pathSub /\ sidSub' = sidSub /\ val' = val /\ count' = count
  BY DEF Update, respVars
<1>2. B' \in Broker /\ \A p \in Paths : Updated(p, In(p), v)
  BY UpdateIsDone
<1>3. B'.pending = B.pending /\ B'.sid = B.sid /\ B'.out = B.out
  BY <1>1, Parts
<1>4. up /\ known
  BY <1>0, <1>1 DEF Linked
<1>5. /\ fromResp' \in Seq(Update0) /\ 1 \in 1..Len(fromResp) /\ u = fromResp[1]
      /\ \A i \in 1..Len(fromResp') : fromResp'[i] = fromResp[i + 1] /\ i + 1 \in 1..Len(fromResp)
      /\ \A i \in 1..Len(fromResp) : i = 1 \/ (i - 1 \in 1..Len(fromResp') /\ fromResp'[i - 1] = fromResp[i])
      /\ Len(fromResp') = Len(fromResp) - 1 /\ Len(fromResp) \in Nat
  BY <1>0, <1>1, FirstIs
<1>6. v \in Value /\ v # NoValue /\ v[2] \in Nat /\ v[1] \in Paths /\ val[v[1]] # NoValue /\ v[2] <= val[v[1]][2] /\ t \in Nat
  BY <1>0, <1>5, UpdateIs, ValueIs DEF InOrder
<1>7. PICK own : OwnedBy(own, B)
  BY <1>0 DEF Agreed
<1>8. own[t] = v[1]
  BY <1>5, <1>7 DEF OwnedBy
<1> HIDE DEF u, v, t, B
<1>9. \A p \in Paths : In(p) => p = v[1]
  BY <1>7, <1>8 DEF OwnedBy
<1>10. /\ \A p \in Paths : B'.stream[p] = NoStream <=> B.stream[p] = NoStream
       /\ \A p \in Paths : B.stream[p] # NoStream =>
            /\ B'.stream[p].sid = B.stream[p].sid /\ B'.stream[p].qos = B.stream[p].qos /\ B'.stream[p].reqs = B.stream[p].reqs
            /\ In(p) => B'.stream[p].last = v
            /\ ~In(p) => B'.stream[p].last = B.stream[p].last
       /\ \A r \in Reqs, p \in Paths : B'.sub[r][p] = NoSub <=> B.sub[r][p] = NoSub
       /\ \A r \in Reqs, p \in Paths : B.sub[r][p] # NoSub =>
            /\ B'.sub[r][p].qos = B.sub[r][p].qos
            /\ In(p) /\ Member(B, r, p) => B'.sub[r][p].got = v
            /\ ~(In(p) /\ Member(B, r, p)) => B'.sub[r][p].got = B.sub[r][p].got
  BY <1>2 DEF Updated
<1>11. \A r \in Reqs, p \in Paths : Member(B', r, p) <=> Member(B, r, p)
  BY <1>10 DEF Member
<1> HIDE DEF In
<1>12. Placed(B, known)'
  <2>1. B.pending = <<>> /\ \A r \in Reqs, p \in Paths : B.sub[r][p] # NoSub <=> Member(B, r, p)
    BY <1>0, <1>4 DEF Placed
  <2>2. \A r \in Reqs, p \in Paths : B'.sub[r][p] # NoSub <=> Member(B', r, p)
    BY <1>10, <1>11, <2>1
  <2>3. Distinct(B'.pending)
    BY <1>0, <1>3 DEF Placed
  <2> QED
    BY <1>1, <1>3, <1>4, <2>1, <2>2, <2>3 DEF Placed, Member
<1>13. Covered(B)'
  <2>1. ASSUME NEW r \in Reqs, NEW p \in Paths, Member(B', r, p)
        PROVE  B'.sub[r][p] # NoSub /\ B'.stream[p].qos >= B'.sub[r][p].qos
    <3>1. B.sub[r][p] # NoSub /\ B.stream[p].qos >= B.sub[r][p].qos /\ B.stream[p] # NoStream
      BY <1>0, <1>11, <2>1 DEF Covered, Member
    <3> QED
      BY <1>10, <3>1
  <2> QED
    BY <2>1 DEF Covered, Member
<1>14. EnvType'
  BY <1>0, <1>1, <1>5 DEF EnvType
<1>15. InOrder'
  <2>1. \A i \in 1..Len(fromResp') :
          LET x == fromResp'[i].val IN x[1] \in Paths /\ val[x[1]] # NoValue /\ x[2] <= val[x[1]][2]
    BY <1>0, <1>5 DEF InOrder
  <2>2. ASSUME NEW i \in 1..Len(fromResp'), NEW j \in 1..Len(fromResp'), i < j, fromResp'[i].val[1] = fromResp'[j].val[1]
        PROVE  fromResp'[i].val[2] <= fromResp'[j].val[2]
    <3>1. /\ i + 1 \in 1..Len(fromResp) /\ j + 1 \in 1..Len(fromResp) /\ i + 1 < j + 1
          /\ fromResp'[i] = fromResp[i + 1] /\ fromResp'[j] = fromResp[j + 1]
      BY <1>5, <2>2
    <3> QED
      BY <1>0, <2>2, <3>1 DEF InOrder
  <2> QED
    BY <1>0, <1>1, <2>1, <2>2 DEF InOrder
<1>16. Mirror' /\ Linked' /\ (rup \subseteq Reqs)'
  BY <1>0, <1>1, <1>4 DEF Mirror, Linked, Inv
<1>17. \A x, p : Behind(x, p) => After(x, p)
  <2> SUFFICES ASSUME NEW x, NEW p, Behind(x, p), x # NoValue PROVE After(x, p)
    BY DEF After
  <2>1. \A i \in 1..Len(fromResp) : fromResp[i].val[1] = p => x[2] <= fromResp[i].val[2]
    BY DEF Behind
  <2>2. \A i \in 1..Len(fromResp') : fromResp'[i].val[1] = p => x[2] <= fromResp'[i].val[2]
    BY <1>5, <2>1
  <2> QED
    BY <1>1, <2>2 DEF Behind, After
<1>18. After(v, v[1])
  <2>1. v[2] <= count
    <3>1. val[v[1]] \in Value
      BY <1>0, <1>6 DEF EnvType
    <3>2. val[v[1]][2] \in Nat /\ val[v[1]][2] <= count /\ count \in Nat
      BY <1>0, <1>6, <3>1, ValueIs DEF InOrder, EnvType
    <3> QED
      BY <1>6, <3>2
  <2>2. ASSUME NEW i \in 1..Len(fromResp'), fromResp'[i].val[1] = v[1] PROVE v[2] <= fromResp'[i].val[2]
    <3>1. fromResp'[i] = fromResp[i + 1] /\ i + 1 \in 1..Len(fromResp) /\ 1 < i + 1
      BY <1>5
    <3>2. fromResp[1].val = v
      BY <1>5 DEF v
    <3> QED
      BY <1>0, <1>5, <2>2, <3>1, <3>2 DEF InOrder
  <2> QED
    BY <1>1, <1>6, <2>1, <2>2 DEF After
<1>19. Ordered(B)'
  <2>1. ASSUME NEW p \in Paths, B'.stream[p] # NoStream PROVE After(B'.stream[p].last, p)
    <3>1. B.stream[p] # NoStream
      BY <1>10, <2>1
    <3>2. CASE In(p)
      BY <1>9, <1>10, <1>18, <3>1, <3>2
    <3>3. CASE ~In(p)
      <4>1. Behind(B.stream[p].last, p)
        BY <1>0, <3>1 DEF Ordered
      <4> QED
        BY <1>10, <1>17, <3>1, <3>3, <4>1
    <3> QED
      BY <3>2, <3>3
  <2>2. ASSUME NEW r \in Reqs, NEW p \in Paths, B'.sub[r][p] # NoSub PROVE After(B'.sub[r][p].got, p)
    <3>1. B.sub[r][p] # NoSub
      BY <1>10, <2>2
    <3>2. CASE In(p) /\ Member(B, r, p)
      BY <1>9, <1>10, <1>18, <3>1, <3>2
    <3>3. CASE ~(In(p) /\ Member(B, r, p))
      <4>1. Behind(B.sub[r][p].got, p)
        BY <1>0, <3>1 DEF Ordered
      <4> QED
        BY <1>10, <1>17, <3>1, <3>3, <4>1
    <3> QED
      BY <3>2, <3>3
  <2>3. ASSUME NEW r \in Reqs, NEW p \in Paths, Member(B', r, p), B'.sub[r][p].got # NoValue, B'.stream[p].last # NoValue
        PROVE  B'.sub[r][p].got[2] <= B'.stream[p].last[2]
    <3>1. Member(B, r, p) /\ B.sub[r][p] # NoSub /\ B.stream[p] # NoStream
      BY <1>0, <1>11, <2>3 DEF Known, Member
    <3>2. CASE In(p)
      BY <1>6, <1>10, <3>1, <3>2
    <3>3. CASE ~In(p)
      BY <1>0, <1>10, <2>3, <3>1, <3>3 DEF Ordered
    <3> QED
      BY <3>2, <3>3
  <2> QED
    BY <2>1, <2>2, <2>3, OrderedNext
<1>20. Agreed(B)'
  <2>1. SidOf(B)' = SidOf(B)
    BY <1>10 DEF SidOf
  <2>2. \A i \in 1..Len(fromResp') : fromResp'[i].sid < B.sid /\ own[fromResp'[i].sid] = fromResp'[i].val[1]
    BY <1>5, <1>7 DEF OwnedBy
  <2>3. \A p \in Paths : B'.stream[p] # NoStream => B'.stream[p].sid < B.sid /\ own[B'.stream[p].sid] = p
    BY <1>7, <1>10 DEF OwnedBy
  <2>4. OwnedBy(own, B)'
    BY <1>1, <1>3, <1>7, <2>2, <2>3 DEF OwnedBy
  <2>5. (up => InStep(SidOf(B), B.out, pathSub))'
    BY <1>0, <1>1, <1>3, <2>1 DEF Agreed
  <2>6. (~up => B.out = <<>>)'
    BY <1>1, <1>4
  <2> QED
    BY <2>4, <2>5, <2>6 DEF Agreed
<1>21. Current(B)'
  <2>1. ASSUME NEW p \in Paths, B.stream[p] # NoStream, val[p] # NoValue
        PROVE  Asking(B.out, B.stream[p].sid) \/ Comes(B.stream[p].sid, val[p]) \/ Arrives(p)
    <3> DEFINE s == B.stream[p].sid
    <3>1. Asking(B.out, s) \/ Coming(s, val[p]) \/ Arrived(B, p)
      BY <1>0, <1>4, <2>1 DEF Current
    <3>2. B.stream[p].reqs \subseteq Reqs
      BY <1>0, <2>1, BrokerIs
    <3>3. ASSUME Coming(s, val[p]) PROVE Comes(s, val[p]) \/ Arrives(p)
      <4>1. PICK i \in 1..Len(fromResp) : /\ fromResp[i].sid = s /\ fromResp[i].val = val[p]
                                          /\ \A j \in i + 1..Len(fromResp) : fromResp[j].sid # s
        BY <3>3 DEF Coming
      <4>2. CASE i = 1
        <5>1. s = t /\ v = val[p]
          BY <1>5, <4>1, <4>2 DEF t, v
        <5>2. In(p)
          BY <2>1, <5>1 DEF In
        <5>3. \A j \in 1..Len(fromResp') : fromResp'[j].sid # s
          <6> SUFFICES ASSUME NEW j \in 1..Len(fromResp') PROVE fromResp'[j].sid # s
            OBVIOUS
          <6>1. fromResp'[j] = fromResp[j + 1] /\ j + 1 \in i + 1..Len(fromResp)
            BY <1>5, <4>2
          <6> QED
            BY <4>1, <6>1
        <5>4. ASSUME NEW r \in B.stream[p].reqs PROVE B'.sub[r][p].got = v
          <6>1. r \in Reqs /\ Member(B, r, p)
            BY <2>1, <3>2 DEF Member
          <6>2. B.sub[r][p] # NoSub
            BY <1>0, <6>1 DEF Known
          <6> QED
            BY <1>10, <5>2, <6>1, <6>2
        <5> QED
          BY <1>1, <1>10, <2>1, <5>1, <5>2, <5>3, <5>4 DEF Arrives
      <4>3. CASE i # 1
        <5>1. i - 1 \in 1..Len(fromResp') /\ fromResp'[i - 1] = fromResp[i]
          BY <1>5, <4>3
        <5>2. ASSUME NEW j \in (i - 1) + 1..Len(fromResp') PROVE fromResp'[j].sid # s
          <6>1. j \in 1..Len(fromResp') /\ j + 1 \in i + 1..Len(fromResp)
            BY <1>5, <5>1
          <6> QED
            BY <1>5, <4>1, <6>1
        <5>3. Comes(s, val[p])
          BY <4>1, <5>1, <5>2 DEF Comes
        <5> QED
          BY <5>3
      <4> QED
        BY <4>2, <4>3
    <3>4. ASSUME Arrived(B, p) PROVE Arrives(p)
      <4>1. \A i \in 1..Len(fromResp) : fromResp[i].sid # s
        BY <3>4 DEF Arrived
      <4>2. ~In(p)
        BY <1>5, <4>1 DEF In, t
      <4>3. \A i \in 1..Len(fromResp') : fromResp'[i].sid # s
        BY <1>5, <4>1
      <4>4. ASSUME NEW r \in B.stream[p].reqs PROVE B'.sub[r][p].got = val[p]
        <5>1. r \in Reqs /\ Member(B, r, p)
          BY <2>1, <3>2 DEF Member
        <5>2. B.sub[r][p] # NoSub /\ B.sub[r][p].got = val[p]
          BY <1>0, <3>4, <5>1 DEF Known, Arrived
        <5> QED
          BY <1>10, <4>2, <5>1, <5>2
      <4> QED
        BY <1>1, <1>10, <2>1, <3>4, <4>2, <4>3, <4>4 DEF Arrives, Arrived
    <3> QED
      BY <3>1, <3>3, <3>4
  <2> QED
    BY <1>1, <1>3, <1>10, <2>1, CurrentNext
<1>22. Inv'
  <2>1. Held(B)'
    BY <1>2, <1>12, <1>13, <1>19, <1>20, <1>21 DEF Held, Sound
  <2> QED
    BY <1>14, <1>15, <1>16, <2>1 DEF Inv
<1>23. Advances
  <2> SUFFICES ASSUME NEW r \in Reqs, NEW p \in Paths, sub[r][p] # NoSub, sub[r][p].got # NoValue
               PROVE  sub'[r][p].got # NoValue /\ sub'[r][p].got[2] >= sub[r][p].got[2]
    BY DEF Advances
  <2>1. B.sub = sub /\ B'.sub = sub'
    BY Parts
  <2>2. sub[r][p].got[2] \in Nat
    BY <1>0, <2>1, GotNat
  <2>3. CASE In(p) /\ Member(B, r, p)
    <3>1. sub'[r][p].got = v
      BY <1>10, <2>1, <2>3
    <3>2. Behind(sub[r][p].got, p)
      BY <1>0, <2>1 DEF Ordered
    <3>3. fromResp[1].val = v /\ v[1] = p
      BY <1>5, <1>9, <2>3 DEF v
    <3>4. sub[r][p].got[2] <= v[2]
      BY <1>5, <3>2, <3>3 DEF Behind
    <3> QED
      BY <1>6, <2>2, <3>1, <3>4
  <2>4. CASE ~(In(p) /\ Member(B, r, p))
    BY <1>10, <2>1, <2>2, <2>4
  <2> QED
    BY <2>3, <2>4
<1> QED
  BY <1>22, <1>23

\* Every stream is asked for under its sid, which is its own, and nothing else is.
Anew(x) ==
  /\ \A p \in Paths : x.stream[p] # NoStream => x.stream[p].sid < x.sid /\ \E i \in 1..Len(x.out) : x.out[i].path = p
  /\ \A p, y \in Paths : x.stream[p] # NoStream /\ x.stream[y] # NoStream /\ x.stream[p].sid = x.stream[y].sid => p = y
  /\ \A i \in 1..Len(x.out) :
       x.out[i].method = "subscribe" /\ x.stream[x.out[i].path] # NoStream /\ x.out[i].sid = x.stream[x.out[i].path].sid
  /\ Covered(x)

\* The first i of those who wait have joined.
Joins(x, i) ==
  /\ x \in Broker /\ x.sub = sub /\ x.pending = pending /\ Anew(x)
  /\ known => x.stream = stream
  /\ ~known => /\ \A r \in Reqs, p \in Paths : Member(x, r, p) <=> \E k \in 1..i : pending[k] = <<r, p>>
               /\ \A p \in Paths : x.stream[p] # NoStream => x.stream[p].last = NoValue

LEMMA AskedAgain ==
  ASSUME Inv, ~up, NEW order \in SetToSeqs({p \in Paths : stream[p] # NoStream})
  PROVE  Joins([B EXCEPT !.out = @ \o Asks(order)], 0)
<1> DEFINE S == {p \in Paths : stream[p] # NoStream}
           a == Asks(order)
           n == Len(order)
           x == [B EXCEPT !.out = @ \o a]
<1>0. B \in Broker /\ Placed(B, known) /\ Agreed(B) /\ Covered(B) /\ Fields(B)
  BY HeldIs, BrokerIs DEF Inv
<1>1. /\ order \in Seq(S) /\ (\A y \in S : \E i \in 1..n : order[i] = y)
  <2>1. IsFiniteSet(S)
    BY StreamConstants, FS_Subset
  <2>2. order \in SetToSeqs(S)
    OBVIOUS
  <2> HIDE DEF S
  <2> QED
    BY <2>1, <2>2, OrdersAll
<1>2. n \in Nat /\ DOMAIN order = 1..n /\ \A i \in 1..n : order[i] \in S
  BY <1>1
<1>3. \A p \in Paths : p \in S => stream[p].sid \in Nat /\ stream[p].qos \in 0..2
  BY <1>0, Parts, BrokerIs
<1>4. \A i \in 1..n : order[i] \in Paths /\ order[i] \in S /\ stream[order[i]] # NoStream
  BY <1>2
<1> HIDE DEF S
<1>5. a = [i \in 1..n |-> Ask(order[i], stream[order[i]].sid, stream[order[i]].qos)]
  BY <1>2 DEF Asks
<1>6. \A i \in 1..n : a[i] = Ask(order[i], stream[order[i]].sid, stream[order[i]].qos) /\ a[i] \in Msg
  BY <1>3, <1>4, <1>5, MsgIs
<1> HIDE DEF a
<1>7. a \in Seq(Msg) /\ Len(a) = n
  BY <1>2, <1>5, <1>6
<1>8. \A i \in 1..n : a[i].method = "subscribe" /\ a[i].path = order[i] /\ a[i].sid = stream[order[i]].sid
  <2>1. \A p, k, q : Ask(p, k, q).method = "subscribe" /\ Ask(p, k, q).path = p /\ Ask(p, k, q).sid = k
    BY DEF Ask
  <2> QED
    BY <1>6, <2>1
<1>9. x.out = a /\ x = [sub |-> B.sub, stream |-> B.stream, pending |-> B.pending, sid |-> B.sid, out |-> a]
  <2>1. B.out = <<>>
    BY <1>0 DEF Agreed
  <2> DEFINE X == Msg
  <2>2. a \in Seq(X)
    BY <1>7
  <2> HIDE DEF X
  <2>3. <<>> \o a = a
    BY <2>2
  <2>4. x = [B EXCEPT !.out = a]
    BY <2>1, <2>3
  <2> HIDE DEF B, x
  <2> QED
    BY <1>0, <2>4 DEF Fields
<1> HIDE DEF x
<1>10. x.sub = sub /\ x.pending = pending /\ x.stream = stream /\ x.sid = B.sid
  BY <1>9, Parts
<1>11. x \in Broker
  BY <1>0, <1>7, <1>9, BrokerIs DEF Broker
<1>12. PICK own : OwnedBy(own, B)
  BY <1>0 DEF Agreed
<1>13. \A p \in Paths : stream[p] # NoStream => stream[p].sid < B.sid /\ own[stream[p].sid] = p
  BY <1>12, Parts DEF OwnedBy
<1>14. Anew(x)
  <2>1. ASSUME NEW p \in Paths, x.stream[p] # NoStream
        PROVE  x.stream[p].sid < x.sid /\ \E i \in 1..Len(x.out) : x.out[i].path = p
    <3>1. p \in S /\ stream[p].sid < B.sid
      BY <1>10, <1>13, <2>1 DEF S
    <3>2. PICK i \in 1..n : order[i] = p
      BY <1>1, <3>1
    <3>3. i \in 1..Len(x.out) /\ x.out[i].path = p
      BY <1>7, <1>8, <1>9, <3>2
    <3> QED
      BY <1>10, <3>1, <3>3
  <2>2. \A p, y \in Paths : x.stream[p] # NoStream /\ x.stream[y] # NoStream /\ x.stream[p].sid = x.stream[y].sid => p = y
    <3> SUFFICES ASSUME NEW p \in Paths, NEW y \in Paths, x.stream[p] # NoStream, x.stream[y] # NoStream, x.stream[p].sid = x.stream[y].sid
                 PROVE  p = y
      OBVIOUS
    <3>1. own[stream[p].sid] = p /\ own[stream[y].sid] = y
      BY <1>10, <1>13
    <3> QED
      BY <1>10, <3>1
  <2>3. ASSUME NEW i \in 1..Len(x.out)
        PROVE  x.out[i].method = "subscribe" /\ x.stream[x.out[i].path] # NoStream /\ x.out[i].sid = x.stream[x.out[i].path].sid
    BY <1>4, <1>7, <1>8, <1>9, <1>10
  <2>4. Covered(x)
    <3>1. x.stream = B.stream /\ x.sub = B.sub
      BY <1>10, Parts
    <3> QED
      BY <1>0, <3>1 DEF Covered, Member
  <2> QED
    BY <2>1, <2>2, <2>3, <2>4 DEF Anew
<1>15. ~known => /\ \A r \in Reqs, p \in Paths : Member(x, r, p) <=> \E k \in 1..0 : pending[k] = <<r, p>>
                 /\ \A p \in Paths : x.stream[p] # NoStream => x.stream[p].last = NoValue
  <2> SUFFICES ASSUME ~known
               PROVE  /\ \A r \in Reqs, p \in Paths : Member(x, r, p) <=> \E k \in 1..0 : pending[k] = <<r, p>>
                      /\ \A p \in Paths : x.stream[p] # NoStream => x.stream[p].last = NoValue
    OBVIOUS
  <2>1. \A p \in Paths : x.stream[p] = NoStream
    BY <1>0, <1>10, Parts DEF Placed
  <2> QED
    BY <2>1 DEF Member
<1> QED
  <2>1. Joins(x, 0)
    BY <1>10, <1>11, <1>14, <1>15 DEF Joins
  <2> QED
    BY <2>1 DEF x, a

LEMMA JoinStep ==
  ASSUME Inv, ~known, NEW i \in 1..Len(pending), NEW x, Joins(x, i - 1)
  PROVE  Joins(SubscribeRemote(x, TRUE, pending[i][1], pending[i][2]), i)
<1> DEFINE r == pending[i][1]
           p == pending[i][2]
           c == SubscribeRemote(x, TRUE, r, p)
<1>0. B \in Broker /\ Placed(B, known) /\ pending \in Seq(Reqs \X Paths)
  BY HeldIs, Parts DEF Inv
<1>1. r \in Reqs /\ p \in Paths /\ pending[i] = <<r, p>>
  <2>1. pending[i] \in Reqs \X Paths
    BY <1>0
  <2> QED
    BY <2>1
<1> HIDE DEF r, p
<1>2. \A y \in Reqs, z \in Paths : (\E k \in 1..Len(pending) : pending[k] = <<y, z>>) => sub[y][z] # NoSub
  BY <1>0, Parts DEF Placed, Waits
<1>3. x \in Broker /\ x.sub = sub /\ x.pending = pending /\ Anew(x) /\ Covered(x) /\ Known(x)
      /\ (\A y \in Reqs, z \in Paths : Member(x, y, z) <=> \E k \in 1..i - 1 : pending[k] = <<y, z>>)
      /\ \A z \in Paths : x.stream[z] # NoStream => x.stream[z].last = NoValue
  BY CoveredKnown DEF Joins, Anew
<1>4. x.sub[r][p] # NoSub
  BY <1>1, <1>2, <1>3
<1>5. c \in Broker /\ Enters(x, c, TRUE, r, p)
  BY <1>1, <1>3, <1>4, SubscribeRemoteIs
<1> HIDE DEF c
<1>e. PICK q \in 0..2, s \in Nat, l \in Value \cup {NoValue}, R \in SUBSET Reqs : EntersAs(x, c, TRUE, r, p, q, s, l, R)
  BY <1>5 DEF Enters
<1>6. /\ x.stream[p] = NoStream => s = x.sid /\ l = NoValue /\ R = {r} /\ c.sid = x.sid + 1 /\ c.out # x.out
      /\ x.stream[p] # NoStream => s = x.stream[p].sid /\ l = x.stream[p].last /\ R = x.stream[p].reqs \cup {r} /\ c.sid = x.sid
      /\ c.stream = [x.stream EXCEPT ![p] = [sid |-> s, qos |-> q, reqs |-> R, last |-> l]]
      /\ \A y \in R : q >= x.sub[y][p].qos
      /\ c.sub = IF l = NoValue THEN x.sub ELSE [x.sub EXCEPT ![r][p].got = l]
      /\ c.pending = x.pending /\ Asked(x, c, TRUE, p, s, q)
  BY <1>e DEF EntersAs
<1> DEFINE st == [sid |-> s, qos |-> q, reqs |-> R, last |-> l]
<1>7. l = NoValue /\ c.sub = sub /\ c.pending = pending
  BY <1>1, <1>3, <1>6
<1>8. st # NoStream /\ st.sid = s /\ st.qos = q /\ st.reqs = R /\ st.last = l
  <2>1. r \in R
    BY <1>6
  <2> QED
    BY <2>1, StreamIs
<1>9. c.stream[p] = st /\ \A z \in Paths : z # p => c.stream[z] = x.stream[z]
  BY <1>1, <1>3, <1>6, BrokerIs
<1> HIDE DEF st
<1>10. \A y \in Reqs, z \in Paths : Member(c, y, z) <=> Member(x, y, z) \/ (y = r /\ z = p)
  <2> SUFFICES ASSUME NEW y \in Reqs, NEW z \in Paths
               PROVE  Member(c, y, z) <=> Member(x, y, z) \/ (y = r /\ z = p)
    OBVIOUS
  <2>1. CASE z = p
    BY <1>6, <1>8, <1>9, <2>1 DEF Member
  <2>2. CASE z # p
    BY <1>9, <2>2 DEF Member
  <2> QED
    BY <2>1, <2>2
<1>11. \A y \in Reqs, z \in Paths : Member(c, y, z) <=> \E k \in 1..i : pending[k] = <<y, z>>
  <2> SUFFICES ASSUME NEW y \in Reqs, NEW z \in Paths
               PROVE  Member(c, y, z) <=> \E k \in 1..i : pending[k] = <<y, z>>
    OBVIOUS
  <2>1. Member(c, y, z) <=> (\E k \in 1..i - 1 : pending[k] = <<y, z>>) \/ pending[i] = <<y, z>>
    <3>1. pending[i] = <<y, z>> <=> y = r /\ z = p
      BY <1>1
    <3>2. Member(x, y, z) <=> \E k \in 1..i - 1 : pending[k] = <<y, z>>
      BY <1>3
    <3> QED
      BY <1>10, <3>1, <3>2
  <2>2. i \in 1..i /\ (\A k \in 1..i - 1 : k \in 1..i) /\ (\A k \in 1..i : k = i \/ k \in 1..i - 1)
    OBVIOUS
  <2> QED
    BY <2>1, <2>2
<1>12. \A z \in Paths : c.stream[z] # NoStream => c.stream[z].last = NoValue
  BY <1>3, <1>7, <1>8, <1>9
<1>13. c.out = x.out \/ c.out = Append(x.out, Ask(p, s, q))
  BY <1>6 DEF Asked
<1> DEFINE m == Ask(p, s, q)
           n == Len(x.out)
<1>14. m \in Msg /\ m.method = "subscribe" /\ m.path = p /\ m.sid = s
  BY <1>1, MsgIs DEF Ask
<1> HIDE DEF m, n
<1>15. /\ x.out \in Seq(Msg) /\ n \in Nat /\ x.sid \in Nat /\ \A z \in Paths : x.stream[z] # NoStream => x.stream[z].sid \in Nat /\ x.stream[z].sid < x.sid
       /\ \A k \in 1..n : x.out[k] \in Msg /\ x.out[k].method = "subscribe" /\ x.out[k].path \in Paths
                          /\ x.stream[x.out[k].path] # NoStream /\ x.out[k].sid = x.stream[x.out[k].path].sid
  <2>1. x.out \in Seq(Msg) /\ x.sid \in Nat /\ \A z \in Paths : x.stream[z] # NoStream => x.stream[z].sid \in Nat /\ x.stream[z].sid < x.sid
    BY <1>3, BrokerIs DEF Anew
  <2>2. n \in Nat /\ \A k \in 1..n : x.out[k] \in Msg
    BY <2>1 DEF n
  <2>3. ASSUME NEW k \in 1..n
        PROVE  x.out[k].method = "subscribe" /\ x.stream[x.out[k].path] # NoStream /\ x.out[k].sid = x.stream[x.out[k].path].sid
    BY <1>3 DEF Anew, n
  <2> QED
    BY <2>1, <2>2, <2>3, MsgIs
\* The messages of c: those of x, and possibly m
<1>16. \A k \in 1..Len(c.out) : (k \in 1..n /\ c.out[k] = x.out[k]) \/ c.out[k] = m
  <2>1. CASE c.out = x.out
    BY <2>1 DEF n
  <2>2. CASE c.out = Append(x.out, m)
    <3>1. Len(c.out) = n + 1 /\ c.out[n + 1] = m /\ \A k \in 1..n : c.out[k] = x.out[k]
      BY <1>14, <1>15, <2>2, AppendProperties DEF n
    <3>2. \A k \in 1..Len(c.out) : k \in 1..n \/ k = n + 1
      BY <1>15, <3>1
    <3> QED
      BY <3>1, <3>2
  <2> QED
    BY <1>13, <2>1, <2>2 DEF m
<1>17. /\ \A k \in 1..n : k \in 1..Len(c.out) /\ c.out[k] = x.out[k]
       /\ x.stream[p] = NoStream => \E k \in 1..Len(c.out) : c.out[k] = m
  <2>1. CASE c.out = x.out
    BY <1>6, <2>1 DEF n
  <2>2. CASE c.out = Append(x.out, m)
    <3>1. Len(c.out) = n + 1 /\ c.out[n + 1] = m /\ \A k \in 1..n : c.out[k] = x.out[k]
      BY <1>14, <1>15, <2>2, AppendProperties DEF n
    <3>2. n + 1 \in 1..Len(c.out) /\ \A k \in 1..n : k \in 1..Len(c.out)
      BY <1>15, <3>1
    <3> QED
      BY <3>1, <3>2
  <2> QED
    BY <1>13, <2>1, <2>2 DEF m
\* The streams of c: those of x, and the one of p
<1>18. c.stream[p] # NoStream /\ c.stream[p].sid = s
  BY <1>8, <1>9
<1>19. x.stream[p] # NoStream => s = x.stream[p].sid /\ c.sid = x.sid
  BY <1>6
<1>20. x.stream[p] = NoStream => s = x.sid /\ c.sid = x.sid + 1
  BY <1>6
<1>21. ASSUME NEW z \in Paths, c.stream[z] # NoStream
       PROVE  c.stream[z].sid < c.sid /\ \E k \in 1..Len(c.out) : c.out[k].path = z
  <2>1. CASE x.stream[z] # NoStream
    <3>1. c.stream[z].sid = x.stream[z].sid /\ x.stream[z].sid < c.sid
      BY <1>9, <1>15, <1>18, <1>19, <1>20, <2>1
    <3>2. PICK k \in 1..n : x.out[k].path = z
      BY <1>3, <2>1 DEF Anew, n
    <3> QED
      BY <1>17, <3>1, <3>2
  <2>2. CASE x.stream[z] = NoStream
    <3>1. z = p
      BY <1>9, <1>21, <2>2
    <3>2. s < c.sid
      BY <1>15, <1>20, <2>2, <3>1
    <3> QED
      BY <1>14, <1>17, <1>18, <2>2, <3>1, <3>2
  <2> QED
    BY <2>1, <2>2
<1>22. ASSUME NEW y \in Paths, NEW z \in Paths, c.stream[y] # NoStream, c.stream[z] # NoStream, c.stream[y].sid = c.stream[z].sid
       PROVE  y = z
  <2>1. \A w \in Paths : c.stream[w] # NoStream /\ w # p => c.stream[w] = x.stream[w] /\ x.stream[w].sid < x.sid /\ x.stream[w].sid \in Nat
    BY <1>9, <1>15
  <2>2. CASE y # p /\ z # p
    BY <1>3, <1>22, <2>1, <2>2 DEF Anew
  <2>4. CASE x.stream[p] # NoStream
    <3>1. \A w \in Paths : c.stream[w] # NoStream => x.stream[w] # NoStream /\ x.stream[w].sid = c.stream[w].sid
      BY <1>9, <1>18, <1>19, <2>4
    <3>2. x.stream[y] # NoStream /\ x.stream[z] # NoStream /\ x.stream[y].sid = x.stream[z].sid
      BY <1>22, <3>1
    <3> QED
      BY <1>3, <3>2 DEF Anew
  <2>5. ASSUME NEW w \in Paths, c.stream[w] # NoStream, c.stream[w].sid = s, x.stream[p] = NoStream PROVE w = p
    BY <1>15, <1>20, <2>1, <2>5
  <2> QED
    BY <1>18, <1>22, <2>2, <2>4, <2>5
<1>23. ASSUME NEW k \in 1..Len(c.out)
       PROVE  c.out[k].method = "subscribe" /\ c.stream[c.out[k].path] # NoStream /\ c.out[k].sid = c.stream[c.out[k].path].sid
  <2>1. CASE c.out[k] = m
    BY <1>14, <1>18, <2>1
  <2>2. CASE k \in 1..n /\ c.out[k] = x.out[k]
    <3> DEFINE z == x.out[k].path
    <3>1. z \in Paths /\ x.out[k].method = "subscribe" /\ x.stream[z] # NoStream /\ x.out[k].sid = x.stream[z].sid
      BY <1>15, <2>2
    <3> HIDE DEF z
    <3>2. c.stream[z] # NoStream /\ c.stream[z].sid = x.stream[z].sid
      BY <1>9, <1>18, <1>19, <3>1
    <3> QED
      BY <2>2, <3>1, <3>2 DEF z
  <2> QED
    BY <1>16, <2>1, <2>2
<1>24. Covered(c)
  <2> SUFFICES ASSUME NEW y \in Reqs, NEW z \in Paths, Member(c, y, z)
               PROVE  c.sub[y][z] # NoSub /\ c.stream[z].qos >= c.sub[y][z].qos
    BY DEF Covered
  <2>1. c.sub[y][z] # NoSub
    BY <1>3, <1>4, <1>7, <1>10 DEF Known
  <2>2. CASE z = p
    <3>1. y \in R
      BY <1>8, <1>9, <2>2 DEF Member
    <3> QED
      BY <1>3, <1>6, <1>7, <1>8, <1>9, <2>1, <2>2, <3>1
  <2>3. CASE z # p
    <3>1. Member(x, y, z) /\ c.stream[z] = x.stream[z]
      BY <1>9, <1>10, <2>3
    <3> QED
      BY <1>3, <1>7, <2>1, <3>1 DEF Covered
  <2> QED
    BY <2>2, <2>3
<1>25. Anew(c)
  BY <1>21, <1>22, <1>23, <1>24 DEF Anew
<1> QED
  BY <1>5, <1>7, <1>11, <1>12, <1>25 DEF Joins, c, r, p

\* Step by step, those who wait join.
LEMMA JoinedIs ==
  ASSUME Inv, NEW asked, Joins(asked, 0)
  PROVE  Joins(Joined(asked), Len(pending))
<1>0. B \in Broker /\ Placed(B, known)
  BY HeldIs DEF Inv
<1>1. PICK n \in Nat : n = Len(pending)
  <2>1. pending \in Seq(Reqs \X Paths)
    BY <1>0, Parts
  <2> QED
    BY <2>1
<1> DEFINE X == Broker
           G == [e \in X \X (1..n) |-> SubscribeRemote(e[1], TRUE, pending[e[2]][1], pending[e[2]][2])]
           J == [m \in 0..n |-> {x \in X : Joins(x, m)}]
           W == CHOOSE f : f = [i \in 0..n |-> IF i = 0 THEN asked ELSE SubscribeRemote(f[i - 1], TRUE, pending[i][1], pending[i][2])]
<1>2. \A i \in 1..n : ~known
  <2>1. known => pending = <<>>
    BY <1>0, Parts DEF Placed
  <2> QED
    BY <1>1, <2>1
<1>3. \A x, m : Joins(x, m) => x \in X
  BY DEF Joins
<1>4. ASSUME NEW i \in 1..n, NEW x, Joins(x, i - 1) PROVE Joins(SubscribeRemote(x, TRUE, pending[i][1], pending[i][2]), i)
  BY <1>1, <1>2, <1>4, JoinStep
<1> HIDE DEF X
<1>6. J \in [0..n -> SUBSET X] /\ asked \in J[0] /\ \A i \in 0..n : \A x : x \in J[i] <=> Joins(x, i)
  BY <1>1, <1>3
<1>7. \A x \in X, i \in 1..n : G[<<x, i>>] = SubscribeRemote(x, TRUE, pending[i][1], pending[i][2])
  OBVIOUS
<1> HIDE DEF J, G
<1>8. ASSUME NEW m \in 1..n, NEW x \in J[m - 1] PROVE G[<<x, m>>] \in J[m]
  <2>1. m - 1 \in 0..n /\ m \in 0..n
    BY <1>1
  <2>2. Joins(x, m - 1) /\ x \in X
    BY <1>3, <1>6, <2>1
  <2>3. Joins(G[<<x, m>>], m)
    BY <1>4, <1>7, <2>2
  <2> QED
    BY <1>6, <2>1, <2>3
<1>10. PICK f : /\ f = [i \in 0..n |-> IF i = 0 THEN asked ELSE G[<<f[i - 1], i>>]]
                /\ \A i \in 0..n : f[i] \in J[i]
  <2> DEFINE a == asked
  <2>1. n \in Nat /\ J \in [0..n -> SUBSET X] /\ Leads(n, a, J, G)
    BY <1>6, <1>8 DEF Leads
  <2> HIDE DEF a
  <2>2. \E f : Walks(f, n, a, G) /\ Passes(f, n, J)
    BY ONLY <2>1, Walk
  <2> QED
    BY <2>2 DEF a, Walks, Passes
<1>11. \A i \in 1..n : i - 1 \in 0..n /\ f[i - 1] \in X
  <2>1. \A i \in 1..n : i - 1 \in 0..n
    BY <1>1
  <2> QED
    BY <1>3, <1>6, <1>10, <2>1
<1>12. f = [i \in 0..n |-> IF i = 0 THEN asked ELSE SubscribeRemote(f[i - 1], TRUE, pending[i][1], pending[i][2])]
  <2>1. ASSUME NEW i \in 0..n
        PROVE  (IF i = 0 THEN asked ELSE G[<<f[i - 1], i>>]) = IF i = 0 THEN asked ELSE SubscribeRemote(f[i - 1], TRUE, pending[i][1], pending[i][2])
    <3>1. i = 0 \/ i \in 1..n
      BY <1>1
    <3> QED
      BY <1>7, <1>11, <3>1
  <2> QED
    BY <1>10, <2>1
<1>13. W = [i \in 0..n |-> IF i = 0 THEN asked ELSE SubscribeRemote(W[i - 1], TRUE, pending[i][1], pending[i][2])]
  BY <1>12
<1>14. Joined(asked) = W[n]
  BY <1>1 DEF Joined
<1> HIDE DEF W
<1>15. ASSUME NEW i \in 0..n
       PROVE  W[i] = IF i = 0 THEN asked ELSE SubscribeRemote(W[i - 1], TRUE, pending[i][1], pending[i][2])
  BY <1>13
<1>16. 0..n \subseteq {i \in 0..n : Joins(W[i], i)}
  <2> DEFINE Z == {i \in 0..n : Joins(W[i], i)}
  <2>1. 0 \in Z
    <3>2. 0 \in 0..n
      OBVIOUS
    <3>1. W[0] = asked
      BY <3>2, <1>15, Zenon
    <3> QED
      BY <3>1, <3>2
  <2>2. ASSUME NEW i \in 1..n, i - 1 \in Z PROVE i \in Z
    <3>1. i \in 0..n /\ Joins(W[i - 1], i - 1) /\ i # 0
      BY <1>1, <2>2
    <3>2. W[i] = SubscribeRemote(W[i - 1], TRUE, pending[i][1], pending[i][2])
      BY <1>15, <3>1
    <3>3. Joins(W[i], i)
      BY <1>4, <3>1, <3>2
    <3> QED
      BY <3>1, <3>3
  <2> HIDE DEF Z
  <2>4. 0..n \subseteq Z
    BY <1>1, <2>1, <2>2, Upward
  <2> QED
    BY <2>4 DEF Z
<1>17. Joins(W[n], n)
  BY <1>1, <1>16
<1>18. Joins(Joined(asked), n)
  BY <1>14, <1>17, Zenon
<1> QED
  BY <1>1, <1>18, Zenon

\* The responder connects: what the broker has asked for is all there is.
LEMMA RespConnectStep ==
  ASSUME Inv, NEW kept \in SUBSET Paths, RespConnect(kept)
  PROVE  Inv' /\ Advances
<1> DEFINE S == {p \in Paths : stream[p] # NoStream}
<1>0. B \in Broker /\ Placed(B, known) /\ Ordered(B) /\ EnvType /\ rup \subseteq Reqs /\ ~up
  BY HeldIs DEF Inv, RespConnect
<1>1. PICK order \in SetToSeqs(S) : Becomes([Joined([B EXCEPT !.out = @ \o Asks(order)]) EXCEPT !.pending = <<>>])
  BY DEF RespConnect
<1> DEFINE x == Joined([B EXCEPT !.out = @ \o Asks(order)])
<1>2. Joins(x, Len(pending))
  BY <1>0, <1>1, AskedAgain, JoinedIs
<1>3. Becomes([x EXCEPT !.pending = <<>>])
  BY <1>1
<1> HIDE DEF x, S
<1>4. /\ x \in Broker /\ x.sub = sub /\ Anew(x) /\ Fields(x)
      /\ known => x.stream = stream
      /\ ~known => /\ \A r \in Reqs, p \in Paths : Member(x, r, p) <=> \E k \in 1..Len(pending) : pending[k] = <<r, p>>
                   /\ \A p \in Paths : x.stream[p] # NoStream => x.stream[p].last = NoValue
  BY <1>2, BrokerIs DEF Joins
<1>5. /\ x.sub \in Subs /\ x.stream \in [Paths -> Stream \cup {NoStream}] /\ x.sid \in Nat /\ x.out \in Seq(Msg)
      /\ SidOf(x) \in Sids
      /\ \A p \in Paths : /\ SidOf(x)[p] = NoSid <=> x.stream[p] = NoStream
                          /\ x.stream[p] # NoStream => SidOf(x)[p] = x.stream[p].sid /\ x.stream[p].sid \in Nat
  BY <1>4, BrokerIs, SidOfIs
<1>6. B'.sub = x.sub /\ B'.stream = x.stream /\ B'.pending = <<>> /\ B'.sid = x.sid /\ B'.out = x.out
  <2>1. [x EXCEPT !.pending = <<>>] = [sub |-> x.sub, stream |-> x.stream, pending |-> <<>>, sid |-> x.sid, out |-> x.out]
    BY <1>4 DEF Fields
  <2>2. sub' = x.sub /\ stream' = x.stream /\ pending' = <<>> /\ sid' = x.sid /\ toResp' = x.out
    BY <1>3, <2>1 DEF Becomes
  <2> QED
    BY <2>2, Parts
<1>7. B' \in Broker
  <2>1. sub' \in Subs /\ stream' \in [Paths -> Stream \cup {NoStream}] /\ sid' \in Nat /\ toResp' \in Seq(Msg)
    BY <1>5, <1>6, Parts
  <2>2. pending' \in Seq(Reqs \X Paths)
    <3>1. pending' = <<>>
      BY <1>6, Parts
    <3> QED
      BY <3>1
  <2> QED
    BY <2>1, <2>2, Parts
<1>8. up' /\ known' /\ rup' = rup /\ fromResp' = <<>> /\ count' = count /\ sidSub' = {}
      /\ (\A p \in Paths : pathSub'[p] = NoSid) /\ pathSub' \in Sids
      /\ \A p \in Paths : val'[p] = val[p] \/ val'[p] = NoValue
  BY <1>0 DEF RespConnect, Inv, Linked, EnvType
<1>9. val' \in [Paths -> Value \cup {NoValue}]
  BY <1>0 DEF RespConnect, EnvType
<1>10. EnvType' /\ Mirror' /\ InOrder' /\ Linked' /\ rup' \subseteq Reqs
  <2>1. fromResp' \in Seq(Update0) /\ sidSub' \subseteq Nat \X Paths /\ up' \in BOOLEAN /\ known' \in BOOLEAN
    <3>1. up' = TRUE /\ known' = TRUE
      BY DEF RespConnect
    <3> QED
      BY <1>8, <3>1
  <2>2. EnvType'
    BY <1>0, <1>8, <1>9, <2>1 DEF EnvType
  <2>3. Mirror' /\ Linked'
    BY <1>8 DEF Mirror, Linked
  <2>4. InOrder'
    <3>1. \A p \in Paths : val'[p] # NoValue => val'[p][1] = p /\ val'[p][2] <= count'
      BY <1>8 DEF Inv, InOrder
    <3> QED
      BY <1>8, <3>1 DEF InOrder
  <2> QED
    BY <1>0, <1>8, <2>2, <2>3, <2>4
\* Who is subscribed is in a stream.
<1>11. \A r \in Reqs, p \in Paths : x.sub[r][p] # NoSub <=> Member(x, r, p)
  <2>1. CASE known
    <3>1. \A r \in Reqs, p \in Paths : Member(x, r, p) <=> Member(B, r, p)
      BY <1>4, <2>1, Parts DEF Member
    <3> QED
      BY <1>0, <1>4, <2>1, <3>1, Parts DEF Placed
  <2>2. CASE ~known
    <3>1. \A r \in Reqs, p \in Paths : sub[r][p] # NoSub <=> Waits(B, r, p)
      BY <1>0, <2>2, Parts DEF Placed
    <3>2. \A r \in Reqs, p \in Paths : Waits(B, r, p) <=> \E k \in 1..Len(pending) : pending[k] = <<r, p>>
      BY Parts DEF Waits
    <3> QED
      BY <1>4, <2>2, <3>1, <3>2
  <2> QED
    BY <2>1, <2>2
<1> HIDE DEF B
<1>12. Placed(B, known)'
  <2>1. Distinct(B'.pending)
    BY <1>6 DEF Distinct
  <2>2. \A r \in Reqs, p \in Paths : B'.sub[r][p] # NoSub <=> Member(B', r, p)
    BY <1>6, <1>11 DEF Member
  <2> QED
    BY <1>6, <1>8, <2>1, <2>2 DEF Placed, Member
<1>13. Agreed(B)'
  <2> DEFINE now == [p \in Paths |-> IF x.stream[p] = NoStream THEN NoSid ELSE x.stream[p].sid]
             own == [s \in Nat |-> CHOOSE p \in Paths : x.stream[p] # NoStream /\ x.stream[p].sid = s]
  <2>1. \A p \in Paths : x.stream[p] # NoStream => x.stream[p].sid < x.sid /\ own[x.stream[p].sid] = p
    <3> SUFFICES ASSUME NEW p \in Paths, x.stream[p] # NoStream
                 PROVE  x.stream[p].sid < x.sid /\ own[x.stream[p].sid] = p
      OBVIOUS
    <3> DEFINE s == x.stream[p].sid
               q == CHOOSE y \in Paths : x.stream[y] # NoStream /\ x.stream[y].sid = s
    <3>1. q \in Paths /\ x.stream[q] # NoStream /\ x.stream[q].sid = s
      OBVIOUS
    <3>2. own[s] = q
      BY <1>5
    <3> HIDE DEF q, own
    <3> QED
      BY <1>4, <3>1, <3>2 DEF Anew
  <2> HIDE DEF own
  <2>2. ASSUME NEW i \in 1..Len(x.out)
        PROVE  /\ x.out[i].method = "subscribe" /\ x.out[i].path \in Paths /\ x.out[i].sid < x.sid
               /\ own[x.out[i].sid] = x.out[i].path /\ x.out[i].sid = now[x.out[i].path]
    <3>1. x.out[i] \in Msg
      BY <1>5
    <3>2. x.out[i].method = "subscribe" /\ x.stream[x.out[i].path] # NoStream /\ x.out[i].sid = x.stream[x.out[i].path].sid
      BY <1>4 DEF Anew
    <3>3. x.out[i].path \in Paths
      BY <3>1, <3>2, MsgIs
    <3> QED
      BY <2>1, <3>2, <3>3
  <2>3. now \in Sids /\ \A p \in Paths : now[p] # NoSid => \E i \in 1..Len(x.out) : x.out[i].path = p
    <3>1. now = SidOf(x)
      BY DEF SidOf
    <3> QED
      BY <1>4, <1>5, <3>1 DEF Anew
  <2> HIDE DEF now
  <2>4. InStep(now, x.out, pathSub')
    <3> DEFINE tab == pathSub'
               out == x.out
    <3>1. (\A p \in Paths : tab[p] = NoSid) /\ out \in Seq(Msg)
      BY <1>5, <1>8
    <3>2. \A i \in 1..Len(out) : out[i].method = "subscribe" /\ out[i].sid = now[out[i].path]
      BY <2>2
    <3>3. \A p \in Paths : now[p] # NoSid => \E i \in 1..Len(out) : out[i].path = p
      BY <2>3
    <3> HIDE DEF tab, out
    <3>4. InStep(now, out, tab)
      BY <2>3, <3>1, <3>2, <3>3, InStepAnew
    <3> QED
      BY <3>4 DEF tab, out
  <2>5. now = SidOf(B')
    BY <1>6 DEF now, SidOf
  <2>6. \E o : OwnedBy(o, B)'
    <3>1. PICK o : o = own
      OBVIOUS
    <3>2. \A p \in Paths : B'.stream[p] # NoStream => B'.stream[p].sid < B'.sid /\ o[B'.stream[p].sid] = p
      BY <1>6, <2>1, <3>1
    <3>3. \A i \in 1..Len(B'.out) : B'.out[i].sid < B'.sid /\ o[B'.out[i].sid] = B'.out[i].path
      BY <1>6, <2>2, <3>1
    <3>4. OwnedBy(o, B)'
      BY <1>8, <3>2, <3>3 DEF OwnedBy
    <3> QED
      BY <3>4
  <2>7. InStep(SidOf(B), B.out, pathSub)'
    BY <1>6, <2>4, <2>5
  <2> QED
    BY <1>8, <2>6, <2>7 DEF Agreed
<1>14. Covered(B)'
  <2>1. Covered(x)
    BY <1>4 DEF Anew
  <2> QED
    BY <1>6, <2>1 DEF Covered, Member
<1>15. Ordered(B)'
  <2>2. \A y : \A p \in Paths : Behind(y, p) => After(y, p)
    BY <1>8 DEF Behind, After
  <2>3. \A p \in Paths : B'.stream[p] # NoStream => After(B'.stream[p].last, p)
    <3> SUFFICES ASSUME NEW p \in Paths, x.stream[p] # NoStream PROVE After(x.stream[p].last, p)
      BY <1>6
    <3>1. CASE known
      BY <1>0, <1>4, <2>2, <3>1, Parts DEF Ordered
    <3>2. CASE ~known
      BY <1>4, <3>2 DEF After
    <3> QED
      BY <3>1, <3>2
  <2>4. \A r \in Reqs, p \in Paths : B'.sub[r][p] # NoSub => After(B'.sub[r][p].got, p)
    BY <1>0, <1>4, <1>6, <2>2, Parts DEF Ordered
  <2>5. \A r \in Reqs, p \in Paths : Member(B', r, p) /\ B'.sub[r][p].got # NoValue /\ B'.stream[p].last # NoValue
          => B'.sub[r][p].got[2] <= B'.stream[p].last[2]
    <3> SUFFICES ASSUME NEW r \in Reqs, NEW p \in Paths, Member(x, r, p), x.sub[r][p].got # NoValue, x.stream[p].last # NoValue
                 PROVE  x.sub[r][p].got[2] <= x.stream[p].last[2]
      BY <1>6 DEF Member
    <3>1. known
      BY <1>4 DEF Member
    <3>2. Member(B, r, p) /\ x.stream = B.stream /\ x.sub = B.sub
      BY <1>4, <3>1, Parts DEF Member
    <3> QED
      BY <1>0, <3>2 DEF Ordered
  <2> QED
    BY <2>3, <2>4, <2>5, OrderedNext
<1>16. Current(B)'
  <2>1. ASSUME NEW p \in Paths, B'.stream[p] # NoStream PROVE Asking(B'.out, B'.stream[p].sid)
    <3>1. PICK i \in 1..Len(x.out) : x.out[i].path = p
      BY <1>4, <1>6, <2>1 DEF Anew
    <3>2. x.out[i].method = "subscribe" /\ x.out[i].sid = x.stream[p].sid
      BY <1>4, <3>1 DEF Anew
    <3> QED
      BY <1>6, <3>2 DEF Asking
  <2> QED
    BY <2>1, CurrentNext
<1>17. Held(B)'
  BY <1>7, <1>12, <1>13, <1>14, <1>15, <1>16 DEF Held, Sound
<1>18. Advances
  BY <1>4, <1>6, SubSame, Parts
<1> QED
  BY <1>10, <1>17, <1>18 DEF Inv

-----------------------------------------------------------------------------
\* Every step keeps the invariant, and hands no subscription an older value.
LEMMA NextStep ==
  ASSUME Inv, Next
  PROVE  Inv' /\ Advances
<1>1. CASE \E r \in Reqs, p \in Paths, q \in Qos, o \in Paths :
             \/ SubscribeNew(r, p, q, o)
             \/ \E newSid \in BOOLEAN : SubscribeAgain(r, p, q, o, newSid)
  <2>1. PICK r \in Reqs, p \in Paths, q \in Qos, o \in Paths :
             \/ SubscribeNew(r, p, q, o)
             \/ \E newSid \in BOOLEAN : SubscribeAgain(r, p, q, o, newSid)
    BY <1>1
  <2>2. CASE SubscribeNew(r, p, q, o)
    BY <2>2, SubscribeNewStep
  <2>3. CASE \E newSid \in BOOLEAN : SubscribeAgain(r, p, q, o, newSid)
    BY <2>3, SubscribeAgainStep
  <2> QED
    BY <2>1, <2>2, <2>3
<1>2. CASE \E r \in Reqs, p \in Paths : Unsubscribe(r, p)
  BY <1>2, UnsubscribeStep
<1>3. CASE \E r \in Reqs : ReqConnect(r) \/ ReqDisconnect(r)
  BY <1>3, ReqConnectStep, ReqDisconnectStep
<1>4. CASE \E kept \in SUBSET Paths : RespConnect(kept)
  BY <1>4, RespConnectStep
<1>5. CASE RespDisconnect
  BY <1>5, RespDisconnectStep
<1>6. CASE ClearConns
  BY <1>6, ClearConnsStep
<1>7. CASE Restart
  BY <1>7, RestartStep
<1>8. CASE Update
  BY <1>8, UpdateStep
<1>9. CASE \E p \in Paths : Publish(p)
  BY <1>9, PublishStep
<1>10. CASE RespSubscribe
  BY <1>10, RespSubscribeStep
<1>11. CASE RespUnsubscribe
  BY <1>11, RespUnsubscribeStep
<1> QED
  BY <1>1, <1>2, <1>3, <1>4, <1>5, <1>6, <1>7, <1>8, <1>9, <1>10, <1>11 DEF Next

LEMMA StepInv == Inv /\ [Next]_vars => Inv' /\ Advances
BY NextStep, StutterStep

LEMMA InvAlways == Spec => []Inv
<1>1. Init => Inv
  BY InitInv
<1>2. Inv /\ [Next]_vars => Inv'
  BY StepInv
<1> QED
  BY <1>1, <1>2, PTL DEF Spec

-----------------------------------------------------------------------------
LEMMA InvType == Inv => TypeOK
<1> SUFFICES ASSUME Inv PROVE TypeOK
  OBVIOUS
<1>1. B \in Broker /\ EnvType /\ rup \subseteq Reqs
  BY HeldIs DEF Inv
<1> QED
  BY <1>1, Parts DEF TypeOK, EnvType, Subs, Sids

LEMMA InvOnePlace == Inv => InOnePlace
<1> SUFFICES ASSUME Inv PROVE InOnePlace
  OBVIOUS
<1>1. B \in Broker /\ Placed(B, known) /\ known \in BOOLEAN
  BY HeldIs DEF Inv, EnvType
<1>2. pending \in Seq(Reqs \X Paths)
  BY <1>1, Parts
<1>3. /\ known => pending = <<>> /\ \A r \in Reqs, p \in Paths : sub[r][p] # NoSub <=> stream[p] # NoStream /\ r \in stream[p].reqs
      /\ ~known => /\ \A p \in Paths : stream[p] = NoStream
                   /\ \A r \in Reqs, p \in Paths : sub[r][p] # NoSub <=> \E i \in 1..Len(pending) : pending[i] = <<r, p>>
      /\ \A i, j \in 1..Len(pending) : pending[i] = pending[j] => i = j
  <2>1. ASSUME known PROVE pending = <<>>
    BY <1>1, <2>1, Parts DEF Placed
  <2>2. ASSUME known, NEW r \in Reqs, NEW p \in Paths
        PROVE  sub[r][p] # NoSub <=> stream[p] # NoStream /\ r \in stream[p].reqs
    BY <1>1, <2>2, Parts DEF Placed, Member
  <2>3. ASSUME ~known, NEW p \in Paths PROVE stream[p] = NoStream
    BY <1>1, <2>3, Parts DEF Placed
  <2>4. ASSUME ~known, NEW r \in Reqs, NEW p \in Paths
        PROVE  sub[r][p] # NoSub <=> \E i \in 1..Len(pending) : pending[i] = <<r, p>>
    BY <1>1, <2>4, Parts DEF Placed, Waits
  <2>5. ASSUME NEW i \in 1..Len(pending), NEW j \in 1..Len(pending), pending[i] = pending[j]
        PROVE  i = j
    BY <1>1, <2>5, Parts DEF Placed, Distinct
  <2> QED
    BY <2>1, <2>2, <2>3, <2>4, <2>5
<1> SUFFICES ASSUME NEW r \in Reqs, NEW p \in Paths
             PROVE  /\ Cardinality({i \in DOMAIN pending : pending[i] = <<r, p>>})
                         + (IF stream[p] # NoStream /\ r \in stream[p].reqs THEN 1 ELSE 0)
                       = IF sub[r][p] = NoSub THEN 0 ELSE 1
                    /\ known => <<r, p>> \notin Range(pending)
  BY DEF InOnePlace
<1> DEFINE At == {i \in DOMAIN pending : pending[i] = <<r, p>>}
<1>4. DOMAIN pending = 1..Len(pending)
  BY <1>2
<1>5. Cardinality(At) = IF \E i \in 1..Len(pending) : pending[i] = <<r, p>> THEN 1 ELSE 0
  <2>1. CASE \E i \in 1..Len(pending) : pending[i] = <<r, p>>
    <3>1. PICK i \in 1..Len(pending) : pending[i] = <<r, p>>
      BY <2>1
    <3>2. At = {i}
      BY <1>3, <1>4, <3>1
    <3> QED
      BY <2>1, <3>2, FS_Singleton
  <2>2. CASE ~\E i \in 1..Len(pending) : pending[i] = <<r, p>>
    <3>1. At = {}
      BY <1>4, <2>2
    <3> QED
      BY <2>2, <3>1, FS_EmptySet
  <2> QED
    BY <2>1, <2>2
<1>6. known => pending = <<>> /\ ~\E i \in 1..Len(pending) : pending[i] = <<r, p>>
  BY <1>3
<1>7. known => <<r, p>> \notin Range(pending)
  BY <1>4, <1>6 DEF Range
<1> HIDE DEF At
<1>8. Cardinality(At) + (IF stream[p] # NoStream /\ r \in stream[p].reqs THEN 1 ELSE 0) = IF sub[r][p] = NoSub THEN 0 ELSE 1
  <2> DEFINE c  == Cardinality(At)
             in == stream[p] # NoStream /\ r \in stream[p].reqs
  <2>1. CASE sub[r][p] = NoSub
    <3>1. ~in /\ ~\E i \in 1..Len(pending) : pending[i] = <<r, p>>
      BY <1>3, <1>6, <2>1
    <3>2. c = 0
      BY <1>5, <3>1
    <3> HIDE DEF c, in
    <3>3. c + (IF in THEN 1 ELSE 0) = 0
      BY <3>1, <3>2
    <3> QED
      BY <2>1, <3>3 DEF c, in
  <2>2. CASE sub[r][p] # NoSub /\ known
    <3>1. in /\ ~\E i \in 1..Len(pending) : pending[i] = <<r, p>>
      BY <1>3, <1>6, <2>2
    <3>2. c = 0
      BY <1>5, <3>1
    <3> HIDE DEF c, in
    <3>3. c + (IF in THEN 1 ELSE 0) = 1
      BY <3>1, <3>2
    <3> QED
      BY <2>2, <3>3 DEF c, in
  <2>3. CASE sub[r][p] # NoSub /\ ~known
    <3>1. ~in /\ \E i \in 1..Len(pending) : pending[i] = <<r, p>>
      BY <1>3, <2>3
    <3>2. c = 1
      BY <1>5, <3>1
    <3> HIDE DEF c, in
    <3>3. c + (IF in THEN 1 ELSE 0) = 1
      BY <3>1, <3>2
    <3> QED
      BY <2>3, <3>3 DEF c, in
  <2> QED
    BY <2>1, <2>2, <2>3
<1> QED
  BY <1>7, <1>8 DEF At

LEMMA InvRightPath == Inv => RightPath
<1> SUFFICES ASSUME Inv PROVE RightPath
  OBVIOUS
<1>1. Ordered(B)
  BY HeldIs DEF Inv
<1> QED
  BY <1>1, Parts DEF Ordered, Behind, RightPath

LEMMA InvCurrent == Inv => QuietIsCurrent
<1> SUFFICES ASSUME Inv, up, toResp = <<>>, fromResp = <<>>, NEW p \in Paths, stream[p] # NoStream, val[p] # NoValue
             PROVE  \A r \in stream[p].reqs : sub[r][p].got = val[p]
  BY DEF QuietIsCurrent
<1>1. Current(B)
  BY DEF Inv, Held, Sound
<1>2. Asking(toResp, stream[p].sid) \/ Coming(stream[p].sid, val[p]) \/ Arrived(B, p)
  BY <1>1, Parts DEF Current
<1>3. ~Asking(toResp, stream[p].sid) /\ ~Coming(stream[p].sid, val[p])
  BY DEF Asking, Coming
<1> QED
  BY <1>2, <1>3, Parts DEF Arrived

\* What the responder will use, in the terms of the invariant
LEMMA WillUseIs ==
  ASSUME NEW now \in Sids, toResp \in Seq(Msg), InStep(now, toResp, pathSub), NEW p \in Paths, NEW s \in Nat
  PROVE  WillUse(p, s) <=> now[p] = s
<1> DEFINE n == Len(toResp)
<1>1. n \in Nat /\ \A i \in 1..n : toResp[i].method = "subscribe" \/ toResp[i].method = "unsubscribe"
  BY MsgIs
<1>2. \A i : Uses(p, s, i) <=> Use(pathSub, toResp, p, s, i)
  BY DEF Uses, Use
<1>3. \A j \in 1..n : Ends(p, s, j) <=> Dropped(toResp, s, j) \/ \E t : t # s /\ Use(pathSub, toResp, p, t, j)
  <2> SUFFICES ASSUME NEW j \in 1..n
               PROVE  Ends(p, s, j) <=> Dropped(toResp, s, j) \/ \E t : t # s /\ Use(pathSub, toResp, p, t, j)
    OBVIOUS
  <2>1. \A t : Use(pathSub, toResp, p, t, j) <=> toResp[j].method = "subscribe" /\ toResp[j].path = p /\ toResp[j].sid = t
    BY DEF Use
  <2>2. CASE toResp[j].method = "subscribe"
    BY <2>1, <2>2 DEF Ends, Dropped
  <2>3. CASE toResp[j].method = "unsubscribe"
    BY <2>1, <2>3 DEF Ends, Dropped
  <2> QED
    BY <1>1, <2>2, <2>3
<1>4. ASSUME WillUse(p, s), now[p] # s PROVE FALSE
  <2>1. PICK i \in 0..n : Use(pathSub, toResp, p, s, i) /\ \A j \in i + 1..n : ~Ends(p, s, j)
    BY <1>2, <1>4 DEF WillUse
  <2>2. PICK j \in i + 1..n : Dropped(toResp, s, j)
    BY <1>4, <2>1 DEF InStep, OldDropped
  <2>3. j \in 1..n
    BY <1>1
  <2> QED
    BY <1>3, <2>1, <2>2, <2>3
<1>5. ASSUME now[p] = s PROVE WillUse(p, s)
  <2>1. now[p] # NoSid
    BY <1>5, NoSidIsNone
  <2>2. /\ \E i \in 0..n : Use(pathSub, toResp, p, s, i)
        /\ \A j \in 1..n : ~Dropped(toResp, s, j)
    BY <1>5, <2>1 DEF InStep, NowUsed
  <2>3. PICK i \in 0..n : Use(pathSub, toResp, p, s, i)
    BY <2>2
  <2>4. ASSUME NEW j \in i + 1..n, Ends(p, s, j) PROVE FALSE
    <3>1. j \in 1..n /\ j \in 0..n /\ i < j
      BY <1>1
    <3>2. PICK t : t # s /\ Use(pathSub, toResp, p, t, j)
      BY <1>3, <2>2, <2>4, <3>1
    <3>3. t \in Nat
      BY <3>1, <3>2, MsgIs DEF Use
    <3>4. PICK k \in i + 1..j - 1 : Dropped(toResp, s, k)
      BY <2>3, <3>1, <3>2, <3>3 DEF InStep, DroppedBetween
    <3>5. k \in 1..n
      BY <1>1
    <3> QED
      BY <2>2, <3>4, <3>5
  <2> QED
    BY <1>2, <2>3, <2>4 DEF WillUse
<1> QED
  BY <1>4, <1>5

LEMMA InvInStep == Inv => ResponderInStep
<1> SUFFICES ASSUME Inv PROVE ResponderInStep
  OBVIOUS
<1>1. B \in Broker /\ Agreed(B) /\ Covered(B) /\ Mirror /\ toResp \in Seq(Msg) /\ sid \in Nat
  BY HeldIs, Parts DEF Inv
<1>2. SidOf(B) \in Sids /\ \A p \in Paths, s \in Nat : SidOf(B)[p] = s <=> stream[p] # NoStream /\ stream[p].sid = s
  BY <1>1, SidOfIs, NoSidIsNone, Parts
<1>3. up => \A p \in Paths, s \in 0..sid : WillUse(p, s) <=> stream[p] # NoStream /\ stream[p].sid = s
  <2> SUFFICES ASSUME up, NEW p \in Paths, NEW s \in 0..sid
               PROVE  WillUse(p, s) <=> stream[p] # NoStream /\ stream[p].sid = s
    OBVIOUS
  <2>1. InStep(SidOf(B), toResp, pathSub) /\ s \in Nat
    BY <1>1, Parts DEF Agreed
  <2> DEFINE now == SidOf(B)
  <2> HIDE DEF B
  <2>2. WillUse(p, s) <=> now[p] = s
    BY <1>1, <1>2, <2>1, WillUseIs
  <2> QED
    BY <1>2, <2>1, <2>2
<1>4. \A p \in Paths : stream[p] # NoStream => \A r \in stream[p].reqs : stream[p].qos >= sub[r][p].qos
  <2> SUFFICES ASSUME NEW p \in Paths, stream[p] # NoStream, NEW r \in stream[p].reqs
               PROVE  stream[p].qos >= sub[r][p].qos
    OBVIOUS
  <2>1. r \in Reqs
    <3>1. stream[p] \in Stream
      BY <1>1, BrokerIs, Parts
    <3> QED
      BY <3>1 DEF Stream
  <2> QED
    BY <1>1, <2>1, Parts DEF Covered, Member
<1> QED
  BY <1>1, <1>3, <1>4 DEF Mirror, ResponderInStep

-----------------------------------------------------------------------------
(***************************************************************************)
(* The theorems                                                            *)
(***************************************************************************)
\* Every variable has its type, whatever the requesters, the responder and
\* the broker's restarts do: in particular a stream in the table always has a
\* requester and a valid qos (broker_subscribe_remote never leaves the invalid
\* one it starts a stream with, broker_free_sub_requester frees an empty one).
THEOREM TypeCorrect == Spec => []TypeOK
<1>1. Inv => TypeOK
  BY InvType
<1> QED
  BY <1>1, InvAlways, PTL

\* A subscription is in the stream of its path or waits, once, in
\* remote_pending_sub, however handle_subscribe, broker_dslink_connect,
\* clear_conns and the requesters' disconnections follow each other.
THEOREM InOnePlaceAlways == Spec => []InOnePlace
<1>1. Inv => InOnePlace
  BY InvOnePlace
<1> QED
  BY <1>1, InvAlways, PTL

\* While the responder is connected it will, once it has handled what is under
\* way, serve exactly the sids of the broker's streams; its two tables mirror
\* each other; and a stream has at least the qos of every requester in it.
THEOREM ResponderInStepAlways == Spec => []ResponderInStep
<1>1. Inv => ResponderInStep
  BY InvInStep
<1> QED
  BY <1>1, InvAlways, PTL

\* broker_handle_resp hands an update on by its sid alone; a subscription
\* nevertheless never gets a value of another path.
THEOREM RightPathAlways == Spec => []RightPath
<1>1. Inv => RightPath
  BY InvRightPath
<1> QED
  BY <1>1, InvAlways, PTL

\* With nothing under way to or from a connected responder, every requester of
\* a stream was handed the value the responder has now.
THEOREM QuietIsCurrentAlways == Spec => []QuietIsCurrent
<1>1. Inv => QuietIsCurrent
  BY InvCurrent
<1> QED
  BY <1>1, InvAlways, PTL

\* A subscription that lives on is never handed an older value than before,
\* across reconnections of the responder, new sids and values handed over again.
THEOREM NeverBackAlways == Spec => NeverBack
<1>1. Inv /\ [Next]_vars => Advances
  BY StepInv
<1> QED
  BY <1>1, InvAlways, PTL DEF Spec, NeverBack, Advances
=============================================================================
