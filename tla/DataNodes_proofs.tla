-------------------------- MODULE DataNodes_proofs --------------------------
(***************************************************************************)
(* Proofs about DataNodes, for any tree of paths, any permission lists and *)
(* groups and any number of requests.                                      *)
(***************************************************************************)
EXTENDS DataNodes, WellFoundedInduction, TLAPS

\* The types that the values and their files need.
ValueTypes ==
  /\ value \in [Paths -> Nat] /\ file \in [Paths -> Nat] /\ ops \in Nat

ValueInv == ValueTypes /\ ValuesOnDisk

LEMMA InitValueInv == Init => ValueInv
BY DEF Init, ValueInv, ValueTypes, ValuesOnDisk

\* A value that is set: its file is written by the same request.
LEMMA SetKeeps ==
  ASSUME ValueInv, NEW by, NEW p \in Paths, Set(by, p)
  PROVE  ValueInv'
<1>1. /\ value' = [value EXCEPT ![p] = ops + 1] /\ file' = [file EXCEPT ![p] = ops + 1]
      /\ ops' = ops + 1 /\ stray' = stray \ {p} /\ published' = published \ {p}
  BY DEF Set, Written, FileWritten
<1> QED
  BY <1>1 DEF ValueInv, ValueTypes, ValuesOnDisk

\* A value that is published stays in memory until it is set.
LEMMA PublishKeeps ==
  ASSUME ValueInv, NEW by, NEW p \in Paths, Publish(by, p)
  PROVE  ValueInv'
<1>1. /\ value' = [value EXCEPT ![p] = ops + 1] /\ file' = file
      /\ ops' = ops + 1 /\ stray' = stray /\ published' = published \cup {p}
  BY DEF Publish, Written
<1> QED
  BY <1>1 DEF ValueInv, ValueTypes, ValuesOnDisk

\* A node goes with the nodes below it: its own file is removed, theirs are stray.
LEMMA DeleteKeeps ==
  ASSUME ValueInv, NEW by, NEW p \in Paths, DeleteNode(by, p)
  PROVE  ValueInv'
<1> DEFINE gone == {p} \cup {d \in nodes : p \in Above[d]}
<1>1. /\ value' = [m \in Paths |-> IF m \in gone THEN 0 ELSE value[m]]
      /\ file' = [file EXCEPT ![p] = 0] /\ ops' = ops + 1
      /\ stray' = (stray \ {p}) \cup {d \in gone \ {p} : file[d] # 0}
      /\ published' = published \ gone
  BY DEF DeleteNode
<1>2. p \in gone
  OBVIOUS
<1> HIDE DEF gone
<1>3. value' \in [Paths -> Nat] /\ file' \in [Paths -> Nat] /\ ops' \in Nat
  BY <1>1 DEF ValueInv, ValueTypes
<1>4. ASSUME NEW m \in Paths \ (published' \cup stray') PROVE file'[m] = value'[m]
  <2>1. CASE m = p
    BY <1>1, <1>2, <2>1 DEF ValueInv, ValueTypes
  <2>2. CASE m \in gone \ {p}
    <3>1. file[m] = 0
      BY <1>1, <1>4, <2>2
    <3> QED
      BY <1>1, <2>2, <3>1 DEF ValueInv, ValueTypes
  <2>3. CASE m \notin gone
    <3>1. m # p /\ m \notin published \cup stray
      BY <1>1, <1>2, <1>4, <2>3
    <3>2. file'[m] = file[m] /\ value'[m] = value[m]
      BY <1>1, <2>3, <3>1 DEF ValueInv, ValueTypes
    <3> QED
      BY <3>1, <3>2 DEF ValueInv, ValuesOnDisk
  <2> QED
    BY <2>1, <2>2, <2>3
<1> QED
  BY <1>3, <1>4 DEF ValueInv, ValueTypes, ValuesOnDisk

LEMMA StepValueInv == ValueInv /\ [Next]_vars => ValueInv'
<1> SUFFICES ASSUME ValueInv, [Next]_vars PROVE ValueInv'
  OBVIOUS
<1> USE DEF ValueInv, ValueTypes, ValuesOnDisk
<1>1. ASSUME UNCHANGED <<value, file, stray, published>>, ops' = ops \/ ops' = ops + 1
      PROVE  ValueInv'
  BY <1>1
<1>2. ASSUME NEW by, Request(by) PROVE ValueInv'
  <2>1. ASSUME NEW p \in Paths, AddNode(by, p) \/ Subscribe(by, p) PROVE ValueInv'
    BY <1>1, <2>1 DEF AddNode, Subscribe, treeVars
  <2>2. ASSUME NEW p, NEW l, SetList(by, p, l) PROVE ValueInv'
    BY <1>1, <2>2 DEF SetList, treeVars
  <2>3. ASSUME NEW g, UpdateGroup(by, g) PROVE ValueInv'
    BY <1>1, <2>3 DEF UpdateGroup, treeVars
  <2> QED
    BY <1>2, <2>1, <2>2, <2>3, SetKeeps, PublishKeeps, DeleteKeeps DEF Request
<1>3. ASSUME NEW p, Unsubscribe(p) PROVE ValueInv'
  BY <1>1, <1>3 DEF Unsubscribe, treeVars
<1>4. ASSUME NEW g, TokenGroup(g) PROVE ValueInv'
  BY <1>1, <1>4 DEF TokenGroup, treeVars
<1>5. CASE Connect \/ Disconnect \/ Save \/ SaveConns \/ \E o \in orphans : OrphanEnds(o)
  BY <1>1, <1>5 DEF Connect, Disconnect, OrphanEnds, Save, SaveConns, treeVars
<1>6. CASE Restart
  BY <1>6 DEF Restart
<1>7. CASE UNCHANGED vars
  BY <1>1, <1>7 DEF vars, treeVars
<1> QED
  BY <1>2, <1>3, <1>4, <1>5, <1>6, <1>7 DEF Next

\* A value that was set is on disk at every moment, and no file outlives a node
\* that was deleted by name (data.c:103, 65).
THEOREM ValuesOnDiskAlways == Spec => []ValuesOnDisk
<1>1. ValueInv => ValuesOnDisk
  BY DEF ValueInv
<1> QED
  BY <1>1, InitValueInv, StepValueInv, PTL DEF Spec

-----------------------------------------------------------------------------
\* Every link that is connected has the group that is its dsId.
OwnGroup == \A o \in orphans : OwnId \in o

SessionInv == SessionGroups /\ OwnGroup

LEMMA InitSessionInv == Init => SessionInv
BY DEF Init, SessionInv, SessionGroups, OwnGroup

\* A link that the node has becomes an orphan with the groups it has.
LEMMA OrphanedKeeps ==
  ASSUME SessionInv, NEW others, \A o \in others : OwnId \in o, Orphaned(others)
  PROVE  SessionInv'
<1>1. session' = Down /\ orphans' = others \cup ({session} \ {Down})
  BY DEF Orphaned
<1>2. session # Down => OwnId \in session
  BY DEF SessionInv, SessionGroups, GroupsOf
<1> QED
  BY <1>1, <1>2 DEF SessionInv, SessionGroups, OwnGroup

LEMMA StepSessionInv == SessionInv /\ [Next]_vars => SessionInv'
<1> SUFFICES ASSUME SessionInv, [Next]_vars PROVE SessionInv'
  OBVIOUS
<1>1. ASSUME UNCHANGED <<group, session, orphans>> PROVE SessionInv'
  BY <1>1 DEF SessionInv, SessionGroups, OwnGroup, GroupsOf
<1>2. ASSUME orphans' \in {orphans, {}}, session' \in {Down, GroupsOf(group')} PROVE SessionInv'
  BY <1>2 DEF SessionInv, SessionGroups, OwnGroup
<1>3. ASSUME NEW by, Request(by) PROVE SessionInv'
  <2>1. ASSUME NEW p \in Paths, \/ Set(by, p) \/ Publish(by, p) \/ AddNode(by, p)
                                \/ DeleteNode(by, p) \/ Subscribe(by, p)
        PROVE  SessionInv'
    BY <1>1, <2>1 DEF Set, Publish, AddNode, DeleteNode, Subscribe, groupVars, linkVars
  <2>2. ASSUME NEW p, NEW l, SetList(by, p, l) PROVE SessionInv'
    BY <1>1, <2>2 DEF SetList, linkVars
  <2>3. ASSUME NEW g, UpdateGroup(by, g) PROVE SessionInv'
    BY <1>2, <2>3 DEF UpdateGroup, LinkClosed
  <2> QED
    BY <1>3, <2>1, <2>2, <2>3 DEF Request
<1>4. ASSUME NEW p, Unsubscribe(p) PROVE SessionInv'
  BY <1>1, <1>4 DEF Unsubscribe, groupVars, linkVars
<1>5. ASSUME NEW g, TokenGroup(g) PROVE SessionInv'
  <2>1. group' = group /\ (Orphaned(orphans) \/ UNCHANGED <<session, orphans>>)
    BY <1>5 DEF TokenGroup
  <2>2. \A o \in orphans : OwnId \in o
    BY DEF SessionInv, OwnGroup
  <2> QED
    BY <1>1, <2>1, <2>2, OrphanedKeeps
<1>6. ASSUME NEW o \in orphans, OrphanEnds(o) PROVE SessionInv'
  <2>1. PICK others \in {orphans, orphans \ {o}} : Orphaned(others)
    BY <1>6 DEF OrphanEnds
  <2>2. \A x \in others : OwnId \in x
    BY DEF SessionInv, OwnGroup
  <2> QED
    BY <2>1, <2>2, OrphanedKeeps
<1>7. CASE Save \/ SaveConns
  BY <1>1, <1>7 DEF Save, SaveConns, groupVars, linkVars
<1>8. CASE Connect \/ Disconnect \/ Restart
  BY <1>2, <1>8 DEF Connect, Disconnect, Restart
<1>9. CASE UNCHANGED vars
  BY <1>1, <1>9 DEF vars, groupVars, linkVars
<1> QED
  BY <1>3, <1>4, <1>5, <1>6, <1>7, <1>8, <1>9 DEF Next

\* The link that its node has never acts with groups the node no longer has
\* (permission_action.c:151), whatever tokens are used, whichever links have
\* lost the node and whenever those end.
THEOREM SessionGroupsAlways == Spec => []SessionGroups
<1>1. SessionInv => SessionGroups
  BY DEF SessionInv
<1> QED
  BY <1>1, InitSessionInv, StepSessionInv, PTL DEF Spec

-----------------------------------------------------------------------------
\* A tree: every place but the root has one above it, and no way up is endless.
IsTree(T, root, up) ==
  /\ root \in T /\ up \in [T \ {root} -> T]
  /\ \A S \in SUBSET (T \ {root}) : S # {} => \E p \in S : up[p] \notin S

\* What holds of the root and goes down holds everywhere.
LEMMA TreeInduction ==
  ASSUME NEW T, NEW root, NEW up, IsTree(T, root, up),
         NEW S, root \in S, \A p \in T \ {root} : up[p] \in S => p \in S
  PROVE  T \subseteq S
<1> SUFFICES ASSUME T \ S # {} PROVE FALSE
  OBVIOUS
<1>1. T \ S \in SUBSET (T \ {root})
  OBVIOUS
<1>2. PICK p \in T \ S : up[p] \notin T \ S
  BY <1>1 DEF IsTree
<1>3. up[p] \in T
  BY <1>1, <1>2 DEF IsTree
<1> QED
  BY <1>1, <1>2, <1>3

\* A function is defined by its value at the root and by what every place makes
\* of the value above it.
LEMMA TreeRecursion ==
  ASSUME NEW T, NEW root, NEW up, IsTree(T, root, up), NEW X, NEW a \in X, NEW G \in [X \X T -> X]
  PROVE  \E f \in [T -> X] : f[root] = a /\ \A p \in T \ {root} : f[p] = G[<<f[up[p]], p>>]
<1> DEFINE Sound(Q) == /\ <<root, a>> \in Q
                       /\ \A p \in T \ {root}, x \in X : <<up[p], x>> \in Q => <<p, G[<<x, p>>]>> \in Q
           R == {e \in T \X X : \A Q \in SUBSET (T \X X) : Sound(Q) => e \in Q}
<1>1. root \in T /\ \A p \in T \ {root} : up[p] \in T
  BY DEF IsTree
<1>2. \A p \in T, x \in X : G[<<x, p>>] \in X
  OBVIOUS
<1>3. Sound(R)
  BY <1>1, <1>2
<1>4. ASSUME NEW Q \in SUBSET (T \X X), Sound(Q) PROVE R \subseteq Q
  BY <1>4
<1>5. R \subseteq T \X X
  OBVIOUS
<1> HIDE DEF R
<1>6. \A x \in X : <<root, x>> \in R => x = a
  <2> DEFINE Q == {e \in R : e[1] = root => e[2] = a}
  <2>1. Sound(Q)
    BY <1>1, <1>3
  <2>2. Q \in SUBSET (T \X X)
    BY <1>5
  <2>3. R \subseteq Q
    BY <1>4, <2>1, <2>2
  <2> QED
    BY <2>3
<1>7. \A p \in T \ {root}, y \in X : <<p, y>> \in R => \E x \in X : <<up[p], x>> \in R /\ y = G[<<x, p>>]
  <2> DEFINE Q == {e \in R : e[1] # root => \E x \in X : <<up[e[1]], x>> \in R /\ e[2] = G[<<x, e[1]>>]}
  <2>1. Sound(Q)
    <3>1. <<root, a>> \in Q
      BY <1>3
    <3>2. ASSUME NEW p \in T \ {root}, NEW x \in X, <<up[p], x>> \in Q
          PROVE  <<p, G[<<x, p>>]>> \in Q
      BY <1>3, <3>2
    <3> QED
      BY <3>1, <3>2
  <2>2. Q \in SUBSET (T \X X)
    BY <1>5
  <2>3. R \subseteq Q
    BY <1>4, <2>1, <2>2
  <2> QED
    BY <2>3
<1> DEFINE S == {p \in T : \E x \in X : <<p, x>> \in R /\ \A y \in X : <<p, y>> \in R => y = x}
<1>8. root \in S
  BY <1>1, <1>3, <1>6
<1>9. ASSUME NEW p \in T \ {root}, up[p] \in S PROVE p \in S
  <2>1. PICK x \in X : <<up[p], x>> \in R /\ \A y \in X : <<up[p], y>> \in R => y = x
    BY <1>9
  <2>2. <<p, G[<<x, p>>]>> \in R /\ G[<<x, p>>] \in X
    BY <1>2, <1>3, <2>1
  <2>3. \A y \in X : <<p, y>> \in R => y = G[<<x, p>>]
    BY <1>7, <2>1
  <2> QED
    BY <2>2, <2>3
<1> HIDE DEF S
<1>10. T \subseteq S
  BY <1>8, <1>9, TreeInduction
<1> DEFINE f == [p \in T |-> CHOOSE x \in X : <<p, x>> \in R]
<1>11. \A p \in T : f[p] \in X /\ <<p, f[p]>> \in R /\ \A y \in X : <<p, y>> \in R => y = f[p]
  BY <1>10 DEF S
<1>12. f \in [T -> X]
  BY <1>11
<1> HIDE DEF f
<1>13. f[root] = a
  BY <1>1, <1>6, <1>11
<1>14. \A p \in T \ {root} : f[p] = G[<<f[up[p]], p>>]
  BY <1>1, <1>2, <1>3, <1>11
<1> QED
  BY <1>12, <1>13, <1>14

-----------------------------------------------------------------------------
\* The places and the paths below /data are trees.
LEMMA PlacesTree == IsTree(Places, Root, [p \in Places \ {Root} |-> Up(p)])
<1> DEFINE up == [p \in Places \ {Root} |-> Up(p)]
<1>1. \A p \in Places \ {Root} : up[p] = IF p = Data THEN Root ELSE Parent[p]
  BY DEF Up
<1>2. \A p \in Paths \cup Remote : p # Root /\ p # Data /\ Parent[p] \in Places
  BY PlacesApart
<1>3. Root \in Places /\ up \in [Places \ {Root} -> Places]
  <2>1. \A p \in Places \ {Root} : Up(p) \in Places
    BY <1>2 DEF Places, Below, Up
  <2> QED
    BY <2>1 DEF Places
<1> HIDE DEF up
<1>4. ASSUME NEW S \in SUBSET (Places \ {Root}), S # {} PROVE \E p \in S : up[p] \notin S
  <2>1. CASE S \ {Data} = {}
    <3>1. Data \in S /\ up[Data] = Root
      BY <1>1, <1>4, <2>1
    <3> QED
      BY <1>4, <3>1
  <2>2. CASE S \ {Data} # {}
    <3>1. S \ {Data} \in SUBSET (Paths \cup Remote)
      BY DEF Places, Below
    <3>2. PICK p \in S \ {Data} : Parent[p] \notin S \ {Data}
      BY <2>2, <3>1, ParentsEnd
    <3>3. up[p] = Parent[p]
      BY <1>1, <1>4, <3>2
    <3>4. CASE Parent[p] # Data
      BY <3>2, <3>3, <3>4
    <3>5. CASE Parent[p] = Data
      <4>1. Data \in Places \ {Root} /\ up[Data] = Root
        BY <1>1, PlacesApart DEF Places, Below
      <4>2. CASE Data \in S
        BY <1>4, <4>1, <4>2
      <4>3. CASE Data \notin S
        BY <3>2, <3>3, <3>5, <4>3
      <4> QED
        BY <4>2, <4>3
    <3> QED
      BY <3>4, <3>5
  <2> QED
    BY <2>1, <2>2
<1>5. IsTree(Places, Root, up)
  BY <1>3, <1>4 DEF IsTree
<1> QED
  BY <1>5 DEF up

LEMMA BelowTree == IsTree(Below, Data, [p \in Below \ {Data} |-> Parent[p]])
<1>1. Below \ {Data} = Paths
  BY PlacesApart DEF Below
<1>2. \A p \in Paths : Parent[p] \in Below
  BY PlacesApart
<1>3. ASSUME NEW S \in SUBSET Paths, S # {} PROVE \E p \in S : Parent[p] \notin S
  <2>1. S \in SUBSET (Paths \cup Remote)
    OBVIOUS
  <2> QED
    BY <1>3, <2>1, ParentsEnd
<1>4. Data \in Below
  BY DEF Below
<1> QED
  BY <1>1, <1>2, <1>3, <1>4 DEF IsTree

-----------------------------------------------------------------------------
\* The paths above a path
LEMMA AboveIs ==
  /\ Above \in [Below -> SUBSET Below]
  /\ Above[Data] = {Data} /\ \A p \in Paths : Above[p] = {p} \cup Above[Parent[p]]
<1> DEFINE T  == Below
           up == [p \in T \ {Data} |-> Parent[p]]
           X  == SUBSET Below
           a  == {Data}
           G  == [e \in X \X T |-> {e[2]} \cup e[1]]
<1>1. a \in X /\ G \in [X \X T -> X] /\ Below \ {Data} = Paths
  BY PlacesApart DEF Below
<1>2. IsTree(T, Data, up)
  BY BelowTree
<1>3. \A x \in X, p \in T : G[<<x, p>>] = {p} \cup x
  OBVIOUS
<1>4. \A p \in Paths : up[p] = Parent[p] /\ Parent[p] \in T
  BY <1>1, PlacesApart
<1> HIDE DEF G, up, X, T, a
<1>5. PICK f \in [T -> X] : f[Data] = a /\ \A p \in T \ {Data} : f[p] = G[<<f[up[p]], p>>]
  BY ONLY <1>1, <1>2, TreeRecursion
<1> USE DEF T
<1>6. f[Data] = {Data} /\ \A p \in Paths : f[p] = {p} \cup f[Parent[p]]
  <2>1. f[Data] = {Data}
    BY <1>5 DEF a
  <2>2. ASSUME NEW p \in Paths PROVE f[p] = {p} \cup f[Parent[p]]
    <3>1. p \in T \ {Data} /\ up[p] = Parent[p] /\ f[Parent[p]] \in X
      BY <1>1, <1>4, <1>5
    <3> QED
      BY <1>3, <1>5, <3>1
  <2> QED
    BY <2>1, <2>2
<1>7. \A p \in Below : f[p] = {p} \cup (IF p = Data THEN {} ELSE f[Parent[p]])
  BY <1>1, <1>6
<1>8. f = [p \in Below |-> {p} \cup (IF p = Data THEN {} ELSE f[Parent[p]])]
  BY <1>5, <1>7
<1>9. Above = [p \in Below |-> {p} \cup (IF p = Data THEN {} ELSE Above[Parent[p]])]
  BY <1>8 DEF Above
<1>10. \A p \in Below : Above[p] = {p} \cup (IF p = Data THEN {} ELSE Above[Parent[p]])
  BY <1>9
<1>11. Data \in Below /\ Paths \subseteq Below /\ \A p \in Paths : p # Data
  BY <1>1 DEF Below
<1>12. Above[Data] = {Data} /\ \A p \in Paths : Above[p] = {p} \cup Above[Parent[p]]
  BY <1>10, <1>11
<1>13. \A p \in Below : Above[p] \in SUBSET Below
  <2> DEFINE S == {p \in Below : Above[p] \in SUBSET Below}
  <2>1. Data \in S
    BY <1>11, <1>12
  <2>2. \A p \in T \ {Data} : up[p] \in S => p \in S
    BY <1>1, <1>4, <1>11, <1>12
  <2> HIDE DEF S
  <2>3. T \subseteq S
    BY <1>2, <2>1, <2>2, TreeInduction
  <2> QED
    BY <2>3 DEF S
<1>14. Above \in [Below -> SUBSET Below]
  BY <1>9, <1>13
<1> QED
  BY <1>12, <1>14

\* What is above a path that is above p is above p; and the paths above p but p
\* itself are the parents of paths above p.
LEMMA AbovePaths ==
  ASSUME NEW p \in Below
  PROVE  /\ p \in Above[p] /\ Above[p] \subseteq Below
         /\ \A m \in Above[p] : Above[m] \subseteq Above[p]
         /\ \A x \in Above[p] \ {p} : \E m \in Above[p] \cap Paths : Parent[m] = x
<1>1. /\ Data \in Below /\ Below \ {Data} = Paths /\ \A q \in Paths : Parent[q] \in Below
  BY PlacesApart DEF Below
<1> DEFINE up == [q \in Below \ {Data} |-> Parent[q]]
           Fine(q) == /\ q \in Above[q] /\ \A m \in Above[q] : Above[m] \subseteq Above[q]
                      /\ \A x \in Above[q] \ {q} : \E m \in Above[q] \cap Paths : Parent[m] = x
           S == {q \in Below : Fine(q)}
<1>2. Data \in S
  BY <1>1, AboveIs
<1>3. ASSUME NEW q \in Below \ {Data}, up[q] \in S PROVE q \in S
  <2> DEFINE u == Parent[q]
  <2>1. q \in Paths /\ u \in Below /\ Fine(u) /\ Above[q] = {q} \cup Above[u]
    BY <1>1, <1>3, AboveIs
  <2> HIDE DEF u
  <2>2. \A m \in Above[q] : Above[m] \subseteq Above[q]
    BY <2>1
  <2>3. \A x \in Above[q] \ {q} : \E m \in Above[q] \cap Paths : Parent[m] = x
    <3> SUFFICES ASSUME NEW x \in Above[u] PROVE \E m \in Above[q] \cap Paths : Parent[m] = x
      BY <2>1
    <3>1. CASE x = u
      BY <2>1, <3>1 DEF u
    <3>2. CASE x # u
      BY <2>1, <3>2
    <3> QED
      BY <3>1, <3>2
  <2> QED
    BY <2>1, <2>2, <2>3
<1> HIDE DEF S
<1>4. IsTree(Below, Data, up)
  BY BelowTree
<1> HIDE DEF up
<1>5. Below \subseteq S
  BY <1>2, <1>3, <1>4, TreeInduction
<1> QED
  BY <1>5, AboveIs DEF S

-----------------------------------------------------------------------------
\* What is kept with the nodes above it
Rooted(S) == \A p \in S : Above[p] \subseteq S

\* The nodes and the paths of data.json are subtrees that hang on /data, and the
\* permission lists are lists.
TreeOK ==
  /\ nodes \subseteq Below /\ Data \in nodes /\ Rooted(nodes)
  /\ list \in [Places -> Lists \cup {NoList}]
  /\ saved \in [Below -> Lists \cup {NoList, Damaged, Absent}]
  /\ Rooted({p \in Below : saved[p] # Absent})
  /\ conns.list \in [Remote -> Lists \cup {NoList}]
  /\ file \in [Paths -> Nat] /\ ops \in Nat

\* A file has its node, or is what a deletion left.
FilesKnown == \A p \in Paths : file[p] # 0 => p \in nodes \cup stray

\* What data.json holds when it is not to be saved: the nodes, but for those that
\* a value file brings back, and their lists, but for those that were damaged.
InDataJson ==
  /\ \A p \in Below : saved[p] # Absent => p \in nodes
  /\ \A p \in nodes \ {Data} : saved[p] # Absent \/ \E q \in Paths : file[q] # 0 /\ p \in Above[q]
  /\ \A p \in nodes \ (listed \cup {Data}) : list[p] = IF saved[p] \in Lists THEN saved[p] ELSE NoList

\* RestartRestores with what makes it inductive
RestartInv ==
  /\ TreeOK /\ FilesKnown /\ (~due => InDataJson)
  /\ ~dueConns => conns.group = meta /\ \A p \in Remote : conns.list[p] = list[p]

LEMMA RootedUnion ==
  ASSUME NEW S, Rooted(S), S \subseteq Below, NEW p \in Below
  PROVE  Rooted(S \cup Above[p]) /\ S \cup Above[p] \subseteq Below
BY AbovePaths DEF Rooted

LEMMA InitRestartInv == Init => RestartInv
<1> SUFFICES ASSUME Init PROVE RestartInv
  OBVIOUS
<1>1. /\ nodes = {Data} /\ file = [p \in Paths |-> 0] /\ saved = [p \in Below |-> Absent]
      /\ conns.list = [p \in Remote |-> NoList] /\ conns.group = meta /\ ops = 0 /\ due = FALSE
  BY DEF Init
<1>2. PICK l \in Lists : list = [p \in Places |-> IF p = Root THEN l ELSE NoList]
  BY DEF Init
<1>3. Data \in Below /\ Above[Data] = {Data} /\ Remote \subseteq Places /\ Root \notin Remote
  BY AboveIs, PlacesApart DEF Below, Places
<1>4. TreeOK
  BY <1>1, <1>2, <1>3 DEF TreeOK, Rooted
<1>5. FilesKnown
  BY <1>1 DEF FilesKnown
<1>6. InDataJson
  BY <1>1 DEF InDataJson
<1>7. \A p \in Remote : conns.list[p] = list[p]
  BY <1>1, <1>2, <1>3
<1> QED
  BY <1>1, <1>4, <1>5, <1>6, <1>7 DEF RestartInv

\* A write makes the nodes that are missing; data.json is to be saved then.
LEMMA WrittenRestartInv ==
  ASSUME RestartInv, NEW p \in Paths, NEW v, Written(p, v), ops' = ops + 1,
         UNCHANGED <<list, listed, saved, meta, conns, dueConns>>,
         \/ file' = [file EXCEPT ![p] = ops + 1] /\ stray' = stray \ {p}
         \/ UNCHANGED <<file, stray>>
  PROVE  RestartInv'
<1>1. p \in Below /\ Paths \subseteq Below
  BY DEF Below
<1>2. nodes' = nodes \cup Above[p] /\ (~due' => ~due /\ nodes' = nodes)
  BY DEF Written, Missing
<1>3. p \in nodes'
  BY <1>1, <1>2, AbovePaths
<1>4. TreeOK /\ ops + 1 \in Nat /\ ops + 1 # 0
  BY DEF RestartInv, TreeOK
<1>5. /\ file' \in [Paths -> Nat]
      /\ \A q \in Paths : file[q] # 0 => file'[q] # 0
      /\ \A q \in Paths \ {p} : file'[q] = file[q] /\ (q \in stray => q \in stray')
  BY <1>4 DEF TreeOK
<1>6. TreeOK'
  <2>1. nodes' \subseteq Below /\ Data \in nodes' /\ Rooted(nodes')
    BY <1>1, <1>2, <1>4, RootedUnion DEF TreeOK
  <2>2. ops' \in Nat
    BY <1>4
  <2> QED
    BY <1>4, <1>5, <2>1, <2>2 DEF TreeOK, Rooted
<1>7. FilesKnown'
  <2>1. FilesKnown
    BY DEF RestartInv
  <2> QED
    BY <1>2, <1>3, <1>5, <2>1 DEF FilesKnown
<1>8. ASSUME ~due' PROVE InDataJson'
  <2>1. InDataJson /\ nodes' = nodes
    BY <1>2, <1>8 DEF RestartInv
  <2> QED
    BY <1>5, <2>1 DEF InDataJson
<1> QED
  BY <1>6, <1>7, <1>8 DEF RestartInv

LEMMA AddRestartInv ==
  ASSUME RestartInv, NEW by, NEW p \in Paths, AddNode(by, p)
  PROVE  RestartInv'
<1>1. /\ nodes' = nodes \cup {p} /\ due' = TRUE /\ ops' = ops + 1 /\ Parent[p] \in nodes
      /\ UNCHANGED <<file, stray, list, listed, saved, meta, conns, dueConns>>
  BY DEF AddNode, groupVars
<1>2. TreeOK /\ FilesKnown
  BY DEF RestartInv
<1>3. nodes \subseteq Below /\ Data \in nodes /\ Rooted(nodes) /\ ops \in Nat /\ p \in Below
  BY <1>2 DEF TreeOK, Below
<1>4. Above[p] \subseteq nodes \cup {p}
  BY <1>1, <1>3, AboveIs DEF Rooted
<1>5. Rooted(nodes')
  BY <1>1, <1>3, <1>4 DEF Rooted
<1>6. TreeOK'
  BY <1>1, <1>2, <1>3, <1>5 DEF TreeOK, Rooted
<1>7. FilesKnown'
  BY <1>1, <1>2 DEF FilesKnown
<1> QED
  BY <1>1, <1>6, <1>7 DEF RestartInv

\* A node goes with the nodes below it, so that what is left hangs on /data.
LEMMA DeleteRestartInv ==
  ASSUME RestartInv, NEW by, NEW p \in Paths, DeleteNode(by, p)
  PROVE  RestartInv'
<1> DEFINE gone == {p} \cup {d \in nodes : p \in Above[d]}
<1>1. /\ nodes' = nodes \ gone /\ due' = TRUE /\ ops' = ops + 1
      /\ file' = [file EXCEPT ![p] = 0]
      /\ stray' = (stray \ {p}) \cup {d \in gone \ {p} : file[d] # 0}
      /\ list' = [m \in Places |-> IF m \in gone THEN NoList ELSE list[m]]
      /\ UNCHANGED <<saved, meta, conns, dueConns>> /\ p \in nodes
  BY DEF DeleteNode, groupVars
<1>2. TreeOK /\ FilesKnown
  BY DEF RestartInv
<1>3. nodes \subseteq Below /\ Data \in nodes /\ Rooted(nodes) /\ ops \in Nat /\ p \in Below /\ p # Data
  BY <1>2, PlacesApart DEF TreeOK, Below
<1>4. \A d \in nodes : d \in gone <=> p \in Above[d]
  BY <1>3, AbovePaths
<1>5. p \in gone /\ gone \subseteq Below
  BY <1>3
<1> HIDE DEF gone
<1>6. Data \in nodes'
  BY <1>1, <1>3, <1>4, AboveIs
<1>7. Rooted(nodes')
  <2> SUFFICES ASSUME NEW d \in nodes', NEW x \in Above[d] PROVE x \in nodes'
    BY DEF Rooted
  <2>1. d \in nodes /\ p \notin Above[d] /\ x \in nodes
    BY <1>1, <1>3, <1>4 DEF Rooted
  <2>2. d \in Below /\ Above[x] \subseteq Above[d]
    BY <1>3, <2>1, AbovePaths
  <2> QED
    BY <1>1, <1>4, <2>1, <2>2
<1>8. TreeOK'
  <2>1. list' \in [Places -> Lists \cup {NoList}] /\ file' \in [Paths -> Nat] /\ ops' \in Nat
    BY <1>1, <1>2 DEF TreeOK
  <2> QED
    BY <1>1, <1>2, <1>3, <1>6, <1>7, <2>1 DEF TreeOK, Rooted
<1>9. FilesKnown'
  <2> SUFFICES ASSUME NEW q \in Paths, file'[q] # 0 PROVE q \in nodes' \cup stray'
    BY DEF FilesKnown
  <2>1. q # p /\ file[q] # 0 /\ q \in nodes \cup stray
    BY <1>1, <1>2 DEF TreeOK, FilesKnown
  <2> QED
    BY <1>1, <2>1
<1>10. \A m \in Remote : list'[m] = list[m]
  BY <1>1, <1>5, PlacesApart DEF Below, Places
<1> QED
  BY <1>1, <1>8, <1>9, <1>10 DEF RestartInv

LEMMA SetListRestartInv ==
  ASSUME RestartInv, NEW by, NEW p \in Places, NEW l \in Lists \cup {NoList}, SetList(by, p, l)
  PROVE  RestartInv'
<1>1. /\ list' = [list EXCEPT ![p] = l] /\ due' = (due \/ p \in Paths) /\ dueConns' = (dueConns \/ p \in Remote)
      /\ ops' = ops + 1 /\ UNCHANGED <<nodes, file, stray, listed, saved, meta, conns>>
  BY DEF SetList, SaveList, treeVars
<1>2. TreeOK /\ FilesKnown
  BY DEF RestartInv
<1>3. TreeOK'
  BY <1>1, <1>2 DEF TreeOK, Rooted
<1>4. FilesKnown'
  BY <1>1, <1>2 DEF FilesKnown
<1>5. \A m \in Places \ {p} : list'[m] = list[m]
  BY <1>1, <1>2 DEF TreeOK
<1>6. ASSUME ~due' PROVE InDataJson'
  <2>1. InDataJson /\ p \notin Paths
    BY <1>1, <1>6 DEF RestartInv
  <2>2. \A m \in nodes \ {Data} : m \in Places \ {p}
    BY <1>2, <2>1 DEF TreeOK, Below, Places
  <2> QED
    BY <1>1, <1>5, <2>1, <2>2 DEF InDataJson
<1>7. ASSUME ~dueConns' PROVE conns'.group = meta' /\ \A m \in Remote : conns'.list[m] = list'[m]
  <2>1. /\ conns.group = meta
        /\ p \notin Remote /\ \A m \in Remote : conns.list[m] = list[m] /\ m \in Places \ {p}
    BY <1>1, <1>7 DEF RestartInv, Places
  <2> QED
    BY <1>1, <1>5, <2>1
<1> QED
  BY <1>3, <1>4, <1>6, <1>7 DEF RestartInv

LEMMA SaveRestartInv ==
  ASSUME RestartInv, Save
  PROVE  RestartInv'
<1>1. /\ due' = FALSE /\ saved' = [p \in Below |-> Saved(p)]
      /\ UNCHANGED <<nodes, file, stray, list, listed, meta, conns, dueConns, ops>>
  BY DEF Save, treeVars, groupVars
<1>2. TreeOK /\ FilesKnown
  BY DEF RestartInv
<1>3. nodes \subseteq Below /\ list \in [Places -> Lists \cup {NoList}] /\ Below \subseteq Places
  BY <1>2 DEF TreeOK, Places
<1>4. \A p \in Below : /\ saved'[p] \in Lists \cup {NoList, Damaged, Absent}
                       /\ saved'[p] # Absent <=> p \in nodes
                       /\ p \in nodes \ listed => saved'[p] = list[p]
  BY <1>1, <1>3, NamesApart DEF Saved
<1>5. {p \in Below : saved'[p] # Absent} = nodes
  BY <1>3, <1>4
<1>6. TreeOK'
  <2>1. saved' \in [Below -> Lists \cup {NoList, Damaged, Absent}]
    BY <1>1, <1>4
  <2> QED
    BY <1>1, <1>2, <1>5, <2>1 DEF TreeOK, Rooted
<1>7. FilesKnown'
  BY <1>1, <1>2 DEF FilesKnown
<1>8. InDataJson'
  <2>1. \A p \in nodes \ (listed \cup {Data}) : list[p] = IF saved'[p] \in Lists THEN saved'[p] ELSE NoList
    BY <1>3, <1>4, NamesApart
  <2> QED
    BY <1>1, <1>3, <1>4, <2>1 DEF InDataJson
<1> QED
  BY <1>1, <1>6, <1>7, <1>8 DEF RestartInv

LEMMA RestartRestartInv ==
  ASSUME RestartInv, Restart
  PROVE  RestartInv'
<1>1. /\ nodes' = Loaded /\ list' = [p \in Places |-> LoadedList(p)]
      /\ listed' = {p \in Below : saved[p] \notin {Absent, NoList}}
      /\ due' = FALSE /\ dueConns' = FALSE /\ ops' = ops + 1 /\ stray' = {} /\ meta' = conns.group
      /\ UNCHANGED <<file, saved, conns>>
  BY DEF Restart
<1>2. TreeOK
  BY DEF RestartInv
<1> DEFINE inJson == {p \in Below : saved[p] # Absent}
           filed  == {q \in Paths : file[q] # 0}
<1>3. /\ Loaded = {Data} \cup inJson \cup UNION {Above[p] : p \in filed}
      /\ Rooted(inJson) /\ inJson \subseteq Below /\ filed \subseteq Below
  BY <1>2 DEF Loaded, TreeOK, Below
<1> HIDE DEF inJson, filed
<1>a. \A p \in Loaded : p \in inJson \/ p = Data \/ \E q \in filed : p \in Above[q]
  BY <1>3
<1>b. Data \in Below /\ Data \in Loaded /\ Above[Data] = {Data}
  BY <1>3, AboveIs DEF Below
<1>4. Loaded \subseteq Below
  BY <1>3, <1>a, <1>b, AbovePaths
<1>5. Rooted(Loaded)
  <2> SUFFICES ASSUME NEW p \in Loaded PROVE Above[p] \subseteq Loaded
    BY DEF Rooted
  <2>1. CASE p \in inJson
    BY <1>3, <2>1 DEF Rooted
  <2>2. CASE p = Data
    BY <1>b, <2>2
  <2>3. ASSUME NEW q \in filed, p \in Above[q] PROVE Above[p] \subseteq Loaded
    <3>1. Above[p] \subseteq Above[q]
      BY <1>3, <2>3, AbovePaths
    <3> QED
      BY <1>3, <3>1
  <2> QED
    BY <1>a, <2>1, <2>2, <2>3
<1>6. \A q \in filed : q \in Loaded
  BY <1>3, AbovePaths
<1>7. \A p \in Places : LoadedList(p) \in Lists \cup {NoList}
  <2>1. Root \in Places /\ list[Root] \in Lists \cup {NoList}
    BY <1>2 DEF TreeOK, Places
  <2> QED
    BY <1>2, <2>1 DEF LoadedList, TreeOK
<1>8. list' \in [Places -> Lists \cup {NoList}]
  BY <1>1, <1>7
<1>9. TreeOK'
  <2>1. ops' \in Nat
    BY <1>1, <1>2 DEF TreeOK
  <2> QED
    BY <1>1, <1>2, <1>4, <1>5, <1>8, <1>b, <2>1 DEF TreeOK, Rooted
<1>10. FilesKnown'
  BY <1>1, <1>6 DEF FilesKnown, filed
<1>11. Below \subseteq Places /\ Remote \subseteq Places /\ Root \notin Remote
       /\ \A p \in Below : p \notin Remote /\ p # Root
  BY PlacesApart DEF Below, Places
<1>c. \A p \in Places : list'[p] = LoadedList(p)
  BY <1>1
<1>12. /\ \A p \in Below : list'[p] = IF saved[p] \in Lists THEN saved[p] ELSE NoList
       /\ \A p \in Remote : list'[p] = conns.list[p]
  <2>1. ASSUME NEW p \in Below PROVE LoadedList(p) = IF saved[p] \in Lists THEN saved[p] ELSE NoList
    BY <1>11 DEF LoadedList
  <2>2. ASSUME NEW p \in Remote PROVE LoadedList(p) = conns.list[p]
    BY <1>11 DEF LoadedList
  <2> QED
    BY <1>c, <1>11, <2>1, <2>2
<1>13. InDataJson'
  <2>1. \A p \in Below : saved[p] # Absent => p \in nodes'
    BY <1>1, <1>3 DEF inJson
  <2>2. \A p \in nodes' \ {Data} : saved[p] # Absent \/ \E q \in Paths : file[q] # 0 /\ p \in Above[q]
    <3> SUFFICES ASSUME NEW p \in Loaded \ {Data}
                 PROVE  saved[p] # Absent \/ \E q \in Paths : file[q] # 0 /\ p \in Above[q]
      BY <1>1
    <3> QED
      BY <1>a DEF inJson, filed
  <2> QED
    BY <1>1, <1>4, <1>12, <2>1, <2>2 DEF InDataJson
<1> QED
  BY <1>1, <1>9, <1>10, <1>12, <1>13 DEF RestartInv

\* What changes nothing of this but conns.json
Aside ==
  /\ UNCHANGED <<nodes, file, stray, list, listed, saved, due>> /\ ops' \in {ops, ops + 1}
  /\ \/ conns' = conns /\ (~dueConns' => ~dueConns /\ meta' = meta)
     \/ dueConns' = FALSE /\ meta' = meta /\ conns' = [list |-> [p \in Remote |-> list[p]], group |-> meta]

LEMMA AsideRestartInv ==
  ASSUME RestartInv, Aside
  PROVE  RestartInv'
<1>1. TreeOK /\ FilesKnown /\ (~due => InDataJson)
  BY DEF RestartInv
<1>2. UNCHANGED <<nodes, file, stray, list, listed, saved, due>>
  BY DEF Aside
<1>3. FilesKnown' /\ (~due' => InDataJson')
  BY <1>1, <1>2 DEF FilesKnown, InDataJson
<1>4. \A p \in Remote : list[p] \in Lists \cup {NoList}
  BY <1>1 DEF TreeOK, Places
<1>5. conns'.list \in [Remote -> Lists \cup {NoList}]
  BY <1>1, <1>4 DEF TreeOK, Aside
<1>6. ASSUME ~dueConns' PROVE conns'.group = meta' /\ \A p \in Remote : conns'.list[p] = list'[p]
  <2>1. CASE conns' = conns /\ ~dueConns /\ meta' = meta
    BY <1>2, <2>1 DEF RestartInv
  <2>2. CASE meta' = meta /\ conns' = [list |-> [p \in Remote |-> list[p]], group |-> meta]
    BY <1>2, <2>2
  <2> QED
    BY <1>6, <2>1, <2>2 DEF Aside
<1>7. ops' \in Nat
  BY <1>1 DEF TreeOK, Aside
<1>8. TreeOK'
  BY <1>1, <1>2, <1>5, <1>7 DEF TreeOK, Rooted
<1> QED
  BY <1>3, <1>6, <1>8 DEF RestartInv

LEMMA StepRestartInv == RestartInv /\ [Next]_vars => RestartInv'
<1> SUFFICES ASSUME RestartInv, [Next]_vars PROVE RestartInv'
  OBVIOUS
<1>1. Aside => RestartInv'
  BY AsideRestartInv
<1>2. ASSUME NEW by, Request(by) PROVE RestartInv'
  <2>1. ASSUME NEW p \in Paths, Set(by, p) PROVE RestartInv'
    BY <2>1, WrittenRestartInv DEF Set, FileWritten, groupVars
  <2>2. ASSUME NEW p \in Paths, Publish(by, p) PROVE RestartInv'
    BY <2>2, WrittenRestartInv DEF Publish
  <2>3. ASSUME NEW p \in Paths, Subscribe(by, p) PROVE RestartInv'
    BY <1>1, <2>3 DEF Aside, Subscribe, treeVars, listVars, groupVars
  <2>4. ASSUME NEW g, UpdateGroup(by, g) PROVE RestartInv'
    BY <1>1, <2>4 DEF Aside, UpdateGroup, treeVars, listVars
  <2> QED
    BY <1>2, <2>1, <2>2, <2>3, <2>4, AddRestartInv, DeleteRestartInv, SetListRestartInv DEF Request
<1>3. ASSUME NEW p, Unsubscribe(p) PROVE RestartInv'
  BY <1>1, <1>3 DEF Aside, Unsubscribe, treeVars, listVars, groupVars
<1>4. ASSUME NEW g, TokenGroup(g) PROVE RestartInv'
  BY <1>1, <1>4 DEF Aside, TokenGroup, treeVars, listVars
<1>5. CASE Connect \/ Disconnect \/ \E o \in orphans : OrphanEnds(o)
  BY <1>1, <1>5 DEF Aside, Connect, Disconnect, OrphanEnds, treeVars, listVars
<1>6. CASE SaveConns
  BY <1>1, <1>6 DEF Aside, SaveConns, treeVars, listVars
<1>7. CASE UNCHANGED vars
  BY <1>1, <1>7 DEF Aside, vars, treeVars, listVars, groupVars
<1> QED
  BY <1>2, <1>3, <1>4, <1>5, <1>6, <1>7, SaveRestartInv, RestartRestartInv DEF Next

LEMMA RestartInvIs == RestartInv => RestartRestores
<1> SUFFICES ASSUME RestartInv PROVE RestartRestores
  OBVIOUS
<1>1. TreeOK /\ FilesKnown
  BY DEF RestartInv
<1>2. nodes \subseteq Below /\ Data \in nodes /\ Rooted(nodes)
  BY <1>1 DEF TreeOK
<1>3. \A p \in Below : p \notin Remote /\ p # Root
  BY PlacesApart DEF Below
<1> DEFINE filed == {q \in Paths : file[q] # 0}
           called == UNION {Above[q] : q \in filed}
<1>a. Loaded = {Data} \cup {p \in Below : saved[p] # Absent} \cup called
  BY DEF Loaded
<1>b. \A p : p \in called <=> \E q \in Paths : file[q] # 0 /\ p \in Above[q]
  OBVIOUS
<1> HIDE DEF filed, called
<1>4. ASSUME ~due PROVE nodes \subseteq Loaded
  <2>1. InDataJson
    BY <1>4 DEF RestartInv
  <2> SUFFICES ASSUME NEW p \in nodes PROVE p \in Loaded
    OBVIOUS
  <2>2. p \in Below /\ (p = Data \/ saved[p] # Absent \/ p \in called)
    BY <1>2, <1>b, <2>1 DEF InDataJson
  <2> QED
    BY <1>a, <2>2
<1>5. ASSUME ~due, NEW p \in Loaded \ nodes PROVE p \in UNION {Above[s] : s \in stray}
  <2>1. InDataJson
    BY <1>5 DEF RestartInv
  <2>2. PICK q \in Paths : file[q] # 0 /\ p \in Above[q]
    <3>1. p \in called
      BY <1>2, <1>5, <1>a, <2>1 DEF InDataJson
    <3> QED
      BY <1>b, <3>1
  <2>3. q \notin nodes
    BY <1>2, <1>5, <2>2 DEF Rooted
  <2> QED
    BY <1>1, <2>2, <2>3 DEF FilesKnown
<1>6. ASSUME ~due, NEW p \in nodes \ (listed \cup {Data}) PROVE LoadedList(p) = list[p]
  <2>1. InDataJson
    BY <1>6 DEF RestartInv
  <2>2. list[p] = IF saved[p] \in Lists THEN saved[p] ELSE NoList
    BY <2>1 DEF InDataJson
  <2> QED
    BY <1>2, <1>3, <2>2 DEF LoadedList
<1>7. ASSUME ~dueConns, NEW p \in Remote PROVE LoadedList(p) = list[p]
  BY <1>7 DEF RestartInv, LoadedList
<1>8. ~dueConns => conns.group = meta
  BY DEF RestartInv
<1> QED
  BY <1>4, <1>5, <1>6, <1>7, <1>8 DEF RestartRestores

\* Whenever the broker ends after data.json and conns.json were saved, what it
\* loads are the nodes and the lists it had, and the group that the dslink's node
\* was given last (data.c:76, 320, node_serialization.c:153).
THEOREM RestartRestoresAlways == Spec => []RestartRestores
BY InitRestartInv, StepRestartInv, RestartInvIs, PTL DEF Spec

-----------------------------------------------------------------------------
\* SubsAttached with the types it needs
SubsInv ==
  /\ sub \in [Paths -> {"none", "pending", "joined"}] /\ DOMAIN got = Paths
  /\ SubsAttached

\* Who waits for a node that a write makes is found at the parent of another
\* node it makes, or the node is the one that is written.
LEMMA MissingParents ==
  ASSUME TreeOK, NEW p \in Paths, NEW x \in Missing(p), x # p
  PROVE  x \in {Parent[m] : m \in Missing(p)}
<1>1. p \in Below /\ x \in Above[p] \ {p} /\ x \notin nodes
  BY DEF Missing, Below
<1>2. PICK m \in Above[p] \cap Paths : Parent[m] = x
  BY <1>1, AbovePaths
<1>3. x \in Above[m]
  <2>1. x \in Below
    BY <1>1, AbovePaths
  <2> QED
    BY <1>2, <2>1, AboveIs, AbovePaths
<1>4. m \notin nodes
  BY <1>1, <1>3 DEF TreeOK, Rooted
<1> QED
  BY <1>2, <1>4 DEF Missing

LEMMA WrittenSubs ==
  ASSUME TreeOK, SubsInv, NEW p \in Paths, NEW v, Written(p, v)
  PROVE  SubsInv'
<1> DEFINE parents  == {Parent[m] : m \in Missing(p)}
           attached == Attached(parents)
<1>1. /\ nodes' = nodes \cup Missing(p) /\ value' = [value EXCEPT ![p] = v]
      /\ Joined(attached)
      /\ skipped' = (skipped \ attached) \cup {m \in {p} \cap Missing(p) : sub[m] = "pending"}
  BY DEF Written
<1>2. \A m \in attached : m \in Paths /\ sub[m] = "pending" /\ m \in nodes'
  <2> SUFFICES ASSUME NEW m \in Missing(p), Parent[m] \in Paths PROVE Parent[m] \in nodes'
    BY DEF Attached
  <2>1. m \in Above[p] /\ p \in Below
    BY DEF Missing, Below
  <2>2. m \in Below /\ Above[m] \subseteq Above[p]
    BY <2>1, AbovePaths
  <2>3. m # Data
    BY DEF Missing, TreeOK
  <2>4. m \in Paths /\ Parent[m] \in Below
    BY <2>2, <2>3, PlacesApart DEF Below
  <2>5. Parent[m] \in Above[m]
    BY <2>4, AboveIs, AbovePaths
  <2> QED
    BY <1>1, <2>2, <2>5 DEF Missing
<1>3. \A m \in Paths : m \in Missing(p) /\ sub[m] = "pending" => m \in attached \/ m = p
  BY MissingParents DEF Attached
<1> HIDE DEF attached, parents
<1>4. /\ sub' = [m \in Paths |-> IF m \in attached THEN "joined" ELSE sub[m]]
      /\ got' = [m \in Paths |-> IF m \in attached /\ value'[m] # 0 THEN value'[m]
                                 ELSE IF sub[m] = "joined" /\ value'[m] # value[m] THEN value'[m]
                                 ELSE got[m]]
  BY <1>1 DEF Joined
<1>5. sub' \in [Paths -> {"none", "pending", "joined"}] /\ DOMAIN got' = Paths
  BY <1>4 DEF SubsInv
<1>6. ASSUME NEW m \in Paths, sub'[m] = "joined"
      PROVE  m \in nodes' /\ (value'[m] # 0 => got'[m] = value'[m])
  <2>1. CASE m \in attached
    BY <1>2, <1>4, <2>1
  <2>2. CASE m \notin attached
    <3>1. sub[m] = "joined"
      BY <1>4, <1>6, <2>2
    <3>2. m \in nodes /\ (value[m] # 0 => got[m] = value[m])
      BY <3>1 DEF SubsInv, SubsAttached
    <3>3. got'[m] = IF value'[m] # value[m] THEN value'[m] ELSE got[m]
      BY <1>4, <2>2, <3>1
    <3> QED
      BY <1>1, <3>2, <3>3
  <2> QED
    BY <2>1, <2>2
<1>7. ASSUME NEW m \in Paths, sub'[m] = "pending" PROVE m \notin nodes' \/ m \in skipped'
  <2>1. sub[m] = "pending" /\ m \notin attached
    BY <1>4, <1>7
  <2>2. m \notin nodes \/ m \in skipped
    BY <2>1 DEF SubsInv, SubsAttached
  <2>3. CASE m \in skipped
    BY <1>1, <2>1, <2>3
  <2>4. CASE m \in Missing(p)
    BY <1>1, <1>3, <2>1, <2>4
  <2> QED
    BY <1>1, <2>2, <2>3, <2>4
<1> QED
  BY <1>5, <1>6, <1>7 DEF SubsInv, SubsAttached

LEMMA AddSubs ==
  ASSUME SubsInv, NEW by, NEW p \in Paths, AddNode(by, p)
  PROVE  SubsInv'
<1> DEFINE attached == Attached({p})
<1>1. /\ nodes' = nodes \cup {p} /\ value' = value /\ skipped' = skipped
      /\ sub' = [m \in Paths |-> IF m \in attached THEN "joined" ELSE sub[m]]
      /\ got' = [m \in Paths |-> IF m \in attached /\ value'[m] # 0 THEN value'[m]
                                 ELSE IF sub[m] = "joined" /\ value'[m] # value[m] THEN value'[m]
                                 ELSE got[m]]
  BY DEF AddNode, Joined
<1>2. \A m \in Paths : m \in attached <=> m = p /\ sub[m] = "pending"
  BY DEF Attached
<1> HIDE DEF attached
<1>3. sub' \in [Paths -> {"none", "pending", "joined"}] /\ DOMAIN got' = Paths
  BY <1>1 DEF SubsInv
<1>4. ASSUME NEW m \in Paths, sub'[m] = "joined"
      PROVE  m \in nodes' /\ (value'[m] # 0 => got'[m] = value'[m])
  BY <1>1, <1>2, <1>4 DEF SubsInv, SubsAttached
<1>5. ASSUME NEW m \in Paths, sub'[m] = "pending" PROVE m \notin nodes' \/ m \in skipped'
  BY <1>1, <1>2, <1>5 DEF SubsInv, SubsAttached
<1> QED
  BY <1>3, <1>4, <1>5 DEF SubsInv, SubsAttached

LEMMA DeleteSubs ==
  ASSUME SubsInv, NEW by, NEW p \in Paths, DeleteNode(by, p)
  PROVE  SubsInv'
<1> DEFINE gone == {p} \cup {d \in nodes : p \in Above[d]}
<1>1. /\ nodes' = nodes \ gone /\ got' = got /\ skipped' = skipped \ gone
      /\ value' = [m \in Paths |-> IF m \in gone THEN 0 ELSE value[m]]
      /\ sub' = [m \in Paths |-> IF m \in gone /\ sub[m] = "joined" THEN "pending" ELSE sub[m]]
  BY DEF DeleteNode
<1> HIDE DEF gone
<1>2. sub' \in [Paths -> {"none", "pending", "joined"}] /\ DOMAIN got' = Paths
  BY <1>1 DEF SubsInv
<1>3. ASSUME NEW m \in Paths, sub'[m] = "joined"
      PROVE  m \in nodes' /\ (value'[m] # 0 => got'[m] = value'[m])
  <2>1. m \notin gone /\ sub[m] = "joined"
    BY <1>1, <1>3
  <2> QED
    BY <1>1, <2>1 DEF SubsInv, SubsAttached
<1>4. ASSUME NEW m \in Paths, sub'[m] = "pending" PROVE m \notin nodes' \/ m \in skipped'
  <2>1. CASE m \in gone
    BY <1>1, <2>1
  <2>2. CASE m \notin gone
    <3>1. sub[m] = "pending"
      BY <1>1, <1>4, <2>2
    <3> QED
      BY <1>1, <2>2, <3>1 DEF SubsInv, SubsAttached
  <2> QED
    BY <2>1, <2>2
<1> QED
  BY <1>2, <1>3, <1>4 DEF SubsInv, SubsAttached

LEMMA StepSubsInv == TreeOK /\ SubsInv /\ [Next]_vars => SubsInv'
<1> SUFFICES ASSUME TreeOK, SubsInv, [Next]_vars PROVE SubsInv'
  OBVIOUS
<1>1. UNCHANGED <<nodes, value, sub, got, skipped>> => SubsInv'
  BY DEF SubsInv, SubsAttached
<1>2. ASSUME NEW by, Request(by) PROVE SubsInv'
  <2>1. ASSUME NEW p \in Paths, Set(by, p) \/ Publish(by, p) PROVE SubsInv'
    BY <2>1, WrittenSubs DEF Set, Publish
  <2>2. ASSUME NEW p \in Paths, Subscribe(by, p) PROVE SubsInv'
    <3>1. /\ sub' = [sub EXCEPT ![p] = IF p \in nodes THEN "joined" ELSE "pending"]
          /\ got' = [got EXCEPT ![p] = IF p \in nodes THEN value[p] ELSE 0]
          /\ UNCHANGED <<nodes, value, skipped>>
      BY <2>2 DEF Subscribe, treeVars
    <3>2. sub' \in [Paths -> {"none", "pending", "joined"}] /\ DOMAIN got' = Paths
      BY <3>1 DEF SubsInv
    <3>3. ASSUME NEW m \in Paths \ {p} PROVE sub'[m] = sub[m] /\ (sub[m] = "joined" => got'[m] = got[m])
      BY <3>1 DEF SubsInv
    <3>4. sub'[p] = (IF p \in nodes THEN "joined" ELSE "pending") /\ (p \in nodes => got'[p] = value[p])
      BY <3>1 DEF SubsInv
    <3> QED
      BY <3>1, <3>2, <3>3, <3>4 DEF SubsInv, SubsAttached
  <2>3. ASSUME NEW p, NEW l, SetList(by, p, l) PROVE SubsInv'
    BY <1>1, <2>3 DEF SetList, treeVars, subVars
  <2>4. ASSUME NEW g, UpdateGroup(by, g) PROVE SubsInv'
    BY <1>1, <2>4 DEF UpdateGroup, treeVars, subVars
  <2> QED
    BY <1>2, <2>1, <2>2, <2>3, <2>4, AddSubs, DeleteSubs DEF Request
<1>3. ASSUME NEW p \in Paths, Unsubscribe(p) PROVE SubsInv'
  <2>1. /\ sub' = [sub EXCEPT ![p] = "none"] /\ got' = [got EXCEPT ![p] = 0]
        /\ skipped' = skipped \ {p} /\ UNCHANGED <<nodes, value>>
    BY <1>3 DEF Unsubscribe, treeVars
  <2>2. sub' \in [Paths -> {"none", "pending", "joined"}] /\ DOMAIN got' = Paths
    BY <2>1 DEF SubsInv
  <2>3. sub'[p] = "none" /\ \A m \in Paths \ {p} : sub'[m] = sub[m] /\ got'[m] = got[m]
    BY <2>1 DEF SubsInv
  <2> QED
    BY <2>1, <2>2, <2>3 DEF SubsInv, SubsAttached
<1>4. ASSUME NEW g, TokenGroup(g) PROVE SubsInv'
  BY <1>1, <1>4 DEF TokenGroup, treeVars, subVars
<1>5. CASE Connect \/ Disconnect \/ Save \/ SaveConns \/ \E o \in orphans : OrphanEnds(o)
  BY <1>1, <1>5 DEF Connect, Disconnect, OrphanEnds, Save, SaveConns, treeVars, subVars
<1>6. CASE Restart
  BY <1>6 DEF Restart, SubsInv, SubsAttached
<1>7. CASE UNCHANGED vars
  BY <1>1, <1>7 DEF vars, treeVars, subVars
<1> QED
  BY <1>2, <1>3, <1>4, <1>5, <1>6, <1>7 DEF Next

\* A subscription is attached to its node whatever makes the node, but for the
\* node that a set or a publish makes (data.c:85, 226).
THEOREM SubsAttachedAlways == Spec => []SubsAttached
<1>1. Init => SubsInv
  BY DEF Init, SubsInv, SubsAttached
<1>2. RestartInv => TreeOK
  BY DEF RestartInv
<1>3. SubsInv => SubsAttached
  BY DEF SubsInv
<1> QED
  BY <1>1, <1>2, <1>3, InitRestartInv, StepRestartInv, StepSubsInv, PTL DEF Spec

-----------------------------------------------------------------------------
\* A set of numbers has a least one.
LEMMA Least ==
  ASSUME NEW S \in SUBSET Nat, S # {}
  PROVE  \E n \in S : \A m \in S : n <= m
<1> DEFINE R == OpToRel(<, Nat)
<1>1. IsWellFoundedOn(R, Nat)
  BY NatLessThanWellFounded
<1>2. \A x \in Nat, y \in Nat : <<y, x>> \in R <=> y < x
  BY DEF OpToRel
<1> HIDE DEF R
<1>3. PICK x \in S : \A y \in S : ~(<<y, x>> \in R)
  BY <1>1, WFMin
<1>4. \A y \in S : ~(y < x)
  BY <1>2, <1>3
<1> QED
  BY <1>4

\* The levels that requesters can have
Grades == NONE..CONFIG

LEMMA PairLevelIs ==
  ASSUME NEW l \in Lists, NEW g
  PROVE  PairLevel(l, g) \in Grades
<1> DEFINE match == {i \in DOMAIN l : l[i][1] \in {g, Default}}
           least == CHOOSE i \in match : \A j \in match : i <= j
<1>1. l \in Seq((Groups \cup {OwnId, Admin, Default}) \X Grades)
  BY ListsOfPairs DEF Grades
<1>2. match \in SUBSET Nat /\ \A i \in match : l[i][2] \in Grades
  BY <1>1
<1>3. PairLevel(l, g) = IF match = {} THEN NONE ELSE l[least][2]
  BY DEF PairLevel
<1>4. match # {} => least \in match
  <2> HIDE DEF match
  <2> QED
    BY <1>2, Least
<1> HIDE DEF match, least
<1>5. NONE \in Grades
  BY DEF Grades, NONE, CONFIG
<1>6. CASE match = {}
  BY <1>3, <1>5, <1>6
<1>7. CASE match # {}
  BY <1>2, <1>3, <1>4, <1>7
<1> QED
  BY <1>6, <1>7

\* A list raises levels, for each group.
LEMMA RaisedIs ==
  ASSUME NEW p, list[p] \in Lists \cup {NoList}, NEW groups, NEW levels \in [groups -> Grades]
  PROVE  /\ Raised(levels, p) \in [groups -> Grades]
         /\ \A h \in groups : levels[h] <= Raised(levels, p)[h]
<1>1. \A h \in groups : levels[h] \in Grades /\ levels[h] <= levels[h]
  BY DEF Grades, NONE, CONFIG
<1>2. CASE Raised(levels, p) = levels
  BY <1>1, <1>2
<1>3. CASE Raised(levels, p) # levels
  <2>1. /\ Raised(levels, p) = [h \in groups |-> Higher(levels[h], PairLevel(list[p], h))]
        /\ list[p] \in Lists
    BY <1>3 DEF Raised
  <2>2. \A h \in groups : PairLevel(list[p], h) \in Grades
    BY <2>1, PairLevelIs
  <2>3. \A h \in groups : /\ Higher(levels[h], PairLevel(list[p], h)) \in Grades
                          /\ levels[h] <= Higher(levels[h], PairLevel(list[p], h))
    BY <1>1, <2>2 DEF Higher, Grades, NONE, CONFIG
  <2> QED
    BY <2>1, <2>3
<1> QED
  BY <1>2, <1>3

\* The levels of a path are those of the path above it, raised.
LEMMA LevelsIs ==
  ASSUME TreeOK, NEW groups
  PROVE  /\ Levels(groups) \in [Places -> [groups -> Grades]]
         /\ \A p \in Places \ {Root} : Levels(groups)[p] = Raised(Levels(groups)[Up(p)], p)
<1> DEFINE T  == Places
           up == [p \in T \ {Root} |-> Up(p)]
           X  == [groups -> Grades]
           none == [h \in groups |-> NONE]
           a  == Raised(none, Root)
           G  == [e \in X \X T |-> Raised(e[1], e[2])]
<1>1. \A p \in Places : list[p] \in Lists \cup {NoList}
  BY DEF TreeOK
<1>2. Root \in Places
  BY DEF Places
<1>3. none \in X
  BY DEF Grades, NONE, CONFIG
<1>4. \A x \in X, p \in T : Raised(x, p) \in X
  BY <1>1, RaisedIs
<1>5. a \in X
  BY <1>2, <1>3, <1>4
<1>6. \A x \in X, p \in T : G[<<x, p>>] = Raised(x, p)
  OBVIOUS
<1>7. G \in [X \X T -> X]
  BY <1>4
<1>8. IsTree(T, Root, up)
  BY PlacesTree
<1>9. \A p \in T \ {Root} : up[p] = Up(p) /\ Up(p) \in T
  BY <1>8 DEF IsTree
<1>b. Levels(groups) = CHOOSE at : at = [p \in Places |-> Raised(IF p = Root THEN none ELSE at[Up(p)], p)]
  BY DEF Levels
<1> HIDE DEF G, up, X, T, a, none
<1>10. PICK f \in [T -> X] : f[Root] = a /\ \A p \in T \ {Root} : f[p] = G[<<f[up[p]], p>>]
  BY ONLY <1>5, <1>7, <1>8, TreeRecursion
<1>11. \A p \in T \ {Root} : f[p] = Raised(f[Up(p)], p)
  BY <1>6, <1>9, <1>10
<1>12. \A p \in T : f[p] = Raised(IF p = Root THEN none ELSE f[Up(p)], p)
  BY <1>10, <1>11 DEF a
<1>13. f = [p \in Places |-> Raised(IF p = Root THEN none ELSE f[Up(p)], p)]
  BY <1>10, <1>12 DEF T
<1> DEFINE F == Levels(groups)
<1>14. F = [p \in Places |-> Raised(IF p = Root THEN none ELSE F[Up(p)], p)]
  BY <1>13, <1>b
<1> HIDE DEF F
<1>15. \A p \in T : F[p] = Raised(IF p = Root THEN none ELSE F[Up(p)], p)
  BY <1>14 DEF T
<1>16. \A p \in T \ {Root} : F[p] = Raised(F[Up(p)], p)
  BY <1>15
<1>17. \A p \in T : F[p] \in X
  <2> DEFINE S == {p \in T : F[p] \in X}
  <2>1. Root \in S
    BY <1>2, <1>3, <1>4, <1>15 DEF T
  <2>2. \A p \in T \ {Root} : up[p] \in S => p \in S
    BY <1>4, <1>9, <1>16
  <2> HIDE DEF S
  <2>3. T \subseteq S
    BY <1>8, <2>1, <2>2, TreeInduction
  <2> QED
    BY <2>3 DEF S
<1>18. F \in [T -> X]
  BY <1>14, <1>17 DEF T
<1> QED
  BY <1>16, <1>18 DEF F, T, X

\* Among the levels of several groups there is a highest one.
LEMMA Highest ==
  ASSUME NEW groups, groups # {}, NEW levels \in [groups -> Grades]
  PROVE  \E g \in groups : \A h \in groups : levels[h] <= levels[g]
<1> DEFINE S == {CONFIG - levels[g] : g \in groups}
<1>1. \A g \in groups : levels[g] \in 0..4
  BY DEF Grades, NONE, CONFIG
<1>2. S \in SUBSET Nat /\ S # {}
  BY <1>1 DEF CONFIG
<1>3. \A g \in groups : CONFIG - levels[g] \in S
  OBVIOUS
<1>4. \A n \in S : \E g \in groups : n = CONFIG - levels[g]
  OBVIOUS
<1> HIDE DEF S
<1>5. PICK n \in S : \A m \in S : n <= m
  BY <1>2, Least
<1>6. PICK g \in groups : n = CONFIG - levels[g]
  BY <1>4, <1>5
<1>7. ASSUME NEW h \in groups PROVE levels[h] <= levels[g]
  <2>1. CONFIG - levels[g] <= CONFIG - levels[h]
    BY <1>3, <1>5, <1>6
  <2> QED
    BY <1>1, <2>1 DEF CONFIG
<1> QED
  BY <1>7

LEMMA GrantsGoDown ==
  ASSUME TreeOK, NEW groups, groups # {}, NEW p \in Paths \cup Remote
  PROVE  Level(groups, Parent[p]) <= Level(groups, p)
<1> DEFINE above == Levels(groups)[Parent[p]]
           here  == Levels(groups)[p]
           Top(levels) == CHOOSE g \in groups : \A h \in groups : levels[h] <= levels[g]
<1>1. p \in Places \ {Root} /\ Parent[p] \in Places /\ Up(p) = Parent[p]
  BY PlacesApart DEF Places, Below, Up
<1>2. above \in [groups -> Grades] /\ here \in [groups -> Grades] /\ here = Raised(above, p)
  BY <1>1, LevelsIs
<1>3. list[p] \in Lists \cup {NoList}
  BY <1>1 DEF TreeOK
<1>4. /\ Level(groups, Parent[p]) = IF list[Root] = NoList THEN CONFIG ELSE above[Top(above)]
      /\ Level(groups, p) = IF list[Root] = NoList THEN CONFIG ELSE here[Top(here)]
  BY DEF Level
<1> HIDE DEF above, here
<1>5. \A h \in groups : above[h] <= here[h] /\ above[h] \in Grades /\ here[h] \in Grades
  BY <1>2, <1>3, RaisedIs
<1>6. Top(above) \in groups
  BY <1>2, Highest
<1>7. Top(here) \in groups /\ \A h \in groups : here[h] <= here[Top(here)]
  BY <1>2, Highest
<1> HIDE DEF Top
<1>8. /\ above[Top(above)] <= here[Top(above)] /\ here[Top(above)] <= here[Top(here)]
      /\ above[Top(above)] \in 0..4 /\ here[Top(above)] \in 0..4 /\ here[Top(here)] \in 0..4
  BY <1>5, <1>6, <1>7 DEF Grades, NONE, CONFIG
<1>9. above[Top(above)] <= here[Top(here)]
  BY <1>8
<1> QED
  BY <1>4, <1>9 DEF CONFIG

\* No list takes away what one further up grants, for any groups that a
\* requester can have (permission.c:95).
THEOREM GrantsReachDownAlways == Spec => []GrantsReachDown
<1>1. TreeOK /\ SessionInv => GrantsReachDown
  <2> SUFFICES ASSUME TreeOK, SessionInv, NEW groups \in Requesters, NEW p \in Paths \cup Remote
               PROVE  Level(groups, Parent[p]) <= Level(groups, p)
    BY DEF GrantsReachDown
  <2>1. groups # {}
    BY DEF Requesters, SessionInv, SessionGroups, OwnGroup, GroupsOf
  <2> QED
    BY <2>1, GrantsGoDown
<1>2. RestartInv => TreeOK
  BY DEF RestartInv
<1> QED
  BY <1>1, <1>2, InitRestartInv, StepRestartInv, InitSessionInv, StepSessionInv, PTL DEF Spec
=============================================================================
