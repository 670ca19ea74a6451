------------------------- MODULE JsonStorage_proofs -------------------------
(***************************************************************************)
(* Proofs about JsonStorage, for all keys, sizes and bounds.               *)
(***************************************************************************)
EXTENDS JsonStorage, FiniteSetTheorems, SequenceTheorems, TLAPS

\* An enumeration of some keys is a sequence of them, no longer than the keys.
LEMMA OrdersAreSequences ==
  ASSUME NEW K \in SUBSET Keys, NEW s \in Orders(K)
  PROVE  /\ s \in Seq(K) /\ Len(s) \in 0..WaitMax /\ DOMAIN s = 1..Len(s)
         /\ \A i \in 1..Len(s) : s[i] \in K
<1>1. IsFiniteSet(K) /\ Cardinality(K) \in Nat /\ Cardinality(K) <= Cardinality(Keys)
  BY KeysAreFew, FS_Subset, FS_CardinalityType
<1>2. Cardinality(Keys) \in Nat
  BY KeysAreFew, FS_CardinalityType
<1>3. s \in [1..Cardinality(K) -> K]
  BY DEF Orders
<1>4. Len(s) = Cardinality(K) /\ s \in Seq(K)
  BY <1>1, <1>3
<1> QED
  BY <1>1, <1>2, <1>3, <1>4, KeysAreFew, StorageBounds

\* Unlinking leaves the operations as they are, but for the mark.
LEMMA DetachedType ==
  ASSUME NEW s \in Seq(Chain), NEW ops, NEW K
  PROVE  /\ Detached(s, ops, K) \in Seq(Chain)
         /\ Len(Detached(s, ops, K)) = Len(s)
         /\ \A i \in 1..Len(s) :
              /\ Detached(s, ops, K)[i].op = s[i].op
              /\ Detached(s, ops, K)[i].key = s[i].key
              /\ ~Detached(s, ops, K)[i].gone =>
                   ~s[i].gone /\ (s[i].key \notin K \/ s[i].op \notin ops)
<1> DEFINE d == Detached(s, ops, K)
<1>1. \A i \in 1..Len(s) : s[i] \in Chain
  OBVIOUS
<1>2. \A i \in 1..Len(s) :
        /\ [s[i] EXCEPT !.gone = TRUE] \in Chain
        /\ [s[i] EXCEPT !.gone = TRUE].op = s[i].op
        /\ [s[i] EXCEPT !.gone = TRUE].key = s[i].key
        /\ [s[i] EXCEPT !.gone = TRUE].gone = TRUE
  BY <1>1 DEF Chain
<1>3. DOMAIN s = 1..Len(s) /\ Len(s) \in Nat
  OBVIOUS
<1>4. d = [i \in 1..Len(s) |-> IF s[i].key \in K /\ s[i].op \in ops
                                 THEN [s[i] EXCEPT !.gone = TRUE] ELSE s[i]]
  BY <1>3 DEF Detached
<1>5. d \in [1..Len(s) -> Chain]
  BY <1>1, <1>2, <1>4
<1>6. d \in Seq(Chain) /\ Len(d) = Len(s)
  BY <1>3, <1>5
<1>7. \A i \in 1..Len(s) :
        /\ d[i].op = s[i].op /\ d[i].key = s[i].key
        /\ ~d[i].gone => ~s[i].gone /\ (s[i].key \notin K \/ s[i].op \notin ops)
  BY <1>2, <1>4
<1> QED
  BY <1>6, <1>7

\* The open files survive an unlink of others.
LEMMA DetachedFiles ==
  ASSUME NEW s \in Seq(Chain), NEW ops, NEW K \in SUBSET Keys, FilesOpen(s, ops, file)
  PROVE  FilesOpen(Detached(s, ops, K), ops, Unlinked(K))
<1> SUFFICES ASSUME NEW i \in DOMAIN Detached(s, ops, K),
                    Detached(s, ops, K)[i].op \in ops, ~Detached(s, ops, K)[i].gone
             PROVE  Unlinked(K)[Detached(s, ops, K)[i].key] # None
  BY DEF FilesOpen
<1>1. i \in 1..Len(s)
  BY DetachedType
<1>2. s[i].op \in ops /\ ~s[i].gone /\ s[i].key \notin K /\ Detached(s, ops, K)[i].key = s[i].key
  BY <1>1, DetachedType
<1>3. s[i].key \in Keys
  <2>1. s[i] \in Chain
    BY <1>1
  <2> QED
    BY <2>1 DEF Chain
<1>4. file[s[i].key] # None
  BY <1>1, <1>2 DEF FilesOpen
<1> QED
  BY <1>2, <1>3, <1>4 DEF Unlinked

LEMMA UnlinkedType ==
  ASSUME NEW K \in SUBSET Keys, file \in [Keys -> File \cup {None}]
  PROVE  Unlinked(K) \in [Keys -> File \cup {None}]
BY DEF Unlinked

LEMMA NewChainType ==
  ASSUME NEW k \in Keys, NEW v \in Value
  PROVE  NewChain(k, v) \in Chain /\ NewChain(k, v).op = "mkdir"
BY DEF NewChain, Chain

\* A chain that starts has no file open.
LEMMA AppendChain ==
  ASSUME NEW s \in Seq(Chain), NEW c \in Chain, NEW ops, NEW f, FilesOpen(s, ops, f),
         c.op \in ops /\ ~c.gone => f[c.key] # None
  PROVE  Append(s, c) \in Seq(Chain) /\ FilesOpen(Append(s, c), ops, f)
BY DEF FilesOpen

LEMMA TailChain ==
  ASSUME NEW s \in Seq(Chain), s # <<>>, NEW ops, NEW f, FilesOpen(s, ops, f)
  PROVE  /\ Tail(s) \in Seq(Chain) /\ FilesOpen(Tail(s), ops, f)
         /\ Head(s) \in Chain
         /\ Head(s).op \in ops /\ ~Head(s).gone => f[Head(s).key] # None
BY DEF FilesOpen

\* A record that changes is saved: what both parts of the type invariant need.
LEMMA SaveType ==
  ASSUME TypeOK, NEW k \in Keys, NEW v \in Value, Save(k, v)
  PROVE  /\ mem' \in [Keys -> Value \cup {None}]
         /\ timer' = TRUE /\ waiting' = waiting /\ done' = done /\ file' = file
         /\ pool' \in Seq(Chain) /\ Len(pool') = Len(pool) + 1
         /\ FilesOpen(pool', QueuedWithFile, file)
<1>1. NewChain(k, v) \in Chain /\ NewChain(k, v).op = "mkdir"
  BY NewChainType
<1>2. pool' = Append(pool, NewChain(k, v)) /\ mem' = [mem EXCEPT ![k] = v]
      /\ timer' = TRUE /\ waiting' = waiting /\ done' = done /\ file' = file
  BY DEF Save
<1>3. pool \in Seq(Chain) /\ FilesOpen(pool, QueuedWithFile, file)
      /\ mem \in [Keys -> Value \cup {None}]
  BY DEF TypeOK
<1>4. NewChain(k, v).op \notin QueuedWithFile
  BY <1>1 DEF QueuedWithFile
<1>5. Append(pool, NewChain(k, v)) \in Seq(Chain)
      /\ FilesOpen(Append(pool, NewChain(k, v)), QueuedWithFile, file)
  BY <1>1, <1>3, <1>4, AppendChain
<1> QED
  BY <1>2, <1>3, <1>5

\* What one operation does to the files.
LEMMA EffectType ==
  ASSUME file \in [Keys -> File \cup {None}], NEW c \in Chain,
         c.op \in QueuedWithFile /\ ~c.gone => file[c.key] # None
  PROVE  /\ Effect(c) \in [Keys -> File \cup {None}]
         /\ \A k \in Keys : file[k] # None => Effect(c)[k] # None
         /\ c.op \in DoneWithFile /\ ~c.gone => Effect(c)[c.key] # None
<1>1. c.key \in Keys /\ c.val \in Value /\ c.op \in {"mkdir", "open", "write", "close"}
  BY DEF Chain
<1>2. CASE c.op = "open"
  <2>1. [val |-> None, len |-> 0] \in File
    BY DEF File
  <2>2. Effect(c) = [file EXCEPT ![c.key] = [val |-> None, len |-> 0]]
    BY <1>2 DEF Effect
  <2> QED
    BY <1>1, <2>1, <2>2, NoneIsNoRecord
<1>3. CASE c.op = "write" /\ ~c.gone
  <2> DEFINE n == [val |-> c.val, len |-> Longer(file[c.key].len, c.val.size + 1)]
  <2>1. file[c.key] \in File
    BY <1>1, <1>3 DEF QueuedWithFile
  <2>2. Longer(file[c.key].len, c.val.size + 1) \in Nat
    BY <1>1, <2>1 DEF File, Value, Longer
  <2>3. n \in File
    BY <1>1, <2>2 DEF File
  <2>4. Effect(c) = [file EXCEPT ![c.key] = n]
    BY <1>3 DEF Effect
  <2> QED
    BY <1>1, <2>3, <2>4, NoneIsNoRecord
<1>4. CASE c.op # "open" /\ ~(c.op = "write" /\ ~c.gone)
  <2>1. Effect(c) = file
    BY <1>4 DEF Effect
  <2> QED
    BY <1>1, <1>4, <2>1 DEF QueuedWithFile, DoneWithFile
<1> QED
  BY <1>2, <1>3, <1>4

LEMMA RacedByKeys == ASSUME NEW K, NEW m PROVE RacedBy(K, m) \subseteq Keys
BY DEF RacedBy

LEMMA InitType == Init => TypeOK
<1> SUFFICES ASSUME Init PROVE TypeOK
  OBVIOUS
<1>1. /\ mem \in [Keys -> Value \cup {None}] /\ file \in [Keys -> File \cup {None}]
      /\ queue \subseteq Keys /\ timer \in BOOLEAN /\ stores \in Nat /\ plain \in BOOLEAN
      /\ raced \subseteq Keys
  BY DEF Init
<1>2. waiting \in 0..WaitMax
  BY StorageBounds DEF Init
<1>3. pool \in Seq(Chain) /\ done \in Seq(Chain)
      /\ FilesOpen(pool, QueuedWithFile, file) /\ FilesOpen(done, DoneWithFile, file)
  BY DEF Init, FilesOpen
<1> QED
  BY <1>1, <1>2, <1>3 DEF TypeOK

\* What the steps that change a record have in common.
LEMMA ChangeType ==
  ASSUME TypeOK, NEW k \in Keys, NEW v \in Value,
         Save(k, v), Enqueue(k), stores' \in Nat, plain' \in BOOLEAN
  PROVE  TypeOK'
<1>1. queue' \subseteq Keys
  BY DEF TypeOK, Enqueue
<1>2. /\ waiting \in 0..WaitMax /\ file \in [Keys -> File \cup {None}]
      /\ done \in Seq(Chain) /\ FilesOpen(done, DoneWithFile, file)
  BY DEF TypeOK
<1>3. /\ mem' \in [Keys -> Value \cup {None}]
      /\ timer' = TRUE /\ waiting' = waiting /\ done' = done /\ file' = file
      /\ pool' \in Seq(Chain) /\ FilesOpen(pool', QueuedWithFile, file)
  BY SaveType
<1>4. raced' \subseteq Keys
  BY RacedByKeys DEF Save
<1> QED
  BY <1>1, <1>2, <1>3, <1>4 DEF TypeOK

LEMMA SizeOfType ==
  ASSUME NEW v \in Value \cup {None}
  PROVE  SizeOf(v) \in Nat /\ (v # None => SizeOf(v) = v.size)
BY DEF SizeOf, Value

LEMMA ValueType ==
  ASSUME NEW m \in Nat, NEW n \in Nat
  PROVE  [ver |-> m, size |-> n] \in Value
BY DEF Value

\* Every step keeps the types.
LEMMA StepType == TypeOK /\ [Next]_vars => TypeOK'
<1> SUFFICES ASSUME TypeOK, [Next]_vars PROVE TypeOK'
  OBVIOUS
<1>1. ASSUME NEW k \in Keys, NEW n \in 0..MaxSize, Store(k, n) PROVE TypeOK'
  <2>1. stores' = stores + 1 /\ stores' \in Nat
    BY <1>1 DEF Store, NextVersion, TypeOK
  <2>0. plain' \in BOOLEAN
    BY <1>1, Zenon DEF Store
  <2>2. n \in Nat
    BY StorageBounds
  <2>3. [ver |-> stores + 1, size |-> n] \in Value
    BY <2>1, <2>2, ValueType
  <2> QED
    BY <1>1, <2>0, <2>1, <2>3, ChangeType DEF Store, NextVersion
<1>2. ASSUME NEW k \in Keys, Push(k) PROVE TypeOK'
  <2>1. stores' = stores + 1 /\ stores' \in Nat
    BY <1>2 DEF Push, NextVersion, TypeOK
  <2>0. plain' \in BOOLEAN
    BY <1>2 DEF Push, TypeOK
  <2>2. SizeOf(mem[k]) + 1 \in Nat
    BY SizeOfType DEF TypeOK
  <2>3. [ver |-> stores + 1, size |-> SizeOf(mem[k]) + 1] \in Value
    BY <2>1, <2>2, ValueType
  <2> QED
    BY <1>2, <2>0, <2>1, <2>3, ChangeType DEF Push, NextVersion
<1>3. ASSUME NEW k \in Keys, Pull(k) PROVE TypeOK'
  <2>1. mem[k] \in Value \cup {None}
    BY DEF TypeOK
  <2>2. CASE /\ SizeOf(mem[k]) > 0 /\ stores' = NextVersion /\ plain' = FALSE /\ Enqueue(k)
             /\ Save(k, [ver |-> NextVersion, size |-> mem[k].size - 1])
    <3>1. stores' = stores + 1 /\ stores' \in Nat
      BY <2>2 DEF NextVersion, TypeOK
    <3>2. mem[k] # None
      BY <2>2 DEF SizeOf
    <3>3. SizeOf(mem[k]) = mem[k].size /\ SizeOf(mem[k]) \in Nat
      BY <2>1, <3>2, SizeOfType
    <3>4. mem[k].size - 1 \in Nat
      BY <2>2, <3>3
    <3>5. [ver |-> stores + 1, size |-> mem[k].size - 1] \in Value
      BY <3>1, <3>4, ValueType
    <3> QED
      BY <2>2, <3>1, <3>5, ChangeType DEF NextVersion
  <2>3. CASE /\ mem' = [mem EXCEPT ![k] = [ver |-> 0, size |-> 0]]
             /\ UNCHANGED <<queue, waiting, timer, pool, done, file, stores, plain, raced>>
    <3>1. [ver |-> 0, size |-> 0] \in Value
      BY ValueType
    <3>2. mem' \in [Keys -> Value \cup {None}]
      BY <2>3, <3>1 DEF TypeOK
    <3> QED
      BY <2>3, <3>2 DEF TypeOK
  <2> QED
    BY <1>3, <2>2, <2>3 DEF Pull
<1>4. ASSUME NEW k \in Keys, Delete(k) PROVE TypeOK'
  <2>1. /\ file' = Unlinked({k}) /\ mem' = [mem EXCEPT ![k] = None] /\ timer' = TRUE
        /\ pool' = Detached(pool, QueuedWithFile, {k})
        /\ done' = Detached(done, DoneWithFile, {k})
        /\ waiting' = Decrement(waiting) /\ stores' = stores + 1 /\ queue' = queue \cup {k}
        /\ plain' = FALSE /\ raced' = RacedBy({k}, mem')
    BY <1>4 DEF Delete, Unlink, Enqueue, NextVersion
  <2>2. mem' \in [Keys -> Value \cup {None}] /\ stores' \in Nat /\ queue' \subseteq Keys
    BY <2>1 DEF TypeOK
  <2>3. waiting' \in 0..WaitMax
    BY <2>1, StorageBounds DEF TypeOK, Decrement
  <2>4. pool \in Seq(Chain) /\ done \in Seq(Chain) /\ file \in [Keys -> File \cup {None}]
        /\ FilesOpen(pool, QueuedWithFile, file) /\ FilesOpen(done, DoneWithFile, file)
        /\ {k} \in SUBSET Keys
    BY DEF TypeOK
  <2>5. file' \in [Keys -> File \cup {None}]
    BY <2>1, <2>4, UnlinkedType
  <2>6. pool' \in Seq(Chain) /\ done' \in Seq(Chain)
    BY <2>1, <2>4, DetachedType
  <2>7. FilesOpen(pool', QueuedWithFile, file') /\ FilesOpen(done', DoneWithFile, file')
    BY <2>1, <2>4, DetachedFiles
  <2> QED
    BY <2>1, <2>2, <2>3, <2>5, <2>6, <2>7, RacedByKeys DEF TypeOK
<1>5. ASSUME Tick PROVE TypeOK'
  <2> DEFINE K == {k \in queue : mem[k] = None}
  <2>1. PICK s \in Orders(queue \ K) :
          /\ pool' = Detached(pool, QueuedWithFile, K)
                       \o [i \in DOMAIN s |-> NewChain(s[i], mem[s[i]])]
          /\ done' = Detached(done, DoneWithFile, K)
          /\ file' = Unlinked(K)
          /\ waiting' = Len(s) /\ queue' = {} /\ mem' = mem /\ timer' = timer /\ stores' = stores
          /\ plain' = plain /\ raced' = RacedBy(queue, mem)
    BY <1>5 DEF Tick
  <2>2. K \in SUBSET Keys /\ queue \ K \in SUBSET Keys
    BY DEF TypeOK
  <2>3. Len(s) \in 0..WaitMax /\ DOMAIN s = 1..Len(s) /\ \A i \in 1..Len(s) : s[i] \in queue \ K
    BY <2>2, OrdersAreSequences
  <2>4. pool \in Seq(Chain) /\ done \in Seq(Chain) /\ file \in [Keys -> File \cup {None}]
        /\ FilesOpen(pool, QueuedWithFile, file) /\ FilesOpen(done, DoneWithFile, file)
        /\ mem \in [Keys -> Value \cup {None}] /\ queue \subseteq Keys
    BY DEF TypeOK
  <2> DEFINE new == [i \in DOMAIN s |-> NewChain(s[i], mem[s[i]])]
             p   == Detached(pool, QueuedWithFile, K)
  <2>5. \A i \in 1..Len(s) : s[i] \in Keys /\ mem[s[i]] \in Value
    BY <2>3, <2>4
  <2>6. \A i \in 1..Len(s) : new[i] \in Chain /\ new[i].op = "mkdir"
    BY <2>3, <2>5, NewChainType
  <2>7. new \in [1..Len(s) -> Chain]
    BY <2>3, <2>6
  <2>8. new \in Seq(Chain) /\ Len(new) = Len(s)
    BY <2>3, <2>7
  <2>9. p \in Seq(Chain) /\ FilesOpen(p, QueuedWithFile, Unlinked(K))
    BY <2>2, <2>4, DetachedType, DetachedFiles
  <2>10. pool' = p \o new
    BY <2>1
  <2>11. \A i \in 1..Len(new) : new[i].op \notin QueuedWithFile
    BY <2>6, <2>8 DEF QueuedWithFile
  <2> HIDE DEF p, new, K
  <2>12. pool' \in Seq(Chain)
    BY <2>8, <2>9, <2>10
  <2>13. FilesOpen(pool', QueuedWithFile, file')
    <3> SUFFICES ASSUME NEW i \in DOMAIN (p \o new), (p \o new)[i].op \in QueuedWithFile,
                        ~(p \o new)[i].gone
                 PROVE  Unlinked(K)[(p \o new)[i].key] # None
      BY <2>1, <2>10 DEF FilesOpen
    <3>1. CASE i \in 1..Len(p)
      <4>1. (p \o new)[i] = p[i]
        BY <2>8, <2>9, <3>1
      <4> QED
        BY <2>9, <3>1, <4>1 DEF FilesOpen
    <3>2. CASE i \notin 1..Len(p)
      <4>1. i - Len(p) \in 1..Len(new) /\ (p \o new)[i] = new[i - Len(p)]
        BY <2>8, <2>9, <3>2
      <4> QED
        BY <2>11, <4>1
    <3> QED
      BY <3>1, <3>2
  <2>14. done' \in Seq(Chain) /\ FilesOpen(done', DoneWithFile, file')
    BY <2>1, <2>2, <2>4, DetachedType, DetachedFiles
  <2>15. file' \in [Keys -> File \cup {None}]
    BY <2>1, <2>2, <2>4, UnlinkedType
  <2>16. waiting' \in 0..WaitMax /\ queue' \subseteq Keys
    BY <2>1, <2>3
  <2>17. /\ mem' \in [Keys -> Value \cup {None}] /\ timer' \in BOOLEAN /\ stores' \in Nat
         /\ plain' \in BOOLEAN
    BY <2>1 DEF TypeOK
  <2> QED
    BY <2>1, <2>12, <2>13, <2>14, <2>15, <2>16, <2>17, RacedByKeys DEF TypeOK
<1>6. ASSUME PoolStep PROVE TypeOK'
  <2> DEFINE c == Head(pool)
  <2>1. /\ pool # <<>> /\ file' = Effect(c) /\ pool' = Tail(pool) /\ done' = Append(done, c)
        /\ UNCHANGED <<mem, queue, waiting, timer, stores, plain, raced>>
    BY <1>6 DEF PoolStep
  <2>2. pool \in Seq(Chain) /\ done \in Seq(Chain) /\ file \in [Keys -> File \cup {None}]
        /\ FilesOpen(pool, QueuedWithFile, file) /\ FilesOpen(done, DoneWithFile, file)
    BY DEF TypeOK
  <2>3. /\ c \in Chain /\ Tail(pool) \in Seq(Chain) /\ FilesOpen(Tail(pool), QueuedWithFile, file)
        /\ c.op \in QueuedWithFile /\ ~c.gone => file[c.key] # None
    BY <2>1, <2>2, TailChain
  <2>4. /\ Effect(c) \in [Keys -> File \cup {None}]
        /\ \A k \in Keys : file[k] # None => Effect(c)[k] # None
        /\ c.op \in DoneWithFile /\ ~c.gone => Effect(c)[c.key] # None
    BY <2>2, <2>3, EffectType
  <2> HIDE DEF c
  <2>5. FilesOpen(Tail(pool), QueuedWithFile, Effect(c)) /\ FilesOpen(done, DoneWithFile, Effect(c))
    <3>1. ASSUME NEW s \in Seq(Chain), NEW ops, FilesOpen(s, ops, file)
          PROVE  FilesOpen(s, ops, Effect(c))
      <4>0. \A i \in DOMAIN s : s[i] \in Chain
        OBVIOUS
      <4>1. \A i \in DOMAIN s : s[i].key \in Keys
        BY <4>0 DEF Chain
      <4> QED
        BY <2>4, <3>1, <4>1 DEF FilesOpen
    <3> QED
      BY <2>2, <2>3, <3>1
  <2>6. Append(done, c) \in Seq(Chain) /\ FilesOpen(Append(done, c), DoneWithFile, Effect(c))
    BY <2>2, <2>3, <2>4, <2>5, AppendChain
  <2> QED
    BY <2>1, <2>3, <2>4, <2>5, <2>6 DEF TypeOK
<1>7. ASSUME Callback PROVE TypeOK'
  <2> DEFINE c == Head(done)
             d == [c EXCEPT !.op = Following[c.op]]
  <2>1. /\ done # <<>> /\ done' = Tail(done)
        /\ UNCHANGED <<mem, queue, timer, file, stores, plain, raced>>
    BY <1>7 DEF Callback
  <2>2. pool \in Seq(Chain) /\ done \in Seq(Chain) /\ waiting \in 0..WaitMax
        /\ FilesOpen(pool, QueuedWithFile, file) /\ FilesOpen(done, DoneWithFile, file)
    BY DEF TypeOK
  <2>3. /\ c \in Chain /\ Tail(done) \in Seq(Chain) /\ FilesOpen(Tail(done), DoneWithFile, file)
        /\ c.op \in DoneWithFile /\ ~c.gone => file[c.key] # None
    BY <2>1, <2>2, TailChain
  <2>4. /\ waiting' \in 0..WaitMax /\ pool' \in Seq(Chain)
        /\ FilesOpen(pool', QueuedWithFile, file)
    <3>1. CASE c.op = "close"
      BY <1>7, <2>2, <3>1, StorageBounds DEF Callback
    <3>2. CASE c.op # "close"
      <4>1. waiting' = waiting /\ pool' = Append(pool, d)
        BY <1>7, <3>2 DEF Callback
      <4>2. /\ d \in Chain /\ d.key = c.key /\ d.gone = c.gone
            /\ d.op \in QueuedWithFile => c.op \in DoneWithFile
        BY <2>3, <3>2 DEF Chain, Following, QueuedWithFile, DoneWithFile
      <4>3. d.op \in QueuedWithFile /\ ~d.gone => file[d.key] # None
        BY <2>3, <4>2
      <4> QED
        BY <2>2, <4>1, <4>2, <4>3, AppendChain
    <3> QED
      BY <3>1, <3>2
  <2> QED
    BY <2>1, <2>3, <2>4 DEF TypeOK
<1>8. ASSUME Restart PROVE TypeOK'
  <2>1. \A k \in Keys : Whole(file[k]) => file[k].val \in Value
    BY DEF TypeOK, Whole, File
  <2>2. mem' \in [Keys -> Value \cup {None}]
    BY <1>8, <2>1 DEF Restart, Found
  <2>3. waiting' \in 0..WaitMax
    BY <1>8, StorageBounds DEF Restart
  <2>4. /\ pool' \in Seq(Chain) /\ done' \in Seq(Chain) /\ queue' \subseteq Keys
        /\ FilesOpen(pool', QueuedWithFile, file') /\ FilesOpen(done', DoneWithFile, file')
    BY <1>8 DEF Restart, FilesOpen
  <2> QED
    BY <1>8, <2>2, <2>3, <2>4 DEF Restart, TypeOK
<1>9. CASE UNCHANGED vars
  BY <1>9 DEF vars, TypeOK
<1> QED
  BY <1>1, <1>2, <1>3, <1>4, <1>5, <1>6, <1>7, <1>8, <1>9 DEF Next

\* The types, and that a chain with an open file has one, for every step of the
\* loop, the worker and the restarts (json_file.c).
THEOREM TypeCorrect == Spec => []TypeOK
BY InitType, StepType, PTL DEF Spec

-----------------------------------------------------------------------------
\* While nothing was deleted a step changes the counter by what it starts or ends.
LEMMA StepWaiting ==
  ASSUME TypeOK, WaitingCovered, [Next]_vars
  PROVE  WaitingCovered'
<1> USE DEF WaitingCovered
<1>0. /\ pool \in Seq(Chain) /\ done \in Seq(Chain) /\ waiting \in Nat
      /\ Len(pool) \in Nat /\ Len(done) \in Nat
  BY StorageBounds DEF TypeOK
<1> DEFINE Covered == waiting <= Len(pool) + Len(done)
<1>a. ASSUME plain' => plain, Covered => Covered' PROVE WaitingCovered'
  BY <1>a
<1> HIDE DEF WaitingCovered
<1>1. ASSUME NEW k \in Keys, NEW v, Save(k, v), plain' => plain PROVE WaitingCovered'
  <2>1. Len(pool') = Len(pool) + 1 /\ done' = done /\ waiting' = waiting
    BY <1>0, <1>1 DEF Save
  <2>2. Covered => Covered'
    BY <1>0, <2>1
  <2> QED
    BY <1>1, <2>2, <1>a
<1>2. ASSUME NEW k \in Keys, NEW n \in 0..MaxSize, Store(k, n) PROVE WaitingCovered'
  <2>1. plain' => plain
    BY <1>2, Zenon DEF Store
  <2> QED
    BY <1>1, <1>2, <2>1 DEF Store
<1>3. ASSUME NEW k \in Keys, Push(k) PROVE WaitingCovered'
  BY <1>1, <1>3 DEF Push
<1>4. ASSUME NEW k \in Keys, Pull(k) PROVE WaitingCovered'
  <2>1. CASE UNCHANGED <<waiting, pool, done, plain>>
    BY <2>1 DEF WaitingCovered
  <2> QED
    BY <1>1, <1>4, <2>1 DEF Pull
<1>5. ASSUME NEW k \in Keys, Delete(k) PROVE WaitingCovered'
  BY <1>5 DEF Delete, WaitingCovered
<1>6. ASSUME Tick PROVE WaitingCovered'
  <2> DEFINE K == {k \in queue : mem[k] = None}
  <2>1. PICK s \in Orders(queue \ K) :
          /\ pool' = Detached(pool, QueuedWithFile, K)
                       \o [i \in DOMAIN s |-> NewChain(s[i], mem[s[i]])]
          /\ done' = Detached(done, DoneWithFile, K)
          /\ waiting' = Len(s)
    BY <1>6 DEF Tick
  <2>2. K \in SUBSET Keys /\ queue \ K \in SUBSET Keys
    BY DEF TypeOK
  <2>3. Len(s) \in Nat /\ DOMAIN s = 1..Len(s)
    BY <2>2, OrdersAreSequences, StorageBounds
  <2> DEFINE new == [i \in DOMAIN s |-> NewChain(s[i], mem[s[i]])]
             p   == Detached(pool, QueuedWithFile, K)
  <2>4. p \in Seq(Chain) /\ Len(done') = Len(done)
    BY <1>0, <2>1, DetachedType
  <2> DEFINE C == Chain \cup {new[i] : i \in DOMAIN s}
  <2>5. Len(new) = Len(s) /\ new \in Seq(C)
    <3>1. new \in [1..Len(s) -> C]
      BY <2>3
    <3> HIDE DEF new, C
    <3> QED
      BY <2>3, <3>1
  <2>6. pool' = p \o new
    BY <2>1
  <2>7. p \in Seq(C)
    <3>1. \A i \in 1..Len(p) : p[i] \in C
      <4> HIDE DEF p
      <4> QED
        BY <2>4
    <3>2. DOMAIN p = 1..Len(p) /\ Len(p) \in Nat /\ p \in [1..Len(p) -> Chain]
      <4> HIDE DEF p
      <4> QED
        BY <2>4
    <3> HIDE DEF p, C
    <3>3. p \in [1..Len(p) -> C]
      BY <3>1, <3>2
    <3> QED
      BY <3>2, <3>3
  <2> HIDE DEF p, new, K, C
  <2>8. Len(pool') = Len(p) + Len(new) /\ Len(p) \in Nat
    <3>1. Len(p \o new) = Len(p) + Len(new)
      BY <2>5, <2>7, ConcatProperties
    <3>2. Len(p) \in Nat
      BY <2>7
    <3> QED
      BY <2>6, <3>1, <3>2
  <2>9. Covered'
    BY <1>0, <2>1, <2>3, <2>4, <2>5, <2>8
  <2> QED
    BY <2>9 DEF WaitingCovered
<1>7. ASSUME PoolStep PROVE WaitingCovered'
  <2>1. Len(pool') = Len(pool) - 1 /\ Len(done') = Len(done) + 1 /\ waiting' = waiting
    BY <1>0, <1>7 DEF PoolStep
  <2>2. Covered => Covered'
    BY <1>0, <2>1
  <2>3. plain' = plain
    BY <1>7 DEF PoolStep
  <2> QED
    BY <1>a, <2>2, <2>3
<1>8. ASSUME Callback PROVE WaitingCovered'
  <2>1. Len(done') = Len(done) - 1 /\ Len(done) > 0
    BY <1>0, <1>8 DEF Callback
  <2>2. \/ Len(pool') = Len(pool) /\ waiting' = IF waiting > 0 THEN waiting - 1 ELSE 0
        \/ Len(pool') = Len(pool) + 1 /\ waiting' = waiting
    BY <1>0, <1>8 DEF Callback
  <2>3. Covered => Covered'
    BY <1>0, <2>1, <2>2
  <2>4. plain' = plain
    BY <1>8 DEF Callback
  <2> QED
    BY <1>a, <2>3, <2>4
<1>9. ASSUME Restart PROVE WaitingCovered'
  BY <1>9 DEF Restart, WaitingCovered
<1>10. CASE UNCHANGED vars
  BY <1>10 DEF vars, WaitingCovered
<1> QED
  BY <1>2, <1>3, <1>4, <1>5, <1>6, <1>7, <1>8, <1>9, <1>10 DEF Next

\* As long as nothing was deleted, the counter store->waiting is covered by the
\* chains under way: the save timer is never held back for good (json_file.c:165).
THEOREM WaitingCoveredAlways == Spec => []WaitingCovered
<1>1. Init => WaitingCovered
  BY DEF Init, WaitingCovered
<1>2. TypeOK /\ WaitingCovered /\ [Next]_vars => WaitingCovered'
  BY StepWaiting
<1> QED
  BY <1>1, <1>2, TypeCorrect, PTL DEF Spec

-----------------------------------------------------------------------------
(***************************************************************************)
(* The last write wins. An operation is in a slot: i for pool[i], -i for   *)
(* done[i]. Chains of one key overtake each other nowhere, so the one that *)
(* was started last also writes last.                                      *)
(***************************************************************************)
Slots(p, d) == {i \in Int : i \in 1..Len(p) \/ -i \in 1..Len(d)}
ChainAt(p, d, i) == IF i > 0 THEN p[i] ELSE d[-i]
Rank(op) == IF op = "mkdir" THEN 0 ELSE IF op = "open" THEN 2 ELSE IF op = "write" THEN 4 ELSE 6
Stage(p, d, i) == Rank(ChainAt(p, d, i).op) + IF i > 0 THEN 0 ELSE 1

\* The chain in slot i is before the one in slot j.
Precedes(p, d, i, j) ==
  \/ Stage(p, d, i) > Stage(p, d, j)
  \/ Stage(p, d, i) = Stage(p, d, j) /\ IF i > 0 THEN i < j ELSE j < i

WillWrite(p, d, k) == {i \in Slots(p, d) : ChainAt(p, d, i).key = k /\ Stage(p, d, i) <= 4}

\* The last of the chains of k that will still write writes v.
LastWrites(p, d, k, v) ==
  \E j \in WillWrite(p, d, k) :
    /\ ChainAt(p, d, j).val = v /\ ~ChainAt(p, d, j).gone
    /\ \A i \in WillWrite(p, d, k) : i # j => Precedes(p, d, i, j)

SavedLast(p, d, f, k, v) ==
  \/ LastWrites(p, d, k, v)
  \/ WillWrite(p, d, k) = {} /\ f[k] # None /\ f[k].val = v

LastInv ==
  \A k \in Keys : mem[k] # None /\ mem[k].ver # 0 => SavedLast(pool, done, file, k, mem[k])

LEMMA SlotTypes ==
  ASSUME NEW p \in Seq(Chain), NEW d \in Seq(Chain), NEW i \in Slots(p, d)
  PROVE  /\ i \in Int /\ (i > 0 => i \in 1..Len(p)) /\ (~(i > 0) => -i \in 1..Len(d))
         /\ ChainAt(p, d, i) \in Chain
         /\ Rank(ChainAt(p, d, i).op) \in {0, 2, 4, 6} /\ Stage(p, d, i) \in 0..7
         /\ IF i > 0 THEN Stage(p, d, i) \in {0, 2, 4, 6} ELSE Stage(p, d, i) \in {1, 3, 5, 7}
<1>1. i \in Int /\ (i > 0 => i \in 1..Len(p)) /\ (~(i > 0) => -i \in 1..Len(d))
  BY DEF Slots
<1>2. ChainAt(p, d, i) \in Chain
  BY <1>1 DEF ChainAt
<1>3. Rank(ChainAt(p, d, i).op) \in {0, 2, 4, 6}
  BY DEF Rank
<1> QED
  BY <1>1, <1>2, <1>3 DEF Stage

\* Where a slot moves when an operation is executed, and when a callback runs.
AfterStep(d, i) == IF i = 1 THEN -(Len(d) + 1) ELSE IF i > 1 THEN i - 1 ELSE i
AfterCallback(p, i) == IF i = -1 THEN Len(p) + 1 ELSE IF i < 0 THEN i + 1 ELSE i

Executed(p, d, p2, d2) ==
  /\ p \in Seq(Chain) /\ d \in Seq(Chain)
  /\ p # <<>> /\ p2 = Tail(p) /\ d2 = Append(d, Head(p))
CalledBack(p, d, p2, d2) ==
  /\ p \in Seq(Chain) /\ d \in Seq(Chain)
  /\ d # <<>> /\ d2 = Tail(d)
  /\ p2 = IF Head(d).op = "close" THEN p
          ELSE Append(p, [Head(d) EXCEPT !.op = Following[Head(d).op]])

\* The worker executes the first operation of the pool.
LEMMA SlotsOfStep ==
  ASSUME NEW p, NEW d, NEW p2, NEW d2, Executed(p, d, p2, d2), NEW i \in Slots(p, d)
  PROVE  /\ AfterStep(d, i) \in Slots(p2, d2)
         /\ ChainAt(p2, d2, AfterStep(d, i)) = ChainAt(p, d, i)
         /\ Stage(p2, d2, AfterStep(d, i)) = IF i = 1 THEN Stage(p, d, i) + 1 ELSE Stage(p, d, i)
<1> DEFINE m == IF i = 1 THEN -(Len(d) + 1) ELSE IF i > 1 THEN i - 1 ELSE i
<1>1. /\ Len(p2) = Len(p) - 1 /\ Len(d2) = Len(d) + 1 /\ Len(p) \in Nat \ {0} /\ Len(d) \in Nat
      /\ \A x \in 1..Len(p2) : p2[x] = p[x + 1]
      /\ \A x \in 1..Len(d) : d2[x] = d[x]
      /\ d2[Len(d) + 1] = p[1]
  BY DEF Executed
<1>2. i \in Int /\ (i > 0 => i \in 1..Len(p)) /\ (~(i > 0) => -i \in 1..Len(d))
      /\ Stage(p, d, i) \in 0..7 /\ Rank(ChainAt(p, d, i).op) \in {0, 2, 4, 6}
  BY SlotTypes DEF Executed
<1>3. m \in Int /\ (m \in 1..Len(p2) \/ -m \in 1..Len(d2))
  BY <1>1, <1>2
<1>4. ChainAt(p2, d2, m) = ChainAt(p, d, i)
  BY <1>1, <1>2, <1>3 DEF ChainAt
<1>5. Stage(p2, d2, m) = IF i = 1 THEN Stage(p, d, i) + 1 ELSE Stage(p, d, i)
  BY <1>2, <1>4 DEF Stage
<1> HIDE DEF m
<1>6. m \in Slots(p2, d2)
  BY <1>3 DEF Slots
<1> QED
  BY <1>4, <1>5, <1>6 DEF m, AfterStep

\* The loop runs the first callback: the slot of a chain that ends is no more.
LEMMA SlotsOfCallback ==
  ASSUME NEW p, NEW d, NEW p2, NEW d2, CalledBack(p, d, p2, d2), NEW i \in Slots(p, d),
         i # -1 \/ Head(d).op # "close"
  PROVE  /\ AfterCallback(p, i) \in Slots(p2, d2)
         /\ ChainAt(p2, d2, AfterCallback(p, i)).key = ChainAt(p, d, i).key
         /\ ChainAt(p2, d2, AfterCallback(p, i)).val = ChainAt(p, d, i).val
         /\ ChainAt(p2, d2, AfterCallback(p, i)).gone = ChainAt(p, d, i).gone
         /\ Stage(p2, d2, AfterCallback(p, i)) =
              IF i = -1 THEN Stage(p, d, i) + 1 ELSE Stage(p, d, i)
<1> DEFINE m == IF i = -1 THEN Len(p) + 1 ELSE IF i < 0 THEN i + 1 ELSE i
           c == [Head(d) EXCEPT !.op = Following[Head(d).op]]
<1>1. Head(d) = d[1] /\ d[1] \in Chain
  BY DEF CalledBack
<1>2. d[1].op # "close" =>
        /\ c \in Chain /\ c.key = d[1].key /\ c.val = d[1].val /\ c.gone = d[1].gone
        /\ Rank(c.op) = Rank(d[1].op) + 2
  BY <1>1 DEF Chain, Following, Rank
<1>3. /\ Len(d2) = Len(d) - 1 /\ Len(d) \in Nat \ {0} /\ Len(p) \in Nat
      /\ \A x \in 1..Len(d2) : d2[x] = d[x + 1]
      /\ p2 = IF d[1].op = "close" THEN p ELSE Append(p, c)
      /\ p \in Seq(Chain)
  BY <1>1 DEF CalledBack
<1> HIDE DEF c
<1>4. /\ \A x \in 1..Len(p) : p2[x] = p[x]
      /\ Len(p2) >= Len(p) /\ Len(p2) \in Nat
      /\ d[1].op # "close" => p2[Len(p) + 1] = c /\ Len(p2) = Len(p) + 1
  BY <1>2, <1>3
<1>5. i \in Int /\ (i > 0 => i \in 1..Len(p)) /\ (~(i > 0) => -i \in 1..Len(d))
      /\ Stage(p, d, i) \in 0..7 /\ Rank(ChainAt(p, d, i).op) \in {0, 2, 4, 6}
  BY SlotTypes DEF CalledBack
<1>6. i = -1 => d[1].op # "close"
  BY <1>1
<1>7. m \in Int /\ (m \in 1..Len(p2) \/ -m \in 1..Len(d2))
  BY <1>3, <1>4, <1>5, <1>6
<1>8. i # -1 => ChainAt(p2, d2, m) = ChainAt(p, d, i)
  BY <1>3, <1>4, <1>5, <1>7 DEF ChainAt
<1>9. i = -1 => ChainAt(p2, d2, m) = c /\ ChainAt(p, d, i) = d[1]
  BY <1>3, <1>4, <1>5, <1>6 DEF ChainAt
<1>10. Stage(p2, d2, m) = IF i = -1 THEN Stage(p, d, i) + 1 ELSE Stage(p, d, i)
  <2>1. CASE i = -1
    <3>1. Stage(p, d, i) = Rank(d[1].op) + 1
      BY <2>1, <1>9 DEF Stage
    <3>2. m > 0
      BY <2>1, <1>3
    <3>3. Stage(p2, d2, m) = Rank(c.op) + 0
      BY <3>2, <2>1, <1>9 DEF Stage
    <3>4. Rank(d[1].op) \in {0, 2, 4, 6}
      BY DEF Rank
    <3> QED
      BY <2>1, <3>1, <3>3, <3>4, <1>2, <1>6
  <2>2. CASE i # -1
    BY <2>2, <1>3, <1>5, <1>8 DEF Stage
  <2> QED
    BY <2>1, <2>2
<1>11. /\ ChainAt(p2, d2, m).key = ChainAt(p, d, i).key
       /\ ChainAt(p2, d2, m).val = ChainAt(p, d, i).val
       /\ ChainAt(p2, d2, m).gone = ChainAt(p, d, i).gone
  BY <1>2, <1>6, <1>8, <1>9
<1> HIDE DEF m
<1>12. m \in Slots(p2, d2)
  BY <1>7 DEF Slots
<1> QED
  BY <1>10, <1>11, <1>12 DEF m, AfterCallback

\* Slots that move, each with its chain, such that chains keep their order: what
\* was written last still will be, if it was not written by this step.
LEMMA MovedLast ==
  ASSUME NEW p, NEW d, NEW p2, NEW d2, NEW k, NEW v, NEW S, NEW M,
         \A i \in S : /\ ChainAt(p2, d2, M[i]).key = ChainAt(p, d, i).key
                      /\ ChainAt(p2, d2, M[i]).val = ChainAt(p, d, i).val
                      /\ ChainAt(p2, d2, M[i]).gone = ChainAt(p, d, i).gone
                      /\ M[i] \in Slots(p2, d2)
                      /\ Stage(p2, d2, M[i]) <= 4 => Stage(p, d, i) <= 4,
         S \subseteq Slots(p, d),
         \A m \in Slots(p2, d2) : \E i \in S : M[i] = m,
         \A i, j \in S : i # j /\ Precedes(p, d, i, j) => Precedes(p2, d2, M[i], M[j])
  PROVE  \A j \in S :
              /\ j \in WillWrite(p, d, k) /\ Stage(p2, d2, M[j]) <= 4
              /\ ChainAt(p, d, j).val = v /\ ~ChainAt(p, d, j).gone
              /\ \A i \in WillWrite(p, d, k) : i # j => Precedes(p, d, i, j)
              => LastWrites(p2, d2, k, v)
<1>1. ASSUME NEW m \in WillWrite(p2, d2, k)
      PROVE  \E i \in S : M[i] = m /\ i \in WillWrite(p, d, k)
  <2>1. PICK i \in S : M[i] = m
    BY <1>1 DEF WillWrite
  <2> QED
    BY <1>1, <2>1 DEF WillWrite
<1> SUFFICES ASSUME NEW j \in S, j \in WillWrite(p, d, k), Stage(p2, d2, M[j]) <= 4,
                    ChainAt(p, d, j).val = v, ~ChainAt(p, d, j).gone,
                    \A i \in WillWrite(p, d, k) : i # j => Precedes(p, d, i, j)
             PROVE  LastWrites(p2, d2, k, v)
  OBVIOUS
<1>2. M[j] \in WillWrite(p2, d2, k)
  BY DEF WillWrite
<1>3. \A m \in WillWrite(p2, d2, k) : m # M[j] => Precedes(p2, d2, m, M[j])
  BY <1>1
<1> QED
  BY <1>2, <1>3 DEF LastWrites

\* Slots that move keep the order of their chains.
LEMMA StepMoves ==
  ASSUME NEW p, NEW d, NEW p2, NEW d2, Executed(p, d, p2, d2)
  PROVE  /\ \A m \in Slots(p2, d2) : \E i \in Slots(p, d) : AfterStep(d, i) = m
         /\ \A i, j \in Slots(p, d) : i # j /\ Precedes(p, d, i, j) =>
              Precedes(p2, d2, AfterStep(d, i), AfterStep(d, j))
<1>1. /\ Len(p2) = Len(p) - 1 /\ Len(d2) = Len(d) + 1 /\ Len(p) \in Nat \ {0} /\ Len(d) \in Nat
      /\ p \in Seq(Chain) /\ d \in Seq(Chain)
  BY DEF Executed
<1>2. ASSUME NEW m \in Slots(p2, d2) PROVE \E i \in Slots(p, d) : AfterStep(d, i) = m
  <2> DEFINE i == IF m = -(Len(d) + 1) THEN 1 ELSE IF m > 0 THEN m + 1 ELSE m
  <2>1. i \in Slots(p, d)
    BY <1>1 DEF Slots
  <2>2. AfterStep(d, i) = m
    BY <1>1 DEF Slots, AfterStep
  <2> QED
    BY <2>1, <2>2
<1>3. ASSUME NEW i \in Slots(p, d), NEW j \in Slots(p, d), i # j, Precedes(p, d, i, j)
      PROVE  Precedes(p2, d2, AfterStep(d, i), AfterStep(d, j))
  <2> DEFINE x == AfterStep(d, i)
             y == AfterStep(d, j)
             s == Stage(p, d, i)
             r == Stage(p, d, j)
             s2 == Stage(p2, d2, x)
             r2 == Stage(p2, d2, y)
  <2>1. s > r \/ (s = r /\ IF i > 0 THEN i < j ELSE j < i)
    BY <1>3 DEF Precedes
  <2>2. s2 = (IF i = 1 THEN s + 1 ELSE s) /\ r2 = (IF j = 1 THEN r + 1 ELSE r)
    BY SlotsOfStep
  <2>3. /\ i \in Int /\ j \in Int /\ s \in 0..7 /\ r \in 0..7
        /\ (~(i > 0) => -i \in 1..Len(d)) /\ (~(j > 0) => -j \in 1..Len(d))
        /\ IF i > 0 THEN s \in {0, 2, 4, 6} ELSE s \in {1, 3, 5, 7}
        /\ IF j > 0 THEN r \in {0, 2, 4, 6} ELSE r \in {1, 3, 5, 7}
    BY <1>1, SlotTypes
  <2>4. /\ x = (IF i = 1 THEN -(Len(d) + 1) ELSE IF i > 1 THEN i - 1 ELSE i)
        /\ y = (IF j = 1 THEN -(Len(d) + 1) ELSE IF j > 1 THEN j - 1 ELSE j)
    BY DEF AfterStep
  <2> HIDE DEF s, r, s2, r2, x, y
  <2>5. s2 > r2 \/ (s2 = r2 /\ IF x > 0 THEN x < y ELSE y < x)
    BY <1>1, <1>3, <2>1, <2>2, <2>3, <2>4
  <2>6. Precedes(p2, d2, x, y)
    BY <2>5 DEF Precedes, s2, r2
  <2> QED
    BY <2>6 DEF x, y
<1> QED
  BY <1>2, <1>3

LEMMA CallbackMoves ==
  ASSUME NEW p, NEW d, NEW p2, NEW d2, CalledBack(p, d, p2, d2)
  PROVE  LET S == {i \in Slots(p, d) : i # -1 \/ Head(d).op # "close"} IN
         /\ \A m \in Slots(p2, d2) : \E i \in S : AfterCallback(p, i) = m
         /\ \A i, j \in S : i # j /\ Precedes(p, d, i, j) =>
              Precedes(p2, d2, AfterCallback(p, i), AfterCallback(p, j))
<1> DEFINE S == {i \in Slots(p, d) : i # -1 \/ Head(d).op # "close"}
<1>1. /\ Len(p) \in Nat /\ Len(d) \in Nat \ {0} /\ Len(d2) = Len(d) - 1
      /\ Len(p2) = IF Head(d).op = "close" THEN Len(p) ELSE Len(p) + 1
      /\ p \in Seq(Chain) /\ d \in Seq(Chain)
  BY DEF CalledBack
<1>2. ASSUME NEW m \in Slots(p2, d2) PROVE \E i \in S : AfterCallback(p, i) = m
  <2> DEFINE i == IF m = Len(p) + 1 THEN -1 ELSE IF m < 0 THEN m - 1 ELSE m
  <2>1. m \in Int /\ (m \in 1..Len(p2) \/ -m \in 1..Len(d2))
    BY DEF Slots
  <2>2. i \in Int /\ (i \in 1..Len(p) \/ -i \in 1..Len(d))
    BY <1>1, <2>1
  <2>3. i # -1 \/ Head(d).op # "close"
    BY <1>1, <2>1
  <2>4. i \in S
    BY <2>2, <2>3 DEF Slots
  <2>5. AfterCallback(p, i) = m
    BY <1>1, <2>1 DEF AfterCallback
  <2> QED
    BY <2>4, <2>5
<1>3. ASSUME NEW i \in S, NEW j \in S, i # j, Precedes(p, d, i, j)
      PROVE  Precedes(p2, d2, AfterCallback(p, i), AfterCallback(p, j))
  <2> DEFINE x == AfterCallback(p, i)
             y == AfterCallback(p, j)
             s == Stage(p, d, i)
             r == Stage(p, d, j)
             s2 == Stage(p2, d2, x)
             r2 == Stage(p2, d2, y)
  <2>1. s > r \/ (s = r /\ IF i > 0 THEN i < j ELSE j < i)
    BY <1>3 DEF Precedes
  <2>2. s2 = (IF i = -1 THEN s + 1 ELSE s) /\ r2 = (IF j = -1 THEN r + 1 ELSE r)
    BY SlotsOfCallback
  <2>3. i \in Slots(p, d) /\ j \in Slots(p, d)
    OBVIOUS
  <2>4. /\ x = (IF i = -1 THEN Len(p) + 1 ELSE IF i < 0 THEN i + 1 ELSE i)
        /\ y = (IF j = -1 THEN Len(p) + 1 ELSE IF j < 0 THEN j + 1 ELSE j)
    BY DEF AfterCallback
  <2>5. /\ i \in Int /\ j \in Int /\ s \in 0..7 /\ r \in 0..7
        /\ (i > 0 => i \in 1..Len(p)) /\ (j > 0 => j \in 1..Len(p))
        /\ (~(i > 0) => -i \in 1..Len(d)) /\ (~(j > 0) => -j \in 1..Len(d))
        /\ IF i > 0 THEN s \in {0, 2, 4, 6} ELSE s \in {1, 3, 5, 7}
        /\ IF j > 0 THEN r \in {0, 2, 4, 6} ELSE r \in {1, 3, 5, 7}
    BY <1>1, <2>3, SlotTypes
  <2> HIDE DEF s, r, s2, r2, x, y, S
  <2>6. s2 > r2 \/ (s2 = r2 /\ IF x > 0 THEN x < y ELSE y < x)
    <3>1. CASE i = -1
      BY <1>1, <1>3, <2>1, <2>2, <2>4, <2>5, <3>1
    <3>2. CASE j = -1
      BY <1>1, <1>3, <2>1, <2>2, <2>4, <2>5, <3>2
    <3>3. CASE i # -1 /\ j # -1
      BY <1>1, <1>3, <2>1, <2>2, <2>4, <2>5, <3>3
    <3> QED
      BY <3>1, <3>2, <3>3
  <2>7. Precedes(p2, d2, x, y)
    BY <2>6 DEF Precedes, s2, r2
  <2> QED
    BY <2>7 DEF x, y
<1> QED
  BY <1>2, <1>3

\* An operation that is executed goes behind the callbacks that wait.
LEMMA StepSaved ==
  ASSUME TypeOK, PoolStep, NEW k \in Keys, NEW v, SavedLast(pool, done, file, k, v)
  PROVE  SavedLast(pool', done', file', k, v)
<1> DEFINE p == pool
           d == done
           S == Slots(p, d)
           M == [i \in S |-> AfterStep(d, i)]
<1>1. /\ p \in Seq(Chain) /\ d \in Seq(Chain) /\ p # <<>>
      /\ pool' = Tail(p) /\ done' = Append(d, Head(p)) /\ file' = Effect(Head(p))
  BY DEF PoolStep, TypeOK
<1>2. \A i \in S : /\ M[i] \in Slots(pool', done') /\ ChainAt(pool', done', M[i]) = ChainAt(p, d, i)
                   /\ Stage(pool', done', M[i]) = IF i = 1 THEN Stage(p, d, i) + 1 ELSE Stage(p, d, i)
  <2> TAKE i \in S
  <2>1. M[i] = AfterStep(d, i)
    OBVIOUS
  <2>2. i \in Slots(p, d)
    OBVIOUS
  <2> HIDE DEF p, d, M, S
  <2>3. Executed(p, d, pool', done')
    BY <1>1 DEF Executed
  <2>4. /\ AfterStep(d, i) \in Slots(pool', done')
        /\ ChainAt(pool', done', AfterStep(d, i)) = ChainAt(p, d, i)
        /\ Stage(pool', done', AfterStep(d, i)) = IF i = 1 THEN Stage(p, d, i) + 1 ELSE Stage(p, d, i)
    BY <2>2, <2>3, SlotsOfStep
  <2> QED
    BY <2>1, <2>4
<1>3. \A i \in S : /\ i \in Int /\ (i > 0 => i \in 1..Len(p)) /\ (~(i > 0) => -i \in 1..Len(d))
                   /\ Stage(p, d, i) \in 0..7
                   /\ IF i > 0 THEN Stage(p, d, i) \in {0, 2, 4, 6} ELSE Stage(p, d, i) \in {1, 3, 5, 7}
  BY <1>1, SlotTypes
<1>4. 1 \in S /\ ChainAt(p, d, 1) = Head(p) /\ Head(p) \in Chain
  BY <1>1 DEF Slots, ChainAt
<1>5. \A m \in Slots(pool', done') : \E i \in S : M[i] = m
  <2>1. Executed(p, d, pool', done')
    BY <1>1 DEF Executed
  <2> QED
    BY <2>1, StepMoves
<1>6. \A i, j \in S : i # j /\ Precedes(p, d, i, j) => Precedes(pool', done', M[i], M[j])
  <2>1. Executed(p, d, pool', done')
    BY <1>1 DEF Executed
  <2> QED
    BY <2>1, StepMoves
<1>7. \A i \in S : /\ ChainAt(pool', done', M[i]).key = ChainAt(p, d, i).key
                   /\ ChainAt(pool', done', M[i]).val = ChainAt(p, d, i).val
                   /\ ChainAt(pool', done', M[i]).gone = ChainAt(p, d, i).gone
                   /\ M[i] \in Slots(pool', done')
                   /\ Stage(pool', done', M[i]) <= 4 => Stage(p, d, i) <= 4
  BY <1>2, <1>3
<1>8. Stage(p, d, 1) = Rank(Head(p).op) + 0
  BY <1>4 DEF Stage
<1> HIDE DEF M, S, p, d
<1>9. S \subseteq Slots(p, d)
  BY DEF S
<1>10. CASE WillWrite(p, d, k) = {} /\ file[k] # None /\ file[k].val = v
  <2>1. WillWrite(pool', done', k) = {}
    <3>1. \A m \in WillWrite(pool', done', k) : \E i \in S : i \in WillWrite(p, d, k)
      BY <1>5, <1>7, <1>9 DEF WillWrite
    <3> QED
      BY <3>1, <1>10
  <2>2. ~(Head(p).key = k /\ Head(p).op \in {"open", "write"})
    <3> SUFFICES ASSUME Head(p).key = k, Head(p).op \in {"open", "write"} PROVE FALSE
      OBVIOUS
    <3>1. Stage(p, d, 1) <= 4
      BY <1>8 DEF Rank
    <3>2. 1 \in WillWrite(p, d, k)
      BY <3>1, <1>4, <1>9 DEF WillWrite
    <3> QED
      BY <3>2, <1>10
  <2>3. file'[k] = file[k]
    BY <1>1, <2>2 DEF Effect, TypeOK
  <2> QED
    BY <1>10, <2>1, <2>3 DEF SavedLast
<1>11. ASSUME NEW j \in WillWrite(p, d, k), ChainAt(p, d, j).val = v, ~ChainAt(p, d, j).gone,
              \A i \in WillWrite(p, d, k) : i # j => Precedes(p, d, i, j)
       PROVE  SavedLast(pool', done', file', k, v)
  <2>1. j \in S /\ Stage(p, d, j) <= 4 /\ ChainAt(p, d, j).key = k
    BY <1>11 DEF WillWrite, S
  <2>2. CASE j = 1 /\ Stage(p, d, j) = 4
    <3>1. Head(p).op = "write" /\ Head(p).key = k /\ Head(p).val = v /\ ~Head(p).gone
      BY <1>4, <1>8, <1>11, <2>1, <2>2 DEF Rank
    <3>2. file[k] \in File
      <4>1. file[k] # None
        BY <3>1, <1>1 DEF TypeOK, FilesOpen, QueuedWithFile, p
      <4> QED
        BY <4>1 DEF TypeOK
    <3>3. file' = [file EXCEPT ![k] = [val |-> v, len |-> Longer(@.len, v.size + 1)]]
      BY <1>1, <3>1 DEF Effect
    <3>4. file'[k] = [val |-> v, len |-> Longer(file[k].len, v.size + 1)]
      BY <3>3 DEF TypeOK
    <3>5. file'[k] \in File
      <4>1. v \in Value
        BY <1>4, <3>1 DEF Chain
      <4>2. v.size + 1 \in Nat /\ file[k].len \in Nat
        BY <4>1, <3>2 DEF Value, File
      <4> QED
        BY <3>4, <4>1, <4>2 DEF File, Longer
    <3>6. file'[k] # None /\ file'[k].val = v
      BY <3>4, <3>5, NoneIsNoRecord
    <3>7. WillWrite(pool', done', k) = {}
      <4> SUFFICES ASSUME NEW m \in WillWrite(pool', done', k) PROVE FALSE
        OBVIOUS
      <4>1. PICK i \in S : M[i] = m
        BY <1>5 DEF WillWrite
      <4>2. Stage(pool', done', m) <= 4 /\ ChainAt(pool', done', m).key = k
        BY DEF WillWrite
      <4>3. i # 1
        BY <1>2, <2>2, <4>1, <4>2
      <4>4. i \in WillWrite(p, d, k)
        BY <1>7, <1>9, <4>1, <4>2 DEF WillWrite
      <4>5. Precedes(p, d, i, 1)
        BY <1>11, <2>2, <4>3, <4>4
      <4>6. Stage(p, d, i) <= 4
        BY <4>4 DEF WillWrite
      <4> QED
        BY <1>3, <2>2, <4>1, <4>5, <4>6 DEF Precedes
    <3> QED
      BY <3>6, <3>7 DEF SavedLast
  <2>3. CASE ~(j = 1 /\ Stage(p, d, j) = 4)
    <3>1. Stage(pool', done', M[j]) <= 4
      BY <1>2, <1>3, <2>1, <2>3
    <3>2. LastWrites(pool', done', k, v)
      BY <1>5, <1>6, <1>7, <1>9, <1>11, <2>1, <3>1, MovedLast
    <3> QED
      BY <3>2 DEF SavedLast
  <2> QED
    BY <2>2, <2>3
<1> QED
  BY <1>10, <1>11 DEF SavedLast, LastWrites, p, d

\* A callback queues the next operation of its chain behind all others, or ends it.
LEMMA CallbackSaved ==
  ASSUME TypeOK, Callback, NEW k \in Keys, NEW v, SavedLast(pool, done, file, k, v)
  PROVE  SavedLast(pool', done', file', k, v)
<1> DEFINE p == pool
           d == done
           S == {i \in Slots(p, d) : i # -1 \/ Head(d).op # "close"}
           M == [i \in S |-> AfterCallback(p, i)]
<1>1. CalledBack(p, d, pool', done') /\ file' = file
  BY DEF Callback, TypeOK, CalledBack
<1>2. \A i \in S :
        /\ M[i] \in Slots(pool', done')
        /\ ChainAt(pool', done', M[i]).key = ChainAt(p, d, i).key
        /\ ChainAt(pool', done', M[i]).val = ChainAt(p, d, i).val
        /\ ChainAt(pool', done', M[i]).gone = ChainAt(p, d, i).gone
        /\ Stage(pool', done', M[i]) = IF i = -1 THEN Stage(p, d, i) + 1 ELSE Stage(p, d, i)
  <2> TAKE i \in S
  <2>1. M[i] = AfterCallback(p, i)
    OBVIOUS
  <2>2. i \in Slots(p, d) /\ (i # -1 \/ Head(d).op # "close")
    OBVIOUS
  <2> HIDE DEF p, d, M, S
  <2>3. /\ AfterCallback(p, i) \in Slots(pool', done')
        /\ ChainAt(pool', done', AfterCallback(p, i)).key = ChainAt(p, d, i).key
        /\ ChainAt(pool', done', AfterCallback(p, i)).val = ChainAt(p, d, i).val
        /\ ChainAt(pool', done', AfterCallback(p, i)).gone = ChainAt(p, d, i).gone
        /\ Stage(pool', done', AfterCallback(p, i)) =
             IF i = -1 THEN Stage(p, d, i) + 1 ELSE Stage(p, d, i)
    BY <1>1, <2>2, SlotsOfCallback
  <2> QED
    BY <2>1, <2>3
<1>3. \A i \in Slots(p, d) :
        /\ i \in Int /\ (i > 0 => i \in 1..Len(p)) /\ (~(i > 0) => -i \in 1..Len(d))
        /\ Stage(p, d, i) \in 0..7
        /\ IF i > 0 THEN Stage(p, d, i) \in {0, 2, 4, 6} ELSE Stage(p, d, i) \in {1, 3, 5, 7}
  BY <1>1, SlotTypes DEF CalledBack
<1>5. \A m \in Slots(pool', done') : \E i \in S : M[i] = m
  BY <1>1, CallbackMoves
<1>6. \A i, j \in S : i # j /\ Precedes(p, d, i, j) => Precedes(pool', done', M[i], M[j])
  BY <1>1, CallbackMoves
<1>7. Head(d).op = "close" => Stage(p, d, -1) = 7
  <2>1. ChainAt(p, d, -1) = Head(d)
    BY <1>1 DEF ChainAt, CalledBack
  <2> QED
    BY <2>1 DEF Stage, Rank
<1>8. S \subseteq Slots(p, d) /\ \A i \in WillWrite(p, d, k) : i \in S
  BY <1>7 DEF WillWrite
<1> HIDE DEF M, S, p, d
<1>9. \A i \in S : /\ ChainAt(pool', done', M[i]).key = ChainAt(p, d, i).key
                   /\ ChainAt(pool', done', M[i]).val = ChainAt(p, d, i).val
                   /\ ChainAt(pool', done', M[i]).gone = ChainAt(p, d, i).gone
                   /\ M[i] \in Slots(pool', done')
                   /\ Stage(pool', done', M[i]) <= 4 => Stage(p, d, i) <= 4
  <2> SUFFICES ASSUME NEW i \in S, Stage(pool', done', M[i]) <= 4 PROVE Stage(p, d, i) <= 4
    BY <1>2
  <2>1. Stage(p, d, i) \in 0..7
    BY <1>3, <1>8
  <2> QED
    BY <1>2, <2>1
<1>10. CASE WillWrite(p, d, k) = {} /\ file[k] # None /\ file[k].val = v
  <2>1. \A m \in WillWrite(pool', done', k) : \E i \in S : i \in WillWrite(p, d, k)
    BY <1>5, <1>8, <1>9 DEF WillWrite
  <2> QED
    BY <1>1, <1>10, <2>1 DEF SavedLast
<1>11. ASSUME NEW j \in WillWrite(p, d, k), ChainAt(p, d, j).val = v, ~ChainAt(p, d, j).gone,
              \A i \in WillWrite(p, d, k) : i # j => Precedes(p, d, i, j)
       PROVE  SavedLast(pool', done', file', k, v)
  <2>1. j \in S /\ Stage(p, d, j) <= 4 /\ Stage(p, d, j) \in 0..7
    BY <1>3, <1>8 DEF WillWrite
  <2>2. Stage(pool', done', M[j]) <= 4
    <3>1. j = -1 => Stage(p, d, j) \in {1, 3, 5, 7}
      BY <1>3, <1>8, <2>1
    <3> QED
      BY <1>2, <2>1, <3>1
  <2>3. LastWrites(pool', done', k, v)
    BY <1>5, <1>6, <1>8, <1>9, <1>11, <2>1, <2>2, MovedLast
  <2> QED
    BY <2>3 DEF SavedLast
<1> QED
  BY <1>10, <1>11 DEF SavedLast, LastWrites, p, d

\* Chains that start go behind the operations in the pool; of those, only chains
\* of keys other than k may lose their file.
SameChain(b, a, k) == b.op = a.op /\ b.key = a.key /\ b.val = a.val /\ (a.key = k => b.gone = a.gone)
Extended(p, d, p2, d2, new, k) ==
  /\ p \in Seq(Chain) /\ d \in Seq(Chain) /\ p2 \in Seq(Chain) /\ d2 \in Seq(Chain)
  /\ Len(new) \in Nat /\ Len(p2) = Len(p) + Len(new) /\ Len(d2) = Len(d)
  /\ \A i \in 1..Len(p) : SameChain(p2[i], p[i], k)
  /\ \A i \in 1..Len(d) : SameChain(d2[i], d[i], k)
  /\ \A x \in 1..Len(new) : p2[Len(p) + x] = new[x] /\ new[x].op = "mkdir"

\* Where no chain of k starts nothing changes for k.
LEMMA ExtendedKeeps ==
  ASSUME NEW p, NEW d, NEW p2, NEW d2, NEW new, NEW k, NEW v, NEW f, NEW g,
         Extended(p, d, p2, d2, new, k), \A x \in 1..Len(new) : new[x].key # k,
         g[k] = f[k], SavedLast(p, d, f, k, v)
  PROVE  SavedLast(p2, d2, g, k, v)
<1>1. \A i \in Slots(p, d) :
        /\ i \in Slots(p2, d2) /\ SameChain(ChainAt(p2, d2, i), ChainAt(p, d, i), k)
  BY SlotTypes DEF Extended, Slots, ChainAt
<1>2. \A i \in Slots(p, d) : Stage(p2, d2, i) = Stage(p, d, i)
  BY <1>1 DEF Stage, SameChain
<1>3. ASSUME NEW i \in Slots(p2, d2), ChainAt(p2, d2, i).key = k PROVE i \in Slots(p, d)
  <2>1. /\ Len(p) \in Nat /\ Len(d) \in Nat /\ Len(new) \in Nat
        /\ Len(p2) = Len(p) + Len(new) /\ Len(d2) = Len(d)
    BY DEF Extended
  <2>2. i \in Int /\ (i \in 1..Len(p2) \/ -i \in 1..Len(d2))
    BY DEF Slots
  <2>3. CASE i > Len(p)
    <3>1. i - Len(p) \in 1..Len(new) /\ i = Len(p) + (i - Len(p)) /\ i > 0
      BY <2>1, <2>2, <2>3
    <3>2. p2[i] = new[i - Len(p)]
      BY <3>1 DEF Extended
    <3> QED
      BY <1>3, <3>1, <3>2 DEF ChainAt
  <2> QED
    BY <2>1, <2>2, <2>3 DEF Slots
<1>4. WillWrite(p2, d2, k) = WillWrite(p, d, k)
  BY <1>1, <1>2, <1>3 DEF WillWrite, SameChain
<1>5. CASE WillWrite(p, d, k) = {} /\ f[k] # None /\ f[k].val = v
  BY <1>4, <1>5 DEF SavedLast
<1>6. CASE LastWrites(p, d, k, v)
  <2>1. PICK j \in WillWrite(p, d, k) :
          /\ ChainAt(p, d, j).val = v /\ ~ChainAt(p, d, j).gone
          /\ \A i \in WillWrite(p, d, k) : i # j => Precedes(p, d, i, j)
    BY <1>6 DEF LastWrites
  <2>2. j \in Slots(p, d) /\ ChainAt(p, d, j).key = k
    BY DEF WillWrite
  <2>3. ChainAt(p2, d2, j).val = v /\ ~ChainAt(p2, d2, j).gone
    BY <1>1, <2>1, <2>2 DEF SameChain
  <2>4. \A i \in WillWrite(p, d, k) : i # j => Precedes(p2, d2, i, j)
    <3> TAKE i \in WillWrite(p, d, k)
    <3>1. i \in Slots(p, d)
      BY DEF WillWrite
    <3>2. Stage(p2, d2, i) = Stage(p, d, i) /\ Stage(p2, d2, j) = Stage(p, d, j)
      BY <1>2, <2>2, <3>1
    <3> QED
      BY <2>1, <3>2 DEF Precedes
  <2>5. LastWrites(p2, d2, k, v)
    BY <1>4, <2>3, <2>4 DEF LastWrites
  <2> QED
    BY <2>5 DEF SavedLast
<1> QED
  BY <1>5, <1>6 DEF SavedLast

\* A chain that starts writes after all others of its key.
LEMMA ExtendedPrecedes ==
  ASSUME NEW p, NEW d, NEW p2, NEW d2, NEW new, NEW k,
         Extended(p, d, p2, d2, new, k), NEW x \in 1..Len(new), new[x].key = k,
         \A y \in 1..Len(new) : new[y].key = k => y = x
  PROVE  LET j == Len(p) + x IN
         /\ ChainAt(p2, d2, j) = new[x] /\ j \in WillWrite(p2, d2, k)
         /\ \A i \in WillWrite(p2, d2, k) : i # j => Precedes(p2, d2, i, j) /\ i \in WillWrite(p, d, k)
<1> DEFINE j == Len(p) + x
<1>1. /\ Len(p) \in Nat /\ Len(d) \in Nat /\ Len(new) \in Nat
      /\ Len(p2) = Len(p) + Len(new) /\ Len(d2) = Len(d)
      /\ p2 \in Seq(Chain) /\ d2 \in Seq(Chain)
      /\ p2[j] = new[x] /\ new[x].op = "mkdir"
  BY DEF Extended
<1>2. j \in Int /\ j > 0 /\ j \in 1..Len(p2) /\ j > Len(p)
  BY <1>1
<1> HIDE DEF j
<1>3. ChainAt(p2, d2, j) = new[x] /\ j \in Slots(p2, d2)
  BY <1>1, <1>2 DEF ChainAt, Slots
<1>4. Stage(p2, d2, j) = 0
  BY <1>1, <1>2, <1>3 DEF Stage, Rank
<1>5. j \in WillWrite(p2, d2, k)
  BY <1>3, <1>4 DEF WillWrite
<1>6. ASSUME NEW i \in WillWrite(p2, d2, k), i # j
      PROVE  Precedes(p2, d2, i, j) /\ i \in WillWrite(p, d, k)
  <2>1. i \in Slots(p2, d2) /\ ChainAt(p2, d2, i).key = k /\ Stage(p2, d2, i) <= 4
    BY DEF WillWrite
  <2>2. /\ i \in Int /\ (i > 0 => i \in 1..Len(p2)) /\ Stage(p2, d2, i) \in 0..7
        /\ (~(i > 0) => -i \in 1..Len(d2))
        /\ IF i > 0 THEN Stage(p2, d2, i) \in {0, 2, 4, 6} ELSE Stage(p2, d2, i) \in {1, 3, 5, 7}
    BY <1>1, <2>1, SlotTypes
  <2>3. CASE i > Len(p)
    <3>1. i - Len(p) \in 1..Len(new) /\ i = Len(p) + (i - Len(p)) /\ i > 0
      BY <1>1, <2>2, <2>3
    <3>2. p2[i] = new[i - Len(p)]
      BY <3>1 DEF Extended
    <3>3. i - Len(p) = x
      BY <2>1, <3>1, <3>2 DEF ChainAt
    <3> QED
      BY <1>1, <1>6, <2>2, <3>3 DEF j
  <2>4. CASE ~(i > Len(p))
    <3>1. Stage(p2, d2, i) > 0 \/ (Stage(p2, d2, i) = 0 /\ i > 0 /\ i < j)
      BY <1>1, <1>2, <2>2, <2>4
    <3>2. (i > 0 => i \in 1..Len(p)) /\ (~(i > 0) => -i \in 1..Len(d))
      BY <1>1, <2>2, <2>4
    <3>3. i \in Slots(p, d)
      BY <2>2, <3>2 DEF Slots
    <3>4. SameChain(ChainAt(p2, d2, i), ChainAt(p, d, i), k)
      BY <3>2 DEF Extended, ChainAt
    <3>5. Stage(p, d, i) = Stage(p2, d2, i) /\ ChainAt(p, d, i).key = k
      BY <2>1, <3>4 DEF Stage, SameChain
    <3> QED
      BY <1>4, <2>1, <3>1, <3>3, <3>5 DEF Precedes, WillWrite
  <2> QED
    BY <2>3, <2>4
<1> QED
  BY <1>3, <1>5, <1>6 DEF j

LEMMA ExtendedLast ==
  ASSUME NEW p, NEW d, NEW p2, NEW d2, NEW new, NEW k, NEW v, NEW f,
         Extended(p, d, p2, d2, new, k), NEW x \in 1..Len(new),
         new[x].key = k, new[x].val = v, ~new[x].gone,
         \A y \in 1..Len(new) : new[y].key = k => y = x
  PROVE  SavedLast(p2, d2, f, k, v)
<1> DEFINE j == Len(p) + x
<1>1. /\ ChainAt(p2, d2, j) = new[x] /\ j \in WillWrite(p2, d2, k)
      /\ \A i \in WillWrite(p2, d2, k) : i # j => Precedes(p2, d2, i, j)
  BY ExtendedPrecedes
<1> HIDE DEF j
<1> QED
  BY <1>1 DEF LastWrites, SavedLast

LEMMA DetachedSame ==
  ASSUME NEW s \in Seq(Chain), NEW ops, NEW K, NEW k,
         k \notin K \/ \A i \in 1..Len(s) : s[i].key # k
  PROVE  \A i \in 1..Len(s) : SameChain(Detached(s, ops, K)[i], s[i], k)
<1> SUFFICES ASSUME NEW i \in 1..Len(s) PROVE SameChain(Detached(s, ops, K)[i], s[i], k)
  OBVIOUS
<1>1. s[i] \in Chain /\ DOMAIN s = 1..Len(s)
  OBVIOUS
<1>2. Detached(s, ops, K)[i] = IF s[i].key \in K /\ s[i].op \in ops
                                 THEN [s[i] EXCEPT !.gone = TRUE] ELSE s[i]
  <2> DEFINE g(x) == IF s[x].key \in K /\ s[x].op \in ops THEN [s[x] EXCEPT !.gone = TRUE] ELSE s[x]
  <2>1. Detached(s, ops, K) = [x \in 1..Len(s) |-> g(x)]
    BY <1>1 DEF Detached
  <2> HIDE DEF g
  <2>2. Detached(s, ops, K)[i] = g(i)
    BY <2>1
  <2> QED
    BY <2>2 DEF g
<1>3. LET c == [s[i] EXCEPT !.gone = TRUE]
      IN  c.op = s[i].op /\ c.key = s[i].key /\ c.val = s[i].val
  BY <1>1 DEF Chain
<1> QED
  BY <1>2, <1>3 DEF SameChain

\* A change is written after all that was under way.
LEMMA SaveLast ==
  ASSUME TypeOK, LastInv, NEW k \in Keys, NEW v \in Value, Save(k, v)
  PROVE  LastInv'
<1> SUFFICES ASSUME NEW q \in Keys, mem'[q] # None, mem'[q].ver # 0
             PROVE  SavedLast(pool', done', file', q, mem'[q])
  BY DEF LastInv
<1> DEFINE new == <<NewChain(k, v)>>
<1>1. /\ mem' = [mem EXCEPT ![k] = v] /\ pool' = Append(pool, NewChain(k, v))
      /\ done' = done /\ file' = file
  BY DEF Save
<1>2. /\ pool \in Seq(Chain) /\ done \in Seq(Chain) /\ mem \in [Keys -> Value \cup {None}]
      /\ pool' \in Seq(Chain)
  BY SaveType DEF TypeOK
<1>3. /\ Len(new) = 1 /\ new[1] = NewChain(k, v) /\ new[1].key = k /\ new[1].val = v
      /\ ~new[1].gone /\ new[1].op = "mkdir"
  BY DEF NewChain
<1>4. NewChain(k, v) \in Chain
  BY NewChainType
<1> HIDE DEF new
<1>5. /\ Len(pool') = Len(pool) + 1 /\ \A i \in 1..Len(pool) : pool'[i] = pool[i]
      /\ pool'[Len(pool) + 1] = new[1]
  BY <1>1, <1>2, <1>3, <1>4
<1>6. Extended(pool, done, pool', done', new, q)
  BY <1>1, <1>2, <1>3, <1>5 DEF Extended, SameChain
<1>7. CASE q = k
  <2>1. mem'[q] = v
    BY <1>1, <1>2, <1>7
  <2>2. 1 \in 1..Len(new) /\ \A y \in 1..Len(new) : y = 1
    BY <1>3
  <2> QED
    BY <1>3, <1>6, <1>7, <2>1, <2>2, ExtendedLast
<1>8. CASE q # k
  <2>1. mem'[q] = mem[q]
    BY <1>1, <1>2, <1>8
  <2>2. SavedLast(pool, done, file, q, mem[q])
    BY <2>1 DEF LastInv
  <2>3. \A x \in 1..Len(new) : new[x].key # q
    BY <1>3, <1>8
  <2> QED
    BY <1>1, <1>6, <2>1, <2>2, <2>3, ExtendedKeeps
<1> QED
  BY <1>7, <1>8

\* A delete disturbs no other key.
LEMMA DeleteLast ==
  ASSUME TypeOK, LastInv, NEW k \in Keys, Unlink(k)
  PROVE  LastInv'
<1> SUFFICES ASSUME NEW q \in Keys, mem'[q] # None, mem'[q].ver # 0
             PROVE  SavedLast(pool', done', file', q, mem'[q])
  BY DEF LastInv
<1>1. /\ mem' = [mem EXCEPT ![k] = None] /\ file' = Unlinked({k})
      /\ pool' = Detached(pool, QueuedWithFile, {k})
      /\ done' = Detached(done, DoneWithFile, {k})
  BY DEF Unlink
<1>2. pool \in Seq(Chain) /\ done \in Seq(Chain) /\ mem \in [Keys -> Value \cup {None}]
  BY DEF TypeOK
<1>3. q # k /\ q \notin {k} /\ mem'[q] = mem[q]
  BY <1>1, <1>2
<1>4. file'[q] = file[q]
  BY <1>1, <1>3 DEF Unlinked
<1>5. /\ pool' \in Seq(Chain) /\ Len(pool') = Len(pool)
      /\ done' \in Seq(Chain) /\ Len(done') = Len(done)
  BY <1>1, <1>2, DetachedType
<1>6. /\ \A i \in 1..Len(pool) : SameChain(pool'[i], pool[i], q)
      /\ \A i \in 1..Len(done) : SameChain(done'[i], done[i], q)
  BY <1>1, <1>2, <1>3, DetachedSame
<1>7. Extended(pool, done, pool', done', <<>>, q)
  <2>1. Len(<<>>) = 0 /\ Len(pool) \in Nat
    BY <1>2
  <2> QED
    BY <1>2, <1>5, <1>6, <2>1 DEF Extended
<1>8. SavedLast(pool, done, file, q, mem[q])
  BY <1>3 DEF LastInv
<1>9. \A x \in 1..Len(<<>>) : <<>>[x].key # q
  OBVIOUS
<1> QED
  BY <1>3, <1>4, <1>7, <1>8, <1>9, ExtendedKeeps

\* The elements of two sequences that are joined.
LEMMA JoinedAt ==
  ASSUME NEW D \in Seq(Chain), NEW new \in Seq(Chain)
  PROVE  /\ Len(D \o new) = Len(D) + Len(new)
         /\ \A i \in 1..Len(D) : (D \o new)[i] = D[i]
         /\ \A x \in 1..Len(new) : (D \o new)[Len(D) + x] = new[x]
<1>1. Len(D) \in Nat /\ Len(new) \in Nat
  OBVIOUS
<1>2. \A i \in 1..(Len(D) + Len(new)) :
        (D \o new)[i] = IF i <= Len(D) THEN D[i] ELSE new[i - Len(D)]
  OBVIOUS
<1>3. Len(D \o new) = Len(D) + Len(new)
  OBVIOUS
<1>4. \A x \in 1..Len(new) : /\ Len(D) + x \in 1..(Len(D) + Len(new)) /\ ~(Len(D) + x <= Len(D))
                            /\ (Len(D) + x) - Len(D) = x
  BY <1>1
<1>5. \A i \in 1..Len(D) : i \in 1..(Len(D) + Len(new)) /\ i <= Len(D)
  BY <1>1
<1>6. \A x \in 1..Len(new) : (D \o new)[Len(D) + x] = new[x]
  <2> TAKE x \in 1..Len(new)
  <2>1. (D \o new)[Len(D) + x] = new[(Len(D) + x) - Len(D)]
    BY <1>2, <1>4
  <2> QED
    BY <2>1, <1>4
<1> QED
  BY <1>2, <1>3, <1>5, <1>6

\* A tick saves the records as they are.
LEMMA TickLast ==
  ASSUME TypeOK, TypeOK', LastInv, Tick
  PROVE  LastInv'
<1> DEFINE K == {k \in queue : mem[k] = None}
<1>1. PICK s \in Orders(queue \ K) :
        /\ pool' = Detached(pool, QueuedWithFile, K)
                     \o [i \in DOMAIN s |-> NewChain(s[i], mem[s[i]])]
        /\ done' = Detached(done, DoneWithFile, K)
        /\ file' = Unlinked(K) /\ mem' = mem
  BY DEF Tick
<1> SUFFICES ASSUME NEW q \in Keys, mem[q] # None, mem[q].ver # 0
             PROVE  SavedLast(pool', done', file', q, mem[q])
  BY <1>1 DEF LastInv
<1> DEFINE new == [i \in DOMAIN s |-> NewChain(s[i], mem[s[i]])]
           D == Detached(pool, QueuedWithFile, K)
<1>2. /\ pool \in Seq(Chain) /\ done \in Seq(Chain) /\ mem \in [Keys -> Value \cup {None}]
      /\ queue \subseteq Keys /\ pool' \in Seq(Chain) /\ done' \in Seq(Chain)
  BY DEF TypeOK
<1>3. q \notin K /\ queue \ K \in SUBSET Keys
  BY <1>2
<1>4. DOMAIN s = 1..Len(s) /\ Len(s) \in Nat /\ \A i \in 1..Len(s) : s[i] \in queue \ K
  BY <1>3, OrdersAreSequences
<1>5. \A x, y \in 1..Len(s) : s[x] = s[y] => x = y
  BY <1>4 DEF Orders, IsInjective
<1>6. \A x \in 1..Len(s) : /\ new[x].key = s[x] /\ new[x].val = mem[s[x]] /\ ~new[x].gone
                          /\ new[x].op = "mkdir" /\ new[x] \in Chain
  BY <1>2, <1>4 DEF NewChain, Chain
<1>7. new \in Seq(Chain) /\ Len(new) = Len(s)
  BY <1>4, <1>6
<1>8. D \in Seq(Chain) /\ Len(D) = Len(pool) /\ Len(done') = Len(done)
  BY <1>1, <1>2, DetachedType
<1>9. /\ \A i \in 1..Len(pool) : SameChain(D[i], pool[i], q)
      /\ \A i \in 1..Len(done) : SameChain(done'[i], done[i], q)
  BY <1>1, <1>2, <1>3, DetachedSame
<1>10. pool' = D \o new /\ file'[q] = file[q]
  BY <1>1, <1>3 DEF Unlinked
<1> HIDE DEF new, D, K
<1>11. /\ Len(pool') = Len(pool) + Len(new)
       /\ \A i \in 1..Len(pool) : pool'[i] = D[i]
       /\ \A x \in 1..Len(new) : pool'[Len(pool) + x] = new[x]
  <2>1. /\ Len(D \o new) = Len(D) + Len(new)
        /\ \A i \in 1..Len(D) : (D \o new)[i] = D[i]
        /\ \A x \in 1..Len(new) : (D \o new)[Len(D) + x] = new[x]
    BY <1>7, <1>8, JoinedAt
  <2> QED
    BY <1>8, <1>10, <2>1
<1>12. Extended(pool, done, pool', done', new, q)
  BY <1>2, <1>4, <1>6, <1>7, <1>8, <1>9, <1>11 DEF Extended
<1>13. CASE \E x \in 1..Len(new) : new[x].key = q
  <2>1. PICK x \in 1..Len(new) : new[x].key = q
    BY <1>13
  <2>2. new[x].val = mem[q] /\ ~new[x].gone
    BY <1>6, <1>7, <2>1
  <2>3. \A y \in 1..Len(new) : new[y].key = q => y = x
    BY <1>5, <1>6, <1>7, <2>1
  <2> QED
    BY <1>12, <2>1, <2>2, <2>3, ExtendedLast
<1>14. CASE \A x \in 1..Len(new) : new[x].key # q
  <2>1. SavedLast(pool, done, file, q, mem[q])
    BY DEF LastInv
  <2> QED
    BY <1>10, <1>12, <1>14, <2>1, ExtendedKeeps
<1> QED
  BY <1>13, <1>14

\* Every step keeps it that the record is what is written last.
LEMMA StepLast == TypeOK /\ TypeOK' /\ LastInv /\ [Next]_vars => LastInv'
<1> SUFFICES ASSUME TypeOK, TypeOK', LastInv, [Next]_vars PROVE LastInv'
  OBVIOUS
<1>1. stores + 1 \in Nat /\ \A n \in 0..MaxSize : n \in Nat
  BY StorageBounds DEF TypeOK
<1>2. ASSUME NEW k \in Keys, NEW n \in 0..MaxSize, Store(k, n) PROVE LastInv'
  <2>1. [ver |-> stores + 1, size |-> n] \in Value
    BY <1>1, ValueType
  <2> QED
    BY <1>2, <2>1, SaveLast DEF Store, NextVersion
<1>3. ASSUME NEW k \in Keys, Push(k) PROVE LastInv'
  <2>1. SizeOf(mem[k]) + 1 \in Nat
    BY SizeOfType DEF TypeOK
  <2>2. [ver |-> stores + 1, size |-> SizeOf(mem[k]) + 1] \in Value
    BY <1>1, <2>1, ValueType
  <2> QED
    BY <1>3, <2>2, SaveLast DEF Push, NextVersion
<1>4. ASSUME NEW k \in Keys, Pull(k) PROVE LastInv'
  <2>1. CASE SizeOf(mem[k]) > 0 /\ Save(k, [ver |-> NextVersion, size |-> mem[k].size - 1])
    <3>1. mem[k] # None /\ mem[k] \in Value \cup {None}
      BY <2>1 DEF SizeOf, TypeOK
    <3>2. mem[k].size - 1 \in Nat
      BY <2>1, <3>1, SizeOfType
    <3>3. [ver |-> stores + 1, size |-> mem[k].size - 1] \in Value
      BY <1>1, <3>2, ValueType
    <3> QED
      BY <2>1, <3>3, SaveLast DEF NextVersion
  <2>2. CASE mem' = [mem EXCEPT ![k] = [ver |-> 0, size |-> 0]] /\ UNCHANGED <<pool, done, file>>
    <3>1. \A q \in Keys : mem'[q] = IF q = k THEN [ver |-> 0, size |-> 0] ELSE mem[q]
      BY <2>2 DEF TypeOK
    <3> QED
      BY <2>2, <3>1 DEF LastInv
  <2> QED
    BY <1>4, <2>1, <2>2 DEF Pull
<1>5. ASSUME NEW k \in Keys, Delete(k) PROVE LastInv'
  BY <1>5, DeleteLast DEF Delete
<1>6. CASE Tick
  BY <1>6, TickLast
<1>7. CASE PoolStep
  <2>1. mem' = mem
    BY <1>7 DEF PoolStep
  <2> QED
    BY <1>7, <2>1, StepSaved DEF LastInv
<1>8. CASE Callback
  <2>1. mem' = mem
    BY <1>8 DEF Callback
  <2> QED
    BY <1>8, <2>1, CallbackSaved DEF LastInv
<1>9. CASE Restart
  <2>1. pool' = <<>> /\ done' = <<>> /\ file' = file
        /\ mem' = [k \in Keys |-> IF Whole(file[k]) THEN file[k].val ELSE None]
    BY <1>9 DEF Restart, Found
  <2>2. \A k : WillWrite(<<>>, <<>>, k) = {}
    BY DEF WillWrite, Slots
  <2>3. \A k \in Keys : mem'[k] # None => file[k] # None /\ file[k].val = mem'[k]
    BY <2>1 DEF Whole
  <2> QED
    BY <2>1, <2>2, <2>3 DEF LastInv, SavedLast
<1>10. CASE UNCHANGED vars
  BY <1>10 DEF vars, LastInv
<1> QED
  BY <1>2, <1>3, <1>4, <1>5, <1>6, <1>7, <1>8, <1>9, <1>10 DEF Next

\* The chains in the slots are those under way.
LEMMA SlotUnderWay ==
  ASSUME TypeOK, NEW i \in Slots(pool, done)
  PROVE  ChainAt(pool, done, i) \in Under(ChainAt(pool, done, i).key)
<1>1. pool \in Seq(Chain) /\ done \in Seq(Chain)
  BY DEF TypeOK
<1>2. (i > 0 => i \in DOMAIN pool) /\ (~(i > 0) => -i \in DOMAIN done)
  BY <1>1, SlotTypes
<1> QED
  BY <1>2 DEF ChainAt, Range, Under

\* A key of which nothing is under way has nothing that will write.
LEMMA NothingWillWrite ==
  ASSUME TypeOK, NEW k \in Keys, Under(k) = {}
  PROVE  WillWrite(pool, done, k) = {}
<1>1. ASSUME NEW i \in WillWrite(pool, done, k) PROVE FALSE
  <2>1. i \in Slots(pool, done) /\ ChainAt(pool, done, i).key = k
    BY DEF WillWrite
  <2> QED
    BY <2>1, SlotUnderWay
<1> QED
  BY <1>1

LEMMA NothingUnderWay ==
  ASSUME TypeOK, LastInv, NEW k \in Keys, Saved(k), Under(k) = {}
  PROVE  file[k] # None /\ file[k].val = mem[k]
<1>1. SavedLast(pool, done, file, k, mem[k])
  BY DEF LastInv, Saved
<1> QED
  BY <1>1, NothingWillWrite DEF SavedLast, LastWrites

-----------------------------------------------------------------------------
(***************************************************************************)
(* What a restart finds. A file is tidy when it holds no more than the     *)
(* value written last. A chain that has opened its file finds no more in   *)
(* it than it writes, and no chain writes less than one before it.         *)
(***************************************************************************)
SizeAt(p, d, i) == ChainAt(p, d, i).val.size
FileSize(g) == IF g = None \/ g.val = None THEN 0 ELSE g.val.size
Tidy(g) == g # None => g.len = IF g.val = None THEN 0 ELSE g.val.size + 1

\* The chains of k that have opened its file and will write.
Opened(p, d, k) == {i \in WillWrite(p, d, k) : Stage(p, d, i) >= 3}

\* The file g of k and the chains of k: an untidy file will be opened again.
Sized(p, d, g, k) ==
  /\ Tidy(g) \/ (WillWrite(p, d, k) # {} /\ Opened(p, d, k) = {})
  /\ \A i \in Opened(p, d, k) : FileSize(g) <= SizeAt(p, d, i)
  /\ \A i, j \in WillWrite(p, d, k) :
       i # j /\ Precedes(p, d, i, j) => SizeAt(p, d, i) <= SizeAt(p, d, j)

\* Nothing of k is under way, and its file holds no record.
Absent(p, d, f, k) == ~Whole(f[k]) /\ \A i \in Slots(p, d) : ChainAt(p, d, i).key # k

\* The file and the chains of k, whose record is r: r was not saved, or it is what is
\* written last, and all that is in the file then.
Traced(p, d, f, k, r) ==
  \/ (r = None \/ r.ver = 0) /\ Absent(p, d, f, k)
  \/ r # None /\ SavedLast(p, d, f, k, r) /\ Sized(p, d, f[k], k)

RaceInv == \A k \in Keys \ raced : Traced(pool, done, file, k, mem[k])

LEMMA PrecedesOrder ==
  ASSUME NEW p \in Seq(Chain), NEW d \in Seq(Chain), NEW i \in Slots(p, d), NEW j \in Slots(p, d),
         i # j
  PROVE  Precedes(p, d, i, j) <=> ~Precedes(p, d, j, i)
<1> DEFINE s == Stage(p, d, i)
           r == Stage(p, d, j)
<1>1. /\ i \in Int /\ j \in Int /\ s \in 0..7 /\ r \in 0..7
      /\ (~(i > 0) => -i \in 1..Len(d)) /\ (~(j > 0) => -j \in 1..Len(d))
      /\ IF i > 0 THEN s \in {0, 2, 4, 6} ELSE s \in {1, 3, 5, 7}
      /\ IF j > 0 THEN r \in {0, 2, 4, 6} ELSE r \in {1, 3, 5, 7}
  BY SlotTypes
<1> HIDE DEF s, r
<1>2. (s > r \/ (s = r /\ IF i > 0 THEN i < j ELSE j < i))
        <=> ~(r > s \/ (r = s /\ IF j > 0 THEN j < i ELSE i < j))
  BY <1>1
<1> QED
  BY <1>2 DEF Precedes, s, r

LEMMA SizeType ==
  ASSUME NEW p \in Seq(Chain), NEW d \in Seq(Chain), NEW i \in Slots(p, d)
  PROVE  SizeAt(p, d, i) \in Nat
<1>1. ChainAt(p, d, i) \in Chain
  BY SlotTypes
<1> QED
  BY <1>1 DEF Chain, Value, SizeAt

LEMMA FileSizeType == ASSUME NEW g \in File \cup {None} PROVE FileSize(g) \in Nat
<1>1. CASE g = None
  BY <1>1 DEF FileSize
<1>2. CASE g \in File
  <2>1. g.val = None \/ g.val \in Value
    BY <1>2 DEF File
  <2> QED
    BY <2>1 DEF FileSize, Value
<1> QED
  BY <1>1, <1>2

\* Slots that move with their chains and in their order keep the sizes in order.
LEMMA MovedSized ==
  ASSUME NEW p \in Seq(Chain), NEW d \in Seq(Chain), NEW p2 \in Seq(Chain), NEW d2 \in Seq(Chain),
         NEW k, NEW S, NEW M, NEW g, NEW h,
         \A i \in S : /\ ChainAt(p2, d2, M[i]).key = ChainAt(p, d, i).key
                      /\ ChainAt(p2, d2, M[i]).val = ChainAt(p, d, i).val
                      /\ M[i] \in Slots(p2, d2)
                      /\ Stage(p2, d2, M[i]) <= 4 => Stage(p, d, i) <= 4,
         S \subseteq Slots(p, d),
         \A m \in Slots(p2, d2) : \E i \in S : M[i] = m,
         \A i, j \in S : i # j /\ Precedes(p, d, i, j) => Precedes(p2, d2, M[i], M[j]),
         Sized(p, d, g, k),
         Tidy(h) \/ \E i \in S : i \in WillWrite(p, d, k) /\ Stage(p2, d2, M[i]) <= 4,
         \A i \in S : i \in WillWrite(p, d, k) /\ Stage(p2, d2, M[i]) \in 3..4 =>
                        Tidy(h) /\ FileSize(h) <= SizeAt(p, d, i)
  PROVE  Sized(p2, d2, h, k)
<1>1. ASSUME NEW m \in WillWrite(p2, d2, k)
      PROVE  \E i \in S : /\ M[i] = m /\ i \in WillWrite(p, d, k) /\ Stage(p2, d2, m) <= 4
                          /\ SizeAt(p2, d2, m) = SizeAt(p, d, i)
  <2>1. PICK i \in S : M[i] = m
    BY <1>1 DEF WillWrite
  <2> QED
    BY <1>1, <2>1 DEF WillWrite, SizeAt
<1>2. ASSUME NEW m \in Opened(p2, d2, k)
      PROVE  Tidy(h) /\ FileSize(h) <= SizeAt(p2, d2, m)
  <2>1. m \in WillWrite(p2, d2, k) /\ m \in Slots(p2, d2) /\ Stage(p2, d2, m) >= 3
    BY DEF Opened, WillWrite
  <2>2. PICK i \in S : /\ M[i] = m /\ i \in WillWrite(p, d, k) /\ Stage(p2, d2, m) <= 4
                       /\ SizeAt(p2, d2, m) = SizeAt(p, d, i)
    BY <1>1, <2>1
  <2>3. Stage(p2, d2, m) \in 0..7
    BY <2>1, SlotTypes
  <2>4. Stage(p2, d2, M[i]) \in 3..4
    BY <2>1, <2>2, <2>3
  <2> QED
    BY <2>2, <2>4
<1>3. ASSUME NEW m \in WillWrite(p2, d2, k), NEW q \in WillWrite(p2, d2, k),
             m # q, Precedes(p2, d2, m, q)
      PROVE  SizeAt(p2, d2, m) <= SizeAt(p2, d2, q)
  <2>1. PICK i \in S : /\ M[i] = m /\ i \in WillWrite(p, d, k)
                       /\ SizeAt(p2, d2, m) = SizeAt(p, d, i)
    BY <1>1
  <2>2. PICK j \in S : /\ M[j] = q /\ j \in WillWrite(p, d, k)
                       /\ SizeAt(p2, d2, q) = SizeAt(p, d, j)
    BY <1>1
  <2>3. i # j /\ i \in Slots(p, d) /\ j \in Slots(p, d)
    BY <1>3, <2>1, <2>2
  <2>4. m \in Slots(p2, d2) /\ q \in Slots(p2, d2)
    BY DEF WillWrite
  <2>5. ~Precedes(p2, d2, q, m)
    BY <1>3, <2>4, PrecedesOrder
  <2>6. Precedes(p, d, i, j)
    BY <2>1, <2>2, <2>3, <2>5, PrecedesOrder
  <2> QED
    BY <2>1, <2>2, <2>3, <2>6 DEF Sized
<1>4. Tidy(h) \/ (WillWrite(p2, d2, k) # {} /\ Opened(p2, d2, k) = {})
  <2> SUFFICES ASSUME ~Tidy(h) PROVE WillWrite(p2, d2, k) # {} /\ Opened(p2, d2, k) = {}
    OBVIOUS
  <2>1. PICK i \in S : i \in WillWrite(p, d, k) /\ Stage(p2, d2, M[i]) <= 4
    OBVIOUS
  <2>2. M[i] \in WillWrite(p2, d2, k)
    BY <2>1 DEF WillWrite
  <2> QED
    BY <1>2, <2>2
<1> QED
  BY <1>2, <1>3, <1>4 DEF Sized

\* An open empties the file, a write finds no more in it than it writes.
LEMMA StepSized ==
  ASSUME TypeOK, TypeOK', PoolStep, NEW k \in Keys, Sized(pool, done, file[k], k)
  PROVE  Sized(pool', done', file'[k], k)
<1> DEFINE S == Slots(pool, done)
           M == [i \in S |-> AfterStep(done, i)]
           c == Head(pool)
<1>1. Executed(pool, done, pool', done') /\ file' = Effect(c)
  BY DEF PoolStep, TypeOK, Executed
<1>2. pool \in Seq(Chain) /\ done \in Seq(Chain) /\ pool' \in Seq(Chain) /\ done' \in Seq(Chain)
  BY DEF TypeOK
<1>3. \A i \in S : /\ M[i] \in Slots(pool', done')
                   /\ ChainAt(pool', done', M[i]) = ChainAt(pool, done, i)
                   /\ Stage(pool', done', M[i]) = IF i = 1 THEN Stage(pool, done, i) + 1 ELSE Stage(pool, done, i)
                   /\ M[i] = AfterStep(done, i)
  BY <1>1, SlotsOfStep
<1>4. /\ \A m \in Slots(pool', done') : \E i \in S : M[i] = m
      /\ \A i, j \in S : i # j /\ Precedes(pool, done, i, j) => Precedes(pool', done', M[i], M[j])
  <2>1. /\ \A m \in Slots(pool', done') : \E i \in S : AfterStep(done, i) = m
        /\ \A i, j \in S : i # j /\ Precedes(pool, done, i, j) =>
             Precedes(pool', done', AfterStep(done, i), AfterStep(done, j))
    BY <1>1, StepMoves
  <2> HIDE DEF S, M
  <2> QED
    BY <1>3, <2>1
<1>5. \A i \in S : /\ Stage(pool, done, i) \in 0..7 /\ SizeAt(pool, done, i) \in Nat
                   /\ i \in Int /\ (i > 0 => i \in 1..Len(pool)) /\ (~(i > 0) => -i \in 1..Len(done))
                   /\ IF i > 0 THEN Stage(pool, done, i) \in {0, 2, 4, 6}
                      ELSE Stage(pool, done, i) \in {1, 3, 5, 7}
  BY <1>2, SlotTypes, SizeType
<1>6. 1 \in S /\ ChainAt(pool, done, 1) = c /\ c \in Chain /\ Stage(pool, done, 1) = Rank(c.op)
  <2>1. c \in Chain /\ c = pool[1] /\ 1 \in 1..Len(pool)
    BY <1>1 DEF Executed
  <2>2. 1 \in S /\ ChainAt(pool, done, 1) = c
    BY <2>1 DEF Slots, ChainAt
  <2>3. Rank(c.op) \in Nat
    BY DEF Rank
  <2> HIDE DEF c
  <2>4. Stage(pool, done, 1) = Rank(c.op)
    BY <2>2, <2>3 DEF Stage
  <2> QED
    BY <2>1, <2>2, <2>4
<1>7. file[k] \in File \cup {None} /\ FileSize(file[k]) \in Nat /\ file \in [Keys -> File \cup {None}]
  BY FileSizeType DEF TypeOK
<1> DEFINE g == file[k]
           h == file'[k]
<1>s. ASSUME Tidy(h) \/ \E i \in S : i \in WillWrite(pool, done, k) /\ Stage(pool', done', M[i]) <= 4,
             \A i \in S : i \in WillWrite(pool, done, k) /\ Stage(pool', done', M[i]) \in 3..4 =>
                        Tidy(h) /\ FileSize(h) <= SizeAt(pool, done, i)
      PROVE  Sized(pool', done', h, k)
  <2>1. \A i \in S : Stage(pool', done', M[i]) <= 4 => Stage(pool, done, i) <= 4
    BY <1>3, <1>5
  <2> HIDE DEF S, M, g, h
  <2>2. S \subseteq Slots(pool, done)
    BY DEF S
  <2>3. Sized(pool, done, g, k)
    BY DEF g
  <2> QED
    BY <1>2, <1>3, <1>4, <1>s, <2>1, <2>2, <2>3, MovedSized
<1>8. CASE h = g /\ ~(c.op = "open" /\ c.key = k)
  <2>1. ASSUME NEW i \in S, i \in WillWrite(pool, done, k), Stage(pool', done', M[i]) \in 3..4
        PROVE  i \in Opened(pool, done, k)
    <3>1. i = 1 => c.key = k
      BY <1>6, <2>1 DEF WillWrite
    <3>2. i = 1 => Rank(c.op) # 2
      BY <1>6, <1>8, <3>1 DEF Rank, Chain
    <3>3. Stage(pool, done, i) >= 3
      BY <1>3, <1>5, <1>6, <2>1, <3>2
    <3> QED
      BY <2>1, <3>3 DEF Opened
  <2>2. CASE Tidy(g)
    BY <1>8, <1>s, <2>1, <2>2 DEF Sized
  <2>3. CASE ~Tidy(g)
    <3>1. WillWrite(pool, done, k) # {} /\ Opened(pool, done, k) = {}
      BY <2>3 DEF Sized
    <3>2. PICK i \in WillWrite(pool, done, k) : TRUE
      BY <3>1
    <3>3. i \in S /\ ~(Stage(pool, done, i) >= 3)
      BY <3>1 DEF WillWrite, Opened
    <3>4. Stage(pool', done', M[i]) <= 4
      BY <1>3, <1>5, <3>3
    <3> QED
      BY <1>s, <2>1, <3>1, <3>3, <3>4
  <2> QED
    BY <2>2, <2>3
<1>9. CASE h = [val |-> None, len |-> 0]
  <2>1. Tidy(h) /\ FileSize(h) = 0
    BY <1>9 DEF Tidy, FileSize
  <2> QED
    BY <1>5, <1>s, <2>1
<1>10. CASE c.op = "write" /\ c.key = k /\ ~c.gone
  <2>1. h = [val |-> c.val, len |-> Longer(g.len, c.val.size + 1)] /\ g # None
    <3>1. pool # <<>> /\ pool[1] = c /\ 1 \in DOMAIN pool
      BY <1>1, <1>2 DEF Executed
    <3>2. g # None
      BY <1>10, <3>1 DEF TypeOK, FilesOpen, QueuedWithFile
    <3>3. file' = [file EXCEPT ![c.key] = [val |-> c.val, len |-> Longer(@.len, c.val.size + 1)]]
      BY <1>1, <1>10 DEF Effect
    <3> QED
      BY <1>7, <1>10, <3>2, <3>3
  <2>2. c.val \in Value /\ c.val.size \in Nat /\ c.val # None
    BY <1>6, NoneIsNoRecord DEF Chain, Value
  <2>3. Stage(pool, done, 1) = 4 /\ 1 \in WillWrite(pool, done, k) /\ 1 \in Opened(pool, done, k)
    BY <1>6, <1>10 DEF WillWrite, Opened, Rank
  <2>4. FileSize(g) <= c.val.size /\ Tidy(g)
    BY <1>6, <2>3 DEF Sized, SizeAt
  <2>5. g.len = IF g.val = None THEN 0 ELSE FileSize(g) + 1
    BY <2>1, <2>4 DEF Tidy, FileSize
  <2>6. Longer(g.len, c.val.size + 1) = c.val.size + 1
    BY <1>7, <2>2, <2>4, <2>5 DEF Longer
  <2>7. Tidy(h) /\ FileSize(h) = c.val.size
    <3>1. h.val = c.val /\ h.len = c.val.size + 1 /\ h # None
      <4>1. h = [val |-> c.val, len |-> c.val.size + 1]
        BY <2>1, <2>6
      <4>2. h \in File
        BY <2>2, <4>1 DEF File
      <4> QED
        BY <4>1, <4>2, NoneIsNoRecord
    <3> QED
      BY <2>2, <3>1 DEF Tidy, FileSize
  <2>8. ASSUME NEW i \in S, i \in WillWrite(pool, done, k), Stage(pool', done', M[i]) \in 3..4
        PROVE  FileSize(h) <= SizeAt(pool, done, i)
    <3>1. i # 1
      BY <1>3, <2>3, <2>8
    <3>2. Stage(pool, done, i) <= 4
      BY <2>8 DEF WillWrite
    <3>3. Precedes(pool, done, 1, i)
      BY <1>5, <2>3, <3>1, <3>2 DEF Precedes
    <3>4. SizeAt(pool, done, 1) <= SizeAt(pool, done, i)
      BY <2>3, <2>8, <3>1, <3>3 DEF Sized
    <3> QED
      BY <1>6, <2>7, <3>4 DEF SizeAt
  <2> QED
    BY <1>s, <2>7, <2>8
<1>11. \/ h = g /\ ~(c.op = "open" /\ c.key = k)
       \/ h = [val |-> None, len |-> 0]
       \/ c.op = "write" /\ c.key = k /\ ~c.gone
  BY <1>1, <1>6, <1>7 DEF Effect, Chain
<1> QED
  BY <1>8, <1>9, <1>10, <1>11

\* A callback moves no chain past its open.
LEMMA CallbackSized ==
  ASSUME TypeOK, TypeOK', Callback, NEW k \in Keys, Sized(pool, done, file[k], k)
  PROVE  Sized(pool', done', file'[k], k)
<1> DEFINE S == {i \in Slots(pool, done) : i # -1 \/ Head(done).op # "close"}
           M == [i \in S |-> AfterCallback(pool, i)]
<1>1. CalledBack(pool, done, pool', done') /\ file' = file
  BY DEF Callback, TypeOK, CalledBack
<1>2. pool \in Seq(Chain) /\ done \in Seq(Chain) /\ pool' \in Seq(Chain) /\ done' \in Seq(Chain)
  BY DEF TypeOK
<1>3. \A i \in S : /\ M[i] \in Slots(pool', done')
                   /\ ChainAt(pool', done', M[i]).key = ChainAt(pool, done, i).key
                   /\ ChainAt(pool', done', M[i]).val = ChainAt(pool, done, i).val
                   /\ Stage(pool', done', M[i]) = IF i = -1 THEN Stage(pool, done, i) + 1 ELSE Stage(pool, done, i)
                   /\ M[i] = AfterCallback(pool, i)
  BY <1>1, SlotsOfCallback
<1>4. /\ \A m \in Slots(pool', done') : \E i \in S : M[i] = m
      /\ \A i, j \in S : i # j /\ Precedes(pool, done, i, j) => Precedes(pool', done', M[i], M[j])
  <2>1. /\ \A m \in Slots(pool', done') : \E i \in S : AfterCallback(pool, i) = m
        /\ \A i, j \in S : i # j /\ Precedes(pool, done, i, j) =>
             Precedes(pool', done', AfterCallback(pool, i), AfterCallback(pool, j))
    BY <1>1, CallbackMoves
  <2> HIDE DEF S, M
  <2> QED
    BY <1>3, <2>1
<1>5. \A i \in S : Stage(pool, done, i) \in 0..7
  BY <1>2, SlotTypes
<1>6. \A i \in S : Stage(pool', done', M[i]) <= 4 => Stage(pool, done, i) <= 4
  BY <1>3, <1>5
<1>7. S \subseteq Slots(pool, done)
  OBVIOUS
<1> DEFINE g == file[k]
<1>8. ASSUME NEW i \in S, i \in WillWrite(pool, done, k), Stage(pool', done', M[i]) \in 3..4
      PROVE  Tidy(g) /\ FileSize(g) <= SizeAt(pool, done, i)
  <2>1. i = -1 => Stage(pool, done, i) \in {1, 3, 5, 7}
    BY <1>2, SlotTypes
  <2>2. Stage(pool, done, i) >= 3
    BY <1>3, <1>5, <1>8, <2>1
  <2>3. i \in Opened(pool, done, k)
    BY <1>8, <2>2 DEF Opened
  <2> QED
    BY <2>3 DEF Sized
<1>9. Tidy(g) \/ \E i \in S : i \in WillWrite(pool, done, k) /\ Stage(pool', done', M[i]) <= 4
  <2> SUFFICES ASSUME ~Tidy(g)
               PROVE  \E i \in S : i \in WillWrite(pool, done, k) /\ Stage(pool', done', M[i]) <= 4
    OBVIOUS
  <2>1. WillWrite(pool, done, k) # {} /\ Opened(pool, done, k) = {}
    BY DEF Sized
  <2>2. PICK i \in WillWrite(pool, done, k) : TRUE
    BY <2>1
  <2>3. i \in Slots(pool, done) /\ ~(Stage(pool, done, i) >= 3)
    BY <2>1 DEF WillWrite, Opened
  <2>4. i = -1 => Head(done).op # "close"
    BY <1>2, <2>3 DEF Stage, ChainAt, Rank, Slots
  <2>5. i \in S
    BY <2>3, <2>4
  <2>6. Stage(pool', done', M[i]) <= 4
    BY <1>3, <1>5, <2>3, <2>5
  <2> QED
    BY <2>5, <2>6
<1>10. Sized(pool, done, g, k)
  OBVIOUS
<1> HIDE DEF S, M, g
<1>11. Sized(pool', done', g, k)
  BY <1>2, <1>3, <1>4, <1>6, <1>7, <1>8, <1>9, <1>10, MovedSized
<1> QED
  BY <1>1, <1>11 DEF g

-----------------------------------------------------------------------------
(***************************************************************************)
(* Chains that start, and files that are unlinked.                         *)
(***************************************************************************)
\* The slots after chains have started: those there were, with their chains, and
\* the new ones behind them in the pool.
LEMMA ExtendedSlots ==
  ASSUME NEW p, NEW d, NEW p2, NEW d2, NEW new, NEW k, Extended(p, d, p2, d2, new, k)
  PROVE  /\ \A i \in Slots(p, d) :
              /\ i \in Slots(p2, d2) /\ SameChain(ChainAt(p2, d2, i), ChainAt(p, d, i), k)
              /\ Stage(p2, d2, i) = Stage(p, d, i)
         /\ \A i \in Slots(p2, d2) :
              \/ i \in Slots(p, d)
              \/ \E x \in 1..Len(new) : i = Len(p) + x /\ i > 0 /\ ChainAt(p2, d2, i) = new[x]
<1>1. \A i \in Slots(p, d) :
        /\ i \in Slots(p2, d2) /\ SameChain(ChainAt(p2, d2, i), ChainAt(p, d, i), k)
  BY SlotTypes DEF Extended, Slots, ChainAt
<1>2. \A i \in Slots(p, d) : Stage(p2, d2, i) = Stage(p, d, i)
  BY <1>1 DEF Stage, SameChain
<1>3. ASSUME NEW i \in Slots(p2, d2), i \notin Slots(p, d)
      PROVE  \E x \in 1..Len(new) : i = Len(p) + x /\ i > 0 /\ ChainAt(p2, d2, i) = new[x]
  <2>1. /\ Len(p) \in Nat /\ Len(d) \in Nat /\ Len(new) \in Nat
        /\ Len(p2) = Len(p) + Len(new) /\ Len(d2) = Len(d)
    BY DEF Extended
  <2>2. i \in Int /\ i \in 1..Len(p2) /\ i > Len(p)
    BY <1>3, <2>1 DEF Slots
  <2>3. i - Len(p) \in 1..Len(new) /\ i = Len(p) + (i - Len(p)) /\ i > 0
    BY <2>1, <2>2
  <2>4. p2[i] = new[i - Len(p)]
    BY <2>3 DEF Extended
  <2> QED
    BY <2>3, <2>4 DEF ChainAt
<1> QED
  BY <1>1, <1>2, <1>3

\* A key without chains stays without when none of its chains starts.
LEMMA ExtendedAbsent ==
  ASSUME NEW p, NEW d, NEW p2, NEW d2, NEW new, NEW k, NEW g,
         Extended(p, d, p2, d2, new, k), \A x \in 1..Len(new) : new[x].key # k,
         \A i \in Slots(p, d) : ChainAt(p, d, i).key # k, ~Whole(g[k])
  PROVE  Absent(p2, d2, g, k)
<1> SUFFICES ASSUME NEW i \in Slots(p2, d2) PROVE ChainAt(p2, d2, i).key # k
  BY DEF Absent
<1>1. CASE i \in Slots(p, d)
  BY <1>1, ExtendedSlots DEF SameChain
<1>2. CASE \E x \in 1..Len(new) : i = Len(p) + x /\ i > 0 /\ ChainAt(p2, d2, i) = new[x]
  BY <1>2
<1> QED
  BY <1>1, <1>2, ExtendedSlots

\* Where no chain of k starts, the chains of k that will write are the same.
LEMMA ExtendedSame ==
  ASSUME NEW p, NEW d, NEW p2, NEW d2, NEW new, NEW k,
         Extended(p, d, p2, d2, new, k), \A x \in 1..Len(new) : new[x].key # k
  PROVE  /\ WillWrite(p2, d2, k) = WillWrite(p, d, k)
         /\ \A i \in WillWrite(p, d, k) :
              SizeAt(p2, d2, i) = SizeAt(p, d, i) /\ Stage(p2, d2, i) = Stage(p, d, i)
<1>1. \A i \in Slots(p, d) :
        /\ i \in Slots(p2, d2) /\ SameChain(ChainAt(p2, d2, i), ChainAt(p, d, i), k)
        /\ Stage(p2, d2, i) = Stage(p, d, i)
  BY ExtendedSlots
<1>2. \A i \in Slots(p2, d2) : ChainAt(p2, d2, i).key = k => i \in Slots(p, d)
  BY ExtendedSlots
<1> QED
  BY <1>1, <1>2 DEF WillWrite, SameChain, SizeAt

\* So is what the file of k will hold.
LEMMA ExtendedTraced ==
  ASSUME NEW p, NEW d, NEW p2, NEW d2, NEW new, NEW k, NEW f, NEW g, NEW r,
         Extended(p, d, p2, d2, new, k), \A x \in 1..Len(new) : new[x].key # k,
         g[k] = f[k], Traced(p, d, f, k, r)
  PROVE  Traced(p2, d2, g, k, r)
<1>1. CASE (r = None \/ r.ver = 0) /\ Absent(p, d, f, k)
  <2>1. Absent(p2, d2, g, k)
    BY <1>1, ExtendedAbsent DEF Absent
  <2> QED
    BY <1>1, <2>1 DEF Traced
<1>2. CASE r # None /\ SavedLast(p, d, f, k, r) /\ Sized(p, d, f[k], k)
  <2>1. SavedLast(p2, d2, g, k, r)
    BY <1>2, ExtendedKeeps
  <2>2. /\ WillWrite(p2, d2, k) = WillWrite(p, d, k)
        /\ \A i \in WillWrite(p, d, k) :
             SizeAt(p2, d2, i) = SizeAt(p, d, i) /\ Stage(p2, d2, i) = Stage(p, d, i)
    BY ExtendedSame
  <2>3. Opened(p2, d2, k) = Opened(p, d, k) /\ Opened(p, d, k) \subseteq WillWrite(p, d, k)
    BY <2>2 DEF Opened
  <2>4. \A i, j \in WillWrite(p, d, k) : Precedes(p2, d2, i, j) => Precedes(p, d, i, j)
    BY <2>2 DEF Precedes
  <2>5. Sized(p2, d2, g[k], k)
    BY <1>2, <2>2, <2>3, <2>4 DEF Sized
  <2> QED
    BY <1>2, <2>1, <2>5 DEF Traced
<1> QED
  BY <1>1, <1>2 DEF Traced

\* A chain of k that starts behind those under way, and writes no less than they do,
\* opens the file again.
LEMMA ExtendedSized ==
  ASSUME NEW p, NEW d, NEW p2, NEW d2, NEW new, NEW k, NEW g,
         Extended(p, d, p2, d2, new, k), NEW x \in 1..Len(new),
         new[x].key = k, new[x].val.size \in Nat,
         \A y \in 1..Len(new) : new[y].key = k => y = x,
         WillWrite(p, d, k) = {} \/ Sized(p, d, g, k),
         \A i \in WillWrite(p, d, k) : ~(new[x].val.size < SizeAt(p, d, i))
  PROVE  Sized(p2, d2, g, k)
<1> DEFINE j == Len(p) + x
<1>1. /\ ChainAt(p2, d2, j) = new[x] /\ j \in WillWrite(p2, d2, k)
      /\ \A i \in WillWrite(p2, d2, k) : i # j => Precedes(p2, d2, i, j) /\ i \in WillWrite(p, d, k)
  BY ExtendedPrecedes
<1> HIDE DEF j
<1>2. p \in Seq(Chain) /\ d \in Seq(Chain) /\ p2 \in Seq(Chain) /\ d2 \in Seq(Chain)
  BY DEF Extended
<1>3. \A i \in WillWrite(p, d, k) : /\ i \in Slots(p, d) /\ ChainAt(p, d, i).key = k
                                    /\ SizeAt(p, d, i) \in Nat
  BY <1>2, SizeType DEF WillWrite
<1>4. \A i \in WillWrite(p, d, k) : /\ SizeAt(p2, d2, i) = SizeAt(p, d, i)
                                    /\ Stage(p2, d2, i) = Stage(p, d, i)
  BY <1>3, ExtendedSlots DEF SameChain, SizeAt
<1>5. SizeAt(p2, d2, j) = new[x].val.size
  BY <1>1 DEF SizeAt
<1>6. Stage(p2, d2, j) = 0
  <2>1. new[x].op = "mkdir" /\ Len(p) \in Nat
    BY <1>2 DEF Extended
  <2>2. x \in Nat /\ x > 0
    BY DEF Extended
  <2>3. j > 0
    BY <2>1, <2>2 DEF j
  <2> QED
    BY <1>1, <2>1, <2>3 DEF Stage, Rank
<1>7. \A i \in Opened(p2, d2, k) : i # j /\ i \in Opened(p, d, k)
  <2> SUFFICES ASSUME NEW i \in Opened(p2, d2, k) PROVE i # j /\ i \in Opened(p, d, k)
    OBVIOUS
  <2>1. i \in WillWrite(p2, d2, k) /\ Stage(p2, d2, i) >= 3
    BY DEF Opened
  <2>2. i # j
    BY <1>6, <2>1
  <2> QED
    BY <1>1, <1>4, <2>1, <2>2 DEF Opened
<1>8. Opened(p, d, k) \subseteq WillWrite(p, d, k)
  BY DEF Opened
<1>9. Tidy(g) \/ (WillWrite(p2, d2, k) # {} /\ Opened(p2, d2, k) = {})
  BY <1>1, <1>7, <1>8 DEF Sized
<1>10. \A i \in Opened(p2, d2, k) : FileSize(g) <= SizeAt(p2, d2, i)
  BY <1>4, <1>7, <1>8 DEF Sized
<1>11. ASSUME NEW i \in WillWrite(p2, d2, k), NEW m \in WillWrite(p2, d2, k),
              i # m, Precedes(p2, d2, i, m)
       PROVE  SizeAt(p2, d2, i) <= SizeAt(p2, d2, m)
  <2>1. CASE m = j
    <3>1. i \in WillWrite(p, d, k)
      BY <1>1, <1>11, <2>1
    <3>2. SizeAt(p, d, i) <= new[x].val.size
      BY <1>3, <3>1
    <3> QED
      BY <1>4, <1>5, <2>1, <3>1, <3>2
  <2>2. CASE i = j
    <3>1. Precedes(p2, d2, m, i) /\ i \in Slots(p2, d2) /\ m \in Slots(p2, d2)
      BY <1>1, <1>11, <2>2 DEF WillWrite
    <3> QED
      BY <1>2, <1>11, <3>1, PrecedesOrder
  <2>3. CASE m # j /\ i # j
    <3>1. i \in WillWrite(p, d, k) /\ m \in WillWrite(p, d, k)
      BY <1>1, <2>3
    <3>2. Precedes(p, d, i, m)
      BY <1>4, <1>11, <3>1 DEF Precedes
    <3>3. SizeAt(p, d, i) <= SizeAt(p, d, m)
      BY <1>11, <3>1, <3>2 DEF Sized
    <3> QED
      BY <1>4, <3>1, <3>3
  <2> QED
    BY <2>1, <2>2, <2>3
<1> QED
  BY <1>9, <1>10, <1>11 DEF Sized

\* A record whose race is over, or never began, once it is saved again.
LEMMA SavedTraced ==
  ASSUME TypeOK, RaceInv, NEW p2, NEW d2, NEW new, NEW k \in Keys, NEW g, NEW v \in Value,
         Extended(pool, done, p2, d2, new, k), NEW x \in 1..Len(new),
         new[x].key = k, new[x].val = v, ~new[x].gone,
         \A y \in 1..Len(new) : new[y].key = k => y = x,
         g[k] = file[k],
         \A c \in Under(k) : k \notin raced /\ ~(v.size < c.val.size)
  PROVE  Traced(p2, d2, g, k, v)
<1>1. SavedLast(p2, d2, g, k, v)
  BY ExtendedLast
<1>2. \A i \in WillWrite(pool, done, k) :
        k \notin raced /\ ~(v.size < SizeAt(pool, done, i)) /\ i \in Slots(pool, done)
        /\ ChainAt(pool, done, i).key = k
  BY SlotUnderWay DEF WillWrite, SizeAt
<1>3. WillWrite(pool, done, k) = {} \/ Sized(pool, done, file[k], k)
  BY <1>2 DEF RaceInv, Traced, Absent
<1>4. v.size \in Nat /\ v # None
  BY NoneIsNoRecord DEF Value
<1>5. Sized(p2, d2, file[k], k)
  BY <1>2, <1>3, <1>4, ExtendedSized
<1> QED
  BY <1>1, <1>4, <1>5 DEF Traced

\* json_storage_store, json_storage_push and json_storage_pull
LEMMA SaveRaced ==
  ASSUME TypeOK, RaceInv, NEW k \in Keys, NEW v \in Value, Save(k, v)
  PROVE  RaceInv'
<1> SUFFICES ASSUME NEW q \in Keys, q \notin raced'
             PROVE  Traced(pool', done', file', q, mem'[q])
  BY DEF RaceInv
<1> DEFINE new == <<NewChain(k, v)>>
<1>1. /\ mem' = [mem EXCEPT ![k] = v] /\ pool' = Append(pool, NewChain(k, v))
      /\ done' = done /\ file' = file /\ raced' = RacedBy({k}, mem')
  BY DEF Save
<1>2. /\ pool \in Seq(Chain) /\ done \in Seq(Chain) /\ mem \in [Keys -> Value \cup {None}]
      /\ pool' \in Seq(Chain)
  BY SaveType DEF TypeOK
<1>3. /\ Len(new) = 1 /\ new[1] = NewChain(k, v) /\ new[1].key = k /\ new[1].val = v
      /\ ~new[1].gone /\ new[1].op = "mkdir"
  BY DEF NewChain
<1>4. NewChain(k, v) \in Chain
  BY NewChainType
<1> HIDE DEF new
<1>5. /\ Len(pool') = Len(pool) + 1 /\ \A i \in 1..Len(pool) : pool'[i] = pool[i]
      /\ pool'[Len(pool) + 1] = new[1]
  BY <1>1, <1>2, <1>3, <1>4
<1>6. Extended(pool, done, pool', done', new, q)
  BY <1>1, <1>2, <1>3, <1>5 DEF Extended, SameChain
<1>7. CASE q = k
  <2>1. mem'[q] = v
    BY <1>1, <1>2, <1>7
  <2>2. 1 \in 1..Len(new) /\ \A y \in 1..Len(new) : y = 1
    BY <1>3
  <2>3. \A c \in Under(q) : q \notin raced /\ ~(v.size < c.val.size)
    BY <1>1, <1>7, <2>1 DEF RacedBy
  <2>4. new[1].key = q /\ new[1].val = v /\ ~new[1].gone /\ file'[q] = file[q]
    BY <1>1, <1>3, <1>7
  <2> QED
    BY <1>6, <2>1, <2>2, <2>3, <2>4, SavedTraced
<1>8. CASE q # k
  <2>1. mem'[q] = mem[q] /\ q \notin raced
    BY <1>1, <1>2, <1>8 DEF RacedBy
  <2>2. Traced(pool, done, file, q, mem[q])
    BY <2>1 DEF RaceInv
  <2>3. \A x \in 1..Len(new) : new[x].key # q
    BY <1>3, <1>8
  <2> QED
    BY <1>1, <1>6, <2>1, <2>2, <2>3, ExtendedTraced
<1> QED
  BY <1>7, <1>8

\* json_storage_store of NULL
LEMMA UnlinkRaced ==
  ASSUME TypeOK, RaceInv, NEW k \in Keys, Unlink(k)
  PROVE  RaceInv'
<1> SUFFICES ASSUME NEW q \in Keys, q \notin raced'
             PROVE  Traced(pool', done', file', q, mem'[q])
  BY DEF RaceInv
<1>1. /\ mem' = [mem EXCEPT ![k] = None] /\ file' = Unlinked({k}) /\ raced' = RacedBy({k}, mem')
      /\ pool' = Detached(pool, QueuedWithFile, {k})
      /\ done' = Detached(done, DoneWithFile, {k})
  BY DEF Unlink
<1>2. pool \in Seq(Chain) /\ done \in Seq(Chain) /\ mem \in [Keys -> Value \cup {None}]
  BY DEF TypeOK
<1>3. mem'[q] = IF q = k THEN None ELSE mem[q]
  BY <1>1, <1>2
<1>4. file'[q] = IF q = k THEN None ELSE file[q]
  BY <1>1 DEF Unlinked
<1>5. /\ pool' \in Seq(Chain) /\ Len(pool') = Len(pool)
      /\ done' \in Seq(Chain) /\ Len(done') = Len(done)
  BY <1>1, <1>2, DetachedType
<1>6. q = k => \A i \in Slots(pool, done) : ChainAt(pool, done, i).key # q
  <2> SUFFICES ASSUME q = k, NEW i \in Slots(pool, done), ChainAt(pool, done, i).key = q
               PROVE  FALSE
    OBVIOUS
  <2>1. Under(q) # {}
    BY SlotUnderWay
  <2> QED
    BY <1>1, <1>3, <2>1 DEF RacedBy
<1>7. /\ q \notin {k} \/ \A i \in 1..Len(pool) : pool[i].key # q
      /\ q \notin {k} \/ \A i \in 1..Len(done) : done[i].key # q
  <2>1. \A i \in 1..Len(pool) : i \in Slots(pool, done) /\ ChainAt(pool, done, i) = pool[i]
    BY <1>2 DEF Slots, ChainAt
  <2>2. \A i \in 1..Len(done) : -i \in Slots(pool, done) /\ ChainAt(pool, done, -i) = done[i]
    BY <1>2 DEF Slots, ChainAt
  <2> QED
    BY <1>6, <2>1, <2>2
<1>8. /\ \A i \in 1..Len(pool) : SameChain(pool'[i], pool[i], q)
      /\ \A i \in 1..Len(done) : SameChain(done'[i], done[i], q)
  BY <1>1, <1>2, <1>7, DetachedSame
<1>9. Extended(pool, done, pool', done', <<>>, q)
  <2>1. Len(<<>>) = 0 /\ Len(pool) \in Nat
    BY <1>2
  <2> QED
    BY <1>2, <1>5, <1>8, <2>1 DEF Extended
<1>10. \A x \in 1..Len(<<>>) : <<>>[x].key # q
  OBVIOUS
<1>11. CASE q = k
  <2>1. ~Whole(file'[q])
    BY <1>4, <1>11 DEF Whole
  <2>2. Absent(pool', done', file', q)
    BY <1>6, <1>9, <1>10, <1>11, <2>1, ExtendedAbsent
  <2> QED
    BY <1>3, <1>11, <2>2 DEF Traced
<1>12. CASE q # k
  <2>1. Traced(pool, done, file, q, mem[q])
    BY <1>1, <1>12 DEF RacedBy, RaceInv
  <2>2. mem'[q] = mem[q] /\ file'[q] = file[q]
    BY <1>3, <1>4, <1>12
  <2> QED
    BY <1>9, <1>10, <2>1, <2>2, ExtendedTraced
<1> QED
  BY <1>11, <1>12

\* An enumeration of some keys names each of them.
LEMMA OrdersAreComplete ==
  ASSUME NEW K \in SUBSET Keys, NEW s \in Orders(K), NEW k \in K
  PROVE  \E x \in DOMAIN s : s[x] = k
<1>1. IsFiniteSet(K) /\ Cardinality(K) \in Nat
  BY KeysAreFew, FS_Subset, FS_CardinalityType
<1>2. s \in [1..Cardinality(K) -> K] /\ s \in Injection(1..Cardinality(K), K)
  BY DEF Orders, Injection
<1>3. IsFiniteSet(1..Cardinality(K)) /\ Cardinality(1..Cardinality(K)) = Cardinality(K)
  BY <1>1, FS_Interval
<1>4. s \in Surjection(1..Cardinality(K), K)
  BY <1>1, <1>2, <1>3, FS_Injection
<1> QED
  BY <1>2, <1>4 DEF Surjection

\* json_storage_handle_save_tick
LEMMA TickRaced ==
  ASSUME TypeOK, TypeOK', RaceInv, Tick
  PROVE  RaceInv'
<1> DEFINE K == {k \in queue : mem[k] = None}
<1>1. PICK s \in Orders(queue \ K) :
        /\ pool' = Detached(pool, QueuedWithFile, K)
                     \o [i \in DOMAIN s |-> NewChain(s[i], mem[s[i]])]
        /\ done' = Detached(done, DoneWithFile, K)
        /\ file' = Unlinked(K) /\ mem' = mem /\ raced' = RacedBy(queue, mem)
  BY DEF Tick
<1> SUFFICES ASSUME NEW q \in Keys, q \notin raced'
             PROVE  Traced(pool', done', file', q, mem[q])
  BY <1>1 DEF RaceInv
<1> DEFINE new == [i \in DOMAIN s |-> NewChain(s[i], mem[s[i]])]
           D == Detached(pool, QueuedWithFile, K)
<1>2. /\ pool \in Seq(Chain) /\ done \in Seq(Chain) /\ mem \in [Keys -> Value \cup {None}]
      /\ queue \subseteq Keys /\ pool' \in Seq(Chain) /\ done' \in Seq(Chain)
  BY DEF TypeOK
<1>3. queue \ K \in SUBSET Keys
  BY <1>2
<1>4. DOMAIN s = 1..Len(s) /\ Len(s) \in Nat /\ \A i \in 1..Len(s) : s[i] \in queue \ K
  BY <1>3, OrdersAreSequences
<1>5. \A x, y \in 1..Len(s) : s[x] = s[y] => x = y
  BY <1>4 DEF Orders, IsInjective
<1>s. \A k \in queue \ K : \E x \in 1..Len(s) : s[x] = k
  <2> DEFINE Q == queue \ K
  <2> HIDE DEF K
  <2>1. Q \in SUBSET Keys /\ s \in Orders(Q)
    BY <1>3
  <2> HIDE DEF Q
  <2>2. \A k \in Q : \E x \in DOMAIN s : s[x] = k
    BY <2>1, OrdersAreComplete
  <2> QED
    BY <1>4, <2>2 DEF Q
<1>6. \A x \in 1..Len(s) : /\ new[x].key = s[x] /\ new[x].val = mem[s[x]] /\ ~new[x].gone
                          /\ new[x].op = "mkdir" /\ new[x] \in Chain
  BY <1>2, <1>4 DEF NewChain, Chain
<1>7. new \in Seq(Chain) /\ Len(new) = Len(s)
  BY <1>4, <1>6
<1>8. D \in Seq(Chain) /\ Len(D) = Len(pool) /\ Len(done') = Len(done)
  BY <1>1, <1>2, DetachedType
<1>9. pool' = D \o new /\ file'[q] = IF q \in K THEN None ELSE file[q]
  BY <1>1 DEF Unlinked
<1>10. q \in K <=> q \in queue /\ mem[q] = None
  OBVIOUS
<1>11. D = Detached(pool, QueuedWithFile, K) /\ done' = Detached(done, DoneWithFile, K)
  BY <1>1
<1> HIDE DEF new, D, K
<1>12. q \in K => \A i \in Slots(pool, done) : ChainAt(pool, done, i).key # q
  <2> SUFFICES ASSUME q \in K, NEW i \in Slots(pool, done), ChainAt(pool, done, i).key = q
               PROVE  FALSE
    OBVIOUS
  <2>1. Under(q) # {}
    BY SlotUnderWay
  <2> QED
    BY <1>1, <1>10, <2>1 DEF RacedBy
<1>13. /\ q \notin K \/ \A i \in 1..Len(pool) : pool[i].key # q
       /\ q \notin K \/ \A i \in 1..Len(done) : done[i].key # q
  <2>1. \A i \in 1..Len(pool) : i \in Slots(pool, done) /\ ChainAt(pool, done, i) = pool[i]
    BY <1>2 DEF Slots, ChainAt
  <2>2. \A i \in 1..Len(done) : -i \in Slots(pool, done) /\ ChainAt(pool, done, -i) = done[i]
    BY <1>2 DEF Slots, ChainAt
  <2> QED
    BY <1>12, <2>1, <2>2
<1>14. /\ \A i \in 1..Len(pool) : SameChain(D[i], pool[i], q)
       /\ \A i \in 1..Len(done) : SameChain(done'[i], done[i], q)
  BY <1>2, <1>11, <1>13, DetachedSame
<1>15. /\ Len(pool') = Len(pool) + Len(new)
       /\ \A i \in 1..Len(pool) : pool'[i] = D[i]
       /\ \A x \in 1..Len(new) : pool'[Len(pool) + x] = new[x]
  <2>1. /\ Len(D \o new) = Len(D) + Len(new)
        /\ \A i \in 1..Len(D) : (D \o new)[i] = D[i]
        /\ \A x \in 1..Len(new) : (D \o new)[Len(D) + x] = new[x]
    BY <1>7, <1>8, JoinedAt
  <2> QED
    BY <1>8, <1>9, <2>1
<1>16. Extended(pool, done, pool', done', new, q)
  BY <1>2, <1>4, <1>6, <1>7, <1>8, <1>14, <1>15 DEF Extended
<1>17. CASE q \in K
  <2>1. \A x \in 1..Len(new) : new[x].key # q
    BY <1>4, <1>6, <1>7, <1>17
  <2>2. ~Whole(file'[q])
    BY <1>9, <1>17 DEF Whole
  <2>3. Absent(pool', done', file', q)
    BY <1>12, <1>16, <1>17, <2>1, <2>2, ExtendedAbsent
  <2> QED
    BY <1>10, <1>17, <2>3 DEF Traced
<1>18. CASE q \in queue /\ q \notin K
  <2>1. PICK x \in 1..Len(new) : new[x].key = q
    BY <1>s, <1>6, <1>7, <1>18
  <2>2. new[x].val = mem[q] /\ ~new[x].gone
    BY <1>6, <1>7, <2>1
  <2>3. \A y \in 1..Len(new) : new[y].key = q => y = x
    BY <1>5, <1>6, <1>7, <2>1
  <2>4. mem[q] \in Value
    BY <1>2, <1>10, <1>18
  <2>5. \A c \in Under(q) : q \notin raced /\ ~(mem[q].size < c.val.size)
    BY <1>1, <1>18 DEF RacedBy
  <2>6. file'[q] = file[q]
    BY <1>9, <1>18
  <2> QED
    BY <1>16, <2>1, <2>2, <2>3, <2>4, <2>5, <2>6, SavedTraced
<1>19. CASE q \notin queue
  <2>1. Traced(pool, done, file, q, mem[q])
    BY <1>1, <1>19 DEF RacedBy, RaceInv
  <2>2. \A x \in 1..Len(new) : new[x].key # q
    BY <1>4, <1>6, <1>7, <1>19
  <2>3. file'[q] = file[q]
    BY <1>9, <1>10, <1>19
  <2> QED
    BY <1>16, <2>1, <2>2, <2>3, ExtendedTraced
<1> QED
  BY <1>17, <1>18, <1>19

\* The worker thread and the loop go on with the chains there are.
LEMMA StepRaced ==
  ASSUME TypeOK, TypeOK', RaceInv, PoolStep
  PROVE  RaceInv'
<1>1. UNCHANGED <<mem, raced>> /\ file' = Effect(Head(pool))
      /\ Executed(pool, done, pool', done') /\ pool # <<>>
  BY DEF PoolStep, TypeOK, Executed
<1> SUFFICES ASSUME NEW k \in Keys, Traced(pool, done, file, k, mem[k])
             PROVE  Traced(pool', done', file', k, mem[k])
  BY <1>1 DEF RaceInv
<1>2. CASE (mem[k] = None \/ mem[k].ver = 0) /\ Absent(pool, done, file, k)
  <2>1. Head(pool).key # k
    <3>1. 1 \in Slots(pool, done) /\ ChainAt(pool, done, 1) = Head(pool)
      BY <1>1 DEF Slots, ChainAt, Executed
    <3> QED
      BY <1>2, <3>1 DEF Absent
  <2>2. file'[k] = file[k]
    BY <1>1, <2>1 DEF Effect, TypeOK
  <2>3. ASSUME NEW m \in Slots(pool', done') PROVE ChainAt(pool', done', m).key # k
    <3>1. PICK i \in Slots(pool, done) : AfterStep(done, i) = m
      BY <1>1, StepMoves
    <3>2. ChainAt(pool', done', m) = ChainAt(pool, done, i)
      BY <1>1, <3>1, SlotsOfStep
    <3> QED
      BY <1>2, <3>2 DEF Absent
  <2> QED
    BY <1>2, <2>2, <2>3 DEF Traced, Absent
<1>3. CASE mem[k] # None /\ SavedLast(pool, done, file, k, mem[k]) /\ Sized(pool, done, file[k], k)
  BY <1>3, StepSaved, StepSized DEF Traced
<1> QED
  BY <1>2, <1>3 DEF Traced

LEMMA CallbackRaced ==
  ASSUME TypeOK, TypeOK', RaceInv, Callback
  PROVE  RaceInv'
<1>1. UNCHANGED <<mem, raced>> /\ file' = file /\ CalledBack(pool, done, pool', done')
  BY DEF Callback, TypeOK, CalledBack
<1> SUFFICES ASSUME NEW k \in Keys, Traced(pool, done, file, k, mem[k])
             PROVE  Traced(pool', done', file', k, mem[k])
  BY <1>1 DEF RaceInv
<1>2. CASE (mem[k] = None \/ mem[k].ver = 0) /\ Absent(pool, done, file, k)
  <2>1. ASSUME NEW m \in Slots(pool', done') PROVE ChainAt(pool', done', m).key # k
    <3>1. PICK i \in Slots(pool, done) : (i # -1 \/ Head(done).op # "close") /\ AfterCallback(pool, i) = m
      BY <1>1, CallbackMoves
    <3>2. ChainAt(pool', done', m).key = ChainAt(pool, done, i).key
      BY <1>1, <3>1, SlotsOfCallback
    <3> QED
      BY <1>2, <3>2 DEF Absent
  <2> QED
    BY <1>1, <1>2, <2>1 DEF Traced, Absent
<1>3. CASE mem[k] # None /\ SavedLast(pool, done, file, k, mem[k]) /\ Sized(pool, done, file[k], k)
  BY <1>3, CallbackSaved, CallbackSized DEF Traced
<1> QED
  BY <1>2, <1>3 DEF Traced

\* json_storage_load: what is found is all there is.
LEMMA NoSlots == Slots(<<>>, <<>>) = {} /\ \A k : WillWrite(<<>>, <<>>, k) = {}
  BY DEF WillWrite, Slots

LEMMA RestartRaced ==
  ASSUME TypeOK, RaceInv, Restart
  PROVE  RaceInv'
<1> SUFFICES ASSUME NEW k \in Keys PROVE Traced(pool', done', file', k, mem'[k])
  BY DEF RaceInv
<1>1. /\ pool' = <<>> /\ done' = <<>> /\ file' = file /\ mem'[k] = Found(k)
  BY DEF Restart
<1>2. CASE Whole(file[k])
  <2>1. mem'[k] = file[k].val /\ file[k] # None /\ file[k].val # None
    BY <1>1, <1>2 DEF Found, Whole
  <2>2. SavedLast(pool', done', file', k, mem'[k])
    BY <1>1, <2>1, NoSlots DEF SavedLast
  <2>3. Sized(pool', done', file'[k], k)
    <3>1. Tidy(file[k])
      BY <1>2 DEF Whole, Tidy
    <3> QED
      BY <1>1, <3>1, NoSlots DEF Sized, Opened
  <2> QED
    BY <2>1, <2>2, <2>3 DEF Traced
<1>3. CASE ~Whole(file[k])
  BY <1>1, <1>3, NoSlots DEF Traced, Absent, Found
<1> QED
  BY <1>2, <1>3

LEMMA RaceKept == TypeOK /\ TypeOK' /\ RaceInv /\ [Next]_vars => RaceInv'
<1> SUFFICES ASSUME TypeOK, TypeOK', RaceInv, [Next]_vars PROVE RaceInv'
  OBVIOUS
<1>1. stores + 1 \in Nat /\ \A n \in 0..MaxSize : n \in Nat
  BY StorageBounds DEF TypeOK
<1>2. ASSUME NEW k \in Keys, NEW n \in 0..MaxSize, Store(k, n) PROVE RaceInv'
  <2>1. [ver |-> stores + 1, size |-> n] \in Value
    BY <1>1, ValueType
  <2> QED
    BY <1>2, <2>1, SaveRaced DEF Store, NextVersion
<1>3. ASSUME NEW k \in Keys, Push(k) PROVE RaceInv'
  <2>1. SizeOf(mem[k]) + 1 \in Nat
    BY SizeOfType DEF TypeOK
  <2>2. [ver |-> stores + 1, size |-> SizeOf(mem[k]) + 1] \in Value
    BY <1>1, <2>1, ValueType
  <2> QED
    BY <1>3, <2>2, SaveRaced DEF Push, NextVersion
<1>4. ASSUME NEW k \in Keys, Pull(k) PROVE RaceInv'
  <2>1. CASE SizeOf(mem[k]) > 0 /\ Save(k, [ver |-> NextVersion, size |-> mem[k].size - 1])
    <3>1. mem[k] # None /\ mem[k] \in Value \cup {None}
      BY <2>1 DEF SizeOf, TypeOK
    <3>2. mem[k].size - 1 \in Nat
      BY <2>1, <3>1, SizeOfType
    <3>3. [ver |-> stores + 1, size |-> mem[k].size - 1] \in Value
      BY <1>1, <3>2, ValueType
    <3> QED
      BY <2>1, <3>3, SaveRaced DEF NextVersion
  <2>2. CASE /\ mem[k] = None /\ mem' = [mem EXCEPT ![k] = [ver |-> 0, size |-> 0]]
             /\ UNCHANGED <<pool, done, file, raced>>
    <3>1. \A q \in Keys : mem'[q] = IF q = k THEN [ver |-> 0, size |-> 0] ELSE mem[q]
      BY <2>2 DEF TypeOK
    <3>2. ASSUME NEW q \in Keys, q \notin raced PROVE Traced(pool, done, file, q, mem'[q])
      <4>1. Traced(pool, done, file, q, mem[q])
        BY <3>2 DEF RaceInv
      <4>2. CASE q = k
        <5>1. mem'[q] = [ver |-> 0, size |-> 0] /\ mem[q] = None
          BY <2>2, <3>1, <4>2
        <5>2. Absent(pool, done, file, q) /\ mem'[q].ver = 0
          BY <4>1, <5>1 DEF Traced
        <5> QED
          BY <5>2 DEF Traced
      <4>3. CASE q # k
        BY <3>1, <4>1, <4>3
      <4> QED
        BY <4>2, <4>3
    <3> QED
      BY <2>2, <3>2 DEF RaceInv
  <2> QED
    BY <1>4, <2>1, <2>2 DEF Pull
<1>5. ASSUME NEW k \in Keys, Delete(k) PROVE RaceInv'
  BY <1>5, UnlinkRaced DEF Delete
<1>6. CASE Tick
  BY <1>6, TickRaced
<1>7. CASE PoolStep
  BY <1>7, StepRaced
<1>8. CASE Callback
  BY <1>8, CallbackRaced
<1>9. CASE Restart
  BY <1>9, RestartRaced
<1>10. CASE UNCHANGED vars
  BY <1>10 DEF vars, RaceInv
<1> QED
  BY <1>2, <1>3, <1>4, <1>5, <1>6, <1>7, <1>8, <1>9, <1>10 DEF Next

LEMMA InitLast == Init => LastInv /\ RaceInv
<1> SUFFICES ASSUME Init PROVE LastInv /\ RaceInv
  OBVIOUS
<1>1. LastInv
  BY DEF Init, LastInv
<1>2. ASSUME NEW k \in Keys PROVE Traced(pool, done, file, k, mem[k])
  BY NoSlots DEF Init, Traced, Absent, Whole
<1> QED
  BY <1>1, <1>2 DEF RaceInv

\* A key whose last save or delete overlapped nothing longer: once nothing of it is
\* under way its file holds the record and nothing else.
LEMMA FoundIsRecord ==
  ASSUME TypeOK, RaceInv, NEW k \in Keys \ raced, Under(k) = {}
  PROVE  Found(k) \in IF Saved(k) THEN {mem[k]} ELSE {None, mem[k]}
<1>1. Traced(pool, done, file, k, mem[k])
  BY DEF RaceInv
<1>2. CASE (mem[k] = None \/ mem[k].ver = 0) /\ Absent(pool, done, file, k)
  BY <1>2 DEF Absent, Found, Saved
<1>3. CASE mem[k] # None /\ SavedLast(pool, done, file, k, mem[k]) /\ Sized(pool, done, file[k], k)
  <2>1. file[k] # None /\ file[k].val = mem[k]
    BY <1>3, NothingWillWrite DEF SavedLast, LastWrites
  <2>2. Tidy(file[k])
    BY <1>3, NothingWillWrite DEF Sized
  <2>3. Whole(file[k])
    BY <1>3, <2>1, <2>2 DEF Tidy, Whole
  <2> QED
    BY <2>1, <2>3 DEF Found
<1> QED
  BY <1>1, <1>2, <1>3 DEF Traced

\* However the operations of the storage interleave, with saves that overlap,
\* deletes and restarts: once nothing of a key is under way, its file took the
\* record last; and unless the key's last save overlapped one of a longer value, or
\* its delete a save, the file holds exactly the record, and none when it was deleted.
THEOREM LastWriteWinsAlways == Spec => []LastWriteWins
<1>1. TypeOK /\ LastInv /\ RaceInv => LastWriteWins
  <2> SUFFICES ASSUME TypeOK, LastInv, RaceInv, NEW k \in Keys, Under(k) = {}
               PROVE  /\ Saved(k) => file[k] # None /\ file[k].val = mem[k]
                      /\ k \notin raced =>
                           Found(k) \in IF Saved(k) THEN {mem[k]} ELSE {None, mem[k]}
    BY DEF LastWriteWins
  <2>1. Saved(k) => file[k] # None /\ file[k].val = mem[k]
    BY NothingUnderWay
  <2>2. ASSUME k \notin raced
        PROVE  Found(k) \in IF Saved(k) THEN {mem[k]} ELSE {None, mem[k]}
    BY <2>2, FoundIsRecord
  <2> QED
    BY <2>1, <2>2
<1> QED
  BY <1>1, InitLast, StepLast, RaceKept, TypeCorrect, PTL DEF Spec

-----------------------------------------------------------------------------
(***************************************************************************)
(* As long as nothing is deleted and no value gets shorter, no save is     *)
(* raced, and what was saved survives the end of the process.              *)
(***************************************************************************)
PlainInv ==
  plain => /\ raced = {}
           /\ \A k \in queue : mem[k] # None
           /\ \A k \in Keys : \A c \in Under(k) : c.val.size <= SizeOf(mem[k])

LEMMA UnderType == TypeOK => \A k : \A c \in Under(k) : c \in Chain /\ c.key = k /\ c.val.size \in Nat
<1> SUFFICES ASSUME TypeOK, NEW k, NEW c \in Under(k) PROVE c \in Chain /\ c.key = k /\ c.val.size \in Nat
  OBVIOUS
<1>1. c \in Chain /\ c.key = k
  BY DEF TypeOK, Under, Range
<1> QED
  BY <1>1 DEF Chain, Value

\* A save of no less than the record was.
LEMMA SavePlain ==
  ASSUME TypeOK, PlainInv, plain, NEW k \in Keys, NEW v \in Value, v.size >= SizeOf(mem[k]),
         Enqueue(k), Save(k, v)
  PROVE  PlainInv'
<1>1. /\ mem' = [mem EXCEPT ![k] = v] /\ pool' = Append(pool, NewChain(k, v))
      /\ done' = done /\ queue' = queue \cup {k} /\ raced' = RacedBy({k}, mem')
  BY DEF Save, Enqueue
<1>2. /\ pool \in Seq(Chain) /\ mem \in [Keys -> Value \cup {None}] /\ v # None
      /\ v.size \in Nat /\ NewChain(k, v) \in Chain /\ SizeOf(mem[k]) \in Nat /\ SizeOf(v) = v.size
  BY NoneIsNoRecord, NewChainType, SizeOfType DEF TypeOK, Value, SizeOf
<1>3. \A q \in Keys : mem'[q] = IF q = k THEN v ELSE mem[q]
  BY <1>1, <1>2
<1>4. raced' = {}
  <2> SUFFICES ASSUME NEW q \in RacedBy({k}, mem') PROVE FALSE
    BY <1>1
  <2>1. q \in Keys /\ q \notin raced
    BY DEF RacedBy, PlainInv
  <2>2. q = k
    BY <2>1 DEF RacedBy
  <2>3. mem'[q] = v
    BY <1>3, <2>1, <2>2
  <2>4. PICK c \in Under(q) : v.size < c.val.size
    BY <1>2, <2>1, <2>2, <2>3 DEF RacedBy
  <2>5. c.val.size <= SizeOf(mem[q]) /\ c.val.size \in Nat
    BY <2>1, UnderType DEF PlainInv
  <2> QED
    BY <1>2, <2>2, <2>4, <2>5
<1>5. \A q \in queue' : mem'[q] # None
  BY <1>1, <1>2, <1>3 DEF PlainInv, TypeOK
<1>6. ASSUME NEW q \in Keys, NEW c \in Under(q)' PROVE c.val.size <= SizeOf(mem'[q])
  <2>1. (c \in Range(pool') \/ c \in Range(done)) /\ c.key = q
    BY <1>1 DEF Under, Range
  <2>2. Range(pool') \subseteq Range(pool) \cup {NewChain(k, v)}
    BY <1>1, <1>2 DEF Range
  <2>3. CASE c = NewChain(k, v)
    <3>1. c.key = k /\ c.val = v
      BY <2>3 DEF NewChain
    <3>2. mem'[q] = v
      BY <1>3, <2>1, <3>1
    <3> QED
      BY <1>2, <3>1, <3>2
  <2>4. CASE c \in Under(q)
    <3>1. c.val.size <= SizeOf(mem[q]) /\ c.val.size \in Nat
      BY <2>4, UnderType DEF PlainInv
    <3> QED
      BY <1>2, <1>3, <3>1
  <2> QED
    BY <2>1, <2>2, <2>3, <2>4 DEF Under
<1> QED
  BY <1>4, <1>5, <1>6 DEF PlainInv

\* While nothing was deleted a tick deletes nothing, and saves the records as they are.
LEMMA TickPlain ==
  ASSUME TypeOK, PlainInv, plain, Tick
  PROVE  PlainInv'
<1> DEFINE K == {k \in queue : mem[k] = None}
<1>1. PICK s \in Orders(queue \ K) :
        /\ pool' = Detached(pool, QueuedWithFile, K)
                     \o [i \in DOMAIN s |-> NewChain(s[i], mem[s[i]])]
        /\ done' = Detached(done, DoneWithFile, K)
        /\ mem' = mem /\ queue' = {} /\ raced' = RacedBy(queue, mem)
  BY DEF Tick
<1> DEFINE new == [i \in DOMAIN s |-> NewChain(s[i], mem[s[i]])]
           D == Detached(pool, QueuedWithFile, K)
<1>2. /\ pool \in Seq(Chain) /\ done \in Seq(Chain) /\ mem \in [Keys -> Value \cup {None}]
      /\ queue \subseteq Keys
  BY DEF TypeOK
<1>3. K = {} /\ queue \ K \in SUBSET Keys
  BY <1>2 DEF PlainInv
<1>4. DOMAIN s = 1..Len(s) /\ Len(s) \in Nat /\ \A i \in 1..Len(s) : s[i] \in queue \ K
  BY <1>3, OrdersAreSequences
<1>5. \A x \in 1..Len(s) : /\ new[x].key = s[x] /\ new[x].val = mem[s[x]] /\ new[x] \in Chain
  BY <1>2, <1>4 DEF NewChain, Chain
<1>6. new \in Seq(Chain) /\ Len(new) = Len(s)
  BY <1>4, <1>5
<1>7. D = pool /\ done' = done
  <2>1. \A i \in DOMAIN pool : ~(pool[i].key \in K /\ pool[i].op \in QueuedWithFile)
    BY <1>3
  <2>2. \A i \in DOMAIN done : ~(done[i].key \in K /\ done[i].op \in DoneWithFile)
    BY <1>3
  <2>3. D = [i \in DOMAIN pool |-> pool[i]] /\ done' = [i \in DOMAIN done |-> done[i]]
    BY <1>1, <2>1, <2>2 DEF Detached
  <2> QED
    BY <1>2, <2>3
<1>8. pool' = pool \o new
  BY <1>1, <1>7
<1> HIDE DEF new, D, K
<1>9. raced' = {}
  <2> SUFFICES ASSUME NEW q \in RacedBy(queue, mem) PROVE FALSE
    BY <1>1
  <2>1. q \in Keys /\ q \notin raced
    BY DEF RacedBy, PlainInv
  <2>2. q \in queue /\ mem[q] # None
    BY <2>1 DEF RacedBy, PlainInv
  <2>3. PICK c \in Under(q) : mem[q].size < c.val.size
    BY <2>1, <2>2 DEF RacedBy
  <2>4. c.val.size <= mem[q].size /\ c.val.size \in Nat
    BY <2>1, <2>2, UnderType DEF PlainInv, SizeOf
  <2>5. mem[q].size \in Nat
    BY <1>2, <2>1, <2>2 DEF Value
  <2> QED
    BY <2>3, <2>4, <2>5
<1>10. ASSUME NEW q \in Keys, NEW c \in Under(q)' PROVE c.val.size <= SizeOf(mem'[q])
  <2>1. (c \in Range(pool') \/ c \in Range(done)) /\ c.key = q
    BY <1>7 DEF Under, Range
  <2>2. ASSUME c \in Range(pool'), c \notin Range(pool) PROVE \E x \in 1..Len(new) : c = new[x]
    <3>1. /\ Len(pool \o new) = Len(pool) + Len(new)
          /\ \A i \in 1..Len(pool) : (pool \o new)[i] = pool[i]
          /\ \A x \in 1..Len(new) : (pool \o new)[Len(pool) + x] = new[x]
      BY <1>2, <1>6, JoinedAt
    <3>2. PICK i \in 1..(Len(pool) + Len(new)) : c = (pool \o new)[i]
      BY <1>2, <1>6, <1>8, <2>2, <3>1 DEF Range
    <3>3. i > Len(pool)
      BY <1>2, <2>2, <3>1, <3>2 DEF Range
    <3>4. i - Len(pool) \in 1..Len(new) /\ Len(pool) + (i - Len(pool)) = i
      BY <1>2, <1>6, <3>2, <3>3
    <3> QED
      BY <3>1, <3>2, <3>4
  <2>3. CASE \E x \in 1..Len(new) : c = new[x]
    <3>1. c.val = mem[q] /\ mem[q] # None
      BY <1>4, <1>5, <1>6, <2>1, <2>3 DEF PlainInv
    <3>2. mem[q].size \in Nat
      BY <1>2, <3>1 DEF Value
    <3> QED
      BY <1>1, <3>1, <3>2 DEF SizeOf
  <2>4. CASE c \in Under(q)
    BY <1>1, <2>4 DEF PlainInv
  <2> QED
    BY <2>1, <2>2, <2>3, <2>4 DEF Under
<1> QED
  BY <1>1, <1>9, <1>10 DEF PlainInv

\* The worker thread and the loop start no chain.
LEMMA StepPlain ==
  ASSUME TypeOK, PlainInv, PoolStep \/ Callback
  PROVE  PlainInv'
<1>1. UNCHANGED <<mem, queue, plain, raced>>
  BY DEF PoolStep, Callback
<1>2. ASSUME NEW q, NEW c \in Under(q)' PROVE \E b \in Under(q) : b.val = c.val
  <2>1. pool \in Seq(Chain) /\ done \in Seq(Chain)
    BY DEF TypeOK
  <2>2. (c \in Range(pool') \/ c \in Range(done')) /\ c.key = q
    BY DEF Under, Range
  <2>3. CASE PoolStep
    <3>1. pool # <<>> /\ pool' = Tail(pool) /\ done' = Append(done, Head(pool))
      BY <2>3 DEF PoolStep
    <3>2. Range(pool') \subseteq Range(pool)
      BY <2>1, <3>1 DEF Range
    <3>3. Range(done') \subseteq Range(done) \cup {Head(pool)} /\ Head(pool) \in Range(pool)
      BY <2>1, <3>1 DEF Range
    <3> QED
      BY <2>2, <3>2, <3>3 DEF Under
  <2>4. CASE Callback
    <3> DEFINE h == Head(done)
               e == [h EXCEPT !.op = Following[h.op]]
    <3>1. /\ done # <<>> /\ done' = Tail(done)
          /\ pool' = pool \/ pool' = Append(pool, e)
      BY <2>4 DEF Callback
    <3>2. h \in Range(done) /\ h \in Chain /\ Range(done') \subseteq Range(done)
      BY <2>1, <3>1 DEF Range
    <3>3. e.key = h.key /\ e.val = h.val
      BY <3>2 DEF Chain
    <3> HIDE DEF h, e
    <3>4. Range(pool') \subseteq Range(pool) \cup {e}
      BY <2>1, <3>1 DEF Range
    <3> QED
      BY <2>2, <3>2, <3>3, <3>4 DEF Under
  <2> QED
    BY <2>3, <2>4
<1> QED
  BY <1>1, <1>2 DEF PlainInv

LEMMA PlainKept == TypeOK /\ TypeOK' /\ PlainInv /\ [Next]_vars => PlainInv'
<1> SUFFICES ASSUME TypeOK, TypeOK', PlainInv, plain', [Next]_vars PROVE PlainInv'
  BY DEF PlainInv
<1>1. stores + 1 \in Nat /\ \A n \in 0..MaxSize : n \in Nat
  BY StorageBounds DEF TypeOK
<1>2. ASSUME NEW k \in Keys PROVE SizeOf(mem[k]) \in Nat
  BY SizeOfType DEF TypeOK
<1>3. ASSUME NEW k \in Keys, NEW n \in 0..MaxSize, Store(k, n) PROVE PlainInv'
  <2> DEFINE v == [ver |-> stores + 1, size |-> n]
  <2>1. v \in Value /\ v.size = n
    BY <1>1, ValueType
  <2>2. plain /\ n >= SizeOf(mem[k]) /\ Enqueue(k) /\ Save(k, v)
    BY <1>3 DEF Store, NextVersion
  <2> HIDE DEF v
  <2> QED
    BY <2>1, <2>2, SavePlain
<1>4. ASSUME NEW k \in Keys, Push(k) PROVE PlainInv'
  <2> DEFINE v == [ver |-> stores + 1, size |-> SizeOf(mem[k]) + 1]
  <2>1. v \in Value /\ v.size >= SizeOf(mem[k])
    BY <1>1, <1>2, ValueType
  <2>2. plain /\ Enqueue(k) /\ Save(k, v)
    BY <1>4 DEF Push, NextVersion
  <2> HIDE DEF v
  <2> QED
    BY <2>1, <2>2, SavePlain
<1>5. ASSUME NEW k \in Keys, Pull(k) PROVE PlainInv'
  <2>1. /\ mem[k] = None /\ mem' = [mem EXCEPT ![k] = [ver |-> 0, size |-> 0]]
        /\ UNCHANGED <<queue, pool, done, plain, raced>>
    BY <1>5 DEF Pull
  <2>2. [ver |-> 0, size |-> 0] # None
    BY NoneIsNoRecord DEF Value
  <2>3. \A q \in Keys : SizeOf(mem'[q]) = SizeOf(mem[q]) /\ (mem[q] # None => mem'[q] # None)
    BY <2>1, <2>2 DEF SizeOf, TypeOK
  <2>4. \A q : Under(q)' = Under(q)
    BY <2>1 DEF Under, Range
  <2> QED
    BY <2>1, <2>3, <2>4 DEF PlainInv, TypeOK
<1>6. ASSUME NEW k \in Keys, Delete(k) PROVE PlainInv'
  BY <1>6 DEF Delete
<1>7. CASE Tick
  BY <1>7, TickPlain DEF Tick
<1>8. CASE PoolStep \/ Callback
  BY <1>8, StepPlain
<1>9. CASE Restart
  <2>1. raced' = {} /\ queue' = {} /\ pool' = <<>> /\ done' = <<>>
    BY <1>9 DEF Restart
  <2>2. \A q : Under(q)' = {}
    BY <2>1 DEF Under, Range
  <2> QED
    BY <2>1, <2>2 DEF PlainInv
<1>10. CASE UNCHANGED vars
  <2>1. \A q : Under(q)' = Under(q)
    BY <1>10 DEF vars, Under, Range
  <2> QED
    BY <1>10, <2>1 DEF vars, PlainInv
<1> QED
  BY <1>3, <1>4, <1>5, <1>6, <1>7, <1>8, <1>9, <1>10 DEF Next

\* A record that was saved, and of which no operation is under way, is what the
\* process finds when it starts again, whenever it ended (json_storage_load,
\* json_file.c:271), as long as nothing was deleted or got shorter.
THEOREM RestartKeepsAlways == Spec => RestartKeeps
<1>1. Init => PlainInv
  BY DEF Init, PlainInv, Under, Range
<1>2. TypeOK /\ RaceInv /\ PlainInv /\ [Next]_vars =>
        [Restart /\ plain => \A k \in Keys : mem[k] # None /\ mem[k].ver # 0 /\ Under(k) = {} =>
                               mem'[k] = mem[k]]_vars
  <2> SUFFICES ASSUME TypeOK, RaceInv, PlainInv, Restart, plain, NEW k \in Keys,
                      mem[k] # None, mem[k].ver # 0, Under(k) = {}
               PROVE  mem'[k] = mem[k]
    OBVIOUS
  <2>1. k \in Keys \ raced /\ Saved(k)
    BY DEF PlainInv, Saved
  <2>2. Found(k) = mem[k]
    BY <2>1, FoundIsRecord
  <2> QED
    BY <2>2 DEF Restart
<1> QED
  BY <1>1, <1>2, InitLast, RaceKept, PlainKept, TypeCorrect, PTL DEF Spec, RestartKeeps
=============================================================================
