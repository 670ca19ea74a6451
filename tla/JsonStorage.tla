----------------------------- MODULE JsonStorage -----------------------------
(***************************************************************************)
(* The storage provider of sdk/src/storage/json_file.c. Records live in    *)
(* memory and each has a file. Every change of a record saves it at once   *)
(* and once more at the next tick of the save timer. A save is a chain of  *)
(* asynchronous file operations (mkdir, open, write, close), each queued   *)
(* by the callback of the one before; the broker allows libuv one worker   *)
(* thread, which takes the operations in the order they were queued. A     *)
(* delete unlinks the file synchronously.                                  *)
(*                                                                         *)
(* A value is its version and its size; an operation is assumed not to     *)
(* fail.                                                                   *)
(***************************************************************************)
EXTENDS Integers, Sequences, SequencesExt, FiniteSets

CONSTANTS
  Keys,        \* (group, key) pairs
  None,        \* no record, no file, no content
  WaitMax,     \* UINT_MAX
  MaxStores,   \* bound: changes of records
  MaxSize,     \* bound: size of a value
  MaxChains    \* bound: chains under way when a change or a tick comes

ASSUME StorageBounds == WaitMax \in Nat /\ MaxStores \in Nat /\ MaxSize \in Nat
                        /\ MaxChains \in Nat
ASSUME KeysAreFew    == IsFiniteSet(Keys) /\ Cardinality(Keys) <= WaitMax

VARIABLES
  mem,      \* store->root: the record of each key
  queue,    \* store->save_queue: the keys to be saved again
  waiting,  \* store->waiting, an unsigned counter
  timer,    \* store->timer_setup
  pool,     \* operations queued for the worker thread
  done,     \* operations whose callback has not run yet
  file,     \* the file of each key
  stores,   \* how many changes were made
  plain,    \* history: no record was deleted yet, and none got shorter
  raced     \* history: the keys whose last save or delete overlapped a longer save

vars == <<mem, queue, waiting, timer, pool, done, file, stores, plain, raced>>

Value == [ver : Nat, size : Nat]
\* A chain that has opened the file of its key writes to that file, also when
\* the file has been unlinked since (gone).
Chain == [key : Keys, op : {"mkdir", "open", "write", "close"}, val : Value, gone : BOOLEAN]
\* What a file holds: the value written last, over len items of whatever was
\* there before.
File == [val : Value \cup {None}, len : Nat]

ASSUME NoneIsNoRecord == None \notin Value /\ None \notin File

SizeOf(v) == IF v = None THEN 0 ELSE v.size
Whole(f) == f # None /\ f.val # None /\ f.len = f.val.size + 1
Under(k) == {c \in Range(pool) \cup Range(done) : c.key = k}
\* What json_storage_load reads from the file of k: nothing of one that does not parse
Found(k) == IF Whole(file[k]) THEN file[k].val ELSE None

\* The keys of K, whose records are those of m, are saved or unlinked: with no save
\* of a key under way that ends every race; a delete, or a save of less than one
\* under way writes, begins one.
RacedBy(K, m) ==
  {k \in Keys :
     IF k \in K
       THEN \E c \in Under(k) : k \in raced \/ m[k] = None \/ m[k].size < c.val.size
       ELSE k \in raced}

NewChain(k, v) == [key |-> k, op |-> "mkdir", val |-> v, gone |-> FALSE]
Decrement(n) == IF n = 0 THEN WaitMax ELSE n - 1

-----------------------------------------------------------------------------
\* Mutant: the value is encoded before it is set.
SaveTooEarly(k, v) ==
  /\ mem' = [mem EXCEPT ![k] = v] /\ timer' = TRUE
  /\ pool' = Append(pool, NewChain(k, IF mem[k] = None THEN v ELSE mem[k]))
  /\ raced' = RacedBy({k}, mem')
  /\ UNCHANGED <<waiting, done, file>>
\* A record becomes v: json_storage_trigger_save starts a chain
Save(k, v) ==
  /\ mem' = [mem EXCEPT ![k] = v] /\ timer' = TRUE
  /\ pool' = Append(pool, NewChain(k, v))
  /\ raced' = RacedBy({k}, mem')
  /\ UNCHANGED <<waiting, done, file>>

\* uv_fs_unlink of the files of K: chains that have one open keep writing to it
\* unseen. Chains of s are past ops when they have their file open.
Unlinked(K) == [k \in Keys |-> IF k \in K THEN None ELSE file[k]]
Detached(s, ops, K) ==
  [i \in DOMAIN s |-> IF s[i].key \in K /\ s[i].op \in ops
                        THEN [s[i] EXCEPT !.gone = TRUE] ELSE s[i]]
QueuedWithFile == {"write", "close"}
DoneWithFile   == {"open", "write", "close"}

\* json_storage_trigger_save of a record that is gone
Unlink(k) ==
  /\ mem' = [mem EXCEPT ![k] = None] /\ timer' = TRUE
  /\ waiting' = Decrement(waiting)
  /\ file' = Unlinked({k})
  /\ pool' = Detached(pool, QueuedWithFile, {k})
  /\ done' = Detached(done, DoneWithFile, {k})
  /\ raced' = RacedBy({k}, mem')

Enqueue(k) == queue' = queue \cup {k}

Room == stores < MaxStores /\ Len(pool) + Len(done) < MaxChains
NextVersion == stores + 1

\* json_storage_store
Store(k, n) ==
  /\ Room /\ stores' = NextVersion
  /\ plain' = (plain /\ n >= SizeOf(mem[k]))
  /\ Enqueue(k) /\ Save(k, [ver |-> NextVersion, size |-> n])

\* json_storage_store of NULL
Delete(k) ==
  /\ Room /\ stores' = NextVersion /\ plain' = FALSE
  /\ Enqueue(k) /\ Unlink(k)

\* json_storage_push: one more element in the array, which is made if need be
Push(k) ==
  LET n == SizeOf(mem[k]) + 1 IN
  /\ Room /\ stores' = NextVersion /\ n <= MaxSize /\ UNCHANGED plain
  /\ Enqueue(k) /\ Save(k, [ver |-> NextVersion, size |-> n])

\* json_storage_pull: one element less, or an empty array that is not saved
Pull(k) ==
  \/ /\ Room /\ SizeOf(mem[k]) > 0 /\ stores' = NextVersion /\ plain' = FALSE
     /\ Enqueue(k) /\ Save(k, [ver |-> NextVersion, size |-> mem[k].size - 1])
  \/ /\ mem[k] = None
     /\ mem' = [mem EXCEPT ![k] = [ver |-> 0, size |-> 0]]
     /\ UNCHANGED <<queue, waiting, timer, pool, done, file, stores, plain, raced>>

Orders(K) == {s \in [1..Cardinality(K) -> K] : IsInjective(s)}

\* Mutant: the save queue is not cleared.
TickKeepsQueue ==
  LET deleted == {k \in queue : mem[k] = None} IN
  \E saves \in Orders(queue \ deleted) :
  /\ timer /\ waiting = 0 /\ Len(pool) + Len(done) < MaxChains
  /\ pool' = Detached(pool, QueuedWithFile, deleted)
               \o [i \in DOMAIN saves |-> NewChain(saves[i], mem[saves[i]])]
  /\ done' = Detached(done, DoneWithFile, deleted)
  /\ file' = Unlinked(deleted)
  /\ waiting' = Len(saves)
  /\ raced' = RacedBy(queue, mem)
  /\ UNCHANGED <<queue, mem, timer, stores, plain>>
\* json_storage_handle_save_tick: everything in the queue is saved again, and
\* counted, in the order they were queued. A record deleted since is counted down
\* and up.
Tick ==
  LET deleted == {k \in queue : mem[k] = None} IN
  \E saves \in Orders(queue \ deleted) :
  /\ timer /\ waiting = 0 /\ Len(pool) + Len(done) < MaxChains
  /\ pool' = Detached(pool, QueuedWithFile, deleted)
               \o [i \in DOMAIN saves |-> NewChain(saves[i], mem[saves[i]])]
  /\ done' = Detached(done, DoneWithFile, deleted)
  /\ file' = Unlinked(deleted)
  /\ waiting' = Len(saves)
  /\ raced' = RacedBy(queue, mem)
  /\ queue' = {}
  /\ UNCHANGED <<mem, timer, stores, plain>>

-----------------------------------------------------------------------------
\* What an operation does to the file of its key: open creates or truncates
\* it, write overwrites it from the start.
Longer(m, n) == IF m > n THEN m ELSE n
Effect(c) ==
  CASE c.op = "open"             -> [file EXCEPT ![c.key] = [val |-> None, len |-> 0]]
    [] c.op = "write" /\ ~c.gone -> [file EXCEPT ![c.key] =
                                      [val |-> c.val, len |-> Longer(@.len, c.val.size + 1)]]
    [] OTHER                     -> file

\* Mutant: a second worker takes any operation that is queued.
PoolStepAny ==
  \E i \in DOMAIN pool :
    /\ file' = Effect(pool[i])
    /\ pool' = RemoveAt(pool, i) /\ done' = Append(done, pool[i])
    /\ UNCHANGED <<mem, queue, waiting, timer, stores, plain, raced>>
\* The worker thread executes the operation that was queued first.
PoolStep ==
  /\ pool # <<>>
  /\ file' = Effect(Head(pool))
  /\ pool' = Tail(pool) /\ done' = Append(done, Head(pool))
  /\ UNCHANGED <<mem, queue, waiting, timer, stores, plain, raced>>

Following == [mkdir |-> "open", open |-> "write", write |-> "close"]

\* Mutant: the end of a chain is not counted.
CallbackUncounted ==
  LET c == Head(done) IN
  /\ done # <<>> /\ done' = Tail(done)
  /\ pool' = IF c.op = "close" THEN pool ELSE Append(pool, [c EXCEPT !.op = Following[c.op]])
  /\ UNCHANGED <<mem, queue, waiting, timer, file, stores, plain, raced>>
\* The loop runs a callback: json_storage_init_open_write, json_file_open_write,
\* json_file_ignore_write or fs_close_cb
Callback ==
  LET c == Head(done) IN
  /\ done # <<>> /\ done' = Tail(done)
  /\ IF c.op = "close"
       THEN /\ waiting' = IF waiting > 0 THEN waiting - 1 ELSE 0
            /\ pool' = pool
       ELSE /\ pool' = Append(pool, [c EXCEPT !.op = Following[c.op]])
            /\ waiting' = waiting
  /\ UNCHANGED <<mem, queue, timer, file, stores, plain, raced>>

\* The process ends, at any moment, and starts again: json_storage_load reads
\* the files that parse.
Restart ==
  /\ mem' = [k \in Keys |-> Found(k)]
  /\ queue' = {} /\ waiting' = 0 /\ timer' = FALSE /\ pool' = <<>> /\ done' = <<>>
  /\ raced' = {}
  /\ UNCHANGED <<file, stores, plain>>

Init ==
  /\ mem = [k \in Keys |-> None] /\ file = [k \in Keys |-> None]
  /\ queue = {} /\ waiting = 0 /\ timer = FALSE
  /\ pool = <<>> /\ done = <<>> /\ stores = 0 /\ plain = TRUE /\ raced = {}

Next ==
  \/ \E k \in Keys : (\E n \in 0..MaxSize : Store(k, n)) \/ Delete(k) \/ Push(k) \/ Pull(k)
  \/ Tick
  \/ PoolStep
  \/ Callback
  \/ Restart

Spec == Init /\ [][Next]_vars

\* The worker thread and the loop go on, and the timer repeats.
FairSpec == Spec /\ WF_vars(PoolStep) /\ WF_vars(Callback) /\ WF_vars(Tick)

-----------------------------------------------------------------------------
(***************************************************************************)
(* Properties.                                                             *)
(***************************************************************************)
FilesOpen(s, ops, f) ==
  \A i \in DOMAIN s : s[i].op \in ops /\ ~s[i].gone => f[s[i].key] # None

\* The type of every variable. A chain that has its file open, and whose file
\* was not unlinked since, has a file.
TypeOK ==
  /\ mem \in [Keys -> Value \cup {None}]
  /\ file \in [Keys -> File \cup {None}]
  /\ queue \subseteq Keys
  /\ waiting \in 0..WaitMax /\ timer \in BOOLEAN
  /\ pool \in Seq(Chain) /\ done \in Seq(Chain)
  /\ FilesOpen(pool, QueuedWithFile, file) /\ FilesOpen(done, DoneWithFile, file)
  /\ stores \in Nat /\ plain \in BOOLEAN /\ raced \subseteq Keys

\* A record was stored, and not only made in memory by a pull.
Saved(k) == mem[k] # None /\ mem[k].ver # 0

\* When no operation of a key is under way, the value its file took last is the
\* record: chains of one key end in the order they were started. Unless the last
\* save overlapped one of a longer value, or the delete a save, the file also
\* holds nothing else, so a restart would read exactly the record, and would not
\* find a record that was deleted.
LastWriteWins ==
  \A k \in Keys : Under(k) = {} =>
    /\ Saved(k) => file[k] # None /\ file[k].val = mem[k]
    /\ k \notin raced => Found(k) \in IF Saved(k) THEN {mem[k]} ELSE {None, mem[k]}

\* A record that was saved and of which no operation is under way survives the
\* end of the process, as long as nothing was deleted and no value got shorter.
RestartKeeps ==
  [][Restart /\ plain => \A k \in Keys : mem[k] # None /\ mem[k].ver # 0 /\ Under(k) = {} =>
                            mem'[k] = mem[k]]_vars

\* As long as nothing was deleted, the counter that holds the save timer back
\* never exceeds the chains that will count it down.
WaitingCovered == plain => waiting <= Len(pool) + Len(done)

\* A key in the save queue is saved by a tick, unless a record is deleted or gets
\* shorter before.
QueueSaved == \A k \in Keys : (k \in queue /\ plain) ~> (k \notin queue \/ ~plain)
=============================================================================
