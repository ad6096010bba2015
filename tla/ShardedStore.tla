---------------------------- MODULE ShardedStore ----------------------------
(***************************************************************************)
(* Storage (internal/database/storage/storage.go) over the sharded engine  *)
(* (engine/inmemory): a key belongs to the shard its hash selects, every   *)
(* shard has a map and a read-write mutex.  Callers are the goroutines     *)
(* that execute queries and, on a slave, the one that applies rows.        *)
(***************************************************************************)
EXTENDS Naturals

CONSTANTS
  Callers, Keys, Values,
  Absent,    \* the key is not in the map
  Empty,     \* the empty string
  NumShards, \* engine.shards
  Hash,      \* fnv64a of a key
  NoCaller   \* no writer holds the mutex

ASSUME ShardedStoreAssumption ==
  /\ NumShards \in Nat \ {0}
  /\ Hash \in [Keys -> Nat]
  /\ Absent \notin Values \cup {Empty} /\ "canceled" \notin Values
  /\ NoCaller \notin Callers

Ops == [name : {"get"}, key : Keys] \cup [name : {"put"}, key : Keys, val : Values \cup {Absent}]
ShardIds == 0..(NumShards - 1)

VARIABLES
  shards,   \* shards[i][k]: the map of shard i
  writer,   \* writer[i]: who holds the mutex of shard i for writing
  readers,  \* readers[i]: who holds it for reading
  ctxDone,  \* the context is canceled
  pc, call, result

vars == <<shards, writer, readers, ctxDone, pc, call, result>>

Init ==
  /\ shards = [i \in ShardIds |-> [k \in Keys |-> Absent]]
  /\ writer = [i \in ShardIds |-> NoCaller] /\ readers = [i \in ShardIds |-> {}]
  /\ ctxDone = FALSE
  /\ pc = [g \in Callers |-> "idle"]
  /\ call \in [Callers -> Ops] /\ result = [g \in Callers |-> Empty]

\* Mutant: the last shard is never used by a reader.
ShardForReaders(g) ==
  IF call[g].name = "get" /\ NumShards > 1 THEN Hash[call[g].key] % (NumShards - 1)
                                           ELSE Hash[call[g].key] % NumShards

getShard(g) == Hash[call[g].key] % NumShards

Begin(g, op) ==
  /\ pc[g] = "idle"
  /\ call' = [call EXCEPT ![g] = op]
  /\ pc' = [pc EXCEPT ![g] = "called"]
  /\ UNCHANGED <<shards, writer, readers, ctxDone, result>>

\* Mutant: a canceled call is tried again.
CanceledRetries(g) ==
  /\ pc[g] = "called" /\ ctxDone
  /\ UNCHANGED vars

\* Storage checks the context before it calls the engine.
Canceled(g) ==
  /\ pc[g] = "called" /\ ctxDone
  /\ result' = [result EXCEPT ![g] = "canceled"]
  /\ pc' = [pc EXCEPT ![g] = "idle"]
  /\ UNCHANGED <<shards, writer, readers, ctxDone, call>>

\* The check passed; the context may be canceled from now on, to no effect.
CheckCtx(g) ==
  /\ pc[g] = "called" /\ ~ctxDone
  /\ pc' = [pc EXCEPT ![g] = "lock"]
  /\ UNCHANGED <<shards, writer, readers, ctxDone, call, result>>

\* Mutant: Set and Del take the mutex for reading.
RLockAlways(g) ==
  LET i == getShard(g) IN
  /\ pc[g] = "lock" /\ writer[i] = NoCaller
  /\ readers' = [readers EXCEPT ![i] = @ \cup {g}]
  /\ UNCHANGED writer
  /\ pc' = [pc EXCEPT ![g] = "locked"]
  /\ UNCHANGED <<shards, ctxDone, call, result>>

\* RLock for Get, Lock for Set and Del.
Lock(g) ==
  LET i == getShard(g) IN
  /\ pc[g] = "lock" /\ writer[i] = NoCaller
  /\ \/ /\ call[g].name = "get"
        /\ readers' = [readers EXCEPT ![i] = @ \cup {g}]
        /\ UNCHANGED writer
     \/ /\ call[g].name = "put" /\ readers[i] = {}
        /\ writer' = [writer EXCEPT ![i] = g]
        /\ UNCHANGED readers
  /\ pc' = [pc EXCEPT ![g] = "locked"]
  /\ UNCHANGED <<shards, ctxDone, call, result>>

\* The access to the map; Storage.Get turns "not found" into "".
Access(g) ==
  LET i == getShard(g)
      k == call[g].key IN
  /\ pc[g] = "locked"
  /\ \/ /\ call[g].name = "get"
        /\ result' = [result EXCEPT ![g] = IF shards[i][k] = Absent THEN Empty ELSE shards[i][k]]
        /\ UNCHANGED shards
     \/ /\ call[g].name = "put"
        /\ shards' = [shards EXCEPT ![i] = [@ EXCEPT ![k] = call[g].val]]
        /\ UNCHANGED result
  /\ pc' = [pc EXCEPT ![g] = "unlock"]
  /\ UNCHANGED <<writer, readers, ctxDone, call>>

Unlock(g) ==
  LET i == getShard(g) IN
  /\ pc[g] = "unlock"
  /\ \/ /\ call[g].name = "get"
        /\ readers' = [readers EXCEPT ![i] = @ \ {g}]
        /\ UNCHANGED writer
     \/ /\ call[g].name = "put"
        /\ writer' = [writer EXCEPT ![i] = NoCaller]
        /\ UNCHANGED readers
  /\ pc' = [pc EXCEPT ![g] = "idle"]
  /\ UNCHANGED <<shards, ctxDone, call, result>>

CancelCtx ==
  /\ ~ctxDone
  /\ ctxDone' = TRUE
  /\ UNCHANGED <<shards, writer, readers, pc, call, result>>

Step(g) == Canceled(g) \/ CheckCtx(g) \/ Lock(g) \/ Access(g) \/ Unlock(g)

BeginAny(g) == \E op \in Ops : Begin(g, op)

Next == (\E g \in Callers : BeginAny(g) \/ Step(g)) \/ CancelCtx

Spec == Init /\ [][Next]_vars

\* A goroutine in a call goes on; a mutex that is released again and again is
\* granted to a waiter in the end (Go's RWMutex lets no side starve).
Fairness ==
  \A g \in Callers : /\ WF_vars(Canceled(g)) /\ WF_vars(CheckCtx(g))
                     /\ SF_vars(Lock(g)) /\ WF_vars(Access(g)) /\ WF_vars(Unlock(g))

FairSpec == Spec /\ Fairness
-----------------------------------------------------------------------------
\* Two goroutines that are at the map of a shard at the same time both read:
\* Go aborts the process on concurrent map writes (inmenory.go:36-38, 60-62).
RaceFree ==
  \A g, h \in Callers :
    /\ g # h /\ getShard(g) = getShard(h)
    /\ pc[g] \in {"locked", "unlock"} /\ pc[h] \in {"locked", "unlock"}
    => call[g].name = "get" /\ call[h].name = "get"

KV == INSTANCE KVStore WITH
  store <- [k \in Keys |-> shards[Hash[k] % NumShards][k]],
  stage <- [g \in Callers |-> IF pc[g] \in {"lock", "locked"} THEN "called"
                              ELSE IF pc[g] = "unlock" THEN "done" ELSE pc[g]]

\* The sharded engine is one linearizable map: every call takes effect at one
\* moment, on the shard of its key, and a canceled call has none.
ImplementsKVStore == KV!KVSpec

\* Every call returns, canceled or not: no mutex stays locked.
EveryCallReturns == \A g \in Callers : pc[g] # "idle" ~> pc[g] = "idle"
=============================================================================
