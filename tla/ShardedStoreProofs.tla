------------------------- MODULE ShardedStoreProofs -------------------------
(***************************************************************************)
(* Proofs about ShardedStore, for any callers, keys, hash function and     *)
(* number of shards: the maps are never accessed by a writer and another   *)
(* goroutine at once, and the engine is one linearizable map.              *)
(***************************************************************************)
EXTENDS ShardedStore, TLAPS

StateType ==
  /\ shards \in [ShardIds -> [Keys -> Values \cup {Absent}]]
  /\ writer \in [ShardIds -> Callers \cup {NoCaller}]
  /\ readers \in [ShardIds -> SUBSET Callers]
  /\ ctxDone \in BOOLEAN
  /\ pc \in [Callers -> {"idle", "called", "lock", "locked", "unlock"}]
  /\ call \in [Callers -> Ops]
  /\ result \in [Callers -> Values \cup {Empty, "canceled"}]

\* g is between RLock or Lock and its Unlock.
Holding(g) == pc[g] \in {"locked", "unlock"}

\* What a read-write mutex guarantees, and that a goroutine at the map of a shard
\* holds the mutex of that shard, in the mode of its call.
MutexInv ==
  /\ \A g \in Callers : Holding(g) =>
       /\ call[g].name = "put" => writer[getShard(g)] = g
       /\ call[g].name = "get" => g \in readers[getShard(g)]
  /\ \A i \in ShardIds : writer[i] # NoCaller => readers[i] = {}

\* The hash of every key selects one of the shards (inmenory.go, getShard).
LEMMA ShardExists == \A k \in Keys : Hash[k] % NumShards \in ShardIds
  BY ShardedStoreAssumption DEF ShardIds

\* What a call is: its key, its name, and for a put its value.
LEMMA OpFields ==
  ASSUME NEW op \in Ops
  PROVE  /\ op.key \in Keys
         /\ op.name \in {"get", "put"}
         /\ op.name = "put" => op.val \in Values \cup {Absent}
  BY DEF Ops

\* A new store has the types of the state.
LEMMA TypeInit == Init => StateType
<1> SUFFICES ASSUME Init PROVE StateType
  OBVIOUS
<1>1. /\ shards \in [ShardIds -> [Keys -> Values \cup {Absent}]]
      /\ writer \in [ShardIds -> Callers \cup {NoCaller}]
      /\ readers \in [ShardIds -> SUBSET Callers]
  BY DEF Init
<1>2. ctxDone \in BOOLEAN /\ call \in [Callers -> Ops]
  BY DEF Init
<1>3. pc \in [Callers -> {"idle", "called", "lock", "locked", "unlock"}]
  BY DEF Init
<1>4. result \in [Callers -> Values \cup {Empty, "canceled"}]
  BY DEF Init
<1> QED
  BY <1>1, <1>2, <1>3, <1>4 DEF StateType

\* Every step of a call, and the cancellation, keeps the types.
LEMMA TypeStep == StateType /\ [Next]_vars => StateType'
<1> SUFFICES ASSUME StateType, [Next]_vars PROVE StateType'
  OBVIOUS
<1> USE DEF StateType
<1>0. ASSUME NEW g \in Callers
      PROVE  getShard(g) \in ShardIds /\ call[g].key \in Keys
  BY ShardExists, OpFields DEF getShard
<1>1. ASSUME NEW g \in Callers, NEW op \in Ops, Begin(g, op) PROVE StateType'
  BY <1>1 DEF Begin
<1>2. ASSUME NEW g \in Callers, Canceled(g) PROVE StateType'
  BY <1>2 DEF Canceled
<1>3. ASSUME NEW g \in Callers, CheckCtx(g) PROVE StateType'
  BY <1>3 DEF CheckCtx
<1>4. ASSUME NEW g \in Callers, Lock(g) PROVE StateType'
  <2>1. getShard(g) \in ShardIds
    BY <1>0
  <2>2. UNCHANGED <<shards, ctxDone, call, result>> /\ pc' = [pc EXCEPT ![g] = "locked"]
    BY <1>4 DEF Lock
  <2>3. /\ writer' \in [ShardIds -> Callers \cup {NoCaller}]
        /\ readers' \in [ShardIds -> SUBSET Callers]
    <3> HIDE DEF StateType
    <3>1. \/ readers' = [readers EXCEPT ![getShard(g)] = @ \cup {g}] /\ writer' = writer
          \/ writer' = [writer EXCEPT ![getShard(g)] = g] /\ readers' = readers
      BY <1>4 DEF Lock
    <3>2. /\ writer \in [ShardIds -> Callers \cup {NoCaller}]
          /\ readers \in [ShardIds -> SUBSET Callers]
      BY DEF StateType
    <3> QED
      BY <2>1, <3>1, <3>2
  <2> QED
    BY <2>2, <2>3
<1>5. ASSUME NEW g \in Callers, Access(g) PROVE StateType'
  <2>1. call[g] \in Ops
    OBVIOUS
  <2>2. CASE call[g].name = "get"
    <3>1. PICK v : v = shards[getShard(g)][call[g].key]
      OBVIOUS
    <3>2. v \in Values \cup {Absent}
      BY <1>0, <3>1
    <3>3. /\ UNCHANGED <<shards, writer, readers, ctxDone, call>>
          /\ pc' = [pc EXCEPT ![g] = "unlock"]
          /\ result' = [result EXCEPT ![g] = IF v = Absent THEN Empty ELSE v]
      BY <1>5, <2>2, <3>1 DEF Access
    <3>4. result' \in [Callers -> Values \cup {Empty, "canceled"}]
      BY <3>2, <3>3
    <3> QED
      BY <3>3, <3>4
  <2>3. CASE call[g].name = "put"
    <3>1. call[g].val \in Values \cup {Absent}
      BY <2>1, <2>3, OpFields
    <3>2. /\ UNCHANGED <<writer, readers, ctxDone, call, result>>
          /\ pc' = [pc EXCEPT ![g] = "unlock"]
          /\ shards' = [shards EXCEPT ![getShard(g)] = [@ EXCEPT ![call[g].key] = call[g].val]]
      BY <1>5, <2>3 DEF Access
    <3>3. shards' \in [ShardIds -> [Keys -> Values \cup {Absent}]]
      <4> HIDE DEF StateType
      <4>1. PICK i \in ShardIds, k \in Keys, v \in Values \cup {Absent} :
              shards' = [shards EXCEPT ![i] = [@ EXCEPT ![k] = v]]
        BY <1>0, <3>1, <3>2
      <4>2. shards \in [ShardIds -> [Keys -> Values \cup {Absent}]]
        BY DEF StateType
      <4> QED
        BY <4>1, <4>2
    <3> QED
      BY <3>2, <3>3
  <2> QED
    BY <2>1, <2>2, <2>3, OpFields
<1>6. ASSUME NEW g \in Callers, Unlock(g) PROVE StateType'
  BY <1>0, <1>6 DEF Unlock
<1>7. CASE CancelCtx
  BY <1>7 DEF CancelCtx
<1>8. CASE UNCHANGED vars
  BY <1>8 DEF vars
<1> QED
  BY <1>1, <1>2, <1>3, <1>4, <1>5, <1>6, <1>7, <1>8 DEF Next, BeginAny, Step

\* Every step keeps the discipline of the mutexes.
LEMMA MutexStep == StateType /\ MutexInv /\ [Next]_vars => MutexInv'
<1> SUFFICES ASSUME StateType, MutexInv, [Next]_vars PROVE MutexInv'
  OBVIOUS
<1> USE DEF MutexInv, Holding, getShard
<1>0. ASSUME NEW g \in Callers PROVE getShard(g) \in ShardIds /\ call[g].name \in {"get", "put"}
  BY ShardExists, OpFields DEF StateType
<1>1. ASSUME NEW g \in Callers, NEW op \in Ops, Begin(g, op) PROVE MutexInv'
  BY <1>1 DEF Begin, StateType
<1>2. ASSUME NEW g \in Callers, Canceled(g) \/ CheckCtx(g) PROVE MutexInv'
  BY <1>2 DEF Canceled, CheckCtx, StateType
<1>3. ASSUME NEW g \in Callers, Lock(g) PROVE MutexInv'
  <2>1. /\ pc[g] = "lock" /\ pc' = [pc EXCEPT ![g] = "locked"] /\ call' = call
        /\ getShard(g) \in ShardIds /\ writer[getShard(g)] = NoCaller /\ g # NoCaller
    BY <1>0, <1>3, ShardedStoreAssumption DEF Lock
  <2>2. CASE call[g].name = "get"
    <3>1. writer' = writer /\ readers' = [readers EXCEPT ![getShard(g)] = @ \cup {g}]
      BY <1>3, <2>2 DEF Lock
    <3> QED
      BY <1>0, <2>1, <2>2, <3>1 DEF StateType
  <2>3. CASE call[g].name = "put"
    <3>1. /\ writer' = [writer EXCEPT ![getShard(g)] = g] /\ readers' = readers
          /\ readers[getShard(g)] = {}
      BY <1>3, <2>3 DEF Lock
    <3>2. \A q \in Callers : Holding(q) => getShard(q) # getShard(g)
      BY <1>0, <2>1, <3>1, ShardedStoreAssumption, SMTT(20)
    <3> QED
      BY <1>0, <2>1, <2>3, <3>1, <3>2 DEF StateType
  <2> QED
    BY <1>0, <2>2, <2>3
<1>4. ASSUME NEW g \in Callers, Access(g) PROVE MutexInv'
  BY <1>4 DEF Access, StateType
<1>5. ASSUME NEW g \in Callers, Unlock(g) PROVE MutexInv'
  <2>1. /\ pc[g] = "unlock" /\ pc' = [pc EXCEPT ![g] = "idle"] /\ call' = call
        /\ getShard(g) \in ShardIds
    BY <1>0, <1>5 DEF Unlock
  <2>2. CASE call[g].name = "get"
    <3>1. writer' = writer /\ readers' = [readers EXCEPT ![getShard(g)] = @ \ {g}]
      BY <1>5, <2>2 DEF Unlock
    <3> QED
      BY <1>0, <2>1, <3>1 DEF StateType
  <2>3. CASE call[g].name = "put"
    <3>1. writer' = [writer EXCEPT ![getShard(g)] = NoCaller] /\ readers' = readers
      BY <1>5, <2>3 DEF Unlock
    <3>2. writer[getShard(g)] = g
      BY <2>1, <2>3
    <3> QED
      BY <1>0, <2>1, <3>1, <3>2 DEF StateType
  <2> QED
    BY <1>0, <2>2, <2>3
<1>6. CASE CancelCtx \/ UNCHANGED vars
  BY <1>6 DEF CancelCtx, vars
<1> QED
  BY <1>1, <1>2, <1>3, <1>4, <1>5, <1>6 DEF Next, BeginAny, Step

\* The invariant of the mutexes, in one place for the theorems.
LEMMA MutexAlways == Spec => [](StateType /\ MutexInv)
<1>1. Init => MutexInv
  BY DEF Init, MutexInv, Holding
<1> QED
  BY <1>1, TypeInit, TypeStep, MutexStep, PTL DEF Spec

\* No goroutine is at the map of a shard while another one writes to it, for
\* any number of goroutines, keys and shards.
THEOREM NoMapRace == Spec => []RaceFree
<1>1. StateType /\ MutexInv => RaceFree
  <2> SUFFICES ASSUME StateType, MutexInv, NEW g \in Callers, NEW h \in Callers,
                      g # h, getShard(g) = getShard(h), Holding(g), Holding(h)
               PROVE  call[g].name = "get" /\ call[h].name = "get"
    BY DEF RaceFree, Holding
  <2>1. getShard(g) \in ShardIds
    BY ShardExists, OpFields DEF StateType, getShard
  <2>2. call[g].name \in {"get", "put"} /\ call[h].name \in {"get", "put"}
    BY OpFields DEF StateType
  <2> QED
    BY <2>1, <2>2, ShardedStoreAssumption DEF MutexInv
<1> QED
  BY <1>1, MutexAlways, PTL
-----------------------------------------------------------------------------
(***************************************************************************)
(* The refinement: a call takes effect when it accesses the map of the     *)
(* shard of its key, every other step of the engine is invisible.          *)
(***************************************************************************)
store == [k \in Keys |-> shards[Hash[k] % NumShards][k]]
stage == [g \in Callers |-> IF pc[g] \in {"lock", "locked"} THEN "called"
                            ELSE IF pc[g] = "unlock" THEN "done" ELSE pc[g]]

\* Moving one goroutine moves its stage alone.
LEMMA StageMoves ==
  ASSUME StateType, NEW g \in Callers, NEW p \in {"idle", "called", "lock", "locked", "unlock"},
         pc' = [pc EXCEPT ![g] = p]
  PROVE  stage' = [stage EXCEPT ![g] = IF p \in {"lock", "locked"} THEN "called"
                                       ELSE IF p = "unlock" THEN "done" ELSE p]
  BY DEF StateType, stage

\* A write to the shard of a key is a write to that key of the one map.
LEMMA StorePut ==
  ASSUME StateType, NEW k \in Keys, NEW v \in Values \cup {Absent},
         shards' = [shards EXCEPT ![Hash[k] % NumShards] = [@ EXCEPT ![k] = v]]
  PROVE  store' = [store EXCEPT ![k] = v]
  BY ShardExists DEF StateType, store

\* The sharded engine implements the atomic map of module KVStore.
THEOREM StoreImplementsKVStore == Spec => ImplementsKVStore
<1>a. KV!Ops = Ops
  BY DEF KV!Ops, Ops
<1>1. Init => KV!KVInit
  BY <1>a, ShardExists DEF Init, KV!KVInit
<1>2. StateType /\ [Next]_vars => [KV!KVNext]_KV!kvVars
  <2> SUFFICES ASSUME StateType, [Next]_vars PROVE [KV!KVNext]_<<store, call, stage, result>>
    BY DEF KV!kvVars, store, stage
  <2>1. ASSUME NEW g \in Callers, NEW op \in Ops, Begin(g, op) PROVE KV!KVNext
    <3>1. stage[g] = "idle" /\ stage' = [stage EXCEPT ![g] = "called"] /\ store' = store
      BY <2>1, StageMoves DEF Begin, stage, store
    <3>2. KV!Begin(g, op)
      BY <2>1, <3>1 DEF Begin, KV!Begin, stage, store
    <3> QED
      BY <1>a, <3>2 DEF KV!KVNext
  <2>2. ASSUME NEW g \in Callers, Canceled(g) PROVE KV!KVNext
    <3>1. stage[g] = "called" /\ stage' = [stage EXCEPT ![g] = "idle"] /\ store' = store
      BY <2>2, StageMoves DEF Canceled, stage, store
    <3>2. KV!Cancel(g, "canceled")
      BY <2>2, <3>1 DEF Canceled, KV!Cancel, stage, store
    <3> QED
      BY <3>2 DEF KV!KVNext
  <2>3. ASSUME NEW g \in Callers, CheckCtx(g) \/ Lock(g)
        PROVE  UNCHANGED <<store, call, stage, result>>
    <3>1. /\ pc[g] \in {"called", "lock"} /\ UNCHANGED <<shards, call, result>>
          /\ pc' = [pc EXCEPT ![g] = "lock"] \/ pc' = [pc EXCEPT ![g] = "locked"]
      BY <2>3 DEF CheckCtx, Lock
    <3> QED
      BY <3>1 DEF StateType, store, stage
  <2>4. ASSUME NEW g \in Callers, Access(g) PROVE KV!KVNext
    <3>1. stage[g] = "called" /\ stage' = [stage EXCEPT ![g] = "done"]
      BY <2>4, StageMoves DEF Access, stage
    <3>2. /\ call[g].key \in Keys /\ call[g].name \in {"get", "put"}
          /\ call[g].name = "put" => call[g].val \in Values \cup {Absent}
      BY OpFields DEF StateType
    <3>3. CASE call[g].name = "get"
      <4>1. /\ store' = store /\ call' = call
            /\ result' = [result EXCEPT ![g] = IF store[call[g].key] = Absent THEN Empty
                                               ELSE store[call[g].key]]
        BY <2>4, <3>2, <3>3 DEF Access, getShard, store
      <4> QED
        BY <3>1, <3>3, <4>1, Zenon DEF KV!Effect, KV!KVNext, store, stage
    <3>4. CASE call[g].name = "put"
      <4>1. /\ store' = [store EXCEPT ![call[g].key] = call[g].val]
            /\ call' = call /\ result' = result
        BY <2>4, <3>2, <3>4, StorePut DEF Access, getShard
      <4> QED
        BY <3>1, <3>4, <4>1, Zenon DEF KV!Effect, KV!KVNext, store, stage
    <3> QED
      BY <3>2, <3>3, <3>4
  <2>5. ASSUME NEW g \in Callers, Unlock(g) PROVE KV!KVNext
    <3>1. stage[g] = "done" /\ stage' = [stage EXCEPT ![g] = "idle"] /\ store' = store
      BY <2>5, StageMoves DEF Unlock, stage, store
    <3>2. KV!Return(g)
      BY <2>5, <3>1 DEF Unlock, KV!Return, stage, store
    <3> QED
      BY <3>2 DEF KV!KVNext
  <2>6. CASE CancelCtx \/ UNCHANGED vars
    BY <2>6 DEF CancelCtx, vars, store, stage
  <2> QED
    BY <2>1, <2>2, <2>3, <2>4, <2>5, <2>6 DEF Next, BeginAny, Step
<1> QED
  BY <1>1, <1>2, TypeInit, TypeStep, PTL DEF Spec, ImplementsKVStore, KV!KVSpec
=============================================================================
