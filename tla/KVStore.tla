------------------------------ MODULE KVStore ------------------------------
(***************************************************************************)
(* What the storage promises to Database.exec and to the slave: a map with *)
(* atomic Get, Set and Del.  A call takes effect at one moment between its *)
(* begin and its return (linearizability).  Module Wal uses the storage    *)
(* this way.                                                               *)
(***************************************************************************)
CONSTANTS Callers, Keys, Values, Absent, Empty

VARIABLES
  store,  \* the map
  call,   \* call[g]: the operation g called last
  stage,  \* stage[g]: "idle", "called", or "done" once it took effect
  result  \* result[g]: what the last operation of g returns

kvVars == <<store, call, stage, result>>

\* val: the value to SET, Absent for DEL; a GET has none to write.
Ops == [name : {"get"}, key : Keys] \cup [name : {"put"}, key : Keys, val : Values \cup {Absent}]

KVInit ==
  /\ store = [k \in Keys |-> Absent]
  /\ call \in [Callers -> Ops] /\ stage = [g \in Callers |-> "idle"]
  /\ result = [g \in Callers |-> Empty]

Begin(g, op) ==
  /\ stage[g] = "idle"
  /\ call' = [call EXCEPT ![g] = op]
  /\ stage' = [stage EXCEPT ![g] = "called"]
  /\ UNCHANGED <<store, result>>

\* A canceled call has no effect.
Cancel(g, err) ==
  /\ stage[g] = "called"
  /\ result' = [result EXCEPT ![g] = err]
  /\ stage' = [stage EXCEPT ![g] = "idle"]
  /\ UNCHANGED <<store, call>>

\* A missing key reads as the empty string.
Effect(g) ==
  /\ stage[g] = "called"
  /\ stage' = [stage EXCEPT ![g] = "done"]
  /\ LET k == call[g].key IN
     \/ /\ call[g].name = "get"
        /\ result' = [result EXCEPT ![g] = IF store[k] = Absent THEN Empty ELSE store[k]]
        /\ UNCHANGED store
     \/ /\ call[g].name = "put"
        /\ store' = [store EXCEPT ![k] = call[g].val]
        /\ UNCHANGED result
  /\ UNCHANGED call

Return(g) ==
  /\ stage[g] = "done"
  /\ stage' = [stage EXCEPT ![g] = "idle"]
  /\ UNCHANGED <<store, call, result>>

KVNext ==
  \E g \in Callers :
    (\E op \in Ops : Begin(g, op)) \/ (\E err \in {"canceled"} : Cancel(g, err))
    \/ Effect(g) \/ Return(g)

KVSpec == KVInit /\ [][KVNext]_kvVars
=============================================================================
