---------------------------- MODULE ServerProofs ----------------------------
(***************************************************************************)
(* Proofs about Server, for any clients, loads, max_conn and number of     *)
(* faults: a slot of the semaphore is taken exactly while a goroutine      *)
(* serves a connection; the lines of a connection are handled and answered *)
(* in the order in which they were sent, however the reads of bufio.Reader *)
(* cut them, and with that the types of the whole state.                   *)
(***************************************************************************)
EXTENDS Server, FiniteSetTheorems, SequenceTheorems, TLAPS

-----------------------------------------------------------------------------
(***************************************************************************)
(* The accept loop, its backlog and the goroutines of the connections.     *)
(***************************************************************************)
StateType ==
  /\ main \in {"serving", "closed", "exited", "panicked"}
  /\ ctx \in BOOLEAN /\ ls \in {"nil", "open", "closed"}
  /\ loop \in [pc : {"begin", "check", "accept", "acquire", "wait", "stopped"},
               conn : Clients \cup {None}]
  /\ sem \in 0..MaxConn
  /\ backlog \in Seq(Clients)
  /\ conn \in [Conns -> {"none", "queued", "held", "open", "refused", "forgotten", "closed"}]
  /\ peer \in [Conns -> {"open", "eof", "reset"}]
  /\ expired \in [Conns -> BOOLEAN]
  /\ load \in Loads
  /\ h \in [Conns -> {"none", "handle", "read", "exec", "reply", "done", "released"}]
  /\ faults \in 0..MaxFaults

\* The connection the loop holds is served by nobody yet, those in the backlog
\* are different ones that nobody has accepted, a goroutine serves the open
\* connections and no other, and the console has neither deadline nor reset.
LoopInv ==
  /\ loop.pc \in {"acquire", "wait"} => loop.conn \in Clients /\ conn[loop.conn] = "held"
  /\ \A i \in 1..Len(backlog) : conn[backlog[i]] = "queued"
  /\ \A i, j \in 1..Len(backlog) : backlog[i] = backlog[j] => i = j
  /\ \A c \in Clients : conn[c] = "open" <=> h[c] # "none"
  /\ conn[Console] = "open" /\ h[Console] # "released"
  /\ peer[Console] # "reset" /\ ~expired[Console]

\* The state in which main() has started both listeners.
LEMMA LoopInit == Init => StateType /\ LoopInv
<1> SUFFICES ASSUME Init PROVE StateType /\ LoopInv
  OBVIOUS
<1>a. Console \in Conns /\ Clients \subseteq Conns /\ Console \notin Clients
  BY ServerAssumption DEF Conns
<1>1. /\ main \in {"serving", "closed", "exited", "panicked"}
      /\ ctx \in BOOLEAN /\ ls \in {"nil", "open", "closed"}
      /\ loop \in [pc : {"begin", "check", "accept", "acquire", "wait", "stopped"},
                   conn : Clients \cup {None}]
  BY Zenon DEF Init
<1>2. sem \in 0..MaxConn /\ faults \in 0..MaxFaults
  BY ServerAssumption DEF Init
<1>3. backlog \in Seq(Clients) /\ Len(backlog) = 0 /\ load \in Loads
  BY EmptySeq DEF Init
<1>4. conn \in [Conns -> {"none", "queued", "held", "open", "refused", "forgotten", "closed"}]
  BY DEF Init
<1>5. peer \in [Conns -> {"open", "eof", "reset"}]
  BY DEF Init
<1>6. expired \in [Conns -> BOOLEAN]
  BY DEF Init
<1>7. h \in [Conns -> {"none", "handle", "read", "exec", "reply", "done", "released"}]
  BY DEF Init
<1>8. StateType
  BY <1>1, <1>2, <1>3, <1>4, <1>5, <1>6, <1>7 DEF StateType
<1>9. \A c \in Clients : conn[c] = "none" /\ h[c] = "none"
  BY <1>a DEF Init
<1>10. /\ conn[Console] = "open" /\ h[Console] = "handle"
       /\ peer[Console] = "open" /\ expired[Console] = FALSE
  BY <1>a DEF Init
<1>11. loop.pc = "begin"
  BY DEF Init
<1>12. LoopInv
  BY <1>3, <1>9, <1>10, <1>11 DEF LoopInv
<1> QED
  BY <1>8, <1>12

\* Every step keeps the types.
LEMMA TypeStep == StateType /\ LoopInv /\ [Next]_vars => StateType'
<1> SUFFICES ASSUME StateType, LoopInv, [Next]_vars PROVE StateType'
  OBVIOUS
<1>a. Console \in Conns /\ Clients \subseteq Conns /\ Console \notin Clients
  BY ServerAssumption DEF Conns
<1> USE ServerAssumption, <1>a DEF StateType, clientVars, loopVars, mainVars, lineVars, Fault
<1>1. ASSUME NEW c \in Conns, Dial(c) PROVE StateType'
  BY <1>1 DEF Dial
<1>2. ASSUME NEW c \in Conns, Send(c) \/ Deadline(c) PROVE StateType'
  BY <1>2, Zenon DEF Send, Deadline
<1>3. ASSUME NEW c \in Conns, Hangup(c) PROVE StateType'
  BY <1>3, Zenon DEF Hangup
<1>4. CASE ListenStart
  BY <1>4 DEF ListenStart
<1>5. CASE CheckCtx \/ AcceptClosed \/ AcceptError \/ AcquireWaits
  <2>1. CASE CheckCtx
    BY <2>1 DEF CheckCtx
  <2>2. CASE AcceptClosed
    BY <2>2, Zenon DEF AcceptClosed
  <2>3. CASE AcceptError
    <3>1. faults' \in 0..MaxFaults
      BY <2>3 DEF AcceptError
    <3>2. /\ loop' = [loop EXCEPT !.pc = "check"]
          /\ UNCHANGED <<main, ctx, ls, sem, backlog, conn, peer, load, expired, h>>
      BY <2>3 DEF AcceptError
    <3> HIDE DEF Fault
    <3> QED
      BY <3>1, <3>2, Zenon
  <2>4. CASE AcquireWaits
    BY <2>4, Zenon DEF AcquireWaits
  <2> QED
    BY <1>5, <2>1, <2>2, <2>3, <2>4
<1>6. CASE Accept
  <2>1. Head(backlog) \in Clients /\ Tail(backlog) \in Seq(Clients)
    BY <1>6, HeadTailProperties DEF Accept
  <2>2. /\ conn' \in [Conns -> {"none", "queued", "held", "open", "refused", "forgotten", "closed"}]
        /\ faults' \in 0..MaxFaults
    BY <1>6, <2>1 DEF Accept
  <2>3. loop' \in [pc : {"begin", "check", "accept", "acquire", "wait", "stopped"},
                   conn : Clients \cup {None}]
    <3> DEFINE c == Head(backlog)
    <3>1. loop' = [pc |-> "acquire", conn |-> c] \/ loop' = [loop EXCEPT !.pc = "check"]
      BY <1>6 DEF Accept
    <3> HIDE DEF c
    <3> QED
      BY <2>1, <3>1 DEF c
  <2>4. /\ UNCHANGED <<main, ctx, ls, sem, peer, load, expired, h>>
        /\ backlog' \in Seq(Clients)
    BY <1>6, <2>1 DEF Accept
  <2> QED
    BY <2>2, <2>3, <2>4
<1>7. CASE Acquire
  BY <1>7 DEF Acquire, LoopInv
<1>8. CASE Refuse
  BY <1>8 DEF Refuse, LoopInv
<1>9. ASSUME NEW c \in Conns, HandleCancelled(c) \/ Handle(c) \/ ReadLine(c) \/ ReadError(c)
      PROVE  StateType'
  <2>1. CASE HandleCancelled(c)
    BY <2>1 DEF HandleCancelled
  <2>2. CASE Handle(c)
    BY <2>2 DEF Handle
  <2>3. CASE ReadLine(c)
    BY <2>3 DEF ReadLine
  <2>4. CASE ReadError(c)
    BY <2>4 DEF ReadError, AfterError
  <2> QED
    BY <1>9, <2>1, <2>2, <2>3, <2>4, Zenon
<1>10. ASSUME NEW c \in Conns, Execute(c) \/ Panic(c) \/ Reply(c) PROVE StateType'
  BY <1>10 DEF Execute, Panic, Reply, AfterError
<1>11. ASSUME NEW c \in Conns, Release(c) PROVE StateType'
  BY <1>11 DEF Release
<1>12. ASSUME NEW c \in Conns, CloseConn(c) PROVE StateType'
  BY <1>12 DEF CloseConn
<1>13. CASE CloseListener
  <2>1. backlog' \in Seq(Clients)
    <3>1. backlog' = backlog \/ backlog' = <<>>
      BY <1>13, Zenon DEF CloseListener
    <3> QED
      BY <3>1, EmptySeq
  <2>2. conn' \in [Conns -> {"none", "queued", "held", "open", "refused", "forgotten", "closed"}]
    BY <1>13 DEF CloseListener
  <2> QED
    BY <1>13, <2>1, <2>2 DEF CloseListener
<1>14. CASE Signal \/ CloseReplication
  BY <1>14, Zenon DEF Signal, CloseReplication
<1>15. CASE UNCHANGED vars
  BY <1>15 DEF vars
<1> QED
  BY <1>1, <1>2, <1>3, <1>4, <1>5, <1>6, <1>7, <1>8, <1>9, <1>10, <1>11, <1>12, <1>13, <1>14, <1>15
     DEF Next, Accepting, Serve, Environment, Shutdown

\* A step that leaves the loop, the backlog and the connections alone, and no
\* goroutine appears or disappears.
LEMMA LoopFrame ==
  ASSUME StateType, LoopInv, UNCHANGED <<loop, backlog, conn, peer, expired>>,
         \A c \in Clients : h'[c] = "none" <=> h[c] = "none",
         h'[Console] # "released"
  PROVE  LoopInv'
  BY DEF LoopInv

\* Every step keeps the accept loop in order.
LEMMA LoopStep == StateType /\ LoopInv /\ [Next]_vars => LoopInv'
<1> SUFFICES ASSUME StateType, LoopInv, [Next]_vars PROVE LoopInv'
  OBVIOUS
<1>a. Console \in Conns /\ Clients \subseteq Conns /\ Console \notin Clients
  BY ServerAssumption DEF Conns
<1>b. backlog \in Seq(Clients) /\ Len(backlog) \in Nat
  BY LenProperties DEF StateType
<1>c. \A i \in 1..Len(backlog) : backlog[i] \in Clients
  BY <1>b, ElementOfSeq
<1> USE <1>a DEF clientVars, loopVars, mainVars, lineVars, Fault
<1>1. ASSUME NEW c \in Conns, Dial(c) PROVE LoopInv'
  <2>1. /\ c \in Clients /\ conn[c] = "none" /\ conn' = [conn EXCEPT ![c] = "queued"]
        /\ backlog' = Append(backlog, c) /\ UNCHANGED <<loop, peer, expired, h>>
    BY <1>1 DEF Dial
  <2>2. /\ Len(backlog') = Len(backlog) + 1 /\ backlog'[Len(backlog) + 1] = c
        /\ \A i \in 1..Len(backlog) : backlog'[i] = backlog[i]
    BY <2>1, <1>b, AppendProperties
  <2>3. \A i \in 1..Len(backlog) : backlog[i] # c
    BY <2>1 DEF LoopInv
  <2>4. \A i \in 1..Len(backlog') : i \in 1..Len(backlog) \/ i = Len(backlog) + 1
    BY <2>2, <1>b
  <2>5. \A i \in 1..Len(backlog') : conn'[backlog'[i]] = "queued"
    BY <1>c, <2>1, <2>2, <2>3, <2>4 DEF LoopInv, StateType
  <2>6. \A i, j \in 1..Len(backlog') : backlog'[i] = backlog'[j] => i = j
    BY <2>2, <2>3, <2>4 DEF LoopInv
  <2>7. loop.pc \in {"acquire", "wait"} => conn'[loop.conn] = "held"
    BY <2>1 DEF LoopInv, StateType
  <2>8. conn'[Console] = "open" /\ \A d \in Clients : conn'[d] = "open" <=> h[d] # "none"
    BY <2>1 DEF LoopInv, StateType
  <2> QED
    BY <2>1, <2>5, <2>6, <2>7, <2>8 DEF LoopInv
<1>2. ASSUME NEW c \in Conns, Send(c) PROVE LoopInv'
  BY <1>2, LoopFrame DEF Send, LoopInv
<1>3. ASSUME NEW c \in Conns, Deadline(c) PROVE LoopInv'
  BY <1>3 DEF Deadline, LoopInv, StateType
<1>4. ASSUME NEW c \in Conns, Hangup(c) PROVE LoopInv'
  BY <1>4 DEF Hangup, LoopInv, StateType
<1>5. CASE ListenStart \/ CheckCtx \/ AcceptClosed \/ AcceptError \/ AcquireWaits
  <2>1. /\ UNCHANGED <<backlog, conn, peer, expired, h>>
        /\ \/ loop' = loop
           \/ loop' = [loop EXCEPT !.pc = "check"]
           \/ loop' = [loop EXCEPT !.pc = "accept"]
           \/ loop' = [loop EXCEPT !.pc = "stopped"]
           \/ loop.pc = "acquire" /\ loop' = [loop EXCEPT !.pc = "wait"]
    <3>1. CASE ListenStart
      BY <3>1 DEF ListenStart
    <3>2. CASE CheckCtx \/ AcceptClosed \/ AcceptError \/ AcquireWaits
      BY <3>2 DEF CheckCtx, AcceptClosed, AcceptError, AcquireWaits
    <3> QED
      BY <1>5, <3>1, <3>2
  <2>2. loop'.pc \in {"acquire", "wait"} => loop'.conn \in Clients /\ conn[loop'.conn] = "held"
    BY <2>1 DEF LoopInv, StateType
  <2> QED
    BY <2>1, <2>2 DEF LoopInv
<1>6. CASE Accept
  <2> DEFINE c == Head(backlog)
  <2>1. /\ backlog # <<>> /\ backlog' = Tail(backlog) /\ UNCHANGED <<peer, expired, h>>
        /\ \/ conn' = [conn EXCEPT ![c] = "held"] /\ loop' = [pc |-> "acquire", conn |-> c]
           \/ conn' = [conn EXCEPT ![c] = "forgotten"] /\ loop' = [loop EXCEPT !.pc = "check"]
    BY <1>6 DEF Accept
  <2>2. /\ c = backlog[1] /\ 1 \in 1..Len(backlog) /\ Len(backlog') = Len(backlog) - 1
        /\ \A i \in 1..Len(backlog') : i + 1 \in 1..Len(backlog) /\ backlog'[i] = backlog[i + 1]
    BY <2>1, <1>b, HeadTailProperties
  <2> HIDE DEF c
  <2>3. c \in Clients /\ conn[c] = "queued" /\ h[c] = "none"
    BY <1>c, <2>2 DEF LoopInv
  <2>4. ASSUME NEW i \in 1..Len(backlog') PROVE backlog'[i] # c
    <3>1. i + 1 # 1
      BY <1>b, <2>2
    <3> QED
      BY <2>2, <3>1 DEF LoopInv
  <2>5. ASSUME NEW i \in 1..Len(backlog'), NEW j \in 1..Len(backlog'), backlog'[i] = backlog'[j]
        PROVE  i = j
    <3>1. i + 1 = j + 1
      BY <2>2, <2>5 DEF LoopInv
    <3> QED
      BY <3>1, <1>b, <2>2
  <2>6. \A i \in 1..Len(backlog') : conn'[backlog'[i]] = "queued"
    BY <1>c, <2>1, <2>2, <2>3, <2>4 DEF LoopInv, StateType
  <2>7. loop'.pc \in {"acquire", "wait"} => loop'.conn \in Clients /\ conn'[loop'.conn] = "held"
    BY <2>1, <2>3 DEF StateType
  <2>8. conn'[Console] = "open" /\ \A d \in Clients : conn'[d] = "open" <=> h[d] # "none"
    BY <2>1, <2>3 DEF LoopInv, StateType
  <2> QED
    BY <2>1, <2>5, <2>6, <2>7, <2>8 DEF LoopInv
<1>7. CASE Acquire \/ Refuse
  <2>1. PICK s \in {"open", "refused"} :
          /\ conn' = [conn EXCEPT ![loop.conn] = s] /\ loop'.pc = "check"
          /\ h' = IF s = "open" THEN [h EXCEPT ![loop.conn] = "handle"] ELSE h
          /\ UNCHANGED <<backlog, peer, expired>>
    BY <1>7 DEF Acquire, Refuse
  <2>2. loop.conn \in Clients /\ conn[loop.conn] = "held" /\ h[loop.conn] = "none"
    BY <1>7 DEF Acquire, Refuse, LoopInv
  <2>3. \A i \in 1..Len(backlog) : conn'[backlog[i]] = "queued"
    BY <1>c, <2>1, <2>2 DEF LoopInv, StateType
  <2>4. \A d \in Clients : conn'[d] = "open" <=> h'[d] # "none"
    BY <2>1, <2>2 DEF LoopInv, StateType
  <2>5. conn'[Console] = "open" /\ h'[Console] # "released"
    BY <2>1, <2>2 DEF LoopInv, StateType
  <2> QED
    BY <2>1, <2>3, <2>4, <2>5 DEF LoopInv
<1>8. ASSUME NEW c \in Conns,
             \/ HandleCancelled(c) \/ Handle(c) \/ ReadLine(c) \/ ReadError(c)
             \/ Execute(c) \/ Panic(c) \/ Reply(c) \/ Release(c)
      PROVE  LoopInv'
  <2>1. /\ UNCHANGED <<loop, backlog, conn, peer, expired>> /\ h[c] # "none"
        /\ \E p \in {"none", "handle", "read", "exec", "reply", "done", "released"} :
              /\ h' = [h EXCEPT ![c] = p]
              /\ c = Console => p # "released"
              /\ c # Console => p # "none"
    BY <1>8 DEF HandleCancelled, Handle, ReadLine, ReadError, Execute, Panic, Reply, Release,
                AfterError
  <2>2. h'[Console] # "released" /\ \A d \in Clients : h'[d] = "none" <=> h[d] = "none"
    BY <2>1 DEF StateType, LoopInv
  <2> QED
    BY <2>1, <2>2, LoopFrame
<1>9. ASSUME NEW c \in Conns, CloseConn(c) PROVE LoopInv'
  <2>1. /\ h[c] = "released" /\ h' = [h EXCEPT ![c] = "none"]
        /\ conn' = [conn EXCEPT ![c] = "closed"] /\ peer' = [peer EXCEPT ![c] = "reset"]
        /\ expired' = [expired EXCEPT ![c] = FALSE] /\ UNCHANGED <<loop, backlog>>
    BY <1>9 DEF CloseConn
  <2>2. c # Console /\ c \in Clients /\ conn[c] = "open"
    BY <2>1 DEF LoopInv, Conns
  <2> QED
    BY <1>c, <2>1, <2>2 DEF LoopInv, StateType
<1>10. CASE CloseListener
  <2>1. CASE ls = "nil"
    BY <1>10, <2>1, LoopFrame DEF CloseListener, LoopInv
  <2>2. CASE ls # "nil"
    <3>1. /\ conn' = [c \in Conns |-> IF conn[c] = "queued" THEN "closed" ELSE conn[c]]
          /\ backlog' = <<>> /\ UNCHANGED <<loop, peer, expired, h>>
      BY <1>10, <2>2 DEF CloseListener
    <3>2. \A i \in 1..Len(<<>>) : FALSE
      OBVIOUS
    <3> QED
      BY <3>1, <3>2 DEF LoopInv, StateType
  <2> QED
    BY <2>1, <2>2
<1>11. CASE Signal \/ CloseReplication \/ UNCHANGED vars
  BY <1>11, LoopFrame DEF Signal, CloseReplication, vars, LoopInv
<1> QED
  BY <1>1, <1>2, <1>3, <1>4, <1>5, <1>6, <1>7, <1>8, <1>9, <1>10, <1>11
     DEF Next, Accepting, Serve, Environment, Shutdown
-----------------------------------------------------------------------------
(***************************************************************************)
(* The slots.  Serving is finite although Clients need not be.             *)
(***************************************************************************)
SlotInv == IsFiniteSet(Serving) /\ SlotsExact

\* Every step keeps the semaphore equal to the number of serving goroutines.
LEMMA SlotStep == StateType /\ LoopInv /\ SlotInv /\ [Next]_vars => SlotInv'
<1> SUFFICES ASSUME StateType, LoopInv, SlotInv, [Next]_vars PROVE SlotInv'
  OBVIOUS
<1>a. Console \in Conns /\ Clients \subseteq Conns /\ Console \notin Clients
  BY ServerAssumption DEF Conns
<1> USE <1>a DEF clientVars, loopVars, mainVars, lineVars, Fault
<1>1. ASSUME UNCHANGED sem, Serving' = Serving PROVE SlotInv'
  BY <1>1 DEF SlotInv, SlotsExact
<1>2. CASE Acquire
  <2>1. /\ loop.conn \in Clients /\ h[loop.conn] = "none"
        /\ h' = [h EXCEPT ![loop.conn] = "handle"] /\ sem' = sem + 1
    BY <1>2 DEF Acquire, LoopInv
  <2>2. Serving' = Serving \cup {loop.conn} /\ loop.conn \notin Serving
    BY <2>1 DEF Serving, StateType
  <2> QED
    BY <2>1, <2>2, FS_AddElement DEF SlotInv, SlotsExact
<1>3. ASSUME NEW c \in Conns, Release(c) PROVE SlotInv'
  <2>1. /\ c \in Clients /\ h[c] = "done" /\ h' = [h EXCEPT ![c] = "released"]
        /\ sem' = IF sem > 0 THEN sem - 1 ELSE sem
    BY <1>3 DEF Release
  <2>2. Serving' = Serving \ {c} /\ c \in Serving
    BY <2>1 DEF Serving, StateType
  <2>3. /\ IsFiniteSet(Serving') /\ Cardinality(Serving') = Cardinality(Serving) - 1
        /\ Cardinality(Serving) \in Nat /\ Cardinality(Serving) # 0
    BY <2>2, FS_RemoveElement, FS_CardinalityType, FS_EmptySet DEF SlotInv
  <2> QED
    BY <2>1, <2>3 DEF SlotInv, SlotsExact
<1>4. ASSUME NEW c \in Conns,
             \/ HandleCancelled(c) \/ Handle(c) \/ ReadLine(c) \/ ReadError(c)
             \/ Execute(c) \/ Panic(c) \/ Reply(c)
      PROVE  SlotInv'
  <2>1. /\ UNCHANGED sem /\ h[c] \notin {"none", "released"}
        /\ \E p \in {"none", "handle", "read", "exec", "reply", "done"} :
              h' = [h EXCEPT ![c] = p] /\ (c # Console => p # "none")
    BY <1>4 DEF HandleCancelled, Handle, ReadLine, ReadError, Execute, Panic, Reply, AfterError
  <2>2. Serving' = Serving
    BY <2>1 DEF Serving, StateType
  <2> QED
    BY <1>1, <2>1, <2>2
<1>5. ASSUME NEW c \in Conns, CloseConn(c) PROVE SlotInv'
  <2>1. UNCHANGED sem /\ h[c] = "released" /\ h' = [h EXCEPT ![c] = "none"]
    BY <1>5 DEF CloseConn
  <2>2. Serving' = Serving
    BY <2>1 DEF Serving, StateType
  <2> QED
    BY <1>1, <2>1, <2>2
<1>6. CASE UNCHANGED <<sem, h>>
  BY <1>1, <1>6 DEF Serving
<1>7. ASSUME NEW c \in Conns, Dial(c) \/ Send(c) \/ Hangup(c) \/ Deadline(c) PROVE SlotInv'
  BY <1>6, <1>7 DEF Dial, Send, Hangup, Deadline
<1>8. CASE \/ ListenStart \/ CheckCtx \/ Accept \/ AcceptClosed \/ AcceptError \/ AcquireWaits
           \/ Refuse \/ Shutdown \/ Signal \/ UNCHANGED vars
  BY <1>6, <1>8 DEF ListenStart, CheckCtx, Accept, AcceptClosed, AcceptError, AcquireWaits,
                    Refuse, Shutdown, CloseListener, CloseReplication, Signal, vars
<1> QED
  BY <1>2, <1>3, <1>4, <1>5, <1>7, <1>8 DEF Next, Accepting, Serve, Environment

\* Nobody is served when the listeners start.
LEMMA SlotInit == Init => SlotInv
<1> SUFFICES ASSUME Init PROVE SlotInv
  OBVIOUS
<1>1. sem = 0 /\ Serving = {}
  BY ServerAssumption DEF Init, Serving, Conns
<1> QED
  BY <1>1, FS_EmptySet DEF SlotInv, SlotsExact

\* The semaphore counts the goroutines that serve a connection, in every
\* behaviour: no slot is lost or given back twice, however a connection ends.
THEOREM SlotsAreExact == Spec => []SlotsExact
<1>1. SlotInv => SlotsExact
  BY DEF SlotInv
<1> QED
  BY <1>1, LoopInit, TypeStep, LoopStep, SlotInit, SlotStep, PTL DEF Spec
-----------------------------------------------------------------------------
(***************************************************************************)
(* The lines of a connection.  Those in its buffer and in its socket       *)
(* continue the count of the lines that were taken from the reader.        *)
(***************************************************************************)
\* The lines b+1, b+2, ... are in the buffer, then in the socket.
Chain(b, bf, sk) ==
  /\ \A i \in 1..Len(bf) : bf[i] = b + i
  /\ \A i \in 1..Len(sk) : sk[i] = b + Len(bf) + i

\* Lines may still be read from the connection.
Live(c) == h[c] \notin {"done", "released"} /\ conn[c] \in {"none", "queued", "held", "open"}

Quota(c) == IF c \in DOMAIN load THEN load[c] ELSE 0

\* The number of the last line that was sent, or got lost.
Count(b, bf, sk) == b + Len(bf) + Len(sk)

\* The first k lines were served: all of them, or some for the console.
Served(c, k, hd) ==
  IF c = Console THEN Len(hd) <= k /\ \A i \in 1..Len(hd) : hd[i] <= k
                 ELSE Len(hd) = k

Ordered(c, hd) ==
  \A i \in 1..Len(hd) :
    IF c = Console THEN \A j \in 1..(i - 1) : hd[j] < hd[i] ELSE hd[i] = i

\* b lines were taken from the reader, the last of which may be in Execute.
LinesAt(c, b) ==
  /\ Chain(b, buf[c], sock[c])
  /\ Count(b, buf[c], sock[c]) <= sent[c]
  /\ peer[c] # "reset" => Count(b, buf[c], sock[c]) = sent[c]
  /\ h[c] = "exec" => line[c] = b /\ b > 0 /\ Served(c, b - 1, handled[c])
  /\ h[c] # "exec" => Served(c, b, handled[c])
  /\ h[c] = "reply" => Len(handled[c]) = answered[c] + 1
  /\ h[c] # "reply" => Len(handled[c]) = answered[c]

LineType(c) ==
  /\ sent[c] \in 0..Quota(c)
  /\ answered[c] \in Nat /\ line[c] \in 0..sent[c]
  /\ sock[c] \in Seq(1..sent[c]) /\ buf[c] \in Seq(1..sent[c]) /\ handled[c] \in Seq(1..sent[c])

\* What was handled stays in order, on a connection that has ended as well.
Handled(c) ==
  /\ answered[c] <= Len(handled[c]) /\ Len(handled[c]) <= answered[c] + 1
  /\ Len(handled[c]) <= sent[c]
  /\ Ordered(c, handled[c])

LineInv(c) == LineType(c) /\ Handled(c) /\ (Live(c) => \E b \in Nat : LinesAt(c, b))

LineShape ==
  /\ sent \in [Conns -> Nat] /\ answered \in [Conns -> Nat] /\ line \in [Conns -> Nat]
  /\ sock \in [Conns -> Seq(Nat)] /\ buf \in [Conns -> Seq(Nat)]
  /\ handled \in [Conns -> Seq(Nat)]

LinesInv == LineShape /\ \A c \in Conns : LineInv(c)

\* A line that is sent gets the next number.
LEMMA ChainSend ==
  ASSUME NEW b \in Nat, NEW bf \in Seq(Nat), NEW sk \in Seq(Nat), Chain(b, bf, sk)
  PROVE  /\ Chain(b, bf, Append(sk, Count(b, bf, sk) + 1))
         /\ Count(b, bf, Append(sk, Count(b, bf, sk) + 1)) = Count(b, bf, sk) + 1
<1> DEFINE n == b + Len(bf) + Len(sk) + 1
           a == Append(sk, n)
<1>1. Len(bf) \in Nat /\ Len(sk) \in Nat /\ n \in Nat
  BY LenProperties
<1>2. Len(a) = Len(sk) + 1 /\ a[Len(sk) + 1] = n /\ \A i \in 1..Len(sk) : a[i] = sk[i]
  BY <1>1, AppendProperties
<1> HIDE DEF a
<1>3. ASSUME NEW i \in 1..Len(a) PROVE a[i] = b + Len(bf) + i
  <2>1. i \in 1..Len(sk) \/ i = Len(sk) + 1
    BY <1>1, <1>2
  <2>2. CASE i \in 1..Len(sk)
    BY <1>2, <2>2 DEF Chain
  <2>3. CASE i = Len(sk) + 1
    BY <1>1, <1>2, <2>3
  <2> QED
    BY <2>1, <2>2, <2>3
<1>4. b + Len(bf) + Len(a) = n
  BY <1>1, <1>2
<1> QED
  BY <1>3, <1>4 DEF Chain, Count, a

\* ReadBytes takes the next line from the buffer.
LEMMA ChainTake ==
  ASSUME NEW b \in Nat, NEW bf \in Seq(Nat), NEW sk \in Seq(Nat), Chain(b, bf, sk), bf # <<>>
  PROVE  /\ Head(bf) = b + 1 /\ Chain(b + 1, Tail(bf), sk)
         /\ Count(b + 1, Tail(bf), sk) = Count(b, bf, sk)
<1> DEFINE t == Tail(bf)
<1>1. Len(bf) \in Nat \ {0} /\ Len(sk) \in Nat
  BY LenProperties, EmptySeq
<1>2. /\ Len(t) = Len(bf) - 1 /\ Head(bf) = bf[1]
      /\ \A i \in 1..Len(t) : t[i] = bf[i + 1] /\ i + 1 \in 1..Len(bf)
  BY <1>1, HeadTailProperties
<1> HIDE DEF t
<1>3. bf[1] = b + 1
  BY <1>1 DEF Chain
<1>4. \A i \in 1..Len(t) : t[i] = (b + 1) + i
  BY <1>1, <1>2 DEF Chain
<1>5. \A i \in 1..Len(sk) : sk[i] = (b + 1) + Len(t) + i
  BY <1>1, <1>2 DEF Chain
<1>6. (b + 1) + Len(t) + Len(sk) = b + Len(bf) + Len(sk)
  BY <1>1, <1>2
<1> QED
  BY <1>2, <1>3, <1>4, <1>5, <1>6 DEF Chain, Count, t

\* A read of the socket takes k lines: one is returned, the others are buffered.
LEMMA ChainFill ==
  ASSUME NEW b \in Nat, NEW sk \in Seq(Nat), Chain(b, <<>>, sk), NEW k \in 1..Len(sk)
  PROVE  /\ Head(sk) = b + 1
         /\ Chain(b + 1, SubSeq(sk, 2, k), SubSeq(sk, k + 1, Len(sk)))
         /\ Count(b + 1, SubSeq(sk, 2, k), SubSeq(sk, k + 1, Len(sk))) = Count(b, <<>>, sk)
<1> DEFINE u == SubSeq(sk, 2, k)
           v == SubSeq(sk, k + 1, Len(sk))
<1>1. Len(sk) \in Nat /\ k \in Nat /\ k >= 1 /\ k <= Len(sk)
  BY LenProperties
<1>2. \A i \in 1..Len(sk) : sk[i] \in Nat
  BY ElementOfSeq
<1>3. Len(u) = k - 1 /\ \A i \in 1..(k - 1) : u[i] = sk[i + 1]
  <2>1. \A i \in 2..k : sk[i] \in Nat
    BY <1>1, <1>2
  <2>2. Len(u) = (IF 2 <= k THEN k - 2 + 1 ELSE 0) /\ \A i \in 1..(k - 2 + 1) : u[i] = sk[2 + i - 1]
    BY <1>1, <2>1, SubSeqProperties
  <2> HIDE DEF u
  <2> QED
    BY <1>1, <2>2
<1>4. Len(v) = Len(sk) - k /\ \A i \in 1..(Len(sk) - k) : v[i] = sk[k + i]
  <2> DEFINE n == Len(sk)
  <2>1. \A i \in (k + 1)..n : sk[i] \in Nat
    BY <1>1, <1>2
  <2>2. /\ Len(v) = (IF k + 1 <= n THEN n - (k + 1) + 1 ELSE 0)
        /\ \A i \in 1..(n - (k + 1) + 1) : v[i] = sk[(k + 1) + i - 1]
    BY <1>1, <2>1, SubSeqProperties
  <2> HIDE DEF v
  <2> QED
    BY <1>1, <2>2
<1> HIDE DEF u, v
<1>5. \A i \in 1..Len(sk) : sk[i] = b + i
  BY <1>1, EmptySeq DEF Chain
<1>6. Head(sk) = b + 1
  <2>1. Head(sk) = sk[1]
    OBVIOUS
  <2> QED
    BY <1>1, <1>5, <2>1
<1>7. Chain(b + 1, u, v)
  <2>1. \A i \in 1..Len(u) : u[i] = (b + 1) + i
    BY <1>1, <1>3, <1>5
  <2>2. \A i \in 1..Len(v) : v[i] = (b + 1) + Len(u) + i
    BY <1>1, <1>3, <1>4, <1>5
  <2> QED
    BY <2>1, <2>2 DEF Chain
<1>8. (b + 1) + Len(u) + Len(v) = b + 0 + Len(sk) /\ Len(<<>>) = 0
  BY <1>1, <1>3, <1>4, EmptySeq
<1> QED
  BY <1>6, <1>7, <1>8, Zenon DEF Count, u, v

\* A reset loses what is in the socket; a new reader on stdin loses what the
\* last one had buffered.
LEMMA ChainLose ==
  ASSUME NEW b \in Nat, NEW bf \in Seq(Nat), NEW sk \in Seq(Nat), Chain(b, bf, sk)
  PROVE  /\ Chain(b, bf, <<>>) /\ Count(b, bf, <<>>) <= Count(b, bf, sk)
         /\ b + Len(bf) \in Nat /\ b <= b + Len(bf)
         /\ Chain(b + Len(bf), <<>>, sk) /\ Count(b + Len(bf), <<>>, sk) = Count(b, bf, sk)
         /\ Count(b, bf, sk) \in Nat /\ b <= Count(b, bf, sk)
<1>1. Len(bf) \in Nat /\ Len(sk) \in Nat /\ Len(<<>>) = 0
  BY LenProperties, EmptySeq
<1>2. \A i \in 1..Len(sk) : sk[i] = (b + Len(bf)) + 0 + i
  BY <1>1 DEF Chain
<1> QED
  BY <1>1, <1>2 DEF Chain, Count

\* Execute serves the line that was taken last.
LEMMA ServedNext ==
  ASSUME NEW c, NEW k \in Nat, NEW hd \in Seq(Nat), Served(c, k, hd), Ordered(c, hd)
  PROVE  /\ Served(c, k + 1, Append(hd, k + 1)) /\ Ordered(c, Append(hd, k + 1))
         /\ Len(Append(hd, k + 1)) = Len(hd) + 1 /\ Len(hd) \in Nat /\ Len(hd) <= k
<1> DEFINE a == Append(hd, k + 1)
<1>1. Len(hd) \in Nat /\ k + 1 \in Nat /\ \A i \in 1..Len(hd) : hd[i] \in Nat
  BY LenProperties, ElementOfSeq
<1>2. Len(a) = Len(hd) + 1 /\ a[Len(hd) + 1] = k + 1 /\ \A i \in 1..Len(hd) : a[i] = hd[i]
  BY <1>1, AppendProperties
<1> HIDE DEF a
<1>3. \A i \in 1..Len(a) : i \in 1..Len(hd) \/ i = Len(hd) + 1
  BY <1>1, <1>2
<1>4. CASE c = Console
  <2>1. Len(hd) <= k /\ \A i \in 1..Len(hd) : hd[i] <= k
    BY <1>4 DEF Served
  <2>2. Len(a) <= k + 1 /\ \A i \in 1..Len(a) : a[i] <= k + 1
    BY <1>1, <1>2, <1>3, <2>1
  <2>3. ASSUME NEW i \in 1..Len(a), NEW j \in 1..(i - 1) PROVE a[j] < a[i]
    <3>1. j \in 1..Len(hd)
      BY <1>1, <1>2
    <3>2. CASE i \in 1..Len(hd)
      BY <1>2, <1>4, <3>1, <3>2 DEF Ordered
    <3>3. CASE i = Len(hd) + 1
      BY <1>1, <1>2, <2>1, <3>1, <3>3
    <3> QED
      BY <1>3, <3>2, <3>3
  <2>4. Served(c, k + 1, a) /\ Ordered(c, a)
    BY <1>4, <2>2, <2>3, Zenon DEF Served, Ordered
  <2> QED
    BY <1>1, <1>2, <2>1, <2>4, Zenon DEF a
<1>5. CASE c # Console
  <2>1. Len(hd) = k /\ \A i \in 1..Len(hd) : hd[i] = i
    BY <1>5 DEF Served, Ordered
  <2>2. Len(a) = k + 1 /\ \A i \in 1..Len(a) : a[i] = i
    BY <1>1, <1>2, <1>3, <2>1
  <2> QED
    BY <1>1, <1>2, <1>5, <2>1, <2>2 DEF Served, Ordered, a
<1> QED
  BY <1>4, <1>5

\* Lines the console loses do not disturb the order.
LEMMA ServedLater ==
  ASSUME NEW k \in Nat, NEW m \in Nat, k <= m, NEW hd \in Seq(Nat), Served(Console, k, hd)
  PROVE  Served(Console, m, hd)
<1>1. Len(hd) \in Nat /\ \A i \in 1..Len(hd) : hd[i] \in Nat
  BY LenProperties, ElementOfSeq
<1> QED
  BY <1>1 DEF Served

\* What a read of the socket returns and leaves, for lines of any kind.
LEMMA SocketRead ==
  ASSUME NEW S, NEW sk \in Seq(S), NEW k \in 1..Len(sk)
  PROVE  /\ Head(sk) \in S /\ SubSeq(sk, 2, k) \in Seq(S)
         /\ SubSeq(sk, k + 1, Len(sk)) \in Seq(S)
<1>1. Len(sk) \in Nat /\ k \in Nat /\ k >= 1 /\ k <= Len(sk)
  BY LenProperties
<1>2. \A i \in 1..Len(sk) : sk[i] \in S
  BY ElementOfSeq
<1>3. Head(sk) \in S
  BY <1>1, <1>2
<1>4. (\A i \in 2..k : sk[i] \in S) /\ \A i \in (k + 1)..Len(sk) : sk[i] \in S
  BY <1>1, <1>2
<1> QED
  BY <1>1, <1>3, <1>4, SubSeqProperties

\* A step that leaves the lines of c alone, and what its goroutine is doing
\* with the line it took.
LEMMA LinesFrame ==
  ASSUME NEW c \in Conns, LineInv(c), UNCHANGED load,
         UNCHANGED <<sent[c], sock[c], buf[c], line[c], handled[c], answered[c]>>,
         Live(c)' => /\ Live(c) /\ peer'[c] = peer[c]
                     /\ h'[c] = "exec" <=> h[c] = "exec"
                     /\ h'[c] = "reply" <=> h[c] = "reply"
  PROVE  LineInv(c)'
<1>1. LineType(c)' /\ Handled(c)'
  BY DEF LineInv, LineType, Handled, Quota
<1>2. ASSUME Live(c)', NEW b \in Nat, LinesAt(c, b) PROVE LinesAt(c, b)'
  BY <1>2 DEF LinesAt
<1> QED
  BY <1>1, <1>2 DEF LineInv

\* Every step keeps the types of the lines.
LEMMA ShapeStep == LineShape /\ [Next]_vars => LineShape'
<1> SUFFICES ASSUME LineShape, [Next]_vars PROVE LineShape'
  OBVIOUS
<1> USE DEF clientVars, loopVars, mainVars, lineVars
<1>0. CASE UNCHANGED <<sent, lineVars>>
  BY <1>0 DEF LineShape
<1>1. ASSUME NEW c \in Conns, Send(c) PROVE LineShape'
  <2>1. sent[c] + 1 \in Nat /\ Append(sock[c], sent[c] + 1) \in Seq(Nat)
    BY AppendProperties DEF LineShape
  <2> QED
    BY <1>1, <2>1 DEF Send, LineShape
<1>2. ASSUME NEW c \in Conns, Hangup(c) \/ Handle(c) \/ CloseConn(c) PROVE LineShape'
  <2>1. <<>> \in Seq(Nat)
    BY EmptySeq
  <2> QED
    BY <1>2, <2>1, Zenon DEF Hangup, Handle, CloseConn, LineShape
<1>3. ASSUME NEW c \in Conns, ReadLine(c) PROVE LineShape'
  <2>1. CASE buf[c] # <<>> /\ UNCHANGED sock
    <3>1. Head(buf[c]) \in Nat /\ Tail(buf[c]) \in Seq(Nat)
      BY <2>1, HeadTailProperties DEF LineShape
    <3> QED
      BY <1>3, <2>1, <3>1, Zenon DEF ReadLine, LineShape
  <2>2. CASE buf[c] = <<>>
    <3>1. PICK k \in 1..Len(sock[c]) :
             /\ line' = [line EXCEPT ![c] = Head(sock[c])]
             /\ buf' = [buf EXCEPT ![c] = SubSeq(sock[c], 2, k)]
             /\ sock' = [sock EXCEPT ![c] = SubSeq(@, k + 1, Len(@))]
      BY <1>3, <2>2 DEF ReadLine
    <3>2. /\ Head(sock[c]) \in Nat /\ SubSeq(sock[c], 2, k) \in Seq(Nat)
          /\ SubSeq(sock[c], k + 1, Len(sock[c])) \in Seq(Nat)
      BY <1>3, <2>2, SocketRead, Zenon DEF ReadLine, LineShape
    <3> QED
      BY <1>3, <3>1, <3>2, Zenon DEF ReadLine, LineShape
  <2> QED
    BY <1>3, <2>1, <2>2 DEF ReadLine
<1>4. ASSUME NEW c \in Conns, Execute(c) PROVE LineShape'
  <2>1. Append(handled[c], line[c]) \in Seq(Nat)
    BY AppendProperties DEF LineShape
  <2> QED
    BY <1>4, <2>1 DEF Execute, LineShape
<1>5. ASSUME NEW c \in Conns, Reply(c) PROVE LineShape'
  <2>1. answered' = answered \/ answered' = [answered EXCEPT ![c] = @ + 1]
    BY <1>5 DEF Reply
  <2>2. UNCHANGED <<sent, sock, buf, line, handled>>
    BY <1>5 DEF Reply
  <2>3. answered[c] + 1 \in Nat
    BY DEF LineShape
  <2>4. answered' \in [Conns -> Nat]
    BY <2>1, <2>3, Zenon DEF LineShape
  <2> QED
    BY <2>2, <2>4 DEF LineShape
<1>6. ASSUME NEW c \in Conns,
             \/ Dial(c) \/ Deadline(c) \/ HandleCancelled(c) \/ ReadError(c) \/ Panic(c)
             \/ Release(c)
      PROVE  LineShape'
  BY <1>0, <1>6 DEF Dial, Deadline, HandleCancelled, ReadError, Panic, Release
<1>7. CASE Accepting \/ AcceptError \/ Shutdown \/ Signal \/ UNCHANGED vars
  BY <1>0, <1>7 DEF Accepting, ListenStart, CheckCtx, Accept, AcceptClosed, AcceptError, Acquire,
              AcquireWaits, Refuse, Shutdown, CloseListener, CloseReplication, Signal, vars
<1> QED
  BY <1>1, <1>2, <1>3, <1>4, <1>5, <1>6, <1>7 DEF Next, Serve, Environment

\* Every step keeps the lines of every connection in order.
LEMMA LinesStep == StateType /\ LoopInv /\ LinesInv /\ [Next]_vars => LinesInv'
<1> SUFFICES ASSUME StateType, LoopInv, LinesInv, [Next]_vars, NEW c \in Conns
             PROVE  LineInv(c)'
  BY ShapeStep DEF LinesInv
<1>a. Console \in Conns /\ Clients \subseteq Conns /\ Console \notin Clients
  BY ServerAssumption DEF Conns
<1>b. LineInv(c)
  BY DEF LinesInv
<1>c. LineType(c) /\ Handled(c)
  BY <1>b DEF LineInv
<1>d. Live(c) => \E b \in Nat : LinesAt(c, b)
  BY <1>b DEF LineInv
<1>e. LineShape
  BY DEF LinesInv
<1>f. sock[c] \in Seq(Nat) /\ buf[c] \in Seq(Nat) /\ handled[c] \in Seq(Nat)
  BY <1>e DEF LineShape
<1>g. sent[c] \in Nat /\ answered[c] \in Nat /\ Quota(c) \in Nat
  BY <1>e, ServerAssumption DEF Quota, StateType, LineShape
<1> USE <1>a DEF clientVars, loopVars, mainVars, lineVars, Fault
<1>1. ASSUME NEW d \in Conns, Send(d) PROVE LineInv(c)'
  <2>1. /\ sent' = [sent EXCEPT ![d] = @ + 1] /\ sock' = [sock EXCEPT ![d] = Append(@, sent[d] + 1)]
        /\ UNCHANGED <<conn, peer, load, buf, h, line, handled, answered>>
        /\ d \in DOMAIN load /\ sent[d] < load[d] /\ peer[d] = "open"
    BY <1>1 DEF Send
  <2>2. CASE d # c
    BY <1>b, <1>e, <2>1, <2>2, LinesFrame DEF LineShape, Live
  <2>3. CASE d = c
    <3>1. sent'[c] = sent[c] + 1 /\ sock'[c] = Append(sock[c], sent[c] + 1)
      BY <1>e, <2>1, <2>3 DEF LineShape
    <3>2. sent'[c] \in 0..Quota(c)
      BY <1>g, <2>1, <2>3, <3>1 DEF Quota
    <3>3. 1..sent[c] \subseteq 1..sent'[c] /\ sent[c] + 1 \in 1..sent'[c]
      BY <1>g, <3>1
    <3>4. /\ sock[c] \in Seq(1..sent'[c]) /\ buf[c] \in Seq(1..sent'[c])
          /\ handled[c] \in Seq(1..sent'[c])
      BY <1>c, <3>3, SeqMonotonic, Zenon DEF LineType
    <3>5. sock'[c] \in Seq(1..sent'[c])
      BY <3>1, <3>3, <3>4, AppendProperties
    <3>6. line[c] \in 0..sent'[c]
      BY <1>c, <1>g, <3>1 DEF LineType
    <3>7. LineType(c)'
      BY <1>c, <2>1, <3>2, <3>4, <3>5, <3>6 DEF LineType, Quota
    <3>8. Handled(c)'
      <4>1. Len(handled[c]) \in Nat
        BY <1>f, LenProperties
      <4>2. Len(handled[c]) <= sent'[c]
        BY <1>c, <1>g, <3>1, <4>1, SMTT(20) DEF Handled
      <4> QED
        BY <1>c, <2>1, <4>2 DEF Handled
    <3>9. ASSUME NEW b \in Nat, LinesAt(c, b) PROVE LinesAt(c, b)'
      <4>1. Count(b, buf[c], sock[c]) = sent[c] /\ Chain(b, buf[c], sock[c])
        BY <2>1, <2>3, <3>9 DEF LinesAt
      <4>2. Chain(b, buf[c], sock'[c]) /\ Count(b, buf[c], sock'[c]) = sent'[c]
        BY <1>f, <3>1, <4>1, ChainSend
      <4>3. sent'[c] <= sent'[c]
        BY <1>g, <3>1
      <4> QED
        BY <2>1, <3>9, <4>2, <4>3 DEF LinesAt
    <3> QED
      BY <1>d, <2>1, <3>7, <3>8, <3>9 DEF LineInv, Live
  <2> QED
    BY <2>2, <2>3
<1>2. ASSUME NEW d \in Conns, Hangup(d) PROVE LineInv(c)'
  <2>1. /\ UNCHANGED <<conn, load, sent, buf, h, line, handled, answered>>
        /\ peer[d] = "open"
        /\ \/ peer' = [peer EXCEPT ![d] = "eof"] /\ UNCHANGED sock
           \/ peer' = [peer EXCEPT ![d] = "reset"] /\ sock' = [sock EXCEPT ![d] = <<>>]
    BY <1>2 DEF Hangup
  <2>2. CASE d # c
    <3>1. peer'[c] = peer[c] /\ sock'[c] = sock[c]
      BY <1>e, <2>1, <2>2 DEF LineShape, StateType
    <3>2. /\ UNCHANGED <<sent[c], sock[c], buf[c], line[c], handled[c], answered[c]>>
          /\ UNCHANGED <<load, h, conn>>
      BY <2>1, <3>1
    <3> QED
      BY <1>b, <3>1, <3>2, LinesFrame, Zenon DEF Live
  <2>3. CASE d = c /\ UNCHANGED sock
    <3>1. ASSUME NEW b \in Nat, LinesAt(c, b) PROVE LinesAt(c, b)'
      BY <2>1, <2>3, <3>1 DEF LinesAt
    <3>2. LineType(c)' /\ Handled(c)'
      BY <1>c, <2>1, <2>3 DEF LineType, Handled, Quota
    <3> QED
      BY <1>d, <2>1, <3>1, <3>2 DEF LineInv, Live
  <2>4. CASE d = c /\ peer' = [peer EXCEPT ![d] = "reset"] /\ sock' = [sock EXCEPT ![d] = <<>>]
    <3>1. sock'[c] = <<>> /\ peer'[c] = "reset"
      BY <1>e, <2>4 DEF LineShape, StateType
    <3>2. sock'[c] \in Seq(1..sent[c])
      BY <3>1, EmptySeq
    <3>3. LineType(c)' /\ Handled(c)'
      BY <1>c, <2>1, <3>2 DEF LineType, Handled, Quota
    <3>4. ASSUME NEW b \in Nat, LinesAt(c, b) PROVE LinesAt(c, b)'
      <4>1. /\ Chain(b, buf[c], <<>>)
            /\ Count(b, buf[c], <<>>) <= Count(b, buf[c], sock[c])
        BY <1>f, <3>4, ChainLose DEF LinesAt
      <4>2. Count(b, buf[c], <<>>) \in Nat /\ Count(b, buf[c], sock[c]) \in Nat
        BY <1>f, <3>4, <4>1, ChainLose, EmptySeq, Zenon DEF LinesAt
      <4>3. Count(b, buf[c], sock'[c]) <= sent[c]
        BY <1>g, <3>1, <3>4, <4>1, <4>2 DEF LinesAt
      <4> QED
        BY <2>1, <3>1, <3>4, <4>1, <4>3 DEF LinesAt
    <3> QED
      BY <1>d, <2>1, <3>3, <3>4 DEF LineInv, Live
  <2> QED
    BY <2>1, <2>2, <2>3, <2>4
<1>3. ASSUME NEW d \in Conns, Handle(d) PROVE LineInv(c)'
  <2>1. /\ UNCHANGED <<conn, peer, load, sent, sock, line, handled, answered>>
        /\ h[d] = "handle" /\ h' = [h EXCEPT ![d] = "read"]
        /\ d = Console => buf' = [buf EXCEPT ![d] = <<>>]
        /\ d # Console => buf' = [buf EXCEPT ![d] = buf[d]]
    BY <1>3, Zenon DEF Handle
  <2>2. CASE d # c
    <3>1. buf'[c] = buf[c] /\ h'[c] = h[c]
      BY <1>e, <2>1, <2>2, Zenon DEF LineShape, StateType
    <3> QED
      BY <1>b, <2>1, <3>1, LinesFrame DEF Live
  <2>3. CASE d = c /\ c # Console
    <3>1. buf'[c] = buf[c] /\ h[c] = "handle" /\ h'[c] = "read"
      BY <1>e, <2>1, <2>3 DEF LineShape, StateType
    <3> QED
      BY <1>b, <2>1, <3>1, LinesFrame DEF Live
  <2>4. CASE d = c /\ c = Console
    <3>1. buf'[c] = <<>> /\ h'[c] = "read" /\ h[c] = "handle"
      BY <1>e, <2>1, <2>4 DEF LineShape, StateType
    <3>2. buf'[c] \in Seq(1..sent[c])
      BY <3>1, EmptySeq
    <3>3. LineType(c)' /\ Handled(c)'
      BY <1>c, <2>1, <3>2 DEF LineType, Handled, Quota
    <3>4. ASSUME NEW b \in Nat, LinesAt(c, b)
          PROVE  \E e \in Nat : LinesAt(c, e)'
      <4>1. PICK e \in Nat :
              /\ b <= e /\ Chain(e, <<>>, sock[c])
              /\ Count(e, <<>>, sock[c]) = Count(b, buf[c], sock[c])
        BY <1>f, <3>4, ChainLose DEF LinesAt
      <4>2. Served(Console, b, handled[c]) /\ Len(handled[c]) = answered[c]
        BY <2>4, <3>1, <3>4 DEF LinesAt
      <4>3. Served(c, e, handled[c])
        BY <1>f, <2>4, <4>1, <4>2, ServedLater
      <4>4. LinesAt(c, e)'
        BY <2>1, <3>1, <3>4, <4>1, <4>2, <4>3 DEF LinesAt
      <4> QED
        BY <4>4
    <3>5. Live(c)
      BY <2>4, <3>1, ZenonT(30) DEF Live, LoopInv
    <3> QED
      BY <1>d, <3>3, <3>4, <3>5 DEF LineInv
  <2> QED
    BY <2>2, <2>3, <2>4
<1>4. ASSUME NEW d \in Conns, ReadLine(d) PROVE LineInv(c)'
  <2>1. /\ UNCHANGED <<conn, peer, load, sent, handled, answered>>
        /\ h[d] = "read" /\ h' = [h EXCEPT ![d] = "exec"]
    BY <1>4 DEF ReadLine
  <2>2. CASE d # c
    <3>1. buf'[c] = buf[c] /\ h'[c] = h[c] /\ line'[c] = line[c] /\ sock'[c] = sock[c]
      <4>1. h'[c] = h[c]
        BY <2>1, <2>2 DEF StateType
      <4>2. CASE buf[d] # <<>>
        BY <1>4, <1>e, <2>2, <4>1, <4>2 DEF ReadLine, LineShape
      <4>3. CASE buf[d] = <<>>
        <5>1. PICK k \in 1..Len(sock[d]) :
                /\ line' = [line EXCEPT ![d] = Head(sock[d])]
                /\ buf' = [buf EXCEPT ![d] = SubSeq(sock[d], 2, k)]
                /\ sock' = [sock EXCEPT ![d] = SubSeq(@, k + 1, Len(@))]
          BY <1>4, <4>3, Zenon DEF ReadLine
        <5> QED
          BY <1>e, <2>2, <4>1, <5>1 DEF LineShape
      <4> QED
        BY <4>2, <4>3
    <3> QED
      BY <1>b, <2>1, <3>1, LinesFrame DEF Live
  <2>3. CASE d = c
    <3>1. h'[c] = "exec" /\ h[c] = "read"
      BY <2>1, <2>3 DEF StateType
    <3>2. ASSUME NEW b \in Nat, LinesAt(c, b),
                 line'[c] = b + 1, Chain(b + 1, buf'[c], sock'[c]),
                 Count(b + 1, buf'[c], sock'[c]) = Count(b, buf[c], sock[c])
          PROVE  LinesAt(c, b + 1)'
      <4>1. b + 1 > 0 /\ (b + 1) - 1 = b
        OBVIOUS
      <4>2. Served(c, b, handled[c]) /\ Len(handled[c]) = answered[c]
        BY <3>1, <3>2, Zenon DEF LinesAt
      <4>3. Served(c, (b + 1) - 1, handled[c])
        BY <4>1, <4>2
      <4> QED
        BY <2>1, <3>1, <3>2, <4>1, <4>2, <4>3 DEF LinesAt
    <3>3. ASSUME line'[c] \in 1..sent[c], buf'[c] \in Seq(1..sent[c]), sock'[c] \in Seq(1..sent[c])
          PROVE  LineType(c)' /\ Handled(c)'
      <4>1. line'[c] \in 0..sent[c]
        BY <1>g, <3>3
      <4> QED
        BY <1>c, <2>1, <3>3, <4>1 DEF LineType, Handled, Quota
    <3>4. Live(c)' => Live(c)
      BY <2>1, <3>1 DEF Live
    <3>5. CASE buf[c] # <<>>
      <4>1. line'[c] = Head(buf[c]) /\ buf'[c] = Tail(buf[c]) /\ sock'[c] = sock[c]
        <5>1. /\ line' = [line EXCEPT ![c] = Head(buf[c])]
              /\ buf' = [buf EXCEPT ![c] = Tail(buf[c])]
              /\ sock' = sock
          BY <1>4, <2>3, <3>5, Zenon DEF ReadLine
        <5> QED
          BY <1>e, <5>1 DEF LineShape
      <4>2. LineType(c)' /\ Handled(c)'
        BY <1>c, <3>3, <3>5, <4>1, HeadTailProperties, Zenon DEF LineType
      <4>3. ASSUME NEW b \in Nat, LinesAt(c, b) PROVE LinesAt(c, b + 1)'
        <5>1. Chain(b, buf[c], sock[c])
          BY <4>3 DEF LinesAt
        <5>2. /\ line'[c] = b + 1 /\ Chain(b + 1, buf'[c], sock'[c])
              /\ Count(b + 1, buf'[c], sock'[c]) = Count(b, buf[c], sock[c])
          BY <1>f, <3>5, <4>1, <5>1, ChainTake
        <5> QED
          BY <3>2, <4>3, <5>2
      <4>4. \A b \in Nat : b + 1 \in Nat
        OBVIOUS
      <4> QED
        BY <1>d, <3>4, <4>2, <4>3, <4>4 DEF LineInv
    <3>6. CASE buf[c] = <<>>
      <4>1. PICK k \in 1..Len(sock[c]) :
              /\ line'[c] = Head(sock[c]) /\ buf'[c] = SubSeq(sock[c], 2, k)
              /\ sock'[c] = SubSeq(sock[c], k + 1, Len(sock[c]))
        BY <1>4, <1>e, <2>3, <3>6, Zenon DEF ReadLine, LineShape
      <4>2. LineType(c)' /\ Handled(c)'
        <5>1. sock[c] \in Seq(1..sent[c])
          BY <1>c DEF LineType
        <5> QED
          BY <3>3, <4>1, <5>1, SocketRead, Zenon
      <4>3. ASSUME NEW b \in Nat, LinesAt(c, b) PROVE LinesAt(c, b + 1)'
        <5>1. Chain(b, <<>>, sock[c])
          BY <3>6, <4>3 DEF LinesAt
        <5>2. /\ line'[c] = b + 1 /\ Chain(b + 1, buf'[c], sock'[c])
              /\ Count(b + 1, buf'[c], sock'[c]) = Count(b, buf[c], sock[c])
          BY <1>f, <3>6, <4>1, <5>1, ChainFill
        <5> QED
          BY <3>2, <4>3, <5>2
      <4>4. \A b \in Nat : b + 1 \in Nat
        OBVIOUS
      <4> QED
        BY <1>d, <3>4, <4>2, <4>3, <4>4 DEF LineInv
    <3> QED
      BY <3>5, <3>6
  <2> QED
    BY <2>2, <2>3
<1>5. ASSUME NEW d \in Conns, Execute(d) PROVE LineInv(c)'
  <2>1. /\ UNCHANGED <<conn, peer, load, sent, sock, buf, answered>>
        /\ h[d] = "exec" /\ h' = [h EXCEPT ![d] = "reply"]
        /\ handled' = [handled EXCEPT ![d] = Append(@, line[d])]
        /\ line' = [line EXCEPT ![d] = 0]
    BY <1>5 DEF Execute
  <2>2. CASE d # c
    <3>1. h'[c] = h[c] /\ line'[c] = line[c] /\ handled'[c] = handled[c]
      BY <1>e, <2>1, <2>2 DEF LineShape, StateType
    <3> QED
      BY <1>b, <2>1, <3>1, LinesFrame DEF Live
  <2>3. CASE d = c
    <3>1. /\ h[c] = "exec" /\ h'[c] = "reply" /\ line'[c] = 0
          /\ handled'[c] = Append(handled[c], line[c])
      BY <1>e, <2>1, <2>3 DEF LineShape, StateType
    <3>2. Live(c)
      BY <3>1 DEF Live, LoopInv, Conns
    <3>3. PICK b \in Nat : LinesAt(c, b)
      BY <1>d, <3>2
    <3>4. /\ line[c] = b /\ b > 0 /\ Served(c, b - 1, handled[c])
          /\ Len(handled[c]) = answered[c]
      BY <3>1, <3>3 DEF LinesAt
    <3>5. b - 1 \in Nat /\ (b - 1) + 1 = b
      BY <3>4
    <3>6. /\ Served(c, b, handled'[c]) /\ Ordered(c, handled'[c])
          /\ Len(handled'[c]) = Len(handled[c]) + 1 /\ Len(handled[c]) <= b - 1
      <4>1. PICK k \in Nat : k = b - 1 /\ k + 1 = b
        BY <3>5
      <4>2. handled[c] \in Seq(Nat) /\ Served(c, k, handled[c]) /\ Ordered(c, handled[c])
        BY <1>c, <1>f, <3>4, <4>1 DEF Handled
      <4>3. /\ Served(c, k + 1, Append(handled[c], k + 1)) /\ Ordered(c, Append(handled[c], k + 1))
            /\ Len(Append(handled[c], k + 1)) = Len(handled[c]) + 1 /\ Len(handled[c]) <= k
        BY <4>2, ServedNext
      <4>4. handled'[c] = Append(handled[c], k + 1)
        BY <3>1, <3>4, <4>1
      <4> QED
        BY <4>1, <4>3, <4>4
    <3>7. b <= sent[c]
      <4>1. Count(b, buf[c], sock[c]) \in Nat /\ b <= Count(b, buf[c], sock[c])
        BY <1>f, <3>3, ChainLose, Zenon DEF LinesAt
      <4> QED
        BY <1>g, <3>3, <4>1 DEF LinesAt
    <3>8. LineType(c)'
      <4>1. line[c] \in 1..sent[c] /\ 0 \in 0..sent[c]
        BY <1>g, <3>4, <3>7
      <4>2. handled'[c] \in Seq(1..sent[c])
        BY <1>c, <3>1, <4>1, AppendProperties DEF LineType
      <4> QED
        BY <1>c, <2>1, <3>1, <4>1, <4>2, Zenon DEF LineType, Quota
    <3>9. Handled(c)'
      <4> DEFINE n == Len(handled[c])
                 m == Len(handled'[c])
      <4>1. m = n + 1 /\ n = answered[c] /\ n <= b - 1
        BY <3>4, <3>6
      <4> HIDE DEF n, m
      <4>2. answered[c] <= m /\ m <= answered[c] + 1 /\ m <= sent[c]
        BY <1>g, <3>7, <4>1, SMTT(20)
      <4> QED
        BY <2>1, <3>6, <4>2 DEF Handled, m
    <3>10. LinesAt(c, b)'
      BY <2>1, <3>1, <3>3, <3>4, <3>6 DEF LinesAt
    <3> QED
      BY <3>8, <3>9, <3>10 DEF LineInv
  <2> QED
    BY <2>2, <2>3
<1>6. ASSUME NEW d \in Conns, Reply(d) PROVE LineInv(c)'
  <2>1. /\ UNCHANGED <<conn, peer, load, sent, sock, buf, line, handled>> /\ h[d] = "reply"
        /\ \/ answered' = answered /\ h' = [h EXCEPT ![d] = AfterError(d)] /\ d # Console
           \/ answered' = [answered EXCEPT ![d] = @ + 1] /\ h' = [h EXCEPT ![d] = "handle"]
    BY <1>6 DEF Reply, LoopInv
  <2>2. CASE d # c
    <3>1. h'[c] = h[c] /\ answered'[c] = answered[c]
      BY <1>e, <2>1, <2>2, Zenon DEF LineShape, StateType
    <3> QED
      BY <1>b, <2>1, <3>1, LinesFrame DEF Live
  <2>3. CASE d = c /\ answered' = answered /\ h' = [h EXCEPT ![d] = AfterError(d)] /\ d # Console
    <3>1. h'[c] = "done"
      BY <2>3 DEF AfterError, StateType
    <3> QED
      BY <1>b, <2>1, <2>3, <3>1, LinesFrame DEF Live
  <2>4. CASE d = c /\ answered' = [answered EXCEPT ![d] = @ + 1] /\ h' = [h EXCEPT ![d] = "handle"]
    <3>1. h[c] = "reply" /\ h'[c] = "handle" /\ answered'[c] = answered[c] + 1
      BY <1>e, <2>1, <2>4 DEF LineShape, StateType
    <3>2. Live(c)
      BY <3>1 DEF Live, LoopInv, Conns
    <3>3. PICK b \in Nat : LinesAt(c, b)
      BY <1>d, <3>2
    <3>4. Len(handled[c]) = answered'[c]
      BY <3>1, <3>3 DEF LinesAt
    <3>5. LineType(c)'
      <4>1. answered'[c] \in Nat
        BY <1>g, <3>1, SMTT(20)
      <4> QED
        BY <1>c, <2>1, <4>1 DEF LineType, Quota
    <3>6. Handled(c)'
      <4>1. answered'[c] <= answered'[c] /\ answered'[c] <= answered'[c] + 1
        BY <1>g, <3>1, SMTT(20)
      <4> QED
        BY <1>c, <2>1, <3>4, <4>1 DEF Handled
    <3>7. LinesAt(c, b)'
      BY <2>1, <3>1, <3>3, <3>4 DEF LinesAt
    <3> QED
      BY <3>5, <3>6, <3>7 DEF LineInv
  <2> QED
    BY <2>1, <2>2, <2>3, <2>4
<1>7. ASSUME NEW d \in Conns, CloseConn(d) PROVE LineInv(c)'
  <2>1. /\ UNCHANGED <<load, sent, line, handled, answered>>
        /\ h' = [h EXCEPT ![d] = "none"] /\ conn' = [conn EXCEPT ![d] = "closed"]
        /\ peer' = [peer EXCEPT ![d] = "reset"]
        /\ sock' = [sock EXCEPT ![d] = <<>>] /\ buf' = [buf EXCEPT ![d] = <<>>]
    BY <1>7 DEF CloseConn
  <2>2. CASE d # c
    <3>1. /\ h'[c] = h[c] /\ conn'[c] = conn[c] /\ peer'[c] = peer[c]
          /\ sock'[c] = sock[c] /\ buf'[c] = buf[c]
      BY <1>e, <2>1, <2>2 DEF LineShape, StateType
    <3> QED
      BY <1>b, <2>1, <3>1, LinesFrame DEF Live
  <2>3. CASE d = c
    <3>1. conn'[c] = "closed" /\ sock'[c] = <<>> /\ buf'[c] = <<>>
      BY <1>e, <2>1, <2>3 DEF LineShape, StateType
    <3>2. sock'[c] \in Seq(1..sent[c]) /\ buf'[c] \in Seq(1..sent[c])
      BY <3>1, EmptySeq
    <3>3. LineType(c)' /\ Handled(c)' /\ ~Live(c)'
      BY <1>c, <2>1, <3>1, <3>2 DEF LineType, Handled, Quota, Live
    <3> QED
      BY <3>3 DEF LineInv
  <2> QED
    BY <2>2, <2>3
<1>8. ASSUME NEW d \in Conns, HandleCancelled(d) \/ ReadError(d) \/ Panic(d) \/ Release(d)
      PROVE  LineInv(c)'
  <2>1. /\ UNCHANGED <<conn, peer, load, sent, lineVars>> /\ h[d] \notin {"none", "reply"}
        /\ \/ h[d] # "exec" /\ h' = [h EXCEPT ![d] = "none"]
           \/ h[d] # "exec" /\ h' = [h EXCEPT ![d] = "handle"]
           \/ h' = [h EXCEPT ![d] = "done"]
           \/ h' = [h EXCEPT ![d] = "released"]
        /\ h'[d] \notin {"done", "released"} => h[d] \notin {"done", "released"}
    BY <1>8 DEF HandleCancelled, ReadError, Panic, Release, AfterError, StateType
  <2>2. Live(c)' => Live(c) /\ (h'[c] = "exec" <=> h[c] = "exec")
                             /\ (h'[c] = "reply" <=> h[c] = "reply")
    BY <2>1 DEF Live, StateType
  <2> QED
    BY <1>b, <2>1, <2>2, LinesFrame
<1>9. ASSUME UNCHANGED <<peer, load, sent, lineVars>>,
             Live(c)' => /\ Live(c) /\ (h'[c] = "exec" <=> h[c] = "exec")
                         /\ (h'[c] = "reply" <=> h[c] = "reply")
      PROVE  LineInv(c)'
  BY <1>b, <1>9, LinesFrame
<1>10. ASSUME NEW d \in Conns, Dial(d) PROVE LineInv(c)'
  BY <1>9, <1>10 DEF Dial, Live, StateType
<1>11. ASSUME NEW d \in Conns, Deadline(d) PROVE LineInv(c)'
  BY <1>9, <1>11, Zenon DEF Deadline, Live
<1>12. CASE Accept
  <2>1. backlog # <<>> /\ Head(backlog) = backlog[1] /\ 1 \in 1..Len(backlog)
    BY <1>12, LenProperties, EmptySeq DEF Accept, StateType
  <2>2. conn[Head(backlog)] = "queued" /\ h' = h /\ UNCHANGED <<peer, load, sent, lineVars>>
    BY <1>12, <2>1 DEF Accept, LoopInv
  <2>3. \/ conn' = [conn EXCEPT ![Head(backlog)] = "held"]
        \/ conn' = [conn EXCEPT ![Head(backlog)] = "forgotten"]
    BY <1>12 DEF Accept
  <2>4. Live(c)' => Live(c)
    BY <2>2, <2>3 DEF Live, StateType
  <2> QED
    BY <1>9, <2>2, <2>4
<1>13. CASE Acquire
  <2>1. loop.conn \in Conns /\ conn[loop.conn] = "held" /\ h[loop.conn] = "none"
    BY <1>13 DEF Acquire, LoopInv
  <2>2. /\ conn' = [conn EXCEPT ![loop.conn] = "open"] /\ h' = [h EXCEPT ![loop.conn] = "handle"]
        /\ UNCHANGED <<peer, load, sent, lineVars>>
    BY <1>13 DEF Acquire
  <2> QED
    BY <1>9, <2>1, <2>2 DEF Live, StateType
<1>14. CASE Refuse
  <2>1. /\ conn' = [conn EXCEPT ![loop.conn] = "refused"] /\ h' = h
        /\ UNCHANGED <<peer, load, sent, lineVars>>
    BY <1>14 DEF Refuse
  <2> QED
    BY <1>9, <2>1 DEF Live, StateType
<1>15. CASE CloseListener
  <2>1. /\ UNCHANGED <<peer, load, sent, lineVars, h>>
        /\ conn'[c] = conn[c] \/ conn'[c] = "closed"
    BY <1>15 DEF CloseListener
  <2> QED
    BY <1>9, <2>1, Zenon DEF Live
<1>16. CASE \/ ListenStart \/ CheckCtx \/ AcceptClosed \/ AcceptError \/ AcquireWaits
            \/ CloseReplication \/ Signal \/ UNCHANGED vars
  <2>1. UNCHANGED <<peer, load, sent, lineVars, h, conn>>
    BY <1>16 DEF ListenStart, CheckCtx, AcceptClosed, AcceptError, AcquireWaits,
                 CloseReplication, Signal, vars
  <2> QED
    BY <1>9, <2>1, Zenon DEF Live
<1> QED
  BY <1>1, <1>2, <1>3, <1>4, <1>5, <1>6, <1>7, <1>8, <1>10, <1>11, <1>12, <1>13, <1>14, <1>15,
     <1>16, Zenon
     DEF Next, Accepting, Serve, Environment, Shutdown

\* No line was sent when the listeners start.
LEMMA LinesInit == Init => LinesInv
<1> SUFFICES ASSUME Init PROVE LinesInv
  OBVIOUS
<1>1. LineShape
  BY EmptySeq DEF Init, LineShape
<1>2. ASSUME NEW c \in Conns PROVE LineInv(c)
  <2>1. /\ sent[c] = 0 /\ answered[c] = 0 /\ line[c] = 0
        /\ sock[c] = <<>> /\ buf[c] = <<>> /\ handled[c] = <<>> /\ peer[c] = "open"
        /\ h[c] \in {"none", "handle"} /\ load \in Loads
    BY <1>2 DEF Init
  <2>2. Quota(c) \in Nat
    BY <2>1, ServerAssumption DEF Quota
  <2>3. LineType(c)
    BY <2>1, <2>2, EmptySeq DEF LineType
  <2>4. Len(<<>>) = 0
    BY EmptySeq
  <2>5. Handled(c)
    BY <2>1, <2>4 DEF Handled, Ordered
  <2>6. LinesAt(c, 0)
    BY <2>1, <2>4 DEF LinesAt, Chain, Count, Served
  <2> QED
    BY <2>3, <2>5, <2>6 DEF LineInv
<1> QED
  BY <1>1, <1>2 DEF LinesInv

\* All of it, in one place for the theorems.
LEMMA ServerAlways == Spec => [](StateType /\ LoopInv /\ LinesInv)
  BY LoopInit, TypeStep, LoopStep, LinesInit, LinesStep, PTL DEF Spec

\* The type invariant of the listeners.
THEOREM ServerTypeCorrect == Spec => []TypeOK
<1>1. StateType /\ LinesInv => TypeOK
  <2> SUFFICES ASSUME StateType, LinesInv PROVE TypeOK
    OBVIOUS
  <2>1. ASSUME NEW c \in Conns
        PROVE  /\ sent[c] \in 0..(IF c \in DOMAIN load THEN load[c] ELSE 0)
               /\ {answered[c], line[c]} \subseteq 0..sent[c]
               /\ {sock[c], buf[c], handled[c]} \subseteq Seq(1..sent[c])
    <3>1. LineType(c) /\ Handled(c) /\ handled[c] \in Seq(Nat) /\ sent[c] \in Nat
      BY DEF LinesInv, LineInv, LineShape
    <3>2. Len(handled[c]) \in Nat
      BY <3>1, LenProperties
    <3>3. answered[c] \in 0..sent[c]
      <4> DEFINE n == Len(handled[c])
      <4>1. n \in Nat /\ answered[c] <= n /\ n <= sent[c] /\ answered[c] \in Nat /\ sent[c] \in Nat
        BY <3>1, <3>2 DEF Handled, LineType
      <4> HIDE DEF n
      <4> QED
        BY <4>1
    <3> QED
      BY <3>1, <3>3 DEF LineType, Quota
  <2> QED
    BY <2>1 DEF StateType, TypeOK
<1> QED
  BY <1>1, ServerAlways, PTL

\* The lines of a connection are handled in the order in which they were sent,
\* for any load, any number of clients and whatever the faults.
THEOREM LinesAreInOrder == Spec => []LinesInOrder
<1>1. LinesInv => LinesInOrder
  <2> SUFFICES ASSUME LinesInv, NEW c \in Conns
               PROVE  /\ Len(handled[c]) - answered[c] \in {0, 1}
                      /\ \A i \in DOMAIN handled[c] :
                           IF c = Console THEN \A j \in 1..(i - 1) : handled[c][j] < handled[c][i]
                                          ELSE handled[c][i] = i
    BY DEF LinesInOrder
  <2>1. Handled(c) /\ handled[c] \in Seq(Nat) /\ answered[c] \in Nat
    BY DEF LinesInv, LineInv, LineShape
  <2>2. Len(handled[c]) \in Nat /\ DOMAIN handled[c] = 1..Len(handled[c])
    BY <2>1, LenProperties
  <2>3. Len(handled[c]) - answered[c] \in {0, 1}
    <3> DEFINE n == Len(handled[c])
    <3>1. n \in Nat /\ answered[c] <= n /\ n <= answered[c] + 1 /\ answered[c] \in Nat
      BY <2>1, <2>2 DEF Handled
    <3> HIDE DEF n
    <3>2. n - answered[c] \in {0, 1}
      BY <3>1
    <3> QED
      BY <3>2 DEF n
  <2> QED
    BY <2>1, <2>2, <2>3 DEF Handled, Ordered
<1> QED
  BY <1>1, ServerAlways, PTL
=============================================================================
