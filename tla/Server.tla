------------------------------- MODULE Server -------------------------------
(***************************************************************************)
(* The listeners of a node and its shutdown: the accept loop of the TCP    *)
(* listener with its semaphore of connection slots                         *)
(* (internal/transport/tcp/listener.go, utils/concurrency/semaphore.go),   *)
(* one goroutine per connection that calls UniversalHandler.Handle         *)
(* (internal/handlers/handlers.go), the console listener that calls the    *)
(* same handler on stdin (internal/transport/cli/listener.go), and main()  *)
(* from ls.Listen on (main.go).                                            *)
(*                                                                         *)
(* A request is a line; the lines of a client are numbered in the order in *)
(* which it sent them.  What a line says is abstracted: Parse and Execute  *)
(* end in a value or an error, and either way in one line of answer (the   *)
(* database is modules Wal and ShardedStore, Parse is module Query).       *)
(* Execute is taken to return.  Time is abstracted to the events it        *)
(* brings: the deadline of a connection and the timer of the semaphore.    *)
(***************************************************************************)
EXTENDS Naturals, Sequences, FiniteSets

CONSTANTS
  Clients,    \* the TCP clients, one connection each
  Console,    \* the console, a client of the cli listener
  MaxConn,    \* max_conn
  Loads,      \* bound: who connects, and how many lines each of them sends
  Faults,     \* which of "listen", "accept", "deadline", "panic" may happen
  MaxFaults,  \* bound: how many of them happen
  None        \* no connection

ASSUME ServerAssumption ==
  /\ MaxConn \in Nat \ {0} /\ MaxFaults \in Nat
  /\ Console \notin Clients /\ None \notin Clients
  /\ \A l \in Loads : l \in [DOMAIN l -> Nat] /\ DOMAIN l \subseteq Clients \cup {Console}

Conns == Clients \cup {Console}

VARIABLES
  main,      \* where main() is
  ctx,       \* the context is cancelled
  ls,        \* l.ls
  loop,      \* the accept loop: where it is and the connection it holds
  sem,       \* slots taken
  backlog,   \* connections nobody has accepted yet
  conn,      \* the server's end of a connection
  peer,      \* the client's end
  expired,   \* the deadline of the connection has passed
  load,      \* lines the clients are going to send
  sent,      \* lines it has sent
  sock,      \* lines in the socket
  buf,       \* lines in the bufio.Reader of the connection
  h,         \* the goroutine that serves the connection
  line,      \* the line it is serving
  handled,   \* the lines Parse and Execute were called with, in order
  answered,  \* how many of them were answered
  faults     \* how many faults have happened

clientVars == <<peer, load, sent>>
loopVars == <<ls, loop, backlog>>
mainVars == <<main, ctx>>
lineVars == <<sock, buf, line, handled, answered>>
vars == <<mainVars, loopVars, sem, conn, clientVars, expired, lineVars, h, faults>>

\* The process has ended, by the end of main() or by a panic or Fatal.
Ended == main \in {"exited", "panicked"}

\* The goroutines that hold a slot.
Serving == {c \in Clients : h[c] \notin {"none", "released"}}

Fault(kind) ==
  /\ kind \in Faults /\ faults < MaxFaults
  /\ faults' = faults + 1

\* main() has called Listen of both listeners; the console goroutine is in its
\* loop, the accept goroutine has not run yet.
Init ==
  /\ main = "serving" /\ ctx = FALSE
  /\ ls = "nil" /\ loop = [pc |-> "begin", conn |-> None] /\ sem = 0 /\ backlog = <<>>
  /\ conn = [c \in Conns |-> IF c = Console THEN "open" ELSE "none"]
  /\ peer = [c \in Conns |-> "open"]
  /\ expired = [c \in Conns |-> FALSE]
  /\ load \in Loads /\ sent = [c \in Conns |-> 0]
  /\ sock = [c \in Conns |-> <<>>] /\ buf = [c \in Conns |-> <<>>]
  /\ h = [c \in Conns |-> IF c = Console THEN "handle" ELSE "none"]
  /\ line = [c \in Conns |-> 0]
  /\ handled = [c \in Conns |-> <<>>] /\ answered = [c \in Conns |-> 0]
  /\ faults = 0
-----------------------------------------------------------------------------
(***************************************************************************)
(* The clients and the network.                                            *)
(***************************************************************************)
\* The kernel completes the connection; nobody has accepted it yet.
Dial(c) ==
  /\ ~Ended /\ ls = "open" /\ c \in Clients \cap DOMAIN load /\ conn[c] = "none"
  /\ conn' = [conn EXCEPT ![c] = "queued"]
  /\ backlog' = Append(backlog, c)
  /\ UNCHANGED <<mainVars, ls, loop, sem, clientVars, expired, lineVars, h, faults>>

\* A client does not wait for the answer to a line before it sends the next.
Send(c) ==
  /\ ~Ended /\ conn[c] \in {"queued", "held", "open"} /\ peer[c] = "open"
  /\ c \in DOMAIN load /\ sent[c] < load[c]
  /\ sent' = [sent EXCEPT ![c] = @ + 1]
  /\ sock' = [sock EXCEPT ![c] = Append(@, sent[c] + 1)]
  /\ UNCHANGED <<mainVars, loopVars, sem, conn, peer, load, expired, buf, h, line, handled,
                 answered, faults>>

\* A client stops sending and still reads, or resets the connection.  A line
\* without its newline counts as not sent: ReadBytes drops it.
Hangup(c) ==
  /\ ~Ended /\ c \in DOMAIN load /\ conn[c] \in {"queued", "held", "open"} /\ peer[c] = "open"
  /\ \/ peer' = [peer EXCEPT ![c] = "eof"] /\ UNCHANGED sock
     \/ /\ c # Console
        /\ peer' = [peer EXCEPT ![c] = "reset"]
        /\ sock' = [sock EXCEPT ![c] = <<>>]
  /\ UNCHANGED <<mainVars, loopVars, sem, conn, load, sent, expired, buf, h, line, handled,
                 answered, faults>>

\* SetDeadline was called once, when the connection was accepted; traffic on
\* the connection does not put the deadline off.
Deadline(c) ==
  /\ ~Ended /\ c \in Clients /\ conn[c] \in {"held", "open"} /\ ~expired[c]
  /\ expired' = [expired EXCEPT ![c] = TRUE]
  /\ UNCHANGED <<mainVars, loopVars, sem, conn, clientVars, lineVars, h, faults>>
-----------------------------------------------------------------------------
(***************************************************************************)
(* tcpListener.listen                                                      *)
(***************************************************************************)
ListenStart ==
  /\ ~Ended /\ loop.pc = "begin"
  /\ \/ /\ ls' = "open" /\ loop' = [loop EXCEPT !.pc = "check"]
        /\ UNCHANGED <<main, faults>>
     \/ Fault("listen") /\ main' = "exited" /\ UNCHANGED <<ls, loop>>    \* log.Fatal
  /\ UNCHANGED <<ctx, sem, backlog, conn, clientVars, expired, lineVars, h>>

CheckCtx ==
  /\ ~Ended /\ loop.pc = "check"
  /\ loop' = [loop EXCEPT !.pc = IF ctx THEN "stopped" ELSE "accept"]
  /\ UNCHANGED <<mainVars, ls, sem, backlog, conn, clientVars, expired, lineVars, h, faults>>

\* Accept returns a connection and SetDeadline arms its deadline; if that
\* fails the connection is neither served nor closed.
Accept ==
  /\ ~Ended /\ loop.pc = "accept" /\ ls = "open" /\ backlog # <<>>
  /\ LET c == Head(backlog) IN
     \/ /\ conn' = [conn EXCEPT ![c] = "held"]
        /\ loop' = [pc |-> "acquire", conn |-> c]
        /\ UNCHANGED faults
     \/ /\ Fault("deadline")
        /\ conn' = [conn EXCEPT ![c] = "forgotten"]
        /\ loop' = [loop EXCEPT !.pc = "check"]
  /\ backlog' = Tail(backlog)
  /\ UNCHANGED <<mainVars, ls, sem, clientVars, expired, lineVars, h>>

\* Accept fails because the listener was closed: the loop ends.
AcceptClosed ==
  /\ ~Ended /\ loop.pc = "accept" /\ ls = "closed"
  /\ loop' = [loop EXCEPT !.pc = "stopped"]
  /\ UNCHANGED <<mainVars, ls, sem, backlog, conn, clientVars, expired, lineVars, h, faults>>

\* Mutant: every error of Accept ends the loop.
AcceptErrorStops ==
  /\ ~Ended /\ loop.pc = "accept" /\ ls = "open" /\ Fault("accept")
  /\ loop' = [loop EXCEPT !.pc = "stopped"]
  /\ UNCHANGED <<mainVars, ls, sem, backlog, conn, clientVars, expired, lineVars, h>>

\* Accept fails otherwise, and is tried again.
AcceptError ==
  /\ ~Ended /\ loop.pc = "accept" /\ ls = "open" /\ Fault("accept")
  /\ loop' = [loop EXCEPT !.pc = "check"]
  /\ UNCHANGED <<mainVars, ls, sem, backlog, conn, clientVars, expired, lineVars, h>>

\* Mutant: the slot is taken without a look at the capacity.
AcquireAlways ==
  /\ ~Ended /\ loop.pc \in {"acquire", "wait"}
  /\ sem' = sem + 1
  /\ conn' = [conn EXCEPT ![loop.conn] = "open"]
  /\ h' = [h EXCEPT ![loop.conn] = "handle"]
  /\ loop' = [pc |-> "check", conn |-> None]
  /\ UNCHANGED <<mainVars, ls, backlog, clientVars, expired, lineVars, faults>>

\* AcquireWithDeadline gets a slot, and a goroutine serves the connection.
Acquire ==
  /\ ~Ended /\ loop.pc \in {"acquire", "wait"} /\ sem < MaxConn
  /\ sem' = sem + 1
  /\ conn' = [conn EXCEPT ![loop.conn] = "open"]
  /\ h' = [h EXCEPT ![loop.conn] = "handle"]
  /\ loop' = [pc |-> "check", conn |-> None]
  /\ UNCHANGED <<mainVars, ls, backlog, clientVars, expired, lineVars, faults>>

\* All slots are taken: the loop waits, and accepts nobody meanwhile.
AcquireWaits ==
  /\ ~Ended /\ loop.pc = "acquire" /\ sem = MaxConn
  /\ loop' = [loop EXCEPT !.pc = "wait"]
  /\ UNCHANGED <<mainVars, ls, sem, backlog, conn, clientVars, expired, lineVars, h, faults>>

\* The timer fires, perhaps just as a slot becomes free: "too many
\* connections" is written and the connection closed.
Refuse ==
  /\ ~Ended /\ loop.pc = "wait"
  /\ conn' = [conn EXCEPT ![loop.conn] = "refused"]
  /\ loop' = [pc |-> "check", conn |-> None]
  /\ UNCHANGED <<mainVars, ls, sem, backlog, clientVars, expired, lineVars, h, faults>>
-----------------------------------------------------------------------------
(***************************************************************************)
(* UniversalHandler.Handle in the loop of handleConnection, or, for the    *)
(* console, in the loop of cli.Listener.listen.                            *)
(***************************************************************************)
\* What follows an error on the connection: handleConnection leaves its loop,
\* the console goes on.
AfterError(c) == IF c = Console THEN "handle" ELSE "done"

\* A cancelled context ends the console's loop.  Handle returns the error of
\* the context, which is neither EOF nor a net.OpError, so handleConnection
\* calls it again and again until the process ends.
HandleCancelled(c) ==
  /\ ~Ended /\ h[c] = "handle" /\ ctx
  /\ h' = [h EXCEPT ![c] = IF c = Console THEN "none" ELSE "handle"]
  /\ UNCHANGED <<mainVars, loopVars, sem, conn, clientVars, expired, lineVars, faults>>

\* Mutant: every call of Handle reads through a bufio.Reader of its own.
HandleNewReader(c) ==
  /\ ~Ended /\ h[c] = "handle" /\ ~ctx
  /\ h' = [h EXCEPT ![c] = "read"]
  /\ buf' = [buf EXCEPT ![c] = <<>>]
  /\ UNCHANGED <<mainVars, loopVars, sem, conn, clientVars, expired, sock, line, handled,
                 answered, faults>>

\* bufio.NewReader on the bufio.Reader of a connection is that same reader; on
\* stdin it is a new one, and what the last one had read ahead is lost.
Handle(c) ==
  /\ ~Ended /\ h[c] = "handle" /\ ~ctx
  /\ h' = [h EXCEPT ![c] = "read"]
  /\ buf' = [buf EXCEPT ![c] = IF c = Console THEN <<>> ELSE @]
  /\ UNCHANGED <<mainVars, loopVars, sem, conn, clientVars, expired, sock, line, handled,
                 answered, faults>>

\* ReadBytes('\n') returns a line from the buffer, which a read of the socket
\* fills with what has arrived, one line or more, if it is empty.
ReadLine(c) ==
  /\ ~Ended /\ h[c] = "read"
  /\ \/ /\ buf[c] # <<>>
        /\ line' = [line EXCEPT ![c] = Head(buf[c])]
        /\ buf' = [buf EXCEPT ![c] = Tail(@)]
        /\ UNCHANGED sock
     \/ /\ buf[c] = <<>> /\ sock[c] # <<>> /\ ~expired[c] /\ peer[c] # "reset"
        /\ \E k \in 1..Len(sock[c]) :
             /\ line' = [line EXCEPT ![c] = Head(sock[c])]
             /\ buf' = [buf EXCEPT ![c] = SubSeq(sock[c], 2, k)]
             /\ sock' = [sock EXCEPT ![c] = SubSeq(@, k + 1, Len(@))]
  /\ h' = [h EXCEPT ![c] = "exec"]
  /\ UNCHANGED <<mainVars, loopVars, sem, conn, clientVars, expired, handled, answered, faults>>

\* Mutant: a read that timed out is answered and tried again.
ReadErrorRetries(c) ==
  /\ ~Ended /\ h[c] = "read" /\ buf[c] = <<>>
  /\ \/ expired[c] \/ peer[c] = "reset"
     \/ peer[c] = "eof" /\ sock[c] = <<>>
  /\ h' = [h EXCEPT ![c] = IF expired[c] THEN "handle" ELSE AfterError(c)]
  /\ UNCHANGED <<mainVars, loopVars, sem, conn, clientVars, expired, lineVars, faults>>

\* EOF, which Handle returns as it is; or the deadline or a reset, whose text
\* writeError cannot flush, so that Handle returns a net.OpError.
ReadError(c) ==
  /\ ~Ended /\ h[c] = "read" /\ buf[c] = <<>>
  /\ \/ expired[c] \/ peer[c] = "reset"
     \/ peer[c] = "eof" /\ sock[c] = <<>>
  /\ h' = [h EXCEPT ![c] = AfterError(c)]
  /\ UNCHANGED <<mainVars, loopVars, sem, conn, clientVars, expired, lineVars, faults>>

\* Parse and Execute.
Execute(c) ==
  /\ ~Ended /\ h[c] = "exec"
  /\ handled' = [handled EXCEPT ![c] = Append(@, line[c])]
  /\ line' = [line EXCEPT ![c] = 0]
  /\ h' = [h EXCEPT ![c] = "reply"]
  /\ UNCHANGED <<mainVars, loopVars, sem, conn, clientVars, expired, sock, buf, answered,
                 faults>>

\* Mutant: a panic is recovered without running the rest of the deferred function.
PanicKeepsSlot(c) ==
  /\ ~Ended /\ h[c] = "exec" /\ Fault("panic")
  /\ main' = IF c = Console THEN "panicked" ELSE main
  /\ h' = [h EXCEPT ![c] = "none"]
  /\ conn' = [conn EXCEPT ![c] = "closed"]
  /\ UNCHANGED <<ctx, loopVars, sem, clientVars, expired, lineVars>>

\* A panic in Handle: handleConnection recovers it, the console does not.
Panic(c) ==
  /\ ~Ended /\ h[c] = "exec" /\ Fault("panic")
  /\ main' = IF c = Console THEN "panicked" ELSE main
  /\ h' = [h EXCEPT ![c] = "done"]
  /\ UNCHANGED <<ctx, loopVars, sem, conn, clientVars, expired, lineVars>>

\* write or writeError flushes the answer; on a dead connection the flush
\* returns a net.OpError.
Reply(c) ==
  /\ ~Ended /\ h[c] = "reply"
  /\ IF expired[c] \/ peer[c] = "reset"
     THEN h' = [h EXCEPT ![c] = AfterError(c)] /\ UNCHANGED answered
     ELSE /\ answered' = [answered EXCEPT ![c] = @ + 1]
          /\ h' = [h EXCEPT ![c] = "handle"]
  /\ UNCHANGED <<mainVars, loopVars, sem, conn, clientVars, expired, sock, buf, line,
                 handled, faults>>

\* The deferred function of handleConnection: first the slot, then the socket.
Release(c) ==
  /\ ~Ended /\ c \in Clients /\ h[c] = "done"
  /\ sem' = IF sem > 0 THEN sem - 1 ELSE sem
  /\ h' = [h EXCEPT ![c] = "released"]
  /\ UNCHANGED <<mainVars, loopVars, conn, clientVars, expired, lineVars, faults>>

\* Nothing is left of the connection.
CloseConn(c) ==
  /\ ~Ended /\ h[c] = "released"
  /\ h' = [h EXCEPT ![c] = "none"]
  /\ conn' = [conn EXCEPT ![c] = "closed"] /\ peer' = [peer EXCEPT ![c] = "reset"]
  /\ expired' = [expired EXCEPT ![c] = FALSE]
  /\ sock' = [sock EXCEPT ![c] = <<>>] /\ buf' = [buf EXCEPT ![c] = <<>>]
  /\ UNCHANGED <<mainVars, loopVars, sem, load, sent, line, handled, answered, faults>>
-----------------------------------------------------------------------------
(***************************************************************************)
(* main() from <-ctx.Done() on                                             *)
(***************************************************************************)
Signal ==
  /\ ~Ended /\ ~ctx
  /\ ctx' = TRUE
  /\ UNCHANGED <<main, loopVars, sem, conn, clientVars, expired, lineVars, h, faults>>

\* ls.Close(): nil if the accept goroutine has not run.  Closing the listener
\* resets what nobody has accepted.
CloseListener ==
  /\ main = "serving" /\ ctx
  /\ IF ls = "nil"
     THEN main' = "panicked" /\ UNCHANGED <<ls, conn, backlog>>
     ELSE /\ ls' = "closed" /\ main' = "closed"
          /\ conn' = [c \in Conns |-> IF conn[c] = "queued" THEN "closed" ELSE conn[c]]
          /\ backlog' = <<>>
  /\ UNCHANGED <<ctx, loop, sem, clientVars, expired, lineVars, h, faults>>

\* repl.Close(), with replication configured or not: on a nil interface it
\* panics.  Then main returns, and the process ends whatever its goroutines do.
CloseReplication ==
  /\ main = "closed"
  /\ \E repl \in BOOLEAN : main' = IF repl THEN "exited" ELSE "panicked"
  /\ UNCHANGED <<ctx, loopVars, sem, conn, clientVars, expired, lineVars, h, faults>>
-----------------------------------------------------------------------------
Accepting ==
  \/ ListenStart \/ CheckCtx \/ Accept \/ AcceptClosed
  \/ Acquire \/ AcquireWaits \/ Refuse

Serve(c) ==
  \/ HandleCancelled(c) \/ Handle(c) \/ ReadLine(c) \/ ReadError(c)
  \/ Execute(c) \/ Panic(c) \/ Reply(c) \/ Release(c) \/ CloseConn(c)

Environment == Signal \/ \E c \in Conns : Dial(c) \/ Send(c) \/ Hangup(c) \/ Deadline(c)

Shutdown == CloseListener \/ CloseReplication

Next == Accepting \/ AcceptError \/ (\E c \in Conns : Serve(c)) \/ Shutdown \/ Environment

Spec == Init /\ [][Next]_vars

\* Every goroutine that can run does, and deadlines and timers do pass (the
\* runtime's timers).  No client has to do anything and nobody has to stop the
\* process.
Fairness ==
  /\ WF_vars(Accepting)
  /\ \A c \in Conns : WF_vars(Serve(c)) /\ WF_vars(Deadline(c))
  /\ WF_vars(Shutdown)

FairSpec == Spec /\ Fairness
-----------------------------------------------------------------------------
\* Types of the state: the semaphore never holds more than max_conn, and only
\* lines that were sent are read, handled and answered.
TypeOK ==
  /\ main \in {"serving", "closed", "exited", "panicked"}
  /\ ctx \in BOOLEAN /\ ls \in {"nil", "open", "closed"}
  /\ loop \in [pc : {"begin", "check", "accept", "acquire", "wait", "stopped"},
               conn : Clients \cup {None}]
  /\ sem \in 0..MaxConn
  /\ backlog \in Seq(Clients)
  /\ conn \in [Conns -> {"none", "queued", "held", "open", "refused", "forgotten", "closed"}]
  /\ peer \in [Conns -> {"open", "eof", "reset"}]
  /\ expired \in [Conns -> BOOLEAN]
  /\ load \in Loads
  /\ \A c \in Conns :
       /\ sent[c] \in 0..(IF c \in DOMAIN load THEN load[c] ELSE 0)
       /\ {answered[c], line[c]} \subseteq 0..sent[c]
       /\ {sock[c], buf[c], handled[c]} \subseteq Seq(1..sent[c])
  /\ h \in [Conns -> {"none", "handle", "read", "exec", "reply", "done", "released"}]
  /\ faults \in 0..MaxFaults

\* The slots taken are those of the goroutines that serve a connection, however
\* these end: end of file, deadline, reset or panic (listener.go:107-128).  So at
\* most max_conn connections are served, no slot is lost, and Release never
\* finds the semaphore empty.
SlotsExact == sem = Cardinality(Serving)

\* A client may send lines without waiting for answers: they are handled in the
\* order sent, none is skipped or handled twice, and at most the last one
\* handled has no answer.  The console may lose lines it was sent ahead, yet
\* handles the others in order (handlers.go:44, cli/listener.go:48).
LinesInOrder ==
  \A c \in Conns :
    /\ Len(handled[c]) - answered[c] \in {0, 1}
    /\ \A i \in DOMAIN handled[c] :
         IF c = Console THEN \A j \in 1..(i - 1) : handled[c][j] < handled[c][i]
                        ELSE handled[c][i] = i

\* A client in the backlog does not stay there: it is served, refused, or cut
\* off by the end of the process, though the accept loop waits for a slot and
\* Accept may fail (listener.go:90-116).
BacklogMoves ==
  \A c \in Clients : conn[c] = "queued" ~> conn[c] # "queued" \/ Ended

\* Every accepted connection is closed in the end, with its slot given back,
\* whatever its client does and whatever the handler meets (listener.go:120-144).
\* After a cancellation it takes the end of the process.
ConnectionEnds ==
  \A c \in Clients :
    conn[c] \in {"held", "open"} ~> conn[c] \in {"closed", "refused"} \/ Ended
=============================================================================
