------------------------------- MODULE Server -------------------------------
(***************************************************************************)
(* http.rs and main.rs: the accept thread, the bounded queue of accepted   *)
(* connections, the fixed pool of workers that each own a connection for   *)
(* its keep-alive lifetime, and shutdown with a grace period, composed     *)
(* with the connection pool that handlers call and main() closes last.     *)
(***************************************************************************)
EXTENDS DbPool, Integers, Sequences

CONSTANTS
  Workers,      \* threads of the HTTP pool; the other Threads are janitors
  Clients,      \* TCP connections
  NoClient,
  QueueCap,     \* max_queued_connections
  MaxMishaps    \* bound on accept and write errors, panics and a failed wake-up

ASSUME ServerAssumption ==
  /\ Workers \subseteq Threads
  /\ NoClient \notin Clients
  /\ QueueCap \in Nat \ {0}
  /\ MaxMishaps \in Nat

VARIABLES
  place,      \* place[c]: where connection c is
  queue,      \* the sync_channel between the accept thread and the workers
  acceptor,   \* the accept thread's next step
  taken,      \* the connection accept() returned
  worker,     \* worker[w]: the worker's next step
  serving,    \* serving[w]: the connection it owns
  owed,       \* connections whose request was read and not answered yet
  live,       \* Inner.live
  stop,       \* Inner.stop
  wake,       \* the throwaway connection of trigger()
  main,       \* where main() is
  graceOver,  \* shutdown() gave up waiting
  mishaps

connVars == <<place, queue, owed>>
shutdownVars == <<stop, wake, main, graceOver>>
serverVars == <<connVars, acceptor, taken, worker, serving, live, shutdownVars, mishaps>>
allVars == <<poolVars, serverVars>>

Places == {"away", "backlog", "accepted", "queued", "served", "closed"}

\* "final": the answer that will be sent says Connection: close.
WorkerSteps == {"recv", "read", "handle", "answer", "final", "gone"}

ServerInit ==
  /\ PoolInit
  /\ place = [c \in Clients |-> "away"]
  /\ queue = <<>>
  /\ acceptor = "accept"
  /\ taken = NoClient
  /\ worker = [w \in Workers |-> "recv"]
  /\ serving = [w \in Workers |-> NoClient]
  /\ owed = {}
  /\ live = Cardinality(Workers)
  /\ stop = FALSE
  /\ wake = "none"
  /\ main = "running"
  /\ graceOver = FALSE
  /\ mishaps = 0

Mishap == mishaps < MaxMishaps /\ mishaps' = mishaps + 1

-----------------------------------------------------------------------------
(***************************************************************************)
(* The accept thread.                                                      *)
(***************************************************************************)

\* The kernel completes a handshake while the listener exists.
Connect(c) ==
  /\ place[c] = "away"
  /\ acceptor # "gone"
  /\ place' = [place EXCEPT ![c] = "backlog"]
  /\ UNCHANGED <<queue, owed, acceptor, taken, worker, serving, live, shutdownVars, mishaps>>

Accept(c) ==
  /\ acceptor = "accept"
  /\ place[c] = "backlog"
  /\ place' = [place EXCEPT ![c] = "accepted"]
  /\ taken' = c
  /\ acceptor' = "check"
  /\ UNCHANGED <<queue, owed, worker, serving, live, shutdownVars, mishaps>>

AcceptWake ==
  /\ acceptor = "accept"
  /\ wake = "connected"
  /\ wake' = "accepted"
  /\ acceptor' = "check"
  /\ UNCHANGED <<connVars, taken, worker, serving, live, stop, main, graceOver, mishaps>>

\* A reset during the handshake, or no descriptor left.
AcceptFails ==
  /\ acceptor = "accept"
  /\ Mishap
  /\ acceptor' = "check"
  /\ UNCHANGED <<connVars, taken, worker, serving, live, shutdownVars>>

\* The stop flag is read after accept() has returned, whatever it returned; leaving
\* the loop drops the sender, the connection in hand and the listener's backlog.
CheckStop ==
  /\ acceptor = "check"
  /\ IF stop
     THEN /\ acceptor' = "gone"
          /\ place' = [c \in Clients |->
                         IF place[c] \in {"backlog", "accepted"} THEN "closed" ELSE place[c]]
          /\ taken' = NoClient
     ELSE /\ acceptor' = IF taken = NoClient THEN "accept" ELSE "offer"
          /\ UNCHANGED <<place, taken>>
  /\ UNCHANGED <<queue, owed, worker, serving, live, shutdownVars, mishaps>>

\* try_send: queue the connection, or shed it.
Offer ==
  /\ acceptor = "offer"
  /\ taken' = NoClient
  /\ acceptor' = "accept"
  /\ IF Len(queue) < QueueCap
     THEN /\ queue' = Append(queue, taken)
          /\ place' = [place EXCEPT ![taken] = "queued"]
     ELSE /\ place' = [place EXCEPT ![taken] = "closed"]
          /\ UNCHANGED queue
  /\ UNCHANGED <<owed, worker, serving, live, shutdownVars, mishaps>>

-----------------------------------------------------------------------------
(***************************************************************************)
(* A worker: the receive loop of serve() and handle_connection().          *)
(***************************************************************************)

At(w, step) == worker' = [worker EXCEPT ![w] = step]

Receive(w) ==
  /\ worker[w] = "recv"
  /\ queue # <<>>
  /\ queue' = Tail(queue)
  /\ place' = [place EXCEPT ![Head(queue)] = "served"]
  /\ serving' = [serving EXCEPT ![w] = Head(queue)]
  /\ At(w, "read")
  /\ UNCHANGED <<owed, acceptor, taken, live, shutdownVars, mishaps>>

\* Plausible bug: a worker leaves as soon as it sees the stop flag.
LeaveOnStop(w) ==
  /\ worker[w] = "recv"
  /\ stop
  /\ At(w, "gone")
  /\ live' = live - 1
  /\ UNCHANGED <<connVars, acceptor, taken, serving, shutdownVars, mishaps>>

\* recv() fails once the sender is dropped and the queue is drained; LiveGuard
\* counts the worker out.
Leave(w) ==
  /\ worker[w] = "recv"
  /\ queue = <<>>
  /\ acceptor = "gone"
  /\ At(w, "gone")
  /\ live' = live - 1
  /\ UNCHANGED <<connVars, acceptor, taken, serving, shutdownVars, mishaps>>

\* The worker drops its connection and goes back to the receive loop.
Drops(w) ==
  /\ place' = [place EXCEPT ![serving[w]] = "closed"]
  /\ serving' = [serving EXCEPT ![w] = NoClient]
  /\ At(w, "recv")

ReadRequest(w) ==
  /\ worker[w] = "read"
  /\ owed' = owed \cup {serving[w]}
  /\ At(w, "handle")
  /\ UNCHANGED <<place, queue, acceptor, taken, serving, live, shutdownVars, mishaps>>

\* The client closed, a deadline passed, or the request was malformed and is
\* answered with its error status: in each case the connection is closed.
NoRequest(w) ==
  /\ worker[w] = "read"
  /\ Drops(w)
  /\ UNCHANGED <<queue, owed, acceptor, taken, live, shutdownVars, mishaps>>

\* Plausible bug: no catch_unwind around handle_connection.
PanicKillsWorker(w) ==
  /\ worker[w] = "read"
  /\ Mishap
  /\ place' = [place EXCEPT ![serving[w]] = "closed"]
  /\ serving' = [serving EXCEPT ![w] = NoClient]
  /\ At(w, "gone")
  /\ live' = live - 1
  /\ UNCHANGED <<queue, owed, acceptor, taken, shutdownVars>>

\* A panic in the parser is caught around handle_connection.
ParserPanics(w) ==
  /\ worker[w] = "read"
  /\ Mishap
  /\ Drops(w)
  /\ UNCHANGED <<queue, owed, acceptor, taken, live, shutdownVars>>

\* A handler makes any number of calls to the pool.
HandlerCalls(w, k) ==
  /\ worker[w] = "handle"
  /\ Call(w, k)

\* The handler returns, or panics and is answered 500; the connection is kept if the
\* client agreed to it and the server is not stopping.
HandlerEnds(w) ==
  /\ worker[w] = "handle"
  /\ at[w] = "out"
  /\ \/ ~stop /\ At(w, "answer")
     \/ At(w, "final")
  /\ UNCHANGED <<connVars, acceptor, taken, serving, live, shutdownVars, mishaps>>

WriteAnswer(w) ==
  /\ worker[w] \in {"answer", "final"}
  /\ owed' = owed \ {serving[w]}
  /\ IF worker[w] = "answer"
     THEN At(w, "read") /\ UNCHANGED <<place, serving>>
     ELSE Drops(w)
  /\ UNCHANGED <<queue, acceptor, taken, live, shutdownVars, mishaps>>

\* The client is gone; nobody waits for the answer.
WriteFails(w) ==
  /\ worker[w] \in {"answer", "final"}
  /\ Mishap
  /\ owed' = owed \ {serving[w]}
  /\ Drops(w)
  /\ UNCHANGED <<queue, acceptor, taken, live, shutdownVars>>

-----------------------------------------------------------------------------
(***************************************************************************)
(* main() after SIGINT or SIGTERM.                                         *)
(***************************************************************************)

\* server.shutdown() calls trigger(), which sets the flag first.
Trigger ==
  /\ main = "running"
  /\ main' = "waking"
  /\ stop' = TRUE
  /\ UNCHANGED <<connVars, acceptor, taken, worker, serving, live, wake, graceOver, mishaps>>

\* Plausible bug: the flag is set but nothing wakes a blocked accept().
WakeNobody ==
  /\ main = "waking"
  /\ main' = "grace"
  /\ wake' = "accepted"
  /\ UNCHANGED <<connVars, acceptor, taken, worker, serving, live, stop, graceOver, mishaps>>

\* The throwaway connection reaches the listener, if there still is one.
Wake ==
  /\ main = "waking"
  /\ main' = "grace"
  /\ wake' = "connected"
  /\ UNCHANGED <<connVars, acceptor, taken, worker, serving, live, stop, graceOver, mishaps>>

\* connect_timeout fails on every address.
WakeFails ==
  /\ main = "waking"
  /\ Mishap
  /\ main' = "grace"
  /\ wake' = "failed"
  /\ UNCHANGED <<connVars, acceptor, taken, worker, serving, live, stop, graceOver>>

\* shutdown() returns when no worker is left.
AllGone ==
  /\ main = "grace"
  /\ live = 0
  /\ main' = "closing"
  /\ UNCHANGED <<connVars, acceptor, taken, worker, serving, live, stop, wake, graceOver, mishaps>>

\* Or when the grace period is over: a worker stuck in a handler is abandoned.
GraceExpires ==
  /\ main = "grace"
  /\ live > 0
  /\ graceOver' = TRUE
  /\ main' = "closing"
  /\ UNCHANGED <<connVars, acceptor, taken, worker, serving, live, stop, wake, mishaps>>

\* state.pool.close_all(), the only call of it while handlers may run.
ClosePool == main = "closing" /\ CloseAll

\* main() returns: the process ends, with whatever threads it still has.
Exit ==
  /\ main = "closing"
  /\ closer = "done"
  /\ main' = "exited"
  /\ UNCHANGED <<connVars, acceptor, taken, worker, serving, live, stop, wake, graceOver, mishaps>>

-----------------------------------------------------------------------------
AcceptStep == (\E c \in Clients : Accept(c)) \/ AcceptWake \/ CheckStop \/ Offer

WorkerStep(w) ==
  \/ Receive(w)
  \/ Leave(w)
  \/ ReadRequest(w)
  \/ NoRequest(w)
  \/ HandlerEnds(w)
  \/ WriteAnswer(w)

ServerStep ==
  \/ \E c \in Clients : Connect(c)
  \/ AcceptStep
  \/ AcceptFails
  \/ \E w \in Workers : WorkerStep(w) \/ ParserPanics(w) \/ WriteFails(w)
  \/ Trigger \/ Wake \/ WakeFails \/ AllGone \/ GraceExpires \/ Exit

PoolActivity ==
  \/ \E w \in Workers, k \in Kinds : HandlerCalls(w, k)
  \/ \E t \in Threads \ Workers, k \in Kinds : Call(t, k)
  \/ \E t \in Threads : PoolStep(t) \/ PoolMishap(t)
  \/ ClosePool
  \/ WakeAll

ServerNext ==
  /\ main # "exited"
  /\ \/ ServerStep /\ UNCHANGED poolVars
     \/ PoolActivity /\ UNCHANGED serverVars

ServerSpec == ServerInit /\ [][ServerNext]_allVars

\* Threads are scheduled, reads and writes have deadlines, handlers and SQLite
\* answer.  Nobody is obliged to connect or to stop the server, and the grace period
\* may be as long as it takes.
ServerFairness ==
  /\ WF_allVars(main # "exited" /\ AcceptStep /\ UNCHANGED poolVars)
  /\ \A w \in Workers :
       WF_allVars(main # "exited" /\ WorkerStep(w) /\ UNCHANGED poolVars)
  /\ \A t \in Threads : WF_allVars(main # "exited" /\ PoolStep(t) /\ UNCHANGED serverVars)
  /\ WF_allVars((Wake \/ AllGone \/ Exit) /\ UNCHANGED poolVars)
  /\ WF_allVars((ClosePool \/ (main # "exited" /\ WakeAll)) /\ UNCHANGED serverVars)

FairServerSpec == ServerSpec /\ ServerFairness

-----------------------------------------------------------------------------
(***************************************************************************)
(* Properties.                                                             *)
(***************************************************************************)

\* serve(): a panic "cannot shrink the pool".  Workers leave only at shutdown, after
\* the last queued connection has been served, and Inner.live counts the others.
WorkersOutliveTraffic ==
  /\ live = Cardinality({w \in Workers : worker[w] # "gone"})
  /\ (\E w \in Workers : worker[w] = "gone") => stop /\ acceptor = "gone" /\ queue = <<>>

\* A panic inside handler is "answered with 500": a request that was read is in
\* the hands of a worker until its answer is written or its client is gone.
NoRequestForgotten ==
  \A c \in owed : \E w \in Workers :
    serving[w] = c /\ worker[w] \in {"handle", "answer", "final"}

\* shutdown() then close_all(), in main(): the pool is closed under a running handler
\* only if the grace period ran out.
PoolOutlivesHandlers ==
  closed => graceOver \/ \A w \in Workers : worker[w] = "gone"

-----------------------------------------------------------------------------
\* The inductive strengthening: types, the connection each step of a worker or of the
\* accept thread has in hand, and how far shutdown has come.
ServerTypeOK ==
  /\ place \in [Clients -> Places]
  /\ queue \in Seq(Clients)
  /\ Len(queue) <= QueueCap
  /\ acceptor \in {"accept", "check", "offer", "gone"}
  /\ taken \in Clients \cup {NoClient}
  /\ worker \in [Workers -> WorkerSteps]
  /\ serving \in [Workers -> Clients \cup {NoClient}]
  /\ owed \subseteq Clients
  /\ live \in Nat
  /\ stop \in BOOLEAN
  /\ graceOver \in BOOLEAN
  /\ wake \in {"none", "connected", "accepted", "failed"}
  /\ main \in {"running", "waking", "grace", "closing", "exited"}
  /\ mishaps \in Nat

InHandInv ==
  /\ acceptor = "offer" => taken # NoClient
  /\ \A w \in Workers : worker[w] \notin {"recv", "gone"} => serving[w] # NoClient

ShutdownInv ==
  /\ acceptor = "gone" => stop
  /\ main \in {"closing", "exited"} => graceOver \/ \A w \in Workers : worker[w] = "gone"
  /\ closed => main \in {"closing", "exited"}

ServerInv ==
  /\ ServerTypeOK
  /\ InHandInv
  /\ ShutdownInv
  /\ WorkersOutliveTraffic
  /\ NoRequestForgotten

-----------------------------------------------------------------------------
\* A connection the accept thread queued is served or, if the grace period ran out,
\* dropped at exit, unless a client sends requests on one connection for ever: "one
\* OS thread owns a connection for its whole keep-alive lifetime".
NoClientHogs ==
  \A w \in Workers : SF_allVars(main # "exited" /\ NoRequest(w) /\ UNCHANGED poolVars)

NobodyStarves ==
  NoClientHogs =>
    \A c \in Clients : place[c] = "queued" ~> (place[c] # "queued" \/ graceOver)

\* shutdown(): "Stop accepting, let in-flight requests finish, then return": once the
\* accept thread can be woken, the process exits without help of the grace period.
CleanShutdown == [](wake # "failed") => (stop ~> main = "exited")

=============================================================================
