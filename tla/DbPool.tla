------------------------------- MODULE DbPool -------------------------------
(***************************************************************************)
(* The connection pool of db.rs: a mutex, a condition variable and the     *)
(* idle connections; with() and transaction() on top of them; close_all(). *)
(* Every critical section of the mutex is one step, and the notification   *)
(* that follows it is a step of its own, as the mutex is released first.   *)
(***************************************************************************)
EXTENDS Naturals, FiniteSets

CONSTANTS
  Threads,      \* HTTP workers and the webhook janitor
  Conns,        \* the connections Pool::open makes
  NoConn,       \* the thread has no connection
  MaxCalls,     \* bound on the calls of with() and transaction() together
  MaxFailures   \* bound on the failures and panics

Kinds == {"with", "transaction"}

ASSUME PoolAssumption ==
  /\ IsFiniteSet(Threads)
  /\ IsFiniteSet(Conns)
  /\ NoConn \notin Conns
  /\ MaxCalls \in Nat
  /\ MaxFailures \in Nat

VARIABLES
  idle,      \* PoolState.idle
  closed,    \* PoolState.closed
  at,        \* at[t]: the next step of thread t in the pool
  kind,      \* kind[t]: with or transaction
  conn,      \* conn[t]: the connection of its Checkout guard
  open,      \* SQLite: the connections with a transaction begun
  freed,     \* SQLite: the connections closed
  closer,    \* close_all: not called, draining done, waiters woken
  calls,     \* calls so far
  failures   \* failures so far

guardVars == <<at, kind, conn>>
poolVars == <<idle, closed, at, kind, conn, open, freed, closer, calls, failures>>

\* "checkout": about to lock the pool; "asleep": waiting for a connection;
\* "begin" to "rollback": holding one; "drop": giving it back; "notify": about
\* to wake a waiter.
Steps == {"out", "checkout", "asleep", "begin", "body", "commit", "rollback",
          "drop", "notify"}

InTransaction == {"body", "commit", "rollback"}

Holding == {"begin", "drop"} \cup InTransaction

PoolInit ==
  /\ idle = Conns
  /\ closed = FALSE
  /\ at = [t \in Threads |-> "out"]
  /\ kind = [t \in Threads |-> "with"]
  /\ conn = [t \in Threads |-> NoConn]
  /\ open = {}
  /\ freed = {}
  /\ closer = "running"
  /\ calls = 0
  /\ failures = 0

Failure == failures < MaxFailures /\ failures' = failures + 1

Goto(t, step) == at' = [at EXCEPT ![t] = step]

Asleep == {t \in Threads : at[t] = "asleep"}

-----------------------------------------------------------------------------
(***************************************************************************)
(* checkout().                                                             *)
(***************************************************************************)

Call(t, k) ==
  /\ at[t] = "out"
  /\ calls < MaxCalls
  /\ calls' = calls + 1
  /\ kind' = [kind EXCEPT ![t] = k]
  /\ Goto(t, "checkout")
  /\ UNCHANGED <<idle, closed, conn, open, freed, closer, failures>>

\* "database pool is closed".
Refuse(t) ==
  /\ at[t] = "checkout"
  /\ closed
  /\ Goto(t, "out")
  /\ UNCHANGED <<idle, closed, kind, conn, open, freed, closer, calls, failures>>

\* idle.pop(); which connection it is makes no difference.
Take(t) ==
  /\ at[t] = "checkout"
  /\ ~closed
  /\ \E c \in idle :
       /\ idle' = idle \ {c}
       /\ conn' = [conn EXCEPT ![t] = c]
  /\ Goto(t, IF kind[t] = "transaction" THEN "begin" ELSE "body")
  /\ UNCHANGED <<closed, kind, open, freed, closer, calls, failures>>

\* available.wait() releases the mutex and sleeps in one step.
Wait(t) ==
  /\ at[t] = "checkout"
  /\ ~closed
  /\ idle = {}
  /\ Goto(t, "asleep")
  /\ UNCHANGED <<idle, closed, kind, conn, open, freed, closer, calls, failures>>

\* A condition variable may wake without a notification.
SpuriousWakeup(t) ==
  /\ at[t] = "asleep"
  /\ Goto(t, "checkout")
  /\ UNCHANGED <<idle, closed, kind, conn, open, freed, closer, calls, failures>>

-----------------------------------------------------------------------------
(***************************************************************************)
(* with() and transaction().                                               *)
(***************************************************************************)

\* BEGIN IMMEDIATE takes SQLite's one write lock.
Begin(t) ==
  /\ at[t] = "begin"
  /\ open = {}
  /\ open' = {conn[t]}
  /\ Goto(t, "body")
  /\ UNCHANGED <<idle, closed, kind, conn, freed, closer, calls, failures>>

\* BEGIN IMMEDIATE fails, for instance when the busy timeout runs out: there is no
\* TxGuard yet, and nothing to roll back.
BeginFails(t) ==
  /\ at[t] = "begin"
  /\ Failure
  /\ Goto(t, "drop")
  /\ UNCHANGED <<idle, closed, kind, conn, open, freed, closer, calls>>

\* The closure returns Ok.
Body(t) ==
  /\ at[t] = "body"
  /\ Goto(t, IF kind[t] = "transaction" THEN "commit" ELSE "drop")
  /\ UNCHANGED <<idle, closed, kind, conn, open, freed, closer, calls, failures>>

\* Plausible bug: an early return without TxGuard leaves the transaction begun.
BodyFailsUnguarded(t) ==
  /\ at[t] = "body"
  /\ Failure
  /\ Goto(t, "drop")
  /\ UNCHANGED <<idle, closed, kind, conn, open, freed, closer, calls>>

\* The closure returns an error or panics; TxGuard is dropped first.
BodyFails(t) ==
  /\ at[t] = "body"
  /\ Failure
  /\ Goto(t, IF kind[t] = "transaction" THEN "rollback" ELSE "drop")
  /\ UNCHANGED <<idle, closed, kind, conn, open, freed, closer, calls>>

\* COMMIT and ROLLBACK end the transaction and release the write lock.
EndTransaction(t) ==
  /\ at[t] \in {"commit", "rollback"}
  /\ open' = open \ {conn[t]}
  /\ Goto(t, "drop")
  /\ UNCHANGED <<idle, closed, kind, conn, freed, closer, calls, failures>>

\* COMMIT fails: TxGuard rolls back.
CommitFails(t) ==
  /\ at[t] = "commit"
  /\ Failure
  /\ Goto(t, "rollback")
  /\ UNCHANGED <<idle, closed, kind, conn, open, freed, closer, calls>>

\* Plausible bug: the guard lends its connection to the pool and keeps it.
DropKeepsConn(t) ==
  /\ at[t] = "drop"
  /\ idle' = idle \cup {conn[t]}
  /\ Goto(t, "begin")
  /\ UNCHANGED <<closed, kind, conn, open, freed, closer, calls, failures>>

\* Drop for Checkout: back to the pool, or closed with it.
Drop(t) ==
  /\ at[t] = "drop"
  /\ conn' = [conn EXCEPT ![t] = NoConn]
  /\ IF closed
     THEN /\ freed' = freed \cup {conn[t]}
          /\ Goto(t, "out")
          /\ UNCHANGED idle
     ELSE /\ idle' = idle \cup {conn[t]}
          /\ Goto(t, "notify")
          /\ UNCHANGED freed
  /\ UNCHANGED <<closed, kind, open, closer, calls, failures>>

\* Plausible bug: a waiter is woken only if the pool was empty before.
NotifyIfWasEmpty(t) ==
  /\ at[t] = "notify"
  /\ IF Asleep = {} \/ Cardinality(idle) > 1
     THEN Goto(t, "out")
     ELSE \E s \in Asleep : at' = [at EXCEPT ![t] = "out", ![s] = "checkout"]
  /\ UNCHANGED <<idle, closed, kind, conn, open, freed, closer, calls, failures>>

\* available.notify_one(), after the mutex is released.
NotifyOne(t) ==
  /\ at[t] = "notify"
  /\ IF Asleep = {}
     THEN Goto(t, "out")
     ELSE \E s \in Asleep : at' = [at EXCEPT ![t] = "out", ![s] = "checkout"]
  /\ UNCHANGED <<idle, closed, kind, conn, open, freed, closer, calls, failures>>

-----------------------------------------------------------------------------
(***************************************************************************)
(* close_all(), called once by main() or by dropping the pool.             *)
(***************************************************************************)

CloseAll ==
  /\ closer = "running"
  /\ closer' = "drained"
  /\ closed' = TRUE
  /\ idle' = {}
  /\ freed' = freed \cup idle
  /\ UNCHANGED <<guardVars, open, calls, failures>>

\* available.notify_all(), after the mutex is released.
WakeAll ==
  /\ closer = "drained"
  /\ closer' = "done"
  /\ at' = [t \in Threads |-> IF at[t] = "asleep" THEN "checkout" ELSE at[t]]
  /\ UNCHANGED <<idle, closed, kind, conn, open, freed, calls, failures>>

-----------------------------------------------------------------------------
\* What a thread in the pool does by itself, given that SQLite answers.
PoolStep(t) ==
  \/ Refuse(t)
  \/ Take(t)
  \/ Wait(t)
  \/ Begin(t)
  \/ Body(t)
  \/ EndTransaction(t)
  \/ Drop(t)
  \/ NotifyOne(t)

PoolMishap(t) ==
  \/ SpuriousWakeup(t)
  \/ BeginFails(t)
  \/ BodyFails(t)
  \/ CommitFails(t)

PoolNext ==
  \/ \E t \in Threads, k \in Kinds : Call(t, k)
  \/ \E t \in Threads : PoolStep(t) \/ PoolMishap(t)
  \/ CloseAll
  \/ WakeAll

PoolSpec == PoolInit /\ [][PoolNext]_poolVars

\* Threads are scheduled and SQLite answers; nobody is obliged to call the pool,
\* or to close it.
PoolFairness ==
  /\ \A t \in Threads : WF_poolVars(PoolStep(t))
  /\ WF_poolVars(WakeAll)

FairPoolSpec == PoolSpec /\ PoolFairness

-----------------------------------------------------------------------------
(***************************************************************************)
(* Properties.                                                             *)
(***************************************************************************)

\* Every variable of the pool has its type.
PoolTypeOK ==
  /\ idle \subseteq Conns
  /\ closed \in BOOLEAN
  /\ at \in [Threads -> Steps]
  /\ kind \in [Threads -> Kinds]
  /\ conn \in [Threads -> Conns \cup {NoConn}]
  /\ open \subseteq Conns
  /\ freed \subseteq Conns
  /\ closer \in {"running", "drained", "done"}
  /\ calls \in Nat
  /\ failures \in Nat

\* Checkout and its Drop: a connection is used by one thread at a time, and is
\* idle, in use or closed, never lost, whoever fails or panics and whenever the
\* pool is closed.
EachConnInOnePlace ==
  \A c \in Conns :
    LET holders == {t \in Threads : conn[t] = c}
    IN  \/ c \in idle /\ c \notin freed /\ holders = {}
        \/ c \in freed /\ c \notin idle /\ holders = {}
        \/ /\ c \notin idle /\ c \notin freed
           /\ \E t \in Threads : holders = {t}

\* transaction(): "a connection is never returned to the pool with a transaction
\* still open": a transaction is begun only while its own thread is inside it.
NoStrayTransaction ==
  \A c \in open :
    \E t \in Threads :
      conn[t] = c /\ kind[t] = "transaction" /\ at[t] \in InTransaction

\* close_all(): "Checkouts fail and returns are dropped": a closed pool holds no
\* connection, and whoever still sleeps is about to be woken.
ClosedIsDrained ==
  closed => idle = {} /\ (Asleep # {} => closer = "drained")

\* Drop for Checkout and checkout(): no wake-up is lost.  While threads sleep, there
\* are at least as many threads on their way to the idle connections, or to wake
\* a sleeper, as there are idle connections.
OnTheirWay == {t \in Threads : at[t] \in {"notify", "checkout"}}

NoLostWakeup ==
  Asleep # {} => Cardinality(idle) <= Cardinality(OnTheirWay)

-----------------------------------------------------------------------------
\* The inductive strengthening: which connections guards may hold, what each step
\* of transaction() knows, and how far close_all has come.
ConnInv ==
  /\ idle \cap freed = {}
  /\ \A t \in Threads : at[t] \in Holding <=> conn[t] # NoConn
  /\ \A t \in Threads : conn[t] \notin idle \cup freed
  /\ \A s, t \in Threads : s # t /\ conn[s] = conn[t] => conn[s] = NoConn
  /\ \A c \in Conns : c \in idle \cup freed \/ \E t \in Threads : conn[t] = c

TxInv ==
  /\ \A t \in Threads : at[t] \in {"begin", "commit", "rollback"}
                          => kind[t] = "transaction"
  /\ NoStrayTransaction

CloseInv ==
  /\ closed <=> closer # "running"
  /\ ClosedIsDrained

PoolInv ==
  /\ PoolTypeOK
  /\ ConnInv
  /\ TxInv
  /\ CloseInv
  /\ NoLostWakeup

-----------------------------------------------------------------------------
\* with(): every call comes to an end, with a connection or with an error; a waiter
\* is not forgotten by returns, failures or close_all.  As calls are bounded, in
\* the end all threads are out of the pool for good.
EveryCallEnds == <>[](\A t \in Threads : at[t] = "out")

=============================================================================
