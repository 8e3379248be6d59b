---------------------------- MODULE StripeWorker ----------------------------
(***************************************************************************)
(* stripe_worker.rs and the retries and circuit breaker of stripe.rs:      *)
(* request threads hand jobs to two Stripe threads through a bounded       *)
(* queue, wait for the reply with a timeout, and go away without it.       *)
(*                                                                         *)
(* Time is what is left of each timer: Tick lets all of them run down by   *)
(* one, so a deadline has passed when nothing is left of it.               *)
(***************************************************************************)
EXTENDS Integers, Sequences, FiniteSets

CONSTANTS
  Callers,       \* HTTP worker threads
  Plans,         \* the Stripe calls a handler makes, in their order
  Workers,       \* STRIPE_WORKERS threads
  QueueCap,      \* STRIPE_QUEUE_CAP
  CallTimeout,   \* STRIPE_CALL_TIMEOUT
  MaxRetries,    \* MAX_RETRIES
  BaseBackoff,   \* BASE_BACKOFF_MS
  MaxRetryAfter, \* MAX_RETRY_AFTER_SECS
  Threshold,     \* CIRCUIT_FAILURE_THRESHOLD
  Cooldown,      \* CIRCUIT_COOLDOWN
  MaxJobs,       \* bound on the jobs ever queued
  MaxDeaths      \* bound on the panics of Stripe threads

\* JobKind.  The two that create something at Stripe are POSTs.
Kinds == {"price", "checkout", "portal", "subscription", "email"}
Posts == {"checkout", "portal"}

ASSUME StripeAssumption ==
  /\ Plans \subseteq Seq(Kinds) \ {<<>>}
  /\ IsFiniteSet(Workers) /\ Workers # {}
  /\ {QueueCap, CallTimeout, MaxRetryAfter, Threshold, Cooldown} \subseteq Nat \ {0}
  /\ {MaxRetries, BaseBackoff, MaxJobs, MaxDeaths} \subseteq Nat

VARIABLES
  kind,       \* the jobs queued so far, by number: what each asks for
  left,       \* left[j]: what is left until the deadline of job j
  reply,      \* reply[j]: its reply channel
  queue,      \* the jobs waiting for a Stripe thread
  caller,     \* caller[c]: step, the calls its handler has still to make, its job
  patience,   \* patience[c]: what is left of its recv_timeout
  worker,     \* worker[w]: step, job, attempt and idempotency key
  pause,      \* pause[w]: what is left of its back-off
  failures,   \* CircuitState.consecutive_failures
  openFor,    \* what is left until CircuitState.open_until
  drawn,      \* how many idempotency keys were drawn: each is its number, as a
              \* random UUID is nobody else's; 0 is none
  sessions,   \* Stripe: <<j, k>> when job j made the session of key k, or was given it
  abandoned,  \* the jobs whose caller has given up
  strays      \* requests sent while the circuit is open

jobVars == <<kind, left, reply>>
callerVars == <<caller, patience, abandoned>>
circuitVars == <<failures, openFor>>
stripeVars == <<drawn, sessions, strays>>
vars == <<jobVars, callerVars, queue, worker, pause, circuitVars, stripeVars>>

Jobs == 1 .. Len(kind)

\* "request": about to send one, once its pause is over; "asked": it is on its way.
WorkerSteps == {"recv", "check", "key", "circuit", "request", "asked", "dead"}

At(w, step) == worker[w].step = step

NotWorking(step) == [step |-> step, job |-> 0, attempt |-> 0, key |-> 0]

Init ==
  /\ kind = <<>> /\ left = <<>> /\ reply = <<>>
  /\ queue = <<>>
  /\ caller = [c \in Callers |-> [step |-> "idle", plan |-> <<>>, job |-> 0]]
  /\ patience = [c \in Callers |-> 0]
  /\ worker = [w \in Workers |-> NotWorking("recv")]
  /\ pause = [w \in Workers |-> 0]
  /\ failures = 0
  /\ openFor = 0
  /\ drawn = 0
  /\ sessions = {}
  /\ abandoned = {}
  /\ strays = 0

Less(n) == IF n > 0 THEN n - 1 ELSE 0

Tick ==
  /\ \/ openFor > 0
     \/ \E j \in Jobs : left[j] > 0
     \/ \E c \in Callers : patience[c] > 0
     \/ \E w \in Workers : pause[w] > 0
  /\ left' = [j \in Jobs |-> Less(left[j])]
  /\ patience' = [c \in Callers |-> Less(patience[c])]
  /\ pause' = [w \in Workers |-> Less(pause[w])]
  /\ openFor' = Less(openFor)
  /\ strays' = IF openFor' = 0 THEN 0 ELSE strays
  /\ UNCHANGED <<kind, reply, caller, abandoned, queue, worker, failures, drawn, sessions>>

-----------------------------------------------------------------------------
(***************************************************************************)
(* A request thread: enqueue() and wait().                                 *)
(***************************************************************************)

Alive == {w \in Workers : worker[w].step # "dead"}

Accepting == Alive # {} /\ Len(queue) < QueueCap /\ Len(kind) < MaxJobs

\* try_send on a channel somebody still receives from: the deadline is stamped now.
Submit(c, plan) ==
  /\ Accepting
  /\ kind' = Append(kind, Head(plan))
  /\ left' = Append(left, CallTimeout)
  /\ reply' = Append(reply, "none")
  /\ queue' = Append(queue, Len(kind) + 1)
  /\ caller' = [caller EXCEPT ![c] = [step |-> "sent", plan |-> Tail(plan),
                                      job |-> Len(kind) + 1]]
  /\ UNCHANGED <<patience, abandoned, worker, pause, circuitVars, stripeVars>>

\* checkout(), portal() and process_webhook(), past their checks: the first call.
\* Rejected, it changes nothing here.
Handle(c, plan) == caller[c].step = "idle" /\ Submit(c, plan)

NextCall(c) == caller[c].step = "next" /\ Submit(c, caller[c].plan)

Finish(c) == caller' = [caller EXCEPT ![c] = [step |-> "idle", plan |-> <<>>, job |-> 0]]

\* StripeError::Busy, or "stripe worker queue closed".
Rejected(c) ==
  /\ caller[c].step = "next"
  /\ ~Accepting
  /\ Finish(c)
  /\ UNCHANGED <<jobVars, patience, abandoned, queue, worker, pause, circuitVars, stripeVars>>

\* recv_timeout starts its own clock, after the deadline was stamped.
StartWait(c) ==
  /\ caller[c].step = "sent"
  /\ caller' = [caller EXCEPT ![c].step = "wait"]
  /\ patience' = [patience EXCEPT ![c] = CallTimeout]
  /\ UNCHANGED <<jobVars, abandoned, queue, worker, pause, circuitVars, stripeVars>>

\* The reply: the handler makes its next call, or answers.  An error ends it.
GetReply(c) ==
  /\ caller[c].step = "wait"
  /\ reply[caller[c].job] # "none"
  /\ reply' = [reply EXCEPT ![caller[c].job] = "none"]
  /\ patience' = [patience EXCEPT ![c] = 0]
  /\ IF reply[caller[c].job] = "ok" /\ caller[c].plan # <<>>
     THEN caller' = [caller EXCEPT ![c] = [step |-> "next", plan |-> @.plan, job |-> 0]]
     ELSE Finish(c)
  /\ UNCHANGED <<kind, left, abandoned, queue, worker, pause, circuitVars, stripeVars>>

\* StripeError::Timeout: answered 504.
TimeOut(c) ==
  /\ caller[c].step = "wait"
  /\ patience[c] = 0
  /\ reply[caller[c].job] = "none"
  /\ abandoned' = abandoned \cup {caller[c].job}
  /\ Finish(c)
  /\ UNCHANGED <<jobVars, patience, queue, worker, pause, circuitVars, stripeVars>>

-----------------------------------------------------------------------------
(***************************************************************************)
(* A Stripe thread: worker_loop(), run_job() and send_with_retry().        *)
(***************************************************************************)

Goto(w, step) == worker' = [worker EXCEPT ![w].step = step]

Answer(j, result) == IF j \in abandoned THEN reply[j] ELSE result

\* The job is answered; the reply goes nowhere if its caller is gone.
Reply(w, result) ==
  /\ reply' = [reply EXCEPT ![worker[w].job] = Answer(worker[w].job, result)]
  /\ worker' = [worker EXCEPT ![w] = NotWorking("recv")]

\* Plausible bug: the deadline is stamped when the job is taken from the queue.
TakeAndStamp(w) ==
  /\ At(w, "recv")
  /\ queue # <<>>
  /\ queue' = Tail(queue)
  /\ worker' = [worker EXCEPT ![w] = [step |-> "check", job |-> Head(queue), attempt |-> 0,
                                    key |-> 0]]
  /\ left' = [left EXCEPT ![Head(queue)] = CallTimeout]
  /\ UNCHANGED <<kind, reply, callerVars, pause, circuitVars, stripeVars>>

Take(w) ==
  /\ At(w, "recv")
  /\ queue # <<>>
  /\ queue' = Tail(queue)
  /\ worker' = [worker EXCEPT ![w] = [step |-> "check", job |-> Head(queue), attempt |-> 0,
                                    key |-> 0]]
  /\ UNCHANGED <<jobVars, callerVars, pause, circuitVars, stripeVars>>

\* reject_expired().
RejectExpired(w) ==
  /\ At(w, "check")
  /\ left[worker[w].job] = 0
  /\ Reply(w, "timeout")
  /\ UNCHANGED <<kind, left, callerVars, queue, pause, circuitVars, stripeVars>>

Run(w) ==
  /\ At(w, "check")
  /\ left[worker[w].job] > 0
  /\ Goto(w, IF kind[worker[w].job] \in Posts THEN "key" ELSE "circuit")
  /\ UNCHANGED <<jobVars, callerVars, queue, pause, circuitVars, stripeVars>>

\* post(): one key per operation.
DrawKey(w) ==
  /\ At(w, "key")
  /\ drawn' = drawn + 1
  /\ worker' = [worker EXCEPT ![w] = [@ EXCEPT !.step = "circuit", !.key = drawn + 1]]
  /\ UNCHANGED <<jobVars, callerVars, queue, pause, circuitVars, sessions, strays>>

\* post(): random_uuid_v4() failed, which is no matter of the circuit's.
NoKey(w) ==
  /\ At(w, "key")
  /\ Reply(w, "error")
  /\ UNCHANGED <<kind, left, callerVars, queue, pause, circuitVars, stripeVars>>

\* StripeError::CircuitOpen.
FailFast(w) ==
  /\ At(w, "circuit")
  /\ openFor > 0
  /\ Reply(w, "open")
  /\ UNCHANGED <<kind, left, callerVars, queue, pause, circuitVars, stripeVars>>

\* Plausible bug: the circuit is not looked at.
PassUnchecked(w) ==
  /\ At(w, "circuit")
  /\ Goto(w, "request")
  /\ UNCHANGED <<jobVars, callerVars, queue, pause, circuitVars, stripeVars>>

Pass(w) ==
  /\ At(w, "circuit")
  /\ openFor = 0
  /\ Goto(w, "request")
  /\ UNCHANGED <<jobVars, callerVars, queue, pause, circuitVars, stripeVars>>

\* One attempt.  Whether Stripe acts on it shows in no answer the thread is sure to
\* get; of the requests with one idempotency key Stripe acts on the first, and gives its
\* session to the others.
Request(w) ==
  /\ At(w, "request")
  /\ pause[w] = 0
  /\ Goto(w, "asked")
  /\ strays' = IF openFor > 0 THEN strays + 1 ELSE strays
  /\ \/ UNCHANGED sessions
     \/ /\ kind[worker[w].job] \in Posts
        /\ sessions' = sessions \cup {<<worker[w].job, worker[w].key>>}
  /\ UNCHANGED <<jobVars, callerVars, queue, pause, circuitVars, drawn>>

\* Stripe answered something that is not retried: decode() makes a value of a 2xx body
\* that parses and has its id, an error of anything else.  record_success either way.
Answered(w) ==
  /\ At(w, "asked")
  /\ failures' = 0
  /\ openFor' = 0
  /\ strays' = 0
  /\ \E result \in {"ok", "error"} : Reply(w, result)
  /\ UNCHANGED <<kind, left, callerVars, queue, pause, drawn, sessions>>

\* retry_after_ms of the answer if it has that header, else 1, 2, 4, 8 times the base.
Waits(attempt) == {BaseBackoff * 2 ^ attempt} \cup 0 .. MaxRetryAfter

\* Plausible bug: the attempt is not counted.
RetryForEver(w) ==
  /\ At(w, "asked")
  /\ \E wait \in Waits(worker[w].attempt) : pause' = [pause EXCEPT ![w] = wait]
  /\ Goto(w, "request")
  /\ UNCHANGED <<jobVars, callerVars, queue, circuitVars, stripeVars>>

\* Plausible bug: the key is drawn in the loop over the attempts.
RetryWithFreshKey(w) ==
  /\ At(w, "asked")
  /\ worker[w].attempt < MaxRetries
  /\ \E wait \in Waits(worker[w].attempt) : pause' = [pause EXCEPT ![w] = wait]
  /\ drawn' = drawn + 1
  /\ worker' = [worker EXCEPT ![w] = [@ EXCEPT !.step = "request",
                                              !.attempt = worker[w].attempt + 1,
                                              !.key = drawn + 1]]
  /\ UNCHANGED <<jobVars, callerVars, queue, circuitVars, sessions, strays>>

\* 429, 5xx or a transport error, and an attempt is left: sleep.  A transport error has
\* no headers, which allows no wait the others do not.
Retry(w) ==
  /\ At(w, "asked")
  /\ worker[w].attempt < MaxRetries
  /\ \E wait \in Waits(worker[w].attempt) : pause' = [pause EXCEPT ![w] = wait]
  /\ worker' = [worker EXCEPT ![w] = [@ EXCEPT !.step = "request",
                                              !.attempt = worker[w].attempt + 1]]
  /\ UNCHANGED <<jobVars, callerVars, queue, circuitVars, stripeVars>>

\* The last attempt failed as well.  record_failure(): the threshold opens the circuit,
\* or keeps it open for longer.
RecordFailure(w) ==
  /\ At(w, "asked")
  /\ worker[w].attempt = MaxRetries
  /\ failures' = failures + 1
  /\ IF failures' >= Threshold
     THEN openFor' = Cooldown
     ELSE UNCHANGED openFor
  /\ Reply(w, "error")
  /\ UNCHANGED <<kind, left, callerVars, queue, pause, stripeVars>>

\* run_job() has no catch_unwind: a panic ends the thread and drops the reply sender;
\* with the last thread the receiver goes, and every queued job with it.
Die(w) ==
  /\ worker[w].step \notin {"recv", "dead"}
  /\ pause[w] = 0
  /\ Cardinality(Workers \ Alive) < MaxDeaths
  /\ worker' = [worker EXCEPT ![w] = NotWorking("dead")]
  /\ LET last == Alive = {w}
         dropped == {worker[w].job} \cup IF last THEN {queue[i] : i \in DOMAIN queue} ELSE {}
     IN  /\ reply' = [j \in Jobs |-> IF j \in dropped THEN Answer(j, "died") ELSE reply[j]]
         /\ queue' = IF last THEN <<>> ELSE queue
  /\ UNCHANGED <<kind, left, callerVars, pause, circuitVars, stripeVars>>

-----------------------------------------------------------------------------
CallerStep(c) ==
  \/ NextCall(c)
  \/ Rejected(c)
  \/ StartWait(c)
  \/ GetReply(c)
  \/ TimeOut(c)

WorkerStep(w) ==
  \/ Take(w)
  \/ RejectExpired(w)
  \/ Run(w)
  \/ DrawKey(w)
  \/ NoKey(w)
  \/ FailFast(w)
  \/ Pass(w)
  \/ Request(w)
  \/ Answered(w)
  \/ Retry(w)
  \/ RecordFailure(w)

Next ==
  \/ Tick
  \/ \E c \in Callers, plan \in Plans : Handle(c, plan)
  \/ \E c \in Callers : CallerStep(c)
  \/ \E w \in Workers : WorkerStep(w) \/ Die(w)

Spec == Init /\ [][Next]_vars

\* Time passes, threads are scheduled, and libcurl's own timeout ends every request.
Fairness ==
  /\ WF_vars(Tick)
  /\ \A c \in Callers : WF_vars(CallerStep(c))
  /\ \A w \in Workers : WF_vars(WorkerStep(w))

FairSpec == Spec /\ Fairness

-----------------------------------------------------------------------------
(***************************************************************************)
(* Properties.                                                             *)
(***************************************************************************)

\* "A caller that times out stamps a deadline on the Job; workers drop expired work":
\* no thread starts on a job after its caller has given up, however long the job
\* was queued, although deadline and timeout are two clocks.
ExpiredIsDropped ==
  [][\A w \in Workers :
       At(w, "check") /\ worker'[w].step \in {"key", "circuit"}
         => worker[w].job \notin abandoned]_vars

\* send_with_retry(): "POST callers must supply an Idempotency-Key header so a retried
\* create cannot duplicate": whatever is lost, retried or given up, and whichever thread
\* runs it, a job makes at most one session, and is never given another job's.
OneSessionPerJob ==
  \A s, t \in sessions : s[1] = t[1] <=> s[2] = t[2]

\* The circuit is tested once per operation: when it opens, the operations already
\* past the test of the other threads, with all their attempts, are the only requests
\* that Stripe still gets before the cooldown is over.
UnderWay == (Cardinality(Workers) - 1) * (MaxRetries + 1)

OpenCircuitIsQuiet == openFor > 0 => strays <= UnderWay

-----------------------------------------------------------------------------
\* The inductive strengthening.  Of the pauses no proof needs to know anything.
Timers == 0 .. CallTimeout

Replies == {"none", "ok", "error", "timeout", "open", "died"}

States == [step : WorkerSteps, job : Nat, attempt : 0 .. MaxRetries, key : Nat]

TypeOK ==
  /\ kind \in Seq(Kinds)
  /\ left \in [Jobs -> Timers]
  /\ reply \in [Jobs -> Replies]
  /\ queue \in Seq(Jobs)
  /\ caller \in [Callers -> [step : {"idle", "next", "sent", "wait"}, plan : Seq(Kinds),
                             job : Nat]]
  /\ patience \in [Callers -> Timers]
  /\ worker \in [Workers -> States]
  /\ failures \in Nat
  /\ openFor \in 0 .. Cooldown
  /\ abandoned \subseteq Jobs
  /\ drawn \in Nat
  /\ sessions \subseteq Jobs \X Nat
  /\ strays \in Nat

\* Deadline and timeout are two clocks, of which the deadline runs out first.
DeadlineInv ==
  /\ \A j \in abandoned : left[j] = 0
  /\ \A c \in Callers :
       /\ caller[c].step \in {"sent", "wait"} => caller[c].job \in Jobs
       /\ caller[c].step = "wait" => left[caller[c].job] <= patience[c]
       /\ caller[c].step = "next" => caller[c].plan # <<>>

Busy(w) == worker[w].step \notin {"recv", "dead"}

JobInv == \A w \in Workers : Busy(w) => worker[w].job \in Jobs

IInv == TypeOK /\ DeadlineInv /\ JobInv

\* The thread has the key that its job is known to Stripe by.
Keyed(w) ==
  /\ worker[w].step \in {"circuit", "request", "asked"}
  /\ kind[worker[w].job] \in Posts

\* A job is in one place: once in the queue, or with one thread, or done with.
PlaceInv ==
  /\ \A i, k \in DOMAIN queue : queue[i] = queue[k] => i = k
  /\ \A w \in Workers, i \in DOMAIN queue : Busy(w) => worker[w].job # queue[i]
  /\ \A v, w \in Workers : Busy(v) /\ Busy(w) /\ worker[v].job = worker[w].job => v = w

\* A key is one thread's while its job runs; a session is of a job that has left the
\* queue, and of the key its thread has while it runs.
KeyInv ==
  /\ \A w \in Workers : Keyed(w) => worker[w].key \in 1 .. drawn
  /\ \A v, w \in Workers :
       Keyed(v) /\ Keyed(w) /\ worker[v].key = worker[w].key => v = w
  /\ \A s \in sessions :
       /\ s[2] \in 1 .. drawn
       /\ \A i \in DOMAIN queue : queue[i] # s[1]
       /\ \A w \in Workers :
            Busy(w) => (s[1] = worker[w].job <=> Keyed(w) /\ s[2] = worker[w].key)

\* The requests a thread may still send without looking at the circuit again, numbered
\* from the last; while the circuit is open none are added, and each that is sent is
\* one less to come.
Remaining(w) ==
  CASE At(w, "request") -> MaxRetries + 1 - worker[w].attempt
    [] At(w, "asked") -> MaxRetries - worker[w].attempt
    [] OTHER -> 0

ToCome == {a \in Workers \X (1 .. MaxRetries + 1) : a[2] <= Remaining(a[1])}

QuietInv ==
  IF openFor = 0 THEN strays = 0
  ELSE strays + Cardinality(ToCome) <= UnderWay

-----------------------------------------------------------------------------
\* wait() and send_with_retry() are bounded: in the end every caller has its answer, and
\* every thread is back at the queue or dead, so that no job can pin it for good.
EveryCallEnds ==
  <>[](/\ \A c \in Callers : caller[c].step = "idle"
       /\ \A w \in Workers : worker[w].step \in {"recv", "dead"})

=============================================================================
