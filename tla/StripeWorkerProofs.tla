------------------------- MODULE StripeWorkerProofs -------------------------
(***************************************************************************)
(* No Stripe thread starts on a job whose caller has given up, no job      *)
(* makes two sessions or is given another job's, and an open circuit lets  *)
(* through only what was under way: for any number of threads, any queue,  *)
(* timeouts and numbers of retries.                                        *)
(***************************************************************************)
EXTENDS StripeWorker, SequenceTheorems, FiniteSetTheorems, TLAPS

USE StripeAssumption

-----------------------------------------------------------------------------
\* A function on 1 .. n is a sequence of length n, and grows by Append.
LEMMA FunctionIsSeq ==
  ASSUME NEW S, NEW n \in Nat, NEW f \in [1 .. n -> S]
  PROVE  f \in Seq(S) /\ Len(f) = n
  <1>1. f \in Seq(S)
    BY SeqDef
  <1>2. Len(f) \in Nat /\ DOMAIN f = 1 .. Len(f)
    BY <1>1, LenProperties
  <1>3. 1 .. Len(f) = 1 .. n
    BY <1>2
  <1>4. Len(f) = n
    BY <1>2, <1>3
  <1> QED
    BY <1>1, <1>4

\* Appending to a sequence given as a function on 1 .. n.
LEMMA AppendGrows ==
  ASSUME NEW S, NEW n \in Nat, NEW f \in [1 .. n -> S], NEW e \in S
  PROVE  /\ Append(f, e) \in [1 .. n + 1 -> S]
         /\ \A i \in 1 .. n : Append(f, e)[i] = f[i]
  <1>1. f \in Seq(S) /\ Len(f) = n
    BY FunctionIsSeq
  <1>2. Append(f, e) \in Seq(S) /\ Len(Append(f, e)) = n + 1
    BY <1>1
  <1>3. Append(f, e) \in [1 .. n + 1 -> S]
    BY <1>2, LenProperties
  <1> QED
    BY <1>1, <1>3

\* Timers run down to zero and stay there.
LEMMA TimersRunDown ==
  /\ \A n \in Nat : Less(n) \in Nat /\ Less(n) <= n
  /\ \A m, n \in Nat : m <= n => Less(m) <= Less(n)
  /\ \A max \in Nat : \A n \in 0 .. max : Less(n) \in 0 .. max
  BY DEF Less

\* The invariant holds with idle callers and threads and the circuit closed.
LEMMA InitInv == Init => IInv
  <1> SUFFICES ASSUME Init PROVE IInv
    OBVIOUS
  <1>1. Len(<<>>) = 0 /\ Jobs = {}
    BY DEF Init, Jobs
  <1>2. 0 \in Timers /\ 0 \in 0 .. Cooldown /\ 0 \in 0 .. MaxRetries
    BY DEF Timers
  <1>3. TypeOK
    BY <1>1, <1>2 DEF Init, TypeOK, States, WorkerSteps, NotWorking
  <1> QED
    BY <1>1, <1>3 DEF Init, IInv, DeadlineInv, JobInv, Busy, NotWorking

-----------------------------------------------------------------------------
\* Time that passes keeps the invariant.
LEMMA TickInv ==
  ASSUME IInv, Tick
  PROVE  IInv'
  <1> USE DEF IInv, Tick
  <1>1. Jobs' = Jobs
    BY DEF Jobs
  <1>2. CallTimeout \in Nat /\ Cooldown \in Nat
    OBVIOUS
  <1>3. /\ left' \in [Jobs -> Timers]
        /\ patience' \in [Callers -> Timers]
        /\ openFor' \in 0 .. Cooldown /\ strays' \in Nat
    BY <1>2, TimersRunDown DEF Timers, TypeOK
  <1>4. TypeOK'
    BY <1>1, <1>3 DEF TypeOK
  <1>5. DeadlineInv'
    <2>1. ASSUME NEW j \in abandoned PROVE left'[j] = 0
      BY DEF Timers, TypeOK, DeadlineInv, Less
    <2>2. ASSUME NEW c \in Callers, caller[c].step = "wait"
          PROVE  left'[caller[c].job] <= patience'[c]
      <3>1. caller[c].job \in Jobs /\ left[caller[c].job] <= patience[c]
        BY <2>2 DEF DeadlineInv
      <3>2. left[caller[c].job] \in Nat /\ patience[c] \in Nat
        BY SMTT(30), <3>1 DEF Timers, TypeOK
      <3>3. /\ left'[caller[c].job] = Less(left[caller[c].job])
            /\ patience'[c] = Less(patience[c])
        BY <3>1
      <3> QED
        BY <3>1, <3>2, <3>3, TimersRunDown
    <2> QED
      BY <1>1, <2>1, <2>2 DEF DeadlineInv
  <1>6. JobInv'
    BY <1>1 DEF JobInv, Busy
  <1> QED
    BY <1>4, <1>5, <1>6

\* A new job: what held of the others still does.
LEMMA SubmitInv ==
  ASSUME IInv, NEW c \in Callers, NEW plan \in Seq(Kinds), plan # <<>>, Submit(c, plan)
  PROVE  IInv'
  <1> USE DEF IInv, Submit
  <1> DEFINE n == Len(kind)
  <1>1. n \in Nat /\ Jobs = 1 .. n
    BY DEF TypeOK, Jobs
  <1>2. Head(plan) \in Kinds /\ Tail(plan) \in Seq(Kinds)
    BY HeadTailProperties
  <1>3. kind' \in Seq(Kinds) /\ Len(kind') = n + 1
    BY <1>2 DEF TypeOK
  <1>4. Jobs' = 1 .. n + 1 /\ Jobs \subseteq Jobs'
    BY SMTT(30), <1>1, <1>3 DEF Jobs
  <1>5. /\ left' \in [Jobs' -> Timers]
        /\ \A j \in Jobs : left'[j] = left[j]
    <2>0. CallTimeout \in Timers
      BY DEF Timers
    <2>1. CallTimeout \in Timers /\ left \in [1 .. n -> Timers]
      BY <1>1, <2>0 DEF TypeOK
    <2>2. left' = Append(left, CallTimeout)
      OBVIOUS
    <2>3. left' \in [1 .. n + 1 -> Timers] /\ \A j \in 1 .. n : left'[j] = left[j]
      BY ONLY SMTT(30), <1>1, <2>1, <2>2, AppendGrows
    <2> QED
      BY <1>1, <1>4, <2>3
  <1>6. reply' \in [Jobs' -> Replies]
    <2>1. "none" \in Replies /\ reply \in [1 .. n -> Replies]
      BY <1>1 DEF TypeOK, Replies
    <2>2. reply' = Append(reply, "none")
      OBVIOUS
    <2>3. reply' \in [1 .. n + 1 -> Replies]
      BY ONLY <1>1, <2>1, <2>2, AppendGrows
    <2> QED
      BY <1>4, <2>3
  <1>7. queue' \in Seq(Jobs')
    <2>1. queue \in Seq(Jobs)
      BY DEF TypeOK
    <2>2. queue \in Seq(Jobs')
      BY ONLY <1>4, <2>1, SeqMonotonic
    <2>3. n + 1 \in Jobs'
      BY <1>1, <1>4
    <2> QED
      BY <2>2, <2>3
  <1>8. caller' \in [Callers -> [step : {"idle", "next", "sent", "wait"}, plan : Seq(Kinds),
                                 job : Nat]]
    <2>1. [step |-> "sent", plan |-> Tail(plan), job |-> n + 1]
            \in [step : {"idle", "next", "sent", "wait"}, plan : Seq(Kinds), job : Nat]
      BY <1>1, <1>2
    <2> QED
      BY <2>1 DEF TypeOK
  <1>9. TypeOK'
    BY <1>3, <1>4, <1>5, <1>6, <1>7, <1>8 DEF TypeOK, callerVars, circuitVars, stripeVars
  <1>10. DeadlineInv'
    <2>1. \A j \in abandoned' : left'[j] = 0
      BY <1>5 DEF TypeOK, DeadlineInv
    <2>2. ASSUME NEW d \in Callers
          PROVE  /\ caller'[d].step \in {"sent", "wait"} => caller'[d].job \in Jobs'
                 /\ caller'[d].step = "wait" => left'[caller'[d].job] <= patience'[d]
                 /\ caller'[d].step = "next" => caller'[d].plan # <<>>
      <3>1. CASE d = c
        BY <1>1, <1>4, <3>1 DEF TypeOK
      <3>2. CASE d # c
        BY <1>4, <1>5, <3>2 DEF TypeOK, DeadlineInv
      <3> QED
        BY <3>1, <3>2
    <2> QED
      BY <2>1, <2>2 DEF DeadlineInv
  <1>11. JobInv'
    BY <1>4 DEF JobInv, Busy
  <1> QED
    BY <1>9, <1>10, <1>11

\* The rest of a request thread: no job is added.
LEMMA CallerStepInv ==
  ASSUME IInv, NEW c \in Callers, CallerStep(c)
  PROVE  IInv'
  <1> USE DEF IInv
  <1>1. CASE NextCall(c)
    <2>1. caller[c].plan \in Seq(Kinds) /\ caller[c].plan # <<>>
      BY <1>1 DEF NextCall, TypeOK, DeadlineInv
    <2> QED
      BY <1>1, <2>1, SubmitInv DEF NextCall
  <1>2. CASE Rejected(c) \/ StartWait(c) \/ GetReply(c) \/ TimeOut(c)
    <2> USE DEF Rejected, StartWait, GetReply, TimeOut, Finish
    <2>1. Jobs' = Jobs
      BY <1>2 DEF Jobs, jobVars
    <2>2. caller[c].step \in {"sent", "wait"} => caller[c].job \in Jobs
      BY DEF DeadlineInv
    <2>3. /\ <<>> \in Seq(Kinds)
          /\ 0 \in Timers /\ CallTimeout \in Timers
      BY DEF Timers
    <2>4. TypeOK'
      <3>1. CASE Rejected(c)
        BY <2>1, <2>3, <3>1 DEF TypeOK, jobVars, circuitVars, stripeVars
      <3>2. CASE StartWait(c)
        BY <2>1, <2>3, <3>2 DEF TypeOK, jobVars, circuitVars, stripeVars
      <3>3. CASE GetReply(c)
        <4>1. /\ reply' \in [Jobs -> Replies]
              /\ patience' \in [Callers -> Timers]
          BY <2>3, <3>3 DEF TypeOK, Replies
        <4>2. caller' \in [Callers -> [step : {"idle", "next", "sent", "wait"},
                                       plan : Seq(Kinds), job : Nat]]
          <5> DEFINE R == [step : {"idle", "next", "sent", "wait"}, plan : Seq(Kinds),
                           job : Nat]
          <5>1. caller \in [Callers -> R] /\ caller[c].plan \in Seq(Kinds)
            BY DEF TypeOK
          <5>2. /\ [step |-> "next", plan |-> caller[c].plan, job |-> 0] \in R
                /\ [step |-> "idle", plan |-> <<>>, job |-> 0] \in R
            BY <2>3, <5>1
          <5>3. \E r \in R : caller' = [caller EXCEPT ![c] = r]
            BY <3>3, <5>2
          <5> HIDE DEF R
          <5>4. caller' \in [Callers -> R]
            BY <5>1, <5>3
          <5> QED
            BY <5>4 DEF R
        <4> QED
          BY <2>1, <3>3, <4>1, <4>2 DEF TypeOK, circuitVars, stripeVars
      <3>4. CASE TimeOut(c)
        BY <2>1, <2>2, <2>3, <3>4 DEF TypeOK, jobVars, circuitVars, stripeVars
      <3> QED
        BY <1>2, <3>1, <3>2, <3>3, <3>4
    <2>5. DeadlineInv'
      <3>1. CASE Rejected(c)
        BY <2>1, <3>1 DEF TypeOK, DeadlineInv, jobVars
      <3>2. CASE StartWait(c)
        <4>1. left[caller[c].job] <= CallTimeout
          <5>1. caller[c].job \in Jobs
            BY <2>2, <3>2
          <5>2. left[caller[c].job] \in Timers
            BY ONLY <5>1, IInv DEF IInv, TypeOK
          <5> QED
            BY ONLY <5>2, StripeAssumption DEF Timers
        <4> QED
          BY <2>1, <3>2, <4>1 DEF TypeOK, DeadlineInv, jobVars
      <3>3. CASE GetReply(c)
        <4>1. ASSUME NEW d \in Callers \ {c}
              PROVE  caller'[d] = caller[d] /\ patience'[d] = patience[d]
          BY <3>3 DEF Timers, TypeOK
        <4>2. /\ caller'[c].step \in {"idle", "next"}
              /\ caller'[c].step = "next" => caller'[c].plan # <<>>
          <5>1. CASE reply[caller[c].job] = "ok" /\ caller[c].plan # <<>>
            BY SMTT(30), <3>3, <5>1 DEF TypeOK
          <5>2. CASE ~ (reply[caller[c].job] = "ok" /\ caller[c].plan # <<>>)
            BY SMTT(30), <3>3, <5>2 DEF TypeOK
          <5> QED
            BY <5>1, <5>2
        <4>3. left' = left /\ abandoned' = abandoned
          BY <3>3
        <4> QED
          BY <2>1, <4>1, <4>2, <4>3 DEF DeadlineInv
      <3>4. CASE TimeOut(c)
        <4>1. left[caller[c].job] = 0
          <5>1. caller[c].job \in Jobs /\ patience[c] = 0 /\ caller[c].step = "wait"
            BY <2>2, <3>4
          <5>2. left[caller[c].job] \in Timers /\ left[caller[c].job] <= patience[c]
            BY ONLY <5>1, IInv, c \in Callers DEF IInv, TypeOK, DeadlineInv
          <5> QED
            BY ONLY <5>1, <5>2, StripeAssumption DEF Timers
        <4> QED
          BY <2>1, <3>4, <4>1 DEF TypeOK, DeadlineInv, jobVars
      <3> QED
        BY <1>2, <3>1, <3>2, <3>3, <3>4
    <2>6. JobInv'
      BY <1>2, <2>1 DEF JobInv, Busy, stripeVars
    <2> QED
      BY <2>4, <2>5, <2>6
  <1> QED
    BY <1>1, <1>2 DEF CallerStep

-----------------------------------------------------------------------------
\* A step of a Stripe thread that keeps the jobs, their deadlines and the callers, and
\* leaves the other threads where they are, has only its own part to show.
LEMMA WorkerFrame ==
  ASSUME IInv, UNCHANGED <<kind, left, callerVars>>, NEW w \in Workers, NEW s \in States,
         worker' = [worker EXCEPT ![w] = s],
         s.step \notin {"recv", "dead"} => s.job \in Jobs,
         reply' \in [Jobs -> Replies], queue' \in Seq(Jobs), failures' \in Nat,
         openFor' \in 0 .. Cooldown, strays' \in Nat, drawn' \in Nat,
         sessions' \subseteq Jobs \X Nat
  PROVE  IInv'
  <1> USE DEF IInv, callerVars
  <1>1. Jobs' = Jobs
    BY DEF Jobs
  <1>2. TypeOK'
    BY <1>1 DEF TypeOK
  <1>3. DeadlineInv'
    BY <1>1 DEF DeadlineInv
  <1>4. JobInv'
    BY <1>1 DEF JobInv, Busy, TypeOK
  <1> QED
    BY <1>2, <1>3, <1>4

\* run_job(): the answer goes to the caller or nowhere.
LEMMA ReplyType ==
  ASSUME IInv, NEW w \in Workers, NEW result \in Replies, Reply(w, result)
  PROVE  /\ reply' \in [Jobs -> Replies]
         /\ worker' = [worker EXCEPT ![w] = NotWorking("recv")]
  BY DEF Reply, Answer, IInv, TypeOK

\* A thread that waits for a job, and one that is dead, have none.
LEMMA NotWorkingType ==
  \A step \in {"recv", "dead"} : NotWorking(step) \in States /\ NotWorking(step).step = step
  BY DEF NotWorking, States, WorkerSteps

\* A step of a Stripe thread, or its death, keeps the invariant.
LEMMA WorkerStepInv ==
  ASSUME IInv, NEW w \in Workers, WorkerStep(w) \/ Die(w)
  PROVE  IInv'
  <1> DEFINE job == worker[w].job
             attempt == worker[w].attempt
  <1>1. /\ worker[w] \in States /\ worker[w].step \in WorkerSteps
        /\ job \in Nat /\ attempt \in 0 .. MaxRetries /\ worker[w].key \in Nat
        /\ worker[w].step \notin {"recv", "dead"} => job \in Jobs
    BY DEF IInv, TypeOK, States, JobInv, Busy
  <1>2. /\ reply \in [Jobs -> Replies] /\ queue \in Seq(Jobs) /\ failures \in Nat
        /\ openFor \in 0 .. Cooldown /\ strays \in Nat /\ sessions \subseteq Jobs \X Nat
        /\ drawn \in Nat /\ worker \in [Workers -> States]
    BY DEF IInv, TypeOK
  <1>3. ASSUME NEW step \in WorkerSteps, Goto(w, step),
               worker[w].step \notin {"recv", "dead"},
               UNCHANGED <<kind, left, reply, callerVars, queue, failures, openFor, drawn>>,
               strays' \in Nat, sessions' \subseteq Jobs \X Nat
        PROVE  IInv'
    <2> DEFINE s == [worker[w] EXCEPT !.step = step]
    <2>1. s \in States /\ s.job \in Jobs
      BY <1>1, <1>3 DEF States
    <2>2. worker' = [worker EXCEPT ![w] = s]
      BY <1>3 DEF Goto
    <2> HIDE DEF s
    <2> QED
      BY <1>2, <1>3, <2>1, <2>2, WorkerFrame
  <1>4. CASE Take(w)
    <2> DEFINE s == [step |-> "check", job |-> Head(queue), attempt |-> 0, key |-> 0]
    <2>1. Head(queue) \in Jobs /\ Tail(queue) \in Seq(Jobs)
      BY <1>2, <1>4, HeadTailProperties DEF Take
    <2>2. s \in States /\ s.job \in Jobs
      BY <2>1 DEF Jobs, States, WorkerSteps
    <2>3. worker' = [worker EXCEPT ![w] = s] /\ queue' \in Seq(Jobs)
      BY <1>4, <2>1 DEF Take
    <2> HIDE DEF s
    <2> QED
      BY <1>2, <1>4, <2>2, <2>3, WorkerFrame
      DEF Take, jobVars, circuitVars, stripeVars
  <1>5. CASE Run(w)
    <2>1. PICK step \in WorkerSteps : Goto(w, step)
      BY <1>5 DEF Run, WorkerSteps
    <2>2. worker[w].step = "check"
      BY <1>5 DEF Run, At
    <2>3. UNCHANGED <<kind, left, reply, callerVars, queue, failures, openFor, strays, drawn,
                    sessions>>
      BY <1>5 DEF Run, jobVars, circuitVars, stripeVars
    <2> QED
      BY <1>2, <1>3, <2>1, <2>2, <2>3
  <1>6. CASE Pass(w)
    <2>1. Goto(w, "request") /\ worker[w].step = "circuit" /\ "request" \in WorkerSteps
      BY <1>6 DEF Pass, At, WorkerSteps
    <2>2. UNCHANGED <<kind, left, reply, callerVars, queue, failures, openFor, strays, drawn,
                    sessions>>
      BY <1>6 DEF Pass, jobVars, circuitVars, stripeVars
    <2> QED
      BY <1>2, <1>3, <2>1, <2>2
  <1>7. CASE Request(w)
    <2>1. <<job, worker[w].key>> \in Jobs \X Nat
      BY <1>1, <1>7 DEF Request, At
    <2>2. sessions' \subseteq Jobs \X Nat /\ strays' \in Nat
      <3>1. sessions' \subseteq sessions \cup {<<job, worker[w].key>>}
        BY <1>7 DEF Request
      <3>2. strays' \in Nat
        BY <1>2, <1>7 DEF Request
      <3> QED
        BY <1>2, <2>1, <3>1, <3>2
    <2>3. Goto(w, "asked") /\ worker[w].step = "request" /\ "asked" \in WorkerSteps
      BY <1>7 DEF Request, At, WorkerSteps
    <2>4. UNCHANGED <<kind, left, reply, callerVars, queue, failures, openFor, drawn>>
      BY <1>7 DEF Request, jobVars, circuitVars
    <2> QED
      BY <1>3, <2>2, <2>3, <2>4
  <1>8. ASSUME NEW result \in Replies, Reply(w, result), UNCHANGED <<kind, left, callerVars>>,
               UNCHANGED <<queue, drawn, sessions>>, failures' \in Nat,
               openFor' \in 0 .. Cooldown, strays' \in Nat
        PROVE  IInv'
    <2>1. /\ reply' \in [Jobs -> Replies]
          /\ worker' = [worker EXCEPT ![w] = NotWorking("recv")]
      BY <1>8, ReplyType
    <2> QED
      BY <1>2, <1>8, <2>1, NotWorkingType, WorkerFrame
  <1>9. CASE RejectExpired(w)
    <2>1. Reply(w, "timeout") /\ "timeout" \in Replies
      BY <1>9 DEF RejectExpired, Replies
    <2> QED
      BY <1>2, <1>8, <1>9, <2>1 DEF RejectExpired, circuitVars, stripeVars
  <1>10. CASE FailFast(w)
    <2>1. Reply(w, "open") /\ "open" \in Replies
      BY <1>10 DEF FailFast, Replies
    <2> QED
      BY <1>2, <1>8, <1>10, <2>1 DEF FailFast, circuitVars, stripeVars
  <1>11. CASE NoKey(w)
    <2>1. Reply(w, "error") /\ "error" \in Replies
      BY <1>11 DEF NoKey, Replies
    <2> QED
      BY <1>2, <1>8, <1>11, <2>1 DEF NoKey, circuitVars, stripeVars
  <1>12. CASE Answered(w)
    <2>1. PICK result \in {"ok", "error"} : Reply(w, result)
      BY <1>12 DEF Answered
    <2>2. result \in Replies /\ 0 \in 0 .. Cooldown
      BY DEF Replies
    <2> QED
      BY <1>2, <1>8, <1>12, <2>1, <2>2 DEF Answered
  <1>13. CASE RecordFailure(w)
    <2>1. Reply(w, "error") /\ "error" \in Replies
      BY <1>13 DEF RecordFailure, Replies
    <2>2. failures' \in Nat /\ openFor' \in 0 .. Cooldown
      BY SMTT(30), <1>2, <1>13 DEF RecordFailure
    <2>3. UNCHANGED <<kind, left, callerVars, queue, drawn, sessions, strays>>
      BY <1>13 DEF RecordFailure, stripeVars
    <2> QED
      BY <1>2, <1>8, <2>1, <2>2, <2>3
  <1>14. CASE Retry(w)
    <2> DEFINE s == [worker[w] EXCEPT !.step = "request", !.attempt = attempt + 1]
    <2>1. attempt + 1 \in 0 .. MaxRetries /\ job \in Jobs
      BY <1>1, <1>14 DEF Retry, At
    <2>2. s \in States /\ s.job \in Jobs
      BY <1>1, <2>1 DEF States, WorkerSteps
    <2>3. worker' = [worker EXCEPT ![w] = s]
      BY <1>14 DEF Retry
    <2>4. UNCHANGED <<kind, left, reply, callerVars, queue, failures, openFor, strays, drawn,
                    sessions>>
      BY <1>14 DEF Retry, jobVars, circuitVars, stripeVars
    <2> HIDE DEF s
    <2> QED
      BY <1>2, <2>2, <2>3, <2>4, WorkerFrame
  <1>15. CASE DrawKey(w)
    <2> DEFINE s == [worker[w] EXCEPT !.step = "circuit", !.key = drawn + 1]
    <2>1. drawn + 1 \in Nat /\ job \in Jobs
      <3>1. worker[w].step = "key"
        BY <1>15 DEF DrawKey, At
      <3> HIDE DEF job
      <3> QED
        BY ONLY <1>1, <1>2, <3>1
    <2>2. s \in States /\ s.job \in Jobs
      BY <1>1, <2>1 DEF States, WorkerSteps
    <2>3. worker' = [worker EXCEPT ![w] = s]
      BY <1>15 DEF DrawKey
    <2> HIDE DEF s
    <2> QED
      BY <1>2, <1>15, <2>1, <2>2, <2>3, WorkerFrame DEF DrawKey, jobVars, circuitVars
  <1>16. CASE Die(w)
    <2>1. queue' \in Seq(Jobs)
      BY <1>2, <1>16 DEF Die
    <2>2. reply' \in [Jobs -> Replies]
      BY <1>2, <1>16 DEF Die, Answer, Replies
    <2>3. UNCHANGED <<kind, left, callerVars, failures, openFor, strays, drawn, sessions>>
      BY <1>16 DEF Die, circuitVars, stripeVars
    <2>4. worker' = [worker EXCEPT ![w] = NotWorking("dead")]
      BY <1>16 DEF Die
    <2> QED
      BY <1>2, <2>1, <2>2, <2>3, <2>4, NotWorkingType, WorkerFrame
  <1> QED
    BY <1>4, <1>5, <1>6, <1>7, <1>9, <1>10, <1>11, <1>12, <1>13, <1>14, <1>15, <1>16
    DEF WorkerStep

\* Every step keeps the invariant.
LEMMA StepInv == IInv /\ [Next]_vars => IInv'
  <1> SUFFICES ASSUME IInv, [Next]_vars PROVE IInv'
    OBVIOUS
  <1>1. CASE Tick
    BY <1>1, TickInv
  <1>2. ASSUME NEW c \in Callers, NEW plan \in Plans, Handle(c, plan) PROVE IInv'
    <2>1. plan \in Seq(Kinds) /\ plan # <<>>
      OBVIOUS
    <2> QED
      BY <1>2, <2>1, SubmitInv DEF Handle
  <1>3. ASSUME NEW c \in Callers, CallerStep(c) PROVE IInv'
    BY <1>3, CallerStepInv
  <1>4. ASSUME NEW w \in Workers, WorkerStep(w) \/ Die(w) PROVE IInv'
    BY <1>4, WorkerStepInv
  <1>5. CASE UNCHANGED vars
    <2>1. Jobs' = Jobs
      BY <1>5 DEF vars, jobVars, Jobs
    <2> QED
      BY <1>5, <2>1
      DEF vars, jobVars, callerVars, circuitVars, stripeVars, IInv, TypeOK, DeadlineInv,
          JobInv, Busy
  <1> QED
    BY <1>1, <1>2, <1>3, <1>4, <1>5 DEF Next

\* The invariant, in every state.
LEMMA Invariance == Spec => []IInv
  <1> QED
    BY InitInv, StepInv, PTL DEF Spec

-----------------------------------------------------------------------------
\* The types of the queue, the jobs, the callers, the threads and the circuit.
THEOREM StripeTypeCorrect == Spec => []TypeOK
  <1>1. IInv => TypeOK
    BY DEF IInv
  <1> QED
    BY <1>1, Invariance, PTL

-----------------------------------------------------------------------------
(***************************************************************************)
(* Idempotency keys.                                                       *)
(***************************************************************************)

SessionInv == PlaceInv /\ KeyInv /\ OneSessionPerJob

\* A step that leaves jobs, keys and sessions alone, or empties the queue.
LEMMA SameKeys ==
  ASSUME SessionInv, kind' = kind, drawn' = drawn, sessions' = sessions,
         queue' = queue \/ queue' = <<>>,
         \A v \in Workers :
           \/ ~Busy(v)'
           \/ /\ Busy(v) /\ worker'[v].job = worker[v].job
              /\ worker'[v].key = worker[v].key /\ Keyed(v)' = Keyed(v)
  PROVE  SessionInv'
  <1>1. \A v \in Workers : Keyed(v) => Busy(v)
    BY DEF Keyed, Busy
  <1>2. \A v \in Workers : Keyed(v)' => Busy(v)'
    BY DEF Keyed, Busy
  <1>3. \A i \in DOMAIN queue' : i \in DOMAIN queue /\ queue'[i] = queue[i]
    OBVIOUS
  <1>4. PlaceInv'
    BY <1>3 DEF SessionInv, PlaceInv
  <1>5. KeyInv'
    <2>1. /\ \A v \in Workers : Keyed(v)' => worker'[v].key \in 1 .. drawn'
          /\ \A v, w \in Workers :
               Keyed(v)' /\ Keyed(w)' /\ worker'[v].key = worker'[w].key => v = w
      BY <1>2 DEF SessionInv, KeyInv
    <2>2. ASSUME NEW s \in sessions'
          PROVE  /\ s[2] \in 1 .. drawn'
                 /\ \A i \in DOMAIN queue' : queue'[i] # s[1]
                 /\ \A v \in Workers : Busy(v)' =>
                      (s[1] = worker'[v].job <=> Keyed(v)' /\ s[2] = worker'[v].key)
      BY <1>3 DEF SessionInv, KeyInv
    <2> QED
      BY <2>1, <2>2 DEF KeyInv
  <1>6. OneSessionPerJob'
    BY DEF SessionInv, OneSessionPerJob
  <1> QED
    BY <1>4, <1>5, <1>6 DEF SessionInv

\* A step of one thread that ends with its job, or keeps the job and its key.
LEMMA SameKeysOfThread ==
  ASSUME IInv, SessionInv, NEW w \in Workers, NEW s \in States,
         worker' = [worker EXCEPT ![w] = s],
         UNCHANGED <<kind, queue, drawn, sessions>>,
         \/ s.step \in {"recv", "dead"}
         \/ /\ Busy(w) /\ s.job = worker[w].job /\ s.key = worker[w].key
            /\ s.step \in {"circuit", "request", "asked"} /\ kind[s.job] \in Posts <=> Keyed(w)
  PROVE  SessionInv'
  <1>1. worker \in [Workers -> States]
    BY DEF IInv, TypeOK
  <1>2. worker'[w] = s /\ \A v \in Workers \ {w} : worker'[v] = worker[v]
    BY <1>1
  <1>3. ASSUME NEW v \in Workers
        PROVE  \/ ~Busy(v)'
               \/ /\ Busy(v) /\ worker'[v].job = worker[v].job
                  /\ worker'[v].key = worker[v].key /\ Keyed(v)' = Keyed(v)
    <2>1. CASE v = w
      BY <1>2, <2>1 DEF Busy, Keyed
    <2>2. CASE v # w
      BY <1>2, <2>2 DEF Busy, Keyed
    <2> QED
      BY <2>1, <2>2
  <1> QED
    BY <1>3, SameKeys

\* A job that is queued is nowhere else, and has no session yet.
LEMMA SubmitKeys ==
  ASSUME IInv, SessionInv, NEW c \in Callers, NEW plan \in Seq(Kinds), plan # <<>>,
         Submit(c, plan)
  PROVE  SessionInv'
  <1> DEFINE n == Len(kind)
  <1>1. /\ n \in Nat /\ Jobs = 1 .. n /\ kind \in Seq(Kinds) /\ queue \in Seq(Jobs)
        /\ sessions \subseteq Jobs \X Nat /\ Head(plan) \in Kinds
        /\ \A w \in Workers : Busy(w) => worker[w].job \in Jobs
    <2>1. /\ kind \in Seq(Kinds) /\ queue \in Seq(Jobs)
          /\ sessions \subseteq Jobs \X Nat
          /\ \A w \in Workers : Busy(w) => worker[w].job \in Jobs
      BY DEF IInv, TypeOK, JobInv
    <2>2. n \in Nat /\ Jobs = 1 .. n /\ Head(plan) \in Kinds
      BY <2>1, HeadTailProperties, LenProperties DEF Jobs
    <2> QED
      BY <2>1, <2>2
  <1>2. /\ kind' = Append(kind, Head(plan)) /\ queue' = Append(queue, n + 1)
        /\ worker' = worker /\ drawn' = drawn /\ sessions' = sessions
    BY DEF Submit, stripeVars
  <1>3. \A j \in Jobs : kind'[j] = kind[j]
    BY ONLY <1>1, <1>2
  <1>4. Len(queue) \in Nat /\ DOMAIN queue = 1 .. Len(queue)
    BY <1>1, LenProperties
  <1>5. /\ DOMAIN queue' = 1 .. Len(queue) + 1
        /\ \A i \in DOMAIN queue : queue'[i] = queue[i] /\ queue[i] \in 1 .. n
        /\ queue'[Len(queue) + 1] = n + 1
    <2>1. Append(queue, n + 1) = [i \in 1 .. Len(queue) + 1 |->
                                    IF i \in 1 .. Len(queue) THEN queue[i] ELSE n + 1]
      BY ONLY <1>1, <1>4
    <2> QED
      BY ONLY <1>1, <1>2, <1>4, <2>1
  <1>6. \A w \in Workers : Busy(w)' = Busy(w) /\ Keyed(w)' = Keyed(w)
    BY <1>1, <1>2, <1>3 DEF Busy, Keyed
  <1>7. PlaceInv'
    <2>1. ASSUME NEW i \in DOMAIN queue', NEW k \in DOMAIN queue', queue'[i] = queue'[k]
          PROVE  i = k
      <3>1. \A a, b \in DOMAIN queue : queue[a] = queue[b] => a = b
        BY DEF SessionInv, PlaceInv
      <3> QED
        BY ONLY <1>1, <1>4, <1>5, <2>1, <3>1
    <2>2. ASSUME NEW w \in Workers, NEW i \in DOMAIN queue', Busy(w)
          PROVE  worker[w].job # queue'[i]
      <3>1. worker[w].job \in 1 .. n /\ \A a \in DOMAIN queue : worker[w].job # queue[a]
        BY <1>1, <2>2 DEF SessionInv, PlaceInv
      <3> QED
        BY ONLY <1>1, <1>4, <1>5, <2>2, <3>1
    <2>3. \A v, w \in Workers : Busy(v) /\ Busy(w) /\ worker[v].job = worker[w].job => v = w
      BY DEF SessionInv, PlaceInv
    <2> QED
      BY <1>2, <1>6, <2>1, <2>2, <2>3 DEF PlaceInv
  <1>8. KeyInv'
    <2>1. ASSUME NEW s \in sessions, NEW i \in DOMAIN queue' PROVE queue'[i] # s[1]
      <3>1. s[1] \in 1 .. n /\ \A a \in DOMAIN queue : queue[a] # s[1]
        BY <1>1 DEF SessionInv, KeyInv
      <3>2. CASE i \in DOMAIN queue
        BY <1>5, <3>1, <3>2
      <3>3. CASE i = Len(queue) + 1
        <4>1. queue'[i] = n + 1
          BY <1>5, <3>3
        <4> HIDE DEF n
        <4> QED
          BY ONLY <1>1, <3>1, <4>1
      <3>4. i \in DOMAIN queue \/ i = Len(queue) + 1
        BY ONLY <1>4, <1>5, <2>1
      <3> QED
        BY <3>2, <3>3, <3>4
    <2>2. \A w \in Workers : worker'[w] = worker[w]
      BY <1>2
    <2>3. /\ \A w \in Workers : Keyed(w)' => worker'[w].key \in 1 .. drawn'
          /\ \A v, w \in Workers :
               Keyed(v)' /\ Keyed(w)' /\ worker'[v].key = worker'[w].key => v = w
      BY <1>2, <1>6, <2>2 DEF SessionInv, KeyInv
    <2>4. ASSUME NEW s \in sessions
          PROVE  /\ s[2] \in 1 .. drawn'
                 /\ \A w \in Workers : Busy(w)' =>
                      (s[1] = worker'[w].job <=> Keyed(w)' /\ s[2] = worker'[w].key)
      BY <1>2, <1>6, <2>2 DEF SessionInv, KeyInv
    <2> QED
      BY <1>2, <2>1, <2>3, <2>4 DEF KeyInv
  <1>9. OneSessionPerJob'
    BY <1>2 DEF SessionInv, OneSessionPerJob
  <1> QED
    BY <1>7, <1>8, <1>9 DEF SessionInv

\* A job that leaves the queue has no session and no key yet.
LEMMA TakeKeys ==
  ASSUME IInv, SessionInv, NEW w \in Workers, Take(w)
  PROVE  SessionInv'
  <1>1. /\ worker \in [Workers -> States] /\ queue \in Seq(Jobs) /\ queue # <<>>
        /\ worker[w].step = "recv"
    BY DEF IInv, TypeOK, Take, At
  <1>2. /\ kind' = kind /\ queue' = Tail(queue) /\ drawn' = drawn /\ sessions' = sessions
        /\ worker'[w].step = "check" /\ worker'[w].job = Head(queue)
        /\ \A v \in Workers \ {w} : worker'[v] = worker[v]
    BY <1>1 DEF Take, jobVars, stripeVars
  <1>3. /\ 1 \in DOMAIN queue /\ Head(queue) = queue[1]
        /\ \A i \in DOMAIN queue' : /\ i \in Nat /\ i + 1 \in DOMAIN queue /\ i + 1 # 1
                                    /\ queue'[i] = queue[i + 1]
    <2>1. Len(queue) \in Nat \ {0} /\ DOMAIN queue = 1 .. Len(queue)
      BY ONLY <1>1, EmptySeq, LenProperties
    <2>2. Head(queue) = queue[1]
      BY ONLY <1>1, HeadTailProperties
    <2>3. /\ Tail(queue) \in Seq(Jobs) /\ Len(Tail(queue)) = Len(queue) - 1
          /\ \A i \in 1 .. Len(Tail(queue)) : Tail(queue)[i] = queue[i + 1]
      BY ONLY <1>1, HeadTailProperties
    <2>4. DOMAIN queue' = 1 .. Len(queue) - 1
      BY ONLY <1>2, <2>3, LenProperties
    <2> QED
      BY ONLY <1>2, <2>1, <2>2, <2>3, <2>4
  <1>4. /\ ~Busy(w) /\ ~Keyed(w)' /\ Busy(w)'
        /\ \A v \in Workers \ {w} : Busy(v)' = Busy(v) /\ Keyed(v)' = Keyed(v)
    BY <1>1, <1>2 DEF Busy, Keyed
  <1> DEFINE q == DOMAIN queue
  <1>5. PlaceInv'
    <2>1. ASSUME NEW i \in DOMAIN queue', NEW k \in DOMAIN queue', queue'[i] = queue'[k]
          PROVE  i = k
      <3>1. i + 1 = k + 1
        BY <1>3, <2>1 DEF SessionInv, PlaceInv
      <3> QED
        BY ONLY <1>3, <3>1, i \in DOMAIN queue', k \in DOMAIN queue'
    <2>2. ASSUME NEW v \in Workers, NEW i \in DOMAIN queue', Busy(v)'
          PROVE  worker'[v].job # queue'[i]
      <3>1. CASE v = w
        BY <1>2, <1>3, <3>1 DEF SessionInv, PlaceInv
      <3>2. CASE v # w
        BY <1>2, <1>3, <1>4, <2>2, <3>2 DEF SessionInv, PlaceInv
      <3> QED
        BY <3>1, <3>2
    <2>3. ASSUME NEW v \in Workers, NEW u \in Workers, Busy(v)', Busy(u)',
                 worker'[v].job = worker'[u].job
          PROVE  v = u
      <3>1. \A x \in Workers \ {w} : Busy(x) => worker[x].job # Head(queue)
        BY <1>3 DEF SessionInv, PlaceInv
      <3> QED
        BY <1>2, <1>4, <2>3, <3>1 DEF SessionInv, PlaceInv
    <2> QED
      BY <2>1, <2>2, <2>3 DEF PlaceInv
  <1>6. KeyInv'
    <2>1. \A v \in Workers : Keyed(v)' => worker'[v].key \in 1 .. drawn'
      BY <1>2, <1>4 DEF SessionInv, KeyInv
    <2>2. \A v, u \in Workers :
            Keyed(v)' /\ Keyed(u)' /\ worker'[v].key = worker'[u].key => v = u
      BY <1>2, <1>4 DEF SessionInv, KeyInv
    <2>3. ASSUME NEW s \in sessions
          PROVE  /\ s[2] \in 1 .. drawn'
                 /\ \A i \in DOMAIN queue' : queue'[i] # s[1]
                 /\ \A v \in Workers : Busy(v)' =>
                      (s[1] = worker'[v].job <=> Keyed(v)' /\ s[2] = worker'[v].key)
      <3>1. s[2] \in 1 .. drawn /\ \A i \in DOMAIN queue : queue[i] # s[1]
        BY DEF SessionInv, KeyInv
      <3>2. \A v \in Workers \ {w} :
              Busy(v) => (s[1] = worker[v].job <=> Keyed(v) /\ s[2] = worker[v].key)
        BY DEF SessionInv, KeyInv
      <3> QED
        BY <1>2, <1>3, <1>4, <3>1, <3>2
    <2> QED
      BY <1>2, <2>1, <2>2, <2>3 DEF KeyInv
  <1>7. OneSessionPerJob'
    BY <1>2 DEF SessionInv, OneSessionPerJob
  <1> QED
    BY <1>5, <1>6, <1>7 DEF SessionInv

\* The key that is drawn is nobody's, and no session's.
LEMMA DrawKeys ==
  ASSUME IInv, SessionInv, NEW w \in Workers, DrawKey(w)
  PROVE  SessionInv'
  <1>1. worker \in [Workers -> States] /\ drawn \in Nat /\ worker[w].step = "key"
    BY DEF IInv, TypeOK, DrawKey, At
  <1>2. /\ kind' = kind /\ queue' = queue /\ drawn' = drawn + 1 /\ sessions' = sessions
        /\ worker'[w].step = "circuit" /\ worker'[w].job = worker[w].job
        /\ worker'[w].key = drawn + 1
        /\ \A v \in Workers \ {w} : worker'[v] = worker[v]
    BY <1>1 DEF DrawKey, jobVars, States
  <1>3. /\ Busy(w) /\ Busy(w)' /\ ~Keyed(w)
        /\ \A v \in Workers \ {w} : Busy(v)' = Busy(v) /\ Keyed(v)' = Keyed(v)
    BY <1>1, <1>2 DEF Busy, Keyed
  <1>4. \A v \in Workers : Keyed(v) => worker[v].key \in 1 .. drawn
    BY DEF SessionInv, KeyInv
  <1>5. PlaceInv'
    <2>1. ASSUME NEW v \in Workers
          PROVE  (Busy(v)' <=> Busy(v)) /\ worker'[v].job = worker[v].job
      <3>1. CASE v = w
        BY <1>2, <1>3, <3>1
      <3>2. CASE v # w
        BY <1>2, <1>3, <3>2
      <3> QED
        BY <3>1, <3>2
    <2> QED
      BY <1>2, <2>1 DEF SessionInv, PlaceInv
  <1>6. KeyInv'
    <2>1. ASSUME NEW v \in Workers, Keyed(v)' PROVE worker'[v].key \in 1 .. drawn'
      <3>1. CASE v = w
        BY <1>1, <1>2, <3>1
      <3>2. CASE v # w
        BY <1>1, <1>2, <1>3, <1>4, <2>1, <3>2
      <3> QED
        BY <3>1, <3>2
    <2>2. ASSUME NEW v \in Workers, NEW u \in Workers, Keyed(v)', Keyed(u)',
                 worker'[v].key = worker'[u].key
          PROVE  v = u
      <3>1. \A x \in Workers \ {w} : Keyed(x) => worker[x].key # drawn + 1
        BY <1>1, <1>4
      <3>2. \A x, y \in Workers : Keyed(x) /\ Keyed(y) /\ worker[x].key = worker[y].key => x = y
        BY DEF SessionInv, KeyInv
      <3>3. CASE v # w /\ u # w
        BY <1>2, <1>3, <2>2, <3>2, <3>3
      <3>4. CASE v = w \/ u = w
        BY <1>2, <1>3, <2>2, <3>1, <3>4
      <3> QED
        BY <3>3, <3>4
    <2>3. ASSUME NEW s \in sessions
          PROVE  /\ s[2] \in 1 .. drawn'
                 /\ \A i \in DOMAIN queue' : queue'[i] # s[1]
                 /\ \A v \in Workers : Busy(v)' =>
                      (s[1] = worker'[v].job <=> Keyed(v)' /\ s[2] = worker'[v].key)
      <3>1. s[2] \in 1 .. drawn /\ \A i \in DOMAIN queue : queue[i] # s[1]
        BY DEF SessionInv, KeyInv
      <3>2. \A v \in Workers :
              Busy(v) => (s[1] = worker[v].job <=> Keyed(v) /\ s[2] = worker[v].key)
        BY DEF SessionInv, KeyInv
      <3>3. s[1] # worker[w].job /\ s[2] # drawn + 1 /\ s[2] \in 1 .. drawn + 1
        BY <1>1, <1>3, <3>1, <3>2
      <3> QED
        BY <1>2, <1>3, <3>1, <3>2, <3>3
    <2> QED
      BY <1>2, <2>1, <2>2, <2>3 DEF KeyInv
  <1>7. OneSessionPerJob'
    BY <1>2 DEF SessionInv, OneSessionPerJob
  <1> QED
    BY <1>5, <1>6, <1>7 DEF SessionInv

\* Of a key Stripe makes one session, whatever attempt it is that reaches it.
LEMMA RequestKeys ==
  ASSUME IInv, SessionInv, NEW w \in Workers, Request(w)
  PROVE  SessionInv'
  <1> DEFINE job == worker[w].job
             key == worker[w].key
             new == <<job, key>>
  <1>1. worker \in [Workers -> States] /\ worker[w].step = "request"
    BY DEF IInv, TypeOK, Request, At
  <1>2. /\ kind' = kind /\ queue' = queue /\ drawn' = drawn
        /\ worker'[w].step = "asked" /\ worker'[w].job = job /\ worker'[w].key = key
        /\ \A v \in Workers \ {w} : worker'[v] = worker[v]
        /\ sessions' = sessions \/ (kind[job] \in Posts /\ sessions' = sessions \cup {new})
    BY <1>1 DEF Request, Goto, jobVars, States
  <1>3. \A v \in Workers : /\ Busy(v)' = Busy(v) /\ Keyed(v)' = Keyed(v)
                           /\ worker'[v].job = worker[v].job /\ worker'[v].key = worker[v].key
    <2>1. Busy(w)' = Busy(w) /\ Keyed(w)' = Keyed(w)
      BY <1>1, <1>2 DEF Busy, Keyed
    <2>2. \A v \in Workers \ {w} : Busy(v)' = Busy(v) /\ Keyed(v)' = Keyed(v)
      BY <1>2 DEF Busy, Keyed
    <2> QED
      BY <1>2, <2>1, <2>2
  <1>4. CASE sessions' = sessions
    <2>1. \A v \in Workers : Keyed(v)' = Keyed(v) /\ (Busy(v)' => Busy(v))
      BY <1>3
    <2> QED
      BY <1>2, <1>3, <1>4, <2>1, SameKeys
  <1>5. CASE kind[job] \in Posts /\ sessions' = sessions \cup {new}
    <2>1. Keyed(w) /\ Busy(w) /\ new[1] = job /\ new[2] = key
      BY <1>1, <1>5 DEF Keyed, Busy
    <2>2. \A s \in sessions : s[1] = job <=> s[2] = key
      BY <2>1 DEF SessionInv, KeyInv
    <2>3. PlaceInv'
      BY <1>2, <1>3 DEF SessionInv, PlaceInv
    <2>4. KeyInv'
      <3>1. /\ \A v \in Workers : Keyed(v)' => worker'[v].key \in 1 .. drawn'
            /\ \A v, u \in Workers :
                 Keyed(v)' /\ Keyed(u)' /\ worker'[v].key = worker'[u].key => v = u
        BY <1>2, <1>3 DEF SessionInv, KeyInv
      <3>2. ASSUME NEW s \in sessions
            PROVE  /\ s[2] \in 1 .. drawn'
                   /\ \A i \in DOMAIN queue' : queue'[i] # s[1]
                   /\ \A v \in Workers : Busy(v)' =>
                        (s[1] = worker'[v].job <=> Keyed(v)' /\ s[2] = worker'[v].key)
        BY <1>2, <1>3 DEF SessionInv, KeyInv
      <3>3. /\ new[2] \in 1 .. drawn'
            /\ \A i \in DOMAIN queue' : queue'[i] # new[1]
            /\ \A v \in Workers : Busy(v)' =>
                 (new[1] = worker'[v].job <=> Keyed(v)' /\ new[2] = worker'[v].key)
        <4>1. key \in 1 .. drawn /\ \A i \in DOMAIN queue : queue[i] # job
          BY <2>1 DEF SessionInv, PlaceInv, KeyInv
        <4>2. \A v \in Workers : Busy(v) =>
                (job = worker[v].job <=> Keyed(v) /\ key = worker[v].key)
          BY <2>1 DEF SessionInv, PlaceInv, KeyInv
        <4> QED
          BY <1>2, <1>3, <2>1, <4>1, <4>2
      <3> HIDE DEF new
      <3> QED
        BY <1>5, <3>1, <3>2, <3>3 DEF KeyInv
    <2>5. OneSessionPerJob'
      <3> HIDE DEF new
      <3> QED
        BY <1>5, <2>1, <2>2 DEF SessionInv, OneSessionPerJob
    <2> QED
      BY <2>3, <2>4, <2>5 DEF SessionInv
  <1> QED
    BY <1>2, <1>4, <1>5

\* A step of a Stripe thread, or its death.
LEMMA ThreadKeys ==
  ASSUME IInv, SessionInv, NEW w \in Workers, WorkerStep(w) \/ Die(w)
  PROVE  SessionInv'
  <1>1. /\ worker \in [Workers -> States] /\ worker[w] \in States
        /\ \A step : Goto(w, step) => worker' = [worker EXCEPT ![w] = [@ EXCEPT !.step = step]]
    BY DEF IInv, TypeOK, Goto
  <1>2. ASSUME NEW result, Reply(w, result), UNCHANGED <<kind, queue, drawn, sessions>>
        PROVE  SessionInv'
    BY <1>2, NotWorkingType, SameKeysOfThread DEF Reply
  <1>3. CASE RejectExpired(w) \/ NoKey(w) \/ FailFast(w) \/ Answered(w) \/ RecordFailure(w)
    <2>1. \E result : Reply(w, result)
      BY <1>3 DEF RejectExpired, NoKey, FailFast, Answered, RecordFailure
    <2>2. UNCHANGED <<kind, queue, drawn, sessions>>
      BY <1>3 DEF RejectExpired, NoKey, FailFast, Answered, RecordFailure, stripeVars
    <2> QED
      BY <1>2, <2>1, <2>2
  <1>4. ASSUME NEW step \in WorkerSteps, NEW attempt \in 0 .. MaxRetries, Busy(w),
               worker' = [worker EXCEPT ![w] = [worker[w] EXCEPT !.step = step,
                                                                 !.attempt = attempt]],
               UNCHANGED <<kind, queue, drawn, sessions>>,
               step \in {"circuit", "request", "asked"} /\ kind[worker[w].job] \in Posts
                 <=> Keyed(w)
        PROVE  SessionInv'
    <2> DEFINE s == [worker[w] EXCEPT !.step = step, !.attempt = attempt]
    <2>1. /\ s \in States /\ s.step = step /\ s.job = worker[w].job /\ s.key = worker[w].key
          /\ worker' = [worker EXCEPT ![w] = s]
      BY <1>1, <1>4 DEF States
    <2> HIDE DEF s
    <2> QED
      BY <1>4, <2>1, SameKeysOfThread
  <1>5. CASE Run(w) \/ Pass(w)
    <2>1. PICK step \in WorkerSteps :
            /\ Goto(w, step)
            /\ step \in {"circuit", "request", "asked"} /\ kind[worker[w].job] \in Posts
                 <=> Keyed(w)
      BY <1>5 DEF Run, Pass, At, Keyed, WorkerSteps
    <2>2. /\ Busy(w) /\ worker[w].attempt \in 0 .. MaxRetries
          /\ UNCHANGED <<kind, queue, drawn, sessions>>
      BY <1>1, <1>5 DEF Run, Pass, At, Busy, States, jobVars, stripeVars
    <2>3. [worker[w] EXCEPT !.step = step]
            = [worker[w] EXCEPT !.step = step, !.attempt = worker[w].attempt]
      BY <1>1 DEF States
    <2>4. worker' = [worker EXCEPT ![w] = [worker[w] EXCEPT !.step = step,
                                                            !.attempt = worker[w].attempt]]
      BY <2>1, <2>3 DEF Goto
    <2> QED
      BY <1>4, <2>1, <2>2, <2>4
  <1>6. CASE Retry(w)
    <2>1. /\ worker[w].attempt + 1 \in 0 .. MaxRetries /\ "request" \in WorkerSteps
          /\ Busy(w) /\ UNCHANGED <<kind, queue, drawn, sessions>>
          /\ kind[worker[w].job] \in Posts <=> Keyed(w)
      BY <1>1, <1>6 DEF Retry, At, Busy, Keyed, States, WorkerSteps, jobVars, stripeVars
    <2> QED
      BY <1>4, <1>6, <2>1 DEF Retry
  <1>7. CASE Die(w)
    <2>1. /\ worker' = [worker EXCEPT ![w] = NotWorking("dead")]
          /\ queue' = queue \/ queue' = <<>>
          /\ kind' = kind /\ drawn' = drawn /\ sessions' = sessions
      BY <1>7 DEF Die, stripeVars
    <2>2. worker'[w] = NotWorking("dead") /\ \A v \in Workers \ {w} : worker'[v] = worker[v]
      BY <1>1, <2>1
    <2>3. ASSUME NEW v \in Workers
          PROVE  \/ ~Busy(v)'
                 \/ /\ Busy(v) /\ worker'[v].job = worker[v].job
                    /\ worker'[v].key = worker[v].key /\ Keyed(v)' = Keyed(v)
      <3>1. CASE v = w
        BY <2>2, <3>1, NotWorkingType DEF Busy
      <3>2. CASE v # w
        BY <2>1, <2>2, <3>2 DEF Busy, Keyed
      <3> QED
        BY <3>1, <3>2
    <2> QED
      BY <2>1, <2>3, SameKeys
  <1> QED
    BY <1>3, <1>5, <1>6, <1>7, TakeKeys, DrawKeys, RequestKeys DEF WorkerStep

\* Every step keeps jobs in one place, and keys and sessions apart.
LEMMA KeysStep == IInv /\ SessionInv /\ [Next]_vars => SessionInv'
  <1> SUFFICES ASSUME IInv, SessionInv, [Next]_vars PROVE SessionInv'
    OBVIOUS
  <1>1. ASSUME UNCHANGED <<kind, queue, worker, drawn, sessions>> PROVE SessionInv'
    BY <1>1 DEF SessionInv, PlaceInv, KeyInv, OneSessionPerJob, Busy, Keyed
  <1>2. ASSUME NEW c \in Callers, NEW plan \in Plans, Handle(c, plan) PROVE SessionInv'
    BY <1>2, SubmitKeys DEF Handle
  <1>3. ASSUME NEW c \in Callers, CallerStep(c) PROVE SessionInv'
    <2>1. CASE NextCall(c)
      <3>1. caller[c].plan \in Seq(Kinds) /\ caller[c].plan # <<>>
        BY <2>1 DEF NextCall, IInv, TypeOK, DeadlineInv
      <3> QED
        BY <2>1, <3>1, SubmitKeys DEF NextCall
    <2>2. CASE Rejected(c) \/ StartWait(c) \/ GetReply(c) \/ TimeOut(c)
      BY <1>1, <2>2 DEF Rejected, StartWait, GetReply, TimeOut, jobVars, stripeVars
    <2> QED
      BY <1>3, <2>1, <2>2 DEF CallerStep
  <1>4. ASSUME NEW w \in Workers, WorkerStep(w) \/ Die(w) PROVE SessionInv'
    BY <1>4, ThreadKeys
  <1>5. CASE Tick \/ UNCHANGED vars
    BY <1>1, <1>5 DEF Tick, vars, jobVars, stripeVars
  <1> QED
    BY <1>2, <1>3, <1>4, <1>5 DEF Next

\* send_with_retry(): through any number of attempts, lost answers, jobs given up and dead
\* threads, a job has one session at Stripe, and no session is two jobs'.
THEOREM OneSessionOnly == Spec => []OneSessionPerJob
  <1>1. Init => SessionInv
    BY DEF Init, SessionInv, PlaceInv, KeyInv, OneSessionPerJob, Busy, Keyed, NotWorking
  <1>2. SessionInv => OneSessionPerJob
    BY DEF SessionInv
  <1> QED
    BY <1>1, <1>2, KeysStep, Invariance, PTL DEF Spec
\* Only Run, which found time left, takes a thread from "check" any further.
LEMMA OnlyRunStarts ==
  ASSUME IInv, [Next]_vars, NEW w \in Workers, At(w, "check"),
         worker'[w].step \in {"key", "circuit"}
  PROVE  left[worker[w].job] > 0
  <1>1. worker \in [Workers -> States]
    BY DEF IInv, TypeOK
  <1>2. worker' # worker
    BY DEF At
  <1>3. PICK v \in Workers : WorkerStep(v) \/ Die(v)
    BY <1>2
    DEF Next, vars, Tick, Handle, Submit, CallerStep, NextCall, Rejected, StartWait,
        GetReply, TimeOut
  <1>4. CASE v # w
    BY <1>1, <1>3, <1>4
    DEF At, WorkerStep, Take, RejectExpired, Run, DrawKey, NoKey, FailFast, Pass, Request,
        Answered, Retry, RecordFailure, Die, Goto, Reply
  <1>5. CASE v = w
    <2>1. Run(w) \/ RejectExpired(w) \/ Die(w)
      BY <1>3, <1>5
      DEF At, WorkerStep, Take, DrawKey, NoKey, FailFast, Pass, Request, Answered, Retry,
          RecordFailure
    <2>2. Run(w)
      BY SMTT(30), <1>1, <2>1 DEF RejectExpired, Die, Reply, NotWorking
    <2> QED
      BY <2>2 DEF Run
  <1> QED
    BY <1>4, <1>5

\* reject_expired() and wait(): a job is started only while its caller still waits.
THEOREM LateJobsAreDropped == Spec => ExpiredIsDropped
  <1>1. ASSUME IInv, [Next]_vars, NEW w \in Workers, At(w, "check"),
               worker'[w].step \in {"key", "circuit"}
        PROVE  worker[w].job \notin abandoned
    BY <1>1, OnlyRunStarts DEF IInv, DeadlineInv
  <1>2. IInv /\ [Next]_vars =>
          [\A w \in Workers : At(w, "check") /\ worker'[w].step \in {"key", "circuit"}
                                => worker[w].job \notin abandoned]_vars
    BY <1>1
  <1> QED
    BY <1>2, Invariance, PTL DEF Spec, ExpiredIsDropped

-----------------------------------------------------------------------------
(***************************************************************************)
(* The circuit.                                                            *)
(***************************************************************************)

Attempts == 1 .. MaxRetries + 1

\* The requests to come can be counted.
LEMMA ToComeIsFinite ==
  /\ UnderWay \in Int
  /\ \A w \in Workers : \A S \in SUBSET ((Workers \ {w}) \X Attempts) :
       Cardinality(S) <= UnderWay
  /\ \A S \in SUBSET (Workers \X Attempts) :
       /\ IsFiniteSet(S) /\ Cardinality(S) \in Nat
       /\ \A T \in SUBSET S : Cardinality(T) <= Cardinality(S)
       /\ \A a \in S : Cardinality(S \ {a}) = Cardinality(S) - 1
  <1>1. IsFiniteSet(Attempts) /\ Cardinality(Attempts) = MaxRetries + 1
    <2>1. MaxRetries \in Nat
      OBVIOUS
    <2>2. ASSUME NEW n \in Int, n >= 1 PROVE IsFiniteSet(1 .. n) /\ Cardinality(1 .. n) = n
      <3>1. 1 \in Int /\ n \in Int /\ ~(1 > n) /\ n - 1 + 1 = n
        BY ONLY <2>2
      <3>2. IsFiniteSet(1 .. n) /\ Cardinality(1 .. n) = IF 1 > n THEN 0 ELSE n - 1 + 1
        BY ONLY <3>1, FS_Interval
      <3> QED
        BY ONLY <3>1, <3>2
    <2>3. MaxRetries + 1 \in Int /\ MaxRetries + 1 >= 1
      BY <2>1
    <2> QED
      BY ONLY <2>2, <2>3 DEF Attempts
  <1>2. IsFiniteSet(Workers) /\ Cardinality(Workers) \in Nat
    BY FS_CardinalityType
  <1>3. ASSUME NEW w \in Workers, NEW S \in SUBSET ((Workers \ {w}) \X Attempts)
        PROVE  Cardinality(S) <= UnderWay
    <2>1. IsFiniteSet(Workers \ {w}) /\ Cardinality(Workers \ {w}) = Cardinality(Workers) - 1
      BY <1>2, FS_RemoveElement
    <2>2. /\ IsFiniteSet((Workers \ {w}) \X Attempts)
          /\ Cardinality((Workers \ {w}) \X Attempts)
               = Cardinality(Workers \ {w}) * Cardinality(Attempts)
      BY ONLY <1>1, <2>1, FS_Product
    <2>3. Cardinality(S) <= Cardinality((Workers \ {w}) \X Attempts)
      BY ONLY <2>2, FS_Subset, S \in SUBSET ((Workers \ {w}) \X Attempts)
    <2> QED
      BY ONLY <1>1, <2>1, <2>2, <2>3 DEF UnderWay
  <1>4. ASSUME NEW S \in SUBSET (Workers \X Attempts)
        PROVE  /\ IsFiniteSet(S) /\ Cardinality(S) \in Nat
               /\ \A T \in SUBSET S : Cardinality(T) <= Cardinality(S)
               /\ \A a \in S : Cardinality(S \ {a}) = Cardinality(S) - 1
    <2>1. IsFiniteSet(Workers \X Attempts)
      BY ONLY <1>1, <1>2, FS_Product
    <2>2. IsFiniteSet(S)
      BY ONLY <2>1, FS_Subset, S \in SUBSET (Workers \X Attempts)
    <2> QED
      BY ONLY <2>2, FS_Subset, FS_CardinalityType, FS_RemoveElement
  <1>5. UnderWay \in Int
    <2>1. MaxRetries \in Nat
      OBVIOUS
    <2> QED
      BY ONLY <1>2, <2>1 DEF UnderWay
  <1> QED
    BY <1>3, <1>4, <1>5

\* A thread has at most one operation under way.
LEMMA RemainingType ==
  \A w \in Workers :
    /\ IInv => Remaining(w) \in Nat
    /\ IInv' => Remaining(w)' \in Nat
  <1>1. MaxRetries \in Nat
    OBVIOUS
  <1>2. ASSUME NEW a \in 0 .. MaxRetries, NEW step
        PROVE  (CASE step = "request" -> MaxRetries + 1 - a
                  [] step = "asked" -> MaxRetries - a
                  [] OTHER -> 0) \in Nat
    BY ONLY <1>1, <1>2
  <1>3. ASSUME NEW w \in Workers, IInv PROVE Remaining(w) \in Nat
    <2>1. worker[w].attempt \in 0 .. MaxRetries
      BY <1>3 DEF IInv, TypeOK, States
    <2> QED
      BY ONLY <1>2, <2>1 DEF Remaining, At
  <1>4. ASSUME NEW w \in Workers, IInv' PROVE Remaining(w)' \in Nat
    <2>1. worker'[w].attempt \in 0 .. MaxRetries
      BY <1>4 DEF IInv, TypeOK, States
    <2> QED
      BY ONLY <1>2, <2>1 DEF Remaining, At
  <1> QED
    BY <1>3, <1>4

\* A step that opens no circuit, sends nothing and leaves no thread more to send.
LEMMA QuietStays ==
  ASSUME IInv, IInv', QuietInv,
         openFor' # 0 => /\ openFor # 0 /\ strays' = strays
                         /\ \A v \in Workers : Remaining(v)' <= Remaining(v),
         openFor' = 0 => strays' = 0
  PROVE  QuietInv'
  <1>1. CASE openFor' = 0
    BY <1>1 DEF QuietInv
  <1>2. CASE openFor' # 0
    <2>1. ToCome' \subseteq ToCome
      <3>1. ASSUME NEW v \in Workers, NEW n \in Attempts, n <= Remaining(v)'
            PROVE  n <= Remaining(v)
        <4>1. Remaining(v) \in Nat /\ Remaining(v)' \in Nat /\ n \in Nat
          BY RemainingType DEF Attempts
        <4>2. Remaining(v)' <= Remaining(v)
          BY <1>2
        <4> QED
          BY ONLY <3>1, <4>1, <4>2
      <3> QED
        BY <3>1 DEF ToCome, Attempts
    <2>2. ToCome \in SUBSET (Workers \X Attempts) /\ ToCome' \in SUBSET (Workers \X Attempts)
      BY DEF ToCome, Attempts
    <2>3. /\ Cardinality(ToCome) \in Nat /\ Cardinality(ToCome') \in Nat
          /\ Cardinality(ToCome') <= Cardinality(ToCome)
      BY <2>1, <2>2, ToComeIsFinite
    <2>4. strays \in Nat /\ strays' = strays /\ openFor # 0
      BY <1>2 DEF IInv, TypeOK
    <2>5. UnderWay \in Int /\ strays + Cardinality(ToCome) <= UnderWay
      BY <2>4, ToComeIsFinite DEF QuietInv
    <2> QED
      BY ONLY <1>2, <2>3, <2>4, <2>5 DEF QuietInv
  <1> QED
    BY <1>1, <1>2

\* A request sent through an open circuit is one of those to come, and no longer.
LEMMA RequestQuiet ==
  ASSUME IInv, IInv', QuietInv, NEW w \in Workers, Request(w)
  PROVE  QuietInv'
  <1> DEFINE attempt == worker[w].attempt
             next == <<w, Remaining(w)>>
  <1>1. /\ attempt \in 0 .. MaxRetries /\ MaxRetries \in Nat /\ worker[w].step = "request"
        /\ worker'[w].step = "asked" /\ worker'[w].attempt = attempt
        /\ \A v \in Workers \ {w} : worker'[v] = worker[v]
        /\ openFor' = openFor /\ strays \in Nat
    BY DEF IInv, TypeOK, States, Request, Goto, At, circuitVars
  <1>2. Remaining(w) = MaxRetries + 1 - attempt /\ Remaining(w)' = MaxRetries - attempt
    BY <1>1 DEF Remaining, At
  <1>3. \A v \in Workers \ {w} : Remaining(v)' = Remaining(v)
    BY <1>1 DEF Remaining, At
  <1>4. next \in ToCome
    <2>1. Remaining(w) \in 1 .. MaxRetries + 1 /\ Remaining(w) <= Remaining(w)
      BY ONLY <1>1, <1>2
    <2> HIDE DEF next
    <2>2. next[1] = w /\ next[2] = Remaining(w) /\ next = <<w, Remaining(w)>>
      BY DEF next
    <2> QED
      BY ONLY <2>1, <2>2, w \in Workers DEF ToCome
  <1>5. ToCome' = ToCome \ {next}
    <2>1. ASSUME NEW v \in Workers, NEW n \in Attempts
          PROVE  n <= Remaining(v)' <=> n <= Remaining(v) /\ <<v, n>> # next
      <3>1. CASE v = w
        <4>1. n \in Nat
          BY DEF Attempts
        <4> QED
          BY ONLY <1>1, <1>2, <3>1, <4>1
      <3>2. CASE v # w
        BY <1>3, <3>2
      <3> QED
        BY <3>1, <3>2
    <2> QED
      BY <2>1 DEF ToCome, Attempts
  <1>6. ToCome \in SUBSET (Workers \X Attempts)
    BY DEF ToCome, Attempts
  <1>7. /\ Cardinality(ToCome) \in Nat
        /\ Cardinality(ToCome') = Cardinality(ToCome) - 1
    BY <1>4, <1>5, <1>6, ToComeIsFinite
  <1>8. strays' = IF openFor > 0 THEN strays + 1 ELSE strays
    BY DEF Request
  <1>9. openFor \in Nat
    BY DEF IInv, TypeOK
  <1>10. UnderWay \in Int
    BY ToComeIsFinite
  <1> QED
    BY SMTT(30), <1>1, <1>7, <1>8, <1>9, <1>10 DEF QuietInv

\* The failure that opens the circuit leaves the attempts of the other threads.
LEMMA FailureQuiet ==
  ASSUME IInv, IInv', QuietInv, NEW w \in Workers, RecordFailure(w)
  PROVE  QuietInv'
  <1>1. /\ worker[w].step = "asked" /\ worker[w].attempt = MaxRetries
        /\ worker'[w].step = "recv"
        /\ \A v \in Workers \ {w} : worker'[v] = worker[v]
        /\ strays' = strays /\ strays \in Nat /\ MaxRetries \in Nat
        /\ openFor' = openFor \/ openFor' # 0
    <2>1. worker \in [Workers -> States] /\ worker[w].step = "asked" /\ strays \in Nat
      BY DEF IInv, TypeOK, RecordFailure, At
    <2>2. worker' = [worker EXCEPT ![w] = NotWorking("recv")]
      BY DEF RecordFailure, Reply
    <2>3. worker'[w].step = "recv" /\ \A v \in Workers \ {w} : worker'[v] = worker[v]
      BY <2>1, <2>2, NotWorkingType
    <2>4. /\ worker[w].attempt = MaxRetries /\ strays' = strays
          /\ openFor' = openFor \/ openFor' = Cooldown
      BY DEF RecordFailure, stripeVars
    <2>5. MaxRetries \in Nat /\ Cooldown # 0
      OBVIOUS
    <2> QED
      BY ONLY <2>1, <2>3, <2>4, <2>5
  <1>2. Remaining(w) = 0 /\ Remaining(w)' = 0
    BY <1>1 DEF Remaining, At
  <1>3. \A v \in Workers \ {w} : Remaining(v)' = Remaining(v)
    BY <1>1 DEF Remaining, At
  <1>4. CASE openFor = 0 /\ openFor' # 0
    <2>1. ToCome' \in SUBSET ((Workers \ {w}) \X Attempts)
      BY <1>2 DEF ToCome, Attempts
    <2>2. Cardinality(ToCome') <= UnderWay
      BY <2>1, ToComeIsFinite
    <2>3. strays' = 0
      BY <1>1, <1>4 DEF QuietInv
    <2>4. Cardinality(ToCome') \in Nat
      BY ToComeIsFinite DEF ToCome, Attempts
    <2> QED
      BY <1>4, <2>2, <2>3, <2>4 DEF QuietInv
  <1>5. CASE openFor # 0 \/ openFor' = 0
    <2>1. \A v \in Workers : Remaining(v)' <= Remaining(v)
      <3>1. ASSUME NEW v \in Workers PROVE Remaining(v)' <= Remaining(v)
        <4>1. Remaining(v)' = Remaining(v) /\ Remaining(v) \in Nat
          BY <1>2, <1>3, RemainingType
        <4> QED
          BY <4>1
      <3> QED
        BY <3>1
    <2>2. openFor' = 0 => strays' = 0
      BY <1>1 DEF QuietInv
    <2> QED
      BY <1>1, <1>5, <2>1, <2>2, QuietStays
  <1> QED
    BY <1>4, <1>5

\* The other steps of a thread.
LEMMA ThreadQuiet ==
  ASSUME IInv, IInv', QuietInv, NEW w \in Workers,
         \/ Take(w) \/ RejectExpired(w) \/ Run(w) \/ DrawKey(w) \/ NoKey(w)
         \/ FailFast(w) \/ Pass(w) \/ Answered(w) \/ Retry(w) \/ Die(w)
  PROVE  QuietInv'
  <1>1. \A v \in Workers \ {w} : worker'[v] = worker[v]
    BY DEF Take, RejectExpired, Run, DrawKey, NoKey, FailFast, Pass, Answered, Retry, Die,
           Goto, Reply, IInv, TypeOK
  <1>2. \A v \in Workers \ {w} : Remaining(v)' = Remaining(v) /\ Remaining(v) \in Nat
    BY <1>1, RemainingType DEF Remaining, At
  <1>3. /\ worker[w].attempt \in 0 .. MaxRetries /\ MaxRetries \in Nat /\ Remaining(w) \in Nat
        /\ worker \in [Workers -> States] /\ worker[w] \in States
        /\ openFor = 0 => strays = 0
    BY RemainingType DEF IInv, TypeOK, States, QuietInv
  <1>4. openFor' = 0 => strays' = 0
    BY <1>3 DEF Take, RejectExpired, Run, DrawKey, NoKey, FailFast, Pass, Answered, Retry, Die,
                circuitVars, stripeVars
  <1>5. CASE Answered(w) \/ Pass(w)
    <2>1. openFor' = 0
      BY <1>5 DEF Answered, Pass, circuitVars, stripeVars
    <2> QED
      BY <1>4, <2>1, QuietStays
  <1>6. CASE Retry(w)
    <2>1. /\ worker[w].step = "asked" /\ worker'[w].step = "request"
          /\ worker'[w].attempt = worker[w].attempt + 1
          /\ openFor' = openFor /\ strays' = strays
      BY <1>3, <1>6 DEF Retry, At, States, circuitVars, stripeVars
    <2>2. Remaining(w)' = Remaining(w)
      BY SMTT(30), <1>3, <2>1 DEF Remaining, At
    <2>3. \A v \in Workers : Remaining(v)' <= Remaining(v)
      <3>1. Remaining(w)' <= Remaining(w)
        BY ONLY <1>3, <2>2
      <3>2. \A v \in Workers \ {w} : Remaining(v)' <= Remaining(v)
        BY ONLY <1>2
      <3> QED
        BY ONLY <3>1, <3>2
    <2> QED
      BY <1>4, <2>1, <2>3, QuietStays
  <1>7. CASE \/ Take(w) \/ RejectExpired(w) \/ Run(w) \/ DrawKey(w) \/ NoKey(w)
             \/ FailFast(w) \/ Die(w)
    <2>1. openFor' = openFor /\ strays' = strays
      BY <1>7 DEF Take, RejectExpired, Run, DrawKey, NoKey, FailFast, Die, circuitVars,
                  stripeVars
    <2>2. worker'[w].step \notin {"request", "asked"}
      <3>1. CASE Run(w)
        BY <1>3, <3>1 DEF Run, Goto, States
      <3>2. CASE DrawKey(w)
        BY <1>3, <3>2 DEF DrawKey, States
      <3> QED
        BY <1>3, <1>7, <3>1, <3>2
        DEF Take, RejectExpired, NoKey, FailFast, Die, Reply, NotWorking
    <2>3. Remaining(w)' = 0
      BY <2>2 DEF Remaining, At
    <2>4. \A v \in Workers : Remaining(v)' <= Remaining(v)
      <3>1. Remaining(w)' <= Remaining(w)
        BY ONLY <1>3, <2>3
      <3>2. \A v \in Workers \ {w} : Remaining(v)' <= Remaining(v)
        BY ONLY <1>2
      <3> QED
        BY ONLY <3>1, <3>2
    <2> QED
      BY <1>4, <2>1, <2>4, QuietStays
  <1> QED
    BY <1>5, <1>6, <1>7

\* Every step keeps the count of requests that an open circuit may still see.
LEMMA QuietStep == IInv /\ QuietInv /\ [Next]_vars => QuietInv'
  <1> SUFFICES ASSUME IInv, QuietInv, [Next]_vars PROVE QuietInv'
    OBVIOUS
  <1>1. IInv'
    BY StepInv
  <1>2. CASE UNCHANGED worker /\ (Tick \/ UNCHANGED <<openFor, strays>>)
    <2>1. \A v \in Workers : Remaining(v)' = Remaining(v) /\ Remaining(v) \in Nat
      BY <1>2, RemainingType DEF Remaining, At
    <2>2. \A v \in Workers : Remaining(v)' <= Remaining(v)
      BY <2>1
    <2>3. openFor \in Nat /\ (openFor = 0 => strays = 0)
      BY DEF IInv, TypeOK, QuietInv
    <2>4. (openFor' # 0 => openFor # 0 /\ strays' = strays) /\ (openFor' = 0 => strays' = 0)
      BY <1>2, <2>3 DEF Tick, Less
    <2> QED
      BY <1>1, <2>2, <2>4, QuietStays
  <1>3. CASE Tick
    BY <1>2, <1>3 DEF Tick
  <1>4. ASSUME NEW c \in Callers, CallerStep(c) \/ \E plan \in Plans : Handle(c, plan)
        PROVE  QuietInv'
    <2>1. UNCHANGED <<worker, openFor, strays>>
      BY <1>4 DEF CallerStep, Handle, NextCall, Submit, Rejected, StartWait, GetReply, TimeOut,
                  circuitVars, stripeVars
    <2> QED
      BY <1>2, <2>1
  <1>5. ASSUME NEW w \in Workers, WorkerStep(w) \/ Die(w) PROVE QuietInv'
    BY <1>1, <1>5, RequestQuiet, FailureQuiet, ThreadQuiet DEF WorkerStep
  <1>6. CASE UNCHANGED vars
    BY <1>2, <1>6 DEF vars, circuitVars, stripeVars
  <1> QED
    BY <1>3, <1>4, <1>5, <1>6 DEF Next

\* send_with_retry() looks at the circuit once: while it is open, Stripe gets no more
\* than the attempts of the operations that the other threads had under way, for any
\* number of threads and retries, any threshold and any cooldown.
THEOREM OpenCircuitStaysQuiet == Spec => []OpenCircuitIsQuiet
  <1>1. Init => QuietInv
    BY DEF Init, QuietInv
  <1>2. IInv /\ QuietInv => OpenCircuitIsQuiet
    <2> SUFFICES ASSUME IInv, QuietInv, openFor > 0
                 PROVE  strays <= UnderWay
      BY DEF OpenCircuitIsQuiet
    <2>1. strays \in Nat /\ openFor # 0
      BY DEF IInv, TypeOK
    <2>2. Cardinality(ToCome) \in Nat
      BY ToComeIsFinite DEF ToCome, Attempts
    <2>3. UnderWay \in Int
      BY ToComeIsFinite
    <2> QED
      BY ONLY <2>1, <2>2, <2>3, QuietInv DEF QuietInv
  <1> QED
    BY <1>1, <1>2, QuietStep, Invariance, PTL DEF Spec

=============================================================================
