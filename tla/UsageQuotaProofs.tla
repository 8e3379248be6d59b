-------------------------- MODULE UsageQuotaProofs --------------------------
(***************************************************************************)
(* The stored counter never passes the limit, and what the unconditional   *)
(* reset gives away beyond it is bounded: for any number of concurrent     *)
(* requests, any limit, and any window three requests long.                *)
(***************************************************************************)
EXTENDS UsageQuota, FiniteSetTheorems, TLAPS

USE QuotaAssumption

\* The count is within the limit on a new row.
LEMMA InitInv == Init => CountInv
  BY DEF Init, CountInv, TypeOK, ResetAdmitted, CountWithinLimit, Steps,
         Operations, Rows, NoRow

\* Returning leaves a well-formed idle worker.
LEMMA ReturnTypes ==
  ASSUME TypeOK, NEW w \in Workers, Return(w)
  PROVE  /\ pc' = [pc EXCEPT ![w] = "idle"]
         /\ pc' \in [Workers -> Steps]
         /\ op' \in [Workers -> Operations]
         /\ \A v \in Workers \ {w} : op'[v] = op[v]
         /\ seen' \in [Workers -> Rows]
         /\ since' \in [Workers -> Nat]
         /\ at' \in [Workers -> Nat]
  BY DEF TypeOK, Return, Steps, Operations, Rows, NoRow

\* A handler that returns keeps the invariant if it leaves a lawful counter.
LEMMA ReturnInv ==
  ASSUME CountInv, NEW w \in Workers, Return(w),
         usage_count' \in 0..Limit, reset_at' \in Nat, used' \in Nat,
         mishaps' \in Nat, UNCHANGED <<clock, paidUntil>>
  PROVE  CountInv'
  <1>1. TypeOK'
    BY ReturnTypes DEF CountInv, TypeOK
  <1>2. ResetAdmitted'
    BY ReturnTypes DEF CountInv, TypeOK, ResetAdmitted
  <1> QED
    BY <1>1, <1>2 DEF CountInv, CountWithinLimit

\* What Grant may do to the history.
LEMMA GrantTypes ==
  ASSUME TypeOK, NEW units \in Nat, NEW due \in BOOLEAN, Grant(units, due)
  PROVE  used' \in Nat /\ mishaps' \in Nat
  BY DEF Grant, Mishap, TypeOK

\* Choosing the statement writes nothing.
LEMMA DecideInv ==
  ASSUME CountInv, NEW w \in Workers, Decide(w)
  PROVE  CountInv'
  <1>1. /\ TypeOK /\ pc[w] = "decide"
        /\ UNCHANGED <<clock, usage_count, reset_at, paidUntil, used, mishaps>>
    BY DEF Decide, CountInv, row
  <1>2. CASE Return(w)
    BY <1>1, <1>2, ReturnInv DEF CountInv, CountWithinLimit, TypeOK
  <1>3. CASE /\ ~(op[w] = "track" /\ Limit < 1)
             /\ Goto(w, "reset")
             /\ at' = [at EXCEPT ![w] = clock]
             /\ UNCHANGED <<op, seen, since>>
    BY <1>1, <1>3 DEF Goto, CountInv, TypeOK, ResetAdmitted, CountWithinLimit, Steps
  <1>4. CASE Goto(w, "consume") /\ UNCHANGED <<op, seen, since, at>>
    BY <1>1, <1>4 DEF Goto, CountInv, TypeOK, ResetAdmitted, CountWithinLimit, Steps
  <1> QED
    BY <1>2, <1>3, <1>4 DEF Decide

\* However old the row it was chosen from, the statement keeps the count within the limit.
LEMMA StatementInv ==
  ASSUME CountInv, NEW w \in Workers,
         \/ ResetUsageWindow(w) \/ ConsumeUsage(w)
         \/ LimitReached(w) \/ StatementFails(w)
  PROVE  CountInv'
  <1>1. TypeOK /\ Limit \in Nat /\ usage_count <= Limit
    BY DEF CountInv, CountWithinLimit
  <1>2. CASE ResetUsageWindow(w)
    <2>1. Tracked(w) \in Nat /\ Tracked(w) <= Limit
      BY <1>1, <1>2 DEF Tracked, ResetUsageWindow, CountInv, ResetAdmitted
    <2>2. WindowOver(reset_at) \in BOOLEAN
      BY DEF WindowOver
    <2>3. used' \in Nat /\ mishaps' \in Nat
      BY <1>1, <1>2, <2>1, <2>2, GrantTypes DEF ResetUsageWindow
    <2>4. reset_at' \in Nat
      BY <1>1, <1>2 DEF ResetUsageWindow, TypeOK
    <2> QED
      BY <1>2, <2>1, <2>3, <2>4, ReturnInv DEF ResetUsageWindow
  <1>3. CASE ConsumeUsage(w)
    <2>1. used' \in Nat /\ mishaps' \in Nat
      BY <1>1, <1>3, GrantTypes DEF ConsumeUsage
    <2>2. usage_count' \in 0..Limit
      BY <1>1, <1>3 DEF ConsumeUsage, TypeOK
    <2> QED
      BY <1>1, <1>3, <2>1, <2>2, ReturnInv DEF ConsumeUsage, TypeOK
  <1>4. CASE LimitReached(w)
    BY <1>1, <1>4, ReturnInv DEF LimitReached, TypeOK, row
  <1>5. CASE StatementFails(w)
    BY <1>1, <1>5, ReturnInv DEF StatementFails, Mishap, TypeOK, row
  <1> QED
    BY <1>2, <1>3, <1>4, <1>5

\* Every step keeps the count within the limit.
THEOREM CountStep == CountInv /\ [Next]_vars => CountInv'
  <1> SUFFICES ASSUME CountInv, [Next]_vars PROVE CountInv'
    OBVIOUS
  <1>1. CASE Tick
    BY <1>1 DEF Tick, row, handlerVars, CountInv, TypeOK, ResetAdmitted,
                CountWithinLimit
  <1>2. ASSUME NEW e \in Expiries, SubscriptionChanges(e) PROVE CountInv'
    BY <1>2 DEF SubscriptionChanges, handlerVars, CountInv, TypeOK, ResetAdmitted,
                CountWithinLimit
  <1>3. ASSUME NEW w \in Workers, NEW o \in Operations, Receive(w, o) PROVE CountInv'
    BY <1>3 DEF Receive, Goto, row, CountInv, TypeOK, ResetAdmitted,
                CountWithinLimit, Steps
  <1>4. ASSUME NEW w \in Workers, FindUser(w) PROVE CountInv'
    BY <1>4 DEF FindUser, Goto, row, CountInv, TypeOK, ResetAdmitted,
                CountWithinLimit, Steps, Rows
  <1>5. ASSUME NEW w \in Workers, Decide(w) PROVE CountInv'
    BY <1>5, DecideInv
  <1>6. ASSUME NEW w \in Workers,
               \/ ResetUsageWindow(w) \/ ConsumeUsage(w)
               \/ LimitReached(w) \/ StatementFails(w)
        PROVE  CountInv'
    BY <1>6, StatementInv
  <1>7. CASE UNCHANGED vars
    BY <1>7 DEF vars, CountInv, TypeOK, ResetAdmitted, CountWithinLimit
  <1> QED
    BY <1>1, <1>2, <1>3, <1>4, <1>5, <1>6, <1>7 DEF Next

\* consume_usage() and reset_usage_window(): the counter stays within the limit,
\* however many requests run at once and however old the rows they read are.
THEOREM CounterIsCapped == Spec => []CountWithinLimit
  <1>1. CountInv => CountWithinLimit
    BY DEF CountInv
  <1> QED
    BY <1>1, InitInv, CountStep, PTL DEF Spec

\* The quota model keeps its types.
THEOREM QuotaTypeCorrect == Spec => []TypeOK
  <1>1. CountInv => TypeOK
    BY DEF CountInv
  <1> QED
    BY <1>1, InitInv, CountStep, PTL DEF Spec

-----------------------------------------------------------------------------
(***************************************************************************)
(* The leak.                                                               *)
(***************************************************************************)

\* Sets of workers can be counted, and a smaller set has no more members.
LEMMA WorkersCount ==
  /\ Cardinality(Workers) \in Nat /\ Cardinality(Workers) >= 1
  /\ \A S \in SUBSET Workers :
       /\ Cardinality(S) \in Nat
       /\ \A T \in SUBSET S : Cardinality(T) <= Cardinality(S)
       /\ \A w \in S : \A T \in SUBSET (S \ {w}) : Cardinality(T) + 1 <= Cardinality(S)
  <1>1. ASSUME NEW S \in SUBSET Workers PROVE IsFiniteSet(S) /\ Cardinality(S) \in Nat
    BY FS_Subset, FS_CardinalityType
  <1>2. Cardinality(Workers) \in Nat /\ Cardinality(Workers) # 0
    BY <1>1, FS_EmptySet
  <1>3. ASSUME NEW S \in SUBSET Workers, NEW T \in SUBSET S
        PROVE  Cardinality(T) <= Cardinality(S)
    BY <1>1, FS_Subset
  <1>4. ASSUME NEW S \in SUBSET Workers, NEW w \in S, NEW T \in SUBSET (S \ {w})
        PROVE  Cardinality(T) + 1 <= Cardinality(S)
    <2>1. Cardinality(S \ {w}) = Cardinality(S) - 1
      BY <1>1, FS_RemoveElement
    <2>2. S \ {w} \in SUBSET Workers /\ T \in SUBSET Workers
      OBVIOUS
    <2>3. Cardinality(T) <= Cardinality(S \ {w})
      BY <1>3, <2>2
    <2> QED
      BY <1>1, <2>1, <2>2, <2>3
  <1> QED
    BY <1>1, <1>2, <1>3, <1>4

\* Fewer resets to come cost less.
LEMMA Costs ==
  ASSUME NEW m \in Nat, NEW n \in Nat
  PROVE  /\ Limit * m \in Nat
         /\ m <= n => Limit * m <= Limit * n
         /\ Limit * (m + 1) = Limit * m + Limit
  OBVIOUS

\* Nothing is admitted yet, so nothing has leaked.
LEMMA LeakInit == Init => LeakInv
  <1> SUFFICES ASSUME Init PROVE LeakInv
    OBVIOUS
  <1>1. CountInv
    BY InitInv
  <1>2. ClockInv /\ ReopenInv /\ Reopeners = {}
    BY DEF Init, ClockInv, ReopenInv, Reopeners, Reopening, WindowOver
  <1>3. SpentInv
    <2>1. Cardinality(Reopeners) = 0
      BY <1>2, FS_EmptySet
    <2>2. Limit * (0 + 1) <= Limit * Cardinality(Workers)
      BY Costs, WorkersCount
    <2> QED
      BY <2>1, <2>2, WorkersCount, Costs DEF Init, SpentInv
  <1> QED
    BY <1>1, <1>2, <1>3 DEF LeakInv

\* A step after which no more workers can reopen the window, and which takes what it
\* grants from the counter, keeps the balance.
LEMMA SpentStays ==
  ASSUME LeakInv, TypeOK', Reopeners' \subseteq Reopeners,
         used' + usage_count <= used + usage_count'
  PROVE  SpentInv'
  <1> DEFINE k == Cardinality(Reopeners)  m == Cardinality(Reopeners')
             n == Cardinality(Workers)
  <1>1. k \in Nat /\ m \in Nat /\ m <= k /\ n \in Nat
    BY WorkersCount DEF Reopeners
  <1>2. Limit * (m + 1) <= Limit * (k + 1) /\ Limit * (m + 1) \in Nat
        /\ Limit * (k + 1) \in Nat /\ Limit * n \in Nat
    BY <1>1, Costs
  <1>3. used + Limit * (k + 1) <= usage_count + Limit * n
    BY DEF LeakInv, SpentInv
  <1>4. {used, usage_count, used', usage_count'} \subseteq Nat
    BY DEF LeakInv, CountInv, TypeOK
  <1>5. used' + Limit * (m + 1) <= usage_count' + Limit * n
    BY <1>2, <1>3, <1>4
  <1> QED
    BY <1>5 DEF SpentInv

\* A worker that moves on without touching the row.
LEMMA QuietLeak ==
  ASSUME LeakInv, CountInv', NEW w \in Workers,
         UNCHANGED <<clock, reset_at>>,
         \A v \in Workers \ {w} :
           pc'[v] = pc[v] /\ seen'[v] = seen[v] /\ since'[v] = since[v] /\ at'[v] = at[v],
         pc'[w] # "idle" => since'[w] <= clock /\ clock <= since'[w] + Deadline,
         pc'[w] = "reset" =>
           /\ pc[w] = "decide" /\ WindowOver(seen[w].reset_at)
           /\ since'[w] = since[w] /\ at'[w] = clock,
         pc'[w] = "decide" => seen'[w].reset_at = reset_at,
         used' + usage_count <= used + usage_count'
  PROVE  LeakInv'
  <1>1. ClockInv'
    BY DEF LeakInv, ClockInv, CountInv, TypeOK
  <1>2. Reopeners' \subseteq Reopeners
    BY DEF Reopeners, Reopening, WindowOver
  <1>3. ReopenInv'
    <2> SUFFICES ASSUME NEW v \in Workers
                 PROVE  /\ Reopening(v)' => since'[v] + Window <= reset_at' + Deadline
                        /\ pc'[v] = "decide" /\ ~WindowOver(seen[v].reset_at)'
                             /\ seen'[v].reset_at # reset_at'
                             => since'[v] + Deadline <= seen'[v].reset_at
      BY DEF ReopenInv
    <2>1. CASE v = w
      BY <2>1 DEF LeakInv, ReopenInv, Reopening, WindowOver
    <2>2. CASE v # w
      BY <2>2 DEF LeakInv, ReopenInv, Reopening, WindowOver
    <2> QED
      BY <2>1, <2>2
  <1>4. SpentInv'
    BY <1>2, SpentStays DEF CountInv
  <1> QED
    BY <1>1, <1>3, <1>4 DEF LeakInv

\* Nobody becomes able to reopen the window by waiting.
LEMMA TickLeak ==
  ASSUME LeakInv, CountInv', Tick
  PROVE  LeakInv'
  <1> USE DEF Tick, row, handlerVars
  <1>1. TypeOK /\ ClockInv /\ ReopenInv
    BY DEF LeakInv, CountInv
  <1>2. ClockInv'
    BY <1>1 DEF ClockInv, TypeOK
  <1>3. ASSUME NEW v \in Workers
        PROVE  /\ seen[v].reset_at \in Nat /\ since[v] \in Nat /\ reset_at \in Nat /\ clock \in Nat
               /\ WindowOver(seen[v].reset_at) => WindowOver(seen[v].reset_at)'
               /\ WindowOver(reset_at) => WindowOver(reset_at)'
    BY <1>1 DEF TypeOK, Rows, WindowOver
  <1>4. ASSUME NEW v \in Workers, Reopening(v)' PROVE Reopening(v)
    <2>1. ~WindowOver(reset_at) /\ reset_at # 0 /\ clock + 1 <= reset_at
      BY <1>3, <1>4 DEF Reopening, WindowOver
    <2>2. CASE pc[v] = "reset"
      BY <2>1, <2>2 DEF Reopening
    <2>3. CASE pc[v] = "decide" /\ ~WindowOver(seen[v].reset_at)
      <3>1. seen[v].reset_at = clock
        BY <1>3, <1>4, <2>3 DEF Reopening, WindowOver
      <3>2. since[v] + Deadline <= clock
        BY <1>1, <2>1, <2>3, <3>1, <1>3 DEF ReopenInv
      <3> QED
        BY <2>3, <3>2, <1>3
    <2> QED
      BY <1>4, <2>1, <2>2, <2>3 DEF Reopening
  <1>5. ReopenInv'
    BY <1>1, <1>3, <1>4 DEF ReopenInv
  <1>6. SpentInv'
    <2>1. Reopeners' \subseteq Reopeners
      BY <1>4 DEF Reopeners
    <2> QED
      BY <2>1, SpentStays DEF CountInv, TypeOK
  <1> QED
    BY <1>2, <1>5, <1>6 DEF LeakInv

\* The clocks at a reset: the request that issues it decided not long ago, so the window
\* it opens is open, and whoever is in flight arrived before that reset ends.
LEMMA ResetTimes ==
  ASSUME LeakInv, CountInv', NEW w \in Workers, ResetUsageWindow(w)
  PROVE  ClockInv' /\ ReopenInv'
  <1>1. TypeOK /\ ClockInv /\ ReopenInv
    BY DEF LeakInv, CountInv
  <1>2. /\ pc[w] = "reset" /\ reset_at' = at[w] + Window /\ clock' = clock
        /\ pc'[w] = "idle"
        /\ \A v \in Workers \ {w} :
             pc'[v] = pc[v] /\ seen'[v] = seen[v] /\ since'[v] = since[v] /\ at'[v] = at[v]
    BY <1>1 DEF ResetUsageWindow, Return, TypeOK
  <1>3. /\ at[w] \in Nat /\ since[w] \in Nat /\ clock \in Nat /\ reset_at \in Nat
        /\ since[w] <= at[w] /\ at[w] <= clock /\ clock <= since[w] + Deadline
    BY <1>1, <1>2 DEF ClockInv, TypeOK
  <1>4. ClockInv'
    BY <1>1, <1>2, <1>3 DEF ClockInv
  <1>5. ASSUME NEW v \in Workers, v # w
        PROVE  /\ Reopening(v)' => since[v] + Window <= reset_at' + Deadline
               /\ pc[v] = "decide" /\ ~WindowOver(seen[v].reset_at)
                    /\ seen[v].reset_at # reset_at'
                    => since[v] + Deadline <= seen[v].reset_at
    <2>1. seen[v].reset_at \in Nat /\ since[v] \in Nat
      BY <1>1 DEF TypeOK, Rows
    <2>2. pc[v] # "idle" => since[v] <= clock /\ clock <= since[v] + Deadline
      BY <1>1 DEF ClockInv
    <2>3. Reopening(v)' => since[v] + Window <= reset_at' + Deadline
      BY <1>2, <1>3, <1>5, <2>1, <2>2 DEF Reopening
    <2>4. ASSUME pc[v] = "decide", ~WindowOver(seen[v].reset_at), seen[v].reset_at = reset_at
          PROVE  since[v] + Deadline <= seen[v].reset_at
      <3>1. Reopening(w)
        BY <1>2, <2>4 DEF Reopening
      <3>2. since[w] + Window <= reset_at + Deadline
        BY <1>1, <3>1 DEF ReopenInv
      <3> QED
        BY <1>3, <2>1, <2>2, <2>4, <3>2
    <2> QED
      BY <1>1, <2>3, <2>4 DEF ReopenInv
  <1>6. ReopenInv'
    <2> SUFFICES ASSUME NEW v \in Workers
                 PROVE  /\ Reopening(v)' => since'[v] + Window <= reset_at' + Deadline
                        /\ pc'[v] = "decide" /\ ~WindowOver(seen[v].reset_at)'
                             /\ seen'[v].reset_at # reset_at'
                             => since'[v] + Deadline <= seen'[v].reset_at
      BY DEF ReopenInv
    <2>1. CASE v = w
      BY <1>2, <2>1 DEF Reopening
    <2>2. CASE v # w
      BY <1>2, <1>5, <2>2 DEF WindowOver
    <2> QED
      BY <2>1, <2>2
  <1> QED
    BY <1>4, <1>6

\* A reset that is due starts a new balance: each other worker may issue one more.  One
\* that is not uses up the worker's own.
LEMMA ResetSpent ==
  ASSUME LeakInv, CountInv', NEW w \in Workers, ResetUsageWindow(w)
  PROVE  SpentInv'
  <1> DEFINE k == Cardinality(Reopeners)  m == Cardinality(Reopeners')
             n == Cardinality(Workers)
  <1>1. TypeOK /\ pc[w] = "reset"
    BY DEF LeakInv, CountInv, ResetUsageWindow
  <1>2. /\ clock' = clock /\ pc'[w] = "idle"
        /\ \A v \in Workers \ {w} : pc'[v] = pc[v] /\ seen'[v] = seen[v]
    BY <1>1 DEF ResetUsageWindow, Return, TypeOK
  <1>3. /\ {used, usage_count, used', usage_count'} \subseteq Nat
        /\ usage_count <= Limit /\ usage_count' = Tracked(w) /\ Tracked(w) \in {0, 1}
        /\ used + Limit * (k + 1) <= usage_count + Limit * n
    BY DEF LeakInv, CountInv, TypeOK, CountWithinLimit, SpentInv, ResetUsageWindow, Tracked
  <1>4. k \in Nat /\ m \in Nat /\ n \in Nat /\ n >= 1
    BY WorkersCount DEF Reopeners
  <1>5. CASE WindowOver(reset_at)
    <2>1. used' <= usage_count'
      BY <1>3, <1>5 DEF ResetUsageWindow, Grant
    <2>2. Reopeners' \subseteq Workers \ {w}
      BY <1>2 DEF Reopeners, Reopening
    <2>3. m + 1 <= n
      BY <2>2, WorkersCount
    <2>4. Limit * (m + 1) <= Limit * n /\ Limit * (m + 1) \in Nat /\ Limit * n \in Nat
      BY <1>4, <2>3, Costs
    <2>5. used' + Limit * (m + 1) <= usage_count' + Limit * n
      BY <1>3, <2>1, <2>4
    <2> QED
      BY <2>5 DEF SpentInv
  <1>6. CASE ~WindowOver(reset_at)
    <2>1. used' <= used + usage_count'
      BY <1>3, <1>6 DEF ResetUsageWindow, Grant
    <2>2. w \in Reopeners /\ Reopeners' \subseteq Reopeners \ {w}
      BY <1>1, <1>2, <1>6 DEF Reopeners, Reopening, WindowOver
    <2>3. m + 1 <= k
      <3>1. Reopeners \in SUBSET Workers /\ Reopeners' \in SUBSET (Reopeners \ {w})
        BY <2>2 DEF Reopeners
      <3> QED
        BY <2>2, <3>1, WorkersCount
    <2>4. /\ Limit * (m + 1) <= Limit * k /\ Limit * (k + 1) = Limit * k + Limit
          /\ Limit * (m + 1) \in Nat /\ Limit * k \in Nat /\ Limit * n \in Nat
      BY <1>4, <2>3, Costs
    <2>5. used' + Limit * (m + 1) <= usage_count' + Limit * n
      BY <1>3, <2>1, <2>4
    <2> QED
      BY <2>5 DEF SpentInv
  <1> QED
    BY <1>5, <1>6

\* Every other step of a handler leaves reset_at alone.
LEMMA HandlerLeak ==
  ASSUME LeakInv, CountInv', NEW w \in Workers,
         \/ \E o \in Operations : Receive(w, o)
         \/ FindUser(w) \/ Decide(w) \/ ConsumeUsage(w) \/ LimitReached(w) \/ StatementFails(w)
  PROVE  LeakInv'
  <1>1. TypeOK /\ ClockInv
    BY DEF LeakInv, CountInv
  <1>2. {used, usage_count, mishaps, clock} \subseteq Nat
    BY <1>1 DEF TypeOK
  <1>3. ASSUME NEW o \in Operations, Receive(w, o) PROVE LeakInv'
    <2>1. /\ UNCHANGED <<clock, reset_at, used, usage_count>>
          /\ pc'[w] = "find" /\ since'[w] = clock
          /\ \A v \in Workers \ {w} :
               pc'[v] = pc[v] /\ seen'[v] = seen[v] /\ since'[v] = since[v] /\ at'[v] = at[v]
      BY <1>1, <1>3 DEF Receive, Goto, row, TypeOK
    <2> QED
      BY <1>2, <2>1, QuietLeak
  <1>4. CASE FindUser(w)
    <2>1. /\ UNCHANGED <<clock, reset_at, used, usage_count>>
          /\ pc[w] = "find" /\ pc'[w] = "decide" /\ since'[w] = since[w]
          /\ seen'[w].reset_at = reset_at
          /\ \A v \in Workers \ {w} :
               pc'[v] = pc[v] /\ seen'[v] = seen[v] /\ since'[v] = since[v] /\ at'[v] = at[v]
      BY <1>1, <1>4 DEF FindUser, Goto, row, TypeOK
    <2>2. since'[w] <= clock /\ clock <= since'[w] + Deadline
      BY <1>1, <2>1 DEF ClockInv
    <2> QED
      BY <1>2, <2>1, <2>2, QuietLeak
  <1>5. CASE Decide(w)
    <2>1. UNCHANGED <<clock, reset_at, used, usage_count>> /\ pc[w] = "decide"
      BY <1>5 DEF Decide, row
    <2>2. CASE Return(w)
      <3>1. /\ pc'[w] = "idle"
            /\ \A v \in Workers \ {w} :
                 pc'[v] = pc[v] /\ seen'[v] = seen[v] /\ since'[v] = since[v] /\ at'[v] = at[v]
        BY <1>1, <2>2 DEF Return, TypeOK
      <3> QED
        BY <1>2, <2>1, <3>1, QuietLeak
    <2>3. CASE /\ WindowOver(seen[w].reset_at)
               /\ Goto(w, "reset") /\ at' = [at EXCEPT ![w] = clock]
               /\ UNCHANGED <<op, seen, since>>
      <3>1. /\ pc'[w] = "reset" /\ at'[w] = clock /\ since'[w] = since[w]
            /\ \A v \in Workers \ {w} :
                 pc'[v] = pc[v] /\ seen'[v] = seen[v] /\ since'[v] = since[v] /\ at'[v] = at[v]
        BY <1>1, <2>3 DEF Goto, TypeOK
      <3>2. since'[w] <= clock /\ clock <= since'[w] + Deadline
        BY <1>1, <2>1, <3>1 DEF ClockInv
      <3> QED
        BY <1>2, <2>1, <2>3, <3>1, <3>2, QuietLeak
    <2>4. CASE Goto(w, "consume") /\ UNCHANGED <<op, seen, since, at>>
      <3>1. /\ pc'[w] = "consume" /\ since'[w] = since[w]
            /\ \A v \in Workers \ {w} :
                 pc'[v] = pc[v] /\ seen'[v] = seen[v] /\ since'[v] = since[v] /\ at'[v] = at[v]
        BY <1>1, <2>4 DEF Goto, TypeOK
      <3>2. since'[w] <= clock /\ clock <= since'[w] + Deadline
        BY <1>1, <2>1, <3>1 DEF ClockInv
      <3> QED
        BY <1>2, <2>1, <3>1, <3>2, QuietLeak
    <2> QED
      BY <1>5, <2>2, <2>3, <2>4 DEF Decide
  <1>6. CASE ConsumeUsage(w) \/ LimitReached(w) \/ StatementFails(w)
    <2>1. /\ UNCHANGED <<clock, reset_at>> /\ pc'[w] = "idle"
          /\ \A v \in Workers \ {w} :
               pc'[v] = pc[v] /\ seen'[v] = seen[v] /\ since'[v] = since[v] /\ at'[v] = at[v]
      BY <1>1, <1>6 DEF ConsumeUsage, LimitReached, StatementFails, Return, row, TypeOK
    <2>2. used' + usage_count <= used + usage_count'
      BY <1>2, <1>6 DEF ConsumeUsage, LimitReached, StatementFails, Grant, row
    <2> QED
      BY <2>1, <2>2, QuietLeak
  <1> QED
    BY <1>3, <1>4, <1>5, <1>6

\* Every step keeps the account of who may still reset an ended window.
LEMMA LeakStep == LeakInv /\ [Next]_vars => LeakInv'
  <1> SUFFICES ASSUME LeakInv, [Next]_vars PROVE LeakInv'
    OBVIOUS
  <1>1. CountInv'
    BY CountStep DEF LeakInv
  <1>2. CASE Tick
    BY <1>1, <1>2, TickLeak
  <1>3. CASE \/ \E e \in Expiries : SubscriptionChanges(e)
             \/ UNCHANGED vars
    <2>1. UNCHANGED <<clock, usage_count, reset_at, handlerVars, used>>
      BY <1>3 DEF SubscriptionChanges, vars, handlerVars
    <2> QED
      BY <1>1, <2>1 DEF LeakInv, ClockInv, ReopenInv, SpentInv, Reopeners, Reopening,
                        WindowOver, handlerVars
  <1>4. ASSUME NEW w \in Workers, ResetUsageWindow(w) PROVE LeakInv'
    BY <1>1, <1>4, ResetTimes, ResetSpent DEF LeakInv
  <1>5. ASSUME NEW w \in Workers,
               \/ \E o \in Operations : Receive(w, o)
               \/ FindUser(w) \/ Decide(w) \/ ConsumeUsage(w) \/ LimitReached(w)
               \/ StatementFails(w)
        PROVE  LeakInv'
    BY <1>1, <1>5, HandlerLeak
  <1> QED
    BY <1>2, <1>3, <1>4, <1>5 DEF Next

\* reset_usage_window() is unconditional, and yet the units answered 200 since the last
\* reset that was due stay within one limit for each worker, less one for each that can
\* still reset: for any number of workers and any limit, if no request is in flight for
\* more than a third of the window.
THEOREM LeakStaysBounded == Spec => []LeakIsBounded
  <1>1. LeakInv => LeakIsBounded
    <2> SUFFICES ASSUME LeakInv PROVE LeakIsBounded
      OBVIOUS
    <2> DEFINE k == Cardinality(Reopeners)  n == Cardinality(Workers)
    <2>1. k \in Nat /\ n \in Nat
      BY WorkersCount DEF Reopeners
    <2>2. Limit * (k + 1) = Limit * k + Limit /\ Limit * k \in Nat /\ Limit * n \in Nat
      BY <2>1, Costs
    <2>3. /\ used \in Nat /\ usage_count \in Nat /\ usage_count <= Limit
          /\ used + Limit * (k + 1) <= usage_count + Limit * n
      BY DEF LeakInv, CountInv, TypeOK, CountWithinLimit, SpentInv
    <2>4. used + Limit * k <= Limit * n
      BY <2>2, <2>3
    <2> QED
      BY <2>4 DEF LeakIsBounded
  <1> QED
    BY <1>1, LeakInit, LeakStep, PTL DEF Spec

=============================================================================
