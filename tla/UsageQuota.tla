----------------------------- MODULE UsageQuota -----------------------------
(***************************************************************************)
(* The free-tier counter of POST /api/usage (routes.rs, usage()): each     *)
(* request reads the user's row, decides on what it read and on the clock, *)
(* and then issues one statement, while other requests of the same user    *)
(* and the Stripe webhook change the row.  The statements are by user id,  *)
(* so one user's row is the whole state.                                   *)
(***************************************************************************)
EXTENDS Naturals, FiniteSets

CONSTANTS
  Workers,     \* HTTP worker threads serving requests of this user
  Limit,       \* FREE_USAGE_LIMIT
  Window,      \* USAGE_WINDOW_SECS
  Deadline,    \* no request takes longer: seconds against 30 days
  Expiries,    \* subscription end times the webhook may store; 0: not active
  MaxTime,     \* bound on the clock
  MaxMishaps   \* bound on failed statements and lost answers

Operations == {"check", "track"}

Steps == {"idle", "find", "decide", "reset", "consume"}

ASSUME QuotaAssumption ==
  /\ IsFiniteSet(Workers) /\ Workers # {}
  /\ Limit \in Nat
  /\ Deadline \in Nat
  /\ Window \in Nat /\ Window >= 3 * Deadline
  /\ Expiries \subseteq Nat
  /\ MaxTime \in Nat
  /\ MaxMishaps \in Nat

VARIABLES
  clock,        \* config::now_secs(); the first request comes at 1 or later
  usage_count,  \* Users.usage_count
  reset_at,     \* Users.usage_reset_at; 0 stands for NULL
  paidUntil,    \* when the active subscription expires; 0: none is active
  pc,           \* pc[w]: the next call of the handler on worker w
  op,           \* op[w]: the requested operation
  seen,         \* seen[w]: the row find_user returned
  since,        \* since[w]: the clock when the request arrived
  at,           \* at[w]: the clock when the handler decided to reset
  used,         \* history: units answered 200 since the last due reset
  mishaps       \* mishaps so far

row == <<usage_count, reset_at, paidUntil>>
handlerVars == <<pc, op, seen, since, at>>
vars == <<clock, usage_count, reset_at, paidUntil, pc, op, seen, since, at,
          used, mishaps>>

Rows == [reset_at : Nat, paidUntil : Nat]

NoRow == [reset_at |-> 0, paidUntil |-> 0]

Init ==
  /\ clock = 1
  /\ usage_count = 0
  /\ reset_at = 0
  /\ paidUntil = 0
  /\ pc = [w \in Workers |-> "idle"]
  /\ op = [w \in Workers |-> "check"]
  /\ seen = [w \in Workers |-> NoRow]
  /\ since = [w \in Workers |-> 0]
  /\ at = [w \in Workers |-> 0]
  /\ used = 0
  /\ mishaps = 0

Mishap == mishaps < MaxMishaps /\ mishaps' = mishaps + 1

\* Time passes, but no request outlives its deadline.
Tick ==
  /\ clock < MaxTime
  /\ \A w \in Workers : pc[w] # "idle" => clock < since[w] + Deadline
  /\ clock' = clock + 1
  /\ UNCHANGED <<row, handlerVars, used, mishaps>>

\* The webhook stores another subscription state.
SubscriptionChanges(e) ==
  /\ paidUntil' = e
  /\ UNCHANGED <<clock, usage_count, reset_at, handlerVars, used, mishaps>>

-----------------------------------------------------------------------------
(***************************************************************************)
(* The handler.                                                            *)
(***************************************************************************)

Goto(w, step) == pc' = [pc EXCEPT ![w] = step]

\* The handler answers and forgets the request.
Return(w) ==
  /\ pc' = [pc EXCEPT ![w] = "idle"]
  /\ op' = [op EXCEPT ![w] = "check"]
  /\ seen' = [seen EXCEPT ![w] = NoRow]
  /\ since' = [since EXCEPT ![w] = 0]
  /\ at' = [at EXCEPT ![w] = 0]

\* A request passes authentication, the CSRF check and the parsing of its body.
Receive(w, o) ==
  /\ pc[w] = "idle"
  /\ Goto(w, "find")
  /\ op' = [op EXCEPT ![w] = o]
  /\ since' = [since EXCEPT ![w] = clock]
  /\ UNCHANGED <<clock, row, seen, at, used, mishaps>>

FindUser(w) ==
  /\ pc[w] = "find"
  /\ Goto(w, "decide")
  /\ seen' = [seen EXCEPT ![w] = [reset_at |-> reset_at, paidUntil |-> paidUntil]]
  /\ UNCHANGED <<clock, row, op, since, at, used, mishaps>>

is_subscriber(w) == seen[w].paidUntil > clock

\* usage.reset_at.map(|r| now > r).unwrap_or(true)
WindowOver(r) == r = 0 \/ clock > r

\* Everything usage() decides on the row it read, before its one statement.
Decide(w) ==
  /\ pc[w] = "decide"
  /\ CASE is_subscriber(w) -> Return(w)
       [] ~is_subscriber(w) /\ op[w] = "track" /\ Limit < 1 -> Return(w)
       [] ~is_subscriber(w) /\ ~(op[w] = "track" /\ Limit < 1) ->
            IF WindowOver(seen[w].reset_at)
            THEN /\ Goto(w, "reset")
                 /\ at' = [at EXCEPT ![w] = clock]
                 /\ UNCHANGED <<op, seen, since>>
            ELSE IF op[w] = "track"
                 THEN Goto(w, "consume") /\ UNCHANGED <<op, seen, since, at>>
                 ELSE Return(w)
  /\ UNCHANGED <<clock, row, used, mishaps>>

\* The unit reaches the caller as a 200, or the answer is lost.  A reset that
\* is due starts a new count, any other goes on with the old one.
Grant(units, due) ==
  \/ used' = (IF due THEN 0 ELSE used) + units /\ UNCHANGED mishaps
  \/ used' = (IF due THEN 0 ELSE used) /\ units > 0 /\ Mishap

Tracked(w) == IF op[w] = "track" THEN 1 ELSE 0

\* Plausible bug: the window restarts without its first unit, which a later
\* statement was to add.
ResetWithoutConsuming(w) ==
  /\ pc[w] = "reset"
  /\ usage_count' = 0
  /\ reset_at' = at[w] + Window
  /\ Grant(Tracked(w), WindowOver(reset_at))
  /\ Return(w)
  /\ UNCHANGED <<clock, paidUntil>>

\* Plausible bug: the limit was checked before, and the UPDATE has no WHERE.
ConsumeUnchecked(w) ==
  /\ pc[w] = "consume"
  /\ usage_count' = usage_count + 1
  /\ Grant(1, FALSE)
  /\ Return(w)
  /\ UNCHANGED <<clock, reset_at, paidUntil>>

\* reset_usage_window: unconditional, whatever the row holds by now.
ResetUsageWindow(w) ==
  /\ pc[w] = "reset"
  /\ usage_count' = Tracked(w)
  /\ reset_at' = at[w] + Window
  /\ Grant(Tracked(w), WindowOver(reset_at))
  /\ Return(w)
  /\ UNCHANGED <<clock, paidUntil>>

\* consume_usage: the limit is in the WHERE clause of the UPDATE.
ConsumeUsage(w) ==
  /\ pc[w] = "consume"
  /\ usage_count < Limit
  /\ usage_count' = usage_count + 1
  /\ Grant(1, FALSE)
  /\ Return(w)
  /\ UNCHANGED <<clock, reset_at, paidUntil>>

\* consume_usage changes no row: 429.
LimitReached(w) ==
  /\ pc[w] = "consume"
  /\ usage_count >= Limit
  /\ Return(w)
  /\ UNCHANGED <<clock, row, used, mishaps>>

\* A statement fails and is rolled back: 500.  A crash looks the same here.
StatementFails(w) ==
  /\ pc[w] \in {"find", "reset", "consume"}
  /\ Mishap
  /\ Return(w)
  /\ UNCHANGED <<clock, row, used>>

Next ==
  \/ Tick
  \/ \E e \in Expiries : SubscriptionChanges(e)
  \/ \E w \in Workers, o \in Operations : Receive(w, o)
  \/ \E w \in Workers :
       \/ FindUser(w)
       \/ Decide(w)
       \/ ResetUsageWindow(w)
       \/ ConsumeUsage(w)
       \/ LimitReached(w)
       \/ StatementFails(w)

Spec == Init /\ [][Next]_vars

-----------------------------------------------------------------------------
(***************************************************************************)
(* Properties.                                                             *)
(***************************************************************************)

\* Every variable of the quota model has its type.
TypeOK ==
  /\ clock \in Nat
  /\ usage_count \in Nat
  /\ reset_at \in Nat
  /\ paidUntil \in Nat
  /\ pc \in [Workers -> Steps]
  /\ op \in [Workers -> Operations]
  /\ seen \in [Workers -> Rows]
  /\ since \in [Workers -> Nat]
  /\ at \in [Workers -> Nat]
  /\ used \in Nat
  /\ mishaps \in Nat

\* consume_usage(): "the check and the increment are a single atomic statement",
\* so the counter never passes the limit, however requests interleave and
\* whatever they read before.
CountWithinLimit == usage_count <= Limit

\* A tracking request restarts the window only if the limit admits at least one
\* unit: what makes CountWithinLimit inductive.
ResetAdmitted ==
  \A w \in Workers : pc[w] = "reset" /\ op[w] = "track" => Limit >= 1

CountInv == TypeOK /\ ResetAdmitted /\ CountWithinLimit

\* The price of the unconditional reset: each other request that found the window
\* over before it was reopened can grant the whole limit once more, and none can
\* do so twice.
Reopening(w) ==
  /\ ~WindowOver(reset_at)
  /\ \/ pc[w] = "reset"
     \/ pc[w] = "decide" /\ WindowOver(seen[w].reset_at)

Reopeners == {w \in Workers : Reopening(w)}

LeakIsBounded ==
  used + Limit * Cardinality(Reopeners)
    <= Limit * Cardinality(Workers)

-----------------------------------------------------------------------------
\* The inductive strengthening of LeakIsBounded.  First the clocks: a request is in
\* flight for no longer than Deadline, and decides in between.
ClockInv ==
  /\ reset_at <= clock + Window
  /\ \A w \in Workers :
       /\ pc[w] # "idle" => since[w] <= clock /\ clock <= since[w] + Deadline
       /\ pc[w] = "reset" => since[w] <= at[w] /\ at[w] <= clock

\* Who may reopen the window came before it was reopened; and who found it open will
\* not see that end out of date while the row has another.  Both need a window of three
\* deadlines: with a shorter one a request can read the row between two resets of one
\* window, and be late itself.
ReopenInv ==
  \A w \in Workers :
    /\ Reopening(w) => since[w] + Window <= reset_at + Deadline
    /\ pc[w] = "decide" /\ ~WindowOver(seen[w].reset_at) /\ seen[w].reset_at # reset_at
         => since[w] + Deadline <= seen[w].reset_at

\* What was granted beyond the counter was granted before a reset that another worker
\* issued, and who can still issue one has not yet.
SpentInv ==
  used + Limit * (Cardinality(Reopeners) + 1)
    <= usage_count + Limit * Cardinality(Workers)

LeakInv == CountInv /\ ClockInv /\ ReopenInv /\ SpentInv

=============================================================================
