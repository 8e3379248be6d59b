------------------------------ MODULE Webhook ------------------------------
(***************************************************************************)
(* The Stripe webhook of routes.rs: Stripe delivers events at least once   *)
(* and in any order, several HTTP workers handle deliveries at the same    *)
(* time, and every pool or Stripe call of a handler is a step of its own   *)
(* that may fail or be cut short by a crash.                               *)
(*                                                                         *)
(* A subscription's content (status and current_period_end) is named by    *)
(* its revision: timeline[s][r] is the status of revision r of s, and a    *)
(* row of Users holds [sub, rev].                                          *)
(***************************************************************************)
EXTENDS Naturals, Sequences

CONSTANTS
  Workers,        \* HTTP worker threads that may run the handler
  Users,          \* rows of Users; a buyer is signed in before checkout
  Subs,           \* subscriptions on the Stripe account
  OwnPlans,       \* those whose price is one of stripe_lookup_keys
  CustomerEmail,  \* CustomerEmail[s]: the user with the customer's email,
                  \* Unregistered, or NoEmail
  Unregistered,   \* an email no row of Users has
  NoEmail,        \* the Stripe customer has no email
  None,           \* the subscription columns are NULL
  NoEvent,        \* the worker is not handling an event
  PaidKinds,      \* the events Stripe may announce an activation with
  MaxRev,         \* bound: MaxRev[s] revisions of subscription s
  MaxMishaps      \* bound: failed calls, lost answers, duplicates, crashes
                  \* and clean-ups of old records

Statuses == {"incomplete", "active", "past_due", "canceled"}

\* "active" stands for both takeover statuses, active and trialing.
TAKEOVER_STATUSES == {"active"}

Kinds == {"subscription", "checkout", "invoice", "failed"}

Events == [sub : Subs, rev : Nat \ {0}, kind : Kinds]

Snapshots == [sub : Subs, rev : Nat \ {0}]

Steps == {"idle", "lookup", "retrieve", "email", "find", "update", "record"}

ASSUME WebhookAssumption ==
  /\ OwnPlans \subseteq Subs
  /\ CustomerEmail \in [Subs -> Users \cup {Unregistered, NoEmail}]
  /\ Unregistered \notin Users /\ NoEmail \notin Users
  /\ Unregistered # NoEmail
  /\ None \notin Snapshots
  /\ NoEvent \notin Events
  /\ PaidKinds \subseteq Kinds \ {"failed"}
  /\ MaxRev \in [Subs -> Nat]
  /\ MaxMishaps \in Nat

VARIABLES
  timeline,    \* Stripe: the statuses each subscription has had
  emitted,     \* Stripe: the events it has generated
  acked,       \* Stripe: the events answered 2xx, no longer retried
  stored,      \* database: Users.subscription_*
  recorded,    \* database: WebhookEvents
  pc,          \* pc[w]: the next call of the handler on worker w
  job,         \* job[w]: the event it is handling
  fetched,     \* fetched[w]: the revision retrieve_subscription returned
  settled,     \* history: newest revision of s written or found superseded
  overlapped,  \* history: users who paid for two subscriptions at once
  mishaps       \* mishaps so far

stripeVars == <<timeline, emitted, overlapped>>
handlerVars == <<pc, job, fetched>>
vars == <<timeline, emitted, acked, stored, recorded, pc, job, fetched,
          settled, overlapped, mishaps>>

Rev(s) == Len(timeline[s])

Bought == [u \in Users |-> {s \in OwnPlans : CustomerEmail[s] = u}]

Init ==
  /\ timeline = [s \in Subs |-> <<>>]
  /\ emitted = {}
  /\ acked = {}
  /\ stored = [u \in Users |-> None]
  /\ recorded = {}
  /\ pc = [w \in Workers |-> "idle"]
  /\ job = [w \in Workers |-> NoEvent]
  /\ fetched = [w \in Workers |-> 0]
  /\ settled = [s \in Subs |-> 0]
  /\ overlapped = {}
  /\ mishaps = 0

\* Something goes wrong, within the bound.
Mishap == mishaps < MaxMishaps /\ mishaps' = mishaps + 1

-----------------------------------------------------------------------------
(***************************************************************************)
(* Stripe.                                                                 *)
(***************************************************************************)

\* The statuses subscription s may move to; canceled is final.
Following(s) ==
  IF timeline[s] = <<>> THEN {"incomplete", "active"}
  ELSE CASE timeline[s][Rev(s)] = "incomplete" -> {"active", "canceled"}
         [] timeline[s][Rev(s)] = "active" -> {"active", "past_due", "canceled"}
         [] timeline[s][Rev(s)] = "past_due" -> {"active", "canceled"}
         [] OTHER -> {}

\* The events one change makes Stripe send.  Which of the events announcing a
\* payment arrives is left open: each of them alone has to be enough.
Announcements(st) ==
  CASE st = "active" -> {{k} : k \in PaidKinds}
    [] st = "past_due" -> {{"subscription"}, {"subscription", "failed"}}
    [] OTHER -> {{"subscription"}}

PaysAt(tl, s) == Len(tl[s]) > 0 /\ tl[s][Len(tl[s])] \in TAKEOVER_STATUSES

\* Subscription s changes (bought, paid, renewed, lapsed, canceled).
StripeChange(s, st, kinds) ==
  /\ Rev(s) < MaxRev[s]
  /\ timeline' = [timeline EXCEPT ![s] = Append(@, st)]
  /\ emitted' = emitted \cup
       {[sub |-> s, rev |-> Rev(s) + 1, kind |-> k] : k \in kinds}
  /\ overlapped' = overlapped \cup
       {u \in Users : \E a, b \in Bought[u] :
                        a # b /\ PaysAt(timeline', a) /\ PaysAt(timeline', b)}
  /\ UNCHANGED <<acked, stored, recorded, handlerVars, settled, mishaps>>

-----------------------------------------------------------------------------
(***************************************************************************)
(* The handler, payment() and process_webhook(): one action per call.      *)
(***************************************************************************)

Goto(w, step) == pc' = [pc EXCEPT ![w] = step]

\* The handler returns; its local state is gone.
Return(w) ==
  /\ pc' = [pc EXCEPT ![w] = "idle"]
  /\ job' = [job EXCEPT ![w] = NoEvent]
  /\ fetched' = [fetched EXCEPT ![w] = 0]

(***************************************************************************)
(* Plausible bugs.  No behaviour of Spec takes them: each replaces one     *)
(* definition below to show that a property can see it.                    *)
(***************************************************************************)

\* The handler trusts the subscription its event carries.
RevisionInEvent(w) == job[w].rev

\* Every subscription on the account is taken for this application's.
owns_every_subscription(s) == s \in Subs

\* Any subscription may replace the stored one.
never_superseded(w, current) == FALSE

\* A failed call is answered 200.
FailureAnswered200(w) ==
  /\ pc[w] \in {"lookup", "retrieve", "email", "find", "update"}
  /\ Mishap
  /\ Return(w)
  /\ acked' = acked \cup {job[w]}
  /\ UNCHANGED <<stripeVars, stored, recorded, settled>>

\* A failed call is answered 500, but the event is recorded all the same.
FailureRecorded(w) ==
  /\ pc[w] \in {"lookup", "retrieve", "email", "find", "update"}
  /\ Mishap
  /\ Return(w)
  /\ recorded' = recorded \cup {job[w]}
  /\ UNCHANGED <<stripeVars, acked, stored, settled>>

-----------------------------------------------------------------------------
\* The answer is 200 and Stripe receives it.
Ack(w) == Return(w) /\ acked' = acked \cup {job[w]} /\ UNCHANGED mishaps

\* The answer is 200 but never reaches Stripe, which will retry.
AckLost(w) == Return(w) /\ UNCHANGED acked /\ Mishap

InProgress(e) == \E w \in Workers : job[w] = e

\* A signed delivery passes the checks of payment() on a free worker.  Stripe
\* redelivers an event that is answered or still in progress only by mistake.
Deliver(w, e) ==
  /\ pc[w] = "idle"
  /\ IF e \in acked \/ InProgress(e) THEN Mishap ELSE UNCHANGED mishaps
  /\ Goto(w, "lookup")
  /\ job' = [job EXCEPT ![w] = e]
  /\ UNCHANGED <<stripeVars, acked, stored, recorded, fetched, settled>>

\* find_webhook_event: an event already recorded is answered 200 and skipped.
SkipRecorded(w) ==
  /\ pc[w] = "lookup"
  /\ job[w] \in recorded
  /\ Ack(w) \/ AckLost(w)
  /\ UNCHANGED <<stripeVars, stored, recorded, settled>>

\* find_webhook_event: Ok(None); invoice.payment_failed reads no subscription.
Process(w) ==
  /\ pc[w] = "lookup"
  /\ job[w] \notin recorded
  /\ Goto(w, IF job[w].kind = "failed" THEN "email" ELSE "retrieve")
  /\ UNCHANGED <<stripeVars, acked, stored, recorded, job, fetched, settled,
                 mishaps>>

\* What retrieve_subscription returns for the event: the revision of now.
CurrentRevision(w) == Rev(job[w].sub)

\* The price of s is one of stripe_lookup_keys.
owns_subscription(s) == s \in OwnPlans

\* retrieve_subscription, then owns_subscription: the subscription as it is
\* now.  A checkout event may carry the email, which spares the lookup.
RetrieveSubscription(w) ==
  /\ pc[w] = "retrieve"
  /\ fetched' = [fetched EXCEPT ![w] = CurrentRevision(w)]
  /\ IF ~owns_subscription(job[w].sub) THEN Goto(w, "record")
     ELSE \/ Goto(w, "email")
          \/ /\ job[w].kind = "checkout"
             /\ CustomerEmail[job[w].sub] # NoEmail
             /\ Goto(w, "find")
  /\ UNCHANGED <<stripeVars, acked, stored, recorded, job, settled, mishaps>>

\* resolve_customer_email: Ok(Some(email)).
ResolveCustomerEmail(w) ==
  /\ pc[w] = "email"
  /\ CustomerEmail[job[w].sub] # NoEmail
  /\ Goto(w, "find")
  /\ UNCHANGED <<stripeVars, acked, stored, recorded, job, fetched, settled,
                 mishaps>>

\* resolve_customer_email: Ok(None).  Only the customer.subscription events
\* refuse it with 400; the others have nothing to do.
CustomerHasNoEmail(w) ==
  /\ pc[w] = "email"
  /\ CustomerEmail[job[w].sub] = NoEmail
  /\ IF job[w].kind = "subscription" THEN Return(w)
     ELSE Goto(w, "record") /\ UNCHANGED <<job, fetched>>
  /\ UNCHANGED <<stripeVars, acked, stored, recorded, settled, mishaps>>

\* True when the fetched revision is of another, non-paying subscription than
\* the one in the row.
is_superseded(w, current) ==
  /\ current # None
  /\ current.sub # job[w].sub
  /\ timeline[job[w].sub][fetched[w]] \notin TAKEOVER_STATUSES

\* Revision r of s has been written, or judged and left alone.
Settle(s, r) ==
  settled' = [settled EXCEPT ![s] = IF @ < r THEN r ELSE @]

\* apply_sub_patch up to its decision: find_user, then is_superseded on the row
\* just read.  The write is a separate call on the pool.
FindUser(w) ==
  LET s == job[w].sub
      u == CustomerEmail[s]
  IN
  /\ pc[w] = "find"
  /\ IF job[w].kind = "failed" \/ u \notin Users
     THEN Goto(w, "record") /\ UNCHANGED settled
     ELSE IF is_superseded(w, stored[u])
          THEN Goto(w, "record") /\ Settle(s, fetched[w])
          ELSE Goto(w, "update") /\ UNCHANGED settled
  /\ UNCHANGED <<stripeVars, acked, stored, recorded, job, fetched, mishaps>>

\* update_user_subscription: the row takes the fetched revision, whatever it
\* holds by now.
UpdateUserSubscription(w) ==
  /\ pc[w] = "update"
  /\ stored' = [stored EXCEPT ![CustomerEmail[job[w].sub]] =
                  [sub |-> job[w].sub, rev |-> fetched[w]]]
  /\ Settle(job[w].sub, fetched[w])
  /\ Goto(w, "record")
  /\ UNCHANGED <<stripeVars, acked, recorded, job, fetched, mishaps>>

\* insert_webhook_event, then 200.  A duplicate key is an error like any other:
\* it is logged and the answer is still 200.
InsertWebhookEvent(w) ==
  /\ pc[w] = "record"
  /\ recorded' = recorded \cup {job[w]}
  /\ Ack(w) \/ AckLost(w)
  /\ UNCHANGED <<stripeVars, stored, settled>>

\* insert_webhook_event fails: logged, and the answer is still 200.
InsertFails(w) ==
  /\ pc[w] = "record"
  /\ Mishap
  /\ Return(w)
  /\ acked' = acked \cup {job[w]}
  /\ UNCHANGED <<stripeVars, stored, recorded, settled>>

\* A database or Stripe call fails: 500 (400 for the email of a
\* customer.subscription event), and the event is not recorded.
CallFails(w) ==
  /\ pc[w] \in {"lookup", "retrieve", "email", "find", "update"}
  /\ ~(pc[w] = "email" /\ job[w].kind = "failed")
  /\ Mishap
  /\ Return(w)
  /\ UNCHANGED <<stripeVars, acked, stored, recorded, settled>>

\* resolve_customer_email fails under invoice.payment_failed, which ignores it.
EmailFailureIgnored(w) ==
  /\ pc[w] = "email"
  /\ job[w].kind = "failed"
  /\ Mishap
  /\ Goto(w, "record")
  /\ UNCHANGED <<stripeVars, acked, stored, recorded, job, fetched, settled>>

\* The process dies and restarts: every handler is lost, SQLite is not.
Crash ==
  /\ \E w \in Workers : pc[w] # "idle"
  /\ Mishap
  /\ pc' = [w \in Workers |-> "idle"]
  /\ job' = [w \in Workers |-> NoEvent]
  /\ fetched' = [w \in Workers |-> 0]
  /\ UNCHANGED <<stripeVars, acked, stored, recorded, settled>>

\* run_webhook_cleanup: rows older than 30 days, long after Stripe's retries.
PruneWebhookEvent(e) ==
  /\ e \in acked
  /\ Mishap
  /\ recorded' = recorded \ {e}
  /\ UNCHANGED <<stripeVars, acked, stored, handlerVars, settled>>

-----------------------------------------------------------------------------
HandlerStep(w) ==
  \/ SkipRecorded(w)
  \/ Process(w)
  \/ RetrieveSubscription(w)
  \/ ResolveCustomerEmail(w)
  \/ CustomerHasNoEmail(w)
  \/ FindUser(w)
  \/ UpdateUserSubscription(w)
  \/ InsertWebhookEvent(w)

HandlerMishap(w) ==
  \/ InsertFails(w)
  \/ CallFails(w)
  \/ EmailFailureIgnored(w)

Next ==
  \/ \E s \in Subs : \E st \in Following(s) : \E kinds \in Announcements(st) :
       StripeChange(s, st, kinds)
  \/ \E w \in Workers, e \in emitted : Deliver(w, e)
  \/ \E w \in Workers : HandlerStep(w)
  \/ \E w \in Workers : HandlerMishap(w)
  \/ Crash
  \/ \E e \in recorded : PruneWebhookEvent(e)

Spec == Init /\ [][Next]_vars

(***************************************************************************)
(* A handler that has started runs to its end, and Stripe retries every    *)
(* event it has no 2xx for.  Nothing obliges Stripe to change anything.    *)
(***************************************************************************)
Fairness ==
  /\ \A w \in Workers : WF_vars(HandlerStep(w))
  /\ WF_vars(\E w \in Workers, e \in emitted \ acked : Deliver(w, e))

FairSpec == Spec /\ Fairness

-----------------------------------------------------------------------------
(***************************************************************************)
(* Properties.                                                             *)
(***************************************************************************)

\* Every variable of the webhook model has its type.
TypeOK ==
  /\ timeline \in [Subs -> Seq(Statuses)]
  /\ emitted \subseteq Events
  /\ acked \subseteq emitted
  /\ stored \in [Users -> Snapshots \cup {None}]
  /\ recorded \subseteq emitted
  /\ pc \in [Workers -> Steps]
  /\ job \in [Workers -> Events \cup {NoEvent}]
  /\ fetched \in [Workers -> Nat]
  /\ settled \in [Subs -> Nat]
  /\ overlapped \subseteq Users
  /\ mishaps \in Nat

\* Event e asks for nothing, or a revision at least as new as the one it
\* announces has been written to its user or found superseded.
Handled(e) ==
  \/ e.kind = "failed"
  \/ e.sub \notin OwnPlans
  \/ CustomerEmail[e.sub] \notin Users
  \/ settled[e.sub] >= e.rev

\* payment(): "the record can never claim an event was handled when it was not",
\* however handlers interleave, fail half-way or are cut short by a crash.
RecordedWasHandled == \A e \in recorded : Handled(e)

\* apply_sub_patch(): a failed write is answered 500 so that Stripe retries.  An
\* event Stripe will not retry has therefore been handled.
AckedWasHandled == \A e \in acked : Handled(e)

\* owns_subscription() and resolve_customer_email(): a row holds a revision that
\* Stripe really had, of a subscription to this application bought with the
\* email of that very user.
StoredWasBought ==
  \A u \in Users : stored[u] # None =>
    /\ stored[u].sub \in Bought[u]
    /\ stored[u].rev \in 1..Rev(stored[u].sub)

\* What the handlers know between two calls: the strengthening that makes the
\* three invariants above inductive.
EmittedIsPast == \A e \in emitted : e.rev <= Rev(e.sub)

JobInv(w) ==
  LET e == job[w]
  IN
  /\ pc[w] # "idle" => e \in emitted
  /\ pc[w] = "retrieve" => e.kind # "failed"
  /\ pc[w] \in {"email", "find", "update"} /\ e.kind # "failed" =>
       e.sub \in OwnPlans /\ fetched[w] \in e.rev..Rev(e.sub)
  /\ pc[w] = "update" => e.kind # "failed" /\ CustomerEmail[e.sub] \in Users
  /\ pc[w] = "record" => Handled(e)

IInv ==
  /\ TypeOK
  /\ EmittedIsPast
  /\ \A w \in Workers : JobInv(w)
  /\ RecordedWasHandled
  /\ AckedWasHandled
  /\ StoredWasBought

\* Stripe has nothing left to deliver and no handler is running.
Quiet == emitted \subseteq acked /\ \A w \in Workers : pc[w] = "idle"

UpToDate(u) ==
  /\ stored[u] # None => stored[u].rev = Rev(stored[u].sub)
  /\ stored[u] = None => \A s \in Bought[u] : timeline[s] = <<>>

\* payment(): an event applied twice, late or out of order does no harm, because
\* every write sets values just read from Stripe.  So once all is delivered,
\* what is stored of a subscription is what Stripe has of it now.
QuietIsUpToDate == Quiet => \A u \in Users : UpToDate(u)

\* is_superseded(): once all is delivered, a user who never paid for two
\* subscriptions at once and pays for one is stored as paying for it, whatever
\* came late from the subscriptions bought and abandoned before.
PayingIsServed ==
  Quiet => \A u \in Users \ overlapped : \A s \in Bought[u] :
             PaysAt(timeline, s) => stored[u] # None /\ stored[u].sub = s

\* The stored subscriptions follow Stripe as SubscriptionMirror promises.
Mirror == INSTANCE SubscriptionMirror WITH Takeover <- TAKEOVER_STATUSES

MirrorSpec == Mirror!MirrorSpec

\* payment() answers non-2xx until the event is handled and Stripe retries it:
\* whatever fails on the way, in the end every event is answered and every row
\* agrees with Stripe for good.
EventuallyUpToDate == <>[](Quiet /\ \A u \in Users : UpToDate(u))

=============================================================================
