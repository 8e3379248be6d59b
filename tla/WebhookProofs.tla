--------------------------- MODULE WebhookProofs ---------------------------
(***************************************************************************)
(* Theorems about Webhook, for any number of workers, users, subscriptions *)
(* and revisions: the invariants hold whatever the handlers' interleaving. *)
(***************************************************************************)
EXTENDS Webhook, TLAPS

\* Neither sentinel can be mistaken for the value it stands in for, and an email
\* that is not missing is that of a user or of nobody.
LEMMA Constants ==
  /\ None \notin Snapshots
  /\ NoEvent \notin Events
  /\ OwnPlans \subseteq Subs
  /\ \A s \in Subs : CustomerEmail[s] \in Users \cup {Unregistered, NoEmail}
  /\ MaxMishaps \in Nat
  BY WebhookAssumption

\* A history only grows, and what it says of a past revision never changes.
LEMMA TimelineGrows ==
  ASSUME TypeOK, NEW s \in Subs, NEW st \in Statuses,
         timeline' = [timeline EXCEPT ![s] = Append(@, st)],
         NEW a \in Subs
  PROVE  /\ timeline' \in [Subs -> Seq(Statuses)]
         /\ Rev(a) \in Nat /\ Rev(a)' \in Nat
         /\ Rev(a) <= Rev(a)'
         /\ Rev(s)' = Rev(s) + 1
         /\ \A r \in 1..Rev(a) : timeline'[a][r] = timeline[a][r]
  <1>1. timeline[s] \in Seq(Statuses) /\ timeline[a] \in Seq(Statuses)
    BY DEF TypeOK
  <1>2. timeline' \in [Subs -> Seq(Statuses)]
    BY <1>1 DEF TypeOK
  <1>3. timeline'[s] = Append(timeline[s], st)
    BY DEF TypeOK
  <1>4. CASE a = s
    BY <1>1, <1>2, <1>3, <1>4 DEF Rev
  <1>5. CASE a # s
    <2>1. timeline'[a] = timeline[a]
      BY <1>5 DEF TypeOK
    <2> QED
      BY <1>1, <1>2, <1>3, <2>1 DEF Rev
  <1> QED
    BY <1>4, <1>5

\* The statuses Stripe may move a subscription to are statuses, and it announces
\* them with events this model knows.
LEMMA StripeTypes ==
  ASSUME NEW s \in Subs, NEW st \in Following(s), NEW kinds \in Announcements(st)
  PROVE  st \in Statuses /\ kinds \subseteq Kinds
  <1>1. st \in Statuses
    BY DEF Following, Statuses
  <1>2. PaidKinds \subseteq Kinds
    BY WebhookAssumption
  <1> QED
    BY <1>1, <1>2 DEF Announcements, Statuses, Kinds

\* settled never decreases.
SettledGrows ==
  /\ settled' \in [Subs -> Nat]
  /\ \A s \in Subs : settled[s] <= settled'[s]

\* Settle raises settled[s] to at least r and lowers nothing.
LEMMA SettleGrows ==
  ASSUME TypeOK, NEW s \in Subs, NEW r \in Nat, Settle(s, r)
  PROVE  SettledGrows /\ settled'[s] >= r
  <1>1. settled \in [Subs -> Nat]
    BY DEF TypeOK
  <1>2. settled' = [settled EXCEPT ![s] = IF settled[s] < r THEN r ELSE settled[s]]
    BY DEF Settle
  <1>3. settled[s] \in Nat
    BY <1>1
  <1> QED
    BY <1>1, <1>2, <1>3 DEF SettledGrows

\* Once handled, an event stays handled.
LEMMA HandledStays ==
  ASSUME TypeOK, SettledGrows, NEW e \in Events, Handled(e)
  PROVE  Handled(e)'
  <1>1. e.sub \in Subs /\ e.rev \in Nat
    BY DEF Events
  <1>2. settled[e.sub] \in Nat /\ settled'[e.sub] \in Nat
    BY <1>1 DEF TypeOK, SettledGrows
  <1>3. settled[e.sub] <= settled'[e.sub]
    BY <1>1 DEF SettledGrows
  <1> QED
    BY <1>1, <1>2, <1>3 DEF Handled

\* A step that leaves settled alone makes nothing in it smaller.
LEMMA SettledSame ==
  ASSUME TypeOK, UNCHANGED settled
  PROVE  SettledGrows
  BY DEF SettledGrows, TypeOK

\* A handler that does not move keeps what it knows while the rest of the system
\* moves on: histories and settled revisions only grow.
LEMMA JobStays ==
  ASSUME TypeOK, NEW w \in Workers, JobInv(w), SettledGrows,
         emitted \subseteq emitted',
         \A s \in Subs : Rev(s) \in Nat /\ Rev(s)' \in Nat /\ Rev(s) <= Rev(s)',
         pc'[w] = pc[w], job'[w] = job[w], fetched'[w] = fetched[w]
  PROVE  JobInv(w)'
  <1>1. CASE pc[w] = "idle"
    BY <1>1 DEF JobInv
  <1>2. CASE pc[w] # "idle"
    <2>1. job[w] \in Events /\ job[w].sub \in Subs /\ job[w].rev \in Nat
      BY <1>2 DEF JobInv, TypeOK, Events
    <2>2. Handled(job[w]) => Handled(job[w])'
      BY <2>1, HandledStays
    <2>3. fetched[w] \in job[w].rev..Rev(job[w].sub) =>
            fetched[w] \in job[w].rev..Rev(job[w].sub)'
      BY <2>1 DEF TypeOK
    <2> QED
      BY <1>2, <2>1, <2>2, <2>3 DEF JobInv, Handled
  <1> QED
    BY <1>1, <1>2

\* Revisions are numbers.
LEMMA RevType == ASSUME TypeOK PROVE \A s \in Subs : Rev(s) \in Nat
  BY DEF TypeOK, Rev

\* What a step of the handler on worker w has to establish: it leaves Stripe and
\* the other handlers alone, knows its own new state, and records or answers no
\* event that is not handled.
LEMMA HandlerStepInv ==
  ASSUME IInv, NEW w \in Workers,
         UNCHANGED stripeVars,
         \A v \in Workers \ {w} :
           pc'[v] = pc[v] /\ job'[v] = job[v] /\ fetched'[v] = fetched[v],
         TypeOK', SettledGrows, JobInv(w)',
         \A e \in recorded' \cup acked' : e \in recorded \cup acked \/ Handled(e),
         StoredWasBought'
  PROVE  IInv'
  <1>1. TypeOK /\ \A v \in Workers : JobInv(v)
    BY DEF IInv
  <1>2. \A s \in Subs : Rev(s) \in Nat /\ Rev(s)' \in Nat /\ Rev(s) <= Rev(s)'
    BY <1>1, RevType DEF stripeVars, Rev
  <1>3. EmittedIsPast'
    BY DEF IInv, EmittedIsPast, stripeVars, Rev
  <1>4. ASSUME NEW v \in Workers PROVE JobInv(v)'
    <2>1. CASE v = w
      BY <2>1
    <2>2. CASE v # w
      BY <1>1, <1>2, <2>2, JobStays DEF stripeVars
    <2> QED
      BY <2>1, <2>2
  <1>5. ASSUME NEW e \in recorded' \cup acked' PROVE Handled(e)'
    <2>1. e \in Events
      BY DEF TypeOK
    <2>2. Handled(e)
      BY DEF IInv, RecordedWasHandled, AckedWasHandled
    <2> QED
      BY <1>1, <2>1, <2>2, HandledStays
  <1> QED
    BY <1>3, <1>4, <1>5 DEF IInv, RecordedWasHandled, AckedWasHandled

\* A row that is not written keeps holding a revision its user bought.
LEMMA StoredStays ==
  ASSUME IInv, UNCHANGED <<stored, timeline>>
  PROVE  StoredWasBought'
  BY DEF IInv, StoredWasBought, Rev

\* Returning forgets everything, and so knows nothing wrong.
LEMMA ReturnInv ==
  ASSUME TypeOK, NEW w \in Workers, Return(w)
  PROVE  /\ JobInv(w)'
         /\ pc' \in [Workers -> Steps] /\ job' \in [Workers -> Events \cup {NoEvent}]
         /\ fetched' \in [Workers -> Nat]
         /\ \A v \in Workers \ {w} :
              pc'[v] = pc[v] /\ job'[v] = job[v] /\ fetched'[v] = fetched[v]
  <1>1. pc'[w] = "idle"
    BY DEF Return, TypeOK
  <1>2. JobInv(w)'
    BY <1>1 DEF JobInv
  <1> QED
    BY <1>2 DEF Return, TypeOK, Steps

\* The invariant holds before the first event.
THEOREM InitInv == Init => IInv
  <1> SUFFICES ASSUME Init PROVE IInv
    OBVIOUS
  <1>1. TypeOK
    BY DEF Init, TypeOK, Steps
  <1>2. \A w \in Workers : JobInv(w)
    BY DEF Init, JobInv
  <1> QED
    BY <1>1, <1>2 DEF Init, IInv, EmittedIsPast, RecordedWasHandled,
                      AckedWasHandled, StoredWasBought

\* Stripe changes a subscription: histories grow, rows do not move.
LEMMA StripeChangeInv ==
  ASSUME IInv, NEW s \in Subs, NEW st \in Following(s),
         NEW kinds \in Announcements(st), StripeChange(s, st, kinds)
  PROVE  IInv'
  <1>1. TypeOK /\ st \in Statuses /\ kinds \subseteq Kinds
    BY StripeTypes DEF IInv
  <1>2. timeline' = [timeline EXCEPT ![s] = Append(@, st)]
    BY DEF StripeChange
  <1>3. /\ timeline' \in [Subs -> Seq(Statuses)]
        /\ \A a \in Subs : Rev(a) \in Nat /\ Rev(a)' \in Nat /\ Rev(a) <= Rev(a)'
        /\ Rev(s)' = Rev(s) + 1
    BY <1>1, <1>2, TimelineGrows
  <1>4. SettledGrows
    BY <1>1, SettledSame DEF StripeChange
  <1> DEFINE new == {[sub |-> s, rev |-> Rev(s) + 1, kind |-> k] : k \in kinds}
  <1>5. emitted' = emitted \cup new /\ new \subseteq Events
    BY <1>1, <1>3 DEF StripeChange, Events
  <1>6. TypeOK'
    BY <1>1, <1>3, <1>5 DEF TypeOK, StripeChange, handlerVars
  <1>7. EmittedIsPast'
    <2> SUFFICES ASSUME NEW e \in emitted' PROVE e.rev <= Rev(e.sub)'
      BY DEF EmittedIsPast
    <2>1. CASE e \in emitted
      <3>1. e.sub \in Subs /\ e.rev \in Nat /\ e.rev <= Rev(e.sub)
        BY <1>1, <2>1 DEF IInv, EmittedIsPast, TypeOK, Events
      <3> QED
        BY <1>3, <3>1
    <2>2. CASE e \in new
      BY <1>3, <2>2
    <2> QED
      BY <1>5, <2>1, <2>2
  <1>8. ASSUME NEW w \in Workers PROVE JobInv(w)'
    BY <1>1, <1>3, <1>4, <1>5, JobStays DEF IInv, StripeChange, handlerVars
  <1>9. ASSUME NEW e \in Events, Handled(e) PROVE Handled(e)'
    BY <1>1, <1>4, <1>9, HandledStays
  <1>10. RecordedWasHandled' /\ AckedWasHandled'
    BY <1>1, <1>9 DEF IInv, RecordedWasHandled, AckedWasHandled, StripeChange, TypeOK
  <1>11. StoredWasBought'
    <2> SUFFICES ASSUME NEW u \in Users, stored[u] # None
                 PROVE  stored[u].sub \in Bought[u]
                        /\ stored[u].rev \in 1..Len(timeline'[stored[u].sub])
      BY DEF StoredWasBought, StripeChange, Rev
    <2>1. stored[u].sub \in Bought[u] /\ stored[u].rev \in 1..Rev(stored[u].sub)
      BY DEF IInv, StoredWasBought
    <2>2. stored[u].sub \in Subs
      BY <1>1 DEF TypeOK, Snapshots
    <2>3. /\ Rev(stored[u].sub) \in Nat /\ Len(timeline'[stored[u].sub]) \in Nat
          /\ Rev(stored[u].sub) <= Len(timeline'[stored[u].sub])
      BY <1>3, <2>2 DEF Rev
    <2> QED
      BY <2>1, <2>3
  <1> QED
    BY <1>6, <1>7, <1>8, <1>10, <1>11 DEF IInv

\* The event a busy worker handles is one Stripe generated.
LEMMA BusyJob ==
  ASSUME IInv, NEW w \in Workers, pc[w] # "idle"
  PROVE  /\ job[w] \in emitted /\ job[w] \in Events
         /\ job[w].sub \in Subs /\ job[w].rev \in Nat /\ job[w].kind \in Kinds
  BY DEF IInv, JobInv, TypeOK, Events

\* A delivery taken by a worker keeps the invariant.
LEMMA DeliverInv ==
  ASSUME IInv, NEW w \in Workers, NEW e \in emitted, Deliver(w, e)
  PROVE  IInv'
  <1> USE DEF IInv
  <1>1. TypeOK'
    BY DEF Deliver, TypeOK, Goto, Mishap, stripeVars, Steps
  <1>2. JobInv(w)'
    BY DEF Deliver, Goto, JobInv, TypeOK, stripeVars
  <1>3. SettledGrows /\ StoredWasBought'
    BY SettledSame, StoredStays DEF Deliver, stripeVars
  <1> QED
    BY <1>1, <1>2, <1>3, HandlerStepInv DEF Deliver, Goto, TypeOK

\* Answering an event that is on record keeps the invariant.
LEMMA SkipRecordedInv ==
  ASSUME IInv, NEW w \in Workers, SkipRecorded(w)
  PROVE  IInv'
  <1>1. TypeOK /\ Return(w)
    BY DEF SkipRecorded, Ack, AckLost, IInv
  <1>2. TypeOK' /\ JobInv(w)'
    BY <1>1, ReturnInv DEF SkipRecorded, Ack, AckLost, Mishap, TypeOK, stripeVars
  <1>3. SettledGrows /\ StoredWasBought'
    BY <1>1, SettledSame, StoredStays DEF SkipRecorded, stripeVars
  <1>4. \A e \in recorded' \cup acked' : e \in recorded \cup acked
    BY DEF SkipRecorded, Ack, AckLost
  <1> QED
    BY <1>1, <1>2, <1>3, <1>4, ReturnInv, HandlerStepInv DEF SkipRecorded

\* Choosing the branch for an event keeps the invariant.
LEMMA ProcessInv ==
  ASSUME IInv, NEW w \in Workers, Process(w)
  PROVE  IInv'
  <1>1. TypeOK'
    BY DEF IInv, Process, TypeOK, Goto, stripeVars, Steps
  <1>2. job[w] \in emitted
    BY BusyJob DEF Process
  <1>3. JobInv(w)'
    BY <1>2 DEF Process, Goto, JobInv, IInv, TypeOK, stripeVars
  <1>4. SettledGrows /\ StoredWasBought'
    BY SettledSame, StoredStays DEF IInv, Process, stripeVars
  <1> QED
    BY <1>1, <1>3, <1>4, HandlerStepInv DEF Process, Goto, IInv, TypeOK

\* The revision read is the current one, so no older than the event's.
LEMMA RetrieveSubscriptionInv ==
  ASSUME IInv, NEW w \in Workers, RetrieveSubscription(w)
  PROVE  IInv'
  <1>1. /\ job[w] \in emitted /\ job[w].sub \in Subs /\ job[w].rev \in Nat
        /\ Rev(job[w].sub) \in Nat /\ job[w].rev <= Rev(job[w].sub)
    BY BusyJob, RevType DEF RetrieveSubscription, IInv, EmittedIsPast
  <1>2. pc' = [pc EXCEPT ![w] = pc'[w]] /\ pc'[w] \in {"record", "email", "find"}
    BY DEF RetrieveSubscription, Goto, IInv, TypeOK
  <1>3. TypeOK'
    BY <1>1, <1>2 DEF RetrieveSubscription, CurrentRevision, IInv, TypeOK, stripeVars, Steps
  <1>4. JobInv(w)'
    <2>1. fetched'[w] = Rev(job[w].sub) /\ job'[w] = job[w] /\ emitted' = emitted
      BY DEF RetrieveSubscription, CurrentRevision, IInv, TypeOK, stripeVars
    <2>2. job[w].sub \notin OwnPlans <=> pc'[w] = "record"
      BY DEF RetrieveSubscription, owns_subscription, Goto, IInv, TypeOK
    <2>3. Len(timeline'[job[w].sub]) = Rev(job[w].sub)
      BY DEF RetrieveSubscription, stripeVars, Rev
    <2> QED
      BY <1>1, <1>2, <2>1, <2>2, <2>3 DEF JobInv, Handled, Rev
  <1>5. SettledGrows /\ StoredWasBought'
    BY SettledSame, StoredStays DEF IInv, RetrieveSubscription, stripeVars
  <1> QED
    BY <1>2, <1>3, <1>4, <1>5, HandlerStepInv
    DEF RetrieveSubscription, IInv, TypeOK

\* Resolving the customer's e-mail keeps the invariant.
LEMMA ResolveCustomerEmailInv ==
  ASSUME IInv, NEW w \in Workers, ResolveCustomerEmail(w)
  PROVE  IInv'
  <1>1. TypeOK'
    BY DEF IInv, ResolveCustomerEmail, TypeOK, Goto, stripeVars, Steps
  <1>2. JobInv(w)'
    BY DEF ResolveCustomerEmail, Goto, JobInv, IInv, TypeOK, stripeVars, Rev
  <1>3. SettledGrows /\ StoredWasBought'
    BY SettledSame, StoredStays DEF IInv, ResolveCustomerEmail, stripeVars
  <1> QED
    BY <1>1, <1>2, <1>3, HandlerStepInv DEF ResolveCustomerEmail, Goto, IInv, TypeOK

\* Refusing an event whose customer has no e-mail keeps the invariant.
LEMMA CustomerHasNoEmailInv ==
  ASSUME IInv, NEW w \in Workers, CustomerHasNoEmail(w)
  PROVE  IInv'
  <1>1. SettledGrows /\ StoredWasBought'
    BY SettledSame, StoredStays DEF IInv, CustomerHasNoEmail, stripeVars
  <1>2. CASE Return(w)
    <2>1. TypeOK' /\ JobInv(w)'
      BY <1>2, ReturnInv DEF CustomerHasNoEmail, TypeOK, IInv, stripeVars
    <2> QED
      BY <1>1, <1>2, <2>1, ReturnInv, HandlerStepInv DEF CustomerHasNoEmail, IInv
  <1>3. CASE Goto(w, "record") /\ UNCHANGED <<job, fetched>>
    <2>1. TypeOK'
      BY <1>3 DEF IInv, CustomerHasNoEmail, TypeOK, Goto, stripeVars, Steps
    <2>2. job[w] \in emitted /\ CustomerEmail[job[w].sub] \notin Users
      BY BusyJob, WebhookAssumption DEF CustomerHasNoEmail
    <2>3. JobInv(w)'
      BY <1>3, <2>2 DEF CustomerHasNoEmail, Goto, JobInv, Handled, IInv, TypeOK, stripeVars
    <2> QED
      BY <1>1, <1>3, <2>1, <2>3, HandlerStepInv DEF CustomerHasNoEmail, Goto, IInv, TypeOK
  <1> QED
    BY <1>2, <1>3 DEF CustomerHasNoEmail

\* A superseded patch settles its event without a write; the others go on to
\* write, and only for a user.
LEMMA FindUserInv ==
  ASSUME IInv, NEW w \in Workers, FindUser(w)
  PROVE  IInv'
  <1> DEFINE e == job[w]
  <1>1. /\ e \in emitted /\ e.sub \in Subs /\ e.rev \in Nat
        /\ fetched[w] \in Nat /\ TypeOK /\ JobInv(w) /\ pc[w] = "find"
    BY BusyJob DEF FindUser, IInv, TypeOK
  <1>2. StoredWasBought'
    BY StoredStays DEF FindUser, stripeVars
  <1>3. /\ \A v \in Workers \ {w} :
             pc'[v] = pc[v] /\ job'[v] = job[v] /\ fetched'[v] = fetched[v]
        /\ UNCHANGED stripeVars /\ UNCHANGED <<job, fetched, acked, recorded>>
    BY <1>1 DEF FindUser, Goto, TypeOK
  <1>4. SettledGrows
    BY <1>1, SettledSame, SettleGrows DEF FindUser
  <1>5. TypeOK'
    BY <1>1, <1>3, <1>4
    DEF FindUser, Goto, TypeOK, Steps, SettledGrows, stripeVars
  <1>6. JobInv(w)'
    <2>1. CASE e.kind = "failed" \/ CustomerEmail[e.sub] \notin Users
      <3>1. pc'[w] = "record"
        BY <1>1, <2>1 DEF FindUser, Goto, TypeOK
      <3> QED
        BY <1>1, <1>3, <2>1, <3>1 DEF JobInv, Handled, stripeVars
    <2>2. CASE /\ e.kind # "failed" /\ CustomerEmail[e.sub] \in Users
               /\ is_superseded(w, stored[CustomerEmail[e.sub]])
      <3>1. pc'[w] = "record" /\ Settle(e.sub, fetched[w])
        BY <1>1, <2>2 DEF FindUser, Goto, TypeOK
      <3>2. settled'[e.sub] >= fetched[w] /\ settled'[e.sub] \in Nat
        BY <1>1, <3>1, SettleGrows DEF SettledGrows
      <3>3. fetched[w] >= e.rev
        BY <1>1, <2>2 DEF JobInv
      <3>4. settled'[e.sub] >= e.rev
        BY <1>1, <3>2, <3>3
      <3> QED
        BY <1>1, <1>3, <3>1, <3>4 DEF JobInv, Handled, stripeVars
    <2>3. CASE /\ e.kind # "failed" /\ CustomerEmail[e.sub] \in Users
               /\ ~is_superseded(w, stored[CustomerEmail[e.sub]])
      <3>1. pc'[w] = "update"
        BY <1>1, <2>3 DEF FindUser, Goto, TypeOK
      <3> QED
        BY <1>1, <1>3, <2>3, <3>1 DEF JobInv, Rev, stripeVars
    <2> QED
      BY <2>1, <2>2, <2>3
  <1> QED
    BY <1>2, <1>3, <1>4, <1>5, <1>6, HandlerStepInv

\* The write settles the event and stores a revision of the user's own plan.
LEMMA UpdateUserSubscriptionInv ==
  ASSUME IInv, NEW w \in Workers, UpdateUserSubscription(w)
  PROVE  IInv'
  <1> DEFINE e == job[w]
             u == CustomerEmail[e.sub]
  <1>1. /\ e \in emitted /\ e.sub \in Subs /\ e.rev \in Nat \ {0}
        /\ fetched[w] \in Nat /\ Rev(e.sub) \in Nat
        /\ TypeOK /\ JobInv(w) /\ pc[w] = "update"
    BY BusyJob, RevType DEF UpdateUserSubscription, IInv, TypeOK, Events
  <1>2. e.sub \in Bought[u] /\ u \in Users /\ fetched[w] \in e.rev..Rev(e.sub)
    BY <1>1 DEF JobInv, Bought
  <1>3. /\ \A v \in Workers \ {w} :
             pc'[v] = pc[v] /\ job'[v] = job[v] /\ fetched'[v] = fetched[v]
        /\ UNCHANGED stripeVars /\ UNCHANGED <<job, fetched, acked, recorded>>
        /\ pc'[w] = "record"
    BY <1>1 DEF UpdateUserSubscription, Goto, TypeOK
  <1>4. SettledGrows /\ settled'[e.sub] >= fetched[w]
    BY <1>1, SettleGrows DEF UpdateUserSubscription
  <1> DEFINE p == [sub |-> e.sub, rev |-> fetched[w]]
  <1>5. p \in Snapshots /\ stored' = [stored EXCEPT ![u] = p]
    BY <1>1, <1>2 DEF Snapshots, UpdateUserSubscription
  <1>6. TypeOK'
    BY <1>1, <1>3, <1>4, <1>5
    DEF UpdateUserSubscription, Goto, TypeOK, Steps, SettledGrows, stripeVars
  <1>7. JobInv(w)'
    <2>1. settled'[e.sub] >= e.rev
      BY <1>1, <1>2, <1>4 DEF SettledGrows
    <2> QED
      BY <1>1, <1>3, <2>1 DEF JobInv, Handled, stripeVars
  <1>8. StoredWasBought'
    <2> SUFFICES ASSUME NEW x \in Users, stored'[x] # None
                 PROVE  /\ stored'[x].sub \in Bought[x]
                        /\ stored'[x].rev \in 1..Len(timeline'[stored'[x].sub])
      BY DEF StoredWasBought, Rev
    <2>1. timeline' = timeline
      BY <1>3 DEF stripeVars
    <2>2. CASE x = u
      <3>1. stored'[x] = p
        BY <1>1, <1>5, <2>2 DEF TypeOK
      <3> QED
        BY <1>1, <1>2, <2>1, <2>2, <3>1 DEF Rev
    <2>3. CASE x # u
      <3>1. stored'[x] = stored[x]
        BY <1>1, <1>5, <2>3 DEF TypeOK
      <3> QED
        BY <2>1, <3>1 DEF IInv, StoredWasBought, Rev
    <2> QED
      BY <2>2, <2>3
  <1> QED
    BY <1>3, <1>4, <1>6, <1>7, <1>8, HandlerStepInv

\* Only a handled event reaches the record, so recording or answering it is safe.
LEMMA RecordStepInv ==
  ASSUME IInv, NEW w \in Workers, InsertWebhookEvent(w) \/ InsertFails(w)
  PROVE  IInv'
  <1>1. TypeOK /\ Return(w) /\ pc[w] = "record"
    BY DEF InsertWebhookEvent, InsertFails, Ack, AckLost, IInv
  <1>2. job[w] \in emitted /\ Handled(job[w])
    BY <1>1, BusyJob DEF IInv, JobInv
  <1>3. TypeOK' /\ JobInv(w)'
    BY <1>1, <1>2, ReturnInv
    DEF InsertWebhookEvent, InsertFails, Ack, AckLost, Mishap, TypeOK, stripeVars
  <1>4. SettledGrows /\ StoredWasBought'
    BY <1>1, SettledSame, StoredStays DEF InsertWebhookEvent, InsertFails, stripeVars
  <1>5. \A e \in recorded' \cup acked' : e \in recorded \cup acked \/ Handled(e)
    BY <1>2 DEF InsertWebhookEvent, InsertFails, Ack, AckLost
  <1>6. UNCHANGED stripeVars
    BY DEF InsertWebhookEvent, InsertFails
  <1> QED
    BY <1>1, <1>3, <1>4, <1>5, <1>6, ReturnInv, HandlerStepInv

\* A failing call ends the handling with an error and keeps the invariant.
LEMMA CallFailsInv ==
  ASSUME IInv, NEW w \in Workers, CallFails(w)
  PROVE  IInv'
  <1>1. TypeOK /\ Return(w)
    BY DEF CallFails, IInv
  <1>2. TypeOK' /\ JobInv(w)'
    BY <1>1, ReturnInv DEF CallFails, Mishap, TypeOK, stripeVars
  <1>3. SettledGrows /\ StoredWasBought'
    BY <1>1, SettledSame, StoredStays DEF CallFails, stripeVars
  <1> QED
    BY <1>1, <1>2, <1>3, ReturnInv, HandlerStepInv DEF CallFails

\* An ignored failure of the lookup by e-mail keeps the invariant.
LEMMA EmailFailureIgnoredInv ==
  ASSUME IInv, NEW w \in Workers, EmailFailureIgnored(w)
  PROVE  IInv'
  <1>1. TypeOK'
    BY DEF IInv, EmailFailureIgnored, TypeOK, Goto, Mishap, stripeVars, Steps
  <1>2. job[w] \in emitted
    BY BusyJob DEF EmailFailureIgnored
  <1>3. JobInv(w)'
    BY <1>2 DEF EmailFailureIgnored, Goto, JobInv, Handled, IInv, TypeOK, stripeVars
  <1>4. SettledGrows /\ StoredWasBought'
    BY SettledSame, StoredStays DEF IInv, EmailFailureIgnored, stripeVars
  <1> QED
    BY <1>1, <1>3, <1>4, HandlerStepInv DEF EmailFailureIgnored, Goto, IInv, TypeOK

\* A crash forgets every handler and no row.
LEMMA CrashInv ==
  ASSUME IInv, Crash
  PROVE  IInv'
  <1>1. TypeOK'
    BY DEF IInv, TypeOK, Crash, Mishap, stripeVars, Steps
  <1>2. \A w \in Workers : JobInv(w)'
    BY DEF Crash, JobInv
  <1>3. EmittedIsPast' /\ StoredWasBought'
    BY StoredStays DEF IInv, Crash, EmittedIsPast, stripeVars, Rev
  <1>4. RecordedWasHandled' /\ AckedWasHandled'
    BY DEF IInv, Crash, RecordedWasHandled, AckedWasHandled, Handled
  <1> QED
    BY <1>1, <1>2, <1>3, <1>4 DEF IInv

\* Pruning the record of an old event keeps the invariant.
LEMMA PruneInv ==
  ASSUME IInv, NEW e \in recorded, PruneWebhookEvent(e)
  PROVE  IInv'
  <1>1. TypeOK'
    BY DEF IInv, TypeOK, PruneWebhookEvent, Mishap, stripeVars, handlerVars
  <1>2. \A w \in Workers : JobInv(w)'
    BY DEF IInv, PruneWebhookEvent, JobInv, Handled, Rev, stripeVars, handlerVars
  <1>3. EmittedIsPast' /\ StoredWasBought'
    BY StoredStays DEF IInv, PruneWebhookEvent, EmittedIsPast, stripeVars, Rev
  <1>4. RecordedWasHandled' /\ AckedWasHandled'
    BY DEF IInv, PruneWebhookEvent, RecordedWasHandled, AckedWasHandled, Handled
  <1> QED
    BY <1>1, <1>2, <1>3, <1>4 DEF IInv

\* The invariant survives every step of the system, whatever the interleaving.
THEOREM StepInv == IInv /\ [Next]_vars => IInv'
  <1> SUFFICES ASSUME IInv, [Next]_vars PROVE IInv'
    OBVIOUS
  <1>1. ASSUME NEW s \in Subs, NEW st \in Following(s),
               NEW kinds \in Announcements(st), StripeChange(s, st, kinds)
        PROVE  IInv'
    BY <1>1, StripeChangeInv
  <1>2. ASSUME NEW w \in Workers, NEW e \in emitted, Deliver(w, e) PROVE IInv'
    BY <1>2, DeliverInv
  <1>3. ASSUME NEW w \in Workers, HandlerStep(w) PROVE IInv'
    BY <1>3, SkipRecordedInv, ProcessInv, RetrieveSubscriptionInv,
       ResolveCustomerEmailInv, CustomerHasNoEmailInv, FindUserInv,
       UpdateUserSubscriptionInv, RecordStepInv DEF HandlerStep
  <1>4. ASSUME NEW w \in Workers, HandlerMishap(w) PROVE IInv'
    BY <1>4, RecordStepInv, CallFailsInv, EmailFailureIgnoredInv DEF HandlerMishap
  <1>5. CASE Crash
    BY <1>5, CrashInv
  <1>6. ASSUME NEW e \in recorded, PruneWebhookEvent(e) PROVE IInv'
    BY <1>6, PruneInv
  <1>7. CASE UNCHANGED vars
    BY <1>7 DEF IInv, TypeOK, EmittedIsPast, JobInv, Handled, Rev, vars,
                RecordedWasHandled, AckedWasHandled, StoredWasBought
  <1> QED
    BY <1>1, <1>2, <1>3, <1>4, <1>5, <1>6, <1>7 DEF Next

\* The inductive invariant holds in every behaviour.
THEOREM Invariance == Spec => []IInv
  <1> QED
    BY InitInv, StepInv, PTL DEF Spec

\* The model's variables keep their types.
THEOREM TypeCorrect == Spec => []TypeOK
  <1>1. IInv => TypeOK
    BY DEF IInv
  <1> QED
    BY <1>1, Invariance, PTL

\* payment() never records an event that was not handled.
THEOREM RecordIsHonest == Spec => []RecordedWasHandled
  <1>1. IInv => RecordedWasHandled
    BY DEF IInv
  <1> QED
    BY <1>1, Invariance, PTL

\* payment() never has Stripe stop retrying an event that was not handled.
THEOREM AnswerIsHonest == Spec => []AckedWasHandled
  <1>1. IInv => AckedWasHandled
    BY DEF IInv
  <1> QED
    BY <1>1, Invariance, PTL

\* No row ever holds another user's or another application's subscription.
THEOREM OwnSubscriptionsOnly == Spec => []StoredWasBought
  <1>1. IInv => StoredWasBought
    BY DEF IInv
  <1> QED
    BY <1>1, Invariance, PTL

-----------------------------------------------------------------------------
(***************************************************************************)
(* When deliveries are handled one at a time, the webhook implements       *)
(* SubscriptionMirror and the rows end up as Stripe has them, for any      *)
(* users, subscriptions, failures and crashes.  With two handlers neither  *)
(* holds: see the runs that look for it.                                   *)
(***************************************************************************)

\* Deliveries are handled one at a time.
OneAtATime == \A v, w \in Workers : v = w

\* What one handler alone knows of the row it is about to write: it is no newer
\* than what was fetched, and at the write it may be replaced.
FreshJob(w) ==
  LET e == job[w]
      u == CustomerEmail[e.sub]
  IN
  pc[w] \in {"email", "find", "update"} /\ e.kind # "failed" /\ u \in Users
    /\ stored[u] # None =>
      /\ stored[u].sub = e.sub => stored[u].rev <= fetched[w]
      /\ pc[w] = "update" =>
           \/ stored[u].sub = e.sub
           \/ timeline[e.sub][fetched[w]] \in TAKEOVER_STATUSES

SerialInv == IInv /\ \A w \in Workers : FreshJob(w)

\* A handler keeps its knowledge while neither it nor the rows move.
LEMMA FreshStays ==
  ASSUME SerialInv, NEW w \in Workers,
         pc'[w] = pc[w], job'[w] = job[w], fetched'[w] = fetched[w],
         UNCHANGED stored,
         pc[w] = "update" => timeline'[job[w].sub][fetched[w]] =
                               timeline[job[w].sub][fetched[w]]
  PROVE  FreshJob(w)'
  BY DEF SerialInv, FreshJob

\* Before the first event each worker's job is fresh.
LEMMA SerialInit == Init => SerialInv
  BY InitInv DEF Init, SerialInv, FreshJob

\* Appending to a history changes no revision a handler has fetched.
LEMMA FreshUnderStripe ==
  ASSUME SerialInv, NEW w \in Workers, NEW s \in Subs, NEW st \in Following(s),
         NEW kinds \in Announcements(st), StripeChange(s, st, kinds)
  PROVE  FreshJob(w)'
  <1>1. TypeOK /\ JobInv(w) /\ st \in Statuses
    BY StripeTypes DEF SerialInv, IInv
  <1>2. timeline' = [timeline EXCEPT ![s] = Append(@, st)]
    BY DEF StripeChange
  <1>3. ASSUME pc[w] = "update"
        PROVE  timeline'[job[w].sub][fetched[w]] = timeline[job[w].sub][fetched[w]]
    <2>1. /\ job[w].sub \in Subs /\ job[w].rev \in Nat \ {0}
          /\ Rev(job[w].sub) \in Nat
          /\ fetched[w] \in job[w].rev..Rev(job[w].sub)
      BY <1>1, <1>3, BusyJob, RevType DEF SerialInv, IInv, JobInv, TypeOK, Events
    <2>2. fetched[w] \in 1..Rev(job[w].sub)
      BY <2>1
    <2> QED
      BY <1>1, <1>2, <2>1, <2>2, TimelineGrows
  <1> QED
    BY <1>3, FreshStays DEF StripeChange, handlerVars

\* The only handler there is knows the row until it writes it.
LEMMA FreshUnderHandler ==
  ASSUME SerialInv, OneAtATime, NEW w \in Workers,
         HandlerStep(w) \/ HandlerMishap(w) \/ (\E e \in emitted : Deliver(w, e)),
         NEW v \in Workers
  PROVE  FreshJob(v)'
  <1>1. v = w /\ TypeOK /\ JobInv(w) /\ FreshJob(w) /\ StoredWasBought
    BY DEF OneAtATime, SerialInv, IInv
  <1>2. SUFFICES FreshJob(w)'
    BY <1>1
  <1>3. CASE pc'[w] \in {"idle", "lookup", "retrieve", "record"}
    BY <1>3 DEF FreshJob
  <1>4. CASE Process(w)
    BY <1>1, <1>4 DEF Process, Goto, FreshJob, TypeOK
  <1>5. CASE RetrieveSubscription(w)
    <2>1. /\ fetched'[w] = Rev(job[w].sub) /\ UNCHANGED <<job, stored, timeline>>
          /\ pc'[w] # "update"
      BY <1>1, <1>5 DEF RetrieveSubscription, CurrentRevision, Goto, TypeOK, stripeVars
    <2>2. \A u \in Users : stored[u] # None =>
            stored[u].rev <= Rev(stored[u].sub)
      BY <1>1 DEF StoredWasBought, TypeOK, Snapshots
    <2> QED
      BY <2>1, <2>2 DEF FreshJob
  <1>6. CASE ResolveCustomerEmail(w)
    BY <1>1, <1>6 DEF ResolveCustomerEmail, Goto, FreshJob, TypeOK, stripeVars
  <1>7. CASE FindUser(w)
    BY <1>1, <1>7 DEF FindUser, Goto, FreshJob, TypeOK, stripeVars, is_superseded
  <1>8. pc'[w] \in {"idle", "lookup", "retrieve", "record"}
          \/ Process(w) \/ RetrieveSubscription(w) \/ ResolveCustomerEmail(w)
          \/ FindUser(w)
    BY <1>1
    DEF HandlerStep, HandlerMishap, Deliver, SkipRecorded, Ack, AckLost, Return,
        CustomerHasNoEmail, UpdateUserSubscription, InsertWebhookEvent, InsertFails,
        CallFails, EmailFailureIgnored, Goto, TypeOK
  <1> QED
    BY <1>3, <1>4, <1>5, <1>6, <1>7, <1>8

\* With one delivery at a time, every step keeps the jobs fresh.
LEMMA SerialStep ==
  ASSUME OneAtATime, SerialInv, [Next]_vars
  PROVE  SerialInv'
  <1>1. IInv'
    BY StepInv DEF SerialInv
  <1> SUFFICES ASSUME NEW v \in Workers PROVE FreshJob(v)'
    BY <1>1 DEF SerialInv
  <1>2. ASSUME NEW s \in Subs, NEW st \in Following(s),
               NEW kinds \in Announcements(st), StripeChange(s, st, kinds)
        PROVE  FreshJob(v)'
    BY <1>2, FreshUnderStripe
  <1>3. ASSUME NEW w \in Workers,
               HandlerStep(w) \/ HandlerMishap(w) \/ (\E e \in emitted : Deliver(w, e))
        PROVE  FreshJob(v)'
    BY <1>3, FreshUnderHandler
  <1>4. CASE Crash
    BY <1>4 DEF Crash, FreshJob
  <1>5. CASE \E e \in recorded : PruneWebhookEvent(e)
    BY <1>5, FreshStays DEF PruneWebhookEvent, handlerVars, stripeVars
  <1>6. CASE UNCHANGED vars
    BY <1>6, FreshStays DEF vars
  <1> QED
    BY <1>2, <1>3, <1>4, <1>5, <1>6 DEF Next

-----------------------------------------------------------------------------
\* The mirror starts where the handler starts.
LEMMA MirrorStart == Init => Mirror!MirrorInit
  BY DEF Init, Mirror!MirrorInit

\* Each change on Stripe's side is a change of the mirror's history.
LEMMA MirrorChange ==
  ASSUME NEW s \in Subs, NEW st \in Following(s), NEW kinds \in Announcements(st),
         StripeChange(s, st, kinds), UNCHANGED stored
  PROVE  Mirror!MirrorNext
  <1>1. st \in Statuses
    BY StripeTypes
  <1>2. Mirror!Change(s, st)
    BY DEF Mirror!Change, StripeChange
  <1> QED
    BY <1>1, <1>2 DEF Mirror!MirrorNext

\* The write is the one step that moves a row, and it moves it as promised.
LEMMA MirrorWrite ==
  ASSUME SerialInv, NEW w \in Workers, UpdateUserSubscription(w)
  PROVE  Mirror!MirrorNext
  <1> DEFINE e == job[w]
             u == CustomerEmail[e.sub]
  <1>1. TypeOK /\ JobInv(w) /\ FreshJob(w) /\ pc[w] = "update"
    BY DEF SerialInv, IInv, UpdateUserSubscription
  <1>2. e.sub \in Subs /\ e.rev \in Nat \ {0} /\ Rev(e.sub) \in Nat
    BY <1>1, BusyJob, RevType DEF Events, JobInv, TypeOK
  <1>3. /\ e.kind # "failed" /\ u \in Users /\ e.sub \in Bought[u]
        /\ fetched[w] \in 1..Len(timeline[e.sub])
    BY <1>1, <1>2 DEF JobInv, Bought, Rev
  <1>4. Mirror!Sync(u, e.sub, fetched[w])
    <2>1. \/ stored[u] = None
          \/ stored[u].sub = e.sub /\ stored[u].rev <= fetched[w]
          \/ stored[u].sub # e.sub /\ timeline[e.sub][fetched[w]] \in TAKEOVER_STATUSES
      BY <1>1, <1>3 DEF FreshJob
    <2>2. /\ stored' = [stored EXCEPT ![u] = [sub |-> e.sub, rev |-> fetched[w]]]
          /\ UNCHANGED timeline
      BY DEF UpdateUserSubscription, stripeVars
    <2> QED
      BY <2>1, <2>2 DEF Mirror!Sync
  <1> QED
    BY <1>3, <1>4 DEF Mirror!MirrorNext

\* Every other step leaves the histories and the rows alone.
LEMMA MirrorStutter ==
  ASSUME \/ \E w \in Workers : \/ HandlerStep(w) /\ ~UpdateUserSubscription(w)
                               \/ HandlerMishap(w)
                               \/ \E e \in emitted : Deliver(w, e)
         \/ Crash
         \/ \E e \in recorded : PruneWebhookEvent(e)
         \/ UNCHANGED vars
  PROVE  UNCHANGED <<timeline, stored>>
  BY DEF HandlerStep, HandlerMishap, Deliver, SkipRecorded, Process,
         RetrieveSubscription, ResolveCustomerEmail, CustomerHasNoEmail, FindUser,
         InsertWebhookEvent, InsertFails, CallFails, EmailFailureIgnored, Crash,
         PruneWebhookEvent, vars, stripeVars

\* Every step of a serial handler is a step of the mirror, or leaves it alone.
LEMMA MirrorStep ==
  ASSUME SerialInv, [Next]_vars
  PROVE  [Mirror!MirrorNext]_<<timeline, stored>>
  <1>1. ASSUME NEW s \in Subs, NEW st \in Following(s),
               NEW kinds \in Announcements(st), StripeChange(s, st, kinds)
        PROVE  Mirror!MirrorNext
    <2>1. UNCHANGED stored
      BY <1>1 DEF StripeChange
    <2> QED
      BY <1>1, <2>1, MirrorChange
  <1>2. ASSUME NEW w \in Workers, UpdateUserSubscription(w)
        PROVE  Mirror!MirrorNext
    BY <1>2, MirrorWrite
  <1>3. CASE \/ \E w \in Workers : \/ HandlerStep(w) /\ ~UpdateUserSubscription(w)
                                   \/ HandlerMishap(w)
                                   \/ \E e \in emitted : Deliver(w, e)
             \/ Crash
             \/ \E e \in recorded : PruneWebhookEvent(e)
             \/ UNCHANGED vars
    BY <1>3, MirrorStutter
  <1> QED
    BY <1>1, <1>2, <1>3 DEF Next

\* With one delivery handled at a time, what is stored for every user follows
\* Stripe's history as SubscriptionMirror promises: rows only ever take real
\* revisions of the user's own plans, never step back, and change subscription
\* only to a paying one.
THEOREM WebhookMirrors == ASSUME OneAtATime PROVE Spec => MirrorSpec
  <1>1. Init => SerialInv /\ Mirror!MirrorInit
    BY SerialInit, MirrorStart
  <1>2. OneAtATime /\ SerialInv /\ [Next]_vars => SerialInv'
    BY SerialStep
  <1>3. SerialInv /\ [Next]_vars => [Mirror!MirrorNext]_<<timeline, stored>>
    BY MirrorStep
  <1> QED
    BY <1>1, <1>2, <1>3, PTL DEF Spec, MirrorSpec, Mirror!MirrorSpec, Mirror!mirrorVars

-----------------------------------------------------------------------------
(***************************************************************************)
(* What one handler at a time leaves in the rows once all is delivered.    *)
(***************************************************************************)

\* The newest revision of every subscription has been announced by an event that
\* makes the handler read the subscription.
Announced ==
  \A s \in Subs : Rev(s) > 0 =>
    \E e \in emitted : e.sub = s /\ e.rev = Rev(s) /\ e.kind # "failed"

\* A row holds the newest revision settled of its subscription, and an empty row
\* is that of a user of whom nothing was settled.
RowIsSettled ==
  \A u \in Users :
    /\ stored[u] # None => stored[u].rev = settled[stored[u].sub]
    /\ stored[u] = None => \A s \in Bought[u] : settled[s] = 0

SettledIsPast == \A s \in Subs : settled[s] <= Rev(s)

\* Whoever pays for two subscriptions now has been seen doing so.
OverlapSeen ==
  \A u \in Users : \A a, b \in Bought[u] :
    a # b /\ PaysAt(timeline, a) /\ PaysAt(timeline, b) => u \in overlapped

\* s is paid for, and its current revision has been written or judged.
PaidAndSettled(s) == PaysAt(timeline, s) /\ settled[s] = Rev(s)

\* A subscription paid for and settled is the one in the row.
Served ==
  \A u \in Users \ overlapped : \A s \in Bought[u] :
    PaidAndSettled(s) => stored[u] # None /\ stored[u].sub = s

\* The only handler there is has read a revision no older than the settled one,
\* and if it read a paying one, no other subscription of that user is paid for
\* and settled: nothing can have settled since it read.
LastJob(w) ==
  LET e == job[w]
      u == CustomerEmail[e.sub]
  IN
  pc[w] \in {"email", "find", "update"} /\ e.kind # "failed" /\ u \in Users =>
    /\ settled[e.sub] <= fetched[w]
    /\ timeline[e.sub][fetched[w]] \in TAKEOVER_STATUSES /\ u \notin overlapped =>
         \A s \in Bought[u] \ {e.sub} : ~PaidAndSettled(s)

LastInv ==
  /\ SerialInv
  /\ Announced
  /\ RowIsSettled
  /\ SettledIsPast
  /\ OverlapSeen
  /\ Served
  /\ \A w \in Workers : LastJob(w)


\* Every change is announced by an event other than a failed payment.
LEMMA AnnouncedByMore ==
  ASSUME NEW s \in Subs, NEW st \in Following(s), NEW kinds \in Announcements(st)
  PROVE  \E k \in kinds : k # "failed"
  <1>1. "failed" \notin PaidKinds
    BY WebhookAssumption
  <1>2. CASE st = "active"
    <2>1. PICK k \in PaidKinds : kinds = {k}
      BY <1>2 DEF Announcements
    <2> QED
      BY <1>1, <2>1
  <1>3. CASE st # "active"
    <2>1. "subscription" \in kinds
      BY <1>3 DEF Announcements
    <2> QED
      BY <2>1
  <1> QED
    BY <1>2, <1>3

\* A change of s unsettles s and settles nothing.
LEMMA ChangeUnsettles ==
  ASSUME TypeOK, SettledIsPast, NEW s \in Subs, NEW st \in Following(s),
         NEW kinds \in Announcements(st), StripeChange(s, st, kinds),
         NEW a \in Subs, PaidAndSettled(a)'
  PROVE  PaidAndSettled(a)
  <1>1. /\ timeline' = [timeline EXCEPT ![s] = Append(@, st)]
        /\ UNCHANGED settled /\ st \in Statuses
    BY StripeTypes DEF StripeChange
  <1>2. Rev(s) \in Nat /\ Rev(s)' = Rev(s) + 1
    BY <1>1, TimelineGrows
  <1>3. settled[s] \in Nat /\ settled[s] <= Rev(s)
    BY DEF TypeOK, SettledIsPast
  <1>4. settled'[s] # Rev(s)'
    BY <1>1, <1>2, <1>3
  <1>5. a # s
    BY <1>4 DEF PaidAndSettled
  <1>6. timeline'[a] = timeline[a]
    BY <1>1, <1>5 DEF TypeOK
  <1> QED
    BY <1>1, <1>6 DEF PaidAndSettled, PaysAt, Rev

\* The invariant of the last write holds before the first event.
LEMMA LastInit == Init => LastInv
  <1> SUFFICES ASSUME Init PROVE LastInv
    OBVIOUS
  <1>1. SerialInv
    BY SerialInit
  <1>2. \A s \in Subs : timeline[s] = <<>> /\ Rev(s) = 0 /\ ~PaysAt(timeline, s)
    BY DEF Init, Rev, PaysAt
  <1>3. Bought \in [Users -> SUBSET Subs]
    BY Constants DEF Bought
  <1>4. Announced /\ SettledIsPast
    BY <1>2 DEF Announced, SettledIsPast, Init
  <1>5. RowIsSettled
    BY <1>3 DEF RowIsSettled, Init
  <1>6. OverlapSeen /\ Served
    BY <1>2, <1>3 DEF OverlapSeen, Served, PaidAndSettled
  <1>7. \A w \in Workers : LastJob(w)
    BY DEF LastJob, Init
  <1> QED
    BY <1>1, <1>4, <1>5, <1>6, <1>7 DEF LastInv

\* A subscription a user bought is one of the account's.
LEMMA BoughtSubs == \A u \in Users : Bought[u] \subseteq Subs
  BY Constants DEF Bought

\* What a change on Stripe's side leaves true.
LEMMA LastUnderStripe ==
  ASSUME LastInv, SerialInv', NEW s \in Subs, NEW st \in Following(s),
         NEW kinds \in Announcements(st), StripeChange(s, st, kinds)
  PROVE  LastInv'
  <1>1. TypeOK /\ SettledIsPast /\ st \in Statuses
    BY StripeTypes DEF LastInv, SerialInv, IInv
  <1>2. /\ timeline' = [timeline EXCEPT ![s] = Append(@, st)]
        /\ UNCHANGED <<settled, stored, pc, job, fetched>>
        /\ overlapped \subseteq overlapped' /\ emitted \subseteq emitted'
    BY DEF StripeChange, handlerVars
  <1>3. ASSUME NEW a \in Subs
        PROVE  /\ Rev(a) \in Nat /\ Rev(a)' \in Nat /\ Rev(a) <= Rev(a)'
               /\ Rev(s)' = Rev(s) + 1
               /\ \A r \in 1..Rev(a) : timeline'[a][r] = timeline[a][r]
    BY <1>1, <1>2, TimelineGrows
  <1>4. \A a \in Subs : PaidAndSettled(a)' => PaidAndSettled(a)
    BY <1>1, ChangeUnsettles
  <1>5. Announced'
    <2> SUFFICES ASSUME NEW a \in Subs, Rev(a)' > 0
                 PROVE  \E e \in emitted' : e.sub = a /\ e.rev = Rev(a)' /\ e.kind # "failed"
      BY DEF Announced
    <2>1. CASE a = s
      <3>1. PICK k \in kinds : k # "failed"
        BY AnnouncedByMore
      <3>2. [sub |-> s, rev |-> Rev(s) + 1, kind |-> k] \in emitted'
        BY <3>1 DEF StripeChange
      <3> QED
        BY <1>3, <2>1, <3>1, <3>2
    <2>2. CASE a # s
      <3>1. timeline'[a] = timeline[a]
        BY <1>1, <1>2, <2>2 DEF TypeOK
      <3>2. Rev(a)' = Rev(a)
        BY <3>1 DEF Rev
      <3>3. Announced
        BY DEF LastInv
      <3> QED
        BY <1>2, <3>2, <3>3 DEF Announced
    <2> QED
      BY <2>1, <2>2
  <1>6. RowIsSettled'
    BY <1>2 DEF LastInv, RowIsSettled
  <1>7. SettledIsPast'
    <2> SUFFICES ASSUME NEW a \in Subs PROVE settled'[a] <= Rev(a)'
      BY DEF SettledIsPast
    <2>1. settled[a] \in Nat /\ settled[a] <= Rev(a) /\ settled'[a] = settled[a]
      BY <1>1, <1>2 DEF TypeOK, SettledIsPast
    <2> QED
      BY <1>3, <2>1
  <1>8. OverlapSeen'
    BY DEF OverlapSeen, StripeChange
  <1>9. Served'
    BY <1>2, <1>4, BoughtSubs DEF LastInv, Served
  <1>10. ASSUME NEW w \in Workers PROVE LastJob(w)'
    <2> SUFFICES ASSUME pc[w] \in {"email", "find", "update"}, job[w].kind # "failed",
                        CustomerEmail[job[w].sub] \in Users
                 PROVE  LastJob(w)'
      BY <1>2 DEF LastJob
    <2>1. /\ job[w].sub \in Subs /\ job[w].rev \in Nat \ {0}
          /\ Rev(job[w].sub) \in Nat
          /\ fetched[w] \in job[w].rev..Rev(job[w].sub)
      BY <1>1, BusyJob, RevType DEF LastInv, SerialInv, IInv, JobInv, TypeOK, Events
    <2>2. timeline'[job[w].sub][fetched[w]] = timeline[job[w].sub][fetched[w]]
      BY <1>3, <2>1
    <2>3. LastJob(w)
      BY DEF LastInv
    <2> QED
      BY <1>2, <1>4, <2>2, <2>3, BoughtSubs DEF LastJob
  <1> QED
    BY <1>5, <1>6, <1>7, <1>8, <1>9, <1>10 DEF LastInv

\* A step that moves neither Stripe nor the rows nor what is settled has only to
\* say what the handlers know.
LEMMA LastStays ==
  ASSUME LastInv, SerialInv', UNCHANGED <<stripeVars, stored, settled>>,
         \A v \in Workers : LastJob(v)'
  PROVE  LastInv'
  <1>1. /\ UNCHANGED <<timeline, emitted, overlapped, stored, settled>>
        /\ \A s \in Subs : Rev(s)' = Rev(s) /\ PaidAndSettled(s)' = PaidAndSettled(s)
    BY DEF stripeVars, Rev, PaidAndSettled
  <1>2. Announced' /\ SettledIsPast' /\ RowIsSettled' /\ OverlapSeen'
    BY <1>1 DEF LastInv, Announced, SettledIsPast, RowIsSettled, OverlapSeen
  <1>3. Served'
    BY <1>1, BoughtSubs DEF LastInv, Served
  <1> QED
    BY <1>2, <1>3 DEF LastInv

\* A handler that stays where it is knows what it knew.
LEMMA LastJobStays ==
  ASSUME NEW w \in Workers, LastJob(w),
         pc'[w] = pc[w] \/ (pc[w] = "email" /\ pc'[w] = "find"),
         job'[w] = job[w], fetched'[w] = fetched[w],
         UNCHANGED <<stripeVars, stored, settled>>
  PROVE  LastJob(w)'
  BY DEF LastJob, stripeVars, PaidAndSettled, Rev

\* apply_sub_patch() before its write: a superseded revision settles without
\* being one that pays.
LEMMA LastUnderFind ==
  ASSUME LastInv, SerialInv', OneAtATime, NEW w \in Workers, FindUser(w)
  PROVE  LastInv'
  <1> DEFINE s == job[w].sub
             u == CustomerEmail[job[w].sub]
  <1>1. /\ pc[w] = "find" /\ TypeOK /\ JobInv(w) /\ LastJob(w)
        /\ UNCHANGED <<timeline, emitted, overlapped, stored, job, fetched>>
    BY DEF FindUser, LastInv, SerialInv, IInv, stripeVars
  <1>2. \A v \in Workers : v = w
    BY DEF OneAtATime
  <1>3. CASE UNCHANGED settled
    <2>1. \/ pc'[w] = "update" \/ pc'[w] = "record"
      BY <1>1 DEF FindUser, Goto, TypeOK
    <2>2. LastJob(w)'
      BY <1>1, <1>3, <2>1 DEF LastJob, PaidAndSettled, Rev
    <2> QED
      BY <1>1, <1>2, <1>3, <2>2, LastStays DEF stripeVars
  <1>4. CASE settled' # settled
    <2>1. /\ job[w].kind # "failed" /\ u \in Users /\ is_superseded(w, stored[u])
          /\ Settle(s, fetched[w]) /\ pc'[w] = "record"
      BY <1>1, <1>4 DEF FindUser, Goto, TypeOK
    <2>2. s \in Subs /\ job[w].rev \in Nat \ {0} /\ Rev(s) \in Nat /\ settled[s] \in Nat
      BY <1>1, BusyJob, RevType DEF LastInv, SerialInv, TypeOK, Events
    <2>3. fetched[w] \in job[w].rev..Rev(s) /\ s \in Bought[u] /\ settled[s] <= fetched[w]
      BY <1>1, <2>1, <2>2 DEF JobInv, Bought, LastJob
    <2>4. settled' = [settled EXCEPT ![s] = fetched[w]]
      <3>1. settled' = [settled EXCEPT ![s] =
                          IF settled[s] < fetched[w] THEN fetched[w] ELSE settled[s]]
        BY <2>1 DEF Settle
      <3>2. (IF settled[s] < fetched[w] THEN fetched[w] ELSE settled[s]) = fetched[w]
        BY <2>2, <2>3
      <3> QED
        BY <3>1, <3>2
    <2>5. \A a \in Subs : /\ Rev(a)' = Rev(a)
                          /\ settled'[a] = IF a = s THEN fetched[w] ELSE settled[a]
      BY <1>1, <2>2, <2>4 DEF Rev, TypeOK
    <2>6. ~PaidAndSettled(s)'
      <3>1. timeline[s][fetched[w]] \notin TAKEOVER_STATUSES
        BY <2>1 DEF is_superseded
      <3> QED
        BY <1>1, <2>2, <2>5, <3>1 DEF PaidAndSettled, PaysAt, Rev
    <2>7. \A a \in Subs : PaidAndSettled(a)' => a # s /\ PaidAndSettled(a)
      BY <1>1, <2>2, <2>5, <2>6 DEF PaidAndSettled
    <2>8. Announced' /\ OverlapSeen'
      BY <1>1, <2>5 DEF LastInv, Announced, OverlapSeen
    <2>9. SettledIsPast'
      BY <2>2, <2>3, <2>5 DEF LastInv, SettledIsPast
    <2>10. RowIsSettled'
      <3> SUFFICES ASSUME NEW x \in Users
                   PROVE  /\ stored[x] # None => stored[x].rev = settled'[stored[x].sub]
                          /\ stored[x] = None => \A a \in Bought[x] : settled'[a] = 0
        BY <1>1 DEF RowIsSettled
      <3>1. stored[u] # None /\ stored[u].sub # s
        BY <2>1 DEF is_superseded
      <3>2. ASSUME stored[x] # None PROVE stored[x].sub # s /\ stored[x].sub \in Subs
        <4>1. stored[x].sub \in Bought[x]
          BY <3>2 DEF LastInv, SerialInv, IInv, StoredWasBought
        <4> QED
          BY <3>1, <4>1, BoughtSubs DEF Bought
      <3>3. ASSUME stored[x] = None PROVE s \notin Bought[x]
        BY <3>1, <3>3 DEF Bought
      <3> QED
        BY <2>5, <3>2, <3>3, BoughtSubs DEF LastInv, RowIsSettled
    <2>11. Served'
      BY <1>1, <2>7, BoughtSubs DEF LastInv, Served
    <2>12. LastJob(w)'
      BY <2>1 DEF LastJob
    <2> QED
      BY <1>2, <2>8, <2>9, <2>10, <2>11, <2>12 DEF LastInv
  <1> QED
    BY <1>3, <1>4

\* update_user_subscription(): the row written is the settled one, and it takes
\* the place of none that is paid for and settled.
LEMMA LastUnderUpdate ==
  ASSUME LastInv, SerialInv', OneAtATime, NEW w \in Workers, UpdateUserSubscription(w)
  PROVE  LastInv'
  <1> DEFINE s == job[w].sub
             u == CustomerEmail[job[w].sub]
  <1>1. /\ pc[w] = "update" /\ TypeOK /\ JobInv(w) /\ LastJob(w) /\ FreshJob(w)
        /\ UNCHANGED <<timeline, emitted, overlapped, job, fetched>>
    BY DEF UpdateUserSubscription, LastInv, SerialInv, IInv, stripeVars
  <1>2. \A v \in Workers : v = w
    BY DEF OneAtATime
  <1>3. /\ s \in Subs /\ job[w].rev \in Nat \ {0} /\ Rev(s) \in Nat /\ settled[s] \in Nat
        /\ job[w].kind # "failed" /\ u \in Users
    BY <1>1, BusyJob, RevType DEF LastInv, SerialInv, TypeOK, Events, JobInv
  <1>4. fetched[w] \in job[w].rev..Rev(s) /\ s \in Bought[u] /\ settled[s] <= fetched[w]
    BY <1>1, <1>3 DEF JobInv, Bought, LastJob
  <1>5. settled' = [settled EXCEPT ![s] = fetched[w]]
    <2>1. settled' = [settled EXCEPT ![s] =
                        IF settled[s] < fetched[w] THEN fetched[w] ELSE settled[s]]
      BY DEF UpdateUserSubscription, Settle
    <2>2. (IF settled[s] < fetched[w] THEN fetched[w] ELSE settled[s]) = fetched[w]
      BY <1>3, <1>4
    <2> QED
      BY <2>1, <2>2
  <1>6. \A a \in Subs : /\ Rev(a)' = Rev(a)
                        /\ settled'[a] = IF a = s THEN fetched[w] ELSE settled[a]
    BY <1>1, <1>3, <1>5 DEF Rev, TypeOK
  <1>7. \A x \in Users : stored'[x] = IF x = u THEN [sub |-> s, rev |-> fetched[w]]
                                               ELSE stored[x]
    BY <1>1, <1>3 DEF UpdateUserSubscription, TypeOK
  <1>8. [sub |-> s, rev |-> fetched[w]] # None
    <2>1. [sub |-> s, rev |-> fetched[w]] \in Snapshots
      BY <1>3, <1>4 DEF Snapshots
    <2> QED
      BY <2>1, Constants
  <1>9. Announced' /\ OverlapSeen'
    BY <1>1, <1>6 DEF LastInv, Announced, OverlapSeen
  <1>10. SettledIsPast'
    BY <1>3, <1>4, <1>6 DEF LastInv, SettledIsPast
  <1>11. RowIsSettled'
    <2> SUFFICES ASSUME NEW x \in Users
                 PROVE  /\ stored'[x] # None => stored'[x].rev = settled'[stored'[x].sub]
                        /\ stored'[x] = None => \A a \in Bought[x] : settled'[a] = 0
      BY DEF RowIsSettled
    <2>1. CASE x = u
      BY <1>3, <1>6, <1>7, <1>8, <2>1
    <2>2. CASE x # u
      <3>1. stored'[x] = stored[x] /\ s \notin Bought[x]
        BY <1>7, <2>2 DEF Bought
      <3>2. stored[x] # None => stored[x].sub \in Bought[x]
        BY DEF LastInv, SerialInv, IInv, StoredWasBought
      <3> QED
        BY <1>6, <3>1, <3>2, BoughtSubs DEF LastInv, RowIsSettled
    <2> QED
      BY <2>1, <2>2
  <1>12. Served'
    <2> SUFFICES ASSUME NEW x \in Users \ overlapped, NEW a \in Bought[x],
                        PaidAndSettled(a)'
                 PROVE  stored'[x] # None /\ stored'[x].sub = a
      BY <1>1 DEF Served
    <2>1. a \in Subs
      BY BoughtSubs
    <2>2. CASE a = s
      <3>1. x = u
        BY <2>2 DEF Bought
      <3> QED
        BY <1>7, <1>8, <2>2, <3>1
    <2>3. CASE a # s
      <3>1. PaidAndSettled(a)
        BY <1>1, <1>6, <2>1, <2>3 DEF PaidAndSettled
      <3>2. stored[x] # None /\ stored[x].sub = a
        BY <3>1 DEF LastInv, Served
      <3>3. x # u
        <4>1. SUFFICES ASSUME x = u PROVE FALSE
          OBVIOUS
        <4>2. timeline[s][fetched[w]] \in TAKEOVER_STATUSES
          BY <1>1, <1>3, <2>3, <3>2, <4>1 DEF FreshJob
        <4> QED
          BY <1>1, <1>3, <2>3, <3>1, <4>1, <4>2 DEF LastJob
      <3> QED
        BY <1>7, <3>2, <3>3
    <2> QED
      BY <2>2, <2>3
  <1>13. LastJob(w)'
    BY <1>1 DEF LastJob, UpdateUserSubscription, Goto, TypeOK
  <1> QED
    BY <1>2, <1>9, <1>10, <1>11, <1>12, <1>13 DEF LastInv

\* retrieve_subscription(): a paying revision read now is of the only
\* subscription this user pays for.
LEMMA LastUnderRetrieve ==
  ASSUME LastInv, SerialInv', OneAtATime, NEW w \in Workers, RetrieveSubscription(w)
  PROVE  LastInv'
  <1> DEFINE s == job[w].sub
             u == CustomerEmail[job[w].sub]
  <1>1. /\ pc[w] = "retrieve" /\ TypeOK
        /\ UNCHANGED <<stripeVars, stored, settled, job>>
        /\ fetched'[w] = Rev(s)
    BY DEF RetrieveSubscription, CurrentRevision, LastInv, SerialInv, IInv, TypeOK
  <1>2. UNCHANGED <<timeline, overlapped>>
    BY <1>1 DEF stripeVars
  <1>3. s \in Subs /\ Rev(s) \in Nat /\ job[w].rev \in Nat \ {0} /\ job[w] \in emitted
    BY <1>1, BusyJob, RevType DEF LastInv, SerialInv, IInv, JobInv, TypeOK, Events
  <1>4. job[w].rev <= Rev(s)
    BY <1>3 DEF LastInv, SerialInv, IInv, EmittedIsPast
  <1>5. LastJob(w)'
    <2> SUFFICES ASSUME pc'[w] \in {"email", "find", "update"}, u \in Users
                 PROVE  /\ settled[s] <= Rev(s)
                        /\ timeline[s][Rev(s)] \in TAKEOVER_STATUSES /\ u \notin overlapped =>
                             \A a \in Bought[u] \ {s} : ~PaidAndSettled(a)'
      BY <1>1, <1>2 DEF LastJob
    <2>1. s \in Bought[u]
      <3>1. s \in OwnPlans
        BY <1>1 DEF RetrieveSubscription, owns_subscription, Goto, TypeOK
      <3> QED
        BY <3>1 DEF Bought
    <2>2. settled[s] <= Rev(s)
      BY <1>3 DEF LastInv, SettledIsPast
    <2>3. timeline[s][Rev(s)] \in TAKEOVER_STATUSES => PaysAt(timeline, s)
      BY <1>3, <1>4 DEF PaysAt, Rev
    <2>4. \A a \in Bought[u] : PaidAndSettled(a)' => PaysAt(timeline, a)
      BY <1>2 DEF PaidAndSettled
    <2> QED
      BY <2>1, <2>2, <2>3, <2>4 DEF LastInv, OverlapSeen
  <1> QED
    BY <1>1, <1>5, LastStays DEF OneAtATime

\* The steps of a handler that only move it on or end it.
LEMMA LastUnderHandler ==
  ASSUME LastInv, SerialInv', OneAtATime, NEW w \in Workers,
         HandlerStep(w) \/ HandlerMishap(w) \/ (\E e \in emitted : Deliver(w, e))
  PROVE  LastInv'
  <1>1. TypeOK /\ LastJob(w) /\ \A v \in Workers : v = w
    BY DEF LastInv, SerialInv, IInv, OneAtATime
  <1>2. CASE RetrieveSubscription(w) \/ FindUser(w) \/ UpdateUserSubscription(w)
    BY <1>2, LastUnderRetrieve, LastUnderFind, LastUnderUpdate
  <1>3. CASE Process(w)
    <2>1. /\ pc'[w] \in {"email", "retrieve"} /\ UNCHANGED <<stripeVars, stored, settled, job>>
          /\ pc'[w] = "email" => job[w].kind = "failed"
      BY <1>1, <1>3 DEF Process, Goto, TypeOK
    <2>2. LastJob(w)'
      BY <2>1 DEF LastJob
    <2> QED
      BY <1>1, <2>1, <2>2, LastStays
  <1>4. CASE ResolveCustomerEmail(w)
    <2>1. /\ pc[w] = "email" /\ pc'[w] = "find"
          /\ UNCHANGED <<stripeVars, stored, settled, job, fetched>>
      BY <1>1, <1>4 DEF ResolveCustomerEmail, Goto, TypeOK
    <2>2. LastJob(w)'
      BY <1>1, <2>1, LastJobStays
    <2> QED
      BY <1>1, <2>1, <2>2, LastStays
  <1>5. CASE \/ SkipRecorded(w) \/ CustomerHasNoEmail(w) \/ InsertWebhookEvent(w)
             \/ HandlerMishap(w) \/ \E e \in emitted : Deliver(w, e)
    <2>1. UNCHANGED <<stripeVars, stored, settled>>
      BY <1>5 DEF SkipRecorded, CustomerHasNoEmail, InsertWebhookEvent, HandlerMishap,
                  InsertFails, CallFails, EmailFailureIgnored, Deliver
    <2>2. pc'[w] \in {"idle", "lookup", "record"}
      BY <1>1, <1>5
      DEF SkipRecorded, CustomerHasNoEmail, InsertWebhookEvent, HandlerMishap,
          InsertFails, CallFails, EmailFailureIgnored, Deliver, Goto, Ack, AckLost,
          Return, TypeOK
    <2>3. LastJob(w)'
      BY <2>2 DEF LastJob
    <2> QED
      BY <1>1, <2>1, <2>3, LastStays
  <1> QED
    BY <1>2, <1>3, <1>4, <1>5 DEF HandlerStep

\* With one delivery at a time, every step keeps the invariant of the last write.
LEMMA LastStep ==
  ASSUME OneAtATime, LastInv, [Next]_vars
  PROVE  LastInv'
  <1>1. SerialInv'
    BY SerialStep DEF LastInv
  <1>2. \A w \in Workers : LastJob(w)
    BY DEF LastInv
  <1>3. CASE Crash
    BY <1>1, <1>3, LastStays DEF Crash, LastJob
  <1>4. CASE \E e \in recorded : PruneWebhookEvent(e)
    <2>1. UNCHANGED <<stripeVars, stored, settled, pc, job, fetched>>
      BY <1>4 DEF PruneWebhookEvent, handlerVars
    <2> QED
      BY <1>1, <1>2, <2>1, LastJobStays, LastStays
  <1>5. CASE UNCHANGED vars
    <2>1. UNCHANGED <<stripeVars, stored, settled, pc, job, fetched>>
      BY <1>5 DEF vars, stripeVars
    <2> QED
      BY <1>1, <1>2, <2>1, LastJobStays, LastStays
  <1> QED
    BY <1>1, <1>3, <1>4, <1>5, LastUnderStripe, LastUnderHandler DEF Next

\* Once all is delivered, everything bought is settled.
LEMMA QuietIsSettled ==
  ASSUME LastInv, Quiet, NEW u \in Users, NEW s \in Bought[u]
  PROVE  settled[s] = Rev(s)
  <1>1. /\ s \in Subs /\ s \in OwnPlans /\ CustomerEmail[s] = u
        /\ Rev(s) \in Nat /\ settled[s] \in Nat /\ settled[s] <= Rev(s)
    BY BoughtSubs, RevType
    DEF Bought, LastInv, SerialInv, IInv, TypeOK, SettledIsPast
  <1>2. CASE Rev(s) = 0
    BY <1>1, <1>2
  <1>3. CASE Rev(s) > 0
    <2>1. PICK e \in emitted : e.sub = s /\ e.rev = Rev(s) /\ e.kind # "failed"
      BY <1>1, <1>3 DEF LastInv, Announced
    <2>2. Handled(e)
      BY <2>1 DEF Quiet, LastInv, SerialInv, IInv, AckedWasHandled
    <2>3. settled[s] >= Rev(s)
      BY <1>1, <2>1, <2>2 DEF Handled
    <2> QED
      BY <1>1, <2>3
  <1> QED
    BY <1>1, <1>2, <1>3

\* The invariant of the last write, in every state.
LEMMA LastInvariance == ASSUME OneAtATime PROVE Spec => []LastInv
  <1>1. OneAtATime /\ LastInv /\ [Next]_vars => LastInv'
    BY LastStep
  <1> QED
    BY LastInit, <1>1, PTL DEF Spec

\* payment(), one delivery at a time: whatever was duplicated, late, out of order,
\* cut short or retried, once all is delivered every row holds what Stripe has of
\* its subscription now, and an empty row is that of a user who never bought.
THEOREM UpToDateWhenQuiet == ASSUME OneAtATime PROVE Spec => []QuietIsUpToDate
  <1>1. ASSUME LastInv, Quiet, NEW u \in Users PROVE UpToDate(u)
    <2>1. ASSUME stored[u] # None PROVE stored[u].rev = Rev(stored[u].sub)
      <3>1. stored[u].sub \in Bought[u]
        BY <1>1, <2>1 DEF LastInv, SerialInv, IInv, StoredWasBought
      <3> QED
        BY <1>1, <2>1, <3>1, QuietIsSettled DEF LastInv, RowIsSettled
    <2>2. ASSUME stored[u] = None, NEW s \in Bought[u] PROVE timeline[s] = <<>>
      <3>1. Rev(s) = 0
        BY <1>1, <2>2, QuietIsSettled DEF LastInv, RowIsSettled
      <3>2. timeline[s] \in Seq(Statuses)
        BY <1>1, BoughtSubs DEF LastInv, SerialInv, IInv, TypeOK
      <3> QED
        BY <3>1, <3>2 DEF Rev
    <2> QED
      BY <2>1, <2>2 DEF UpToDate
  <1>2. LastInv => QuietIsUpToDate
    BY <1>1 DEF QuietIsUpToDate
  <1> QED
    BY <1>2, LastInvariance, PTL

\* is_superseded(), one delivery at a time: a user who never paid for two
\* subscriptions at once is, once all is delivered, stored as having the one
\* paid for, whatever came late from the abandoned ones.
THEOREM PayersAreServed == ASSUME OneAtATime PROVE Spec => []PayingIsServed
  <1>1. LastInv => PayingIsServed
    <2> SUFFICES ASSUME LastInv, Quiet, NEW u \in Users \ overlapped,
                        NEW s \in Bought[u], PaysAt(timeline, s)
                 PROVE  stored[u] # None /\ stored[u].sub = s
      BY DEF PayingIsServed
    <2>1. PaidAndSettled(s)
      BY QuietIsSettled DEF PaidAndSettled
    <2> QED
      BY <2>1 DEF LastInv, Served
  <1> QED
    BY <1>1, LastInvariance, PTL

============================================================================
