------------------------ MODULE SubscriptionMirror ------------------------
(***************************************************************************)
(* What billing promises, without webhooks, handlers or a database: the    *)
(* subscription stored for a user follows the history Stripe keeps.  A     *)
(* stored value is always a revision Stripe really had, of a plan that     *)
(* user bought; it never goes back to an older revision of the same        *)
(* subscription; and another subscription replaces it only by paying.      *)
(***************************************************************************)
EXTENDS Naturals, Sequences

CONSTANTS
  Users,     \* the rows of Users
  Bought,    \* Bought[u]: this application's subscriptions bought by user u
  Subs,      \* every subscription on the Stripe account
  Statuses,  \* the statuses a subscription can have
  Takeover,  \* the statuses that entitle a subscription to replace another
  None       \* no subscription stored

VARIABLES
  timeline,  \* timeline[s]: the statuses subscription s has had, oldest first
  stored     \* stored[u]: the revision [sub, rev] stored for user u, or None

mirrorVars == <<timeline, stored>>

MirrorInit ==
  /\ timeline = [s \in Subs |-> <<>>]
  /\ stored = [u \in Users |-> None]

\* Stripe moves subscription s to status st.
Change(s, st) ==
  /\ timeline' = [timeline EXCEPT ![s] = Append(@, st)]
  /\ UNCHANGED stored

\* User u's row comes to hold revision r of subscription s.
Sync(u, s, r) ==
  /\ \/ stored[u] = None
     \/ stored[u].sub = s /\ stored[u].rev <= r
     \/ stored[u].sub # s /\ timeline[s][r] \in Takeover
  /\ stored' = [stored EXCEPT ![u] = [sub |-> s, rev |-> r]]
  /\ UNCHANGED timeline

MirrorNext ==
  \/ \E s \in Subs, st \in Statuses : Change(s, st)
  \/ \E u \in Users : \E s \in Bought[u] : \E r \in 1..Len(timeline[s]) :
       Sync(u, s, r)

MirrorSpec == MirrorInit /\ [][MirrorNext]_mirrorVars

===========================================================================
