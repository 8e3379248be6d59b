------------------------------ MODULE Accounts ------------------------------
(***************************************************************************)
(* Signing up and signing in: routes.rs with the lockout and rate limit    *)
(* stores of stores.rs and the tables Users and Auths.                     *)
(*                                                                         *)
(* A store method holds the store's mutex and is one step, reading the     *)
(* clock included; a pool call is one step; a password derivation is the   *)
(* gap between two steps, in which other threads run and time passes.      *)
(***************************************************************************)
EXTENDS Integers, FiniteSets, FiniteSetsExt, Functions

CONSTANTS
  Threads,       \* HTTP workers
  Emails,
  Ips,           \* what client_ip() makes of a request
  Threshold,     \* LOCKOUT_THRESHOLD
  LockTime,      \* LOCKOUT_DURATION_MS
  AttemptWindow, \* LOCKOUT_ATTEMPT_WINDOW_MS
  LockEntries,   \* LOCKOUT_MAX_ENTRIES
  RateLimit,     \* AUTH_RATE_LIMIT
  RateWindow,    \* AUTH_RATE_WINDOW_MS
  RateEntries,   \* AUTH_RATE_MAX_ENTRIES
  NoId,
  MaxTime,       \* bound on the clock
  MaxRequests,   \* bound on the requests
  MaxMishaps     \* bound on database failures and restarts

Keys == Emails \X Ips

ASSUME AccountsAssumption ==
  /\ IsFiniteSet(Threads) /\ IsFiniteSet(Emails) /\ IsFiniteSet(Ips)
  /\ {Threshold, LockTime, AttemptWindow, LockEntries} \subseteq Nat \ {0}
  /\ {RateLimit, RateWindow, RateEntries} \subseteq Nat \ {0}
  /\ AttemptWindow = LockTime
  /\ {MaxTime, MaxRequests, MaxMishaps} \subseteq Nat
  /\ NoId \notin Nat

VARIABLES
  now,
  users,     \* Users: the id of each registered email
  auths,     \* Auths: the userID of each email with credentials
  lockout,   \* LockoutStore: a record for some keys
  rate,      \* RateLimitStore: the times of the recent requests of some addresses
  thread,    \* thread[t]: the step of its request, with what it has read
  requests,  \* requests so far, which also number the accounts
  mishaps,
  guesses,   \* when, in the last AttemptWindow, passwords were found wrong, by key
  let_in     \* when, in the last RateWindow, requests passed the rate limit, by address

tables == <<users, auths>>
stores == <<lockout, rate, guesses, let_in>>
vars == <<now, tables, stores, thread, requests, mishaps>>

\* A record of the lockout store, written now.
Attempt(n, until) == [attempts |-> n, until |-> until, last |-> now]

Idle == [step |-> "idle"]

Init ==
  /\ now = 0
  /\ users = << >> /\ auths = << >>
  /\ lockout = << >> /\ rate = << >>
  /\ thread = [t \in Threads |-> Idle]
  /\ requests = 0
  /\ mishaps = 0
  /\ guesses = [k \in Keys |-> {}]
  /\ let_in = [ip \in Ips |-> {}]

\* Times are kept as a set of pairs: the number of those there were before tells
\* equal times apart.
Noted(times) == times \cup {<<now, Cardinality(times)>>}

\* What lies in the window that ends a tick from now.
Younger(times, window) == {x \in times : x[1] > now + 1 - window}

Tick ==
  /\ now < MaxTime
  /\ now' = now + 1
  /\ guesses' = [k \in Keys |-> Younger(guesses[k], AttemptWindow)]
  /\ let_in' = [ip \in Ips |-> Younger(let_in[ip], RateWindow)]
  /\ UNCHANGED <<tables, lockout, rate, thread, requests, mishaps>>

Put(f, k, v) == [x \in DOMAIN f \cup {k} |-> IF x = k THEN v ELSE f[x]]

Without(f, S) == Restrict(f, DOMAIN f \ S)

\* evict_oldest_entries: the keys it may keep, of the equally old any.
Survivors(age, max) ==
  IF Cardinality(DOMAIN age) <= max THEN {DOMAIN age}
  ELSE {S \in kSubset(max, DOMAIN age) :
          \A gone \in DOMAIN age \ S, kept \in S : age[gone] <= age[kept]}

-----------------------------------------------------------------------------
(***************************************************************************)
(* RateLimitStore::check_and_record, the first step of both endpoints.     *)
(***************************************************************************)

\* Plausible bug: the window starts a tick too late.
RecentOffByOne(times) == {x \in times : x[1] > now - RateWindow + 1}

\* The timestamps inside the window that ends now.
Recent(times) == {x \in times : x[1] > now - RateWindow}

\* They are appended as they come, so the first is the oldest.
FirstTime(times) == IF times = {} THEN 0 ELSE Min({x[1] : x \in times})

Arrive(t, op, k) ==
  LET ip == k[2] IN
  /\ thread[t].step = "idle"
  /\ requests < MaxRequests
  /\ requests' = requests + 1
  /\ \E S \in Survivors([i \in DOMAIN rate |-> FirstTime(rate[i])],
                        IF ip \in DOMAIN rate THEN RateEntries ELSE RateEntries - 1) :
       LET store == Restrict(rate, S)
           times == Recent(IF ip \in S THEN store[ip] ELSE {})
           refused == Cardinality(times) >= RateLimit
           known == [i \in Ips |-> IF i \in S \cup {ip} THEN let_in[i] ELSE {}]
       IN  /\ rate' = Put(store, ip, IF refused THEN times ELSE Noted(times))
           /\ let_in' = IF refused THEN known
                        ELSE [known EXCEPT ![ip] = Noted(@)]
           /\ thread' = [thread EXCEPT ![t] =
                 IF refused THEN Idle
                 ELSE [step |-> op, key |-> k,
                       id |-> IF op = "signup" THEN requests' ELSE NoId]]
  /\ UNCHANGED <<now, tables, lockout, guesses, mishaps>>

At(t, step) == thread[t].step = step

Goto(t, step) == thread' = [thread EXCEPT ![t].step = step]

Respond(t) == thread' = [thread EXCEPT ![t] = Idle]

-----------------------------------------------------------------------------
(***************************************************************************)
(* signup(), after the checks of the body: hash, then create_account.      *)
(***************************************************************************)

\* The body is not what it should be: 400.
RefuseBody(t) ==
  /\ thread[t].step \in {"signup", "signin"}
  /\ Respond(t)
  /\ UNCHANGED <<now, tables, stores, requests, mishaps>>

Email(t) == thread[t].key[1]

\* find_auth and find_user, one SELECT each.
HasAuth(t) == Email(t) \in DOMAIN auths

HasUser(t) == Email(t) \in DOMAIN users

\* Plausible bug: the two inserts are two calls of with().
CreateInTwoCalls(t) ==
  /\ At(t, "signup")
  /\ ~HasUser(t)
  /\ users' = Put(users, Email(t), thread[t].id)
  /\ \/ auths' = Put(auths, Email(t), thread[t].id) /\ UNCHANGED mishaps
     \/ mishaps < MaxMishaps /\ mishaps' = mishaps + 1 /\ UNCHANGED auths
  /\ Respond(t)
  /\ UNCHANGED <<now, stores, requests>>

\* create_account: both inserts in one transaction, and each table's email is unique.
CreateAccount(t) ==
  /\ At(t, "signup")
  /\ ~HasUser(t) /\ ~HasAuth(t)
  /\ users' = Put(users, Email(t), thread[t].id)
  /\ auths' = Put(auths, Email(t), thread[t].id)
  /\ Respond(t)
  /\ UNCHANGED <<now, stores, requests, mishaps>>

\* "UNIQUE constraint failed", from either insert: the transaction is rolled back.
Duplicate(t) ==
  /\ At(t, "signup")
  /\ HasUser(t) \/ HasAuth(t)
  /\ Respond(t)
  /\ UNCHANGED <<now, tables, stores, requests, mishaps>>

\* Any other failure of a pool call: nothing written, 500.
CallFails(t) ==
  /\ thread[t].step \in {"signup", "find_auth", "rehash", "find_user"}
  /\ mishaps < MaxMishaps
  /\ mishaps' = mishaps + 1
  /\ IF At(t, "rehash") THEN Goto(t, "find_user") ELSE Respond(t)
  /\ UNCHANGED <<now, tables, stores, requests>>

-----------------------------------------------------------------------------
(***************************************************************************)
(* signin().                                                               *)
(***************************************************************************)

Locked(k) == k \in DOMAIN lockout /\ lockout[k].until # NoId

Live(k) == Locked(k) /\ now < lockout[k].until

\* is_locked: a live lock is answered 429, an expired one is removed.
CheckLock(t) ==
  LET k == thread[t].key IN
  /\ At(t, "signin")
  /\ IF Live(k) THEN Respond(t) ELSE Goto(t, "find_auth")
  /\ lockout' = IF Locked(k) /\ ~Live(k) THEN Without(lockout, {k}) ELSE lockout
  /\ UNCHANGED <<now, tables, rate, guesses, let_in, requests, mishaps>>

\* find_auth, and verify_password without a further call: the password may be the
\* wrong one whatever the email, and the hash one of an older scheme.
FindAuth(t) ==
  /\ At(t, "find_auth")
  /\ \E next \in {"wrong"} \cup (IF HasAuth(t) THEN {"rehash", "find_user"} ELSE {}) :
       Goto(t, next)
  /\ UNCHANGED <<now, tables, stores, requests, mishaps>>

\* update_auth_password writes another hash of the same password.
Rehash(t) ==
  /\ At(t, "rehash")
  /\ Goto(t, "find_user")
  /\ UNCHANGED <<now, tables, stores, requests, mishaps>>

\* Plausible bug: the eviction looks at the last attempt of every record.
RankByLastAttempt(r) == r.last

\* The timestamp eviction goes by.
Rank(r) == IF r.until = NoId THEN r.last ELSE r.until

\* Plausible bug: a failure counts for an attempt only if the last one is a tick old.
CountPerTick(r) ==
  LET stale == now - r.last > AttemptWindow
      n == IF stale THEN 1 ELSE IF r.last = now /\ r.attempts > 0 THEN r.attempts
           ELSE r.attempts + 1
  IN  Attempt(n, IF n >= Threshold THEN now + LockTime ELSE IF stale THEN NoId ELSE r.until)

Count(r) ==
  LET stale == now - r.last > AttemptWindow
      n == IF stale THEN 1 ELSE r.attempts + 1
  IN  Attempt(n, IF n >= Threshold THEN now + LockTime ELSE IF stale THEN NoId ELSE r.until)

\* record_failure: makes room, counts, locks at the threshold.
RecordFailure(t) ==
  LET k == thread[t].key IN
  /\ At(t, "wrong")
  /\ \E S \in IF k \in DOMAIN lockout THEN {DOMAIN lockout}
              ELSE Survivors([x \in DOMAIN lockout |-> Rank(lockout[x])], LockEntries - 1) :
       LET store == Restrict(lockout, S)
           old == IF k \in S THEN store[k]
                  ELSE Attempt(0, NoId)
       IN  /\ lockout' = Put(store, k, Count(old))
           /\ guesses' = [x \in Keys |-> IF x = k THEN Noted(guesses[x])
                                         ELSE IF x \in DOMAIN lockout \ S THEN {}
                                         ELSE guesses[x]]
  /\ Respond(t)
  /\ UNCHANGED <<now, tables, rate, let_in, requests, mishaps>>

\* find_user by email, then clear() and the answer; or 401 for credentials without
\* their user.
FindUser(t) ==
  LET k == thread[t].key IN
  /\ At(t, "find_user")
  /\ IF HasUser(t)
     THEN /\ lockout' = Without(lockout, {k})
          /\ guesses' = [guesses EXCEPT ![k] = {}]
     ELSE UNCHANGED <<lockout, guesses>>
  /\ Respond(t)
  /\ UNCHANGED <<now, tables, rate, let_in, requests, mishaps>>

-----------------------------------------------------------------------------
(***************************************************************************)
(* The clean-up thread, and a restart.                                     *)
(***************************************************************************)

\* run_lockout_cleanup.  No store is ever above its capacity, so neither evicts here.
Cleanup ==
  LET stale == {k \in DOMAIN lockout :
                  IF Locked(k) THEN ~Live(k) ELSE now - lockout[k].last > AttemptWindow}
      recent == [ip \in DOMAIN rate |-> Recent(rate[ip])]
      store == Without(recent, {ip \in DOMAIN rate : recent[ip] = {}})
  IN  /\ lockout' = Without(lockout, stale)
      /\ rate' = store
      /\ UNCHANGED <<now, tables, guesses, let_in, thread, requests, mishaps>>

\* Requests are lost, the stores are empty, committed rows stay.
Restart ==
  /\ mishaps < MaxMishaps
  /\ mishaps' = mishaps + 1
  /\ thread' = [t \in Threads |-> Idle]
  /\ lockout' = << >> /\ rate' = << >>
  /\ guesses' = [k \in Keys |-> {}]
  /\ let_in' = [ip \in Ips |-> {}]
  /\ UNCHANGED <<now, tables, requests>>

-----------------------------------------------------------------------------
Next ==
  \/ Tick
  \/ \E t \in Threads, op \in {"signup", "signin"}, k \in Keys : Arrive(t, op, k)
  \/ \E t \in Threads :
       \/ RefuseBody(t)
       \/ CreateAccount(t)
       \/ Duplicate(t)
       \/ CallFails(t)
       \/ CheckLock(t)
       \/ FindAuth(t)
       \/ Rehash(t)
       \/ RecordFailure(t)
       \/ FindUser(t)
  \/ Cleanup
  \/ Restart

Spec == Init /\ [][Next]_vars

-----------------------------------------------------------------------------
(***************************************************************************)
(* Properties.                                                             *)
(***************************************************************************)

\* create_account: "a half-written signup is unrecoverable": whatever signups race or
\* fail, an email has an account with credentials for it, or is free.
AccountsWhole == users = auths

\* LOCKOUT_THRESHOLD: in no AttemptWindow is a password of one key found wrong more
\* often than the threshold allows, but for the requests that had passed is_locked
\* when the lock fell: at most one for each of the other threads.  A success, an
\* eviction and a restart forget the key, and its count begins again.
GuessesBounded ==
  \A k \in Keys : Cardinality(guesses[k]) <= Threshold + Cardinality(Threads) - 1

\* evict: "active locks sort last and are evicted only after every unlocked record is
\* gone", and no other step shortens a lock that has not run out, except the
\* success of a request that was under way, and a restart.
LockSurvives ==
  [][\A k \in Keys :
       Live(k) /\ now' < lockout[k].until =>
         \/ k \in DOMAIN lockout' /\ lockout'[k].until # NoId
            /\ lockout'[k].until >= lockout[k].until
         \/ \A x \in DOMAIN lockout : Live(x)
         \/ \E t \in Threads : At(t, "find_user") /\ thread[t].key = k
         \/ mishaps' # mishaps]_vars

\* AUTH_RATE_LIMIT: no RateWindow lets more requests of an address through, wherever
\* it starts, unless the full store had to forget the address.
RateHolds == \A ip \in Ips : Cardinality(let_in[ip]) <= RateLimit

=============================================================================
