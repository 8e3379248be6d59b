# AppSchool: TLA+ models and proofs

AppSchool is a course platform: a Rust HTTP server (`src/backend/src`, no
framework, std threads, SQLite and libcurl through FFI) and a React front end
(`src/src`). This directory models the server: what its threads, its clients,
Stripe and two processes on one database may do to each other, and the algorithms
that compute without sharing state.

## 1. Inventory

| component | state | operations | interacts with | hard behaviour |
|---|---|---|---|---|
| **Stripe webhook** `routes.rs` 909-1318, `db.rs` | `Users.subscription_*`, `WebhookEvents` | `payment`, `process_webhook`, `apply_sub_patch`, `run_webhook_cleanup` | Stripe (at-least-once, unordered deliveries; reads), the pool, the usage quota | concurrent handlers of one subscription, failure and crash between two calls, duplicates, late events of old subscriptions |
| **Usage quota** `routes.rs` 634-766, `db.rs` 1390-1463 | `usage_count`, `usage_reset_at` | `usage` (check, track), `reset_usage_window`, `consume_usage` | the pool, the clock, the webhook (subscriber status) | check-then-act on the window, boundary of limit and window |
| **CSRF protection** `stores.rs` 96-160, `routes.rs` 196-323, 546-562 | one token per user, in memory | `require_csrf`, `csrf_retry`, `set_auth_cookies`, `signout`, hourly clean-up | browsers' cookies, every mutation | restart loses the store, expiry on both sides, lost answers |
| **Accounts and sign-in** `routes.rs` 364-632, `auth.rs`, `kdf.rs` | `Users`, `Auths` | `signup`, `signin`, lazy rehash | pool, stores | two signups of one address, half-made accounts, hashes of older builds |
| **Login lockout and rate limit** `stores.rs` 162-426, `routes.rs` 1425-1480 | `LockoutStore`, `RateLimitStore` | `is_locked`, `record_failure`, `clear`, `check_and_record`, clean-up | signin, signup | check and record are apart by a key derivation, eviction at capacity, window edges |
| **HTTP server** `http.rs`, `main.rs` | connection queue, live workers, stop flag; per connection a reader | accept, shed, serve, shutdown; read head and body, answer, refuse | every handler | waking a blocked accept, full queue, panics, grace period; framing, slow clients |
| **Database pool** `db.rs` 560-779 | idle connections, closed flag | `checkout`, `with`, `transaction`, `close_all` | every handler | lost wake-ups, panic inside a transaction, close while in use |
| **Boot and schema** `state.rs`, `db.rs` 780-1240, `main.rs` | the database file | `open_in`, `ensure_schema`, `add_missing_columns` | the pool, another process | a crash between two statements, two boots on one file |
| **Stripe worker and client** `stripe_worker.rs`, `stripe.rs` 701-899 | job queue, reply channels, circuit breaker | enqueue, wait with timeout, run, retry | checkout, portal, webhook | late answers, expired jobs, retries longer than the caller waits |
| **Courses and progress** `routes.rs` 1841-2650 | `Enrollments`, `UserProgress`, `Bookmarks` | enroll, quiz submit, guide and rep complete, bookmarks | pool | select-then-insert, read-modify-write of JSON columns |
| **Utilities** `json.rs`, `crypto.rs`, `kdf.rs`, `config.rs`, `auth.rs` | none | parse and write JSON, dates, SHA-256 and Base64, signatures, settings | all | boundaries of eras and blocks, data of older builds, precedence |
| **Front end** `src/src` | view state, the `csrf_token` cookie | fetch with `x-csrf-token` | the API | stale callbacks in text to speech |

How they interact: the accept thread hands connections to a fixed pool of worker
threads; a worker runs one request to its end, calling the database pool (each call
checks a connection out and in again, so two calls of one handler are two atomic
steps) and, for Stripe, the worker queue. The three in-memory stores are
mutex-protected maps; each method is one atomic step. Three janitor threads run
clean-ups. A restart loses the stores and every running request, never SQLite.

What makes each component correct, in a sentence: billing follows Stripe and
converges; the quota is not exceeded; a mutation passes CSRF only with the user's
own token, and a legitimate browser is never locked out for good; a password is
guessed at most as often as the threshold allows; accounts are whole; every accepted
connection is served and shutdown ends; a request is handled as it was sent; every
connection returns to the pool exactly once with no transaction open; who serves has
the whole schema; every Stripe caller gets an answer and no job makes two sessions;
what was answered is kept. What can go wrong, line by line, is `hazards` in
`PROJECT.json`.

## 2. The modules

| module | models | instance | proofs |
|---|---|---|---|
| `SubscriptionMirror` | what billing promises: the stored subscription follows Stripe's history | | |
| `Webhook` | the webhook handler, Stripe, the two tables | `MCWebhook` | `WebhookProofs` |
| `UsageQuota` | `POST /api/usage` and its two statements | `MCUsageQuota` | `UsageQuotaProofs` |
| `Csrf` | the CSRF store, its check, and the browsers | `MCCsrf` | `CsrfProofs` |
| `DbPool` | the connection pool: checkout, return, transactions, closing | | `ProcessProofs` |
| `Boot` (extends `DbPool`) | processes that boot on one file, then the pool they serve with | `MCBoot` | `ProcessProofs` |
| `Server` (extends `DbPool`) | accept thread, queue, workers, shutdown, over the pool | `MCServer` | `ProcessProofs` |
| `HttpConn` | one keep-alive connection: reading, framing, refusing, deadlines | `MCHttpConn` | `BoundaryProofs` |
| `StripeWorker` | job queue, timeouts, retries, circuit breaker | `MCStripeWorker` | `StripeWorkerProofs` |
| `Accounts` | sign-up, sign-in, lockout, rate limit | `MCAccounts` | `AccountsProofs` |
| `Progress` | enrolment, quizzes, guides, reps, bookmarks | `MCProgress` | `ProgressProofs` |
| `Json` with `JsonNumbers`, `Calendar`, `Crypto`, `Signatures`, `Passwords`, `Quiz`, `Settings` | the algorithms that share no state, put together in `Toolbox` | `MCToolbox` | `BoundaryProofs` (`Crypto`, `Signatures`), `ProcessProofs` (`Calendar`, `Passwords`, `Settings`), `ProgressProofs` (`Quiz`, `JsonNumbers`) |

Each module has one action per call that touches shared state (one pool call, one
lock of a store, one Stripe call, one SQL statement outside a transaction); what a
handler computes between two such calls is part of the action before. The operators
under "Plausible bug" are never taken by the specification: each is a mistake the
code could have had, which a property is known to catch when it replaces the
definition below it.

### Webhook

`timeline[s]` is Stripe's history of subscription `s`: the content of a subscription
(status and period end) is named by its revision, so a row of `Users` holds
`[sub, rev]`, or `None`. `emitted` and `acked` are the events Stripe generated and
those it got a 2xx for; `recorded` is `WebhookEvents`. A worker's handler is at
`pc[w]`, with its event in `job[w]` and what `retrieve_subscription` returned in
`fetched[w]`. The actions follow the calls of `payment` and `process_webhook` in
order: `SkipRecorded`/`Process` (`find_webhook_event`), `RetrieveSubscription` with
`owns_subscription`, `ResolveCustomerEmail`/`CustomerHasNoEmail`, `FindUser` with
`is_superseded`, `UpdateUserSubscription`, `InsertWebhookEvent`/`InsertFails`. Every
one of these calls may fail (`CallFails`), the answer may be lost (`AckLost`), the
process may die (`Crash`), the clean-up may forget an event, Stripe may deliver a
duplicate while the first is in progress. `settled` and `overlapped` are history
variables that only the properties read.

The three event families (`customer.subscription.*`, `checkout.session.completed`,
`invoice.paid`) differ in how a missing email is answered and in whether an email
comes with the event; `invoice.payment_failed` writes nothing. Which event announces
a payment is left open, since each must suffice alone. `active` stands for both
takeover statuses, `canceled` for every final one.

### UsageQuota

One user's row (`usage_count`, `reset_at`, `paidUntil`), the clock in seconds, and
the handlers. A handler reads the row (`FindUser`), decides on it and on the clock
(`Decide`), and issues one statement: `ResetUsageWindow`, unconditional as in the
code, or `ConsumeUsage`/`LimitReached`, whose condition is evaluated by the
statement. `used` counts the units answered 200 since the last reset that was due.

### Csrf

`store`, `expired` (tokens older than 24 h) and, for each browser, its `cookie` and the
`account` its JWT cookie is for. A browser may sign in to several accounts and an
account from several browsers (`scenario`, fixed in a behaviour, says which). A request
in a slot is sent with the cookie it was built from, then the handler reads the store
(`GetToken`), judges, and possibly mints (`Mint` is `csrf_retry` and `set_auth_cookies`)
or removes (`SignOut`); its answer changes the cookies only when it arrives, in any
order with others. Tokens are 256 random bits, so minting picks a token nothing holds; a
token is named by the user it was minted for, which no handler looks at. `Restart`,
`Evict`, `Lose` and `RetryWithoutToken` (the random source fails) are bounded mishaps. A
browser without a cookie sends an empty header, as `getCSRFToken() ?? ''` does. The
front end is outside the Rust code and modelled from how it calls the API.

### DbPool

`idle` and `closed` are `PoolState`; `at[t]` is where a thread is in the pool and
`conn[t]` the connection its `Checkout` guard holds; `open` and `freed` are what SQLite
knows, the connections with a transaction begun and those closed. One action per
critical section of the pool's mutex or SQLite call: `Refuse`, `Take` and `Wait` are
`checkout`, `Begin`, `Body` and `EndTransaction` are `transaction`, with `BodyFails` and
`CommitFails` going through `TxGuard`; `Drop` is the guard's. The code releases the mutex
before it notifies, so `NotifyOne` and `WakeAll` are steps of their own, and
`SpuriousWakeup` may happen at any time. Which waiter a notification wakes is left
open. Three things are assumed: a `ROLLBACK` of an open transaction succeeds (the code
can only log when it does not), no closure calls the pool again (`transaction`'s
comment forbids it and the `*_tx` helpers obey), and SQLite gives the write lock to one
connection at a time.

### Boot

The database file is `tables`, `columns` (those an older table may lack), `indexes` and
`duplicated` (unique indexes whose columns hold duplicates). `Plan` is what
`ensure_schema` executes, in its order; `step[p]` is the statement process `p` has reached,
`missing[p]` what `PRAGMA table_info` found lacking for the table under repair. Each
statement commits by itself, so `Die` may fall between any two, and `BootInit` allows
every file an earlier build or an interrupted boot could leave. `ALTER TABLE ADD COLUMN`
fails when the other process was first, which makes `main` exit; the supervisor starts
it again. Two bounds: the pool has traffic once every process serves (they share only
the file), and a serving process dies only before it has had traffic. The application's
tables are taken to be absent or whole, since the code repairs no column of theirs.

### Server

`place[c]` is where a connection is (away, in the kernel's backlog, accepted, queued,
served, closed), `queue` the bounded `sync_channel`, `acceptor` and `worker[w]` the next
step of each thread. `Offer` queues or sheds; a worker reads a request, runs the
handler (which may call the pool or panic: `HandlerEnds` is both, since a caught panic is
answered 500; `ParserPanics` ends the connection) and answers it; `live` is `Inner.live`. `main`
goes from the signal through `trigger` (a throwaway connection that may fail), the wait
for `live = 0` or the end of the grace period, and `close_all`, to the exit. Threads
that are not workers are janitors that only call the pool.

### HttpConn

A conversation is a sequence of requests; `Wire` puts each on the wire in pieces (a
line, or an octet of a body). The client delivers pieces at any pace and may stop
anywhere. The reader goes through request line, header fields, `Framing` (lengths,
one that is no number included, and codings), body or chunks, and the handler's answer;
a refusal is one answer, the last. Whether the connection stays is decided by the first
`Connection` field alone, as `Headers::get` does (`HasToken`); the same rule is in
`Stays`, so the properties do not say that later such fields should count. Time is what
is left of `budget` and of `timer`, the socket's read timeout, which `Arm` sets before a
read. The request line has a budget of its own (`request_timeout`, from the second
request on `idle_timeout`), and `request_timeout` starts anew behind it; `spent` counts
the ticks of each. The size of a head
is counted in pieces. Percent-decoding, routing and the wording of headers are left out.

### StripeWorker

A handler is a sequence of Stripe calls (`Plans`: checkout resolves a price, then makes
a session). `caller[c]` sends a job or is told the queue is full, and waits with
`patience[c]`; `left[j]` is what is left of the job's deadline; `worker[w]` takes a job,
checks the deadline, draws an idempotency key for a POST (`DrawKey`, with `drawn` keys
so far; the random source may fail), tests the circuit once, and requests with up to
`MaxRetries` repetitions between which it waits (`Waits`: exponential, or what Stripe
asks for). Stripe may do what was asked and lose the answer: `sessions` records for
which jobs and under which keys it made something, one session for each key. `Tick` lets
all timers run down together. A Stripe thread may panic and is not replaced.

### Accounts

`users` and `auths` are the two tables, `lockout` and `rate` the stores with their
capacity; a request of `thread[t]` passes the rate limit (`Arrive`), then is a sign-up
(`HasAuth`, `HasUser`, `CreateAccount`, one transaction) or a sign-in (`is_locked`,
`find_auth`, verification, `record_failure` or `clear`, rehash, `find_user`).
`Survivors` is `evict_oldest_entries`. The passing of time between two steps stands for
the key derivation. `guesses` and `let_in` are histories for the properties. A vector of
timestamps is a set of pairs, the second numbering those of one instant: the code
reads a vector's oldest entry, its newest and its length, never its order.

### Progress

One course. `progress`, `enrollments`, `bookmarks` are tables with their unique indexes;
a handler reads a row in one pool call and writes the columns its UPDATE names in a
later one (`Updated`); JSON columns are sequences. `raced` marks the answered requests
whose list another request read before or wrote after: exactly those the code may lose.

### Toolbox

Each of the seven modules has a few variables that walk through its inputs and one
invariant that compares the code's algorithm with an independent definition:
`Json` (the recursive parser and writer against the grammar, on texts of symbol classes,
numbers as doubles: what is too large is read as infinite and written as `null`, as
`format_number` does), `Calendar` (days to dates against counting),
`Crypto` (incremental hashing's padding, Base64), `Signatures` (session tokens and Stripe's
header under skewed clocks, restarts and a rolled secret), `Passwords` (stored forms and
costs while builds with other costs serve at once), `Quiz` (shuffled options, letters,
grading), `Settings` (shell, `.env.local`, `.env`, placeholders, `NODE_ENV` or `ENV`; a
link `.env` is replaced by a copy of the template, and the removal, the copy or any read
may fail). A copy cut short is a regular file, which the next start takes as it is. HMAC,
scrypt and bcrypt are perfect functions there: equal exactly on equal inputs.

Doubles and rounding. A double is its decimal digits and its power of ten. The conversion
of a decimal to the nearest double is the constant `Nearest`, of which the proofs assume
nothing; the run takes `NearestDouble`, which is exact for its texts, of at most six
symbols. `format_number` looks for an exponent in what `Display` writes for a float;
`Display` never writes one, so that branch is not in the model, and 1e21 is written with
all its zeros (the comment at `json.rs:528` and JavaScript have `1e+21`). A quiz score is
the rounded product of doubles; `Scores` lets an exact half go either way, since the
product may lie on either side of it (23 points of 40 are 57).

## 3. The runs

| run | configuration | shows |
|---|---|---|
| `webhook_serial` | 1 handler, 2 subscriptions of one buyer, 2 revisions each, 1 mishap | `QuietIsUpToDate`: when nothing is left to deliver, rows agree with Stripe; `PayingIsServed`: a user who pays for one subscription is stored as paying for it; `MirrorSpec`: the refinement; `EventuallyUpToDate`: it converges |
| `webhook_concurrent` | 2 handlers; a buyer's plan, a customer without email, another application's plan; 1 mishap | `AckedWasHandled`: no event is given up before it is handled; `StoredWasBought`: no row takes somebody else's subscription |
| `webhook_last_write` | 2 handlers, no mishap | violated: `QuietIsUpToDate` |
| `usage_concurrent` | 2 requests at a time, limit 2, window 3, clock to 10, 1 mishap | `CountWithinLimit`; `LeakIsBounded`: what the unconditional reset can leak |
| `csrf` | 2 requests at a time; 1 browser alone with all kinds of request and 1 mishap; 1 browser on 2 accounts; 2 browsers on 1 account and 1 mishap | `OnlyOwnTokenPasses`, `LoneRefusalIsRetriable`, `StuckBrowserRecovers` |
| `pool` | 2 processes booting on one file of any earlier shape (2 core tables with 3 repairable columns, 1 application table, 2 unique indexes); then 4 threads, 2 connections, 4 calls; 1 failure or death | `ServesWholeSchema`, `BootsAtLast`; `EachConnInOnePlace`, `NoStrayTransaction`, `EveryCallEnds` |
| `server` | 2 workers, 2 connections, a queue of 1, 1 database connection, 2 pool calls, 1 mishap | `WorkersOutliveTraffic`; `NobodyStarves`: a queued connection is served; `CleanShutdown`: shutdown ends without the grace period's help |
| `stripe` | 2 callers, 2 Stripe threads, queue of 1, 3 jobs, 2 attempts each, timers of 1 tick, 1 panic | `OneSessionPerJob`, `ExpiredIsDropped`, `OpenCircuitIsQuiet`, `EveryCallEnds` |
| `accounts` | 2 threads, 4 requests, 2 emails, 2 addresses, stores of 2 and 1 entries, thresholds 2, clock to 3, 1 mishap | `AccountsWhole`, `GuessesBounded`, `LockSurvives`, `RateHolds` |
| `progress` | 2 threads, 3 requests, 2 users (one enrolled before), 2 guides, a quiz, a rep, 1 mishap | `OneRowEach`; `AnsweredIsKept`: what was answered 200 stays unless raced; `RowAddsUp` |
| `http` | 2 requests on a connection, plain, with a length, in chunks or malformed, bodies to 2 octets, heads to 5 pieces | `HandledAsSent`, `RefusedRightly`, `HeadInBudget` |
| `toolbox` | texts of 6 symbols or 10 grown, 438 years of days, blocks of 8, 5 seconds, 2 builds, 2 questions, 4 settings | one invariant for each algorithm |

Bounds. *Webhook*: two revisions are what a stale read takes, and a third shows nothing
new, since a write compares nothing but the subscription. *Mishaps*: one failure reaches
every error path. Two handlers suffice for every race between two steps of one handler.
*Quota*: the clock covers three windows, and a window is three times `Deadline`, what a
request may take of the 30 days (see `LeakStaysBounded` below for why three). *CSRF*: a
token of somebody else takes two accounts in one browser, a refusal that races takes two
browsers on one; two tokens of one user and one of the other are what a mismatch takes,
and when nothing is left to mint the request waits. *Pool*: two connections let two
returns race for two sleepers, which a lost wake-up takes. *Boot*: two columns in one
table let both processes find both missing, and add one each; a table with its index in
each half of the plan shows the order. *Server*: two clients keep both workers or one
worker and the queue busy, and with a queue of one the second is shed while the first
waits; the janitors' calls are left to the `pool` run, which has more threads than
connections. *Stripe*: two threads are what `strays` can exceed zero with; one retry
shows a key used twice, where another could be drawn, and a deadline passed in a pause;
three jobs fill both threads and the queue. *Accounts*: a lockout store of two and a
rate store of one evict on the third key and the second address, and the clock passes a
whole lock. *Progress*: a lost update takes two requests, and a third comes after it.
*HTTP*: the second request is what a wrong frame of the first would corrupt, and shows
the second budget of a request line; a body may look like a request line; the first
request may have two `Connection` fields that contradict. *Toolbox*: the dates cross the
ends of an era and 1970; texts nest arrays and objects past `MaxDepth`; messages go past
two blocks; a roll of the secret falls anywhere between sending and arriving.
`CHECK_DEADLOCK FALSE` is set everywhere because the bounds, and clients' silence, let
the system stop.

Fairness. `Webhook`: a handler that has started runs to its end (threads are
scheduled and every call returns or fails), and Stripe delivers again while an event
has no 2xx. Stripe in fact stops after about three days; the model assumes a failure
does not last that long. Nothing obliges Stripe to change anything. `Csrf`: tokens
age and the hourly thread runs; no browser is obliged to retry. `DbPool`: threads in the
pool are scheduled and SQLite answers (its busy timeout turns a held lock into an
error); nobody is obliged to call or to close. `Boot`: a process that is down is started
again by its supervisor, and its statements return; deaths are bounded. `BootsAtLast` is
about files without duplicates and a deployment with its secret, because the code exits
for ever without them. `Server`: the threads run and every read ends (by an answer, the
client's end or a timeout); nobody is obliged to connect or to send the signal, and the
grace period may be as long as it takes. `NobodyStarves` adds `NoClientHogs`: a client
that sends requests on one connection for ever does keep a worker. `CleanShutdown` is
about runs in which the waking connection succeeds. `StripeWorker`: time passes, threads
are scheduled, libcurl's timeout ends every request. The other modules claim no liveness.

### What disagrees with the code's own comments

One disagreement is a run that TLC answers with a shortest trace, and an entry under
`findings`: *last write wins* (`routes.rs:977`). Of two handlers of one subscription,
the one that read Stripe first writes last, and the row stays stale with nothing left
to deliver, although the comments at 1078 and 1138 rely on absolute values read as they
are now.

Others were met while modelling; the properties state what holds instead.

- *Takeover by a non-paying subscription* (`routes.rs:966`). `is_superseded` judges a row
  that another handler may replace before the UPDATE. `webhook_serial` shows takeover is
  right when handlers do not overlap.
- *Two first requests of a window* (`routes.rs:726`). The unconditional reset erases the
  other request's unit, against the comment at 724. `LeakIsBounded`: each request that
  was in flight when the window ended can grant the limit at most once more.
- *A refusal that cannot be retried* (`routes.rs:237`). With two devices on one account
  the mismatch branch hands out no token, against 198 and 551. `LoneRefusalIsRetriable`
  and `StuckBrowserRecovers` hold: a lone browser with its cookie can retry, and any
  browser gets out after at most the expiry and the next clean-up.
- *Work after the caller has left* (`stripe_worker.rs:8`). "Workers drop expired work"
  holds at the start of a job (`ExpiredIsDropped`); a job that has begun runs through all
  its attempts, long after its caller was answered 504, and may make a session nobody
  was told of.
- *A budget that is not absolute* (`http.rs:443`). Head lines and chunk lines are read in
  single reads armed with what is left of the budget, but `read_exact` loops inside one
  arming (`http.rs:1146`), so a body dribbled within the timeout outlives
  `request_timeout`. A head as a whole has two budgets, one for the request line and one
  for the fields. `HeadInBudget` is about these two.
- *Each table is compared* (`db.rs:1004`). Only the core tables are; the application's
  tables get no column repair, so a column added to one of them would be missing from
  older files.
- *`NODE_ENV` in `.env`*. `AppState::open` decides on production before the files are
  read, `open_in` after: a value found only in a file is seen by the second alone.

Seen on the way and not pursued: a user paying for two subscriptions who cancels the
newer is stored as canceled until the older one's next event (why `PayingIsServed`
excludes `overlapped`); `is_subscriber` counts `active` and not `trialing`, which
`TAKEOVER_STATUSES` does; a customer without email makes every
`customer.subscription.*` delivery a 400; a `check` also starts a window; the guide
calls `reset_at` milliseconds where the code stores seconds.

## 4. The proofs

TLAPS proves, for every value of the constants that satisfies the named assumptions of
the modules (types, finiteness, distinctness of model values, positive capacities):

| theorem | states |
|---|---|
| `WebhookProofs!TypeCorrect`, `RecordIsHonest`, `AnswerIsHonest`, `OwnSubscriptionsOnly` | the type invariant, and the safety invariants of `webhook_concurrent` |
| `WebhookProofs!WebhookMirrors`, `UpToDateWhenQuiet`, `PayersAreServed` | with at most one handler (`OneAtATime`): `Spec => MirrorSpec`, and the safety invariants of `webhook_serial` |
| `UsageQuotaProofs!CounterIsCapped`, `LeakStaysBounded`, `QuotaTypeCorrect` | the counter never passes the limit; what the unconditional reset can leak |
| `CsrfProofs!OwnTokenOnly`, `LoneRefusalsAreRetriable`, `CsrfTypeCorrect` | only a user's own token passes, whichever account the cookie is from; a lone browser can retry |
| `AccountsProofs!AccountsAreWhole`, `GuessesAreBounded`, `RateIsHeld`, `LocksSurvive`, `StoresAreBounded` | all properties of `accounts`, and the stores' capacities |
| `ProgressProofs!RowsAreUnique`, `AnswersAreKept`, `RowsAddUp` | all properties of `progress` |
| `ProgressProofs!NumbersAreReadExactly` | in any text, from any place, `number()` accepts the numbers of the grammar, to their ends, and nothing else, and the value is the double of that text |
| `ProgressProofs!QuizzesAreGradedAsPicked` | the text picked is the text graded, in whatever order it was stored and shown |
| `StripeWorkerProofs!OneSessionOnly`, `LateJobsAreDropped`, `OpenCircuitStaysQuiet`, `StripeTypeCorrect` | all safety properties of `stripe` |
| `ProcessProofs!NoConnectionIsLost`, `NoTransactionIsLost`, `ClosedPoolIsDrained`, `NoWakeupIsLost`, `PoolTypeCorrect` | the safety invariants of the pool |
| `ProcessProofs!WholeSchemaServed`, `BootKeepsTransactions` | who serves has the whole schema; no stray transaction |
| `ProcessProofs!WorkersStay`, `RequestsAreKept`, `HandlersKeepTheirPool` | workers outlive traffic; no request that was read is forgotten; the pool is closed under a handler only after the grace period |
| `ProcessProofs!ServerImplementsPool`, `ServerKeepsConnections` | `ServerSpec => PoolSpec`, so the pool's theorems hold of the server |
| `BoundaryProofs!RequestsAreHandledAsSent`, `RefusalsAreRight`, `HeadsAreInTime` | all properties of `http`: what is handled is what was sent, what is refused is ill formed, a request line and then the header block are read or given up within the budget of each |
| `BoundaryProofs!CryptoStaysExact` | the digest does not depend on how a message is fed, Base64 comes back, what is decoded is the bits of the text |
| `BoundaryProofs!SignaturesAreRight` | the property of the session tokens and Stripe's signatures |
| `ProcessProofs!DaysFollow`, `DatesStayRight` | both date algorithms follow the calendar, on every day there is |
| `ProcessProofs!PasswordsStillOpen`, `SettingsAreRight` | the properties of the password forms and of the settings |

The arguments:

- *Webhook*: the invariants speak of events recorded or answered; what they need is what
  a handler knows between two calls (`JobInv`): its event was emitted, the fetched
  revision lies between the event's and the newest, and at the step that records, the
  event is handled. Stripe only appends to `timeline`, so nothing a handler knows is
  ever undone, which is `JobStays`.
- *Refinement*: with one handler, the row `FindUser` judged is still the row
  `UpdateUserSubscription` writes, and no stored revision is newer than the fetched one
  (`SerialInv`); with two handlers neither holds, as `webhook_last_write` shows.
- *Quota*: `consume_usage` caps the counter by itself; the reset writes at most 1, so
  the invariant adds `ResetAdmitted`, that a tracking request only resets when the limit
  is at least 1.
- *Leak*: a request that can still reset an open window (`Reopeners`) is one limit not
  yet spent (`SpentInv`); that it does so once follows from the times: such a request
  began before the window was reopened (`ReopenInv`), so it has left before the window
  ends.
- *CSRF*: the store maps a user only to tokens minted for that user, and a handler that
  judges holds such a token (`TokenInv`); minting takes a token nothing holds, so it
  changes no other token's owner.
- *Retry*: `LoneInv`, the store of a lone browser holds its cookie's token, or the one
  an answer on its way carries, or none; with one request at a time there is at most one
  such answer, and only a mishap loses it.
- *Pool*: `ConnInv` ties guards to the steps at which they hold a connection, and
  `NoLostWakeup` is inductive as it stands once the pool is known to be empty when
  closed: a return adds one idle connection and one thread on its way, a taker removes
  one of each, and a notifier leaves the way by sending a sleeper.
- *Boot*: `BootInv` says that every statement before `step[p]` is done, which nobody
  undoes, and that what a repair under way still lacks is in its list; that the list was
  read before the other process wrote does no harm, because the file only grows. The
  plan itself is shown to create every table it repairs (`PlanIsSeq`).
- *Server*: the invariant adds what each step has in hand (`InHandInv`) and how far
  shutdown has come (`ShutdownInv`): only the accept thread's leaving lets a worker
  leave, and it leaves only on the stop flag. The pool's closed flag is set by
  `ClosePool` alone.
- *Stripe worker*: `DeadlineInv`, the deadline of a job a caller waits for is no later
  than the end of its patience, so it has run out when the caller gives up; `PlaceInv`,
  a job is in the queue or with one thread; `KeyInv`, no two threads have one key, no
  queued job has a session, and a session of the job a thread works on carries the
  thread's key.
- *Circuit*: the requests that threads past the test may still send are counted as the
  set `ToCome`; while the circuit is open every request takes one out of it and adds one
  to `strays`, and nothing adds to it.
- *Quiet*: `LastInv`, the latest settled revision of a row's subscription is what the
  row holds, every change has an event not yet answered or is settled, and a lone
  handler's fetched revision is no older than the settled one; so with no event left,
  settled is newest.
- *Accounts*: a record that is not locked has counted every wrong guess of the window; a
  lock begins at the last of them and outlasts them all; and while it runs, guesses made
  and requests still verifying (`Pending`) together stay within the bound, because the
  check lets nobody else in. Eviction takes the lowest ranks (`Survivors`), so a running
  lock goes only when every record is locked; what is evicted starts again from nothing,
  and `GuessesBounded` counts from there, as the code must.
- *Progress*: `KeptInv`, whoever will write a list back has read it since the answer, or
  the answer is `raced`; so what was told is in the row and in each copy that will
  replace it. `RowAddsUp` holds of rows and of these copies; appending to a list adds
  one term to `MinutesOf`, a recursive function whose values are reached by the least
  counterexample (`WFMin`), since the library's induction theorems take an operator.
- *Requests*: `ReaderInv` places the reader in the conversation. The requests before the
  one it reads are handled as they were sent; of that one it holds what it has read, and
  it stands on the wire behind the piece it read last: a line, a field, a chunk or the
  body. The wire is `FlattenSeq` of the pieces, a recursive function, of which every
  fact used (where a piece begins, what follows it) holds for all lengths because no
  length is the least for which it does not. A reader that has refused is not in the
  conversation any more; the request it refused is then shown to be ill formed or cut
  short.
- *Digest*: `Holds`, however a message was fed to it, the hasher has compressed the whole
  blocks of a prefix of it and holds the rest in its buffer. Padding is one more call of
  `update()`, so the digest is that of the blocks of the padded message, for every block
  and suffix length.
- *Base64*: a text is known by its groups (`Divides`, `MadeOfOne`), padding only follows
  the last of them, and one group is four sextets that are three octets (`ZerosStay`: the
  sextets not written are zero). Decoding is compared bit by bit, 24 to a group.
- *Head*: `BudgetInv`, budget and time spent add up to the timeout of the request line or
  of the fields, and a read is never armed for more than the budget.
- *Dates*: the arithmetic is redone with quotients given by their bounds, years from
  March and eras apart; that each date follows the one before is then linear, for every
  integer.
- *Signatures*: what is signed says when and with which secret, and the secrets in force
  always include the process's.
- *Passwords*: every stored hash is the owner's, in a form and with a cost the reader
  accepts (`OwnHash`).
- *Quiz*: an option row and what the page shows are orders of the author's options
  (`QuizInv`), and lettered options have one order by letter, because a permutation that
  keeps the order moves nothing (the least one it moved would contradict it); so the
  letter picked names the same text on both sides. Sums are cardinalities of sets of
  pairs, hence earned is total exactly if every question is right.
- *Numbers*: `NumberAt` says where the parts of a number meet in the text around it. The
  reader stops at these places because digits end in one place (`DigitsEnd`); the grammar
  cuts there, in whichever text the number stands (`NumberStands`, `NumberMoves`).
- *Settings*: loading over the shell, file by file, leaves each variable with its first
  definition (`FirstPlaceWins`).

The invariants were checked by TLC on the runs' instances before they were proved.

What the proofs found out about the models:

- `LeakIsBounded` was stated for windows longer than two deadlines. That is too short: with
  a window of 7 and a deadline of 3, TLC finds a request that reads the row between two
  resets of one window and is itself late. The bound is three, and the assumption says so.
- `Passwords` needs every build's cost to be within what the reader accepts
  (`WithinLimits`). Nothing in `kdf.rs` ties `CURRENT_PARAMS` to `SCRYPT_MAX_*`: a release
  that raised one past the other would not open the hashes it writes.
- `RequestsAreHandledAsSent` needs `ConversationsAssumption`: a client's `Content-Length`
  is that of the body it sends. One whose length lies says something else than it means,
  and what the process then handles is what was said.
- `Signatures` needs the clocks' skew to be no more than `WEBHOOK_TOLERANCE_SECS`.
- `GradedAsPicked` needs what `QuizAssumption` says: the texts of a question differ, none
  of them is a letter, and points are positive. This is so of every quiz of
  `databases/AppSchool.db`, and nothing in `routes.rs` makes it so. From 200 points on a
  score rounds up to 100 with a question missed (199 of 200), so that clause says fewer.
- Three `CASE` expressions had arms that overlap (`JwtVerify`, `NextDate`, `ReadValue`).
  TLC takes the first, TLA+ leaves the choice open; they are `IF` now, in the code's order.

Only model-checked:

- `ReadsAndWritesJson`: `Json` uses RECURSIVE operators, as the parser does, and tlapm has
  no SMT backend for them. The reader of numbers recurses nowhere; it is in `JsonNumbers`,
  about which `NumbersAreReadExactly` is proved.
- The liveness properties `EventuallyUpToDate`, `StuckBrowserRecovers`, `EveryCallEnds`,
  `BootsAtLast`, `NobodyStarves` and `CleanShutdown`: fairness and ENABLED are out of the
  prover's reach.
- What two overlapping webhook handlers do: `QuietIsUpToDate` is then false
  (`webhook_last_write`).

## 5. Not modelled

- The compression functions of SHA-256, scrypt and bcrypt, the SQLite, libcurl and
  TLS bindings: arithmetic and FFI, tested against published vectors or external.
- E-mail and password validation, static security headers, percent-decoding, routing,
  log wording, the form encoding of Stripe's parameters: stateless.
- Catalogue reads, `me`, the user's name, the xAI token call: they change no state that
  a property depends on.
- The rounding of decimals to doubles and of doubles to their shortest decimal, the
  standard library's (see Toolbox above for where it is felt).
- `TEST_DATABASE_PATH` and the test-only constructors. Rows written before
  `subscription_id` existed, which accept any patch once, and a negative
  `FREE_USAGE_LIMIT`, which behaves as 0, are left out of the instances.
- Text to speech and the views of the front end, build scripts, seed data, the blog and
  the documentation.

## 6. Plan

What would come next: the abstract specification behind `RowAddsUp` (a log of submissions
from which a row is computed) would make a refinement of `Progress`; and `Json` with its
parser as a recursive function of the text, whose proof would be of the grammar.
