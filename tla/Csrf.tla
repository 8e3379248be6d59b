-------------------------------- MODULE Csrf --------------------------------
(***************************************************************************)
(* Double-submit CSRF protection: the in-memory CsrfStore of stores.rs,    *)
(* which keeps one token per user, require_csrf() and csrf_retry() of      *)
(* routes.rs, and the browsers of the users, whose cookies change only     *)
(* when an answer arrives.  A browser may sign in to several accounts, and *)
(* an account from several browsers.  Requests of all browsers interleave  *)
(* at every lock of the store; answers are lost; the server restarts.      *)
(*                                                                         *)
(* A token is 256 random bits.  Here it is the user it was minted for and  *)
(* a number, and minting takes a number nothing holds; no handler looks at *)
(* the user in it.                                                         *)
(***************************************************************************)
EXTENDS Naturals, FiniteSets

CONSTANTS
  Browsers,
  Users,
  NoUser,      \* the account of a browser without a JWT cookie
  Scenarios,   \* which accounts the browsers may sign in to; bounds: the kinds of
               \* request they send, and how many mishaps happen: lost answers,
               \* restarts, evictions and failures of the random source
  Slots,       \* bound: requests in flight at the same time
  Tokens,      \* bound: the tokens that may be held at the same time
  NoToken      \* no cookie, an empty x-csrf-token header, no store entry

Kinds == {"signin", "mutate", "signout"}

\* The user a token was minted for.
Owner(t) == t[1]

ASSUME CsrfAssumption ==
  /\ Scenarios \subseteq [accounts : [Browsers -> SUBSET Users],
                           kinds : SUBSET Kinds, mishaps : Nat]
  /\ Browsers # {} /\ Users # {}
  /\ NoUser \notin Users
  /\ NoToken \notin Tokens
  /\ Tokens \subseteq Users \X Nat

VARIABLES
  store,     \* CsrfStore: the token on record for each user
  expired,   \* tokens older than CSRF_TOKEN_EXPIRY_MS
  scenario,  \* the one of Scenarios this behaviour is of; never changes
  account,   \* account[b]: whose JWT cookie b holds
  cookie,    \* cookie[b]: the csrf_token cookie of browser b
  deprived,  \* history: browsers an answer to which was lost, or that ever had
             \* two requests in flight
  phase,     \* phase[r]: where the request in slot r is
  req,       \* req[r]: who sent it, what it asks and the token it carries
  seen,      \* seen[r]: the store entry its check read, then the answer's cookie
  mishaps    \* mishaps so far

browserVars == <<scenario, account, cookie, deprived>>
vars == <<store, expired, browserVars, phase, req, seen, mishaps>>

Phases == {"free", "sent", "judge", "remove", "accepted", "forbidden"}

Entries == Tokens \cup {NoToken}

Requests == [browser : Browsers, kind : Kinds, user : Users, token : Entries]

\* The account a request signs in to, or whose JWT it carries.
User(r) == req[r].user

\* The tokens a store, a cookie, a request or an answer holds.
Held ==
  {store[u] : u \in Users} \cup {cookie[b] : b \in Browsers}
    \cup {req[r].token : r \in {x \in Slots : phase[x] # "free"}}
    \cup {seen[r] : r \in Slots}

InFlight(b) == \E r \in Slots : phase[r] # "free" /\ req[r].browser = b

NoRequest == [browser |-> CHOOSE b \in Browsers : TRUE, kind |-> "mutate",
              user |-> CHOOSE u \in Users : TRUE, token |-> NoToken]

\* accounts[b]: those browser b signs in to.
accounts == scenario.accounts

\* b has one account, which no other browser has.
HasAlone(b, u) ==
  accounts[b] = {u} /\ \A c \in Browsers \ {b} : u \notin accounts[c]

Alone(b) == \E u \in Users : HasAlone(b, u)

Init ==
  /\ store = [u \in Users |-> NoToken]
  /\ expired = {}
  /\ scenario \in Scenarios
  /\ account = [b \in Browsers |-> NoUser]
  /\ cookie = [b \in Browsers |-> NoToken]
  /\ deprived = {b \in Browsers : ~Alone(b)}
  /\ phase = [r \in Slots |-> "free"]
  /\ req = [r \in Slots |-> NoRequest]
  /\ seen = [r \in Slots |-> NoToken]
  /\ mishaps = 0

Mishap == mishaps < scenario.mishaps /\ mishaps' = mishaps + 1

-----------------------------------------------------------------------------
(***************************************************************************)
(* The handlers.                                                           *)
(***************************************************************************)

At(r, p) == phase' = [phase EXCEPT ![r] = p]

\* The slot forgets its request.
Leave(r) ==
  /\ At(r, "free")
  /\ req' = [req EXCEPT ![r] = NoRequest]
  /\ seen' = [seen EXCEPT ![r] = NoToken]

\* generate_csrf_token: one that nothing holds.  All of them are alike, so the first.
Fresh(u, t) ==
  LET unused == {x \in Tokens \ Held : Owner(x) = u}
  IN  t \in unused /\ \A x \in unused : t[2] <= x[2]

\* The token is new to the clock; those that nothing holds any more are forgotten.
Clocked(t) == expired' = (expired \cap Held) \ {t}

\* generate_csrf_token, CsrfStore::set, and the answer that carries the cookie.
Mint(r, verdict) ==
  \E t \in Tokens :
    /\ Fresh(User(r), t)
    /\ store' = [store EXCEPT ![User(r)] = t]
    /\ Clocked(t)
    /\ seen' = [seen EXCEPT ![r] = t]
    /\ At(r, verdict)

\* An answer that leaves the browser's cookies alone.
Answer(r, verdict) ==
  /\ At(r, verdict)
  /\ seen' = [seen EXCEPT ![r] = NoToken]
  /\ UNCHANGED <<store, expired>>

\* set_auth_cookies: a signup or sign-in with the right password.
SetAuthCookies(r) ==
  /\ phase[r] = "sent"
  /\ req[r].kind = "signin"
  /\ Mint(r, "accepted")
  /\ UNCHANGED <<browserVars, req, mishaps>>

\* Plausible bug: the store is searched for the token, whoever's it is.
GetTokenOfAnyone(r) ==
  /\ phase[r] = "sent"
  /\ req[r].kind # "signin"
  /\ At(r, "judge")
  /\ seen' = [seen EXCEPT ![r] = IF req[r].token \in {store[u] : u \in Users}
                                 THEN req[r].token ELSE store[User(r)]]
  /\ UNCHANGED <<store, expired, browserVars, req, mishaps>>

\* require_csrf: CsrfStore::get.
GetToken(r) ==
  /\ phase[r] = "sent"
  /\ req[r].kind # "signin"
  /\ At(r, "judge")
  /\ seen' = [seen EXCEPT ![r] = store[User(r)]]
  /\ UNCHANGED <<store, expired, browserVars, req, mishaps>>

\* require_csrf: no token on record, so csrf_retry.
RetryOnMiss(r) ==
  /\ phase[r] = "judge"
  /\ seen[r] = NoToken
  /\ Mint(r, "forbidden")
  /\ UNCHANGED <<browserVars, req, mishaps>>

\* require_csrf: another token than the one on record.
RefuseMismatch(r) ==
  /\ phase[r] = "judge"
  /\ seen[r] # NoToken
  /\ req[r].token # seen[r]
  /\ Answer(r, "forbidden")
  /\ UNCHANGED <<browserVars, req, mishaps>>

\* Plausible bug: the token that replaces an old one goes to the browser but not
\* into the store.
RetryWithoutSet(r) ==
  /\ phase[r] = "judge"
  /\ seen[r] \in expired
  /\ req[r].token = seen[r]
  /\ \E t \in Tokens :
       /\ Fresh(User(r), t)
       /\ Clocked(t)
       /\ seen' = [seen EXCEPT ![r] = t]
       /\ At(r, "forbidden")
  /\ UNCHANGED <<store, browserVars, req, mishaps>>

\* require_csrf: the right token, but too old, so csrf_retry.
RetryOnExpired(r) ==
  /\ phase[r] = "judge"
  /\ seen[r] # NoToken
  /\ req[r].token = seen[r]
  /\ seen[r] \in expired
  /\ Mint(r, "forbidden")
  /\ UNCHANGED <<browserVars, req, mishaps>>

\* csrf_retry cannot mint: the store forgets the user, and the 403 has no cookie.
RetryWithoutToken(r) ==
  /\ phase[r] = "judge"
  /\ \/ seen[r] = NoToken
     \/ req[r].token = seen[r] /\ seen[r] \in expired
  /\ Mishap
  /\ store' = [store EXCEPT ![User(r)] = NoToken]
  /\ At(r, "forbidden")
  /\ seen' = [seen EXCEPT ![r] = NoToken]
  /\ UNCHANGED <<expired, browserVars, req>>

\* require_csrf: the request goes through.
Pass(r) ==
  /\ phase[r] = "judge"
  /\ seen[r] # NoToken
  /\ req[r].token = seen[r]
  /\ seen[r] \notin expired
  /\ IF req[r].kind = "signout"
     THEN At(r, "remove") /\ UNCHANGED <<store, expired, seen>>
     ELSE Answer(r, "accepted")
  /\ UNCHANGED <<browserVars, req, mishaps>>

\* signout: CsrfStore::remove, whatever token is on record by now.
SignOut(r) ==
  /\ phase[r] = "remove"
  /\ store' = [store EXCEPT ![User(r)] = NoToken]
  /\ At(r, "accepted")
  /\ seen' = [seen EXCEPT ![r] = NoToken]
  /\ UNCHANGED <<expired, browserVars, req, mishaps>>

\* Plausible bug: the hourly clean-up keeps what it should drop.
CleanupKeepsExpired ==
  /\ store' = [u \in Users |-> IF store[u] \in expired THEN store[u] ELSE NoToken]
  /\ UNCHANGED <<expired, browserVars, phase, req, seen, mishaps>>

\* CsrfStore::cleanup, every hour.
Cleanup ==
  /\ store' = [u \in Users |-> IF store[u] \in expired THEN NoToken ELSE store[u]]
  /\ UNCHANGED <<expired, browserVars, phase, req, seen, mishaps>>

\* evict_oldest_entries: cleanup finds more than CSRF_MAX_ENTRIES users, and u is among the oldest.
Evict(u) ==
  /\ store[u] # NoToken
  /\ Mishap
  /\ store' = [store EXCEPT ![u] = NoToken]
  /\ UNCHANGED <<expired, browserVars, phase, req, seen>>

\* A token's 24 hours are over.
Expire(t) ==
  /\ t \in Held \ expired
  /\ expired' = (expired \cap Held) \cup {t}
  /\ UNCHANGED <<store, browserVars, phase, req, seen, mishaps>>

\* The server restarts: the store and every request it was handling are gone.
Restart ==
  LET answered == {r \in Slots : phase[r] \in {"accepted", "forbidden"}} IN
  /\ Mishap
  /\ store' = [u \in Users |-> NoToken]
  /\ phase' = [r \in Slots |-> IF r \in answered THEN phase[r] ELSE "free"]
  /\ req' = [r \in Slots |-> IF r \in answered THEN req[r] ELSE NoRequest]
  /\ seen' = [r \in Slots |-> IF r \in answered THEN seen[r] ELSE NoToken]
  /\ UNCHANGED <<expired, browserVars>>

-----------------------------------------------------------------------------
(***************************************************************************)
(* The browsers.                                                           *)
(***************************************************************************)

\* The page sends a request with the csrf_token cookie in x-csrf-token: a sign-in to any
\* account of its people, which may displace another, or a request of the one it is
\* signed in to, without which require_auth lets nothing pass.  Nobody looks at the token
\* of a sign-in.
Send(r, b, k) ==
  /\ phase[r] = "free"
  /\ At(r, "sent")
  /\ \E u \in IF k = "signin" THEN accounts[b] ELSE {account[b]} \ {NoUser} :
       req' = [req EXCEPT ![r] = [browser |-> b, kind |-> k, user |-> u,
                                  token |-> IF k = "signin" THEN NoToken ELSE cookie[b]]]
  /\ deprived' = IF InFlight(b) THEN deprived \cup {b} ELSE deprived
  /\ UNCHANGED <<store, expired, scenario, account, cookie, seen, mishaps>>

\* The answer arrives, in any order, and its cookies are stored.
Receive(r) ==
  LET b == req[r].browser
      k == req[r].kind
      signedOut == phase[r] = "accepted" /\ k = "signout"
  IN
  /\ phase[r] \in {"accepted", "forbidden"}
  /\ account' = [account EXCEPT ![b] =
                   CASE signedOut -> NoUser
                     [] phase[r] = "accepted" /\ k = "signin" -> User(r)
                     [] OTHER -> @]
  /\ cookie' = [cookie EXCEPT ![b] = IF signedOut THEN NoToken
                                     ELSE IF seen[r] # NoToken THEN seen[r] ELSE @]
  /\ Leave(r)
  /\ UNCHANGED <<store, expired, scenario, deprived, mishaps>>

\* The answer is lost.
Lose(r) ==
  /\ phase[r] \in {"accepted", "forbidden"}
  /\ Mishap
  /\ deprived' = deprived \cup {req[r].browser}
  /\ Leave(r)
  /\ UNCHANGED <<store, expired, scenario, account, cookie>>

\* The cookie lives as long as the token, from when the browser received it.
CookieExpires(b) ==
  /\ cookie[b] \in expired
  /\ cookie' = [cookie EXCEPT ![b] = NoToken]
  /\ UNCHANGED <<store, expired, scenario, account, deprived, phase, req,
                 seen, mishaps>>

Handle(r) ==
  \/ SetAuthCookies(r)
  \/ GetToken(r)
  \/ RetryOnMiss(r)
  \/ RefuseMismatch(r)
  \/ RetryOnExpired(r)
  \/ RetryWithoutToken(r)
  \/ Pass(r)
  \/ SignOut(r)

Next ==
  \/ \E r \in Slots : Handle(r) \/ Receive(r) \/ Lose(r)
  \/ \E r \in Slots, b \in Browsers, k \in scenario.kinds : Send(r, b, k)
  \/ \E b \in Browsers : CookieExpires(b)
  \/ \E u \in Users : Evict(u)
  \/ \E t \in Tokens : Expire(t)
  \/ Cleanup
  \/ Restart

Spec == Init /\ [][Next]_vars

\* Time passes and the hourly thread runs.  No browser is obliged to retry.
FairSpec ==
  /\ Spec
  /\ WF_vars(Cleanup)
  /\ \A t \in Tokens : WF_vars(Expire(t))

-----------------------------------------------------------------------------
(***************************************************************************)
(* Properties.                                                             *)
(***************************************************************************)

\* Every variable of the CSRF model has its type.
TypeOK ==
  /\ store \in [Users -> Entries]
  /\ expired \subseteq Tokens
  /\ scenario \in Scenarios
  /\ account \in [Browsers -> Users \cup {NoUser}]
  /\ cookie \in [Browsers -> Entries]
  /\ deprived \subseteq Browsers
  /\ phase \in [Slots -> Phases]
  /\ req \in [Slots -> Requests]
  /\ seen \in [Slots -> Entries]
  /\ mishaps \in Nat

\* require_csrf(): a state-changing request is let through only with a token minted for
\* the user it acts for, whatever restarts, evictions and other browsers did to the
\* store, and whichever account the browser's csrf_token cookie is from: no "free pass"
\* after a restart, none with the token of the account used before.
OnlyOwnTokenPasses ==
  \A r \in Slots : phase[r] \in {"remove", "accepted"} /\ req[r].kind # "signin" =>
    req[r].token # NoToken /\ Owner(req[r].token) = User(r)

\* What the store and the handlers know of a token: whose it is.  The
\* strengthening that makes OnlyOwnTokenPasses inductive.
TokenInv ==
  /\ \A u \in Users : store[u] # NoToken => Owner(store[u]) = u
  /\ \A r \in Slots :
       phase[r] = "judge" /\ seen[r] # NoToken => Owner(seen[r]) = User(r)

IInv == TypeOK /\ TokenInv /\ OnlyOwnTokenPasses

\* b is signed in to u, whose entry in the store is a token b does not have.
StuckOn(b, u, t) == account[b] = u /\ store[u] = t /\ t \notin {NoToken, cookie[b]}

Stuck(b) == \E u \in Users : StuckOn(b, u, store[u])

\* For a browser that is alone on its account, sends one request at a time and
\* lost neither an answer nor its cookie, a refusal is always retriable, through
\* restarts, evictions and expiry: when it rests, the store has its token or none.
LoneRefusalIsRetriable ==
  \A b \in Browsers \ deprived :
    Alone(b) /\ ~InFlight(b) /\ cookie[b] # NoToken => ~Stuck(b)

\* What makes it inductive: the store holds the token of a lone browser's cookie, or the
\* one that the answer on its way to it carries, or none.
Of(r, b) == phase[r] # "free" /\ req[r].browser = b

Carries(r, b) ==
  /\ phase[r] \in {"accepted", "forbidden"}
  /\ req[r].browser = b
  /\ seen[r] # NoToken

InStep(b, u) ==
  LET t == store[u]
  IN  /\ \A r, s \in Slots : Of(r, b) /\ Of(s, b) => r = s
      /\ \/ cookie[b] = NoToken
         \/ t \in {NoToken, cookie[b]}
         \/ \E r \in Slots : Carries(r, b)
      /\ \A r \in Slots : Carries(r, b) => t \in {NoToken, seen[r]}

\* Browsers act for their own accounts only.
AccountInv ==
  /\ \A b \in Browsers : account[b] \in accounts[b] \cup {NoUser}
  /\ \A r \in Slots : phase[r] # "free" => User(r) \in accounts[req[r].browser]

LoneInv ==
  /\ AccountInv
  /\ \A b \in Browsers \ deprived, u \in Users : HasAlone(b, u) => InStep(b, u)

\* CsrfStore::cleanup(): a token that keeps a browser out of its account, because the
\* store has it, the browser does not and no refusal gives it a new one, does not stay
\* on record for good.
StuckBrowserRecovers ==
  \A t \in Tokens :
    LET Blocks == \E b \in Browsers : StuckOn(b, Owner(t), t) IN Blocks ~> ~Blocks

=============================================================================
