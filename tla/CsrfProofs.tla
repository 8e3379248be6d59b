----------------------------- MODULE CsrfProofs -----------------------------
(***************************************************************************)
(* No request gets past require_csrf without a token minted for its own    *)
(* user, whichever account the cookie of its browser is from; and a        *)
(* browser alone on its account, that lost nothing, can retry what was     *)
(* refused: for any browsers, accounts, requests in flight and mishaps.    *)
(***************************************************************************)
EXTENDS Csrf, TLAPS

USE CsrfAssumption

\* An anonymous slot is a well-formed request, and some user exists.
LEMMA SomeUser == /\ NoRequest \in Requests
                  /\ (CHOOSE u \in Users : TRUE) \in Users
  BY DEF NoRequest, Requests, Kinds, Entries

\* The invariant holds with an empty store and idle slots.
LEMMA InitInv == Init => IInv
  BY SomeUser DEF Init, IInv, TypeOK, TokenInv, OnlyOwnTokenPasses, Entries, Phases

\* Every request in a slot has a user.
LEMMA UserType == ASSUME TypeOK PROVE \A r \in Slots : User(r) \in Users
  BY DEF TypeOK, User, Requests

\* Minting gives the user a token of their own, and the others keep theirs.
LEMMA MintInv ==
  ASSUME IInv, NEW r \in Slots, NEW verdict \in {"accepted", "forbidden"},
         Mint(r, verdict), phase[r] # "free",
         verdict = "accepted" => req[r].kind = "signin",
         UNCHANGED <<browserVars, req, mishaps>>
  PROVE  IInv'
  <1>1. PICK t \in Tokens :
          /\ Owner(t) = User(r)
          /\ store' = [store EXCEPT ![User(r)] = t]
          /\ expired' = (expired \cap Held) \ {t}
          /\ seen' = [seen EXCEPT ![r] = t]
          /\ At(r, verdict)
    BY DEF Mint, Fresh, Clocked
  <1>2. User(r) \in Users /\ \A x \in Slots : User(x)' = User(x)
    BY UserType DEF IInv, User
  <1>3. phase' = [phase EXCEPT ![r] = verdict] /\ phase \in [Slots -> Phases]
    BY <1>1 DEF At, IInv, TypeOK
  <1>4. TypeOK'
    BY <1>1, <1>2, <1>3 DEF IInv, TypeOK, Entries, Phases, browserVars
  <1>5. TokenInv'
    BY <1>1, <1>2, <1>3 DEF IInv, TypeOK, TokenInv, Entries
  <1>6. OnlyOwnTokenPasses'
    BY <1>2, <1>3 DEF IInv, OnlyOwnTokenPasses
  <1> QED
    BY <1>4, <1>5, <1>6 DEF IInv

\* The scenario's requests are of the known kinds, and no step changes the scenario.
LEMMA ScenarioKinds == TypeOK => scenario.kinds \subseteq Kinds
  BY DEF TypeOK

LEMMA ScenarioFixed == [Next]_vars => scenario' = scenario
  BY DEF Next, Handle, SetAuthCookies, GetToken, RetryOnMiss, RefuseMismatch,
         RetryOnExpired, RetryWithoutToken, Pass, SignOut, Receive, Lose, Send,
         CookieExpires, Evict, Expire, Cleanup, Restart, vars, browserVars

\* A step that mints nothing, adds no entry to the store and lets nothing new
\* through keeps the invariant.
LEMMA QuietInv ==
  ASSUME IInv, TypeOK',
         \A u \in Users : store'[u] \in {store[u], NoToken},
         \A r \in Slots :
           /\ phase'[r] # "free" => phase[r] = phase'[r] /\ req'[r] = req[r]
           /\ phase'[r] = "judge" => seen'[r] = seen[r]
  PROVE  IInv'
  <1>1. TokenInv'
    BY DEF IInv, TokenInv, User
  <1>2. OnlyOwnTokenPasses'
    BY DEF IInv, OnlyOwnTokenPasses, User
  <1> QED
    BY <1>1, <1>2 DEF IInv

\* One handler moves on without touching the store.
LEMMA HandlerInv ==
  ASSUME IInv, NEW r \in Slots, NEW p \in Phases \ {"free"}, NEW t \in Entries,
         UNCHANGED <<store, expired, browserVars, req, mishaps>>,
         phase' = [phase EXCEPT ![r] = p],
         seen' = [seen EXCEPT ![r] = t],
         p = "judge" => t = store[User(r)],
         p \in {"remove", "accepted"} => req[r].token # NoToken
                                          /\ Owner(req[r].token) = User(r)
  PROVE  IInv'
  <1>1. TypeOK' /\ \A x \in Slots : User(x)' = User(x)
    BY DEF IInv, TypeOK, browserVars, User
  <1>2. TokenInv'
    <2>1. User(r) \in Users
      BY UserType DEF IInv
    <2>2. ASSUME NEW x \in Slots, phase'[x] = "judge", seen'[x] # NoToken
          PROVE  Owner(seen'[x]) = User(x)'
      BY <1>1, <2>1, <2>2 DEF IInv, TypeOK, TokenInv
    <2> QED
      BY <2>2 DEF IInv, TokenInv
  <1>3. OnlyOwnTokenPasses'
    BY <1>1 DEF IInv, TypeOK, OnlyOwnTokenPasses
  <1> QED
    BY <1>1, <1>2, <1>3 DEF IInv

\* A request that takes the store's lock, whatever it finds there, keeps the invariant.
LEMMA HandleInv ==
  ASSUME IInv, NEW r \in Slots, Handle(r)
  PROVE  IInv'
  <1>1. CASE SetAuthCookies(r)
    BY <1>1, MintInv DEF SetAuthCookies
  <1>2. CASE RetryOnMiss(r)
    BY <1>2, MintInv DEF RetryOnMiss
  <1>3. CASE RetryOnExpired(r)
    BY <1>3, MintInv DEF RetryOnExpired
  <1>4. CASE GetToken(r)
    <2>1. store[User(r)] \in Entries
      BY UserType DEF IInv, TypeOK
    <2> QED
      BY <1>4, <2>1, HandlerInv DEF GetToken, At, Phases
  <1>5. CASE RefuseMismatch(r)
    BY <1>5, HandlerInv DEF RefuseMismatch, Answer, At, Phases, Entries
  <1>6. CASE Pass(r)
    <2>1. req[r].token # NoToken /\ Owner(req[r].token) = User(r)
      BY <1>6 DEF Pass, IInv, TokenInv
    <2>2. CASE req[r].kind = "signout"
      <3>1. seen[r] \in Entries /\ seen' = [seen EXCEPT ![r] = seen[r]]
        BY <1>6, <2>2 DEF Pass, IInv, TypeOK
      <3> QED
        BY <1>6, <2>1, <2>2, <3>1, HandlerInv DEF Pass, At, Phases
    <2>3. CASE req[r].kind # "signout"
      BY <1>6, <2>1, <2>3, HandlerInv DEF Pass, Answer, At, Phases, Entries
    <2> QED
      BY <2>2, <2>3
  <1>7. CASE SignOut(r)
    <2>1. TypeOK' /\ \A x \in Slots : User(x)' = User(x)
      BY <1>7 DEF SignOut, At, IInv, TypeOK, Entries, Phases, browserVars, User
    <2>2. TokenInv'
      BY <1>7, <2>1 DEF SignOut, At, IInv, TypeOK, TokenInv
    <2>3. OnlyOwnTokenPasses'
      BY <1>7, <2>1 DEF SignOut, At, IInv, TypeOK, OnlyOwnTokenPasses
    <2> QED
      BY <2>1, <2>2, <2>3 DEF IInv
  <1>8. CASE RetryWithoutToken(r)
    <2>1. TypeOK' /\ \A x \in Slots : User(x)' = User(x)
      <3>1. store' \in [Users -> Entries] /\ seen' \in [Slots -> Entries]
        BY <1>8 DEF RetryWithoutToken, IInv, TypeOK, Entries
      <3>2. phase' \in [Slots -> Phases] /\ mishaps' \in Nat
        BY <1>8 DEF RetryWithoutToken, Mishap, At, IInv, TypeOK, Phases
      <3> QED
        BY <1>8, <3>1, <3>2 DEF RetryWithoutToken, IInv, TypeOK, browserVars, User
    <2>2. TokenInv'
      BY <1>8, <2>1 DEF RetryWithoutToken, At, IInv, TypeOK, TokenInv
    <2>3. OnlyOwnTokenPasses'
      BY <1>8, <2>1 DEF RetryWithoutToken, At, IInv, TypeOK, OnlyOwnTokenPasses
    <2> QED
      BY <2>1, <2>2, <2>3 DEF IInv
  <1> QED
    BY <1>1, <1>2, <1>3, <1>4, <1>5, <1>6, <1>7, <1>8 DEF Handle

\* What happens on the browsers' side lets nothing through.
LEMMA BrowserInv ==
  ASSUME IInv, NEW r \in Slots,
         \/ Receive(r) \/ Lose(r)
         \/ \E b \in Browsers, k \in Kinds : Send(r, b, k)
  PROVE  IInv'
  <1>1. CASE Receive(r)
    <2>1. TypeOK'
      <3>1. account' \in [Browsers -> Users \cup {NoUser}]
        <4>1. account' = [account EXCEPT ![req[r].browser] =
                            CASE phase[r] = "accepted" /\ req[r].kind = "signout" -> NoUser
                              [] phase[r] = "accepted" /\ req[r].kind = "signin" -> User(r)
                              [] OTHER -> @]
          BY <1>1, Zenon DEF Receive
        <4> QED
          BY <4>1, UserType DEF IInv, TypeOK
      <3>2. UNCHANGED <<store, expired, scenario, deprived, mishaps>>
        BY <1>1 DEF Receive
      <3>3. /\ cookie' \in [Browsers -> Entries] /\ phase' \in [Slots -> Phases]
            /\ req' \in [Slots -> Requests] /\ seen' \in [Slots -> Entries]
        BY <1>1, SomeUser DEF Receive, Leave, At, IInv, TypeOK, Entries, Phases
      <3> QED
        BY <3>1, <3>2, <3>3 DEF IInv, TypeOK
    <2> QED
      BY <1>1, <2>1, QuietInv DEF Receive, Leave, At, IInv, TypeOK
  <1>2. CASE Lose(r)
    <2>1. TypeOK'
      BY <1>2, SomeUser DEF Lose, Leave, Mishap, At, IInv, TypeOK, Entries, Phases, Requests
    <2> QED
      BY <1>2, <2>1, QuietInv DEF Lose, Leave, At, IInv, TypeOK
  <1>3. ASSUME NEW b \in Browsers, NEW k \in Kinds, Send(r, b, k) PROVE IInv'
    <2>1. /\ phase' = [phase EXCEPT ![r] = "sent"]
          /\ \E u \in Users, t \in Entries :
               req' = [req EXCEPT ![r] = [browser |-> b, kind |-> k, user |-> u, token |-> t]]
          /\ UNCHANGED <<store, expired, scenario, account, cookie, seen, mishaps>>
          /\ deprived' \in {deprived, deprived \cup {b}}
      <3>1. accounts[b] \subseteq Users /\ account[b] \in Users \cup {NoUser}
        BY DEF IInv, TypeOK, accounts
      <3>2. cookie[b] \in Entries /\ NoToken \in Entries
        BY DEF IInv, TypeOK, Entries
      <3> QED
        BY <1>3, <3>1, <3>2 DEF Send, At
    <2>2. TypeOK'
      BY <2>1 DEF IInv, TypeOK, Entries, Phases, Requests
    <2>3. TokenInv' /\ OnlyOwnTokenPasses'
      BY <2>1 DEF IInv, TypeOK, TokenInv, OnlyOwnTokenPasses, User
    <2> QED
      BY <2>2, <2>3 DEF IInv
  <1> QED
    BY <1>1, <1>2, <1>3

\* Time, clean-up and restarts only take entries out of the store.
LEMMA StoreInv ==
  ASSUME IInv,
         \/ \E u \in Users : Evict(u)
         \/ \E t \in Tokens : Expire(t)
         \/ Cleanup
         \/ Restart
  PROVE  IInv'
  <1>1. ASSUME NEW u \in Users, Evict(u) PROVE IInv'
    <2>1. TypeOK'
      BY <1>1 DEF Evict, Mishap, IInv, TypeOK, Entries, browserVars
    <2> QED
      BY <1>1, <2>1, QuietInv DEF Evict, IInv, TypeOK
  <1>2. ASSUME NEW t \in Tokens, Expire(t) PROVE IInv'
    <2>1. TypeOK'
      BY <1>2 DEF Expire, IInv, TypeOK, browserVars
    <2> QED
      BY <1>2, <2>1, QuietInv DEF Expire
  <1>3. CASE Cleanup
    <2>1. TypeOK'
      BY <1>3 DEF Cleanup, IInv, TypeOK, Entries, browserVars
    <2> QED
      BY <1>3, <2>1, QuietInv DEF Cleanup
  <1>4. CASE Restart
    <2>1. TypeOK'
      BY <1>4, SomeUser DEF Restart, Mishap, IInv, TypeOK, Entries, Phases, browserVars
    <2> QED
      BY <1>4, <2>1, QuietInv DEF Restart
  <1> QED
    BY <1>1, <1>2, <1>3, <1>4

\* The invariant survives every step.
THEOREM StepInv == IInv /\ [Next]_vars => IInv'
  <1> SUFFICES ASSUME IInv, [Next]_vars PROVE IInv'
    OBVIOUS
  <1>1. CASE \E r \in Slots : Handle(r)
    BY <1>1, HandleInv
  <1>2. CASE \E r \in Slots :
               \/ Receive(r) \/ Lose(r)
               \/ \E b \in Browsers, k \in Kinds : Send(r, b, k)
    BY <1>2, BrowserInv
  <1>3. ASSUME NEW b \in Browsers, CookieExpires(b) PROVE IInv'
    <2>1. TypeOK'
      BY <1>3 DEF CookieExpires, IInv, TypeOK, Entries
    <2> QED
      BY <1>3, <2>1, QuietInv DEF CookieExpires
  <1>4. CASE \/ \E u \in Users : Evict(u)
             \/ \E t \in Tokens : Expire(t)
             \/ Cleanup
             \/ Restart
    BY <1>4, StoreInv
  <1>5. CASE UNCHANGED vars
    BY <1>5 DEF vars, browserVars, IInv, TypeOK, TokenInv, OnlyOwnTokenPasses, User
  <1>6. scenario.kinds \subseteq Kinds
    BY ScenarioKinds DEF IInv
  <1> QED
    BY <1>1, <1>2, <1>3, <1>4, <1>5, <1>6 DEF Next

\* require_csrf(): "accepting the request and regenerating the token on a store
\* miss" never happens: only a token minted for the request's own user passes.
THEOREM OwnTokenOnly == Spec => []OnlyOwnTokenPasses
  <1>1. IInv => OnlyOwnTokenPasses
    BY DEF IInv
  <1> QED
    BY <1>1, InitInv, StepInv, PTL DEF Spec

\* The CSRF model keeps its types.
THEOREM CsrfTypeCorrect == Spec => []TypeOK
  <1>1. IInv => TypeOK
    BY DEF IInv
  <1> QED
    BY <1>1, InitInv, StepInv, PTL DEF Spec

-----------------------------------------------------------------------------
(***************************************************************************)
(* The lone browser.                                                       *)
(***************************************************************************)

\* A step that takes nothing from the requests and answers of b, and gives neither the
\* store nor the cookie a new token, keeps b in step.
LEMMA StaysInStep ==
  ASSUME NEW b \in Browsers, NEW u \in Users, InStep(b, u),
         cookie'[b] \in {cookie[b], NoToken},
         store'[u] \in {store[u], NoToken},
         \A x \in Slots :
           /\ Of(x, b)' => Of(x, b)
           /\ Carries(x, b)' <=> Carries(x, b)
           /\ Carries(x, b) => seen'[x] = seen[x]
  PROVE  InStep(b, u)'
  <1> DEFINE t == store[u]
  <1>1. \A r, s \in Slots : Of(r, b)' /\ Of(s, b)' => r = s
    BY DEF InStep
  <1>2. \/ cookie'[b] = NoToken
        \/ t' \in {NoToken, cookie'[b]}
        \/ \E r \in Slots : Carries(r, b)'
    BY DEF InStep
  <1>3. \A r \in Slots : Carries(r, b)' => t' \in {NoToken, seen'[r]}
    BY DEF InStep
  <1> QED
    BY <1>1, <1>2, <1>3 DEF InStep

\* b's own request, the only one it has, on its way through the handler: it changes
\* nothing for b, or empties the entry, or puts there the token that its answer carries.
LEMMA OwnHandler ==
  ASSUME NEW b \in Browsers, NEW u \in Users, NEW r \in Slots, IInv, InStep(b, u),
         Of(r, b),
         phase[r] \notin {"accepted", "forbidden"},
         UNCHANGED <<cookie, req>>,
         \A x \in Slots \ {r} : phase'[x] = phase[x] /\ seen'[x] = seen[x],
         \/ store'[u] = NoToken
         \/ phase'[r] \in {"accepted", "forbidden"} /\ seen'[r] = store'[u]
         \/ store' = store /\ (phase'[r] \in {"accepted", "forbidden"} => seen'[r] = NoToken)
  PROVE  InStep(b, u)'
  <1> DEFINE t == store[u]
  <1>1. \A x \in Slots \ {r} : ~Of(x, b) /\ ~Of(x, b)' /\ ~Carries(x, b) /\ ~Carries(x, b)'
    BY DEF InStep, Of, Carries
  <1>2. ~Carries(r, b) /\ req'[r].browser = b
    BY DEF Carries, Of
  <1>3. cookie[b] = NoToken \/ t \in {NoToken, cookie[b]}
    BY <1>1, <1>2 DEF InStep
  <1>4. \A x, y \in Slots : Of(x, b)' /\ Of(y, b)' => x = y
    BY <1>1
  <1>5. \A x \in Slots : Carries(x, b)' => t' \in {NoToken, seen'[x]}
    BY <1>1 DEF Carries
  <1>6. \/ cookie'[b] = NoToken
        \/ t' \in {NoToken, cookie'[b]}
        \/ \E x \in Slots : Carries(x, b)'
    <2>1. CASE t' = NoToken
      BY <2>1
    <2>2. CASE t' # NoToken /\ phase'[r] \in {"accepted", "forbidden"} /\ seen'[r] = t'
      BY <1>2, <2>2 DEF Carries
    <2>3. CASE store' = store
      BY <1>3, <2>3
    <2> QED
      BY <2>1, <2>2, <2>3
  <1> QED
    BY <1>4, <1>5, <1>6 DEF InStep

\* Handling a request keeps a browser that is alone on its account in step with the store.
LEMMA HandlerLone ==
  ASSUME IInv, LoneInv, NEW b \in Browsers, b \notin deprived', NEW u \in Users, HasAlone(b, u),
         NEW r \in Slots, Handle(r)
  PROVE  InStep(b, u)'
  <1>1. /\ UNCHANGED <<scenario, account, cookie, deprived, req>>
        /\ phase[r] \in {"sent", "judge", "remove"}
    BY DEF Handle, SetAuthCookies, GetToken, RetryOnMiss, RefuseMismatch, RetryOnExpired,
           RetryWithoutToken, Pass, SignOut, browserVars
  <1>2. InStep(b, u)
    BY <1>1 DEF LoneInv
  <1>3. \A x \in Slots \ {r} : phase'[x] = phase[x] /\ seen'[x] = seen[x]
    BY DEF Handle, SetAuthCookies, GetToken, RetryOnMiss, RefuseMismatch, RetryOnExpired,
           RetryWithoutToken, Pass, SignOut, Mint, Answer, At, IInv, TypeOK
  <1>4. /\ \A v \in Users \ {User(r)} : store'[v] = store[v]
        /\ \/ store'[User(r)] = NoToken
           \/ phase'[r] \in {"accepted", "forbidden"} /\ seen'[r] = store'[User(r)]
           \/ store' = store /\ (phase'[r] \in {"accepted", "forbidden"} => seen'[r] = NoToken)
    <2>1. /\ User(r) \in Users /\ store \in [Users -> Entries] /\ phase \in [Slots -> Phases]
          /\ seen \in [Slots -> Entries]
      BY UserType DEF IInv, TypeOK
    <2>2. ASSUME NEW verdict \in {"accepted", "forbidden"}, Mint(r, verdict)
          PROVE  /\ phase'[r] \in {"accepted", "forbidden"} /\ seen'[r] = store'[User(r)]
                 /\ \A v \in Users \ {User(r)} : store'[v] = store[v]
      BY <2>1, <2>2 DEF Mint, At
    <2>3. CASE SetAuthCookies(r) \/ RetryOnMiss(r) \/ RetryOnExpired(r)
      BY <2>2, <2>3 DEF SetAuthCookies, RetryOnMiss, RetryOnExpired
    <2>4. CASE GetToken(r) \/ RefuseMismatch(r) \/ Pass(r)
      BY <2>1, <2>4 DEF GetToken, RefuseMismatch, Pass, Answer, At
    <2>5. CASE RetryWithoutToken(r) \/ SignOut(r)
      BY <2>1, <2>5 DEF RetryWithoutToken, SignOut
    <2> QED
      BY <2>3, <2>4, <2>5 DEF Handle
  <1>5. CASE req[r].browser = b
    <2>1. User(r) = u
      BY <1>1, <1>5 DEF LoneInv, AccountInv, HasAlone
    <2> QED
      BY <1>1, <1>2, <1>3, <1>4, <1>5, <2>1, OwnHandler DEF Of
  <1>6. CASE req[r].browser # b
    <2>1. req[r].browser \in Browsers \ {b}
      BY <1>6 DEF IInv, TypeOK, Requests
    <2>2. User(r) # u
      BY <1>1, <2>1 DEF LoneInv, AccountInv, HasAlone
    <2>5. store'[u] = store[u]
      BY <1>4, <2>2
    <2>3. \A x \in Slots : /\ Of(x, b)' => Of(x, b)
                           /\ Carries(x, b)' <=> Carries(x, b)
                           /\ Carries(x, b) => seen'[x] = seen[x]
      BY <1>1, <1>3, <1>6 DEF Of, Carries
    <2> QED
      BY <1>1, <1>2, <2>3, <2>5, StaysInStep
  <1> QED
    BY <1>5, <1>6

\* An answer arrives: the cookie becomes what the store holds, if it still holds it.
LEMMA ReceiveLone ==
  ASSUME IInv, LoneInv, NEW b \in Browsers, b \notin deprived', NEW u \in Users, HasAlone(b, u),
         NEW r \in Slots, Receive(r) \/ Lose(r)
  PROVE  InStep(b, u)'
  <1>1. /\ UNCHANGED store /\ deprived \subseteq deprived'
        /\ phase[r] \in {"accepted", "forbidden"} /\ phase'[r] = "free"
        /\ \A x \in Slots \ {r} : /\ phase'[x] = phase[x] /\ seen'[x] = seen[x]
                                  /\ req'[x] = req[x]
        /\ \A c \in Browsers \ {req[r].browser} : cookie'[c] = cookie[c]
    BY DEF Receive, Lose, Leave, At, IInv, TypeOK
  <1>2. InStep(b, u)
    BY <1>1 DEF LoneInv
  <1>3. CASE req[r].browser # b
    <2>1. \A x \in Slots : /\ Of(x, b)' => Of(x, b)
                           /\ Carries(x, b)' <=> Carries(x, b)
                           /\ Carries(x, b) => seen'[x] = seen[x]
      BY <1>1, <1>3 DEF Of, Carries
    <2> QED
      BY <1>1, <1>2, <1>3, <2>1, StaysInStep
  <1>4. CASE req[r].browser = b
    <2>1. Receive(r)
      BY <1>4 DEF Lose
    <2>2. \A x \in Slots : ~Of(x, b)' /\ ~Carries(x, b)' /\ (x # r => ~Carries(x, b))
      <3>1. Of(r, b)
        BY <1>1, <1>4 DEF Of
      <3>2. \A x \in Slots \ {r} : ~Of(x, b)
        BY <1>2, <3>1 DEF InStep
      <3>3. ~Of(r, b)' /\ ~Carries(r, b)'
        BY <1>1 DEF Of, Carries
      <3>4. ASSUME NEW x \in Slots \ {r} PROVE ~Of(x, b)' /\ ~Carries(x, b)' /\ ~Carries(x, b)
        BY <1>1, <3>2 DEF Of, Carries
      <3> QED
        BY <3>3, <3>4
    <2>3. \/ cookie'[b] \in {NoToken, seen[r]}
          \/ cookie'[b] = cookie[b] /\ seen[r] = NoToken
      <3>1. cookie \in [Browsers -> Entries]
        BY DEF IInv, TypeOK
      <3>2. cookie' = [cookie EXCEPT ![req[r].browser] =
                         IF phase[r] = "accepted" /\ req[r].kind = "signout" THEN NoToken
                         ELSE IF seen[r] # NoToken THEN seen[r] ELSE @]
        BY <2>1, Zenon DEF Receive
      <3> QED
        BY <1>4, <3>1, <3>2
    <2>4. seen[r] # NoToken => Carries(r, b)
      BY <1>1, <1>4 DEF Carries
    <2>5. cookie'[b] = NoToken \/ store[u] \in {NoToken, cookie'[b]}
      <3>1. CASE cookie'[b] = seen[r] /\ seen[r] # NoToken
        BY <1>2, <2>4, <3>1 DEF InStep
      <3>2. CASE cookie'[b] = cookie[b] /\ seen[r] = NoToken
        <4>1. \A x \in Slots : ~Carries(x, b)
          BY <2>2, <3>2 DEF Carries
        <4> QED
          BY <1>2, <3>2, <4>1 DEF InStep
      <3> QED
        BY <2>3, <3>1, <3>2
    <2> QED
      BY <1>1, <2>2, <2>5 DEF InStep
  <1> QED
    BY <1>3, <1>4

\* A request is sent: if b has another one in flight, b is no longer looked at.
LEMMA SendLone ==
  ASSUME IInv, LoneInv, NEW b \in Browsers, b \notin deprived', NEW u \in Users, HasAlone(b, u),
         NEW r \in Slots, NEW c \in Browsers, NEW k \in Kinds, Send(r, c, k)
  PROVE  InStep(b, u)'
  <1>1. /\ UNCHANGED <<store, cookie, seen>> /\ deprived \subseteq deprived'
        /\ phase[r] = "free" /\ phase'[r] = "sent" /\ req'[r].browser = c
        /\ \A x \in Slots \ {r} : phase'[x] = phase[x] /\ req'[x] = req[x]
    BY DEF Send, At, IInv, TypeOK
  <1>2. InStep(b, u)
    BY <1>1 DEF LoneInv
  <1>3. \A x \in Slots : Carries(x, b)' <=> Carries(x, b)
    BY <1>1 DEF Carries
  <1>4. CASE b # c
    <2>1. \A x \in Slots : Of(x, b)' => Of(x, b)
      BY <1>1, <1>4 DEF Of
    <2> QED
      BY <1>1, <1>2, <1>3, <2>1, StaysInStep
  <1>5. CASE b = c
    <2>1. ~InFlight(b)
      BY <1>5 DEF Send
    <2>2. \A x \in Slots : ~Of(x, b)
      BY <2>1 DEF InFlight, Of
    <2>3. \A x \in Slots : Of(x, b)' => x = r
      BY <1>1, <2>2 DEF Of
    <2> QED
      BY <1>1, <1>2, <1>3, <2>3 DEF InStep
  <1> QED
    BY <1>4, <1>5

\* Browsers act for their own accounts, before and after every step.
LEMMA AccountStep == IInv /\ AccountInv /\ [Next]_vars => AccountInv'
  <1> SUFFICES ASSUME IInv, AccountInv, [Next]_vars PROVE AccountInv'
    OBVIOUS
  <1>1. ASSUME NEW r \in Slots, Receive(r) PROVE AccountInv'
    <2>1. account' = [account EXCEPT ![req[r].browser] =
                        CASE phase[r] = "accepted" /\ req[r].kind = "signout" -> NoUser
                          [] phase[r] = "accepted" /\ req[r].kind = "signin" -> User(r)
                          [] OTHER -> @]
      BY <1>1, Zenon DEF Receive
    <2>2. /\ phase[r] # "free" /\ phase'[r] = "free" /\ UNCHANGED scenario
          /\ \A x \in Slots \ {r} : phase'[x] = phase[x] /\ req'[x] = req[x]
      BY <1>1 DEF Receive, Leave, At, IInv, TypeOK
    <2>3. User(r) \in accounts[req[r].browser]
      BY <2>2 DEF AccountInv
    <2>4. \A b \in Browsers : account'[b] \in accounts[b] \cup {NoUser}
      BY <2>1, <2>3 DEF AccountInv, IInv, TypeOK
    <2> QED
      BY <2>2, <2>4 DEF AccountInv, User, accounts
  <1>2. ASSUME NEW r \in Slots, NEW b \in Browsers, NEW k \in Kinds, Send(r, b, k)
        PROVE  AccountInv'
    <2>1. PICK u \in IF k = "signin" THEN accounts[b] ELSE {account[b]} \ {NoUser} :
            req' = [req EXCEPT ![r] = [browser |-> b, kind |-> k, user |-> u,
                                       token |-> IF k = "signin" THEN NoToken
                                                 ELSE cookie[b]]]
      BY <1>2 DEF Send
    <2>2. u \in accounts[b]
      BY <2>1 DEF AccountInv
    <2>3. req'[r].user = u /\ req'[r].browser = b
      BY <2>1 DEF IInv, TypeOK
    <2>4. /\ UNCHANGED <<scenario, account>>
          /\ \A x \in Slots \ {r} : phase'[x] = phase[x] /\ req'[x] = req[x]
      BY <1>2, <2>1 DEF Send, At, IInv, TypeOK
    <2> QED
      BY <2>2, <2>3, <2>4 DEF AccountInv, User, accounts
  <1>3. CASE \/ \E r \in Slots : Handle(r) \/ Lose(r)
             \/ \E b \in Browsers : CookieExpires(b)
             \/ \E v \in Users : Evict(v)
             \/ \E t \in Tokens : Expire(t)
             \/ Cleanup \/ Restart \/ UNCHANGED vars
    <2>1. UNCHANGED <<scenario, account>>
      BY <1>3 DEF Handle, SetAuthCookies, GetToken, RetryOnMiss, RefuseMismatch,
                  RetryOnExpired, RetryWithoutToken, Pass, SignOut, Lose, CookieExpires,
                  Evict, Expire, Cleanup, Restart, vars, browserVars
    <2>2. \A x \in Slots : phase'[x] # "free" => phase[x] # "free" /\ req'[x] = req[x]
      <3>1. ASSUME NEW r \in Slots, Handle(r)
            PROVE  /\ phase[r] # "free" /\ req' = req
                   /\ \A x \in Slots \ {r} : phase'[x] = phase[x]
        BY <3>1 DEF Handle, SetAuthCookies, GetToken, RetryOnMiss, RefuseMismatch,
                    RetryOnExpired, RetryWithoutToken, Pass, SignOut, Mint, Answer, At,
                    IInv, TypeOK
      <3>2. ASSUME NEW r \in Slots, Lose(r)
            PROVE  /\ phase'[r] = "free"
                   /\ \A x \in Slots \ {r} : phase'[x] = phase[x] /\ req'[x] = req[x]
        BY <3>2 DEF Lose, Leave, At, IInv, TypeOK
      <3>3. CASE Restart
        BY <3>3 DEF Restart
      <3> QED
        BY <1>3, <3>1, <3>2, <3>3 DEF CookieExpires, Evict, Expire, Cleanup, vars
    <2> QED
      BY <2>1, <2>2 DEF AccountInv, User, accounts
  <1> QED
    BY <1>1, <1>2, <1>3, ScenarioKinds DEF Next, IInv

\* Every step keeps each browser that is alone in step, unless it is deprived.
LEMMA LoneStep == IInv /\ LoneInv /\ [Next]_vars => LoneInv'
  <1> SUFFICES ASSUME IInv, LoneInv, [Next]_vars PROVE LoneInv'
    OBVIOUS
  <1>5. AccountInv'
    BY AccountStep DEF LoneInv
  <1>6. \A b \in Browsers, u \in Users : HasAlone(b, u)' => HasAlone(b, u)
    BY ScenarioFixed DEF HasAlone, accounts
  <1> SUFFICES ASSUME NEW b \in Browsers, b \notin deprived',
                      NEW u \in Users, HasAlone(b, u)
               PROVE  InStep(b, u)'
    BY <1>5, <1>6 DEF LoneInv
  <1>7. scenario.kinds \subseteq Kinds
    BY ScenarioKinds DEF IInv
  <1>1. ASSUME NEW r \in Slots, Handle(r) PROVE InStep(b, u)'
    BY <1>1, HandlerLone
  <1>2. ASSUME NEW r \in Slots, Receive(r) \/ Lose(r) PROVE InStep(b, u)'
    BY <1>2, ReceiveLone
  <1>3. ASSUME NEW r \in Slots, NEW c \in Browsers, NEW k \in Kinds, Send(r, c, k)
        PROVE  InStep(b, u)'
    BY <1>3, SendLone
  <1>4. CASE \/ \E c \in Browsers : CookieExpires(c)
             \/ \E v \in Users : Evict(v)
             \/ \E t \in Tokens : Expire(t)
             \/ Cleanup
             \/ Restart
             \/ UNCHANGED vars
    <2>1. deprived' = deprived /\ InStep(b, u)
      BY <1>4 DEF CookieExpires, Evict, Expire, Cleanup, Restart, vars, browserVars, LoneInv
    <2>2. /\ cookie'[b] \in {cookie[b], NoToken}
          /\ store'[u] \in {store[u], NoToken}
      BY <1>4, <2>1 DEF CookieExpires, Evict, Expire, Cleanup, Restart, vars, browserVars,
                        IInv, TypeOK
    <2>3. ASSUME NEW x \in Slots
          PROVE  /\ Of(x, b)' => Of(x, b)
                 /\ Carries(x, b)' <=> Carries(x, b)
                 /\ Carries(x, b) => seen'[x] = seen[x]
      <3>1. CASE Restart
        BY <3>1 DEF Restart, Of, Carries
      <3>2. CASE ~Restart
        <4>1. UNCHANGED <<phase, req, seen>>
          BY <1>4, <3>2 DEF CookieExpires, Evict, Expire, Cleanup, vars
        <4> QED
          BY <4>1 DEF Of, Carries
      <3> QED
        BY <3>1, <3>2
    <2> QED
      BY <2>1, <2>2, <2>3, StaysInStep
  <1> QED
    BY <1>1, <1>2, <1>3, <1>4, <1>7 DEF Next

\* csrf_retry() and the browser's cookie: a browser that is alone on its account, sends one
\* request at a time and lost no answer has, whenever it rests with a cookie, the token the
\* store holds for it or finds no token there: what was refused can be tried again.
THEOREM LoneRefusalsAreRetriable == Spec => []LoneRefusalIsRetriable
  <1>1. Init => LoneInv
    BY DEF Init, LoneInv, AccountInv, InStep, Of, Carries, Alone
  <1>2. IInv /\ LoneInv => LoneRefusalIsRetriable
    <2> SUFFICES ASSUME IInv, LoneInv, NEW b \in Browsers \ deprived,
                        Alone(b), ~InFlight(b), cookie[b] # NoToken,
                        NEW u \in Users, StuckOn(b, u, store[u])
                 PROVE  FALSE
      BY DEF LoneRefusalIsRetriable, Stuck
    <2>1. HasAlone(b, u)
      BY DEF Alone, HasAlone, StuckOn, LoneInv, AccountInv
    <2>3. InStep(b, u)
      BY <2>1 DEF LoneInv
    <2>2. \A r \in Slots : ~Carries(r, b)
      BY DEF InFlight, Carries
    <2> QED
      BY <2>2, <2>3 DEF InStep, StuckOn
  <1>3. Spec => []IInv
    BY InitInv, StepInv, PTL DEF Spec
  <1> QED
    BY <1>1, <1>2, <1>3, LoneStep, PTL DEF Spec

=============================================================================
