----------------------------- MODULE Signatures -----------------------------
(***************************************************************************)
(* What the backend believes because it is signed: the session token in a  *)
(* browser's cookie (auth.rs) and Stripe's deliveries (construct_event of  *)
(* stripe.rs), while clocks differ, answers and deliveries take their      *)
(* time, and both secrets are changed.  An HMAC is ideal: it is known by   *)
(* its secret and its text.                                                *)
(***************************************************************************)
EXTENDS Integers, Sequences

CONSTANTS
  Visitors,      \* users who sign in
  JwtSecrets,    \* JWT_SECRET, one value after the other
  TokenLife,     \* TOKEN_EXPIRATION_DAYS, in seconds, and the cookie's Max-Age
  WebhookTolerance, \* DEFAULT_WEBHOOK_TOLERANCE_SECS
  MaxSkew,       \* how far Stripe's clock is from this one
  LastSecond,    \* bound on the time
  LastRoll       \* bound on the endpoint secrets

\* Clocks that differ by more than the tolerance would have no delivery accepted.
ASSUME SignaturesAssumption ==
  /\ {TokenLife, WebhookTolerance, MaxSkew} \subseteq Nat
  /\ MaxSkew <= WebhookTolerance

VARIABLES
  clock,         \* seconds
  jwtSecret,     \* JWT_SECRET of the process
  answer,        \* the token in an answer on its way to the browser, if any
  cookie,        \* the browser's cookie, if any: a token, and until when it is kept
  inForce,       \* the endpoint secrets Stripe signs with, the oldest first
  endpointSecret,\* STRIPE_ENDPOINT_SECRET of the process
  delivery       \* the delivery on its way, if any

signatureVars == <<clock, jwtSecret, answer, cookie, inForce, endpointSecret, delivery>>

Absent == [at |-> "nowhere"]

Hmac(secret, string) == <<secret, string>>

-----------------------------------------------------------------------------
\* generate_token() and jwt_sign(): head.body.sig; the body names the user and exp.
JwtSign(user, exp, secret) ==
  <<"head", <<user, exp>>, Hmac(secret, <<"head", <<user, exp>>>>)>>

\* jwt_verify(), of a token this backend made under some secret.
JwtVerify(token, secret, now) ==
  IF token[3] # Hmac(secret, SubSeq(token, 1, 2)) THEN "forged"
  ELSE IF token[2][2] # 0 /\ now > token[2][2] THEN "expired" ELSE "ok"

\* expected_signature().
ExpectedSignature(secret, t) == Hmac(secret, t)

\* Stripe's header: a v1 entry for each secret in force.
SigHeader(t) == [t |-> t, v1 |-> [i \in DOMAIN inForce |-> ExpectedSignature(inForce[i], t)]]

\* Plausible bug: one v1 entry is kept, as one t is.
OneCandidate(v1) == {v1[1]}

\* parse_sig_header(): every v1 entry is a candidate.
Candidates(v1) == {v1[i] : i \in DOMAIN v1}

\* verify_signature().
VerifySignature(header, secret, now) ==
  LET age == now - header.t
  IN  /\ age <= WebhookTolerance /\ -age <= WebhookTolerance
      /\ ExpectedSignature(secret, header.t) \in Candidates(header.v1)

-----------------------------------------------------------------------------
SignaturesInit ==
  /\ clock = 1
  /\ jwtSecret \in JwtSecrets
  /\ answer = Absent
  /\ cookie = Absent
  /\ inForce = <<1>>
  /\ endpointSecret = 1
  /\ delivery = Absent

Second ==
  /\ clock < LastSecond /\ clock' = clock + 1
  /\ cookie' = IF cookie # Absent /\ clock' >= cookie.until THEN Absent ELSE cookie
  /\ UNCHANGED <<jwtSecret, answer, inForce, endpointSecret, delivery>>

\* set_auth_cookies().
SignIn ==
  /\ answer = Absent
  /\ \E user \in Visitors :
       answer' = [at |-> "answer", user |-> user, signed |-> clock, under |-> jwtSecret,
                  token |-> JwtSign(user, clock + TokenLife, jwtSecret)]
  /\ UNCHANGED <<clock, jwtSecret, cookie, inForce, endpointSecret, delivery>>

\* The answer arrives: the browser counts Max-Age from now on.
Store ==
  /\ answer # Absent
  /\ cookie' = [at |-> "cookie", until |-> clock + TokenLife, sent |-> answer]
  /\ answer' = Absent
  /\ UNCHANGED <<clock, jwtSecret, inForce, endpointSecret, delivery>>

\* delete_token_cookie(), at signout.
SignOut ==
  /\ cookie # Absent /\ cookie' = Absent
  /\ UNCHANGED <<clock, jwtSecret, answer, inForce, endpointSecret, delivery>>

\* The operator rolls the endpoint secret at Stripe: for a while both are in force.
RollSecret ==
  /\ Len(inForce) = 1 /\ inForce[1] < LastRoll
  /\ inForce' = Append(inForce, inForce[1] + 1)
  /\ UNCHANGED <<clock, jwtSecret, answer, cookie, endpointSecret, delivery>>

\* The process is started again, with other secrets or the same.
Restarted ==
  /\ jwtSecret' \in JwtSecrets
  /\ \E i \in DOMAIN inForce : endpointSecret' = inForce[i]
  /\ UNCHANGED <<clock, answer, cookie, inForce, delivery>>

\* The overlap ends, after the process has taken the new secret.
OverlapEnds ==
  /\ Len(inForce) = 2 /\ endpointSecret = inForce[2]
  /\ inForce' = Tail(inForce)
  /\ UNCHANGED <<clock, jwtSecret, answer, cookie, endpointSecret, delivery>>

\* Stripe sends an event, signed by its own clock.
SendEvent ==
  /\ delivery = Absent
  /\ \E skew \in -MaxSkew .. MaxSkew :
       delivery' = [at |-> "underway", sent |-> clock, keys |-> inForce,
                    header |-> SigHeader(clock + skew)]
  /\ UNCHANGED <<clock, jwtSecret, answer, cookie, inForce, endpointSecret>>

Arrive ==
  /\ delivery # Absent /\ delivery' = Absent
  /\ UNCHANGED <<clock, jwtSecret, answer, cookie, inForce, endpointSecret>>

SignaturesNext ==
  \/ Second \/ SignIn \/ Store \/ SignOut
  \/ RollSecret \/ Restarted \/ OverlapEnds \/ SendEvent \/ Arrive

-----------------------------------------------------------------------------
Verified(header) == VerifySignature(header, endpointSecret, clock)

\* jwt_verify(): a session the browser presents is that of the user who signed in, honoured
\* while the secret is the one it was signed with and its answer was not slow, never
\* longer than TokenLife.  verify_signature(), "key rotation means two valid secrets":
\* through a roll, whatever Stripe signs now is accepted now, so that a retry gets
\* through; a delivery signed with the process's secret is accepted while it is fresh,
\* and none is accepted once it is stale or when its secret is no longer held.
SignaturesHold ==
  /\ cookie # Absent =>
       LET s == cookie.sent
           verdict == JwtVerify(s.token, jwtSecret, clock)
       IN  /\ s.token[2][1] = s.user
           /\ verdict = "forged" <=> s.under # jwtSecret
           /\ verdict = "expired" => cookie.until - TokenLife > s.signed
           /\ verdict = "ok" => clock - s.signed <= TokenLife
  /\ \A skew \in -MaxSkew .. MaxSkew : Verified(SigHeader(clock + skew))
  /\ delivery # Absent =>
       LET late == clock - delivery.sent
           held == \E i \in DOMAIN delivery.keys : delivery.keys[i] = endpointSecret
       IN  /\ held /\ late + MaxSkew <= WebhookTolerance => Verified(delivery.header)
           /\ Verified(delivery.header) => held /\ late <= WebhookTolerance + MaxSkew

=============================================================================
