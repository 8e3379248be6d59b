----------------------------- MODULE Passwords ------------------------------
(***************************************************************************)
(* The stored password of one account, through sign-ins and releases of    *)
(* the backend that change the cost of new hashes (kdf.rs, and signin of   *)
(* routes.rs).  During a deployment two builds serve at once.  A stored    *)
(* hash is the sequence of its fields; the derivation is an ideal one: its *)
(* key is known by what it was derived from.                               *)
(***************************************************************************)
EXTENDS Naturals, Sequences

CONSTANTS
  Builds,        \* the processes that serve
  Passwords,     \* what may be typed
  Owned,         \* the password of the account
  Salts,
  Costs,         \* <<n, r, p>>: the CURRENT_PARAMS of the builds to come
  NodeCost,      \* the cost of every hash that does not name its own
  MaxMemory,     \* SCRYPT_MAX_STORED_MEMORY
  MaxP,          \* SCRYPT_MAX_STORED_P
  MaxReleases    \* bound on the releases


VARIABLES
  stored,        \* Auths.password
  current,       \* current[b]: CURRENT_PARAMS of build b
  visit,         \* visit[b]: the sign-in that b works on
  releases       \* releases so far

passwordVars == <<stored, current, visit, releases>>

NoVisit == [at |-> "none"]

-----------------------------------------------------------------------------
PowerOfTwo(n) == \E k \in 0 .. 31 : n = 2 ^ k

\* scrypt(); the parameters it refuses give no key at all.
Scrypt(password, salt, cost) ==
  IF cost[1] >= 2 /\ PowerOfTwo(cost[1]) /\ cost[2] > 0 /\ cost[3] > 0
  THEN <<<<password, salt, cost>>>> ELSE <<>>

\* ScryptParams::within_limits().
WithinLimits(cost) ==
  /\ cost[3] \in 1 .. MaxP
  /\ cost[2] > 0 /\ cost[1] >= 2 /\ PowerOfTwo(cost[1])
  /\ 128 * cost[1] * cost[2] <= MaxMemory

\* A build whose own cost is beyond the limits would not open the hashes it makes.
ASSUME PasswordsAssumption ==
  /\ NodeCost \in Nat \X Nat \X Nat /\ WithinLimits(NodeCost)
  /\ \A cost \in Costs : cost \in Nat \X Nat \X Nat /\ WithinLimits(cost)

\* Plausible bug: a hash that names no cost is taken for one of this build.
CostOfToday(s, now) == IF Len(s) = 3 THEN now ELSE <<s[2], s[3], s[4]>>

\* The cost that a scrypt hash was made with, in a build whose CURRENT_PARAMS are now: two
\* fields are the legacy form, five name their own.
CostOf(s, now) == IF Len(s) = 3 THEN NodeCost ELSE <<s[2], s[3], s[4]>>

\* parse_scrypt_hash(): the parsed hash, or nothing.
ParseScryptHash(s, now) ==
  IF s[1] = "scrypt" /\ Len(s) \in {3, 6} /\ WithinLimits(CostOf(s, now))
  THEN {[cost |-> CostOf(s, now), salt |-> s[Len(s) - 1], key |-> s[Len(s)]]}
  ELSE {}

\* hash_password().
Hash(password, salt, cost) ==
  <<"scrypt", cost[1], cost[2], cost[3], salt, Scrypt(password, salt, cost)>>

\* verify_password(), and bcrypt's verify() for the hashes before scrypt.
Verify(password, s, now) ==
  IF s[1] = "bcrypt" THEN s[2] = password
  ELSE \E h \in ParseScryptHash(s, now) :
         LET key == Scrypt(password, h.salt, h.cost)
         IN  key # <<>> /\ h.key = key

\* needs_rehash().
NeedsRehash(s, now) == \A h \in ParseScryptHash(s, now) : h.cost # now

-----------------------------------------------------------------------------
\* A bcrypt hash, one of the Node backend, or one of an earlier build of this one.
PasswordsInit ==
  /\ stored \in {<<"bcrypt", Owned>>}
                \cup {<<"scrypt", salt, Scrypt(Owned, salt, NodeCost)>> : salt \in Salts}
                \cup {Hash(Owned, salt, cost) : salt \in Salts, cost \in Costs}
  /\ current = [b \in Builds |-> NodeCost]
  /\ visit = [b \in Builds |-> NoVisit]
  /\ releases = 0

\* A build is replaced; its sign-in dies with it.
Release(b) ==
  /\ releases < MaxReleases
  /\ releases' = releases + 1
  /\ \E cost \in Costs : current' = [current EXCEPT ![b] = cost]
  /\ visit' = [visit EXCEPT ![b] = NoVisit]
  /\ UNCHANGED stored

\* signin(): find_auth.
FindAuth(b) ==
  /\ visit[b] = NoVisit
  /\ \E password \in Passwords :
       visit' = [visit EXCEPT ![b] = [at |-> "verify", typed |-> password, auth |-> stored]]
  /\ UNCHANGED <<stored, current, releases>>

\* verify_password and needs_rehash, on the row as it was read.
Check(b) ==
  /\ visit[b].at = "verify"
  /\ visit' = [visit EXCEPT ![b] =
       IF Verify(@.typed, @.auth, current[b]) /\ NeedsRehash(@.auth, current[b])
       THEN [@ EXCEPT !.at = "rehash"] ELSE NoVisit]
  /\ UNCHANGED <<stored, current, releases>>

\* hash_password and update_auth_password, whatever is stored by now; without random
\* bytes, or when the update fails, the old hash stays.
Migrate(b) ==
  /\ visit[b].at = "rehash"
  /\ stored' \in {stored} \cup {Hash(visit[b].typed, salt, current[b]) : salt \in Salts}
  /\ visit' = [visit EXCEPT ![b] = NoVisit]
  /\ UNCHANGED <<current, releases>>

PasswordsNext == \E b \in Builds : Release(b) \/ FindAuth(b) \/ Check(b) \/ Migrate(b)

\* kdf.rs: "existing users are migrated [...] rather than locked out": whichever build
\* made the stored hash, whatever releases and overlapping sign-ins come between, the
\* account opens with its own password at every build that serves, and with no other.
NobodyIsLockedOut ==
  \A b \in Builds, password \in Passwords :
    Verify(password, stored, current[b]) <=> password = Owned

=============================================================================
