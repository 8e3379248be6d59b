--------------------------- MODULE AccountsProofs ---------------------------
(***************************************************************************)
(* Theorems about Accounts, for any number of threads, emails, addresses   *)
(* and entries: the lockout and the rate limit hold whatever the           *)
(* interleaving, the evictions, the clean-ups and the failures.            *)
(***************************************************************************)
EXTENDS Accounts, FiniteSetTheorems, TLAPS

Asking == [step : {"signup", "signin", "find_auth", "wrong", "rehash", "find_user"},
           key : Keys, id : Nat \cup {NoId}]

Records == [attempts : Nat \ {0}, until : Nat \cup {NoId}, last : Nat]

\* Every variable has its type, and neither store is above its capacity.
TypeInv ==
  /\ now \in Nat /\ requests \in Nat /\ mishaps \in Nat
  /\ thread \in [Threads -> Asking \cup {Idle}]
  /\ guesses \in [Keys -> SUBSET (Nat \X Nat)]
  /\ let_in \in [Ips -> SUBSET (Nat \X Nat)]
  /\ DOMAIN lockout \subseteq Keys
  /\ \A k \in DOMAIN lockout : lockout[k] \in Records
  /\ DOMAIN rate \subseteq Ips
  /\ \A ip \in DOMAIN rate : rate[ip] \in SUBSET (Nat \X Nat)
  /\ Cardinality(DOMAIN lockout) <= LockEntries
  /\ Cardinality(DOMAIN rate) <= RateEntries

\* Times kept in the order of the clock, those of now numbered below their count.
InOrder(times) ==
  /\ IsFiniteSet(times)
  /\ \A x \in times : x[1] <= now /\ (x[1] = now => x[2] < Cardinality(times))

\* The requests past is_locked whose password may still be found wrong.
Pending(k) ==
  {t \in Threads : thread[t].step \in {"find_auth", "wrong"} /\ thread[t].key = k}

\* A key the store has forgotten has no wrong guess in the window; an unlocked record
\* has counted every one of them, and a lock ends when the last has left the window.
\* While it lasts, the guesses still to come are those of the requests under way.
LockInv(k) ==
  /\ InOrder(guesses[k])
  /\ \A x \in guesses[k] : x[1] > now - AttemptWindow
  /\ k \notin DOMAIN lockout => guesses[k] = {}
  /\ k \in DOMAIN lockout =>
       /\ lockout[k].last <= now
       /\ \A x \in guesses[k] : x[1] <= lockout[k].last
       /\ lockout[k].until = NoId =>
            /\ lockout[k].attempts < Threshold
            /\ Cardinality(guesses[k]) <= lockout[k].attempts
       /\ lockout[k].until # NoId =>
            /\ lockout[k].attempts >= Threshold
            /\ lockout[k].until = lockout[k].last + LockTime
  /\ Live(k) =>
       Cardinality(guesses[k]) + Cardinality(Pending(k)) <=
         Threshold + Cardinality(Threads) - 1

\* The requests let in are those the store remembers.
RateInv(ip) ==
  /\ let_in[ip] = IF ip \in DOMAIN rate THEN Recent(rate[ip]) ELSE {}
  /\ InOrder(let_in[ip])
  /\ Cardinality(let_in[ip]) <= RateLimit
  /\ ip \in DOMAIN rate => \A x \in rate[ip] : x[1] <= now

IInv ==
  /\ TypeInv
  /\ \A k \in Keys : LockInv(k)
  /\ \A ip \in Ips : RateInv(ip)

-----------------------------------------------------------------------------
\* What the assumption says of each constant.
LEMMA Constants ==
  /\ IsFiniteSet(Threads) /\ IsFiniteSet(Keys) /\ IsFiniteSet(Ips)
  /\ Threshold \in Nat \ {0} /\ LockTime \in Nat \ {0} /\ LockEntries \in Nat \ {0}
  /\ RateLimit \in Nat \ {0} /\ RateWindow \in Nat \ {0} /\ RateEntries \in Nat \ {0}
  /\ AttemptWindow = LockTime
  /\ NoId \notin Nat
  <1>1. IsFiniteSet(Keys)
    BY AccountsAssumption, FS_Product DEF Keys
  <1> QED
    BY <1>1, AccountsAssumption

\* Put changes a function at one point, which it may add to its domain.
LEMMA PutFacts ==
  ASSUME NEW f, NEW k, NEW v
  PROVE  /\ DOMAIN Put(f, k, v) = DOMAIN f \cup {k}
         /\ Put(f, k, v)[k] = v
         /\ \A x \in DOMAIN f \ {k} : Put(f, k, v)[x] = f[x]
  BY DEF Put

\* evict_oldest_entries keeps all there is if it fits, and else as many as fit, none
\* of them older than one it drops.
LEMMA SurvivorsFacts ==
  ASSUME NEW age, NEW max \in Nat, IsFiniteSet(DOMAIN age), NEW S \in Survivors(age, max)
  PROVE  /\ S \subseteq DOMAIN age /\ IsFiniteSet(S) /\ Cardinality(S) <= max
         /\ Cardinality(DOMAIN age) <= max => S = DOMAIN age
         /\ Cardinality(DOMAIN age) > max =>
              /\ Cardinality(S) = max
              /\ \A gone \in DOMAIN age \ S, kept \in S : age[gone] <= age[kept]
  <1>1. Cardinality(DOMAIN age) \in Nat
    BY FS_CardinalityType
  <1>2. CASE Cardinality(DOMAIN age) <= max
    BY <1>1, <1>2 DEF Survivors
  <1>3. CASE ~(Cardinality(DOMAIN age) <= max)
    <2>1. /\ S \in SUBSET (DOMAIN age) /\ Cardinality(S) = max
          /\ \A gone \in DOMAIN age \ S, kept \in S : age[gone] <= age[kept]
      BY <1>3 DEF Survivors, kSubset
    <2>2. IsFiniteSet(S)
      BY <2>1, FS_Subset
    <2> QED
      BY <1>3, <2>1, <2>2
  <1> QED
    BY <1>2, <1>3

\* A request noted is one more, and the numbering stays.
LEMMA NotedFacts ==
  ASSUME now \in Nat, NEW times \in SUBSET (Nat \X Nat), InOrder(times)
  PROVE  /\ Noted(times) \in SUBSET (Nat \X Nat) /\ InOrder(Noted(times))
         /\ Cardinality(Noted(times)) = Cardinality(times) + 1
         /\ Cardinality(times) \in Nat
  <1> DEFINE n == Cardinality(times)
             x == <<now, n>>
  <1>1. IsFiniteSet(times) /\ n \in Nat
    BY FS_CardinalityType DEF InOrder
  <1>2. x \notin times /\ x \in Nat \X Nat
    BY <1>1 DEF InOrder
  <1>3. IsFiniteSet(Noted(times)) /\ Cardinality(Noted(times)) = n + 1
    BY <1>1, <1>2, FS_AddElement DEF Noted
  <1>4. ASSUME NEW y \in Noted(times)
        PROVE  y[1] <= now /\ (y[1] = now => y[2] < n + 1)
    <2>1. CASE y = x
      BY <1>1, <2>1
    <2>2. CASE y \in times
      <3>1. y[1] <= now /\ (y[1] = now => y[2] < n) /\ y[2] \in Nat
        BY <2>2 DEF InOrder
      <3> QED
        BY <1>1, <3>1
    <2> QED
      BY <2>1, <2>2 DEF Noted
  <1>5. InOrder(Noted(times))
    BY <1>3, <1>4 DEF InOrder
  <1>6. Noted(times) \in SUBSET (Nat \X Nat)
    BY <1>2 DEF Noted
  <1> QED
    BY <1>1, <1>3, <1>5, <1>6

\* No times are in order, and there are none of them.
LEMMA NothingInOrder == InOrder({}) /\ Cardinality({}) = 0
  BY FS_EmptySet DEF InOrder

\* A part of a record's times is finite and no larger than the whole.
LEMMA FewerTimes ==
  ASSUME NEW times, InOrder(times), NEW T \in SUBSET times
  PROVE  /\ IsFiniteSet(T) /\ Cardinality(T) \in Nat /\ Cardinality(times) \in Nat
         /\ Cardinality(T) <= Cardinality(times)
  BY FS_Subset, FS_CardinalityType DEF InOrder

\* What is pending on a key is finite, and no more than the threads.
LEMMA PendingFinite ==
  ASSUME NEW k
  PROVE  /\ IsFiniteSet(Pending(k)) /\ Cardinality(Pending(k)) \in Nat
         /\ Cardinality(Threads) \in Nat
         /\ Cardinality(Pending(k)) <= Cardinality(Threads)
  <1>1. Pending(k) \subseteq Threads
    BY DEF Pending
  <1> QED
    BY <1>1, Constants, FS_Subset, FS_CardinalityType

\* The threads that check a password of k are finitely many after a step, too.
LEMMA PendingFinitePrime ==
  ASSUME NEW k
  PROVE  /\ IsFiniteSet(Pending(k)') /\ Cardinality(Pending(k)') \in Nat
         /\ Cardinality(Threads) \in Nat
         /\ Cardinality(Pending(k)') <= Cardinality(Threads)
  <1>1. Pending(k)' \subseteq Threads
    BY DEF Pending
  <1> QED
    BY <1>1, Constants, FS_Subset, FS_CardinalityType

-----------------------------------------------------------------------------
\* The lockout, key by key.

\* A key without record and without counted guesses fulfils its bounds.
LEMMA ForgottenKey ==
  ASSUME NEW k \in Keys, guesses'[k] = {}, k \notin DOMAIN lockout'
  PROVE  LockInv(k)'
  <1>1. InOrder({})'
    BY FS_EmptySet DEF InOrder
  <1> QED
    BY <1>1 DEF LockInv, Live, Locked, InOrder

\* A key neither store nor clock moves, with no new request past its check.
LEMMA KeyStays ==
  ASSUME NEW k \in Keys, LockInv(k), UNCHANGED now, guesses'[k] = guesses[k],
         k \in DOMAIN lockout' <=> k \in DOMAIN lockout,
         k \in DOMAIN lockout => lockout'[k] = lockout[k],
         ~Live(k) \/ Pending(k)' \subseteq Pending(k)
  PROVE  LockInv(k)'
  <1>1. InOrder(guesses[k])' /\ Live(k)' = Live(k)
    BY DEF LockInv, InOrder, Live, Locked
  <1>2. ASSUME Live(k)
        PROVE  Cardinality(guesses'[k]) + Cardinality(Pending(k)') <=
                 Threshold + Cardinality(Threads) - 1
    <2>1. Cardinality(Pending(k)') <= Cardinality(Pending(k))
      BY <1>2, PendingFinite, FS_Subset
    <2>2. Cardinality(guesses[k]) + Cardinality(Pending(k)) <=
            Threshold + Cardinality(Threads) - 1
      BY <1>2 DEF LockInv
    <2>3. Cardinality(guesses[k]) \in Nat
      BY FS_CardinalityType DEF LockInv, InOrder
    <2> QED
      BY <2>1, <2>2, <2>3, PendingFinite, PendingFinitePrime, Constants
  <1> QED
    BY <1>1, <1>2 DEF LockInv

\* Once a lock has run out, every wrong guess has left the window.
LEMMA RunOut ==
  ASSUME TypeInv, NEW k \in Keys, LockInv(k), Locked(k), ~Live(k)
  PROVE  guesses[k] = {}
  <1>1. /\ lockout[k].until = lockout[k].last + LockTime
        /\ lockout[k].last \in Nat /\ now \in Nat
        /\ k \in DOMAIN lockout
    BY DEF LockInv, Locked, TypeInv, Records
  <1>2. ~(now < lockout[k].until)
    BY DEF Live
  <1>3. ASSUME NEW x \in guesses[k] PROVE FALSE
    <2>1. /\ x[1] <= lockout[k].last /\ x[1] > now - AttemptWindow
          /\ x[1] \in Nat
      BY <1>1 DEF LockInv, TypeInv
    <2> QED
      BY <1>1, <1>2, <2>1, Constants
  <1> QED
    BY <1>3

\* A record out of the window has counted nothing that is in it.
LEMMA OutOfWindow ==
  ASSUME TypeInv, NEW k \in DOMAIN lockout, LockInv(k),
         now - lockout[k].last > AttemptWindow
  PROVE  guesses[k] = {}
  <1>1. lockout[k].last \in Nat /\ now \in Nat /\ k \in Keys
    BY DEF TypeInv, Records
  <1>2. ASSUME NEW x \in guesses[k] PROVE FALSE
    <2>1. /\ x[1] <= lockout[k].last /\ x[1] > now - AttemptWindow
          /\ x[1] \in Nat
      BY <1>1 DEF LockInv, TypeInv
    <2> QED
      BY <1>1, <2>1, Constants
  <1> QED
    BY <1>2

\* What leaves the rate store and the clock alone keeps the bounds of an address.
LEMMA RateStays ==
  ASSUME NEW ip \in Ips, RateInv(ip), UNCHANGED <<now, rate, let_in>>
  PROVE  RateInv(ip)'
  BY DEF RateInv, Recent, InOrder

\* A busy thread has a request of a known key.
LEMMA Busy ==
  ASSUME TypeInv, NEW t \in Threads, thread[t].step # "idle"
  PROVE  thread[t] \in Asking
  BY DEF TypeInv, Idle

\* A thread that goes on to a step of its request keeps the key and the types.
LEMMA Moving ==
  ASSUME TypeInv, NEW t \in Threads, thread[t].step # "idle",
         NEW step \in {"find_auth", "wrong", "rehash", "find_user"}, Goto(t, step)
  PROVE  /\ thread' \in [Threads -> Asking \cup {Idle}]
         /\ thread'[t].step = step /\ thread'[t].key = thread[t].key
         /\ \A s \in Threads \ {t} : thread'[s] = thread[s]
  <1>1. thread[t] \in Asking /\ thread \in [Threads -> Asking \cup {Idle}]
    BY Busy DEF TypeInv
  <1>2. [thread[t] EXCEPT !.step = step] \in Asking
    BY <1>1 DEF Asking
  <1>3. thread' = [thread EXCEPT ![t] = [thread[t] EXCEPT !.step = step]]
    BY DEF Goto
  <1>4. thread'[t] = [thread[t] EXCEPT !.step = step]
    BY <1>1, <1>3
  <1> QED
    BY <1>1, <1>2, <1>3, <1>4 DEF Asking

\* A thread that answers is idle after it, and the other threads stay as they are.
LEMMA Responding ==
  ASSUME TypeInv, NEW t \in Threads, Respond(t)
  PROVE  /\ thread' \in [Threads -> Asking \cup {Idle}]
         /\ thread'[t].step = "idle"
         /\ \A s \in Threads \ {t} : thread'[s] = thread[s]
  BY DEF TypeInv, Respond, Idle

\* A thread that comes to no password check leaves nothing pending.
LEMMA PendingLess ==
  ASSUME NEW t \in Threads, NEW k, \A s \in Threads \ {t} : thread'[s] = thread[s],
         thread'[t].step \notin {"find_auth", "wrong"}
  PROVE  Pending(k)' = Pending(k) \ {t}
  BY DEF Pending

\* A thread that was checking a password already, and keeps its key, adds nobody to those.
LEMMA PendingSame ==
  ASSUME NEW t \in Threads, NEW k, \A s \in Threads \ {t} : thread'[s] = thread[s],
         thread[t].step \in {"find_auth", "wrong"}, thread'[t].key = thread[t].key
  PROVE  Pending(k)' \subseteq Pending(k)
  BY DEF Pending

-----------------------------------------------------------------------------
(***************************************************************************)
(* The inductive invariant, action by action.                              *)
(***************************************************************************)

\* The invariant holds when the process starts on empty tables.
LEMMA InitInv == Init => IInv
  <1> SUFFICES ASSUME Init PROVE IInv
    OBVIOUS
  <1>1. DOMAIN lockout = {} /\ DOMAIN rate = {}
    BY DEF Init
  <1>2. TypeInv
    BY <1>1, Constants, FS_EmptySet DEF Init, TypeInv
  <1>3. ASSUME NEW k \in Keys PROVE LockInv(k)
    BY <1>1, NothingInOrder DEF Init, LockInv, Live, Locked
  <1>4. ASSUME NEW ip \in Ips PROVE RateInv(ip)
    BY <1>1, NothingInOrder, Constants DEF Init, RateInv
  <1> QED
    BY <1>2, <1>3, <1>4 DEF IInv

\* A step of one thread that leaves the stores alone and lets no new request past
\* its check.
LEMMA QuietStep ==
  ASSUME IInv, NEW t \in Threads, UNCHANGED <<now, stores>>,
         thread' \in [Threads -> Asking \cup {Idle}], requests' \in Nat, mishaps' \in Nat,
         \A s \in Threads \ {t} : thread'[s] = thread[s],
         \/ thread'[t].step \notin {"find_auth", "wrong"}
         \/ thread[t].step \in {"find_auth", "wrong"} /\ thread'[t].key = thread[t].key
  PROVE  IInv'
  <1>1. UNCHANGED <<now, lockout, rate, guesses, let_in>>
    BY DEF stores
  <1>2. TypeInv'
    BY <1>1 DEF IInv, TypeInv
  <1>3. ASSUME NEW k \in Keys PROVE LockInv(k)'
    <2>1. Pending(k)' \subseteq Pending(k)
      <3>1. CASE thread'[t].step \notin {"find_auth", "wrong"}
        BY <3>1, PendingLess
      <3>2. CASE /\ thread[t].step \in {"find_auth", "wrong"}
                 /\ thread'[t].key = thread[t].key
        BY <3>2, PendingSame
      <3> QED
        BY <3>1, <3>2
    <2> QED
      BY <1>1, <2>1, KeyStays DEF IInv
  <1>4. ASSUME NEW ip \in Ips PROVE RateInv(ip)'
    BY <1>1, RateStays DEF IInv
  <1> QED
    BY <1>2, <1>3, <1>4 DEF IInv

\* The handlers' steps between their store operations keep the invariant.
LEMMA RequestInv ==
  ASSUME IInv, NEW t \in Threads,
         \/ RefuseBody(t) \/ CreateAccount(t) \/ Duplicate(t) \/ CallFails(t)
         \/ FindAuth(t) \/ Rehash(t)
  PROVE  IInv'
  <1>1. TypeInv /\ requests \in Nat /\ mishaps \in Nat
    BY DEF IInv, TypeInv
  <1>2. CASE RefuseBody(t) \/ CreateAccount(t) \/ Duplicate(t)
    <2>1. Respond(t) /\ UNCHANGED <<now, stores, requests, mishaps>>
      BY <1>2 DEF RefuseBody, CreateAccount, Duplicate
    <2> QED
      BY <1>1, <2>1, Responding, QuietStep
  <1>3. CASE CallFails(t)
    <2>1. /\ UNCHANGED <<now, stores, requests>>
          /\ mishaps' \in Nat /\ thread[t].step # "idle"
          /\ Goto(t, "find_user") \/ Respond(t)
      BY <1>1, <1>3 DEF CallFails
    <2>2. /\ thread' \in [Threads -> Asking \cup {Idle}]
          /\ thread'[t].step \in {"idle", "find_user"}
          /\ \A s \in Threads \ {t} : thread'[s] = thread[s]
      BY <1>1, <2>1, Responding, Moving
    <2> QED
      BY <1>1, <2>1, <2>2, QuietStep
  <1>4. CASE FindAuth(t)
    <2>1. /\ UNCHANGED <<now, stores, requests, mishaps>>
          /\ thread[t].step = "find_auth"
          /\ \E step \in {"wrong", "rehash", "find_user"} : Goto(t, step)
      BY <1>4 DEF FindAuth, At
    <2>2. /\ thread' \in [Threads -> Asking \cup {Idle}]
          /\ thread'[t].key = thread[t].key
          /\ \A s \in Threads \ {t} : thread'[s] = thread[s]
      BY <1>1, <2>1, Moving
    <2> QED
      BY <1>1, <2>1, <2>2, QuietStep
  <1>5. CASE Rehash(t)
    <2>1. /\ UNCHANGED <<now, stores, requests, mishaps>>
          /\ thread[t].step = "rehash" /\ Goto(t, "find_user")
      BY <1>5 DEF Rehash, At
    <2>2. /\ thread' \in [Threads -> Asking \cup {Idle}]
          /\ thread'[t].step = "find_user"
          /\ \A s \in Threads \ {t} : thread'[s] = thread[s]
      BY <1>1, <2>1, Moving
    <2> QED
      BY <1>1, <2>1, <2>2, QuietStep
  <1> QED
    BY <1>2, <1>3, <1>4, <1>5

\* A restart empties both stores and idles the threads: the invariant holds anew.
LEMMA RestartInv == ASSUME IInv, Restart PROVE IInv'
  <1>1. /\ DOMAIN lockout' = {} /\ DOMAIN rate' = {} /\ UNCHANGED <<now, requests>>
        /\ guesses' = [k \in Keys |-> {}] /\ let_in' = [ip \in Ips |-> {}]
        /\ thread' = [t \in Threads |-> Idle] /\ mishaps' = mishaps + 1
    BY DEF Restart
  <1>2. TypeInv'
    BY <1>1, Constants, FS_EmptySet DEF IInv, TypeInv
  <1>3. ASSUME NEW k \in Keys PROVE LockInv(k)'
    BY <1>1, ForgottenKey
  <1>4. ASSUME NEW ip \in Ips PROVE RateInv(ip)'
    <2>1. InOrder({})' /\ Cardinality({}) = 0
      BY FS_EmptySet DEF InOrder
    <2>2. let_in'[ip] = {} /\ ip \notin DOMAIN rate'
      BY <1>1
    <2> QED
      BY <2>1, <2>2, Constants DEF RateInv, InOrder
  <1> QED
    BY <1>2, <1>3, <1>4 DEF IInv

\* The clock: what leaves the window leaves it for both, and no lock begins.
LEMMA TickInv == ASSUME IInv, Tick PROVE IInv'
  <1>1. /\ now' = now + 1 /\ now \in Nat
        /\ guesses' = [k \in Keys |-> Younger(guesses[k], AttemptWindow)]
        /\ let_in' = [ip \in Ips |-> Younger(let_in[ip], RateWindow)]
        /\ UNCHANGED <<lockout, rate, thread, requests, mishaps>>
    BY DEF Tick, IInv, TypeInv
  <1>2. /\ guesses \in [Keys -> SUBSET (Nat \X Nat)]
        /\ let_in \in [Ips -> SUBSET (Nat \X Nat)]
    BY DEF IInv, TypeInv
  <1>3. TypeInv'
    <2>1. /\ guesses' \in [Keys -> SUBSET (Nat \X Nat)]
          /\ let_in' \in [Ips -> SUBSET (Nat \X Nat)]
      BY <1>1, <1>2 DEF Younger
    <2> QED
      BY <1>1, <2>1 DEF IInv, TypeInv
  <1>4. ASSUME NEW times \in SUBSET (Nat \X Nat), InOrder(times), NEW T \in SUBSET times
        PROVE  InOrder(T)' /\ Cardinality(T) <= Cardinality(times)
    <2>1. IsFiniteSet(T) /\ Cardinality(T) <= Cardinality(times)
      BY <1>4, FewerTimes
    <2>2. ASSUME NEW x \in T PROVE x[1] <= now + 1 /\ x[1] # now + 1
      <3>1. x[1] \in Nat /\ x[1] <= now
        BY <1>4 DEF InOrder
      <3> QED
        BY <1>1, <3>1
    <2> QED
      BY <1>1, <2>1, <2>2 DEF InOrder
  <1>5. ASSUME NEW k \in Keys PROVE LockInv(k)'
    <2>1. LockInv(k) /\ InOrder(guesses[k]) /\ guesses[k] \in SUBSET (Nat \X Nat)
      BY <1>2 DEF IInv, LockInv
    <2>2. /\ guesses'[k] \subseteq guesses[k]
          /\ \A x \in guesses'[k] : x[1] > now' - AttemptWindow
      BY <1>1, Constants DEF Younger
    <2>3. /\ InOrder(guesses[k])' /\ Cardinality(guesses'[k]) <= Cardinality(guesses[k])
          /\ Cardinality(guesses'[k]) \in Nat /\ Cardinality(guesses[k]) \in Nat
      <3>1. ASSUME NEW T, T = guesses'[k]
            PROVE  /\ InOrder(T)' /\ Cardinality(T) <= Cardinality(guesses[k])
                   /\ Cardinality(T) \in Nat /\ Cardinality(guesses[k]) \in Nat
        BY <1>4, <2>1, <2>2, <3>1, FewerTimes
      <3>2. \A T : T = guesses'[k] => InOrder(T)'
        BY <3>1
      <3> QED
        BY <3>1, <3>2 DEF InOrder
    <2>4. Pending(k)' = Pending(k)
      BY <1>1 DEF Pending
    <2>5. k \in DOMAIN lockout =>
            /\ lockout[k].last \in Nat /\ lockout[k].until \in Nat \cup {NoId}
            /\ lockout[k].attempts \in Nat
      BY DEF IInv, TypeInv, Records
    <2>6. Live(k)' => Live(k)
      BY <1>1, <2>5, Constants DEF Live, Locked
    <2>7. k \in DOMAIN lockout => lockout[k].last <= now'
      BY <1>1, <2>1, <2>5 DEF LockInv
    <2>8. ASSUME k \in DOMAIN lockout, lockout[k].until = NoId
          PROVE  Cardinality(guesses'[k]) <= lockout[k].attempts
      BY <2>1, <2>3, <2>5, <2>8 DEF LockInv
    <2>9. ASSUME Live(k)'
          PROVE  Cardinality(guesses'[k]) + Cardinality(Pending(k)) <=
                   Threshold + Cardinality(Threads) - 1
      <3>1. Cardinality(guesses[k]) + Cardinality(Pending(k)) <=
              Threshold + Cardinality(Threads) - 1
        BY <2>1, <2>6, <2>9 DEF LockInv
      <3> QED
        BY <2>3, <3>1, PendingFinite, Constants
    <2> QED
      BY <1>1, <2>1, <2>2, <2>3, <2>4, <2>7, <2>8, <2>9 DEF LockInv
  <1>6. ASSUME NEW ip \in Ips PROVE RateInv(ip)'
    <2>1. RateInv(ip) /\ InOrder(let_in[ip]) /\ let_in[ip] \in SUBSET (Nat \X Nat)
      BY <1>2 DEF IInv, RateInv
    <2>2. let_in'[ip] = {x \in let_in[ip] : x[1] > now' - RateWindow}
      BY <1>1, Constants DEF Younger
    <2>3. /\ InOrder(let_in[ip])' /\ Cardinality(let_in'[ip]) <= Cardinality(let_in[ip])
          /\ Cardinality(let_in'[ip]) \in Nat /\ Cardinality(let_in[ip]) \in Nat
      <3>1. ASSUME NEW T, T = let_in'[ip]
            PROVE  /\ InOrder(T)' /\ Cardinality(T) <= Cardinality(let_in[ip])
                   /\ Cardinality(T) \in Nat /\ Cardinality(let_in[ip]) \in Nat
        BY <1>4, <2>1, <2>2, <3>1, FewerTimes
      <3>2. \A T : T = let_in'[ip] => InOrder(T)'
        BY <3>1
      <3> QED
        BY <3>1, <3>2 DEF InOrder
    <2>4. Cardinality(let_in'[ip]) <= RateLimit
      BY <2>1, <2>3, Constants DEF RateInv
    <2>5. CASE ip \in DOMAIN rate
      <3>1. rate[ip] \in SUBSET (Nat \X Nat) /\ let_in[ip] = Recent(rate[ip])
        BY <2>1, <2>5 DEF IInv, TypeInv, RateInv
      <3>2. \A x \in rate[ip] : x[1] \in Nat /\ x[1] <= now
        BY <2>1, <2>5, <3>1 DEF RateInv
      <3>3. {x \in Recent(rate[ip]) : x[1] > now' - RateWindow} =
              {x \in rate[ip] : x[1] > now' - RateWindow}
        BY <1>1, <3>2, Constants DEF Recent
      <3>4. let_in'[ip] = Recent(rate[ip])'
        BY <1>1, <2>2, <3>1, <3>3 DEF Recent
      <3>5. \A x \in rate[ip] : x[1] <= now'
        BY <1>1, <3>2
      <3> QED
        BY <1>1, <2>3, <2>4, <2>5, <3>4, <3>5 DEF RateInv
    <2>6. CASE ip \notin DOMAIN rate
      <3>1. let_in'[ip] = {}
        BY <2>1, <2>2, <2>6 DEF RateInv
      <3> QED
        BY <1>1, <2>3, <2>4, <2>6, <3>1 DEF RateInv
    <2> QED
      BY <2>5, <2>6
  <1> QED
    BY <1>3, <1>5, <1>6 DEF IInv

\* The requests are those of the keys.
LEMMA KeyOf ==
  ASSUME TypeInv, NEW t \in Threads, thread[t].step # "idle"
  PROVE  thread[t].key \in Keys
  BY Busy DEF Asking

\* is_locked: who passes finds no live lock, and an expired one goes with its guesses.
LEMMA CheckLockInv ==
  ASSUME IInv, NEW t \in Threads, CheckLock(t)
  PROVE  IInv'
  <1> DEFINE k == thread[t].key
  <1>1. /\ thread[t].step = "signin" /\ TypeInv
        /\ UNCHANGED <<now, rate, guesses, let_in, requests, mishaps>>
        /\ lockout' = IF Locked(k) /\ ~Live(k) THEN Without(lockout, {k}) ELSE lockout
        /\ IF Live(k) THEN Respond(t) ELSE Goto(t, "find_auth")
    BY DEF CheckLock, At, IInv
  <1>2. k \in Keys
    BY <1>1, KeyOf
  <1>3. /\ thread' \in [Threads -> Asking \cup {Idle}]
        /\ \A s \in Threads \ {t} : thread'[s] = thread[s]
        /\ Live(k) => thread'[t].step = "idle"
        /\ ~Live(k) => thread'[t].key = k
    <2>1. CASE Live(k)
      BY <1>1, <2>1, Responding
    <2>2. CASE ~Live(k)
      BY <1>1, <2>2, Moving
    <2> QED
      BY <2>1, <2>2
  <1>4. /\ DOMAIN lockout' \subseteq DOMAIN lockout
        /\ \A x \in DOMAIN lockout' : lockout'[x] = lockout[x]
        /\ \A x \in DOMAIN lockout \ {k} : x \in DOMAIN lockout'
        /\ k \in DOMAIN lockout /\ k \notin DOMAIN lockout' => Locked(k) /\ ~Live(k)
    <2>1. CASE Locked(k) /\ ~Live(k)
      BY <1>1, <2>1 DEF Without, Restrict
    <2>2. CASE ~(Locked(k) /\ ~Live(k))
      BY <1>1, <2>2
    <2> QED
      BY <2>1, <2>2
  <1>5. TypeInv'
    <2>1. IsFiniteSet(DOMAIN lockout)
      BY <1>1, Constants, FS_Subset DEF TypeInv
    <2>2. /\ Cardinality(DOMAIN lockout') <= Cardinality(DOMAIN lockout)
          /\ Cardinality(DOMAIN lockout') \in Nat /\ Cardinality(DOMAIN lockout) \in Nat
      BY <1>4, <2>1, FS_Subset, FS_CardinalityType
    <2>3. Cardinality(DOMAIN lockout') <= LockEntries
      BY <1>1, <2>2, Constants DEF TypeInv
    <2> QED
      BY <1>1, <1>3, <1>4, <2>3 DEF TypeInv
  <1>6. ASSUME NEW x \in Keys PROVE LockInv(x)'
    <2>1. LockInv(x) /\ guesses'[x] = guesses[x]
      BY <1>1 DEF IInv
    <2>2. CASE x = k /\ k \in DOMAIN lockout /\ k \notin DOMAIN lockout'
      BY <1>1, <1>4, <2>1, <2>2, RunOut, ForgottenKey
    <2>3. CASE ~(x = k /\ k \in DOMAIN lockout /\ k \notin DOMAIN lockout')
      <3>1. /\ x \in DOMAIN lockout' <=> x \in DOMAIN lockout
            /\ x \in DOMAIN lockout => lockout'[x] = lockout[x]
        BY <1>4, <2>3
      <3>2. ~Live(x) \/ Pending(x)' \subseteq Pending(x)
        <4>1. CASE Live(k)
          BY <1>3, <4>1, PendingLess
        <4>2. CASE ~Live(k) /\ x # k
          BY <1>3, <4>2 DEF Pending
        <4> QED
          BY <4>1, <4>2
      <3> QED
        BY <1>1, <2>1, <3>1, <3>2, KeyStays
    <2> QED
      BY <2>2, <2>3
  <1>7. ASSUME NEW ip \in Ips PROVE RateInv(ip)'
    BY <1>1, RateStays DEF IInv
  <1> QED
    BY <1>5, <1>6, <1>7 DEF IInv

\* find_user: a success forgets the key.
LEMMA FindUserInv ==
  ASSUME IInv, NEW t \in Threads, FindUser(t)
  PROVE  IInv'
  <1> DEFINE k == thread[t].key
  <1>1. /\ thread[t].step = "find_user" /\ TypeInv /\ Respond(t)
        /\ UNCHANGED <<now, rate, let_in, requests, mishaps>>
        /\ \/ /\ lockout' = Without(lockout, {k})
              /\ guesses' = [guesses EXCEPT ![k] = {}]
           \/ UNCHANGED <<lockout, guesses>>
    BY DEF FindUser, At, IInv
  <1>2. k \in Keys
    BY <1>1, KeyOf
  <1>3. /\ thread' \in [Threads -> Asking \cup {Idle}]
        /\ \A s \in Threads \ {t} : thread'[s] = thread[s]
        /\ thread'[t].step = "idle"
    BY <1>1, Responding
  <1>4. CASE UNCHANGED <<lockout, guesses>>
    <2>1. UNCHANGED <<now, stores>> /\ requests' \in Nat /\ mishaps' \in Nat
      BY <1>1, <1>4 DEF stores, TypeInv
    <2> QED
      BY <1>3, <2>1, QuietStep
  <1>5. CASE /\ lockout' = Without(lockout, {k})
             /\ guesses' = [guesses EXCEPT ![k] = {}]
    <2>1. /\ DOMAIN lockout' = DOMAIN lockout \ {k}
          /\ \A x \in DOMAIN lockout' : lockout'[x] = lockout[x]
      BY <1>5 DEF Without, Restrict
    <2>2. /\ guesses' \in [Keys -> SUBSET (Nat \X Nat)] /\ guesses'[k] = {}
          /\ \A x \in Keys \ {k} : guesses'[x] = guesses[x]
      BY <1>1, <1>2, <1>5 DEF TypeInv
    <2>3. TypeInv'
      <3>1. IsFiniteSet(DOMAIN lockout)
        BY <1>1, Constants, FS_Subset DEF TypeInv
      <3>2. /\ Cardinality(DOMAIN lockout') <= Cardinality(DOMAIN lockout)
            /\ Cardinality(DOMAIN lockout') \in Nat /\ Cardinality(DOMAIN lockout) \in Nat
        BY <2>1, <3>1, FS_Subset, FS_CardinalityType
      <3>3. Cardinality(DOMAIN lockout') <= LockEntries
        BY <1>1, <3>2, Constants DEF TypeInv
      <3> QED
        BY <1>1, <1>3, <2>1, <2>2, <3>3 DEF TypeInv
    <2>4. ASSUME NEW x \in Keys PROVE LockInv(x)'
      <3>1. CASE x = k
        BY <2>1, <2>2, <3>1, ForgottenKey
      <3>2. CASE x # k
        <4>1. Pending(x)' \subseteq Pending(x)
          BY <1>3, PendingLess
        <4> QED
          BY <1>1, <2>1, <2>2, <3>2, <4>1, KeyStays DEF IInv
      <3> QED
        BY <3>1, <3>2
    <2>5. ASSUME NEW ip \in Ips PROVE RateInv(ip)'
      BY <1>1, RateStays DEF IInv
    <2> QED
      BY <2>3, <2>4, <2>5 DEF IInv
  <1> QED
    BY <1>1, <1>4, <1>5

\* run_lockout_cleanup: what it drops counts for nothing any more.
LEMMA CleanupInv == ASSUME IInv, Cleanup PROVE IInv'
  <1> DEFINE stale == {k \in DOMAIN lockout :
                         IF Locked(k) THEN ~Live(k)
                         ELSE now - lockout[k].last > AttemptWindow}
             recent == [ip \in DOMAIN rate |-> Recent(rate[ip])]
             empty == {ip \in DOMAIN rate : recent[ip] = {}}
  <1>1. /\ lockout' = Without(lockout, stale) /\ rate' = Without(recent, empty)
        /\ UNCHANGED <<now, guesses, let_in, thread, requests, mishaps>>
        /\ TypeInv
    BY DEF Cleanup, IInv
  <1>2. /\ DOMAIN lockout' = DOMAIN lockout \ stale
        /\ \A k \in DOMAIN lockout' : lockout'[k] = lockout[k]
    BY <1>1 DEF Without, Restrict
  <1>3. /\ DOMAIN rate' = DOMAIN rate \ empty
        /\ \A ip \in DOMAIN rate' : rate'[ip] = Recent(rate[ip])
    <2>1. DOMAIN recent = DOMAIN rate
      OBVIOUS
    <2>2. /\ DOMAIN rate' = DOMAIN recent \ empty
          /\ \A ip \in DOMAIN recent \ empty : rate'[ip] = recent[ip]
      BY <1>1 DEF Without, Restrict
    <2> QED
      BY <2>1, <2>2
  <1>4. TypeInv'
    <2>1. IsFiniteSet(DOMAIN lockout) /\ IsFiniteSet(DOMAIN rate)
      BY <1>1, Constants, FS_Subset DEF TypeInv
    <2>2. /\ Cardinality(DOMAIN lockout') <= Cardinality(DOMAIN lockout)
          /\ Cardinality(DOMAIN lockout') \in Nat /\ Cardinality(DOMAIN lockout) \in Nat
          /\ Cardinality(DOMAIN rate') <= Cardinality(DOMAIN rate)
          /\ Cardinality(DOMAIN rate') \in Nat /\ Cardinality(DOMAIN rate) \in Nat
      BY <1>2, <1>3, <2>1, FS_Subset, FS_CardinalityType
    <2>3. Cardinality(DOMAIN lockout') <= LockEntries /\ Cardinality(DOMAIN rate') <= RateEntries
      BY <1>1, <2>2, Constants DEF TypeInv
    <2>4. \A ip \in DOMAIN rate' : rate'[ip] \in SUBSET (Nat \X Nat)
      BY <1>1, <1>3 DEF TypeInv, Recent
    <2> QED
      BY <1>1, <1>2, <1>3, <2>3, <2>4 DEF TypeInv
  <1>5. ASSUME NEW k \in Keys PROVE LockInv(k)'
    <2>1. LockInv(k)
      BY DEF IInv
    <2>2. CASE k \in stale
      <3>1. guesses[k] = {}
        BY <1>1, <2>1, <2>2, RunOut, OutOfWindow
      <3> QED
        BY <1>1, <1>2, <2>2, <3>1, ForgottenKey
    <2>3. CASE k \notin stale
      <3>1. Pending(k)' \subseteq Pending(k)
        BY <1>1 DEF Pending
      <3> QED
        BY <1>1, <1>2, <2>1, <2>3, <3>1, KeyStays
    <2> QED
      BY <2>2, <2>3
  <1>6. ASSUME NEW ip \in Ips PROVE RateInv(ip)'
    <2>1. RateInv(ip) /\ now' = now /\ let_in' = let_in
      BY <1>1 DEF IInv
    <2>2. InOrder(let_in[ip])' /\ Cardinality(let_in'[ip]) <= RateLimit
      BY <2>1 DEF RateInv, InOrder
    <2>3. CASE ip \in DOMAIN rate'
      <3>1. rate'[ip] = Recent(rate[ip]) /\ ip \in DOMAIN rate
        BY <1>3, <2>3
      <3>2. {x \in rate'[ip] : x[1] > now' - RateWindow} = Recent(rate[ip])
        BY <2>1, <3>1 DEF Recent
      <3>3. \A x \in rate'[ip] : x[1] <= now'
        BY <2>1, <3>1 DEF Recent, RateInv
      <3> QED
        BY <2>1, <2>2, <2>3, <3>1, <3>2, <3>3 DEF RateInv, Recent
    <2>4. CASE ip \notin DOMAIN rate'
      <3>1. let_in'[ip] = {}
        BY <1>3, <2>1, <2>4 DEF RateInv
      <3> QED
        BY <2>1, <2>2, <2>4, <3>1 DEF RateInv
    <2> QED
      BY <2>3, <2>4
  <1> QED
    BY <1>4, <1>5, <1>6 DEF IInv

\* make_room: the store drops nothing if the key is known or there is room, and else
\* one record, of the lowest rank.
LEMMA RoomMade ==
  ASSUME TypeInv, NEW k \in Keys,
         NEW S \in IF k \in DOMAIN lockout THEN {DOMAIN lockout}
                   ELSE Survivors([x \in DOMAIN lockout |-> Rank(lockout[x])],
                                  LockEntries - 1)
  PROVE  /\ S \subseteq DOMAIN lockout /\ Cardinality(S \cup {k}) <= LockEntries
         /\ k \in DOMAIN lockout => S = DOMAIN lockout
         /\ \A gone \in DOMAIN lockout \ S :
              /\ S = DOMAIN lockout \ {gone}
              /\ \A kept \in S : Rank(lockout[gone]) <= Rank(lockout[kept])
  <1>1. /\ IsFiniteSet(DOMAIN lockout) /\ Cardinality(DOMAIN lockout) \in Nat
        /\ Cardinality(DOMAIN lockout) <= LockEntries
        /\ LockEntries - 1 \in Nat /\ LockEntries \in Nat
    BY Constants, FS_Subset, FS_CardinalityType DEF TypeInv
  <1>2. CASE k \in DOMAIN lockout
    <2>1. S = DOMAIN lockout /\ S \cup {k} = S
      BY <1>2
    <2> QED
      BY <1>1, <2>1
  <1>3. CASE k \notin DOMAIN lockout
    <2> DEFINE age == [x \in DOMAIN lockout |-> Rank(lockout[x])]
    <2>1. DOMAIN age = DOMAIN lockout /\ S \in Survivors(age, LockEntries - 1)
      BY <1>3
    <2>2. /\ S \subseteq DOMAIN lockout /\ IsFiniteSet(S) /\ Cardinality(S) <= LockEntries - 1
          /\ Cardinality(DOMAIN lockout) <= LockEntries - 1 => S = DOMAIN lockout
          /\ Cardinality(DOMAIN lockout) > LockEntries - 1 =>
               /\ Cardinality(S) = LockEntries - 1
               /\ \A gone \in DOMAIN age \ S, kept \in S : age[gone] <= age[kept]
      <3> HIDE DEF age
      <3> QED
        BY <1>1, <2>1, SurvivorsFacts
    <2>3. Cardinality(S) \in Nat /\ Cardinality(S \cup {k}) <= LockEntries
      <3>1. k \notin S /\ Cardinality(S \cup {k}) = Cardinality(S) + 1 /\ Cardinality(S) \in Nat
        BY <1>3, <2>2, FS_AddElement, FS_CardinalityType
      <3> QED
        BY <1>1, <2>2, <3>1
    <2>4. ASSUME NEW gone \in DOMAIN lockout \ S
          PROVE  /\ S = DOMAIN lockout \ {gone}
                 /\ \A kept \in S : Rank(lockout[gone]) <= Rank(lockout[kept])
      <3>1. /\ Cardinality(DOMAIN lockout) = LockEntries
            /\ Cardinality(S) = LockEntries - 1
        BY <1>1, <2>2, <2>4
      <3>2. /\ IsFiniteSet(DOMAIN lockout \ {gone})
            /\ Cardinality(DOMAIN lockout \ {gone}) = Cardinality(DOMAIN lockout) - 1
        BY <1>1, FS_RemoveElement
      <3>3. S \subseteq DOMAIN lockout \ {gone}
        BY <2>2, <2>4
      <3>4. S = DOMAIN lockout \ {gone}
        BY <1>1, <3>1, <3>2, <3>3, FS_Subset
      <3>5. \A kept \in S : age[gone] <= age[kept]
        BY <1>1, <2>1, <2>2, <3>1
      <3> QED
        BY <2>2, <3>4, <3>5
    <2> QED
      BY <1>3, <2>2, <2>3, <2>4
  <1> QED
    BY <1>2, <1>3

\* What record_failure makes of a record.
LEMMA CountFacts ==
  ASSUME now \in Nat,
         NEW r, r.attempts \in Nat, r.until \in Nat \cup {NoId}, r.last \in Nat, r.last <= now
  PROVE  LET stale == now - r.last > AttemptWindow
             n == IF stale THEN 1 ELSE r.attempts + 1
         IN  /\ Count(r) \in Records
             /\ Count(r).last = now /\ Count(r).attempts = n
             /\ n >= Threshold => Count(r).until = now + LockTime
             /\ ~(n >= Threshold) => Count(r).until = IF stale THEN NoId ELSE r.until
  <1> DEFINE stale == now - r.last > AttemptWindow
             n == IF stale THEN 1 ELSE r.attempts + 1
             until == IF n >= Threshold THEN now + LockTime
                      ELSE IF stale THEN NoId ELSE r.until
  <1>1. Count(r) = [attempts |-> n, until |-> until, last |-> now]
    BY DEF Count, Attempt
  <1>2. n \in Nat \ {0} /\ until \in Nat \cup {NoId}
    BY Constants
  <1>3. Count(r) \in Records
    BY <1>1, <1>2 DEF Records
  <1> QED
    BY <1>1, <1>3

\* record_failure, taken apart.
LEMMA FailureParts ==
  ASSUME TypeInv, NEW t \in Threads, RecordFailure(t), NEW k, k = thread[t].key
  PROVE  /\ k \in Keys /\ thread[t].step = "wrong" /\ Respond(t)
         /\ UNCHANGED <<now, rate, let_in, requests, mishaps>>
         /\ \E S \in SUBSET DOMAIN lockout :
              /\ Cardinality(S \cup {k}) <= LockEntries
              /\ k \in DOMAIN lockout => S = DOMAIN lockout
              /\ \A gone \in DOMAIN lockout \ S :
                   /\ S = DOMAIN lockout \ {gone}
                   /\ \A kept \in S : Rank(lockout[gone]) <= Rank(lockout[kept])
              /\ DOMAIN lockout' = S \cup {k}
              /\ \A x \in S \ {k} : lockout'[x] = lockout[x]
              /\ lockout'[k] = Count(IF k \in S THEN lockout[k] ELSE Attempt(0, NoId))
              /\ guesses' = [x \in Keys |-> IF x = k THEN Noted(guesses[x])
                                            ELSE IF x \in DOMAIN lockout \ S THEN {}
                                            ELSE guesses[x]]
  <1>1. /\ thread[t].step = "wrong" /\ Respond(t)
        /\ UNCHANGED <<now, rate, let_in, requests, mishaps>>
    BY DEF RecordFailure, At
  <1>2. k \in Keys
    BY <1>1, KeyOf
  <1>3. PICK S \in IF k \in DOMAIN lockout THEN {DOMAIN lockout}
                   ELSE Survivors([x \in DOMAIN lockout |-> Rank(lockout[x])],
                                  LockEntries - 1) :
          /\ lockout' = Put(Restrict(lockout, S), k,
                            Count(IF k \in S THEN Restrict(lockout, S)[k]
                                  ELSE Attempt(0, NoId)))
          /\ guesses' = [x \in Keys |-> IF x = k THEN Noted(guesses[x])
                                        ELSE IF x \in DOMAIN lockout \ S THEN {}
                                        ELSE guesses[x]]
    BY DEF RecordFailure
  <1>4. /\ S \subseteq DOMAIN lockout /\ Cardinality(S \cup {k}) <= LockEntries
        /\ k \in DOMAIN lockout => S = DOMAIN lockout
        /\ \A gone \in DOMAIN lockout \ S :
             /\ S = DOMAIN lockout \ {gone}
             /\ \A kept \in S : Rank(lockout[gone]) <= Rank(lockout[kept])
    BY <1>2, <1>3, RoomMade
  <1>5. /\ DOMAIN lockout' = S \cup {k}
        /\ \A x \in S \ {k} : lockout'[x] = lockout[x]
        /\ lockout'[k] = Count(IF k \in S THEN Restrict(lockout, S)[k]
                               ELSE Attempt(0, NoId))
    BY <1>3 DEF Put, Restrict
  <1>6. k \in S => Restrict(lockout, S)[k] = lockout[k]
    BY DEF Restrict
  <1>7. lockout'[k] = Count(IF k \in S THEN lockout[k] ELSE Attempt(0, NoId))
    BY <1>5, <1>6
  <1> QED
    BY <1>1, <1>2, <1>3, <1>4, <1>5, <1>7

\* The guesses of the key that failed: counted, or held down by the lock.
LEMMA FailedKey ==
  ASSUME IInv, NEW t \in Threads, NEW k \in Keys,
         thread[t].step = "wrong", thread[t].key = k, Respond(t), UNCHANGED now,
         k \in DOMAIN lockout',
         lockout'[k] = Count(IF k \in DOMAIN lockout THEN lockout[k] ELSE Attempt(0, NoId)),
         guesses'[k] = Noted(guesses[k])
  PROVE  LockInv(k)' /\ lockout'[k] \in Records
  <1> DEFINE G == Cardinality(guesses[k])
             P == Cardinality(Pending(k))
             T == Cardinality(Threads)
             r == IF k \in DOMAIN lockout THEN lockout[k] ELSE Attempt(0, NoId)
             stale == now - r.last > AttemptWindow
             n == IF stale THEN 1 ELSE r.attempts + 1
  <1>1. /\ TypeInv /\ LockInv(k) /\ now \in Nat /\ now' = now
        /\ guesses[k] \in SUBSET (Nat \X Nat) /\ InOrder(guesses[k])
    BY DEF IInv, TypeInv, LockInv
  <1>2. r.attempts \in Nat /\ r.until \in Nat \cup {NoId} /\ r.last \in Nat /\ r.last <= now
    <2>1. CASE k \in DOMAIN lockout
      BY <1>1, <2>1 DEF TypeInv, Records, LockInv
    <2>2. CASE k \notin DOMAIN lockout
      BY <1>1, <2>2 DEF Attempt
    <2> QED
      BY <2>1, <2>2
  <1>3. /\ lockout'[k] \in Records
        /\ lockout'[k].last = now /\ lockout'[k].attempts = n
        /\ n >= Threshold => lockout'[k].until = now + LockTime
        /\ ~(n >= Threshold) => lockout'[k].until = IF stale THEN NoId ELSE r.until
    <2> HIDE DEF r
    <2>1. lockout'[k] = Count(r)
      BY DEF r
    <2> QED
      BY <1>1, <1>2, <2>1, CountFacts
  <1>4. /\ Noted(guesses[k]) \in SUBSET (Nat \X Nat) /\ InOrder(Noted(guesses[k]))
        /\ Cardinality(guesses'[k]) = G + 1 /\ G \in Nat
    BY <1>1, NotedFacts
  <1>5. InOrder(guesses[k])'
    BY <1>1, <1>4 DEF InOrder
  <1>6. \A x \in guesses'[k] : x[1] > now - AttemptWindow /\ x[1] <= now
    <2>1. \A x \in guesses[k] : x[1] > now - AttemptWindow /\ x[1] <= now
      BY <1>1 DEF LockInv, InOrder
    <2>2. now > now - AttemptWindow
      BY <1>1, Constants
    <2> QED
      BY <1>1, <2>1, <2>2 DEF Noted
  <1>7. /\ P \in Nat /\ T \in Nat /\ P <= T
        /\ Cardinality(Pending(k)') = P - 1
    <2>1. t \in Pending(k)
      BY DEF Pending
    <2>2. Pending(k)' = Pending(k) \ {t}
      BY <1>1, Responding, PendingLess
    <2>3. Cardinality(Pending(k) \ {t}) = P - 1
      BY <2>1, PendingFinite, FS_RemoveElement
    <2> QED
      BY <2>2, <2>3, PendingFinite
  <1>8. CASE k \notin DOMAIN lockout \/ stale \/ (Locked(k) /\ ~Live(k))
    <2>1. G = 0
      <3>1. guesses[k] = {}
        <4>1. CASE k \notin DOMAIN lockout
          BY <1>1, <4>1 DEF LockInv
        <4>2. CASE k \in DOMAIN lockout /\ stale
          BY <1>1, <4>2, OutOfWindow
        <4>3. CASE Locked(k) /\ ~Live(k)
          BY <1>1, <4>3, RunOut
        <4> QED
          BY <1>8, <4>1, <4>2, <4>3
      <3> QED
        BY <3>1, FS_EmptySet
    <2>2. n \in Nat /\ 1 <= n
      BY <1>2
    <2>3. ~(n >= Threshold) => lockout'[k].until = NoId
      <3>1. CASE stale
        BY <1>3, <3>1
      <3>2. CASE k \notin DOMAIN lockout
        BY <1>3, <3>2 DEF Attempt
      <3>3. CASE Locked(k) /\ ~stale
        <4>1. r.attempts >= Threshold
          BY <1>1, <3>3 DEF LockInv, Locked
        <4> QED
          BY <1>2, <3>3, <4>1, Constants
      <3> QED
        BY <1>8, <3>1, <3>2, <3>3
    <2>4. Cardinality(guesses'[k]) + Cardinality(Pending(k)') <= Threshold + T - 1
      BY <1>4, <1>7, <2>1, Constants
    <2>5. Cardinality(guesses'[k]) <= n
      BY <1>4, <2>1, <2>2
    <2>6. lockout'[k].until = NoId => ~(n >= Threshold)
      BY <1>1, <1>3, Constants
    <2> HIDE DEF n, T
    <2>7. /\ lockout'[k].until = NoId => n < Threshold
          /\ lockout'[k].until # NoId => n >= Threshold /\ lockout'[k].until = now + LockTime
      BY <1>3, <2>2, <2>3, <2>6, Constants
    <2> QED
      BY <1>1, <1>3, <1>5, <1>6, <2>4, <2>5, <2>7 DEF LockInv, T
  <1>9. CASE k \in DOMAIN lockout /\ ~stale /\ ~Locked(k)
    <2>1. r.attempts < Threshold /\ G <= r.attempts /\ r.until = NoId /\ n = r.attempts + 1
      BY <1>1, <1>9 DEF LockInv, Locked
    <2>2. n <= Threshold /\ n \in Nat
      BY <1>2, <2>1, Constants
    <2>3. Cardinality(guesses'[k]) <= n
      BY <1>2, <1>4, <2>1
    <2>4. Cardinality(guesses'[k]) + Cardinality(Pending(k)') <= Threshold + T - 1
      BY <1>2, <1>4, <1>7, <2>1, Constants
    <2>5. ~(n >= Threshold) => lockout'[k].until = NoId
      BY <1>3, <1>9, <2>1
    <2>6. lockout'[k].until = NoId => ~(n >= Threshold)
      BY <1>1, <1>3, Constants
    <2> HIDE DEF n, T
    <2>7. /\ lockout'[k].until = NoId => n < Threshold
          /\ lockout'[k].until # NoId => n >= Threshold /\ lockout'[k].until = now + LockTime
      BY <1>3, <2>2, <2>5, <2>6, Constants
    <2> QED
      BY <1>1, <1>3, <1>5, <1>6, <2>3, <2>4, <2>7 DEF LockInv, T
  <1>10. CASE k \in DOMAIN lockout /\ ~stale /\ Live(k)
    <2>1. r.attempts >= Threshold /\ n = r.attempts + 1 /\ G + P <= Threshold + T - 1
      BY <1>1, <1>10 DEF LockInv, Live, Locked
    <2>2. n >= Threshold
      BY <1>2, <2>1, Constants
    <2>3. Cardinality(guesses'[k]) + Cardinality(Pending(k)') <= Threshold + T - 1
      BY <1>4, <1>7, <2>1, Constants
    <2>4. lockout'[k].until = now + LockTime /\ lockout'[k].until # NoId
      BY <1>1, <1>3, <2>2, Constants
    <2> HIDE DEF n, T
    <2> QED
      BY <1>1, <1>3, <1>5, <1>6, <2>2, <2>3, <2>4 DEF LockInv, T
  <1> QED
    BY <1>3, <1>8, <1>9, <1>10

\* A wrong password recorded, with the lock it may set, keeps the invariant.
LEMMA RecordFailureInv ==
  ASSUME IInv, NEW t \in Threads, RecordFailure(t)
  PROVE  IInv'
  <1>1. TypeInv /\ guesses \in [Keys -> SUBSET (Nat \X Nat)]
    BY DEF IInv, TypeInv
  <1> SUFFICES ASSUME NEW k, k = thread[t].key PROVE IInv'
    OBVIOUS
  <1>2. /\ k \in Keys /\ thread[t].step = "wrong" /\ Respond(t)
        /\ UNCHANGED <<now, rate, let_in, requests, mishaps>>
    BY <1>1, FailureParts
  <1>3. PICK S \in SUBSET DOMAIN lockout :
          /\ Cardinality(S \cup {k}) <= LockEntries
          /\ k \in DOMAIN lockout => S = DOMAIN lockout
          /\ DOMAIN lockout' = S \cup {k}
          /\ \A x \in S \ {k} : lockout'[x] = lockout[x]
          /\ lockout'[k] = Count(IF k \in S THEN lockout[k] ELSE Attempt(0, NoId))
          /\ guesses' = [x \in Keys |-> IF x = k THEN Noted(guesses[x])
                                        ELSE IF x \in DOMAIN lockout \ S THEN {}
                                        ELSE guesses[x]]
    BY SMTT(30), <1>1, FailureParts
  <1>4. LockInv(k)' /\ lockout'[k] \in Records
    <2>1. guesses'[k] = Noted(guesses[k])
      BY <1>2, <1>3
    <2>2. k \in S <=> k \in DOMAIN lockout
      BY <1>3
    <2> QED
      BY <1>2, <1>3, <2>1, <2>2, FailedKey
  <1>5. /\ thread' \in [Threads -> Asking \cup {Idle}]
        /\ thread'[t].step = "idle"
        /\ \A s \in Threads \ {t} : thread'[s] = thread[s]
    BY <1>1, <1>2, Responding
  <1>6. TypeInv'
    <2>1. guesses' \in [Keys -> SUBSET (Nat \X Nat)]
      <3>1. Noted(guesses[k]) \in SUBSET (Nat \X Nat)
        <4>1. InOrder(guesses[k]) /\ now \in Nat /\ guesses[k] \in SUBSET (Nat \X Nat)
          BY <1>1, <1>2 DEF IInv, LockInv, TypeInv
        <4> QED
          BY <4>1, NotedFacts
      <3> QED
        BY <1>1, <1>3, <3>1
    <2>2. /\ DOMAIN lockout' \subseteq Keys /\ Cardinality(DOMAIN lockout') <= LockEntries
          /\ \A x \in DOMAIN lockout' : lockout'[x] \in Records
      BY <1>1, <1>2, <1>3, <1>4 DEF TypeInv
    <2> QED
      BY <1>1, <1>2, <1>5, <2>1, <2>2 DEF TypeInv
  <1>7. ASSUME NEW x \in Keys PROVE LockInv(x)'
    <2>1. CASE x = k
      BY <1>4, <2>1
    <2>2. CASE x # k /\ x \in DOMAIN lockout \ S
      <3>1. guesses'[x] = {} /\ x \notin DOMAIN lockout'
        BY <1>3, <2>2
      <3> QED
        BY <3>1, ForgottenKey
    <2>3. CASE x # k /\ x \notin DOMAIN lockout \ S
      <3>1. /\ guesses'[x] = guesses[x]
            /\ x \in DOMAIN lockout' <=> x \in DOMAIN lockout
            /\ x \in DOMAIN lockout => lockout'[x] = lockout[x]
        BY <1>3, <2>3
      <3>2. Pending(x)' \subseteq Pending(x)
        BY <1>5, PendingLess
      <3> QED
        BY <1>2, <3>1, <3>2, KeyStays DEF IInv
    <2> QED
      BY <2>1, <2>2, <2>3
  <1>8. ASSUME NEW ip \in Ips PROVE RateInv(ip)'
    BY <1>2, RateStays DEF IInv
  <1> QED
    BY <1>6, <1>7, <1>8 DEF IInv

\* What check_and_record does for the address of k when the eviction leaves S.
Checked(t, op, k, S, refused) ==
  LET ip == k[2] IN
  /\ Cardinality(S \cup {ip}) <= RateEntries
  /\ refused <=> Cardinality(let_in[ip]) >= RateLimit
  /\ DOMAIN rate' = S \cup {ip}
  /\ \A i \in S \ {ip} : rate'[i] = rate[i]
  /\ rate'[ip] = IF refused THEN let_in[ip] ELSE Noted(let_in[ip])
  /\ \A i \in Ips \ {ip} : let_in'[i] = IF i \in S THEN let_in[i] ELSE {}
  /\ let_in'[ip] = rate'[ip]
  /\ let_in' \in [Ips -> SUBSET (Nat \X Nat)]
  /\ thread' = [thread EXCEPT ![t] =
       IF refused THEN Idle
       ELSE [step |-> op, key |-> k,
             id |-> IF op = "signup" THEN requests' ELSE NoId]]

\* check_and_record, taken apart: what the store knows of the address is what was let
\* in, and the request joins both or neither.
LEMMA ArriveParts ==
  ASSUME IInv, NEW t \in Threads, NEW op \in {"signup", "signin"}, NEW k \in Keys,
         Arrive(t, op, k)
  PROVE  /\ k[2] \in Ips
         /\ \E S \in SUBSET DOMAIN rate, refused \in BOOLEAN : Checked(t, op, k, S, refused)
  <1> DEFINE ip == k[2]
             age == [i \in DOMAIN rate |-> FirstTime(rate[i])]
             max == IF ip \in DOMAIN rate THEN RateEntries ELSE RateEntries - 1
  <1>1. ip \in Ips /\ ip = k[2]
    BY DEF Keys
  <1>2. /\ TypeInv /\ RateInv(ip) /\ let_in \in [Ips -> SUBSET (Nat \X Nat)]
        /\ let_in[ip] \in SUBSET (Nat \X Nat) /\ now \in Nat
    BY <1>1 DEF IInv, TypeInv
  <1>3. /\ IsFiniteSet(DOMAIN rate) /\ Cardinality(DOMAIN rate) \in Nat
        /\ Cardinality(DOMAIN rate) <= RateEntries
        /\ RateEntries \in Nat /\ RateEntries - 1 \in Nat
    BY <1>2, Constants, FS_Subset, FS_CardinalityType DEF TypeInv
  <1>4. PICK S \in Survivors(age, max) :
          LET store == Restrict(rate, S)
              times == Recent(IF ip \in S THEN store[ip] ELSE {})
              refused == Cardinality(times) >= RateLimit
              known == [i \in Ips |-> IF i \in S \cup {ip} THEN let_in[i] ELSE {}]
          IN  /\ rate' = Put(store, ip, IF refused THEN times ELSE Noted(times))
              /\ let_in' = IF refused THEN known ELSE [known EXCEPT ![ip] = Noted(@)]
              /\ thread' = [thread EXCEPT ![t] =
                   IF refused THEN Idle
                   ELSE [step |-> op, key |-> k,
                         id |-> IF op = "signup" THEN requests' ELSE NoId]]
    BY DEF Arrive
  <1> HIDE DEF ip
  <1>5. /\ S \subseteq DOMAIN rate /\ IsFiniteSet(S) /\ Cardinality(S) <= max
        /\ Cardinality(DOMAIN rate) <= max => S = DOMAIN rate
    <2>1. DOMAIN age = DOMAIN rate /\ max \in Nat
      BY <1>3
    <2> HIDE DEF age, max
    <2> QED
      BY <1>3, <2>1, SurvivorsFacts
  <1>6. /\ ip \in DOMAIN rate => S = DOMAIN rate
        /\ Cardinality(S \cup {ip}) <= RateEntries
    <2>1. CASE ip \in DOMAIN rate
      <3>1. S = DOMAIN rate /\ S \cup {ip} = S
        BY <1>3, <1>5, <2>1
      <3> QED
        BY <1>3, <3>1
    <2>2. CASE ip \notin DOMAIN rate
      <3>1. ip \notin S /\ Cardinality(S) \in Nat /\ Cardinality(S) <= RateEntries - 1
        BY <1>5, <2>2, FS_CardinalityType
      <3>2. Cardinality(S \cup {ip}) = Cardinality(S) + 1
        BY <1>5, <3>1, FS_AddElement
      <3> QED
        BY <1>3, <2>2, <3>1, <3>2
    <2> QED
      BY <2>1, <2>2
  <1>7. Recent(IF ip \in S THEN Restrict(rate, S)[ip] ELSE {}) = let_in[ip]
    <2>1. CASE ip \in DOMAIN rate
      <3>1. Restrict(rate, S)[ip] = rate[ip] /\ ip \in S
        BY <1>6, <2>1 DEF Restrict
      <3> QED
        BY <1>2, <2>1, <3>1 DEF RateInv
    <2>2. CASE ip \notin DOMAIN rate
      <3>1. ip \notin S /\ let_in[ip] = {}
        BY <1>2, <1>5, <2>2 DEF RateInv
      <3> QED
        BY <3>1 DEF Recent
    <2> QED
      BY <2>1, <2>2
  <1> DEFINE refused == Cardinality(let_in[ip]) >= RateLimit
             known == [i \in Ips |-> IF i \in S \cup {ip} THEN let_in[i] ELSE {}]
             new == IF refused THEN let_in[ip] ELSE Noted(let_in[ip])
  <1>8. /\ rate' = Put(Restrict(rate, S), ip, new)
        /\ let_in' = IF refused THEN known ELSE [known EXCEPT ![ip] = Noted(@)]
        /\ thread' = [thread EXCEPT ![t] =
             IF refused THEN Idle
             ELSE [step |-> op, key |-> k,
                   id |-> IF op = "signup" THEN requests' ELSE NoId]]
    BY <1>4, <1>7
  <1>9. new \in SUBSET (Nat \X Nat)
    <2>1. Noted(let_in[ip]) \in SUBSET (Nat \X Nat)
      BY <1>2, NotedFacts DEF RateInv
    <2> QED
      BY <1>2, <2>1
  <1>10. /\ DOMAIN rate' = S \cup {ip} /\ rate'[ip] = new
         /\ \A i \in S \ {ip} : rate'[i] = rate[i]
    <2> HIDE DEF new
    <2> QED
      BY <1>8 DEF Put, Restrict
  <1>11. let_in' = [i \in Ips |-> IF i = ip THEN new ELSE IF i \in S THEN let_in[i] ELSE {}]
    <2>1. CASE refused
      BY <1>8, <2>1
    <2>2. CASE ~refused
      <3>1. let_in' = [known EXCEPT ![ip] = Noted(known[ip])]
        BY <1>8, <2>2
      <3>2. known[ip] = let_in[ip]
        BY <1>1
      <3> QED
        BY <1>1, <2>2, <3>1, <3>2
    <2> QED
      BY <2>1, <2>2
  <1>12. let_in' \in [Ips -> SUBSET (Nat \X Nat)]
    <2> HIDE DEF new
    <2> QED
      BY <1>2, <1>9, <1>11
  <1>13. /\ let_in'[ip] = new
         /\ \A i \in Ips \ {ip} : let_in'[i] = IF i \in S THEN let_in[i] ELSE {}
    BY <1>1, <1>11
  <1>14. refused \in BOOLEAN
    OBVIOUS
  <1> HIDE DEF refused
  <1>15. /\ rate'[ip] = IF refused THEN let_in[ip] ELSE Noted(let_in[ip])
         /\ let_in'[ip] = rate'[ip]
         /\ refused <=> Cardinality(let_in[ip]) >= RateLimit
         /\ thread' = [thread EXCEPT ![t] =
              IF refused THEN Idle
              ELSE [step |-> op, key |-> k,
                    id |-> IF op = "signup" THEN requests' ELSE NoId]]
    BY <1>8, <1>10, <1>13 DEF refused
  <1>16. Checked(t, op, k, S, refused)
    BY ONLY <1>1, <1>6, <1>10, <1>12, <1>13, <1>15 DEF Checked
  <1>17. S \in SUBSET DOMAIN rate
    BY <1>5
  <1> QED
    BY <1>1, <1>14, <1>16, <1>17

\* A request that arrives, its two rate limits and its lockout check keep the invariant.
LEMMA ArriveInv ==
  ASSUME IInv, NEW t \in Threads, NEW op \in {"signup", "signin"}, NEW k \in Keys,
         Arrive(t, op, k)
  PROVE  IInv'
  <1> DEFINE ip == k[2]
  <1>1. /\ TypeInv /\ requests \in Nat /\ requests' = requests + 1
        /\ UNCHANGED <<now, users, auths, lockout, guesses, mishaps>>
    BY DEF Arrive, tables, IInv, TypeInv
  <1>2. ip \in Ips
    BY ArriveParts
  <1>30. PICK S \in SUBSET DOMAIN rate, refused \in BOOLEAN : Checked(t, op, k, S, refused)
    BY ArriveParts
  <1>3. /\ Cardinality(S \cup {ip}) <= RateEntries
        /\ refused <=> Cardinality(let_in[ip]) >= RateLimit
        /\ DOMAIN rate' = S \cup {ip}
        /\ \A i \in S \ {ip} : rate'[i] = rate[i]
        /\ rate'[ip] = IF refused THEN let_in[ip] ELSE Noted(let_in[ip])
        /\ \A i \in Ips \ {ip} : let_in'[i] = IF i \in S THEN let_in[i] ELSE {}
        /\ let_in'[ip] = rate'[ip]
        /\ let_in' \in [Ips -> SUBSET (Nat \X Nat)]
        /\ thread' = [thread EXCEPT ![t] =
             IF refused THEN Idle
             ELSE [step |-> op, key |-> k,
                   id |-> IF op = "signup" THEN requests' ELSE NoId]]
    BY <1>30 DEF Checked
  <1> HIDE DEF ip
  <1>4. /\ thread' \in [Threads -> Asking \cup {Idle}]
        /\ \A s \in Threads \ {t} : thread'[s] = thread[s]
        /\ thread'[t].step \notin {"find_auth", "wrong"}
    <2> DEFINE new == [step |-> op, key |-> k,
                       id |-> IF op = "signup" THEN requests' ELSE NoId]
    <2>1. new \in Asking /\ new.step = op /\ Idle.step = "idle"
      BY <1>1 DEF Asking, Idle
    <2>2. thread' = [thread EXCEPT ![t] = IF refused THEN Idle ELSE new]
      BY <1>3
    <2>3. thread \in [Threads -> Asking \cup {Idle}]
      BY <1>1 DEF TypeInv
    <2> HIDE DEF new
    <2>4. thread'[t] = IF refused THEN Idle ELSE new
      BY <2>2, <2>3
    <2> QED
      BY <2>1, <2>2, <2>3, <2>4
  <1>5. /\ let_in[ip] \in SUBSET (Nat \X Nat) /\ RateInv(ip) /\ now \in Nat
        /\ InOrder(let_in[ip]) /\ rate'[ip] \in SUBSET (Nat \X Nat)
        /\ InOrder(rate'[ip]) /\ Cardinality(rate'[ip]) <= RateLimit
    <2>1. /\ let_in[ip] \in SUBSET (Nat \X Nat) /\ RateInv(ip) /\ now \in Nat
          /\ InOrder(let_in[ip])
      BY <1>2 DEF IInv, TypeInv, RateInv
    <2>2. CASE refused
      <3>1. rate'[ip] = let_in[ip]
        BY <1>3, <2>2
      <3> QED
        BY <1>1, <2>1, <3>1 DEF InOrder, RateInv
    <2>3. CASE ~refused
      <3>1. rate'[ip] = Noted(let_in[ip])
        BY <1>3, <2>3
      <3>2. /\ Noted(let_in[ip]) \in SUBSET (Nat \X Nat) /\ InOrder(Noted(let_in[ip]))
            /\ Cardinality(Noted(let_in[ip])) = Cardinality(let_in[ip]) + 1
            /\ Cardinality(let_in[ip]) \in Nat
        BY <2>1, NotedFacts
      <3>3. Cardinality(rate'[ip]) <= RateLimit
        BY <1>3, <2>3, <3>1, <3>2, Constants
      <3> QED
        BY <1>1, <2>1, <3>1, <3>2, <3>3 DEF InOrder
    <2> QED
      BY <2>1, <2>2, <2>3
  <1>6. TypeInv'
    <2>1. /\ DOMAIN rate' \subseteq Ips /\ Cardinality(DOMAIN rate') <= RateEntries
          /\ \A i \in DOMAIN rate' : rate'[i] \in SUBSET (Nat \X Nat)
      BY <1>1, <1>2, <1>3, <1>5 DEF TypeInv
    <2>2. /\ requests' \in Nat /\ UNCHANGED <<now, lockout, guesses, mishaps>>
          /\ let_in' \in [Ips -> SUBSET (Nat \X Nat)]
      BY <1>1, <1>3
    <2> QED
      BY <1>1, <1>4, <2>1, <2>2 DEF TypeInv
  <1>7. ASSUME NEW x \in Keys PROVE LockInv(x)'
    <2>1. Pending(x)' \subseteq Pending(x)
      BY <1>4, PendingLess
    <2> QED
      BY <1>1, <2>1, KeyStays DEF IInv
  <1>8. ASSUME NEW i \in Ips PROVE RateInv(i)'
    <2>1. CASE i = ip
      <3>1. let_in'[ip] = rate'[ip] /\ ip \in DOMAIN rate'
        BY <1>3
      <3>2. \A x \in rate'[ip] : x[1] > now - RateWindow
        <4>1. \A x \in let_in[ip] : x[1] > now - RateWindow
          BY <1>5 DEF RateInv, Recent
        <4>2. now > now - RateWindow
          BY <1>5, Constants
        <4> QED
          BY <1>3, <4>1, <4>2 DEF Noted
      <3>3. {x \in rate'[ip] : x[1] > now' - RateWindow} = rate'[ip]
        BY <1>1, <3>2
      <3>4. \A x \in rate'[ip] : x[1] <= now'
        BY <1>1, <1>5 DEF InOrder
      <3>5. InOrder(let_in[ip])' /\ Cardinality(let_in'[ip]) <= RateLimit
        BY <1>1, <1>5, <3>1 DEF InOrder
      <3> QED
        BY <2>1, <3>1, <3>3, <3>4, <3>5 DEF RateInv, Recent
    <2>2. CASE i # ip /\ i \in S
      <3>1. /\ i \in DOMAIN rate /\ i \in DOMAIN rate' /\ rate'[i] = rate[i]
            /\ let_in'[i] = let_in[i] /\ RateInv(i)
        BY <1>3, <2>2 DEF IInv
      <3> QED
        BY <1>1, <3>1 DEF RateInv, Recent, InOrder
    <2>3. CASE i # ip /\ i \notin S
      <3>1. i \notin DOMAIN rate' /\ let_in'[i] = {}
        BY <1>3, <2>3
      <3> QED
        BY <3>1, FS_EmptySet, Constants DEF RateInv, InOrder
    <2> QED
      BY <2>1, <2>2, <2>3
  <1> QED
    BY <1>6, <1>7, <1>8 DEF IInv

\* Every step keeps the invariant.
LEMMA StepInv == IInv /\ [Next]_vars => IInv'
  <1> SUFFICES ASSUME IInv, [Next]_vars PROVE IInv'
    OBVIOUS
  <1>1. CASE UNCHANGED vars
    <2>1. UNCHANGED <<now, lockout, rate, guesses, let_in, thread, requests, mishaps>>
      BY <1>1 DEF vars, stores
    <2>2. TypeInv'
      BY <2>1 DEF IInv, TypeInv
    <2>3. ASSUME NEW k \in Keys PROVE LockInv(k)'
      <3>1. Pending(k)' \subseteq Pending(k)
        BY <2>1 DEF Pending
      <3> QED
        BY <2>1, <3>1, KeyStays DEF IInv
    <2>4. ASSUME NEW ip \in Ips PROVE RateInv(ip)'
      BY <2>1, RateStays DEF IInv
    <2> QED
      BY <2>2, <2>3, <2>4 DEF IInv
  <1> QED
    BY <1>1, TickInv, ArriveInv, RequestInv, CheckLockInv, RecordFailureInv, FindUserInv,
       CleanupInv, RestartInv
    DEF Next

-----------------------------------------------------------------------------
\* The inductive invariant holds in every behaviour.
THEOREM AccountsInvariance == Spec => []IInv
  <1> QED
    BY InitInv, StepInv, PTL DEF Spec

\* The variables keep their types, and neither store outgrows its capacity:
\* LOCKOUT_MAX_ENTRIES and AUTH_RATE_MAX_ENTRIES.
THEOREM StoresAreBounded == Spec => []TypeInv
  <1>1. IInv => TypeInv
    BY DEF IInv
  <1> QED
    BY <1>1, AccountsInvariance, PTL

\* create_account: an email has a user and credentials for it, or neither.
THEOREM AccountsAreWhole == Spec => []AccountsWhole
  <1>1. Init => AccountsWhole
    BY DEF Init, AccountsWhole
  <1>2. AccountsWhole /\ [Next]_vars => AccountsWhole'
    <2> SUFFICES ASSUME AccountsWhole, [Next]_vars PROVE users' = auths'
      BY DEF AccountsWhole
    <2>1. ASSUME NEW t \in Threads, CreateAccount(t) PROVE users' = auths'
      BY <2>1 DEF CreateAccount, AccountsWhole
    <2>2. CASE UNCHANGED <<users, auths>>
      BY <2>2 DEF AccountsWhole
    <2>3. ASSUME NEW t \in Threads,
                 \/ RefuseBody(t) \/ Duplicate(t) \/ CallFails(t) \/ CheckLock(t)
                 \/ FindAuth(t) \/ Rehash(t) \/ RecordFailure(t) \/ FindUser(t)
          PROVE  UNCHANGED <<users, auths>>
      BY <2>3
      DEF RefuseBody, Duplicate, CallFails, CheckLock, FindAuth, Rehash, RecordFailure,
          FindUser, tables
    <2>4. CASE \/ Tick \/ Cleanup \/ Restart \/ UNCHANGED vars
               \/ \E t \in Threads, op \in {"signup", "signin"}, k \in Keys : Arrive(t, op, k)
      <3>1. UNCHANGED <<users, auths>>
        BY <2>4 DEF Tick, Cleanup, Restart, vars, Arrive, tables
      <3> QED
        BY <2>2, <3>1
    <2> QED
      BY <2>1, <2>2, <2>3, <2>4 DEF Next
  <1> QED
    BY <1>1, <1>2, PTL DEF Spec

\* LOCKOUT_THRESHOLD: in no window are more passwords of a key found wrong than the
\* threshold and the other threads allow.
THEOREM GuessesAreBounded == Spec => []GuessesBounded
  <1>1. IInv => GuessesBounded
    <2> SUFFICES ASSUME IInv, NEW k \in Keys
                 PROVE  Cardinality(guesses[k]) <= Threshold + Cardinality(Threads) - 1
      BY DEF GuessesBounded
    <2>1. /\ TypeInv /\ LockInv(k) /\ Cardinality(guesses[k]) \in Nat
          /\ Cardinality(Threads) \in Nat /\ Cardinality(Pending(k)) \in Nat
      BY PendingFinite, FS_CardinalityType DEF IInv, LockInv, InOrder
    <2>2. CASE guesses[k] = {}
      BY <2>1, <2>2, FS_EmptySet, Constants
    <2>3. CASE k \in DOMAIN lockout /\ ~Locked(k)
      <3>1. /\ Cardinality(guesses[k]) <= lockout[k].attempts
            /\ lockout[k].attempts < Threshold /\ lockout[k].attempts \in Nat
        BY <2>1, <2>3 DEF LockInv, Locked, TypeInv, Records
      <3> QED
        BY <2>1, <3>1, Constants
    <2>4. CASE Live(k)
      BY <2>1, <2>4, Constants DEF LockInv
    <2> QED
      BY <2>1, <2>2, <2>3, <2>4, RunOut DEF LockInv
  <1> QED
    BY <1>1, AccountsInvariance, PTL

\* AUTH_RATE_LIMIT: no window lets more requests of an address through.
THEOREM RateIsHeld == Spec => []RateHolds
  <1>1. IInv => RateHolds
    BY DEF IInv, RateHolds, RateInv
  <1> QED
    BY <1>1, AccountsInvariance, PTL

-----------------------------------------------------------------------------
(***************************************************************************)
(* No step shortens a live lock, but for the reasons LockSurvives names.   *)
(***************************************************************************)

\* What LockSurvives says of one key.
Stands(k) ==
  Live(k) /\ now' < lockout[k].until =>
    \/ k \in DOMAIN lockout' /\ lockout'[k].until # NoId
       /\ lockout'[k].until >= lockout[k].until
    \/ \A x \in DOMAIN lockout : Live(x)
    \/ \E t \in Threads : At(t, "find_user") /\ thread[t].key = k
    \/ mishaps' # mishaps

\* A running lock is a record of the store that ends LockTime after its last failure.
LEMMA LiveFacts ==
  ASSUME IInv, NEW k \in Keys, Live(k)
  PROVE  /\ k \in DOMAIN lockout /\ lockout[k] \in Records
         /\ lockout[k].until # NoId /\ lockout[k].until \in Nat /\ now < lockout[k].until
         /\ lockout[k].until = lockout[k].last + LockTime
         /\ lockout[k].attempts >= Threshold /\ lockout[k].last <= now
         /\ now \in Nat /\ lockout[k].last \in Nat /\ lockout[k].attempts \in Nat
  BY DEF IInv, TypeInv, LockInv, Live, Locked, Records

\* A step that leaves the record of the key as it is.
LEMMA SameRecord ==
  ASSUME IInv, NEW k \in Keys, Live(k),
         k \in DOMAIN lockout', lockout'[k] = lockout[k]
  PROVE  Stands(k)
  BY LiveFacts DEF Stands

\* record_failure drops a live lock only when every record of the store is one.
LEMMA FailureSparesLocks ==
  ASSUME IInv, NEW t \in Threads, RecordFailure(t), NEW k \in Keys, Live(k)
  PROVE  Stands(k)
  <1> SUFFICES ASSUME NEW key, key = thread[t].key PROVE Stands(k)
    OBVIOUS
  <1>1. PICK S \in SUBSET DOMAIN lockout :
          /\ key \in DOMAIN lockout => S = DOMAIN lockout
          /\ \A gone \in DOMAIN lockout \ S :
               /\ S = DOMAIN lockout \ {gone}
               /\ \A kept \in S : Rank(lockout[gone]) <= Rank(lockout[kept])
          /\ DOMAIN lockout' = S \cup {key}
          /\ \A x \in S \ {key} : lockout'[x] = lockout[x]
          /\ lockout'[key] = Count(IF key \in S THEN lockout[key] ELSE Attempt(0, NoId))
    BY SMTT(30), FailureParts DEF IInv
  <1>2. /\ k \in DOMAIN lockout /\ lockout[k] \in Records
        /\ lockout[k].until # NoId /\ lockout[k].until \in Nat /\ now < lockout[k].until
        /\ lockout[k].until = lockout[k].last + LockTime
        /\ lockout[k].attempts >= Threshold /\ lockout[k].last <= now
        /\ now \in Nat /\ lockout[k].last \in Nat /\ lockout[k].attempts \in Nat
    BY LiveFacts
  <1>3. CASE k = key
    <2>1. k \in S /\ k \in DOMAIN lockout' /\ lockout'[k] = Count(lockout[k])
      BY <1>1, <1>2, <1>3
    <2>2. ~(now - lockout[k].last > AttemptWindow)
      BY <1>2, Constants
    <2>3. lockout[k].attempts + 1 >= Threshold
      BY <1>2, Constants
    <2>4. Count(lockout[k]).until = now + LockTime
      BY <1>2, <2>2, <2>3, CountFacts
    <2>5. now + LockTime >= lockout[k].until /\ now + LockTime # NoId
      BY <1>2, Constants
    <2> QED
      BY <2>1, <2>4, <2>5 DEF Stands
  <1>4. CASE k # key /\ k \in S
    BY <1>1, <1>4, SameRecord
  <1>5. CASE k # key /\ k \notin S
    <2>1. ASSUME NEW x \in DOMAIN lockout PROVE Live(x)
      <3>1. CASE x = k
        BY <3>1
      <3>2. CASE x # k
        <4>1. x \in S /\ Rank(lockout[k]) <= Rank(lockout[x])
          BY <1>1, <1>2, <1>5, <3>2
        <4>2. Rank(lockout[k]) = lockout[k].until
          BY <1>2 DEF Rank
        <4>3. /\ lockout[x].last \in Nat /\ lockout[x].last <= now
              /\ lockout[x].until \in Nat \cup {NoId}
          BY DEF IInv, TypeInv, LockInv, Records
        <4>4. lockout[x].until # NoId
          BY <1>2, <4>1, <4>2, <4>3 DEF Rank
        <4>5. now < lockout[x].until
          BY <1>2, <4>1, <4>2, <4>3, <4>4, Constants DEF Rank
        <4> QED
          BY <4>4, <4>5 DEF Live, Locked
      <3> QED
        BY <3>1, <3>2
    <2> QED
      BY <2>1 DEF Stands
  <1> QED
    BY <1>3, <1>4, <1>5

\* No step takes away or shortens a running lock, but for the exceptions Stands names.
LEMMA StepSparesLocks ==
  ASSUME IInv, Next, NEW k \in Keys, Live(k)
  PROVE  Stands(k)
  <1>1. k \in DOMAIN lockout
    BY LiveFacts
  <1>2. CASE UNCHANGED lockout
    BY <1>1, <1>2, SameRecord
  <1>3. CASE Tick \/ \E t \in Threads, op \in {"signup", "signin"}, x \in Keys : Arrive(t, op, x)
    <2>1. UNCHANGED lockout
      BY <1>3 DEF Tick, Arrive
    <2> QED
      BY <1>2, <2>1
  <1>4. ASSUME NEW t \in Threads,
               \/ RefuseBody(t) \/ CreateAccount(t) \/ Duplicate(t) \/ CallFails(t)
               \/ FindAuth(t) \/ Rehash(t)
        PROVE  Stands(k)
    <2>1. UNCHANGED lockout
      BY <1>4 DEF RefuseBody, CreateAccount, Duplicate, CallFails, FindAuth, Rehash, stores
    <2> QED
      BY <1>2, <2>1
  <1>5. ASSUME NEW t \in Threads, CheckLock(t) PROVE Stands(k)
    <2> SUFFICES ASSUME NEW key, key = thread[t].key PROVE Stands(k)
      OBVIOUS
    <2>1. lockout' = IF Locked(key) /\ ~Live(key) THEN Without(lockout, {key}) ELSE lockout
      BY <1>5 DEF CheckLock
    <2>2. CASE Locked(key) /\ ~Live(key)
      <3>1. k # key
        BY <2>2
      <3>2. k \in DOMAIN lockout' /\ lockout'[k] = lockout[k]
        BY <1>1, <2>1, <2>2, <3>1 DEF Without, Restrict
      <3> QED
        BY <3>2, SameRecord
    <2>3. CASE ~(Locked(key) /\ ~Live(key))
      BY <1>2, <2>1, <2>3
    <2> QED
      BY <2>2, <2>3
  <1>6. ASSUME NEW t \in Threads, RecordFailure(t) PROVE Stands(k)
    BY <1>6, FailureSparesLocks
  <1>7. ASSUME NEW t \in Threads, FindUser(t) PROVE Stands(k)
    <2> SUFFICES ASSUME NEW key, key = thread[t].key PROVE Stands(k)
      OBVIOUS
    <2>1. /\ At(t, "find_user")
          /\ lockout' = Without(lockout, {key}) \/ UNCHANGED lockout
      BY <1>7 DEF FindUser
    <2>2. CASE k = key
      BY <2>1, <2>2 DEF Stands
    <2>3. CASE k # key /\ lockout' = Without(lockout, {key})
      <3>1. k \in DOMAIN lockout' /\ lockout'[k] = lockout[k]
        BY <1>1, <2>3 DEF Without, Restrict
      <3> QED
        BY <3>1, SameRecord
    <2> QED
      BY <1>2, <2>1, <2>2, <2>3
  <1>8. CASE Cleanup
    <2>1. /\ k \in DOMAIN lockout'
          /\ lockout'[k] = lockout[k]
      BY <1>1, <1>8 DEF Cleanup, Without, Restrict, Live
    <2> QED
      BY <2>1, SameRecord
  <1>9. CASE Restart
    <2>1. mishaps \in Nat /\ mishaps' = mishaps + 1
      BY <1>9 DEF Restart, IInv, TypeInv
    <2>2. mishaps' # mishaps
      BY <2>1
    <2> QED
      BY <2>2 DEF Stands
  <1> QED
    BY <1>3, <1>4, <1>5, <1>6, <1>7, <1>8, <1>9 DEF Next

\* evict: a lock that has not run out is neither dropped nor shortened while an
\* unlocked record is left to drop, but by a success under way or a restart.
THEOREM LocksSurvive == Spec => LockSurvives
  <1>1. ASSUME IInv, [Next]_vars
        PROVE  [\A k \in Keys : Stands(k)]_vars
    BY <1>1, StepSparesLocks DEF Stands
  <1>2. IInv /\ [Next]_vars =>
          [\A k \in Keys :
             Live(k) /\ now' < lockout[k].until =>
               \/ k \in DOMAIN lockout' /\ lockout'[k].until # NoId
                  /\ lockout'[k].until >= lockout[k].until
               \/ \A x \in DOMAIN lockout : Live(x)
               \/ \E t \in Threads : At(t, "find_user") /\ thread[t].key = k
               \/ mishaps' # mishaps]_vars
    BY <1>1 DEF Stands
  <1> QED
    BY <1>2, AccountsInvariance, PTL DEF Spec, LockSurvives

=============================================================================
