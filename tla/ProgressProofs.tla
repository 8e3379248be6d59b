--------------------------- MODULE ProgressProofs ---------------------------
(***************************************************************************)
(* Theorems about Progress, for any users, courses' contents, threads and  *)
(* requests, about Quiz, for any questions and options, and about the      *)
(* numbers of JsonNumbers, in any text.                                    *)
(***************************************************************************)
EXTENDS Progress, Quiz, JsonNumbers, FiniteSetTheorems, SequenceTheorems,
        WellFoundedInduction, TLAPS

-----------------------------------------------------------------------------
(***************************************************************************)
(* The minutes of a list of attempts.  MinutesOf takes its sums from a     *)
(* recursive function; that there is one, and only one, is shown by a      *)
(* least counterexample.                                                   *)
(***************************************************************************)

Less == {p \in Nat \X Nat : p[1] < p[2]}

\* Of natural numbers with a property there is a least one.
LEMMA LeastNumber ==
  ASSUME NEW S \in SUBSET Nat, S # {}
  PROVE  \E n \in S : \A m \in S : n <= m
  <1>1. IsWellFoundedOn(Less, Nat)
    BY NatLessThanWellFounded DEF OpToRel, Less
  <1>2. PICK n \in S : \A m \in S : <<m, n>> \notin Less
    <2> HIDE DEF Less
    <2> QED
      BY <1>1, WFMin
  <1>3. \A m \in S : ~(m < n)
    BY <1>2 DEF Less
  <1> QED
    BY <1>2, <1>3

\* f sums the first n attempts up.
SumsUp(f, attempts, n) ==
  f = [i \in 0 .. n |-> IF i = 0 THEN 0 ELSE f[i - 1] + attempts[i].value]

\* Running sums exist for attempts of any number.
LEMMA SumsExist ==
  ASSUME NEW attempts, NEW n \in Nat
  PROVE  \E f : SumsUp(f, attempts, n)
  <1> SUFFICES ASSUME ~\E f : SumsUp(f, attempts, n) PROVE FALSE
    OBVIOUS
  <1> DEFINE Bad == {m \in Nat : ~\E f : SumsUp(f, attempts, m)}
  <1>1. PICK m \in Bad : \A k \in Bad : m <= k
    <2>1. Bad \in SUBSET Nat /\ Bad # {}
      OBVIOUS
    <2> HIDE DEF Bad
    <2> QED
      BY <2>1, LeastNumber
  <1>2. m # 0
    <2>1. SumsUp([i \in 0 .. 0 |-> 0], attempts, 0)
      BY DEF SumsUp
    <2> QED
      BY <2>1
  <1>3. m - 1 \in Nat /\ m \in Nat
    BY <1>2
  <1>4. PICK f : SumsUp(f, attempts, m - 1)
    <2>1. m - 1 \notin Bad
      BY <1>1, <1>3
    <2> QED
      BY <1>3, <2>1
  <1> DEFINE g == [i \in 0 .. m |-> IF i = m THEN f[m - 1] + attempts[m].value ELSE f[i]]
  <1>5. ASSUME NEW i \in 0 .. m
        PROVE  g[i] = IF i = 0 THEN 0 ELSE g[i - 1] + attempts[i].value
    <2>1. CASE i = m
      BY <1>2, <1>3, <2>1
    <2>2. CASE i # m
      <3>1. i \in 0 .. m - 1 /\ g[i] = f[i] /\ (i # 0 => g[i - 1] = f[i - 1])
        BY <1>3, <2>2
      <3> QED
        BY <1>4, <3>1 DEF SumsUp
    <2> QED
      BY <2>1, <2>2
  <1>6. SumsUp(g, attempts, m)
    BY <1>5 DEF SumsUp
  <1> QED
    BY <1>1, <1>6

\* Sums are the same as far as the lists are.
LEMMA SumsAgree ==
  ASSUME NEW a, NEW b, NEW m \in Nat, NEW n \in Nat, m <= n,
         \A i \in 1 .. m : a[i] = b[i],
         NEW f, SumsUp(f, a, m), NEW g, SumsUp(g, b, n)
  PROVE  \A i \in 0 .. m : f[i] = g[i]
  <1> SUFFICES ASSUME NEW j \in 0 .. m, f[j] # g[j] PROVE FALSE
    OBVIOUS
  <1> DEFINE Bad == {i \in 0 .. m : f[i] # g[i]}
  <1>1. PICK i \in Bad : \A k \in Bad : i <= k
    <2>1. Bad \in SUBSET Nat /\ Bad # {}
      OBVIOUS
    <2> HIDE DEF Bad
    <2> QED
      BY <2>1, LeastNumber
  <1>2. /\ i \in 0 .. m /\ i \in 0 .. n /\ i \in Nat
    OBVIOUS
  <1>3. /\ f[i] = IF i = 0 THEN 0 ELSE f[i - 1] + a[i].value
        /\ g[i] = IF i = 0 THEN 0 ELSE g[i - 1] + b[i].value
    BY <1>2 DEF SumsUp
  <1>4. CASE i = 0
    BY <1>3, <1>4
  <1>5. CASE i # 0
    <2>1. i - 1 \in 0 .. m /\ i \in 1 .. m /\ ~(i <= i - 1)
      BY <1>2, <1>5
    <2>2. f[i - 1] = g[i - 1]
      BY <1>1, <2>1
    <2> QED
      BY <1>1, <1>3, <1>5, <2>1, <2>2
  <1> QED
    BY <1>4, <1>5

\* The minutes of a list are the last of its running sums.
LEMMA MinutesAre ==
  ASSUME NEW attempts, Len(attempts) \in Nat
  PROVE  \E f : SumsUp(f, attempts, Len(attempts)) /\ MinutesOf(attempts) = f[Len(attempts)]
  <1> DEFINE f == CHOOSE f : SumsUp(f, attempts, Len(attempts))
  <1>1. SumsUp(f, attempts, Len(attempts))
    BY SumsExist
  <1>2. MinutesOf(attempts) = f[Len(attempts)]
    BY DEF MinutesOf, SumsUp
  <1> QED
    BY <1>1, <1>2

\* No attempts take no minutes.
LEMMA NoMinutes == MinutesOf(<<>>) = 0
  <1>1. PICK f : SumsUp(f, <<>>, 0) /\ MinutesOf(<<>>) = f[0]
    BY MinutesAre
  <1> QED
    BY <1>1 DEF SumsUp

\* One more attempt adds its minutes.
LEMMA MinutesAdd ==
  ASSUME NEW S, NEW attempts \in Seq(S), NEW a \in S
  PROVE  MinutesOf(Append(attempts, a)) = MinutesOf(attempts) + a.value
  <1> DEFINE n == Len(attempts)
             longer == Append(attempts, a)
  <1>1. /\ n \in Nat /\ Len(longer) = n + 1 /\ longer[n + 1] = a
        /\ \A i \in 1 .. n : attempts[i] = longer[i]
    OBVIOUS
  <1>2. PICK f : SumsUp(f, attempts, n) /\ MinutesOf(attempts) = f[n]
    BY <1>1, MinutesAre
  <1> HIDE DEF n, longer
  <1>3. PICK g : SumsUp(g, longer, n + 1) /\ MinutesOf(longer) = g[n + 1]
    <2>1. n + 1 \in Nat /\ Len(longer) = n + 1
      BY <1>1
    <2>2. \E g : SumsUp(g, longer, Len(longer)) /\ MinutesOf(longer) = g[Len(longer)]
      BY <2>1, MinutesAre
    <2> QED
      BY <2>1, <2>2
  <1>4. f[n] = g[n]
    BY <1>1, <1>2, <1>3, SumsAgree
  <1>5. g[n + 1] = g[n] + a.value
    BY <1>1, <1>3 DEF SumsUp
  <1> QED
    BY <1>2, <1>3, <1>4, <1>5 DEF longer

-----------------------------------------------------------------------------
(***************************************************************************)
(* The inductive invariant.                                                *)
(***************************************************************************)

Lists == {"quiz", "guide", "rep"}

Requests ==
  [user : Users, op : {"quiz"}, item : Quizzes, value : {0, 1}] \cup
  [user : Users, op : {"guide"}, item : Guides, value : {0}] \cup
  [user : Users, op : {"rep"}, item : Reps, value : Minutes] \cup
  [user : Users, op : {"enroll"}, item : {"course"}, value : {0}] \cup
  [user : Users, op : {"mark", "unmark"}, item : Sections, value : {0}] \cup
  [user : Users, op : {"forget"}, item : Nat, value : {0}]

Attempts(items, values) == [id : Nat, item : items, value : values]

ProgressRows ==
  [id : Nat, user : Users, completedGuides : Seq(Guides),
   quizAttempts : Seq(Attempts(Quizzes, {0, 1})), repAttempts : Seq(Attempts(Reps, Minutes)),
   totalTimeSpentMinutes : Int]

EnrollmentRows == [id : Nat, user : Users, status : {"active", "ended"}]

BookmarkRows == [id : Nat, user : Users, section : Sections]

Steps == {"find", "select", "create", "enrollment", "insert_enrollment", "mark", "unmark",
          "forget"}

Busy ==
  [step : Steps, id : Nat, req : Requests] \cup
  [step : {"update"}, id : Nat, req : Requests, row : ProgressRows] \cup
  [step : {"activate"}, id : Nat, req : Requests, row : EnrollmentRows]

\* A thread is at a step of its request.
Fits(th) ==
  /\ th.step \in {"select", "create", "update"} => th.req.op \in Lists
  /\ th.step \in {"enrollment", "insert_enrollment", "activate"} => th.req.op = "enroll"
  /\ th.step \in {"mark", "unmark", "forget"} => th.req.op = th.step

\* The variables have their types.
TypeInv ==
  /\ progress \subseteq ProgressRows
  /\ enrollments \subseteq EnrollmentRows
  /\ bookmarks \subseteq BookmarkRows
  /\ thread \in [Threads -> {Idle} \cup Busy]
  /\ requests \in Nat /\ mishaps \in Nat
  /\ told \subseteq [id : Nat, req : Requests]
  /\ \A t \in Threads : Fits(thread[t])

\* What was read is a row of the user, who still has it.
HeldInv ==
  \A t \in Threads :
    /\ At(t, "update") => \E row \in progress : row.user = thread[t].req.user
    /\ At(t, "activate") => \E e \in enrollments : /\ e.user = thread[t].req.user
                                                   /\ e.id = thread[t].row.id

AddsUp(row) ==
  /\ row.totalTimeSpentMinutes = MinutesOf(row.repAttempts)
  /\ IsInjective(row.completedGuides)

\* Rows agree with themselves, and so do the copies that requests will write back.
AddsInv ==
  /\ \A row \in progress : AddsUp(row)
  /\ \A t \in Threads : At(t, "update") => AddsUp(thread[t].row)

\* The row shows what the request was told.
Shows(row, q) ==
  CASE q.req.op = "quiz" ->
         \E i \in DOMAIN row.quizAttempts :
           row.quizAttempts[i] = [id |-> q.id, item |-> q.req.item, value |-> q.req.value]
    [] q.req.op = "guide" -> \E i \in DOMAIN row.completedGuides :
                               row.completedGuides[i] = q.req.item
    [] OTHER -> \E i \in DOMAIN row.repAttempts : row.repAttempts[i].item = q.req.item

\* Whoever is to write the list back has read it since.
Kept(q) ==
  /\ q.req.op \in Lists =>
       /\ \E row \in progress : row.user = q.req.user /\ Shows(row, q)
       /\ \A t \in Threads :
            At(t, "update") /\ thread[t].req.op = q.req.op /\ thread[t].req.user = q.req.user
              => Shows(thread[t].row, q)
  /\ q.req.op = "enroll" => \E e \in enrollments : e.user = q.req.user /\ e.status = "active"

KeptInv == \A q \in told : q.id \notin raced => Kept(q)

IInv == TypeInv /\ OneRowEach /\ HeldInv /\ AddsInv /\ KeptInv

-----------------------------------------------------------------------------
\* What a request asks, by its kind.
LEMMA Requested ==
  ASSUME NEW q \in Requests
  PROVE  /\ q.user \in Users
         /\ q.op \in Lists \cup {"enroll", "mark", "unmark", "forget"}
         /\ q.op = "quiz" => q.item \in Quizzes /\ q.value \in {0, 1}
         /\ q.op = "guide" => q.item \in Guides
         /\ q.op = "rep" => q.item \in Reps /\ q.value \in Minutes
         /\ q.op \in {"mark", "unmark"} => q.item \in Sections
  BY DEF Requests, Lists

\* What a busy thread holds: its request, a row's id, and before an update the row.
LEMMA ThreadFacts ==
  ASSUME TypeInv, NEW t \in Threads, thread[t].step # "idle"
  PROVE  /\ thread[t] \in Busy /\ Fits(thread[t])
         /\ thread[t].id \in Nat /\ thread[t].req \in Requests /\ thread[t].req.user \in Users
         /\ thread[t].step = "update" => thread[t].row \in ProgressRows
         /\ thread[t].step = "activate" => thread[t].row \in EnrollmentRows
         /\ thread[t].step \in Steps \cup {"update", "activate"}
  <1>1. thread[t] \in Busy /\ Fits(thread[t])
    BY DEF TypeInv, Idle
  <1>2. thread[t].id \in Nat /\ thread[t].req \in Requests
    BY <1>1 DEF Busy
  <1> QED
    BY <1>1, <1>2, Requested DEF Busy, Steps

\* One thread takes a step, and keeps to its types.
LEMMA OneMoves ==
  ASSUME TypeInv, NEW t \in Threads, NEW new \in {Idle} \cup Busy, Fits(new),
         thread' = [thread EXCEPT ![t] = new]
  PROVE  /\ thread' \in [Threads -> {Idle} \cup Busy]
         /\ \A s \in Threads : Fits(thread'[s])
         /\ thread'[t] = new /\ \A s \in Threads \ {t} : thread'[s] = thread[s]
  BY DEF TypeInv

\* A thread that goes on to a step it fits keeps the types.
LEMMA Moving ==
  ASSUME TypeInv, NEW t \in Threads, NEW step \in Steps, thread[t].step \in Steps,
         Goto(t, step), Fits([thread[t] EXCEPT !.step = step])
  PROVE  /\ thread' \in [Threads -> {Idle} \cup Busy]
         /\ \A s \in Threads : Fits(thread'[s])
         /\ thread'[t].step = step /\ \A s \in Threads \ {t} : thread'[s] = thread[s]
  <1> DEFINE new == [thread[t] EXCEPT !.step = step]
  <1>1. thread[t] \in [step : Steps, id : Nat, req : Requests]
    BY ThreadFacts DEF Steps, Busy
  <1>2. new \in Busy /\ new.step = step
    BY <1>1 DEF Busy
  <1>3. thread' = [thread EXCEPT ![t] = new]
    BY DEF Goto
  <1> HIDE DEF new
  <1>4. Fits(new)
    BY DEF new
  <1> QED
    BY <1>2, <1>3, <1>4, OneMoves

\* An idle thread holds nothing.
LEMMA IdleFits == Fits(Idle) /\ Idle.step = "idle"
  BY DEF Fits, Idle

\* A thread that answers is idle after it, and the other threads stay as they are.
LEMMA Answering ==
  ASSUME TypeInv, NEW t \in Threads, thread' = [thread EXCEPT ![t] = Idle]
  PROVE  /\ thread' \in [Threads -> {Idle} \cup Busy]
         /\ \A s \in Threads : Fits(thread'[s])
         /\ thread'[t].step = "idle" /\ \A s \in Threads \ {t} : thread'[s] = thread[s]
  BY IdleFits, OneMoves

\* Nothing in the tables changes, nobody is told anything, and nobody has read a row.
LEMMA QuietStep ==
  ASSUME IInv, UNCHANGED <<progress, enrollments, bookmarks, told, raced>>,
         thread' \in [Threads -> {Idle} \cup Busy], \A s \in Threads : Fits(thread'[s]),
         requests' \in Nat, mishaps' \in Nat,
         \A s \in Threads : thread'[s] = thread[s] \/ thread'[s].step \notin {"update", "activate"}
  PROVE  IInv'
  <1>1. TypeInv'
    BY DEF IInv, TypeInv
  <1>2. OneRowEach'
    BY DEF IInv, OneRowEach
  <1>3. HeldInv'
    BY DEF IInv, HeldInv, At
  <1>4. AddsInv'
    BY DEF IInv, AddsInv, At, AddsUp
  <1>5. ASSUME NEW q \in told', q.id \notin raced' PROVE Kept(q)'
    <2>1. Kept(q)
      BY <1>5 DEF IInv, KeptInv
    <2>2. ASSUME NEW s \in Threads, At(s, "update")'
          PROVE  At(s, "update") /\ thread'[s] = thread[s]
      BY <2>2 DEF At
    <2> QED
      BY <2>1, <2>2 DEF Kept, Shows
  <1> QED
    BY <1>1, <1>2, <1>3, <1>4, <1>5 DEF IInv, KeptInv

-----------------------------------------------------------------------------
(***************************************************************************)
(* Action by action.                                                       *)
(***************************************************************************)

\* The invariant holds on empty tables.
LEMMA InitInv == Init => IInv
  <1> SUFFICES ASSUME Init PROVE IInv
    OBVIOUS
  <1>1. TypeInv
    <2>1. Inactive \subseteq Users
      BY ProgressAssumption
    <2>2. \A t \in Threads : thread[t] = Idle
      BY DEF Init
    <2> QED
      BY <2>1, <2>2, IdleFits DEF Init, TypeInv, EnrollmentRows
  <1>2. OneRowEach
    BY DEF Init, OneRowEach
  <1>3. \A t \in Threads : thread[t].step = "idle"
    BY DEF Init, Idle
  <1> QED
    BY <1>1, <1>2, <1>3 DEF Init, IInv, HeldInv, AddsInv, KeptInv, At

\* A request that arrives keeps the invariant.
LEMMA ArriveInv == ASSUME IInv, NEW t \in Threads, Arrive(t) PROVE IInv'
  <1>0. PICK u \in Users : \E q \in Submissions(u) \cup Other(u) :
          thread' = [thread EXCEPT ![t] = [step |-> "find", id |-> requests', req |-> q]]
    BY DEF Arrive
  <1>1. PICK q \in Submissions(u) \cup Other(u) :
          thread' = [thread EXCEPT ![t] = [step |-> "find", id |-> requests', req |-> q]]
    BY <1>0
  <1>2. q \in Requests
    <2>1. bookmarks \subseteq BookmarkRows
      BY DEF IInv, TypeInv
    <2>2. CASE q \in Submissions(u)
      BY <2>2 DEF Submissions, Request, Requests
    <2>3. CASE q \in Other(u)
      BY <2>1, <2>3 DEF Other, Request, Requests, BookmarkRows
    <2> QED
      BY <2>2, <2>3
  <1>3. requests' \in Nat /\ TypeInv /\ UNCHANGED <<progress, enrollments, bookmarks, told, raced, mishaps>>
    BY DEF Arrive, IInv, TypeInv, tables
  <1> DEFINE new == [step |-> "find", id |-> requests', req |-> q]
  <1>4. new \in Busy /\ Fits(new) /\ new.step = "find"
    BY <1>2, <1>3 DEF Busy, Steps, Fits
  <1> HIDE DEF new
  <1>5. /\ thread' \in [Threads -> {Idle} \cup Busy] /\ \A s \in Threads : Fits(thread'[s])
        /\ thread'[t] = new /\ \A s \in Threads \ {t} : thread'[s] = thread[s]
    BY <1>1, <1>3, <1>4, OneMoves DEF new
  <1>6. mishaps' \in Nat
    BY <1>3 DEF TypeInv
  <1> QED
    BY <1>3, <1>4, <1>5, <1>6, QuietStep

\* The handlers that only move on, or give up.
LEMMA PlainInv ==
  ASSUME IInv, NEW t \in Threads,
         \/ Found(t) \/ Refuse(t) \/ CallFails(t)
         \/ /\ At(t, "create") \/ At(t, "insert_enrollment") \/ At(t, "mark")
            /\ Conflict(t) /\ UNCHANGED <<requests, mishaps, raced>>
         \/ /\ At(t, "select") /\ Goto(t, "create")
            /\ UNCHANGED <<tables, told, requests, mishaps, raced>>
         \/ /\ At(t, "enrollment") /\ Goto(t, "insert_enrollment")
            /\ UNCHANGED <<tables, told, requests, mishaps, raced>>
  PROVE  IInv'
  <1>1. /\ TypeInv /\ thread[t].step # "idle"
        /\ UNCHANGED <<progress, enrollments, bookmarks, told, raced>>
        /\ requests' \in Nat /\ mishaps' \in Nat
    BY DEF IInv, TypeInv, Found, Refuse, CallFails, Conflict, tables, At
  <1>2. CASE thread' = [thread EXCEPT ![t] = Idle]
    BY <1>1, <1>2, Answering, QuietStep
  <1>3. ASSUME NEW step \in Steps, thread[t].step \in Steps, Goto(t, step),
               Fits([thread[t] EXCEPT !.step = step])
        PROVE  IInv'
    <2>1. /\ thread' \in [Threads -> {Idle} \cup Busy]
          /\ \A s \in Threads : Fits(thread'[s])
          /\ thread'[t].step = step /\ \A s \in Threads \ {t} : thread'[s] = thread[s]
      BY <1>1, <1>3, Moving
    <2>2. step \notin {"update", "activate"}
      BY <1>3 DEF Steps
    <2> QED
      BY <1>1, <2>1, <2>2, QuietStep
  <1>4. CASE Found(t)
    <2> DEFINE step == First(thread[t].req.op)
    <2>1. thread[t].step = "find" /\ Goto(t, step)
      BY <1>4 DEF Found, At
    <2>2. thread[t].req.op \in Lists \cup {"enroll", "mark", "unmark", "forget"}
      BY <1>1, ThreadFacts, Requested
    <2>3. /\ step \in {"select", "enrollment", "mark", "unmark", "forget"}
          /\ step = "select" => thread[t].req.op \in Lists
          /\ step = "enrollment" => thread[t].req.op = "enroll"
          /\ step \in {"mark", "unmark", "forget"} => thread[t].req.op = step
      BY <2>2 DEF First, Lists
    <2> HIDE DEF step
    <2>4. thread[t] \in [step : Steps, id : Nat, req : Requests]
      BY <1>1, <2>1, ThreadFacts DEF Busy
    <2>5. step \in Steps /\ Fits([thread[t] EXCEPT !.step = step])
      BY <2>3, <2>4 DEF Fits, Steps
    <2> QED
      BY <1>3, <2>1, <2>5 DEF Steps
  <1>5. CASE /\ At(t, "select") /\ Goto(t, "create")
    <2>1. thread[t] \in [step : Steps, id : Nat, req : Requests] /\ thread[t].req.op \in Lists
      BY <1>1, <1>5, ThreadFacts DEF Busy, At, Fits
    <2>2. "create" \in Steps /\ "select" \in Steps /\ Fits([thread[t] EXCEPT !.step = "create"])
      BY <2>1 DEF Fits, Steps
    <2> QED
      BY <1>3, <1>5, <2>2 DEF At
  <1>6. CASE /\ At(t, "enrollment") /\ Goto(t, "insert_enrollment")
    <2>1. thread[t] \in [step : Steps, id : Nat, req : Requests] /\ thread[t].req.op = "enroll"
      BY <1>1, <1>6, ThreadFacts DEF Busy, At, Fits
    <2>2. /\ "enrollment" \in Steps /\ "insert_enrollment" \in Steps
          /\ Fits([thread[t] EXCEPT !.step = "insert_enrollment"])
      BY <2>1 DEF Fits, Steps
    <2> QED
      BY <1>3, <1>6, <2>2 DEF At
  <1> QED
    BY <1>2, <1>4, <1>5, <1>6 DEF Refuse, CallFails, Conflict

\* A crash drops the requests under way and no row: the invariant holds.
LEMMA CrashInv == ASSUME IInv, Crash PROVE IInv'
  <1>1. /\ TypeInv /\ UNCHANGED <<progress, enrollments, bookmarks, told, raced>>
        /\ requests' \in Nat /\ mishaps' \in Nat
    BY DEF Crash, IInv, TypeInv, tables
  <1>2. \A s \in Threads : thread'[s] = Idle
    BY DEF Crash
  <1>3. thread' \in [Threads -> {Idle} \cup Busy]
    BY DEF Crash
  <1> QED
    BY <1>1, <1>2, <1>3, IdleFits, QuietStep

\* get_or_create_progress: who reads the row reads what every request answered so far shows.
LEMMA SelectInv == ASSUME IInv, NEW t \in Threads, SelectProgress(t) PROVE IInv'
  <1>1. CASE Goto(t, "create")
    BY <1>1, PlainInv DEF SelectProgress
  <1>2. ASSUME NEW row \in Of(t, progress), ReadRow(t, row) PROVE IInv'
    <2>1. /\ TypeInv /\ thread[t].step = "select"
          /\ UNCHANGED <<progress, enrollments, bookmarks, told, raced, requests, mishaps>>
      BY DEF SelectProgress, At, IInv, tables
    <2>2. /\ thread[t].id \in Nat /\ thread[t].req \in Requests /\ thread[t].req.op \in Lists
      BY <2>1, ThreadFacts DEF Fits
    <2>3. row \in progress /\ row.user = thread[t].req.user /\ row \in ProgressRows
      BY <1>2, <2>1 DEF Of, TypeInv
    <2> DEFINE new == [step |-> "update", id |-> thread[t].id, req |-> thread[t].req, row |-> row]
    <2>4. new \in Busy /\ Fits(new) /\ new.req = thread[t].req /\ new.row = row
      BY <2>2, <2>3 DEF Busy, Fits
    <2>5. thread' = [thread EXCEPT ![t] = new]
      BY <1>2 DEF ReadRow
    <2> HIDE DEF new
    <2>6. /\ thread' \in [Threads -> {Idle} \cup Busy] /\ \A s \in Threads : Fits(thread'[s])
          /\ thread'[t] = new /\ \A s \in Threads \ {t} : thread'[s] = thread[s]
      BY <2>1, <2>4, <2>5, OneMoves
    <2>7. TypeInv'
      BY <2>1, <2>6 DEF TypeInv
    <2>8. OneRowEach' /\ OneRowEach
      BY <2>1 DEF IInv, OneRowEach
    <2>9. \A s \in Threads : s = t \/ thread'[s] = thread[s]
      BY <2>6
    <2>10. new.step = "update"
      BY DEF new
    <2>11. HeldInv'
      BY <2>1, <2>3, <2>4, <2>6, <2>9, <2>10 DEF IInv, HeldInv, At
    <2>12. AddsInv'
      BY <2>1, <2>3, <2>4, <2>6, <2>9 DEF IInv, AddsInv, At, AddsUp
    <2>13. ASSUME NEW q \in told', q.id \notin raced' PROVE Kept(q)'
      <3>1. Kept(q)
        BY <2>1, <2>13 DEF IInv, KeptInv
      <3>2. ASSUME q.req.op \in Lists, q.req.user = thread[t].req.user PROVE Shows(row, q)
        BY <2>3, <2>8, <3>1, <3>2 DEF Kept, OneRowEach
      <3>3. ASSUME NEW s \in Threads, q.req.op \in Lists, At(s, "update")',
                   thread'[s].req.op = q.req.op, thread'[s].req.user = q.req.user
            PROVE  Shows(thread'[s].row, q)
        <4>1. CASE s = t
          BY <2>4, <2>6, <3>2, <3>3, <4>1
        <4>2. CASE s # t
          BY <2>6, <3>1, <3>3, <4>2 DEF Kept, At
        <4> QED
          BY <4>1, <4>2
      <3> QED
        BY <2>1, <3>1, <3>3 DEF Kept, Shows
    <2> QED
      BY <2>7, <2>8, <2>11, <2>12, <2>13 DEF IInv, KeptInv
  <1> QED
    BY <1>1, <1>2 DEF SelectProgress

\* The first row of a user: nobody had read one, and nothing was told of one.
LEMMA FirstRowInv ==
  ASSUME IInv, NEW t \in Threads, CreateProgress(t), Of(t, progress) = {},
         progress' = progress \cup {NewRow(t)}, ReadRow(t, NewRow(t)),
         UNCHANGED <<enrollments, bookmarks, told>>
  PROVE  IInv'
  <1> DEFINE row == NewRow(t)
             u == thread[t].req.user
  <1>1. /\ TypeInv /\ thread[t].step = "create"
        /\ UNCHANGED <<enrollments, bookmarks, told, raced, requests, mishaps>>
    BY DEF CreateProgress, At, IInv
  <1>2. /\ thread[t].id \in Nat /\ thread[t].req \in Requests /\ thread[t].req.op \in Lists
        /\ u \in Users
    BY <1>1, ThreadFacts DEF Fits
  <1>3. row \in ProgressRows /\ row.user = u
    BY <1>2 DEF NewRow, ProgressRows
  <1>4. AddsUp(row)
    BY NoMinutes DEF NewRow, AddsUp, IsInjective
  <1>5. \A r \in progress : r.user # u
    BY DEF Of
  <1> DEFINE new == [step |-> "update", id |-> thread[t].id, req |-> thread[t].req, row |-> row]
  <1>6. /\ new \in Busy /\ Fits(new) /\ new.req = thread[t].req /\ new.row = row
        /\ new.step = "update"
    BY <1>2, <1>3 DEF Busy, Fits
  <1>7. thread' = [thread EXCEPT ![t] = new] /\ progress' = progress \cup {row}
    BY DEF ReadRow
  <1> HIDE DEF new, row
  <1>8. /\ thread' \in [Threads -> {Idle} \cup Busy] /\ \A s \in Threads : Fits(thread'[s])
        /\ thread'[t] = new /\ \A s \in Threads \ {t} : thread'[s] = thread[s]
    BY <1>1, <1>6, <1>7, OneMoves
  <1>9. TypeInv'
    BY <1>1, <1>3, <1>7, <1>8 DEF TypeInv
  <1>10. OneRowEach'
    BY <1>1, <1>3, <1>5, <1>7 DEF IInv, OneRowEach
  <1>11. HeldInv'
    BY <1>1, <1>3, <1>6, <1>7, <1>8 DEF IInv, HeldInv, At
  <1>12. AddsInv'
    <2>1. \A r \in progress' : AddsUp(r)
      BY <1>4, <1>7 DEF IInv, AddsInv
    <2>2. \A s \in Threads : At(s, "update")' => AddsUp(thread'[s].row)
      BY <1>4, <1>6, <1>8 DEF IInv, AddsInv, At
    <2> QED
      BY <2>1, <2>2 DEF AddsInv, AddsUp
  <1>13. ASSUME NEW q \in told', q.id \notin raced' PROVE Kept(q)'
    <2>1. Kept(q)
      BY <1>1, <1>13 DEF IInv, KeptInv
    <2>2. q.req.op \in Lists => q.req.user # u
      BY <1>5, <2>1 DEF Kept
    <2>3. ASSUME NEW s \in Threads, q.req.op \in Lists, At(s, "update")',
                 thread'[s].req.op = q.req.op, thread'[s].req.user = q.req.user
          PROVE  Shows(thread'[s].row, q)
      <3>1. s # t
        BY <1>6, <1>8, <2>2, <2>3
      <3> QED
        BY <1>8, <2>1, <2>3, <3>1 DEF Kept, At
    <2> QED
      BY <1>1, <1>7, <2>1, <2>3 DEF Kept, Shows
  <1> QED
    BY <1>9, <1>10, <1>11, <1>12, <1>13 DEF IInv, KeptInv

\* Inserting a progress row, or finding that another request has, keeps the invariant.
LEMMA CreateInv == ASSUME IInv, NEW t \in Threads, CreateProgress(t) PROVE IInv'
  <1>1. CASE Conflict(t)
    BY <1>1, PlainInv DEF CreateProgress
  <1> QED
    BY <1>1, FirstRowInv DEF CreateProgress

\* A request about no list is told: enrollments stay, with their status or activated.
LEMMA ToldInv ==
  ASSUME IInv, NEW t \in Threads, Tell(t), UNCHANGED <<progress, requests, mishaps, raced>>,
         thread[t].step # "idle", thread[t].req.op \notin Lists,
         enrollments' \subseteq EnrollmentRows, bookmarks' \subseteq BookmarkRows, OneRowEach',
         \A e \in enrollments : \E f \in enrollments' :
            f.user = e.user /\ f.id = e.id /\ (e.status = "active" => f.status = "active"),
         thread[t].req.op = "enroll" =>
            \E e \in enrollments' : e.user = thread[t].req.user /\ e.status = "active"
  PROVE  IInv'
  <1> DEFINE new == [id |-> thread[t].id, req |-> thread[t].req]
  <1>1. TypeInv /\ new \in [id : Nat, req : Requests] /\ new.req = thread[t].req
    BY ThreadFacts DEF IInv
  <1>2. told' = told \cup {new} /\ thread' = [thread EXCEPT ![t] = Idle]
    BY DEF Tell
  <1> HIDE DEF new
  <1>3. /\ thread' \in [Threads -> {Idle} \cup Busy]
        /\ \A s \in Threads : Fits(thread'[s])
        /\ thread'[t].step = "idle" /\ \A s \in Threads \ {t} : thread'[s] = thread[s]
    BY <1>1, <1>2, Answering
  <1>4. TypeInv'
    BY <1>1, <1>2, <1>3 DEF TypeInv
  <1>5. HeldInv'
    <2>1. ASSUME NEW s \in Threads, At(s, "update")'
          PROVE  \E row \in progress' : row.user = thread'[s].req.user
      BY <1>3, <2>1 DEF IInv, HeldInv, At
    <2>2. ASSUME NEW s \in Threads, At(s, "activate")'
          PROVE  \E e \in enrollments' : e.user = thread'[s].req.user /\ e.id = thread'[s].row.id
      <3>1. At(s, "activate") /\ thread'[s] = thread[s]
        BY <1>3, <2>2 DEF At
      <3>2. PICK e \in enrollments : e.user = thread[s].req.user /\ e.id = thread[s].row.id
        BY <3>1 DEF IInv, HeldInv
      <3> QED
        BY <3>1, <3>2
    <2> QED
      BY <2>1, <2>2 DEF HeldInv
  <1>6. AddsInv'
    BY <1>3 DEF IInv, AddsInv, At, AddsUp
  <1>7. ASSUME NEW q \in told', q.id \notin raced' PROVE Kept(q)'
    <2>1. CASE q = new
      BY <1>1, <2>1 DEF Kept
    <2>2. CASE q \in told
      <3>1. Kept(q)
        BY <1>7, <2>2 DEF IInv, KeptInv
      <3>2. ASSUME NEW s \in Threads, At(s, "update")' PROVE At(s, "update") /\ thread'[s] = thread[s]
        BY <1>3, <3>2 DEF At
      <3>3. q.req.op = "enroll" =>
              \E e \in enrollments' : e.user = q.req.user /\ e.status = "active"
        BY <3>1 DEF Kept
      <3> QED
        BY <3>1, <3>2, <3>3 DEF Kept, Shows
    <2> QED
      BY <1>2, <2>1, <2>2
  <1> QED
    BY <1>4, <1>5, <1>6, <1>7 DEF IInv, KeptInv

\* course_enroll, first the row and then the insert or the update.
LEMMA FindEnrollmentInv ==
  ASSUME IInv, NEW t \in Threads, FindEnrollment(t) PROVE IInv'
  <1>1. /\ TypeInv /\ thread[t].step = "enrollment" /\ OneRowEach
        /\ UNCHANGED <<progress, enrollments, bookmarks, requests, mishaps, raced>>
    BY DEF FindEnrollment, At, tables, IInv
  <1>2. /\ thread[t].id \in Nat /\ thread[t].req \in Requests /\ thread[t].req.op = "enroll"
    BY <1>1, ThreadFacts DEF Fits
  <1>3. CASE Goto(t, "insert_enrollment") /\ UNCHANGED told
    BY <1>3, PlainInv DEF FindEnrollment
  <1>4. ASSUME NEW row \in Of(t, enrollments), row.status = "active", Tell(t) PROVE IInv'
    <2>1. row \in enrollments' /\ row.user = thread[t].req.user
      BY <1>1, <1>4 DEF Of
    <2>2. OneRowEach'
      BY <1>1 DEF OneRowEach
    <2>3. enrollments' \subseteq EnrollmentRows /\ bookmarks' \subseteq BookmarkRows
      BY <1>1 DEF TypeInv
    <2>4. \A e \in enrollments : \E f \in enrollments' :
            f.user = e.user /\ f.id = e.id /\ (e.status = "active" => f.status = "active")
      BY <1>1
    <2> QED
      BY <1>1, <1>2, <1>4, <2>1, <2>2, <2>3, <2>4, ToldInv DEF Lists
  <1>5. ASSUME NEW row \in Of(t, enrollments), UNCHANGED told,
               thread' = [thread EXCEPT ![t] = [step |-> "activate", id |-> thread[t].id,
                                                req |-> thread[t].req, row |-> row]]
        PROVE  IInv'
    <2>1. row \in enrollments /\ row.user = thread[t].req.user /\ row \in EnrollmentRows
      BY <1>1, <1>5 DEF Of, TypeInv
    <2> DEFINE new == [step |-> "activate", id |-> thread[t].id, req |-> thread[t].req, row |-> row]
    <2>2. /\ new \in Busy /\ Fits(new) /\ new.step = "activate"
          /\ new.req = thread[t].req /\ new.row = row
      BY <1>2, <2>1 DEF Busy, Fits
    <2>3. thread' = [thread EXCEPT ![t] = new]
      BY <1>5
    <2> HIDE DEF new
    <2>4. /\ thread' \in [Threads -> {Idle} \cup Busy] /\ \A s \in Threads : Fits(thread'[s])
          /\ thread'[t] = new /\ \A s \in Threads \ {t} : thread'[s] = thread[s]
      BY <1>1, <2>2, <2>3, OneMoves
    <2>5. TypeInv' /\ OneRowEach'
      BY <1>1, <1>5, <2>4 DEF TypeInv, OneRowEach
    <2>6. HeldInv'
      BY <1>1, <2>1, <2>2, <2>4 DEF IInv, HeldInv, At
    <2>7. AddsInv'
      BY <1>1, <2>2, <2>4 DEF IInv, AddsInv, At, AddsUp
    <2>8. ASSUME NEW q \in told', q.id \notin raced' PROVE Kept(q)'
      <3>1. Kept(q)
        BY <1>1, <1>5, <2>8 DEF IInv, KeptInv
      <3>2. ASSUME NEW s \in Threads, At(s, "update")' PROVE At(s, "update") /\ thread'[s] = thread[s]
        BY <2>2, <2>4, <3>2 DEF At
      <3> QED
        BY <1>1, <3>1, <3>2 DEF Kept, Shows
    <2> QED
      BY <2>5, <2>6, <2>7, <2>8 DEF IInv, KeptInv
  <1> QED
    BY <1>1, <1>3, <1>4, <1>5 DEF FindEnrollment

\* Activating an enrolment keeps the invariant.
LEMMA ActivateInv == ASSUME IInv, NEW t \in Threads, Activate(t) PROVE IInv'
  <1>1. /\ TypeInv /\ thread[t].step = "activate" /\ OneRowEach /\ Tell(t)
        /\ UNCHANGED <<progress, bookmarks, requests, mishaps, raced>>
    BY DEF Activate, At, IInv
  <1>2. thread[t].req.op = "enroll"
    BY <1>1, ThreadFacts DEF Fits
  <1> DEFINE mine(e) == e.id = thread[t].row.id /\ e.user = thread[t].req.user
             after(e) == IF mine(e) THEN [e EXCEPT !.status = "active"] ELSE e
  <1>3. enrollments' = {after(e) : e \in enrollments}
    BY DEF Activate
  <1>4. ASSUME NEW e \in enrollments
        PROVE  /\ after(e) \in EnrollmentRows /\ after(e).user = e.user /\ after(e).id = e.id
               /\ e.status = "active" => after(e).status = "active"
               /\ mine(e) => after(e).status = "active"
    <2>1. e \in EnrollmentRows
      BY <1>1 DEF TypeInv
    <2> QED
      BY <2>1 DEF EnrollmentRows
  <1>5. PICK held \in enrollments : mine(held)
    BY <1>1 DEF IInv, HeldInv, At
  <1> HIDE DEF mine, after
  <1>6. enrollments' \subseteq EnrollmentRows /\ bookmarks' \subseteq BookmarkRows
    BY <1>1, <1>3, <1>4 DEF TypeInv
  <1>7. \A e \in enrollments : \E f \in enrollments' :
          f.user = e.user /\ f.id = e.id /\ (e.status = "active" => f.status = "active")
    BY <1>3, <1>4
  <1>8. \E e \in enrollments' : e.user = thread[t].req.user /\ e.status = "active"
    <2>1. after(held) \in enrollments' /\ after(held).user = held.user
          /\ after(held).status = "active" /\ held.user = thread[t].req.user
      BY <1>3, <1>4, <1>5 DEF mine
    <2> QED
      BY <2>1
  <1>9. OneRowEach'
    <2>1. \A e, f \in enrollments' : e.user = f.user => e = f
      BY <1>1, <1>3, <1>4 DEF OneRowEach
    <2> QED
      BY <1>1, <2>1 DEF OneRowEach
  <1> QED
    BY <1>1, <1>2, <1>6, <1>7, <1>8, <1>9, ToldInv DEF Lists

\* Inserting an enrolment, or finding that another request has, keeps the invariant.
LEMMA InsertEnrollmentInv ==
  ASSUME IInv, NEW t \in Threads, InsertEnrollment(t) PROVE IInv'
  <1>1. CASE Conflict(t)
    BY <1>1, PlainInv DEF InsertEnrollment
  <1>2. CASE ~Conflict(t)
    <2> DEFINE new == [id |-> thread[t].id, user |-> thread[t].req.user, status |-> "active"]
    <2>1. /\ TypeInv /\ thread[t].step = "insert_enrollment" /\ OneRowEach /\ Tell(t)
          /\ UNCHANGED <<progress, bookmarks, requests, mishaps, raced>>
          /\ Of(t, enrollments) = {} /\ enrollments' = enrollments \cup {new}
      BY <1>2 DEF InsertEnrollment, At, IInv
    <2>2. /\ thread[t].req.op = "enroll" /\ new \in EnrollmentRows
          /\ new.user = thread[t].req.user /\ new.status = "active"
      BY <2>1, ThreadFacts DEF Fits, EnrollmentRows
    <2> HIDE DEF new
    <2>3. enrollments' \subseteq EnrollmentRows /\ bookmarks' \subseteq BookmarkRows
      BY <2>1, <2>2 DEF TypeInv
    <2>4. \A e, f \in enrollments' : e.user = f.user => e = f
      BY <2>1, <2>2 DEF OneRowEach, Of
    <2>5. OneRowEach'
      BY <2>1, <2>4 DEF OneRowEach
    <2> QED
      BY <2>1, <2>2, <2>3, <2>5, ToldInv DEF Lists
  <1> QED
    BY <1>1, <1>2

\* Bookmarks are a pool call each.
LEMMA BookmarkInv ==
  ASSUME IInv, NEW t \in Threads, Mark(t) \/ Unmark(t) \/ Forget(t) PROVE IInv'
  <1>1. CASE Conflict(t) /\ Mark(t)
    BY <1>1, PlainInv DEF Mark
  <1>2. CASE ~(Conflict(t) /\ Mark(t))
    <2>1. /\ TypeInv /\ thread[t].step \in {"mark", "unmark", "forget"} /\ OneRowEach /\ Tell(t)
          /\ UNCHANGED <<progress, enrollments, requests, mishaps, raced>>
      BY <1>2 DEF Mark, Unmark, Forget, At, IInv
    <2>2. thread[t].req.op = thread[t].step /\ thread[t].id \in Nat /\ thread[t].req \in Requests
      BY <2>1, ThreadFacts DEF Fits
    <2>3. /\ bookmarks' \subseteq BookmarkRows
          /\ \A b, c \in bookmarks' : b.user = c.user /\ b.section = c.section => b = c
      <3>1. CASE bookmarks' \subseteq bookmarks
        BY <2>1, <3>1 DEF TypeInv, OneRowEach
      <3>2. CASE Mark(t)
        <4> DEFINE new == [id |-> thread[t].id, user |-> thread[t].req.user, section |-> Section(t)]
        <4>1. /\ {b \in Of(t, bookmarks) : b.section = Section(t)} = {}
              /\ bookmarks' = bookmarks \cup {new} /\ thread[t].step = "mark"
          BY <1>2, <3>2 DEF Mark, At
        <4>2. /\ new \in BookmarkRows /\ new.user = thread[t].req.user
              /\ new.section = Section(t)
          BY <2>2, <4>1, Requested DEF BookmarkRows, Section
        <4> HIDE DEF new
        <4> QED
          BY <2>1, <4>1, <4>2 DEF TypeInv, OneRowEach, Of
      <3> QED
        BY <3>1, <3>2 DEF Unmark, Forget
    <2>4. OneRowEach'
      BY <2>1, <2>3 DEF OneRowEach
    <2>5. enrollments' \subseteq EnrollmentRows
      BY <2>1 DEF TypeInv
    <2>6. \A e \in enrollments : \E f \in enrollments' :
            f.user = e.user /\ f.id = e.id /\ (e.status = "active" => f.status = "active")
      BY <2>1
    <2>7. thread[t].req.op \notin Lists \cup {"enroll"}
      BY <2>1, <2>2 DEF Lists
    <2> QED
      BY <2>1, <2>3, <2>4, <2>5, <2>6, <2>7, ToldInv
  <1> QED
    BY <1>1, <1>2

-----------------------------------------------------------------------------
(***************************************************************************)
(* The update: the list is the one that was read, with one more entry.     *)
(***************************************************************************)

\* An entry more leaves those before it where they are.
LEMMA AppendFacts ==
  ASSUME NEW S, NEW list \in Seq(S), NEW x \in S
  PROVE  /\ Append(list, x) \in Seq(S)
         /\ Len(list) + 1 \in DOMAIN Append(list, x) /\ Append(list, x)[Len(list) + 1] = x
         /\ \A i \in DOMAIN list : i \in DOMAIN Append(list, x) /\ Append(list, x)[i] = list[i]
         /\ \A i \in DOMAIN Append(list, x) : i \in DOMAIN list \/ i = Len(list) + 1
         /\ Len(list) \in Nat /\ DOMAIN list = 1 .. Len(list)
  OBVIOUS

\* A guide that is not listed can be.
LEMMA StaysInjective ==
  ASSUME NEW S, NEW list \in Seq(S), NEW x \in S, IsInjective(list), ~Contains(list, x)
  PROVE  IsInjective(Append(list, x))
  <1>1. \A i \in DOMAIN list : list[i] # x
    BY AppendFacts DEF Contains
  <1> QED
    BY <1>1, AppendFacts DEF IsInjective

\* What the UPDATE of each handler makes of a row.
LEMMA UpdatedFacts ==
  ASSUME TypeInv, NEW t \in Threads, At(t, "update"), NEW row \in ProgressRows
  PROVE  LET q == thread[t].req
             old == thread[t].row
             new == Updated(t, row)
         IN  /\ new \in ProgressRows /\ new.user = row.user
             /\ q.op = "quiz" =>
                  /\ new.quizAttempts = Append(old.quizAttempts, Attempt(t))
                  /\ new.completedGuides = row.completedGuides
                  /\ new.repAttempts = row.repAttempts
                  /\ new.totalTimeSpentMinutes = row.totalTimeSpentMinutes
             /\ q.op = "guide" =>
                  /\ new.quizAttempts = row.quizAttempts
                  /\ new.completedGuides = Append(old.completedGuides, q.item)
                  /\ new.repAttempts = row.repAttempts
                  /\ new.totalTimeSpentMinutes = row.totalTimeSpentMinutes
             /\ q.op = "rep" =>
                  /\ new.quizAttempts = row.quizAttempts
                  /\ new.completedGuides = row.completedGuides
                  /\ new.repAttempts = Append(old.repAttempts, Attempt(t))
                  /\ new.totalTimeSpentMinutes = old.totalTimeSpentMinutes + q.value
  <1> DEFINE q == thread[t].req
             old == thread[t].row
             new == Updated(t, row)
  <1>1. /\ old \in ProgressRows /\ q \in Requests /\ q.op \in Lists /\ thread[t].id \in Nat
    BY ThreadFacts DEF At, Fits
  <1>2. CASE q.op = "quiz"
    <2>1. Attempt(t) \in Attempts(Quizzes, {0, 1})
      BY <1>1, <1>2, Requested DEF Attempt, Attempts
    <2>2. Append(old.quizAttempts, Attempt(t)) \in Seq(Attempts(Quizzes, {0, 1}))
      BY <1>1, <2>1, AppendFacts DEF ProgressRows
    <2>3. new = [row EXCEPT !.quizAttempts = Append(old.quizAttempts, Attempt(t))]
      BY <1>2 DEF Updated
    <2> QED
      BY <1>2, <2>2, <2>3 DEF ProgressRows
  <1>3. CASE q.op = "guide"
    <2>1. Append(old.completedGuides, q.item) \in Seq(Guides)
      BY <1>1, <1>3, Requested, AppendFacts DEF ProgressRows
    <2>2. new = [row EXCEPT !.completedGuides = Append(old.completedGuides, q.item)]
      BY <1>3 DEF Updated
    <2> QED
      BY <1>3, <2>1, <2>2 DEF ProgressRows
  <1>4. CASE q.op = "rep"
    <2>1. Attempt(t) \in Attempts(Reps, Minutes) /\ q.value \in Int
      BY <1>1, <1>4, Requested, ProgressAssumption DEF Attempt, Attempts
    <2>2. Append(old.repAttempts, Attempt(t)) \in Seq(Attempts(Reps, Minutes))
      BY <1>1, <2>1, AppendFacts DEF ProgressRows
    <2>3. old.totalTimeSpentMinutes + q.value \in Int
      BY SMTT(30), <1>1, <2>1 DEF ProgressRows
    <2>4. new = [row EXCEPT !.repAttempts = Append(old.repAttempts, Attempt(t)),
                            !.totalTimeSpentMinutes = old.totalTimeSpentMinutes + q.value]
      BY <1>4 DEF Updated
    <2> QED
      BY <1>4, <2>2, <2>3, <2>4 DEF ProgressRows
  <1> QED
    BY <1>1, <1>2, <1>3, <1>4 DEF Lists

\* The row written adds up if the row found and the row read do.
LEMMA UpdatedAddsUp ==
  ASSUME TypeInv, NEW t \in Threads, At(t, "update"), NEW row \in ProgressRows,
         AddsUp(row), AddsUp(thread[t].row), ~Already(t)
  PROVE  AddsUp(Updated(t, row))
  <1> DEFINE q == thread[t].req
             old == thread[t].row
  <1>1. /\ old \in ProgressRows /\ q \in Requests /\ q.op \in Lists /\ thread[t].id \in Nat
    BY ThreadFacts DEF At, Fits
  <1>2. CASE q.op = "quiz"
    BY <1>2, UpdatedFacts DEF AddsUp
  <1>3. CASE q.op = "guide"
    <2>1. ~Contains(old.completedGuides, q.item)
      BY <1>3 DEF Already
    <2>2. IsInjective(Append(old.completedGuides, q.item))
      BY <1>1, <1>3, <2>1, Requested, StaysInjective DEF AddsUp, ProgressRows
    <2> QED
      BY <1>3, <2>2, UpdatedFacts DEF AddsUp
  <1>4. CASE q.op = "rep"
    <2>1. Attempt(t) \in Attempts(Reps, Minutes) /\ Attempt(t).value = q.value
      BY <1>1, <1>4, Requested DEF Attempt, Attempts
    <2>2. old.repAttempts \in Seq(Attempts(Reps, Minutes))
      BY <1>1 DEF ProgressRows
    <2>3. MinutesOf(Append(old.repAttempts, Attempt(t))) = MinutesOf(old.repAttempts) + q.value
      BY <2>1, <2>2, MinutesAdd
    <2> DEFINE new == Updated(t, row)
    <2>4. /\ new.repAttempts = Append(old.repAttempts, Attempt(t))
          /\ new.totalTimeSpentMinutes = old.totalTimeSpentMinutes + q.value
          /\ new.completedGuides = row.completedGuides
      BY <1>4, UpdatedFacts
    <2> HIDE DEF new
    <2>5. MinutesOf(new.repAttempts) = old.totalTimeSpentMinutes + q.value
      BY <2>3, <2>4 DEF AddsUp
    <2>6. IsInjective(new.completedGuides)
      BY <2>4 DEF AddsUp
    <2>7. AddsUp(new)
      BY <2>4, <2>5, <2>6 DEF AddsUp
    <2> QED
      BY <2>7 DEF new
  <1> QED
    BY <1>1, <1>2, <1>3, <1>4 DEF Lists

\* It shows the request, and what the row and the list read both show.
LEMMA UpdatedShows ==
  ASSUME TypeInv, NEW t \in Threads, At(t, "update"), NEW row \in ProgressRows
  PROVE  /\ Shows(Updated(t, row), [id |-> thread[t].id, req |-> thread[t].req])
         /\ \A q : /\ q.req.op \in Lists /\ Shows(row, q)
                   /\ q.req.op = thread[t].req.op => Shows(thread[t].row, q)
                   => Shows(Updated(t, row), q)
  <1> DEFINE req == thread[t].req
             old == thread[t].row
             new == Updated(t, row)
             this == [id |-> thread[t].id, req |-> thread[t].req]
  <1>1. /\ old \in ProgressRows /\ req \in Requests /\ req.op \in Lists /\ thread[t].id \in Nat
    BY ThreadFacts DEF At, Fits
  <1>2. CASE req.op = "quiz"
    <2>1. /\ old.quizAttempts \in Seq(Attempts(Quizzes, {0, 1}))
          /\ Attempt(t) \in Attempts(Quizzes, {0, 1})
          /\ Attempt(t) = [id |-> thread[t].id, item |-> req.item, value |-> req.value]
      BY <1>1, <1>2, Requested DEF Attempt, Attempts, ProgressRows
    <2>2. /\ new.quizAttempts = Append(old.quizAttempts, Attempt(t))
          /\ new.completedGuides = row.completedGuides /\ new.repAttempts = row.repAttempts
      BY <1>2, UpdatedFacts
    <2>3. /\ Len(old.quizAttempts) + 1 \in DOMAIN new.quizAttempts
          /\ new.quizAttempts[Len(old.quizAttempts) + 1] = Attempt(t)
          /\ \A i \in DOMAIN old.quizAttempts :
               i \in DOMAIN new.quizAttempts /\ new.quizAttempts[i] = old.quizAttempts[i]
      BY <2>1, <2>2, AppendFacts
    <2> HIDE DEF new
    <2>4. Shows(new, this)
      BY <1>2, <2>1, <2>3 DEF Shows
    <2>5. ASSUME NEW q, q.req.op \in Lists, Shows(row, q),
                 q.req.op = req.op => Shows(old, q)
          PROVE  Shows(new, q)
      <3>1. CASE q.req.op = req.op
        BY <1>2, <2>3, <2>5, <3>1 DEF Shows
      <3>2. CASE q.req.op # req.op
        BY <1>2, <2>2, <2>5, <3>2 DEF Shows, Lists
      <3> QED
        BY <3>1, <3>2
    <2> QED
      BY <2>4, <2>5 DEF new
  <1>3. CASE req.op = "guide"
    <2>1. /\ old.completedGuides \in Seq(Guides) /\ req.item \in Guides
      BY <1>1, <1>3, Requested DEF ProgressRows
    <2>2. /\ new.completedGuides = Append(old.completedGuides, req.item)
          /\ new.quizAttempts = row.quizAttempts /\ new.repAttempts = row.repAttempts
      BY <1>3, UpdatedFacts
    <2>3. /\ Len(old.completedGuides) + 1 \in DOMAIN new.completedGuides
          /\ new.completedGuides[Len(old.completedGuides) + 1] = req.item
          /\ \A i \in DOMAIN old.completedGuides :
               i \in DOMAIN new.completedGuides /\ new.completedGuides[i] = old.completedGuides[i]
      <3> DEFINE list == old.completedGuides
                 x == req.item
                 longer == new.completedGuides
      <3>1. list \in Seq(Guides) /\ x \in Guides /\ longer = Append(list, x)
        BY <2>1, <2>2
      <3> HIDE DEF list, x, longer, new
      <3>2. /\ Len(list) + 1 \in DOMAIN longer /\ longer[Len(list) + 1] = x
            /\ \A i \in DOMAIN list : i \in DOMAIN longer /\ longer[i] = list[i]
        BY <3>1, AppendFacts
      <3> QED
        BY <3>2 DEF list, x, longer
    <2> HIDE DEF new
    <2>4. Shows(new, this)
      BY <1>3, <2>1, <2>3 DEF Shows
    <2>5. ASSUME NEW q, q.req.op \in Lists, Shows(row, q),
                 q.req.op = req.op => Shows(old, q)
          PROVE  Shows(new, q)
      <3>1. CASE q.req.op = req.op
        BY <1>3, <2>3, <2>5, <3>1 DEF Shows
      <3>2. CASE q.req.op # req.op
        BY <1>3, <2>2, <2>5, <3>2 DEF Shows, Lists
      <3> QED
        BY <3>1, <3>2
    <2> QED
      BY <2>4, <2>5 DEF new
  <1>4. CASE req.op = "rep"
    <2>1. /\ old.repAttempts \in Seq(Attempts(Reps, Minutes))
          /\ Attempt(t) \in Attempts(Reps, Minutes) /\ Attempt(t).item = req.item
      BY <1>1, <1>4, Requested DEF Attempt, Attempts, ProgressRows
    <2>2. /\ new.repAttempts = Append(old.repAttempts, Attempt(t))
          /\ new.completedGuides = row.completedGuides /\ new.quizAttempts = row.quizAttempts
      BY <1>4, UpdatedFacts
    <2>3. /\ Len(old.repAttempts) + 1 \in DOMAIN new.repAttempts
          /\ new.repAttempts[Len(old.repAttempts) + 1] = Attempt(t)
          /\ \A i \in DOMAIN old.repAttempts :
               i \in DOMAIN new.repAttempts /\ new.repAttempts[i] = old.repAttempts[i]
      BY SMTT(30), <2>1, <2>2, AppendFacts
    <2> HIDE DEF new
    <2>4. Shows(new, this)
      BY <1>4, <2>1, <2>3 DEF Shows
    <2>5. ASSUME NEW q, q.req.op \in Lists, Shows(row, q),
                 q.req.op = req.op => Shows(old, q)
          PROVE  Shows(new, q)
      <3>1. CASE q.req.op = req.op
        BY <1>4, <2>3, <2>5, <3>1 DEF Shows
      <3>2. CASE q.req.op # req.op
        BY <1>4, <2>2, <2>5, <3>2 DEF Shows, Lists
      <3> QED
        BY <3>1, <3>2
    <2> QED
      BY <2>4, <2>5 DEF new
  <1> QED
    BY <1>1, <1>2, <1>3, <1>4 DEF Lists

\* The rows after the update: the user's one, which keeps what it must.
LEMMA RowsAfter ==
  ASSUME IInv, NEW t \in Threads, UpdateProgress(t)
  PROVE  \E before \in progress, after \in ProgressRows :
           /\ before.user = thread[t].req.user /\ after.user = before.user
           /\ progress' = (progress \ {before}) \cup {after}
           /\ \A row \in progress : row.user = before.user => row = before
           /\ AddsUp(after)
           /\ Already(t) => after = before
           /\ ~Already(t) => Shows(after, [id |-> thread[t].id, req |-> thread[t].req])
           /\ \A q : /\ q.req.op \in Lists /\ Shows(before, q)
                     /\ q.req.op = thread[t].req.op => Shows(thread[t].row, q)
                     => Shows(after, q)
  <1>1. /\ TypeInv /\ At(t, "update") /\ AddsUp(thread[t].row)
        /\ progress' = IF Already(t) THEN progress
                       ELSE (progress \ Of(t, progress)) \cup
                            {Updated(t, row) : row \in Of(t, progress)}
    BY DEF UpdateProgress, IInv, AddsInv
  <1>2. PICK before \in progress : before.user = thread[t].req.user
    BY <1>1 DEF IInv, HeldInv
  <1>3. before \in ProgressRows /\ AddsUp(before)
    BY <1>1 DEF IInv, AddsInv, TypeInv
  <1>4. \A row \in progress : row.user = before.user => row = before
    BY DEF IInv, OneRowEach
  <1>5. CASE Already(t)
    <2>1. progress' = (progress \ {before}) \cup {before}
      BY <1>1, <1>5
    <2> QED
      BY <1>2, <1>3, <1>4, <1>5, <2>1
  <1>6. CASE ~Already(t)
    <2> DEFINE after == Updated(t, before)
    <2>1. Of(t, progress) = {before}
      BY <1>2, <1>4 DEF Of
    <2>2. progress' = (progress \ {before}) \cup {after}
      BY <1>1, <1>6, <2>1
    <2>3. after \in ProgressRows /\ after.user = before.user
      BY <1>1, <1>3, UpdatedFacts
    <2>4. AddsUp(after)
      BY <1>1, <1>3, <1>6, UpdatedAddsUp
    <2>5. /\ Shows(after, [id |-> thread[t].id, req |-> thread[t].req])
          /\ \A q : /\ q.req.op \in Lists /\ Shows(before, q)
                    /\ q.req.op = thread[t].req.op => Shows(thread[t].row, q)
                    => Shows(after, q)
      BY <1>1, <1>3, UpdatedShows
    <2> HIDE DEF after
    <2> QED
      BY <1>2, <1>4, <1>6, <2>2, <2>3, <2>4, <2>5
  <1> QED
    BY <1>5, <1>6

\* Writing back a row computed from one read earlier keeps the invariant.
LEMMA UpdateInv == ASSUME IInv, NEW t \in Threads, UpdateProgress(t) PROVE IInv'
  <1> DEFINE this == [id |-> thread[t].id, req |-> thread[t].req]
             u == thread[t].req.user
  <1>1. /\ TypeInv /\ At(t, "update") /\ Tell(t) /\ OneRowEach
        /\ UNCHANGED <<enrollments, bookmarks, requests, mishaps>>
        /\ raced' = IF Overtaken(t) THEN raced \cup {thread[t].id} ELSE raced
    BY DEF UpdateProgress, IInv
  <1>2. /\ thread[t].req.op \in Lists /\ thread[t].req \in Requests /\ thread[t].id \in Nat
    BY <1>1, ThreadFacts DEF At, Fits
  <1>3. this \in [id : Nat, req : Requests] /\ this.req = thread[t].req /\ this.id = thread[t].id
    BY <1>2
  <1>4. told' = told \cup {this} /\ thread' = [thread EXCEPT ![t] = Idle]
    BY <1>1 DEF Tell
  <1>5. /\ thread' \in [Threads -> {Idle} \cup Busy]
        /\ \A s \in Threads : Fits(thread'[s])
        /\ thread'[t].step = "idle" /\ \A s \in Threads \ {t} : thread'[s] = thread[s]
    BY <1>1, <1>4, Answering
  <1>6. PICK before \in progress, after \in ProgressRows :
           /\ before.user = u /\ after.user = before.user
           /\ progress' = (progress \ {before}) \cup {after}
           /\ \A row \in progress : row.user = before.user => row = before
           /\ AddsUp(after)
           /\ Already(t) => after = before
           /\ ~Already(t) => Shows(after, this)
           /\ \A q : /\ q.req.op \in Lists /\ Shows(before, q)
                     /\ q.req.op = thread[t].req.op => Shows(thread[t].row, q)
                     => Shows(after, q)
    BY RowsAfter
  <1> HIDE DEF this
  <1>7. ASSUME NEW s \in Threads, At(s, "update")' \/ At(s, "activate")'
        PROVE  s # t /\ thread'[s] = thread[s]
    BY <1>5, <1>7 DEF At
  <1>8. TypeInv'
    <2>1. progress' \subseteq ProgressRows
      BY <1>1, <1>6 DEF TypeInv
    <2>2. told' \subseteq [id : Nat, req : Requests]
      BY <1>1, <1>3, <1>4 DEF TypeInv
    <2> QED
      BY <1>1, <1>5, <2>1, <2>2 DEF TypeInv
  <1>9. OneRowEach'
    BY <1>1, <1>6 DEF OneRowEach
  <1>10. HeldInv'
    <2>1. ASSUME NEW s \in Threads, At(s, "update")'
          PROVE  \E row \in progress' : row.user = thread'[s].req.user
      <3>1. PICK row \in progress : row.user = thread[s].req.user
        BY <1>7, <2>1 DEF IInv, HeldInv, At
      <3> QED
        BY <1>6, <1>7, <2>1, <3>1
    <2>2. ASSUME NEW s \in Threads, At(s, "activate")'
          PROVE  \E e \in enrollments' : e.user = thread'[s].req.user /\ e.id = thread'[s].row.id
      BY <1>1, <1>7, <2>2 DEF IInv, HeldInv, At
    <2> QED
      BY <2>1, <2>2 DEF HeldInv
  <1>11. AddsInv'
    <2>1. \A row \in progress' : AddsUp(row)
      BY <1>6 DEF IInv, AddsInv
    <2>2. \A s \in Threads : At(s, "update")' => AddsUp(thread'[s].row)
      BY <1>7 DEF IInv, AddsInv, At
    <2> QED
      BY <2>1, <2>2 DEF AddsInv, AddsUp
  <1>12. ASSUME NEW q \in told', q.id \notin raced' PROVE Kept(q)'
    <2>1. CASE q \in told
      <3>1. Kept(q)
        BY <1>1, <1>12, <2>1 DEF IInv, KeptInv
      <3>2. ASSUME q.req.op \in Lists
            PROVE  \E row \in progress' : row.user = q.req.user /\ Shows(row, q)
        <4>1. PICK row \in progress : row.user = q.req.user /\ Shows(row, q)
          BY <3>1, <3>2 DEF Kept
        <4>2. CASE row = before
          <5>1. q.req.op = thread[t].req.op => Shows(thread[t].row, q)
            BY <1>1, <1>6, <3>1, <3>2, <4>1, <4>2 DEF Kept
          <5>2. Shows(after, q)
            BY <1>6, <3>2, <4>1, <4>2, <5>1
          <5> QED
            BY <1>6, <4>1, <4>2, <5>2
        <4>3. CASE row # before
          BY <1>6, <4>1, <4>3
        <4> QED
          BY <4>2, <4>3
      <3>3. \A s \in Threads :
              q.req.op \in Lists /\ At(s, "update")' /\ thread'[s].req.op = q.req.op
              /\ thread'[s].req.user = q.req.user => Shows(thread'[s].row, q)
        BY <1>7, <3>1 DEF Kept, At
      <3>4. q.req.op = "enroll" => \E e \in enrollments' : e.user = q.req.user /\ e.status = "active"
        BY <1>1, <3>1 DEF Kept
      <3> QED
        BY <3>2, <3>3, <3>4 DEF Kept, Shows
    <2>2. CASE q = this
      <3>1. ~Overtaken(t)
        BY <1>1, <1>3, <1>12, <2>2
      <3>2. Shows(after, this)
        <4>1. CASE ~Already(t)
          BY <1>6, <4>1
        <4>2. CASE Already(t)
          <5>1. PICK row \in Of(t, progress) : row.completedGuides = thread[t].row.completedGuides
            BY <3>1, <4>2 DEF Overtaken
          <5>2. row = before /\ row = after /\ row \in ProgressRows
            BY <1>6, <4>2, <5>1 DEF Of
          <5>3. /\ thread[t].req.op = "guide"
                /\ Contains(thread[t].row.completedGuides, thread[t].req.item)
            BY <4>2 DEF Already
          <5>4. \E i \in 1 .. Len(after.completedGuides) :
                  after.completedGuides[i] = thread[t].req.item
            BY <5>1, <5>2, <5>3 DEF Contains
          <5>5. DOMAIN after.completedGuides = 1 .. Len(after.completedGuides)
            BY <1>6 DEF ProgressRows
          <5> QED
            BY <1>3, <5>3, <5>4, <5>5 DEF Shows
        <4> QED
          BY <4>1, <4>2
      <3>3. \A s \in Threads :
              ~(At(s, "update")' /\ thread'[s].req.op = thread[t].req.op
                /\ thread'[s].req.user = thread[t].req.user)
        BY <1>7, <3>1 DEF Overtaken, At
      <3>4. after \in progress' /\ after.user = this.req.user /\ this.req.op \in Lists
        BY <1>2, <1>3, <1>6
      <3>5. q.req.op # "enroll" /\ q.req.op \in Lists
        BY <2>2, <3>4 DEF Lists
      <3>6. \E row \in progress' : row.user = q.req.user /\ Shows(row, q)
        BY <2>2, <3>2, <3>4
      <3>7. \A s \in Threads :
              ~(At(s, "update")' /\ thread'[s].req.op = q.req.op
                /\ thread'[s].req.user = q.req.user)
        BY <1>3, <2>2, <3>3
      <3> QED
        BY <3>5, <3>6, <3>7 DEF Kept, Shows
    <2> QED
      BY <1>4, <2>1, <2>2
  <1> QED
    BY <1>8, <1>9, <1>10, <1>11, <1>12 DEF IInv, KeptInv

\* Every step keeps the invariant.
LEMMA StepInv == IInv /\ [Next]_vars => IInv'
  <1> SUFFICES ASSUME IInv, [Next]_vars PROVE IInv'
    OBVIOUS
  <1>1. CASE UNCHANGED vars
    <2>1. UNCHANGED <<progress, enrollments, bookmarks, thread, requests, mishaps, told, raced>>
      BY <1>1 DEF vars, tables
    <2>2. TypeInv
      BY DEF IInv
    <2> QED
      BY <2>1, <2>2, QuietStep DEF TypeInv
  <1>2. ASSUME NEW t \in Threads, Handle(t) PROVE IInv'
    BY <1>2, PlainInv, SelectInv, CreateInv, UpdateInv, FindEnrollmentInv, ActivateInv,
       InsertEnrollmentInv, BookmarkInv
    DEF Handle
  <1>3. ASSUME NEW t \in Threads, CallFails(t) PROVE IInv'
    BY <1>3, PlainInv
  <1> QED
    BY <1>1, <1>2, <1>3, ArriveInv, CrashInv DEF Next

-----------------------------------------------------------------------------
\* The inductive invariant holds in every behaviour.
THEOREM ProgressInvariance == Spec => []IInv
  <1> QED
    BY InitInv, StepInv, PTL DEF Spec

\* The unique indexes: one row of progress and one enrollment for each user, one bookmark
\* for each section, though every handler reads and inserts in two calls.
THEOREM RowsAreUnique == Spec => []OneRowEach
  <1>1. IInv => OneRowEach
    BY DEF IInv
  <1> QED
    BY <1>1, ProgressInvariance, PTL

\* What was answered 200 shows for ever, unless another request raced it.
THEOREM AnswersAreKept == Spec => []AnsweredIsKept
  <1>1. IInv => AnsweredIsKept
    <2> SUFFICES ASSUME IInv, NEW q \in told, q.id \notin raced
                 PROVE  LET mine(table) == {row \in table : row.user = q.req.user} IN
                   CASE q.req.op = "quiz" -> \E row \in mine(progress) :
                          /\ \E a \in ToSet(row.quizAttempts) : a.id = q.id
                          /\ q.req.value = 1 => q.req.item \in passedQuizIds(row)
                     [] q.req.op = "guide" ->
                          \E row \in mine(progress) : q.req.item \in completedGuideIds(row)
                     [] q.req.op = "rep" ->
                          \E row \in mine(progress) : q.req.item \in completedRepIds(row)
                     [] q.req.op = "enroll" -> \E row \in mine(enrollments) : row.status = "active"
                     [] OTHER -> TRUE
      BY DEF AnsweredIsKept
    <2>1. Kept(q)
      BY DEF IInv, KeptInv
    <2>2. CASE q.req.op \in Lists
      <3>1. PICK row \in progress : row.user = q.req.user /\ Shows(row, q)
        BY <2>1, <2>2 DEF Kept
      <3>2. row \in {r \in progress : r.user = q.req.user}
        BY <3>1
      <3>3. CASE q.req.op = "quiz"
        <4>1. PICK i \in DOMAIN row.quizAttempts :
                row.quizAttempts[i] = [id |-> q.id, item |-> q.req.item, value |-> q.req.value]
          BY <3>1, <3>3 DEF Shows
        <4> DEFINE a == row.quizAttempts[i]
        <4>2. /\ a \in ToSet(row.quizAttempts) /\ a.id = q.id
              /\ a.item = q.req.item /\ a.value = q.req.value
          BY <4>1 DEF ToSet
        <4> HIDE DEF a
        <4>3. q.req.value = 1 => q.req.item \in passedQuizIds(row)
          BY <4>2 DEF passedQuizIds
        <4> QED
          BY <3>2, <3>3, <4>2, <4>3
      <3>4. CASE q.req.op = "guide"
        BY <3>1, <3>2, <3>4 DEF Shows, completedGuideIds, ToSet
      <3>5. CASE q.req.op = "rep"
        <4>1. PICK i \in DOMAIN row.repAttempts : row.repAttempts[i].item = q.req.item
          BY <3>1, <3>5 DEF Shows
        <4>2. row.repAttempts[i] \in ToSet(row.repAttempts)
          BY DEF ToSet
        <4>3. q.req.item \in completedRepIds(row)
          BY <4>1, <4>2 DEF completedRepIds
        <4> QED
          BY <3>2, <3>5, <4>3
      <3> QED
        BY <2>2, <3>3, <3>4, <3>5 DEF Lists
    <2>3. CASE q.req.op = "enroll"
      BY <2>1, <2>3 DEF Kept
    <2>4. CASE q.req.op \notin Lists \cup {"enroll"}
      BY <2>4 DEF Lists
    <2> QED
      BY <2>2, <2>3, <2>4
  <1> QED
    BY <1>1, ProgressInvariance, PTL

\* Lost updates included, the minutes of a row are those of the attempts it lists, and no
\* guide is listed twice.
THEOREM RowsAddUp == Spec => []RowAddsUp
  <1>1. IInv => RowAddsUp
    BY DEF IInv, AddsInv, AddsUp, RowAddsUp
  <1> QED
    BY <1>1, ProgressInvariance, PTL

-----------------------------------------------------------------------------
(***************************************************************************)
(* Quizzes.  Between the author's row, the page and the grader, options    *)
(* are only put in other orders, and lettered ones have one order by       *)
(* letter.                                                                 *)
(***************************************************************************)

\* The lettered options of a question in their order.
InLetters(q) ==
  [i \in DOMAIN OptionTexts[q] |-> Lettered(Letters[i], OptionTexts[q][i])]

AsStrings(q) == [i \in DOMAIN OptionTexts[q] |-> AsString(OptionTexts[q][i])]

\* Letters come in order in t.
Ordered(t) ==
  \A i, j \in DOMAIN t : \A k, l \in DOMAIN Letters :
    t[i].id = Letters[k] /\ t[j].id = Letters[l] /\ k < l => i < j

\* An order of a sequence lists the same elements, and its orders are those of the
\* sequence.
LEMMA OrderOf ==
  ASSUME NEW n \in Nat, NEW s, DOMAIN s = 1 .. n, NEW t \in Orders(s)
  PROVE  /\ DOMAIN t = 1 .. n
         /\ \E p \in Bijection(1 .. n, 1 .. n) : \A i \in 1 .. n : t[i] = s[p[i]]
  BY DEF Orders

\* A bijection as a function that meets every place once.
LEMMA Permutes ==
  ASSUME NEW n \in Nat, NEW p \in Bijection(1 .. n, 1 .. n)
  PROVE  /\ p \in [1 .. n -> 1 .. n]
         /\ \A i, j \in 1 .. n : p[i] = p[j] => i = j
         /\ \A m \in 1 .. n : \E i \in 1 .. n : p[i] = m
  BY DEF Bijection, Injection, Surjection, IsInjective

\* A function that meets every place once is a bijection.
LEMMA IsBijection ==
  ASSUME NEW n \in Nat, NEW p \in [1 .. n -> 1 .. n],
         \A i, j \in 1 .. n : p[i] = p[j] => i = j,
         \A m \in 1 .. n : \E i \in 1 .. n : p[i] = m
  PROVE  p \in Bijection(1 .. n, 1 .. n)
  BY DEF Bijection, Injection, Surjection, IsInjective

\* There and back.
LEMMA OrderBack ==
  ASSUME NEW n \in Nat, NEW s, s = [i \in 1 .. n |-> s[i]], NEW t \in Orders(s)
  PROVE  s \in Orders(t)
  <1>1. DOMAIN s = 1 .. n
    OBVIOUS
  <1>2. DOMAIN t = 1 .. n
    BY <1>1, OrderOf
  <1>3. PICK p \in Bijection(1 .. n, 1 .. n) : \A i \in 1 .. n : t[i] = s[p[i]]
    BY <1>1 DEF Orders
  <1>4. /\ p \in [1 .. n -> 1 .. n]
        /\ \A i, j \in 1 .. n : p[i] = p[j] => i = j
        /\ \A m \in 1 .. n : \E i \in 1 .. n : p[i] = m
    BY <1>3, Permutes
  <1> DEFINE r == [m \in 1 .. n |-> CHOOSE i \in 1 .. n : p[i] = m]
  <1>5. \A m \in 1 .. n : r[m] \in 1 .. n /\ p[r[m]] = m
    BY <1>4
  <1>6. r \in [1 .. n -> 1 .. n]
    BY <1>5
  <1>7. \A i \in 1 .. n : r[p[i]] = i
    BY <1>4, <1>5
  <1> HIDE DEF r
  <1>8. \A i, j \in 1 .. n : r[i] = r[j] => i = j
    BY <1>5
  <1>9. \A m \in 1 .. n : \E i \in 1 .. n : r[i] = m
    BY <1>4, <1>7
  <1>10. \A i \in 1 .. n : s[i] = t[r[i]]
    BY <1>3, <1>5
  <1>11. r \in Bijection(1 .. n, 1 .. n)
    BY ONLY n \in Nat, <1>6, <1>8, <1>9, IsBijection
  <1>12. s = [i \in 1 .. n |-> t[r[i]]]
    BY <1>10
  <1> QED
    BY <1>2, <1>11, <1>12 DEF Orders

\* A shuffle of a shuffle is a shuffle.
LEMMA OrderOfOrder ==
  ASSUME NEW n \in Nat, NEW s, DOMAIN s = 1 .. n, NEW t \in Orders(s), NEW u \in Orders(t)
  PROVE  u \in Orders(s)
  <1>1. DOMAIN t = 1 .. n
    BY OrderOf
  <1>2. PICK p \in Bijection(1 .. n, 1 .. n) : \A i \in 1 .. n : t[i] = s[p[i]]
    BY OrderOf
  <1>3. PICK r \in Bijection(1 .. n, 1 .. n) : u = [i \in 1 .. n |-> t[r[i]]]
    BY <1>1 DEF Orders
  <1>4. /\ p \in [1 .. n -> 1 .. n]
        /\ \A i, j \in 1 .. n : p[i] = p[j] => i = j
        /\ \A m \in 1 .. n : \E i \in 1 .. n : p[i] = m
    BY <1>2, Permutes
  <1>5. /\ r \in [1 .. n -> 1 .. n]
        /\ \A i, j \in 1 .. n : r[i] = r[j] => i = j
        /\ \A m \in 1 .. n : \E i \in 1 .. n : r[i] = m
    BY <1>3, Permutes
  <1> DEFINE c == [i \in 1 .. n |-> p[r[i]]]
  <1>6. c \in [1 .. n -> 1 .. n]
    BY <1>4, <1>5
  <1>7. \A i, j \in 1 .. n : c[i] = c[j] => i = j
    BY <1>4, <1>5
  <1>8. \A m \in 1 .. n : \E i \in 1 .. n : c[i] = m
    <2> TAKE m \in 1 .. n
    <2>1. PICK k \in 1 .. n : p[k] = m
      BY <1>4
    <2>2. PICK i \in 1 .. n : r[i] = k
      BY <1>5
    <2> QED
      BY <2>1, <2>2
  <1>9. \A i \in 1 .. n : u[i] = s[c[i]]
    BY <1>2, <1>3, <1>5
  <1> HIDE DEF c
  <1>10. u = [i \in 1 .. n |-> s[c[i]]]
    BY <1>3, <1>9
  <1>11. c \in Bijection(1 .. n, 1 .. n)
    BY ONLY n \in Nat, <1>6, <1>7, <1>8, IsBijection
  <1> QED
    BY <1>10, <1>11 DEF Orders

\* A permutation that puts no smaller number behind a larger one moves none: the first
\* it moved would be overtaken.
LEMMA InOrderIsStill ==
  ASSUME NEW n \in Nat, NEW p \in [1 .. n -> 1 .. n],
         \A i, j \in 1 .. n : p[i] = p[j] => i = j,
         \A m \in 1 .. n : \E i \in 1 .. n : p[i] = m,
         \A i, j \in 1 .. n : p[i] < p[j] => i < j
  PROVE  \A i \in 1 .. n : p[i] = i
  <1> DEFINE Moved == {i \in 1 .. n : p[i] # i}
  <1> SUFFICES ASSUME Moved # {} PROVE FALSE
    OBVIOUS
  <1>1. PICK i \in Moved : \A j \in Moved : i <= j
    <2>1. Moved \in SUBSET Nat
      OBVIOUS
    <2> HIDE DEF Moved
    <2> QED
      BY <2>1, LeastNumber
  <1>2. \A j \in 1 .. n : j < i => p[j] = j
    BY <1>1
  <1>3. i < p[i]
    <2>1. i \in 1 .. n /\ p[i] \in 1 .. n /\ p[i] # i
      BY <1>1
    <2>2. ~(p[i] < i)
      BY <1>2, <2>1
    <2> QED
      BY <2>1, <2>2
  <1>4. PICK m \in 1 .. n : p[m] = i
    BY <1>1
  <1>5. m < i
    BY <1>1, <1>3, <1>4
  <1> QED
    BY <1>2, <1>4, <1>5

\* The options of a question are numbered, and there is a letter for each.
LEMMA Offered ==
  ASSUME NEW q \in Questions
  PROVE  \E n \in Nat :
           /\ DOMAIN OptionTexts[q] = 1 .. n
           /\ 1 .. n \subseteq DOMAIN Letters
           /\ \A i, j \in 1 .. n : OptionTexts[q][i] = OptionTexts[q][j] => i = j
           /\ \A i \in 1 .. n : /\ OptionTexts[q][i] # Null
                                /\ \A k \in DOMAIN Letters : OptionTexts[q][i] # Letters[k]
  <1> DEFINE texts == OptionTexts[q]
  <1>1. /\ texts \in Seq(Range(texts)) /\ IsInjective(texts)
        /\ Len(texts) <= Len(Letters)
        /\ Range(texts) \cap (Range(Letters) \cup {Null}) = {}
        /\ Letters \in Seq(Range(Letters))
    BY QuizAssumption
  <1>2. \A i \in DOMAIN texts : texts[i] \in Range(texts)
    BY DEF Range
  <1>3. \A k \in DOMAIN Letters : Letters[k] \in Range(Letters)
    BY DEF Range
  <1>4. /\ Len(texts) \in Nat /\ DOMAIN texts = 1 .. Len(texts)
        /\ Len(Letters) \in Nat /\ DOMAIN Letters = 1 .. Len(Letters)
    BY <1>1
  <1>5. \A i, j \in DOMAIN texts : texts[i] = texts[j] => i = j
    BY <1>1 DEF IsInjective
  <1>6. 1 .. Len(texts) \subseteq DOMAIN Letters
    BY <1>1, <1>4
  <1> QED
    BY <1>1, <1>2, <1>3, <1>4, <1>5, <1>6

\* The letters differ from one another and from null.
LEMMA LettersDiffer ==
  /\ \A k, l \in DOMAIN Letters : Letters[k] = Letters[l] => k = l
  /\ \A k \in DOMAIN Letters : Letters[k] # Null /\ k \in Nat
  <1>1. \A k \in DOMAIN Letters : Letters[k] \in Range(Letters)
    BY DEF Range
  <1>2. /\ Letters \in Seq(Range(Letters))
        /\ IsInjective(Letters) /\ Null \notin Range(Letters)
    BY QuizAssumption
  <1>3. \A k, l \in DOMAIN Letters : Letters[k] = Letters[l] => k = l
    BY <1>2 DEF IsInjective
  <1> QED
    BY <1>1, <1>2, <1>3

\* options.sort_by(option_id), of lettered options: there is one order of the letters.
LEMMA LettersSorted ==
  ASSUME NEW q \in Questions, NEW s \in Orders(InLetters(q))
  PROVE  InOrder(s) = InLetters(q)
  <1> DEFINE L == InLetters(q)
  <1>1. PICK n \in Nat : DOMAIN OptionTexts[q] = 1 .. n /\ 1 .. n \subseteq DOMAIN Letters
    BY Offered
  <1>2. /\ L = [i \in 1 .. n |-> L[i]] /\ DOMAIN L = 1 .. n
        /\ \A i \in 1 .. n : L[i].id = Letters[i]
    BY <1>1 DEF InLetters, Lettered
  <1> HIDE DEF L
  <1>3. s \in Orders(L)
    BY DEF L
  <1>4. L \in Orders(s)
    BY <1>2, <1>3, OrderBack
  <1>5. Ordered(L)
    <2> SUFFICES ASSUME NEW i \in 1 .. n, NEW j \in 1 .. n,
                        NEW k \in DOMAIN Letters, NEW l \in DOMAIN Letters,
                        L[i].id = Letters[k], L[j].id = Letters[l], k < l
                 PROVE  i < j
      BY <1>2 DEF Ordered
    <2>1. i = k /\ j = l
      BY <1>1, <1>2, LettersDiffer
    <2> QED
      BY <2>1
  <1>6. InOrder(s) = CHOOSE t \in Orders(s) : Ordered(t)
    BY DEF InOrder, Ordered
  <1>7. InOrder(s) \in Orders(s) /\ Ordered(InOrder(s))
    BY <1>4, <1>5, <1>6
  <1>8. ASSUME NEW t \in Orders(s), Ordered(t) PROVE t = L
    <2>1. t \in Orders(L)
      BY <1>2, <1>3, OrderOfOrder
    <2>2. PICK p \in Bijection(1 .. n, 1 .. n) : t = [i \in 1 .. n |-> L[p[i]]]
      BY <1>2, <2>1 DEF Orders
    <2>3. /\ p \in [1 .. n -> 1 .. n]
          /\ \A i, j \in 1 .. n : p[i] = p[j] => i = j
          /\ \A m \in 1 .. n : \E i \in 1 .. n : p[i] = m
      BY <2>2, Permutes
    <2>4. \A i, j \in 1 .. n : p[i] < p[j] => i < j
      <3> SUFFICES ASSUME NEW i \in 1 .. n, NEW j \in 1 .. n, p[i] < p[j] PROVE i < j
        OBVIOUS
      <3>1. p[i] \in 1 .. n /\ p[j] \in 1 .. n
        BY <2>3
      <3>2. p[i] \in DOMAIN Letters /\ p[j] \in DOMAIN Letters
        BY <1>1, <3>1
      <3>3. t[i].id = Letters[p[i]] /\ t[j].id = Letters[p[j]]
        BY <1>2, <2>2, <3>1
      <3>4. i \in DOMAIN t /\ j \in DOMAIN t
        BY <2>2
      <3> QED
        BY <1>8, <3>2, <3>3, <3>4 DEF Ordered
    <2>5. \A i \in 1 .. n : p[i] = i
      BY <2>3, <2>4, InOrderIsStill
    <2> QED
      BY <1>2, <2>2, <2>5
  <1> QED
    BY <1>7, <1>8 DEF L

\* Strings that are no letters are in order as they stand.
LEMMA StringsSorted ==
  ASSUME NEW q \in Questions, NEW t \in Orders(AsStrings(q))
  PROVE  InOrder(t) \in Orders(t)
  <1> DEFINE S == AsStrings(q)
  <1>1. PICK n \in Nat : /\ DOMAIN OptionTexts[q] = 1 .. n
                         /\ \A i \in 1 .. n : \A k \in DOMAIN Letters :
                              OptionTexts[q][i] # Letters[k]
    BY Offered
  <1>2. S = [i \in 1 .. n |-> S[i]] /\ DOMAIN S = 1 .. n
        /\ \A i \in 1 .. n : S[i].id = OptionTexts[q][i]
    BY <1>1 DEF AsStrings, AsString
  <1>3. InOrder(t) = CHOOSE u \in Orders(t) : Ordered(u)
    BY DEF InOrder, Ordered
  <1> HIDE DEF S
  <1>4. t \in Orders(S)
    BY DEF S
  <1>5. S \in Orders(t)
    BY <1>2, <1>4, OrderBack
  <1>6. Ordered(S)
    BY <1>1, <1>2 DEF Ordered
  <1> QED
    BY <1>3, <1>5, <1>6

\* What is graded against row: each of its ids shows the text beside it, no two options
\* share a text, and the author's answer is one of them.
Gradable(row) ==
  /\ \E n \in Nat : row.options = [i \in 1 .. n |-> row.options[i]]
  /\ \A i \in DOMAIN row.options :
       /\ GetOptionText(row, row.options[i].id) = row.options[i].text
       /\ row.options[i].id # Null /\ row.options[i].text # Null
       /\ \A j \in DOMAIN row.options :
            \/ i = j
            \/ /\ row.options[i].id # row.options[j].id
               /\ row.options[i].text # row.options[j].text
  /\ \E i \in DOMAIN row.options : row.correctAnswer = row.options[i].id
  /\ GetOptionText(row, Null) = Null
  /\ \A t \in Orders(row.options) : InOrder(t) \in Orders(t)
  /\ PointsOf(row) \in Nat \ {0}

\* The least of one number.
LEMMA MinOfOne == ASSUME NEW k \in Nat PROVE Min({k}) = k
  BY DEF Min

\* The points of a row are positive, one where the row has none.
LEMMA Points ==
  ASSUME NEW row, row.points \in PointsChoices
  PROVE  PointsOf(row) \in Nat \ {0}
  <1>1. CASE row.points = {}
    BY <1>1 DEF PointsOf
  <1>2. CASE row.points # {}
    <2>1. PICK k \in row.points : row.points = {k}
      BY <1>2, QuizAssumption
    <2>2. k \in Nat \ {0}
      BY <2>1, QuizAssumption
    <2>3. Max({k}) = k
      BY <2>2 DEF Max
    <2> QED
      BY <1>2, <2>1, <2>2, <2>3 DEF PointsOf
  <1> QED
    BY <1>1, <1>2

\* A row with lettered options names one correct option, by its text.
LEMMA LetteredIsGradable ==
  ASSUME NEW q \in Questions, NEW s \in Orders(InLetters(q)), NEW c \in DOMAIN s,
         NEW row, row.options = s, row.correctAnswer = s[c].id, row.points \in PointsChoices
  PROVE  Gradable(row)
  <1> DEFINE L == InLetters(q)
             T == OptionTexts[q]
  <1>1. PICK n \in Nat :
          /\ DOMAIN T = 1 .. n /\ 1 .. n \subseteq DOMAIN Letters
          /\ \A i, j \in 1 .. n : T[i] = T[j] => i = j
          /\ \A i \in 1 .. n : T[i] # Null /\ \A k \in DOMAIN Letters : T[i] # Letters[k]
    BY Offered
  <1>2. /\ L = [i \in 1 .. n |-> L[i]] /\ DOMAIN L = 1 .. n
        /\ \A i \in 1 .. n : L[i].id = Letters[i] /\ L[i].text = T[i]
    BY <1>1 DEF InLetters, Lettered
  <1>3. InOrder(s) = L
    BY LettersSorted
  <1>4. \A t \in Orders(s) : InOrder(t) \in Orders(t)
    <2> SUFFICES ASSUME NEW t \in Orders(s) PROVE InOrder(t) \in Orders(t)
      OBVIOUS
    <2> HIDE DEF L
    <2>1. s \in Orders(L)
      BY DEF L
    <2>2. t \in Orders(L)
      BY <1>2, <2>1, OrderOfOrder
    <2>3. InOrder(t) = L
      BY <2>2, LettersSorted DEF L
    <2>4. L \in Orders(t)
      BY <1>2, <2>2, OrderBack
    <2> QED
      BY <2>3, <2>4
  <1> HIDE DEF L, T
  <1>5. s \in Orders(L)
    BY DEF L
  <1>6. PICK p \in Bijection(1 .. n, 1 .. n) : s = [i \in 1 .. n |-> L[p[i]]]
    BY <1>2, <1>5 DEF Orders
  <1>7. /\ p \in [1 .. n -> 1 .. n]
        /\ \A i, j \in 1 .. n : p[i] = p[j] => i = j
    BY <1>6, Permutes
  <1>8. \A i \in 1 .. n : /\ p[i] \in 1 .. n /\ p[i] \in DOMAIN Letters
                          /\ s[i].id = Letters[p[i]] /\ s[i].text = T[p[i]]
    BY <1>1, <1>2, <1>6, <1>7
  <1>9. DOMAIN s = 1 .. n
    BY <1>6
  <1>10. ASSUME NEW i \in 1 .. n PROVE GetOptionText(row, s[i].id) = s[i].text
    <2> DEFINE at == {k \in DOMAIN Letters : Letters[k] = s[i].id} \cap DOMAIN s
    <2>1. at = {p[i]}
      BY <1>8, <1>9, LettersDiffer
    <2>2. Min(at) = p[i]
      BY <1>8, <2>1, MinOfOne
    <2>3. GetOptionText(row, s[i].id) = InOrder(s)[Min(at)].text
      BY <2>1 DEF GetOptionText
    <2> QED
      BY <1>2, <1>3, <1>8, <2>2, <2>3
  <1>11. ASSUME NEW i \in 1 .. n, NEW j \in 1 .. n, i # j
         PROVE  s[i].id # s[j].id /\ s[i].text # s[j].text
    <2>1. p[i] \in 1 .. n /\ p[j] \in 1 .. n /\ p[i] # p[j]
      BY ONLY <1>7, <1>11
    <2>2. Letters[p[i]] # Letters[p[j]]
      BY <1>8, <2>1, LettersDiffer
    <2>3. T[p[i]] # T[p[j]]
      BY ONLY <1>1, <2>1
    <2> QED
      BY ONLY <1>8, <2>2, <2>3
  <1>12. \A i \in 1 .. n : s[i].id # Null /\ s[i].text # Null
    BY <1>1, <1>8, LettersDiffer
  <1>13. GetOptionText(row, Null) = Null
    <2>1. {k \in DOMAIN Letters : Letters[k] = Null} = {}
      BY LettersDiffer
    <2>2. {i \in DOMAIN s : s[i].object /\ s[i].id = Null} = {}
      BY <1>9, <1>12
    <2> QED
      BY <2>1, <2>2 DEF GetOptionText
  <1>14. s = [i \in 1 .. n |-> s[i]]
    BY <1>6
  <1> QED
    BY <1>4, <1>9, <1>10, <1>11, <1>12, <1>13, <1>14, Points DEF Gradable

\* A row with options as plain strings names one correct option, by its text.
LEMMA StringsAreGradable ==
  ASSUME NEW q \in Questions, NEW c \in DOMAIN AsStrings(q),
         NEW row, row.options = AsStrings(q), row.correctAnswer = AsStrings(q)[c].id,
         row.points \in PointsChoices
  PROVE  Gradable(row)
  <1> DEFINE S == AsStrings(q)
             T == OptionTexts[q]
  <1>1. PICK n \in Nat :
          /\ DOMAIN T = 1 .. n
          /\ \A i, j \in 1 .. n : T[i] = T[j] => i = j
          /\ \A i \in 1 .. n : T[i] # Null /\ \A k \in DOMAIN Letters : T[i] # Letters[k]
    BY Offered
  <1>2. /\ S = [i \in 1 .. n |-> S[i]] /\ DOMAIN S = 1 .. n
        /\ \A i \in 1 .. n : S[i].id = T[i] /\ S[i].text = T[i] /\ S[i].object = FALSE
    BY <1>1 DEF AsStrings, AsString
  <1>3. \A t \in Orders(S) : InOrder(t) \in Orders(t)
    BY StringsSorted
  <1>4. row.options = S /\ row.correctAnswer = S[c].id /\ c \in DOMAIN S
    OBVIOUS
  <1> HIDE DEF S, T
  <1>5. {i \in DOMAIN S : S[i].object /\ S[i].id = Null} = {}
    BY <1>2
  <1>6. GetOptionText(row, Null) = Null
    <2>1. {k \in DOMAIN Letters : Letters[k] = Null} = {}
      BY LettersDiffer
    <2> QED
      BY <1>4, <1>5, <2>1 DEF GetOptionText
  <1>7. ASSUME NEW i \in 1 .. n PROVE GetOptionText(row, S[i].id) = S[i].text
    <2>1. {k \in DOMAIN Letters : Letters[k] = S[i].id} = {}
      BY <1>1, <1>2
    <2>2. {j \in DOMAIN S : S[j].object /\ S[j].id = S[i].id} = {}
      BY <1>2
    <2> QED
      BY <1>2, <1>4, <2>1, <2>2 DEF GetOptionText
  <1>8. \A i, j \in 1 .. n : i # j => S[i].id # S[j].id /\ S[i].text # S[j].text
    BY <1>1, <1>2
  <1>9. \A i \in 1 .. n : S[i].id # Null /\ S[i].text # Null
    BY <1>1, <1>2
  <1> QED
    BY <1>2, <1>3, <1>4, <1>6, <1>7, <1>8, <1>9, Points DEF Gradable

\* Every row that an author may store can be graded.
LEMMA RowsAreGradable ==
  ASSUME NEW q \in Questions, NEW row \in QuizRows(q)
  PROVE  Gradable(row)
  <1>1. PICK s \in Orders(InLetters(q)) \cup {AsStrings(q)} :
          \E i \in DOMAIN s, points \in PointsChoices :
            row = [options |-> s, correctAnswer |-> s[i].id, points |-> points]
    BY SMTT(30) DEF QuizRows, InLetters, AsStrings
  <1>2. PICK i \in DOMAIN s, points \in PointsChoices :
          row = [options |-> s, correctAnswer |-> s[i].id, points |-> points]
    BY <1>1
  <1>3. row.options = s /\ row.correctAnswer = s[i].id /\ row.points \in PointsChoices
    BY <1>2
  <1>4. CASE s \in Orders(InLetters(q))
    BY <1>3, <1>4, LetteredIsGradable
  <1>5. CASE s = AsStrings(q)
    BY <1>3, <1>5, StringsAreGradable
  <1> QED
    BY <1>1, <1>4, <1>5

\* The pairs that SumOver counts.
Pile(S, w) == UNION {{x} \X (1 .. w[x]) : x \in S}

\* x lies in the pile as often as it weighs.
LEMMA InPile ==
  ASSUME NEW S, NEW w \in [S -> Nat], NEW x, NEW k
  PROVE  <<x, k>> \in Pile(S, w) <=> x \in S /\ k \in 1 .. w[x]
  BY DEF Pile

\* A finite set's pile is finite.
LEMMA PileIsFinite ==
  ASSUME NEW S, IsFiniteSet(S), NEW w \in [S -> Nat]
  PROVE  IsFiniteSet(Pile(S, w)) /\ Cardinality(Pile(S, w)) \in Nat
  <1> DEFINE P == {{x} \X (1 .. w[x]) : x \in S}
             g == [x \in S |-> {x} \X (1 .. w[x])]
  <1>1. g \in Surjection(S, P)
    BY DEF Surjection
  <1>2. IsFiniteSet(P)
    BY <1>1, FS_Surjection
  <1>3. ASSUME NEW p \in P PROVE IsFiniteSet(p)
    <2>1. PICK x \in S : p = {x} \X (1 .. w[x])
      OBVIOUS
    <2>2. IsFiniteSet({x})
      BY FS_Singleton
    <2>3. w[x] \in Int
      OBVIOUS
    <2>4. IsFiniteSet(1 .. w[x])
      BY <2>3, FS_Interval
    <2> QED
      BY <2>1, <2>2, <2>4, FS_Product
  <1>4. Pile(S, w) = UNION P
    BY DEF Pile
  <1> HIDE DEF P
  <1>5. IsFiniteSet(UNION P)
    BY <1>2, <1>3, FS_UNION
  <1> QED
    BY <1>4, <1>5, FS_CardinalityType

\* Of two weights, one nowhere more than the other, the sums are as the weights: equal
\* if no weight differs.
LEMMA SumsCompare ==
  ASSUME NEW S, IsFiniteSet(S), NEW v \in [S -> Nat], NEW w \in [S -> Nat],
         \A x \in S : v[x] <= w[x]
  PROVE  /\ Cardinality(Pile(S, v)) <= Cardinality(Pile(S, w))
         /\ Cardinality(Pile(S, v)) = Cardinality(Pile(S, w)) <=> v = w
  <1>1. Pile(S, v) \subseteq Pile(S, w)
    <2> SUFFICES ASSUME NEW x \in S, NEW k \in 1 .. v[x]
                 PROVE  k \in 1 .. w[x]
      BY DEF Pile
    <2>1. v[x] \in Nat /\ w[x] \in Nat /\ v[x] <= w[x]
      OBVIOUS
    <2> QED
      BY <2>1
  <1>2. IsFiniteSet(Pile(S, w))
    BY PileIsFinite
  <1>3. /\ Cardinality(Pile(S, v)) <= Cardinality(Pile(S, w))
        /\ Cardinality(Pile(S, w)) = Cardinality(Pile(S, v)) => Pile(S, w) = Pile(S, v)
    BY <1>1, <1>2, FS_Subset
  <1>4. ASSUME Pile(S, v) = Pile(S, w), NEW x \in S PROVE v[x] = w[x]
    <2>1. v[x] \in Nat /\ w[x] \in Nat /\ v[x] <= w[x]
      OBVIOUS
    <2>2. SUFFICES ASSUME v[x] < w[x] PROVE FALSE
      BY <2>1
    <2>3. <<x, w[x]>> \in Pile(S, w)
      BY <2>1, <2>2, InPile
    <2>4. w[x] \in 1 .. v[x]
      BY <1>4, <2>3, InPile
    <2> QED
      BY <2>1, <2>2, <2>4
  <1> QED
    BY <1>3, <1>4

\* A pile with one weight in it is not empty.
LEMMA SumIsPositive ==
  ASSUME NEW S, IsFiniteSet(S), NEW w \in [S -> Nat], NEW x \in S, w[x] # 0
  PROVE  Cardinality(Pile(S, w)) # 0
  <1>1. w[x] \in Nat
    OBVIOUS
  <1>2. <<x, 1>> \in Pile(S, w)
    BY <1>1, InPile
  <1>3. IsFiniteSet(Pile(S, w))
    BY PileIsFinite
  <1> QED
    BY <1>2, <1>3, FS_EmptySet

\* Division with remainder.
LEMMA Divided ==
  ASSUME NEW a \in Nat, NEW d \in Nat, d > 0
  PROVE  /\ a \div d \in Nat
         /\ (a \div d) * d <= a
         /\ a < (a \div d) * d + d
  OBVIOUS

\* The remainder, too, is what it should be.
LEMMA Remains ==
  ASSUME NEW a \in Nat, NEW d \in Nat, d > 0
  PROVE  a % d = a - (a \div d) * d
  OBVIOUS

\* The score is the percentage, rounded to a nearest whole number.
LEMMA ScoreRounds ==
  ASSUME NEW earned \in Nat, NEW total \in Nat, total > 0, earned <= total,
         NEW score \in Scores(earned, total)
  PROVE  /\ score \in Int
         /\ 2 * score * total <= 200 * earned + total
         /\ 200 * earned <= 2 * score * total + total
         /\ total < 200 => (score = 100 <=> earned = total)
  <1> DEFINE a == 200 * earned + total
             d == 2 * total
             up == a \div d
  <1>1. score = up \/ (score = up - 1 /\ a % d = 0)
    BY DEF Scores
  <1>2. a \in Nat /\ d \in Nat /\ d > 0
    OBVIOUS
  <1> HIDE DEF a, d
  <1>3. PICK s \in Nat : s = up /\ s * d <= a /\ a < s * d + d /\ (a % d = 0 => a = s * d)
    <2>1. a % d = a - up * d
      BY <1>2, Remains
    <2> QED
      BY <1>2, <2>1, Divided
  <1> HIDE DEF up
  <1>4. PICK m \in Nat : m = s * total
    OBVIOUS
  <1>5. s * d = 2 * m /\ 2 * s * total = 2 * m
    BY <1>4 DEF d
  <1>6. 2 * m <= 200 * earned + total /\ 200 * earned + total < 2 * m + 2 * total
    BY <1>3, <1>5 DEF a, d
  <1>7. s = 100 => m = 100 * total
    BY <1>4
  <1>8. s < 100 => m + total <= 100 * total
    <2>1. s < 100 => (s + 1) * total <= 100 * total
      OBVIOUS
    <2>2. (s + 1) * total = m + total
      BY <1>4
    <2> QED
      BY <2>1, <2>2
  <1>9. s > 100 => m >= 101 * total
    BY <1>4
  <1>10. total < 200 /\ s = 100 => earned = total
    BY <1>6, <1>7
  <1>11. earned = total => s = 100
    BY <1>6, <1>8, <1>9
  <1>12. CASE score = up
    BY <1>3, <1>5, <1>6, <1>10, <1>11, <1>12
  <1>13. CASE score = up - 1 /\ a % d = 0
    <2>1. score = s - 1 /\ 2 * m = 200 * earned + total
      BY <1>3, <1>5, <1>13 DEF a
    <2>2. 2 * score * total = 2 * m - 2 * total
      BY <1>4, <2>1
    <2>3. earned # total
      <3>1. earned = total => 2 * m = 201 * total /\ m = 100 * total
        BY <1>7, <1>11, <2>1
      <3> QED
        BY <3>1
    <2>4. total < 200 => score # 100
      <3>1. s = 101 => m = 101 * total
        BY <1>4
      <3>2. s = 101 => 200 * earned = 201 * total
        BY <2>1, <3>1
      <3> QED
        BY <2>1, <3>2
    <2>5. score \in Int
      BY <2>1
    <2> QED
      BY <2>1, <2>2, <2>3, <2>4, <2>5
  <1> QED
    BY <1>1, <1>12, <1>13

\* The row is of the author's making, the page shows an order of it, what was picked is
\* an option, and the result that of the answers.
QuizInv ==
  /\ phase \in {"draft", "stored", "shown", "graded"}
  /\ answers = [q \in Questions |-> answers[q]]
  /\ phase \in {"draft", "stored"} => \A q \in Questions : answers[q] = Null
  /\ phase # "draft" => \A q \in Questions : Gradable(quiz[q])
  /\ phase \in {"shown", "graded"} =>
       \A q \in Questions :
         /\ shown[q] \in Orders(quiz[q].options)
         /\ answers[q] # Null =>
              \E i \in DOMAIN quiz[q].options : answers[q] = quiz[q].options[i].id
  /\ phase = "graded" => result \in GradeQuiz(answers)

\* Picking an option records the text that was shown under it.
LEMMA PickInv == ASSUME QuizInv, NEW q \in Questions, Pick(q) PROVE QuizInv'
  <1>1. PICK i \in DOMAIN shown[q] :
          answers' = [answers EXCEPT ![q] = InOrder(shown[q])[i].id]
    BY DEF Pick
  <1>2. /\ phase = "shown" /\ phase' = phase /\ quiz' = quiz /\ shown' = shown
        /\ answers' = [x \in Questions |-> answers'[x]]
        /\ \A x \in Questions \ {q} : answers'[x] = answers[x]
        /\ answers'[q] = InOrder(shown[q])[i].id
    BY <1>1 DEF Pick, QuizInv
  <1>3. Gradable(quiz[q]) /\ shown[q] \in Orders(quiz[q].options)
    BY <1>2 DEF QuizInv
  <1>4. PICK n \in Nat : quiz[q].options = [j \in 1 .. n |-> quiz[q].options[j]]
    BY <1>3 DEF Gradable
  <1>5. DOMAIN quiz[q].options = 1 .. n
    BY <1>4
  <1>6. DOMAIN shown[q] = 1 .. n
    BY <1>3, <1>5, OrderOf
  <1>7. InOrder(shown[q]) \in Orders(shown[q])
    BY <1>3 DEF Gradable
  <1>8. InOrder(shown[q]) \in Orders(quiz[q].options)
    BY <1>3, <1>5, <1>7, OrderOfOrder
  <1>9. PICK p \in Bijection(1 .. n, 1 .. n) :
          \A j \in 1 .. n : InOrder(shown[q])[j] = quiz[q].options[p[j]]
    BY <1>5, <1>8 DEF Orders
  <1>10. p \in [1 .. n -> 1 .. n]
    BY Permutes
  <1>11. p[i] \in DOMAIN quiz[q].options /\ answers'[q] = quiz[q].options[p[i]].id
    BY <1>2, <1>5, <1>6, <1>9, <1>10
  <1> QED
    BY <1>2, <1>11 DEF QuizInv

\* Every step of a quiz keeps its invariant.
LEMMA QuizStep == QuizInv /\ [QuizNext]_quizVars => QuizInv'
  <1> SUFFICES ASSUME QuizInv, [QuizNext]_quizVars PROVE QuizInv'
    OBVIOUS
  <1>1. CASE Author
    <2>1. \A q \in Questions : quiz'[q] \in QuizRows(q)
      BY <1>1 DEF Author
    <2>2. \A q \in Questions : Gradable(quiz'[q])
      BY <2>1, RowsAreGradable
    <2>3. phase = "draft" /\ phase' = "stored" /\ answers' = answers
      BY <1>1 DEF Author
    <2> QED
      BY <2>2, <2>3 DEF QuizInv
  <1>2. CASE QuizAttempt
    <2>1. \A q \in Questions : shown'[q] \in Orders(quiz[q].options)
      BY <1>2 DEF QuizAttempt
    <2>2. phase = "stored" /\ phase' = "shown" /\ answers' = answers /\ quiz' = quiz
      BY <1>2 DEF QuizAttempt
    <2> QED
      BY <2>1, <2>2 DEF QuizInv
  <1>3. CASE Submit
    <2>1. /\ phase = "shown" /\ phase' = "graded"
          /\ answers' = answers /\ quiz' = quiz /\ shown' = shown
          /\ result' \in GradeQuiz(answers)
      BY <1>3 DEF Submit
    <2>2. GradeQuiz(answers)' = GradeQuiz(answers)
      BY <2>1 DEF GradeQuiz, SumOver
    <2> QED
      BY <2>1, <2>2 DEF QuizInv
  <1>4. CASE \E q \in Questions : Pick(q)
    BY <1>4, PickInv
  <1>5. CASE UNCHANGED quizVars
    <2>1. GradeQuiz(answers)' = GradeQuiz(answers)
      BY <1>5 DEF quizVars, GradeQuiz, SumOver
    <2> QED
      BY <1>5, <2>1 DEF quizVars, QuizInv
  <1> QED
    BY <1>1, <1>2, <1>3, <1>4, <1>5 DEF QuizNext

\* The text beside what was picked is the text the result shows.
LEMMA ReadIsShown ==
  ASSUME QuizInv, phase = "graded", NEW q \in Questions
  PROVE  GetOptionText(quiz[q], answers[q]) = ReadOnPage(q)
  <1> DEFINE options == quiz[q].options
             o == {shown[q][i] : i \in DOMAIN shown[q]}
  <1>1. Gradable(quiz[q]) /\ shown[q] \in Orders(options)
    BY DEF QuizInv
  <1>2. CASE answers[q] = Null
    BY <1>1, <1>2 DEF Gradable, ReadOnPage
  <1>3. CASE answers[q] # Null
    <2>1. PICK i \in DOMAIN options : answers[q] = options[i].id
      BY <1>3 DEF QuizInv
    <2>2. PICK n \in Nat : options = [j \in 1 .. n |-> options[j]]
      BY <1>1 DEF Gradable
    <2>3. DOMAIN options = 1 .. n
      BY <2>2
    <2>4. PICK p \in Bijection(1 .. n, 1 .. n) :
            /\ DOMAIN shown[q] = 1 .. n
            /\ \A j \in 1 .. n : shown[q][j] = options[p[j]]
      BY <1>1, <2>3 DEF Orders
    <2> HIDE DEF options, o
    <2>10. /\ p \in [1 .. n -> 1 .. n]
           /\ \A m \in 1 .. n : \E j \in 1 .. n : p[j] = m
      BY Permutes
    <2>5. options[i] \in o
      <3>1. PICK j \in 1 .. n : p[j] = i
        BY <2>1, <2>3, <2>10
      <3> QED
        BY <2>4, <3>1 DEF o
    <2>6. ASSUME NEW x \in o, x.id = answers[q] PROVE x.text = options[i].text
      <3>1. PICK j \in 1 .. n : x = shown[q][j]
        BY <2>4 DEF o
      <3>2. p[j] \in DOMAIN options /\ x = options[p[j]]
        BY <2>3, <2>4, <2>10, <3>1
      <3>3. p[j] = i
        BY <1>1, <2>1, <2>6, <3>2 DEF Gradable, options
      <3> QED
        BY <3>2, <3>3
    <2>7. ReadOnPage(q) = (CHOOSE x \in o : x.id = answers[q]).text
      BY <1>3 DEF ReadOnPage, o
    <2>8. ReadOnPage(q) = options[i].text
      BY <2>1, <2>5, <2>6, <2>7
    <2>9. GetOptionText(quiz[q], answers[q]) = options[i].text
      BY <1>1, <2>1 DEF Gradable, options
    <2> QED
      BY <2>8, <2>9
  <1> QED
    BY <1>2, <1>3

\* Right exactly if the texts are the same; the author's text is that of an option.
LEMMA RightIsSameText ==
  ASSUME QuizInv, phase = "graded", NEW q \in Questions
  PROVE  LET correct == quiz[q].correctAnswer
             options == quiz[q].options
         IN  /\ answers[q] = correct
                  <=> GetOptionText(quiz[q], answers[q]) = GetOptionText(quiz[q], correct)
             /\ \E i \in DOMAIN options : /\ options[i].id = correct
                                          /\ options[i].text = GetOptionText(quiz[q], correct)
  <1> DEFINE options == quiz[q].options
             correct == quiz[q].correctAnswer
  <1>1. Gradable(quiz[q])
    BY DEF QuizInv
  <1>2. PICK c \in DOMAIN options : correct = options[c].id
    BY <1>1 DEF Gradable
  <1>3. GetOptionText(quiz[q], correct) = options[c].text /\ options[c].text # Null
    BY <1>1, <1>2 DEF Gradable
  <1>4. CASE answers[q] = Null
    <2>1. GetOptionText(quiz[q], answers[q]) = Null /\ correct # Null
      BY <1>1, <1>2, <1>4 DEF Gradable
    <2> QED
      BY <1>2, <1>3, <1>4, <2>1
  <1>5. CASE answers[q] # Null
    <2>1. PICK i \in DOMAIN options : answers[q] = options[i].id
      BY <1>5 DEF QuizInv
    <2>2. GetOptionText(quiz[q], answers[q]) = options[i].text
      BY <1>1, <2>1 DEF Gradable
    <2>3. i = c \/ (options[i].id # options[c].id /\ options[i].text # options[c].text)
      BY <1>1 DEF Gradable
    <2> QED
      BY <1>2, <1>3, <2>1, <2>2, <2>3
  <1> QED
    BY <1>4, <1>5

\* From the invariant, what the result shows is what was picked and what is right.
LEMMA GradedRightly == QuizInv => GradedAsPicked
  <1> SUFFICES ASSUME QuizInv, phase = "graded" PROVE GradedAsPicked
    BY DEF GradedAsPicked
  <1> DEFINE Right == {q \in Questions : answers[q] = quiz[q].correctAnswer}
             worth == [q \in Questions |-> PointsOf(quiz[q])]
             gained == [q \in Questions |-> IF q \in Right THEN worth[q] ELSE 0]
             total == Cardinality(Pile(Questions, worth))
             earned == Cardinality(Pile(Questions, gained))
  <1>1. IsFiniteSet(Questions) /\ \E q \in Questions : TRUE
    BY QuizAssumption
  <1>2. \A q \in Questions : PointsOf(quiz[q]) \in Nat \ {0}
    BY DEF QuizInv, Gradable
  <1>3. /\ worth \in [Questions -> Nat] /\ gained \in [Questions -> Nat]
        /\ \A q \in Questions : gained[q] <= worth[q]
    BY <1>2
  <1>4. gained = worth <=> Right = Questions
    BY <1>2
  <1>5. /\ result \in GradeQuiz(answers)
        /\ result.score \in Scores(earned, total)
        /\ result.passed = (result.score >= PassingScore)
        /\ result.correctCount = Cardinality(Right)
        /\ \A q \in Questions :
             /\ result.results[q].correct = (answers[q] = quiz[q].correctAnswer)
             /\ result.results[q].userAnswer = GetOptionText(quiz[q], answers[q])
             /\ result.results[q].correctAnswer =
                  GetOptionText(quiz[q], quiz[q].correctAnswer)
    <2>1. /\ result \in GradeQuiz(answers)
          /\ gained = [q \in Questions |->
                         IF answers[q] = quiz[q].correctAnswer THEN PointsOf(quiz[q]) ELSE 0]
      BY DEF QuizInv
    <2>2. earned = SumOver(gained) /\ total = SumOver(worth)
      BY DEF SumOver, Pile
    <2>3. PICK score \in Scores(SumOver(gained), SumOver(worth)) :
            result =
              [ score |-> score,
                passed |-> score >= PassingScore,
                correctCount |-> Cardinality(Right),
                results |-> [q \in Questions |->
                  [ correct |-> answers[q] = quiz[q].correctAnswer,
                    userAnswer |-> GetOptionText(quiz[q], answers[q]),
                    correctAnswer |-> GetOptionText(quiz[q], quiz[q].correctAnswer),
                    points |-> gained[q] ]] ]
      <3>1. worth = [q \in Questions |-> PointsOf(quiz[q])]
        OBVIOUS
      <3> HIDE DEF worth, gained
      <3> QED
        BY <2>1, <3>1 DEF GradeQuiz
    <2> HIDE DEF worth, gained, total, earned, Right
    <2> QED
      BY <2>1, <2>2, <2>3
  <1> HIDE DEF worth, gained
  <1>6. total \in Nat /\ total # 0 /\ earned \in Nat /\ earned <= total
        /\ (earned = total <=> gained = worth)
    <2>1. \A q \in Questions : worth[q] # 0
      BY <1>2 DEF worth
    <2> QED
      BY <1>1, <1>3, <2>1, PileIsFinite, SumsCompare, SumIsPositive
  <1>7. Cardinality(Right) = Cardinality(Questions) <=> Right = Questions
    BY <1>1, FS_Subset
  <1>8. ASSUME NEW q \in Questions
        PROVE  LET r == result.results[q]
               IN  /\ r.userAnswer = ReadOnPage(q)
                   /\ r.correct <=> r.userAnswer = r.correctAnswer
                   /\ \E i \in DOMAIN quiz[q].options :
                        /\ quiz[q].options[i].id = quiz[q].correctAnswer
                        /\ quiz[q].options[i].text = r.correctAnswer
    <2>1. /\ result.results[q].correct = (answers[q] = quiz[q].correctAnswer)
          /\ result.results[q].userAnswer = GetOptionText(quiz[q], answers[q])
          /\ result.results[q].correctAnswer = GetOptionText(quiz[q], quiz[q].correctAnswer)
      BY <1>5
    <2>2. GetOptionText(quiz[q], answers[q]) = ReadOnPage(q)
      BY ReadIsShown
    <2>3. /\ answers[q] = quiz[q].correctAnswer
               <=> GetOptionText(quiz[q], answers[q]) =
                     GetOptionText(quiz[q], quiz[q].correctAnswer)
          /\ \E i \in DOMAIN quiz[q].options :
               /\ quiz[q].options[i].id = quiz[q].correctAnswer
               /\ quiz[q].options[i].text = GetOptionText(quiz[q], quiz[q].correctAnswer)
      BY RightIsSameText
    <2> QED
      BY ONLY <2>1, <2>2, <2>3
  <1>9. /\ total = SumOver([q \in Questions |-> PointsOf(quiz[q])])
        /\ earned = SumOver([q \in Questions |->
                              IF result.results[q].correct THEN PointsOf(quiz[q]) ELSE 0])
    <2>1. gained = [q \in Questions |->
                      IF result.results[q].correct THEN PointsOf(quiz[q]) ELSE 0]
      BY <1>5 DEF gained, worth
    <2> QED
      BY <2>1 DEF SumOver, Pile, worth
  <1> HIDE DEF total, earned
  <1>10. /\ 2 * result.score * total <= 200 * earned + total
         /\ 200 * earned <= 2 * result.score * total + total
         /\ total < 200 =>
              (result.score = 100 <=> result.correctCount = Cardinality(Questions))
    <2>1. total > 0
      BY <1>6
    <2> QED
      <3>1. /\ 2 * result.score * total <= 200 * earned + total
            /\ 200 * earned <= 2 * result.score * total + total
            /\ total < 200 => (result.score = 100 <=> earned = total)
        <4>1. result.score \in Scores(earned, total)
          BY <1>5
        <4>2. earned \in Nat /\ total \in Nat /\ total > 0 /\ earned <= total
          BY <1>6, <2>1
        <4>3. PICK score \in Scores(earned, total) : score = result.score
          BY <4>1
        <4>4. /\ 2 * score * total <= 200 * earned + total
              /\ 200 * earned <= 2 * score * total + total
              /\ total < 200 => (score = 100 <=> earned = total)
          BY ONLY <4>2, score \in Scores(earned, total), ScoreRounds
        <4> QED
          BY ONLY <4>3, <4>4
      <3>2. earned = total <=> Cardinality(Right) = Cardinality(Questions)
        BY <1>4, <1>6, <1>7
      <3> QED
        BY ONLY <1>5, <3>1, <3>2
  <1> QED
    BY <1>5, <1>8, <1>9, <1>10 DEF GradedAsPicked

\* grade_quiz, get_option_text, quiz_attempt: the result shows the text that was picked and
\* the author's, whatever the order of the row and of the shuffle, and the score is
\* the rounded percentage of the points, for any questions, options and points.
THEOREM QuizzesAreGradedAsPicked ==
  QuizInit /\ [][QuizNext]_quizVars => []GradedAsPicked
  <1>1. QuizInit => QuizInv
    BY DEF QuizInit, QuizInv
  <1> QED
    BY <1>1, QuizStep, GradedRightly, PTL

-----------------------------------------------------------------------------
(***************************************************************************)
(* The numbers of the JSON columns.  NumberAt says where the parts of a    *)
(* number meet in the text around it: the reader, which goes from left to  *)
(* right, and the grammar, which cuts in every way, both agree with it.    *)
(***************************************************************************)

\* The symbols from m on are digits, up to n.
DigitsFrom(t, m, n) == \A k \in m .. n - 1 : t[k] \in Digits

\* From i to j - 1 stands a number: its integer begins at a, its fraction at b, its
\* exponent at d and the digits of this at e.
NumberAt(t, i, a, b, d, e, j) ==
  /\ a \in Nat /\ b \in Nat /\ d \in Nat /\ e \in Nat
  /\ a < b /\ b <= d /\ d <= e /\ e <= j
  /\ a = i \/ (a = i + 1 /\ t[i] = "-")
  /\ DigitsFrom(t, a, b)
  /\ t[a] = "0" => b = a + 1
  /\ d = b \/ (t[b] = "." /\ b + 1 < d /\ DigitsFrom(t, b + 1, d))
  /\ \/ e = d /\ j = d
     \/ /\ t[d] = "e" /\ e < j /\ DigitsFrom(t, e, j)
        /\ e = d + 1 \/ (e = d + 2 /\ t[d + 1] \in {"+", "-"})

\* Whether j is what After(t, i, Digits) chooses.
EndOfDigits(t, i, j) ==
  j \in i .. Len(t) + 1 /\ Peek(t, j) \notin Digits /\ \A k \in i .. j - 1 : t[k] \in Digits

\* The digits from i on end in one place.
LEMMA DigitsEnd ==
  ASSUME NEW S, NEW t \in Seq(S), NEW i \in 1 .. Len(t) + 1
  PROVE  /\ EndOfDigits(t, i, After(t, i, Digits))
         /\ \A j : EndOfDigits(t, i, j) => After(t, i, Digits) = j
  <1>1. Len(t) \in Nat /\ i \in Nat /\ i <= Len(t) + 1
    BY LenProperties
  <1> DEFINE Ends == {m \in i .. Len(t) + 1 : Peek(t, m) \notin Digits}
  <1>2. Len(t) + 1 \in Ends
    BY <1>1 DEF Peek, Digits
  <1>3. PICK n \in Ends : \A m \in Ends : n <= m
    <2>1. Ends \in SUBSET Nat
      BY <1>1
    <2> QED
      BY <1>2, <2>1, LeastNumber
  <1>4. ASSUME NEW k \in i .. n - 1 PROVE t[k] \in Digits
    <2>1. k \in i .. Len(t) + 1 /\ k <= Len(t) /\ ~(n <= k)
      BY <1>1, <1>3
    <2>2. Peek(t, k) \in Digits
      BY <1>3, <2>1
    <2> QED
      BY <2>1, <2>2 DEF Peek
  <1>5. EndOfDigits(t, i, n)
    BY <1>3, <1>4 DEF EndOfDigits
  <1>6. EndOfDigits(t, i, After(t, i, Digits))
    BY <1>5 DEF EndOfDigits, After
  <1>7. ASSUME NEW j, NEW m, EndOfDigits(t, i, j), EndOfDigits(t, i, m), j < m PROVE FALSE
    <2>1. j \in i .. m - 1 /\ j <= Len(t)
      BY <1>1, <1>7 DEF EndOfDigits
    <2> QED
      BY <1>7, <2>1 DEF EndOfDigits, Peek
  <1>8. ASSUME NEW j, EndOfDigits(t, i, j) PROVE After(t, i, Digits) = j
    <2> DEFINE m == After(t, i, Digits)
    <2>1. m \in Nat /\ j \in Nat
      BY <1>1, <1>6, <1>8 DEF EndOfDigits
    <2>2. ~(m < j) /\ ~(j < m)
      BY <1>6, <1>7, <1>8
    <2> HIDE DEF m
    <2>3. m = j
      BY <2>1, <2>2
    <2> QED
      BY <2>3 DEF m
  <1> QED
    BY <1>6, <1>8

\* A number with nothing behind it that could go on is read to its end.
LEMMA NumberIsRead ==
  ASSUME NEW S, NEW t \in Seq(S), NEW i \in Nat \ {0}, NEW j \in Nat, j <= Len(t) + 1,
         NEW a, NEW b, NEW d, NEW e, NumberAt(t, i, a, b, d, e, j),
         Peek(t, j) \notin Numeric
  PROVE  ReadNumber(t, i) = Ok(Num(Double(SubSeq(t, i, j - 1))), j)
  <1>1. /\ Len(t) \in Nat /\ a \in Nat /\ b \in Nat /\ d \in Nat /\ e \in Nat
        /\ a < b /\ b <= d /\ d <= e /\ e <= j /\ i <= a /\ i < j
    BY LenProperties DEF NumberAt
  <1>2. a = IF t[i] = "-" THEN i + 1 ELSE i
    <2>1. t[a] \in Digits
      BY <1>1 DEF NumberAt, DigitsFrom
    <2> QED
      BY <2>1 DEF NumberAt, Digits
  <1>3. Peek(t, d) \notin Digits /\ Peek(t, d) # "." /\ (Peek(t, d) = "e" <=> j # d)
    <2>1. CASE j = d
      BY <2>1 DEF Numeric, Digits
    <2>2. CASE j # d
      <3>1. t[d] = "e" /\ d <= Len(t)
        BY <1>1, <2>2 DEF NumberAt
      <3> QED
        BY <2>2, <3>1 DEF Peek, Digits
    <2> QED
      BY <2>1, <2>2
  <1>4. Peek(t, b) \notin Digits /\ (Peek(t, b) = "." <=> d # b)
    <2>1. CASE d = b
      BY <1>3, <2>1
    <2>2. CASE d # b
      <3>1. t[b] = "." /\ b <= Len(t)
        BY <1>1, <2>2 DEF NumberAt
      <3> QED
        BY <2>2, <3>1 DEF Peek, Digits
    <2> QED
      BY <2>1, <2>2
  <1>5. IntPart(t, a) = b
    <2>1. Peek(t, a) = t[a]
      BY <1>1 DEF Peek
    <2>2. EndOfDigits(t, a, b)
      BY <1>1, <1>4 DEF EndOfDigits, NumberAt, DigitsFrom
    <2>3. After(t, a, Digits) = b
      BY <1>1, <2>2, DigitsEnd
    <2> QED
      BY <2>1, <2>3 DEF IntPart, NumberAt
  <1>6. (IF Peek(t, b) = "." THEN After(t, b + 1, Digits) ELSE b) = d
    <2>1. CASE d = b
      BY <1>4, <2>1
    <2>2. CASE d # b
      <3>1. EndOfDigits(t, b + 1, d)
        BY <1>1, <1>3, <2>2 DEF EndOfDigits, NumberAt, DigitsFrom
      <3>2. b + 1 \in 1 .. Len(t) + 1
        BY <1>1, <2>2 DEF NumberAt
      <3>3. After(t, b + 1, Digits) = d
        BY <3>1, <3>2, DigitsEnd
      <3> QED
        BY <1>4, <2>2, <3>3
    <2> QED
      BY <2>1, <2>2
  <1> DEFINE sign == IF Peek(t, d) = "e" THEN d + 1 ELSE d
             exp == IF sign > d /\ Peek(t, sign) \in {"+", "-"} THEN sign + 1 ELSE sign
             end == IF sign > d THEN After(t, exp, Digits) ELSE d
  <1>7. end = j /\ (sign > d => j # exp)
    <2>1. CASE j = d
      BY <1>1, <1>3, <2>1
    <2>2. CASE j # d
      <3>1. sign = d + 1 /\ sign > d /\ sign <= Len(t)
        BY <1>1, <1>3, <2>2 DEF NumberAt
      <3>2. t[e] \in Digits
        BY <1>1, <2>2 DEF NumberAt, DigitsFrom
      <3>3. exp = e
        BY <1>1, <2>2, <3>1, <3>2 DEF NumberAt, Peek, Digits
      <3>4. EndOfDigits(t, e, j) /\ e # j
        BY <1>1, <2>2 DEF EndOfDigits, NumberAt, DigitsFrom, Numeric, Digits
      <3>5. After(t, e, Digits) = j
        BY <1>1, <3>4, DigitsEnd
      <3> QED
        BY <3>1, <3>3, <3>4, <3>5
    <2> QED
      BY <2>1, <2>2
  <1>8. d # b + 1 /\ b # a
    BY <1>1 DEF NumberAt
  <1> HIDE DEF end
  <1>9. ReadNumber(t, i) =
          IF b = a \/ d = b + 1 \/ (sign > d /\ end = exp) THEN Fail
          ELSE Ok(Num(Double(SubSeq(t, i, end - 1))), end)
    BY <1>2, <1>5, <1>6 DEF ReadNumber, end
  <1>10. ~(sign > d /\ end = exp)
    BY <1>7
  <1> QED
    BY <1>7, <1>8, <1>9, <1>10

\* What is read is a number, up to where the reader stops.
LEMMA ReadIsNumber ==
  ASSUME NEW S, NEW t \in Seq(S), NEW i \in 1 .. Len(t), ReadNumber(t, i).ok
  PROVE  \E a, b, d, e, j :
           /\ NumberAt(t, i, a, b, d, e, j) /\ j \in i + 1 .. Len(t) + 1
           /\ ReadNumber(t, i) = Ok(Num(Double(SubSeq(t, i, j - 1))), j)
  <1>1. Len(t) \in Nat /\ i \in Nat /\ 1 <= i /\ i <= Len(t)
    BY LenProperties
  <1> DEFINE a == IF t[i] = "-" THEN i + 1 ELSE i
             b == IntPart(t, a)
             d == IF Peek(t, b) = "." THEN After(t, b + 1, Digits) ELSE b
             sign == IF Peek(t, d) = "e" THEN d + 1 ELSE d
             e == IF sign > d /\ Peek(t, sign) \in {"+", "-"} THEN sign + 1 ELSE sign
             j == IF sign > d THEN After(t, e, Digits) ELSE d
  <1>2. ReadNumber(t, i) =
          IF b = a \/ d = b + 1 \/ (sign > d /\ j = e) THEN Fail
          ELSE Ok(Num(Double(SubSeq(t, i, j - 1))), j)
    BY DEF ReadNumber
  <1>3. b # a /\ d # b + 1 /\ (sign > d => j # e) /\ ReadNumber(t, i) = Ok(Num(Double(SubSeq(t, i, j - 1))), j)
    <2>1. ~Fail.ok
      BY DEF Fail
    <2> HIDE DEF a, b, d, sign, e, j
    <2> QED
      BY <1>2, <2>1
  <1>4. a \in Nat /\ a \in i .. Len(t) + 1 /\ (a = i \/ (a = i + 1 /\ t[i] = "-"))
    BY <1>1
  <1> HIDE DEF a
  <1>5. /\ b \in Nat /\ a < b /\ b <= Len(t) + 1 /\ DigitsFrom(t, a, b)
        /\ t[a] = "0" => b = a + 1
    <2>1. CASE Peek(t, a) = "0"
      <3>1. b = a + 1 /\ t[a] = "0" /\ a <= Len(t)
        BY <2>1 DEF IntPart, Peek
      <3> HIDE DEF b
      <3> QED
        BY <1>1, <1>4, <3>1 DEF DigitsFrom, Digits
    <2>2. CASE Peek(t, a) # "0"
      <3>1. b = After(t, a, Digits)
        BY <2>2 DEF IntPart
      <3>2. EndOfDigits(t, a, b)
        BY <1>1, <1>4, <3>1, DigitsEnd
      <3> HIDE DEF b
      <3>3. b \in Nat /\ a < b /\ b <= Len(t) + 1
        BY <1>1, <1>3, <1>4, <3>2 DEF EndOfDigits
      <3> QED
        BY <1>1, <1>4, <2>2, <3>2, <3>3 DEF EndOfDigits, DigitsFrom, Peek
    <2> QED
      BY <2>1, <2>2
  <1> HIDE DEF b
  <1>6. /\ d \in Nat /\ b <= d /\ d <= Len(t) + 1
        /\ d = b \/ (t[b] = "." /\ b + 1 < d /\ DigitsFrom(t, b + 1, d))
    <2>1. CASE Peek(t, b) = "."
      <3>1. t[b] = "." /\ b <= Len(t)
        BY <2>1 DEF Peek
      <3>2. EndOfDigits(t, b + 1, d)
        BY <1>1, <1>4, <1>5, <2>1, <3>1, DigitsEnd
      <3> HIDE DEF d
      <3> QED
        BY <1>1, <1>3, <1>5, <3>1, <3>2 DEF EndOfDigits, DigitsFrom
    <2>2. CASE Peek(t, b) # "."
      BY <1>5, <2>2
    <2> QED
      BY <2>1, <2>2
  <1> HIDE DEF d
  <1>7. /\ e \in Nat /\ j \in Nat /\ d <= e /\ e <= j /\ j <= Len(t) + 1
        /\ \/ e = d /\ j = d
           \/ /\ t[d] = "e" /\ e < j /\ DigitsFrom(t, e, j)
              /\ e = d + 1 \/ (e = d + 2 /\ t[d + 1] \in {"+", "-"})
    <2>1. CASE Peek(t, d) # "e"
      <3>1. ~(sign > d) /\ sign = d
        BY <1>6, <2>1
      <3> QED
        BY <1>6, <3>1
    <2>2. CASE Peek(t, d) = "e"
      <3>1. t[d] = "e" /\ d <= Len(t)
        BY <2>2 DEF Peek
      <3>2. sign = d + 1 /\ sign > d
        BY <1>6, <2>2
      <3>3. e \in Nat /\ e <= Len(t) + 1 /\ d < e
            /\ (e = d + 1 \/ (e = d + 2 /\ t[d + 1] \in {"+", "-"}))
        <4>1. CASE Peek(t, d + 1) \in {"+", "-"}
          <5>1. d + 1 <= Len(t) /\ t[d + 1] \in {"+", "-"}
            BY <4>1 DEF Peek
          <5> QED
            BY <1>1, <1>6, <3>2, <4>1, <5>1
        <4>2. CASE Peek(t, d + 1) \notin {"+", "-"}
          BY <1>1, <1>6, <3>1, <3>2, <4>2
        <4> QED
          BY <4>1, <4>2
      <3>4. j = After(t, e, Digits)
        BY <3>2
      <3> HIDE DEF sign, e, j
      <3>5. EndOfDigits(t, e, j)
        <4>1. e \in 1 .. Len(t) + 1
          BY <1>1, <1>6, <3>3
        <4> QED
          BY <3>4, <4>1, DigitsEnd
      <3>6. j \in Nat /\ e < j /\ j <= Len(t) + 1 /\ DigitsFrom(t, e, j)
        BY <1>1, <1>3, <3>2, <3>3, <3>5 DEF EndOfDigits, DigitsFrom
      <3> QED
        BY <1>6, <3>1, <3>3, <3>6
    <2> QED
      BY <2>1, <2>2
  <1> HIDE DEF sign, e, j
  <1>8. NumberAt(t, i, a, b, d, e, j)
    BY <1>4, <1>5, <1>6, <1>7 DEF NumberAt
  <1>9. j \in i + 1 .. Len(t) + 1
    BY <1>1, <1>4, <1>5, <1>6, <1>7
  <1> QED
    BY <1>3, <1>8, <1>9

\* A part of a text: its length and its symbols.
LEMMA PartOfText ==
  ASSUME NEW S, NEW t \in Seq(S), NEW m \in Nat \ {0}, NEW n \in Nat, n <= Len(t)
  PROVE  /\ SubSeq(t, m, n) \in Seq(S)
         /\ Len(SubSeq(t, m, n)) = IF m <= n THEN n - m + 1 ELSE 0
         /\ \A k \in 1 .. n - m + 1 : SubSeq(t, m, n)[k] = t[m + k - 1]
         /\ SubSeq(t, m, n) = <<>> <=> n < m
         /\ m <= n => Head(SubSeq(t, m, n)) = t[m] /\ Tail(SubSeq(t, m, n)) = SubSeq(t, m + 1, n)
  <1>1. Len(t) \in Nat /\ \A k \in m .. n : t[k] \in S
    BY LenProperties, ElementOfSeq
  <1>2. /\ SubSeq(t, m, n) \in Seq(S)
        /\ Len(SubSeq(t, m, n)) = IF m <= n THEN n - m + 1 ELSE 0
        /\ \A k \in 1 .. n - m + 1 : SubSeq(t, m, n)[k] = t[m + k - 1]
    BY <1>1, SubSeqProperties
  <1>3. SubSeq(t, m, n) = <<>> <=> n < m
    <2>1. SubSeq(t, m, n) = <<>> <=> Len(SubSeq(t, m, n)) = 0
      BY <1>2, EmptySeq
    <2> QED
      BY <1>2, <2>1
  <1>4. m <= n => Head(SubSeq(t, m, n)) = t[m] /\ Tail(SubSeq(t, m, n)) = SubSeq(t, m + 1, n)
    BY <1>1, HeadTailOfSubSeq
  <1> QED
    BY <1>2, <1>3, <1>4

\* The end of a part is a part.
LEMMA RestOfPart ==
  ASSUME NEW S, NEW t \in Seq(S), NEW m \in Nat \ {0}, m <= Len(t), NEW q \in Nat \ {0},
         q <= Len(t) - m + 2
  PROVE  Rest(SubSeq(t, m, Len(t)), q) = SubSeq(t, m + q - 1, Len(t))
  <1> DEFINE n == Len(t)
             c == SubSeq(t, m, n)
  <1>1. n \in Nat
    BY LenProperties
  <1>2. c \in Seq(S) /\ Len(c) = n - m + 1
    BY <1>1, PartOfText
  <1>3. CASE q <= n - m + 1
    <2>1. SubSeq(c, q, n - m + 1) = SubSeq(t, m + q - 1, m + (n - m + 1) - 1)
      BY <1>1, <1>3, SubSeqOfSubSeq
    <2>2. m + (n - m + 1) - 1 = n
      BY <1>1
    <2> QED
      BY <1>2, <2>1, <2>2 DEF Rest
  <1>4. CASE ~(q <= n - m + 1)
    <2>1. SubSeq(c, q, Len(c)) = <<>>
      BY <1>1, <1>2, <1>4, PartOfText
    <2>2. SubSeq(t, m + q - 1, n) = <<>>
      BY <1>1, <1>4, PartOfText
    <2> QED
      BY <2>1, <2>2 DEF Rest
  <1> QED
    BY <1>3, <1>4

\* A part of a text is digits if the text has digits from its begin to its end.
LEMMA DigitsOfPart ==
  ASSUME NEW S, NEW t \in Seq(S), NEW m \in Nat \ {0}, NEW n \in Nat, n <= Len(t)
  PROVE  AreDigits(SubSeq(t, m, n)) <=> m <= n /\ DigitsFrom(t, m, n + 1)
  <1> DEFINE c == SubSeq(t, m, n)
  <1>1. /\ c \in Seq(S) /\ Len(c) = IF m <= n THEN n - m + 1 ELSE 0
        /\ \A k \in 1 .. n - m + 1 : c[k] = t[m + k - 1]
        /\ c = <<>> <=> n < m
    BY PartOfText
  <1>2. DOMAIN c = 1 .. Len(c)
    BY <1>1, LenProperties
  <1> HIDE DEF c
  <1>3. ASSUME AreDigits(c) PROVE m <= n /\ DigitsFrom(t, m, n + 1)
    <2>1. m <= n
      BY <1>1, <1>3 DEF AreDigits
    <2>2. ASSUME NEW k \in m .. (n + 1) - 1 PROVE t[k] \in Digits
      <3>1. k - m + 1 \in 1 .. n - m + 1 /\ m + (k - m + 1) - 1 = k
        BY <2>1
      <3>2. c[k - m + 1] = t[m + (k - m + 1) - 1]
        BY <1>1, <3>1
      <3>3. k - m + 1 \in DOMAIN c
        BY <1>1, <1>2, <2>1, <3>1
      <3> QED
        BY <1>3, <3>1, <3>2, <3>3 DEF AreDigits
    <2> QED
      BY <2>1, <2>2 DEF DigitsFrom
  <1>4. ASSUME m <= n, DigitsFrom(t, m, n + 1) PROVE AreDigits(c)
    <2>1. ASSUME NEW k \in DOMAIN c PROVE c[k] \in Digits
      <3>1. k \in 1 .. n - m + 1 /\ m + k - 1 \in m .. (n + 1) - 1
        BY <1>1, <1>2, <1>4, <2>1
      <3> QED
        BY <1>1, <1>4, <3>1 DEF DigitsFrom
    <2> QED
      BY <1>1, <1>4, <2>1 DEF AreDigits
  <1> QED
    BY <1>3, <1>4 DEF c

\* A text begins with one symbol.
LEMMA PrefixOfOne ==
  ASSUME NEW S, NEW x \in Seq(S), NEW p
  PROVE  IsPrefix(<<p>>, x) <=> x # <<>> /\ x[1] = p
  <1>1. Len(x) \in Nat /\ (x = <<>> <=> Len(x) = 0)
    BY LenProperties, EmptySeq
  <1>2. SubSeq(<<p>>, 1, 1) = <<p>> /\ Len(<<p>>) = 1
    <2>1. <<p>> \in Seq({p}) /\ Len(<<p>>) = 1
      OBVIOUS
    <2> QED
      BY <2>1, SubSeqFull
  <1>3. ASSUME 1 <= Len(x) PROVE SubSeq(x, 1, 1) = <<x[1]>>
    <2>1. /\ SubSeq(x, 1, 1) \in Seq(S) /\ Len(SubSeq(x, 1, 1)) = 1
          /\ SubSeq(x, 1, 1)[1] = x[1]
      BY <1>1, <1>3, PartOfText
    <2>2. SubSeq(x, 1, 1) = [k \in 1 .. 1 |-> SubSeq(x, 1, 1)[k]]
      BY <2>1, LenProperties
    <2>3. <<x[1]>> = [k \in 1 .. 1 |-> x[1]]
      OBVIOUS
    <2>4. \A k \in 1 .. 1 : k = 1
      OBVIOUS
    <2> HIDE <1>3
    <2> QED
      BY <2>1, <2>2, <2>3, <2>4
  <1>4. <<x[1]>> = <<p>> <=> x[1] = p
    OBVIOUS
  <1> QED
    BY <1>1, <1>2, <1>3, <1>4 DEF IsPrefix

\* A text begins with two symbols.
LEMMA PrefixOfTwo ==
  ASSUME NEW S, NEW x \in Seq(S), NEW p, NEW q
  PROVE  IsPrefix(<<p, q>>, x) <=> 2 <= Len(x) /\ x[1] = p /\ x[2] = q
  <1>1. Len(x) \in Nat
    BY LenProperties
  <1>2. SubSeq(<<p, q>>, 1, 2) = <<p, q>> /\ Len(<<p, q>>) = 2
    <2>1. <<p, q>> \in Seq({p, q}) /\ Len(<<p, q>>) = 2
      OBVIOUS
    <2> QED
      BY <2>1, SubSeqFull
  <1>3. ASSUME 2 <= Len(x) PROVE SubSeq(x, 1, 2) = <<x[1], x[2]>>
    <2>1. /\ SubSeq(x, 1, 2) \in Seq(S) /\ Len(SubSeq(x, 1, 2)) = 2
          /\ SubSeq(x, 1, 2)[1] = x[1] /\ SubSeq(x, 1, 2)[2] = x[2]
      BY <1>1, <1>3, PartOfText
    <2>2. SubSeq(x, 1, 2) = [k \in 1 .. 2 |-> SubSeq(x, 1, 2)[k]]
      BY <2>1, LenProperties
    <2>3. <<x[1], x[2]>> = [k \in 1 .. 2 |-> IF k = 1 THEN x[1] ELSE x[2]]
      OBVIOUS
    <2>4. \A k \in 1 .. 2 : k = 1 \/ k = 2
      OBVIOUS
    <2> HIDE <1>3
    <2> QED
      BY <2>1, <2>2, <2>3, <2>4
  <1>4. <<x[1], x[2]>> = <<p, q>> <=> x[1] = p /\ x[2] = q
    OBVIOUS
  <1> QED
    BY <1>1, <1>2, <1>3, <1>4 DEF IsPrefix

\* The exponent of the grammar, and where its digits begin.
LEMMA ExponentStands ==
  ASSUME NEW S, NEW c \in Seq(S), NEW d \in 1 .. Len(c) + 1
  PROVE  LET x == Rest(c, d)
             j == Len(c) + 1
         IN  (x # <<>> => \E s \in {<<"e">>, <<"e", "+">>, <<"e", "-">>} :
                            IsPrefix(s, x) /\ AreDigits(Rest(x, Len(s) + 1)))
             <=> \E e \in Nat :
                   /\ d <= e /\ e <= j
                   /\ \/ e = d /\ j = d
                      \/ /\ c[d] = "e" /\ e < j /\ DigitsFrom(c, e, j)
                         /\ e = d + 1 \/ (e = d + 2 /\ c[d + 1] \in {"+", "-"})
  <1> DEFINE n == Len(c)
             x == Rest(c, d)
             Marked(e) == c[d] = "e" /\ e < n + 1 /\ DigitsFrom(c, e, n + 1)
             Grammar(s) == IsPrefix(s, x) /\ AreDigits(Rest(x, Len(s) + 1))
  <1>1. n \in Nat /\ d \in Nat \ {0} /\ d <= n + 1
    BY LenProperties
  <1>2. /\ x \in Seq(S) /\ Len(x) = IF d <= n THEN n - d + 1 ELSE 0
        /\ \A k \in 1 .. n - d + 1 : x[k] = c[d + k - 1]
        /\ x = <<>> <=> n < d
    <2>1. x = SubSeq(c, d, n) /\ n <= Len(c)
      BY <1>1 DEF Rest
    <2> HIDE DEF n, x
    <2>2. d \in Nat \ {0} /\ n \in Nat /\ n <= Len(c)
      BY <1>1, <2>1
    <2>3. /\ SubSeq(c, d, n) \in Seq(S)
          /\ Len(SubSeq(c, d, n)) = IF d <= n THEN n - d + 1 ELSE 0
          /\ \A k \in 1 .. n - d + 1 : SubSeq(c, d, n)[k] = c[d + k - 1]
          /\ SubSeq(c, d, n) = <<>> <=> n < d
      <3>1. SubSeq(c, d, n) \in Seq(S) /\ Len(SubSeq(c, d, n)) = IF d <= n THEN n - d + 1 ELSE 0
        BY <2>2, PartOfText
      <3>2. \A k \in 1 .. n - d + 1 : SubSeq(c, d, n)[k] = c[d + k - 1]
        BY <2>2, PartOfText
      <3>3. SubSeq(c, d, n) = <<>> <=> n < d
        BY <2>2, PartOfText
      <3> QED
        BY <3>1, <3>2, <3>3
    <2> QED
      BY <2>1, <2>3
  <1>3. \A q \in Nat \ {0} : d <= n /\ q <= n - d + 2 => Rest(x, q) = SubSeq(c, d + q - 1, n)
    BY <1>1, RestOfPart DEF Rest
  <1> HIDE DEF n, x
  <1>4. ASSUME d <= n
        PROVE  Grammar(<<"e">>) <=> Marked(d + 1)
    <2>1. x[1] = c[d] /\ x # <<>>
      BY <1>1, <1>2, <1>4
    <2>2. Rest(x, 2) = SubSeq(c, d + 1, n)
      <3>1. 2 \in Nat \ {0} /\ 2 <= n - d + 2 /\ d + 2 - 1 = d + 1
        BY <1>1, <1>4
      <3> QED
        BY <1>3, <1>4, <3>1
    <2>3. AreDigits(SubSeq(c, d + 1, n)) <=> d + 1 <= n /\ DigitsFrom(c, d + 1, n + 1)
      BY <1>1, <1>4, DigitsOfPart DEF n
    <2>4. Len(<<"e">>) + 1 = 2
      OBVIOUS
    <2>5. IsPrefix(<<"e">>, x) <=> c[d] = "e"
      BY <1>2, <2>1, PrefixOfOne
    <2>6. d + 1 <= n <=> d + 1 < n + 1
      BY <1>1
    <2> QED
      BY <2>2, <2>3, <2>4, <2>5, <2>6
  <1>5. ASSUME d <= n, NEW q
        PROVE  Grammar(<<"e", q>>) <=> Marked(d + 2) /\ c[d + 1] = q
    <2>1. IsPrefix(<<"e", q>>, x) <=> 2 <= Len(x) /\ x[1] = "e" /\ x[2] = q
      BY <1>2, PrefixOfTwo
    <2>2. Len(<<"e", q>>) + 1 = 3
      OBVIOUS
    <2>3. CASE d + 1 <= n
      <3>1. 2 <= Len(x) /\ x[1] = c[d] /\ x[2] = c[d + 1]
        <4>1. 1 \in 1 .. n - d + 1 /\ 2 \in 1 .. n - d + 1 /\ d + 1 - 1 = d /\ d + 2 - 1 = d + 1
              /\ 2 <= n - d + 1
          BY <1>1, <2>3
        <4> QED
          BY <1>2, <1>5, <4>1
      <3>2. Rest(x, 3) = SubSeq(c, d + 2, n)
        <4>1. 3 \in Nat \ {0} /\ 3 <= n - d + 2 /\ d + 3 - 1 = d + 2
          BY <1>1, <2>3
        <4> QED
          BY <1>3, <1>5, <4>1
      <3>3. AreDigits(SubSeq(c, d + 2, n)) <=> d + 2 <= n /\ DigitsFrom(c, d + 2, n + 1)
        BY <1>1, <2>3, DigitsOfPart DEF n
      <3>4. d + 2 <= n <=> d + 2 < n + 1
        BY <1>1
      <3> QED
        BY <2>1, <2>2, <3>1, <3>2, <3>3, <3>4
    <2>4. CASE ~(d + 1 <= n)
      <3>1. ~(2 <= Len(x)) /\ ~(d + 2 < n + 1)
        BY <1>1, <1>2, <2>4
      <3> QED
        BY <2>1, <3>1
    <2> QED
      BY <2>3, <2>4
  <1>6. CASE d <= n
    <2>1. x # <<>> /\ n + 1 # d
      BY <1>1, <1>2, <1>6
    <2>2. (\E s \in {<<"e">>, <<"e", "+">>, <<"e", "-">>} : Grammar(s))
          <=> Marked(d + 1) \/ (Marked(d + 2) /\ c[d + 1] \in {"+", "-"})
      <3>1. (\E s \in {<<"e">>, <<"e", "+">>, <<"e", "-">>} : Grammar(s))
            <=> Grammar(<<"e">>) \/ Grammar(<<"e", "+">>) \/ Grammar(<<"e", "-">>)
        <4> HIDE DEF Grammar
        <4> QED
          OBVIOUS
      <3>2. /\ Grammar(<<"e", "+">>) <=> Marked(d + 2) /\ c[d + 1] = "+"
            /\ Grammar(<<"e", "-">>) <=> Marked(d + 2) /\ c[d + 1] = "-"
        BY <1>5, <1>6
      <3>3. Grammar(<<"e">>) <=> Marked(d + 1)
        BY <1>4, <1>6
      <3> HIDE DEF Grammar, Marked
      <3> QED
        BY <3>1, <3>2, <3>3
    <2>3. (\E e \in Nat : /\ d <= e /\ e <= n + 1
                          /\ \/ e = d /\ n + 1 = d
                             \/ Marked(e) /\ (e = d + 1 \/ (e = d + 2 /\ c[d + 1] \in {"+", "-"})))
          <=> Marked(d + 1) \/ (Marked(d + 2) /\ c[d + 1] \in {"+", "-"})
      <3>1. \A e \in Nat : Marked(e) => e <= n + 1
        BY <1>1
      <3>2. d + 1 \in Nat /\ d + 2 \in Nat /\ d <= d + 1 /\ d <= d + 2
        BY <1>1
      <3> HIDE DEF Marked
      <3> QED
        BY <2>1, <3>1, <3>2
    <2> QED
      BY <2>1, <2>2, <2>3 DEF n, x
  <1>7. CASE ~(d <= n)
    <2>1. x = <<>> /\ d = n + 1
      BY <1>1, <1>2, <1>7
    <2> QED
      BY <1>1, <2>1 DEF n, x
  <1> QED
    BY <1>6, <1>7

\* A text is a number of the grammar if its parts stand where NumberAt wants them.
LEMMA NumberStands ==
  ASSUME NEW S, NEW c \in Seq(S)
  PROVE  IsNumber(c) <=> \E a, b, d, e : NumberAt(c, 1, a, b, d, e, Len(c) + 1)
  <1> DEFINE n == Len(c)
             Signed(a) == Cut(c, 1, a - 1) \in {<<>>, <<"-">>}
             Fraction(b, d) ==
               Cut(c, b, d - 1) # <<>> =>
                 Head(Cut(c, b, d - 1)) = "." /\ AreDigits(Tail(Cut(c, b, d - 1)))
             Exponent(d) ==
               Rest(c, d) # <<>> =>
                 \E s \in {<<"e">>, <<"e", "+">>, <<"e", "-">>} :
                   IsPrefix(s, Rest(c, d)) /\ AreDigits(Rest(Rest(c, d), Len(s) + 1))
             Cuts(a, b, d) ==
               Signed(a) /\ IsInteger(Cut(c, a, b - 1)) /\ Fraction(b, d) /\ Exponent(d)
             Ends(d, e) ==
               /\ d <= e /\ e <= n + 1
               /\ \/ e = d /\ n + 1 = d
                  \/ /\ c[d] = "e" /\ e < n + 1 /\ DigitsFrom(c, e, n + 1)
                     /\ e = d + 1 \/ (e = d + 2 /\ c[d + 1] \in {"+", "-"})
             Stands(a, b, d) ==
               /\ a = 1 \/ (a = 2 /\ c[1] = "-")
               /\ a < b /\ DigitsFrom(c, a, b) /\ (c[a] = "0" => b = a + 1)
               /\ d = b \/ (c[b] = "." /\ b + 1 < d /\ DigitsFrom(c, b + 1, d))
  <1>1. n \in Nat
    BY LenProperties
  <1>2. ASSUME NEW a \in 1 .. n + 1, NEW b \in a .. n + 1, NEW d \in b .. n + 1
        PROVE  Cuts(a, b, d) <=> Stands(a, b, d) /\ \E e \in Nat : Ends(d, e)
    <2>1. /\ a \in Nat \ {0} /\ a - 1 \in Nat /\ a - 1 <= n
          /\ b \in Nat \ {0} /\ b - 1 \in Nat /\ b - 1 <= n
          /\ d \in Nat \ {0} /\ d - 1 \in Nat /\ d - 1 <= n
      BY <1>1, <1>2
    <2>2. Signed(a) <=> a = 1 \/ (a = 2 /\ c[1] = "-")
      <3>1. /\ Cut(c, 1, a - 1) = <<>> <=> a - 1 < 1
            /\ Len(Cut(c, 1, a - 1)) = IF 1 <= a - 1 THEN (a - 1) - 1 + 1 ELSE 0
            /\ Cut(c, 1, a - 1) \in Seq(S)
            /\ \A k \in 1 .. (a - 1) - 1 + 1 : Cut(c, 1, a - 1)[k] = c[1 + k - 1]
        BY <2>1, PartOfText DEF Cut
      <3>2. CASE a = 1
        BY <3>1, <3>2
      <3>3. CASE a = 2
        <4>1. Len(Cut(c, 1, a - 1)) = 1 /\ Cut(c, 1, a - 1)[1] = c[1] /\ Cut(c, 1, a - 1) # <<>>
          BY <3>1, <3>3
        <4>2. Cut(c, 1, a - 1) = [k \in 1 .. 1 |-> Cut(c, 1, a - 1)[k]]
          BY <3>1, <4>1, LenProperties
        <4>3. <<"-">> = [k \in 1 .. 1 |-> "-"] /\ <<"-">>[1] = "-"
          OBVIOUS
        <4>4. \A k \in 1 .. 1 : k = 1
          OBVIOUS
        <4>5. Cut(c, 1, a - 1) = <<"-">> <=> c[1] = "-"
          <5> HIDE <3>3
          <5> QED
            BY <4>1, <4>2, <4>3, <4>4
        <4> QED
          BY <3>3, <4>1, <4>5
      <3>4. CASE a # 1 /\ a # 2
        <4>1. Len(Cut(c, 1, a - 1)) # 0 /\ Len(Cut(c, 1, a - 1)) # 1
          BY <2>1, <3>1, <3>4
        <4>2. Len(<<>>) = 0 /\ Len(<<"-">>) = 1
          OBVIOUS
        <4> QED
          BY <3>4, <4>1, <4>2
      <3> QED
        BY <3>2, <3>3, <3>4
    <2>3. IsInteger(Cut(c, a, b - 1))
          <=> a < b /\ DigitsFrom(c, a, b) /\ (c[a] = "0" => b = a + 1)
      <3>1. AreDigits(Cut(c, a, b - 1)) <=> a <= b - 1 /\ DigitsFrom(c, a, (b - 1) + 1)
        BY <2>1, DigitsOfPart DEF Cut
      <3>2. /\ Len(Cut(c, a, b - 1)) = IF a <= b - 1 THEN (b - 1) - a + 1 ELSE 0
            /\ \A k \in 1 .. (b - 1) - a + 1 : Cut(c, a, b - 1)[k] = c[a + k - 1]
        BY <2>1, PartOfText DEF Cut
      <3>3. (b - 1) + 1 = b /\ (a <= b - 1 <=> a < b)
        BY <2>1
      <3>4. CASE a < b
        <4>1. Cut(c, a, b - 1)[1] = c[a] /\ (Len(Cut(c, a, b - 1)) = 1 <=> b = a + 1)
          <5>1. 1 \in 1 .. (b - 1) - a + 1 /\ a + 1 - 1 = a
            BY <2>1, <3>4
          <5>2. Cut(c, a, b - 1)[1] = c[a + 1 - 1]
            BY <3>2, <5>1
          <5>3. Len(Cut(c, a, b - 1)) = b - a
            <6>1. a <= b - 1 /\ (b - 1) - a + 1 = b - a
              BY <2>1, <3>4
            <6> QED
              BY <3>2, <6>1
          <5>4. b - a = 1 <=> b = a + 1
            BY <2>1
          <5> QED
            BY <5>1, <5>2, <5>3, <5>4
        <4> QED
          BY <3>1, <3>3, <3>4, <4>1 DEF IsInteger
      <3>5. CASE ~(a < b)
        BY <3>1, <3>3, <3>5 DEF IsInteger
      <3> QED
        BY <3>4, <3>5
    <2>4. Fraction(b, d) <=> d = b \/ (c[b] = "." /\ b + 1 < d /\ DigitsFrom(c, b + 1, d))
      <3>1. /\ Cut(c, b, d - 1) = <<>> <=> d - 1 < b
            /\ b <= d - 1 => /\ Head(Cut(c, b, d - 1)) = c[b]
                             /\ Tail(Cut(c, b, d - 1)) = SubSeq(c, b + 1, d - 1)
        BY <2>1, PartOfText DEF Cut
      <3>2. AreDigits(SubSeq(c, b + 1, d - 1)) <=> b + 1 <= d - 1 /\ DigitsFrom(c, b + 1, (d - 1) + 1)
        <4>1. b + 1 \in Nat \ {0}
          BY <2>1
        <4> QED
          BY <2>1, <4>1, DigitsOfPart
      <3>3. (d - 1) + 1 = d /\ (b + 1 <= d - 1 <=> b + 1 < d) /\ (d - 1 < b <=> d = b)
            /\ (b <= d - 1 <=> d # b)
        BY <1>2, <2>1
      <3> QED
        BY <3>1, <3>2, <3>3
    <2>5. Exponent(d) <=> \E e \in Nat : Ends(d, e)
      <3>1. d \in 1 .. Len(c) + 1
        BY <1>1, <2>1
      <3> QED
        BY <3>1, ExponentStands
    <2> HIDE DEF Signed, Fraction, Exponent, Ends
    <2> QED
      BY <2>2, <2>3, <2>4, <2>5
  <1>3. IsNumber(c) <=> \E i \in 0 .. n : \E j \in i .. n : \E k \in j .. n : Cuts(i + 1, j + 1, k + 1)
    <2>1. \A i \in 0 .. n : \A j \in i .. n : \A k \in j .. n :
            (i + 1) - 1 = i /\ (j + 1) - 1 = j /\ (k + 1) - 1 = k
      BY <1>1
    <2> QED
      BY <2>1 DEF IsNumber
  <1> HIDE DEF Cuts
  <1>4. ASSUME NEW i \in 0 .. n, NEW j \in i .. n, NEW k \in j .. n, Cuts(i + 1, j + 1, k + 1)
        PROVE  \E a, b, d, e : NumberAt(c, 1, a, b, d, e, n + 1)
    <2>1. i + 1 \in 1 .. n + 1 /\ j + 1 \in i + 1 .. n + 1 /\ k + 1 \in j + 1 .. n + 1
      BY <1>1, <1>4
    <2>2. Stands(i + 1, j + 1, k + 1) /\ \E e \in Nat : Ends(k + 1, e)
      BY <1>2, <1>4, <2>1
    <2>3. PICK e \in Nat : Ends(k + 1, e)
      BY <2>2
    <2>4. NumberAt(c, 1, i + 1, j + 1, k + 1, e, n + 1)
      BY <1>1, <2>1, <2>2, <2>3 DEF NumberAt
    <2> QED
      BY <2>4
  <1>5. ASSUME NEW a, NEW b, NEW d, NEW e, NumberAt(c, 1, a, b, d, e, n + 1)
        PROVE  IsNumber(c)
    <2>1. /\ a - 1 \in 0 .. n /\ b - 1 \in a - 1 .. n /\ d - 1 \in b - 1 .. n
          /\ a \in 1 .. n + 1 /\ b \in a .. n + 1 /\ d \in b .. n + 1 /\ e \in Nat
          /\ (a - 1) + 1 = a /\ (b - 1) + 1 = b /\ (d - 1) + 1 = d
      BY <1>1, <1>5 DEF NumberAt
    <2>2. Stands(a, b, d) /\ Ends(d, e)
      BY <1>1, <1>5 DEF NumberAt
    <2>3. Cuts(a, b, d)
      BY <1>2, <2>1, <2>2
    <2> QED
      BY <1>3, <2>1, <2>3
  <1> QED
    BY <1>3, <1>4, <1>5

\* Where a number stands does not matter to it.
LEMMA NumberMoves ==
  ASSUME NEW S, NEW t \in Seq(S), NEW i \in Nat \ {0}, NEW j \in Nat, i < j, j <= Len(t) + 1,
         NEW c, c = SubSeq(t, i, j - 1)
  PROVE  /\ \A a, b, d, e :
              NumberAt(t, i, a, b, d, e, j) =>
                NumberAt(c, 1, a - i + 1, b - i + 1, d - i + 1, e - i + 1, Len(c) + 1)
         /\ \A a, b, d, e :
              NumberAt(c, 1, a, b, d, e, Len(c) + 1) =>
                NumberAt(t, i, a + i - 1, b + i - 1, d + i - 1, e + i - 1, j)
  <1>1. Len(t) \in Nat /\ i \in Nat /\ 1 <= i
    BY LenProperties
  <1>2. Len(c) = j - i /\ \A k \in 1 .. j - i : c[k] = t[i + k - 1]
    <2>1. j - 1 \in Nat /\ j - 1 <= Len(t) /\ i <= j - 1 /\ (j - 1) - i + 1 = j - i
      BY <1>1
    <2> QED
      BY <2>1, PartOfText
  <1>3. \A k \in i .. j - 1 : t[k] = c[k - i + 1]
    <2>1. ASSUME NEW k \in i .. j - 1 PROVE t[k] = c[k - i + 1]
      <3>1. k - i + 1 \in 1 .. j - i /\ i + (k - i + 1) - 1 = k
        BY <1>1
      <3> QED
        BY <1>2, <3>1
    <2> QED
      BY <2>1
  <1>4. ASSUME NEW a, NEW b, NEW d, NEW e, NumberAt(t, i, a, b, d, e, j)
        PROVE  NumberAt(c, 1, a - i + 1, b - i + 1, d - i + 1, e - i + 1, Len(c) + 1)
    <2>1. /\ a \in Nat /\ b \in Nat /\ d \in Nat /\ e \in Nat
          /\ i <= a /\ a < b /\ b <= d /\ d <= e /\ e <= j
      BY <1>1, <1>4 DEF NumberAt
    <2>2. ASSUME NEW m \in Nat, NEW n \in Nat, i <= m, n <= j, DigitsFrom(t, m, n)
          PROVE  DigitsFrom(c, m - i + 1, n - i + 1)
      <3>1. ASSUME NEW k \in m - i + 1 .. (n - i + 1) - 1 PROVE c[k] \in Digits
        <4>1. k \in 1 .. j - i /\ i + k - 1 \in m .. n - 1
          BY <1>1, <2>2
        <4> QED
          BY <1>2, <2>2, <4>1 DEF DigitsFrom
      <3> QED
        BY <3>1 DEF DigitsFrom
    <2>3. /\ DigitsFrom(c, a - i + 1, b - i + 1)
          /\ c[a - i + 1] = t[a]
      BY <1>1, <1>3, <1>4, <2>1, <2>2 DEF NumberAt
    <2>4. a - i + 1 = 1 \/ (a - i + 1 = 1 + 1 /\ c[1] = "-")
      <3>1. c[1] = t[i]
        BY <1>1, <1>2
      <3> QED
        BY <1>1, <1>4, <2>1, <3>1 DEF NumberAt
    <2>5. \/ d - i + 1 = b - i + 1
          \/ /\ c[b - i + 1] = "." /\ (b - i + 1) + 1 < d - i + 1
             /\ DigitsFrom(c, (b - i + 1) + 1, d - i + 1)
      <3>1. CASE d = b
        BY <3>1
      <3>2. CASE d # b
        <4>1. t[b] = "." /\ b + 1 < d /\ DigitsFrom(t, b + 1, d)
          BY <1>4, <3>2 DEF NumberAt
        <4>2. DigitsFrom(c, (b + 1) - i + 1, d - i + 1)
          BY <1>1, <2>1, <2>2, <4>1
        <4>3. c[b - i + 1] = t[b]
          BY <1>1, <1>3, <2>1, <4>1
        <4>4. (b + 1) - i + 1 = (b - i + 1) + 1 /\ (b - i + 1) + 1 < d - i + 1
          BY <1>1, <2>1, <4>1
        <4> QED
          BY <4>1, <4>2, <4>3, <4>4
      <3> QED
        BY <3>1, <3>2
    <2>6. \/ e - i + 1 = d - i + 1 /\ Len(c) + 1 = d - i + 1
          \/ /\ c[d - i + 1] = "e" /\ e - i + 1 < Len(c) + 1
             /\ DigitsFrom(c, e - i + 1, Len(c) + 1)
             /\ \/ e - i + 1 = (d - i + 1) + 1
                \/ e - i + 1 = (d - i + 1) + 2 /\ c[(d - i + 1) + 1] \in {"+", "-"}
      <3>1. CASE e = d /\ j = d
        BY <1>1, <1>2, <2>1, <3>1
      <3>2. CASE ~(e = d /\ j = d)
        <4>1. /\ t[d] = "e" /\ e < j /\ DigitsFrom(t, e, j)
              /\ e = d + 1 \/ (e = d + 2 /\ t[d + 1] \in {"+", "-"})
          BY <1>4, <3>2 DEF NumberAt
        <4>2. DigitsFrom(c, e - i + 1, j - i + 1) /\ j - i + 1 = Len(c) + 1
          BY <1>1, <1>2, <2>1, <2>2, <4>1
        <4>3. c[d - i + 1] = t[d] /\ (e = d + 2 => c[(d - i + 1) + 1] = t[d + 1])
          <5>1. d \in i .. j - 1 /\ (e = d + 2 => d + 1 \in i .. j - 1)
                /\ (d + 1) - i + 1 = (d - i + 1) + 1
            BY <1>1, <2>1, <4>1
          <5>2. c[d - i + 1] = t[d] /\ (e = d + 2 => t[d + 1] = c[(d + 1) - i + 1])
            BY <1>3, <5>1
          <5> QED
            BY <5>1, <5>2
        <4>4. /\ e - i + 1 < j - i + 1
              /\ e = d + 1 => e - i + 1 = (d - i + 1) + 1
              /\ e = d + 2 => e - i + 1 = (d - i + 1) + 2
          BY <1>1, <2>1, <4>1
        <4> QED
          BY <4>1, <4>2, <4>3, <4>4
      <3> QED
        BY <3>1, <3>2
    <2>7. /\ a - i + 1 \in Nat /\ b - i + 1 \in Nat /\ d - i + 1 \in Nat /\ e - i + 1 \in Nat
          /\ a - i + 1 < b - i + 1 /\ b - i + 1 <= d - i + 1 /\ d - i + 1 <= e - i + 1
          /\ e - i + 1 <= Len(c) + 1
      BY <1>1, <1>2, <2>1
    <2>8. c[a - i + 1] = "0" => b - i + 1 = (a - i + 1) + 1
      BY <1>1, <1>4, <2>1, <2>3 DEF NumberAt
    <2> QED
      BY <2>3, <2>4, <2>5, <2>6, <2>7, <2>8 DEF NumberAt
  <1>5. ASSUME NEW a, NEW b, NEW d, NEW e, NumberAt(c, 1, a, b, d, e, Len(c) + 1)
        PROVE  NumberAt(t, i, a + i - 1, b + i - 1, d + i - 1, e + i - 1, j)
    <2>1. /\ a \in Nat /\ b \in Nat /\ d \in Nat /\ e \in Nat
          /\ 1 <= a /\ a < b /\ b <= d /\ d <= e /\ e <= j - i + 1
      BY <1>1, <1>2, <1>5 DEF NumberAt
    <2>2. ASSUME NEW m \in Nat, NEW n \in Nat, 1 <= m, n <= j - i + 1, DigitsFrom(c, m, n)
          PROVE  DigitsFrom(t, m + i - 1, n + i - 1)
      <3>1. ASSUME NEW k \in m + i - 1 .. (n + i - 1) - 1 PROVE t[k] \in Digits
        <4>1. k \in i .. j - 1 /\ k - i + 1 \in m .. n - 1
          BY <1>1, <2>2
        <4> QED
          BY <1>3, <2>2, <4>1 DEF DigitsFrom
      <3> QED
        BY <3>1 DEF DigitsFrom
    <2>3. /\ DigitsFrom(t, a + i - 1, b + i - 1)
          /\ t[a + i - 1] = c[a]
      <3>1. a \in 1 .. j - i /\ i + a - 1 = a + i - 1
        BY <1>1, <2>1
      <3>2. c[a] = t[i + a - 1]
        BY <1>2, <3>1
      <3>3. DigitsFrom(c, a, b) /\ b <= j - i + 1
        BY <1>1, <1>5, <2>1 DEF NumberAt
      <3> QED
        BY <2>1, <2>2, <3>1, <3>2, <3>3
    <2>4. a + i - 1 = i \/ (a + i - 1 = i + 1 /\ t[i] = "-")
      <3>1. c[1] = t[i]
        BY <1>1, <1>2
      <3> QED
        BY <1>1, <1>5, <2>1, <3>1 DEF NumberAt
    <2>5. \/ d + i - 1 = b + i - 1
          \/ /\ t[b + i - 1] = "." /\ (b + i - 1) + 1 < d + i - 1
             /\ DigitsFrom(t, (b + i - 1) + 1, d + i - 1)
      <3>1. CASE d = b
        BY <3>1
      <3>2. CASE d # b
        <4>1. c[b] = "." /\ b + 1 < d /\ DigitsFrom(c, b + 1, d)
          BY <1>5, <3>2 DEF NumberAt
        <4>2. DigitsFrom(t, (b + 1) + i - 1, d + i - 1)
          BY <1>1, <2>1, <2>2, <4>1
        <4>3. c[b] = t[i + b - 1]
          BY <1>1, <1>2, <2>1, <4>1
        <4>4. (b + 1) + i - 1 = (b + i - 1) + 1 /\ (b + i - 1) + 1 < d + i - 1
              /\ i + b - 1 = b + i - 1
          BY <1>1, <2>1, <4>1
        <4> QED
          BY <4>1, <4>2, <4>3, <4>4
      <3> QED
        BY <3>1, <3>2
    <2>6. \/ e + i - 1 = d + i - 1 /\ j = d + i - 1
          \/ /\ t[d + i - 1] = "e" /\ e + i - 1 < j
             /\ DigitsFrom(t, e + i - 1, j)
             /\ \/ e + i - 1 = (d + i - 1) + 1
                \/ e + i - 1 = (d + i - 1) + 2 /\ t[(d + i - 1) + 1] \in {"+", "-"}
      <3>1. CASE e = d /\ Len(c) + 1 = d
        BY <1>1, <1>2, <2>1, <3>1
      <3>2. CASE ~(e = d /\ Len(c) + 1 = d)
        <4>1. /\ c[d] = "e" /\ e < j - i + 1 /\ DigitsFrom(c, e, j - i + 1)
              /\ e = d + 1 \/ (e = d + 2 /\ c[d + 1] \in {"+", "-"})
          BY <1>2, <1>5, <3>2 DEF NumberAt
        <4>2. DigitsFrom(t, e + i - 1, (j - i + 1) + i - 1) /\ (j - i + 1) + i - 1 = j
          <5>1. j - i + 1 \in Nat
            BY <1>1
          <5> QED
            BY <1>1, <2>1, <2>2, <4>1, <5>1
        <4>3. c[d] = t[d + i - 1] /\ (e = d + 2 => c[d + 1] = t[(d + i - 1) + 1])
          <5>1. d \in 1 .. j - i /\ (e = d + 2 => d + 1 \in 1 .. j - i)
                /\ i + (d + 1) - 1 = (d + i - 1) + 1 /\ i + d - 1 = d + i - 1
            BY <1>1, <2>1, <4>1
          <5>2. c[d] = t[i + d - 1] /\ (e = d + 2 => c[d + 1] = t[i + (d + 1) - 1])
            BY <1>2, <5>1
          <5> QED
            BY <5>1, <5>2
        <4>4. /\ e + i - 1 < j
              /\ e = d + 1 => e + i - 1 = (d + i - 1) + 1
              /\ e = d + 2 => e + i - 1 = (d + i - 1) + 2
          BY <1>1, <2>1, <4>1
        <4> QED
          BY <4>1, <4>2, <4>3, <4>4
      <3> QED
        BY <3>1, <3>2
    <2>7. /\ a + i - 1 \in Nat /\ b + i - 1 \in Nat /\ d + i - 1 \in Nat /\ e + i - 1 \in Nat
          /\ a + i - 1 < b + i - 1 /\ b + i - 1 <= d + i - 1 /\ d + i - 1 <= e + i - 1
          /\ e + i - 1 <= j
      BY <1>1, <2>1
    <2>8. t[a + i - 1] = "0" => b + i - 1 = (a + i - 1) + 1
      BY <1>1, <1>5, <2>1, <2>3 DEF NumberAt
    <2> QED
      BY <2>3, <2>4, <2>5, <2>6, <2>7, <2>8 DEF NumberAt
  <1> QED
    BY <1>4, <1>5

\* number() of json.rs reads numbers and nothing else, in any text and from any place: what
\* it accepts is a number of the grammar, whose value is the double of this part of the
\* text and of nothing around it, however doubles round; and a number behind which no
\* symbol of a number follows is accepted and read to its end.
THEOREM NumbersAreReadExactly ==
  ASSUME NEW S, NEW t \in Seq(S), NEW i \in 1 .. Len(t)
  PROVE  /\ ReadNumber(t, i).ok =>
              \E j \in i + 1 .. Len(t) + 1 :
                /\ IsNumber(Cut(t, i, j - 1))
                /\ ReadNumber(t, i) = Ok(Num(Double(Cut(t, i, j - 1))), j)
         /\ \A j \in i + 1 .. Len(t) + 1 :
              IsNumber(Cut(t, i, j - 1)) /\ Peek(t, j) \notin Numeric =>
                ReadNumber(t, i) = Ok(Num(Double(Cut(t, i, j - 1))), j)
  <1>1. Len(t) \in Nat /\ i \in Nat \ {0} /\ i <= Len(t)
    BY LenProperties
  <1>2. ASSUME NEW j \in i + 1 .. Len(t) + 1
        PROVE  IsNumber(Cut(t, i, j - 1)) <=> \E a, b, d, e : NumberAt(t, i, a, b, d, e, j)
    <2> DEFINE c == SubSeq(t, i, j - 1)
    <2>1. j \in Nat /\ i < j /\ j <= Len(t) + 1 /\ j - 1 \in Nat /\ j - 1 <= Len(t)
      BY <1>1, <1>2
    <2>2. c \in Seq(S)
      BY <1>1, <2>1, PartOfText
    <2> HIDE DEF c
    <2>3. IsNumber(c) <=> \E a, b, d, e : NumberAt(c, 1, a, b, d, e, Len(c) + 1)
      BY <2>2, NumberStands
    <2>4. /\ \A a, b, d, e :
               NumberAt(t, i, a, b, d, e, j) =>
                 NumberAt(c, 1, a - i + 1, b - i + 1, d - i + 1, e - i + 1, Len(c) + 1)
          /\ \A a, b, d, e :
               NumberAt(c, 1, a, b, d, e, Len(c) + 1) =>
                 NumberAt(t, i, a + i - 1, b + i - 1, d + i - 1, e + i - 1, j)
      BY <1>1, <2>1, NumberMoves DEF c
    <2> QED
      BY <2>3, <2>4 DEF Cut, c
  <1>3. ASSUME ReadNumber(t, i).ok
        PROVE  \E j \in i + 1 .. Len(t) + 1 :
                 /\ IsNumber(Cut(t, i, j - 1))
                 /\ ReadNumber(t, i) = Ok(Num(Double(Cut(t, i, j - 1))), j)
    <2>1. PICK a, b, d, e, j :
            /\ NumberAt(t, i, a, b, d, e, j) /\ j \in i + 1 .. Len(t) + 1
            /\ ReadNumber(t, i) = Ok(Num(Double(SubSeq(t, i, j - 1))), j)
      BY <1>3, ReadIsNumber
    <2> QED
      BY <1>2, <2>1 DEF Cut
  <1>4. ASSUME NEW j \in i + 1 .. Len(t) + 1, IsNumber(Cut(t, i, j - 1)), Peek(t, j) \notin Numeric
        PROVE  ReadNumber(t, i) = Ok(Num(Double(Cut(t, i, j - 1))), j)
    <2>1. PICK a, b, d, e : NumberAt(t, i, a, b, d, e, j)
      BY <1>2, <1>4
    <2>2. j \in Nat /\ j <= Len(t) + 1
      BY <1>1, <1>4
    <2> QED
      BY <1>1, <1>4, <2>1, <2>2, NumberIsRead DEF Cut
  <1> QED
    BY <1>3, <1>4

=============================================================================
