------------------------------ MODULE Progress ------------------------------
(***************************************************************************)
(* What a learner leaves in the database: the tables UserProgress,         *)
(* Enrollments and Bookmarks and the handlers of routes.rs that write      *)
(* them.  Every handler reads a row in one pool call and writes in a later *)
(* one; UserProgress holds whole lists as text, so a write replaces the    *)
(* list another request may have extended in between.                      *)
(*                                                                         *)
(* One course: each statement names the user and the course, so courses    *)
(* never meet.  Sign-in and the CSRF check come first and are modelled in  *)
(* Accounts and Csrf.                                                      *)
(***************************************************************************)
EXTENDS Integers, Sequences, FiniteSets, FiniteSetsExt, SequencesExt

CONSTANTS
  Threads,     \* HTTP workers
  Users,
  Guides, Quizzes, Reps,
  Sections,    \* guide sections a bookmark may point to
  Minutes,     \* values of actualMinutes; the client may send any integer
  Inactive,    \* users whose enrollment another application has ended
  MaxRequests, \* bound on the requests, which also number rows and attempts
  MaxMishaps   \* bound on failed calls and crashes

ASSUME ProgressAssumption ==
  /\ Minutes \subseteq Int
  /\ Inactive \subseteq Users
  /\ {MaxRequests, MaxMishaps} \subseteq Nat

VARIABLES
  progress,    \* rows of UserProgress
  enrollments, \* rows of Enrollments
  bookmarks,   \* rows of Bookmarks
  thread,      \* thread[t]: its request and what it has read
  requests,    \* requests so far
  mishaps,
  told,        \* requests answered 200
  raced        \* those Overtaken by another request for the same list

tables == <<progress, enrollments, bookmarks>>
vars == <<tables, thread, requests, mishaps, told, raced>>

\* A request: its number, its user, what it does, to what, and the body's minutes or verdict.
Request(u, op, item, n) == [user |-> u, op |-> op, item |-> item, value |-> n]

Submissions(u) ==
  {Request(u, "quiz", q, n) : q \in Quizzes, n \in {0, 1}} \cup   \* 1: grade_quiz passed it
  {Request(u, "guide", g, 0) : g \in Guides} \cup
  {Request(u, "rep", r, n) : r \in Reps, n \in Minutes}

Other(u) ==
  {Request(u, "enroll", "course", 0)} \cup
  {Request(u, op, s, 0) : op \in {"mark", "unmark"}, s \in Sections} \cup
  {Request(u, "forget", b.id, 0) : b \in bookmarks}   \* an id the client has seen

Idle == [step |-> "idle"]

\* Rows of Enrollments an older application left behind are numbered 0.
Init ==
  /\ progress = {}
  /\ enrollments = {[id |-> 0, user |-> u, status |-> "ended"] : u \in Inactive}
  /\ bookmarks = {}
  /\ thread = [t \in Threads |-> Idle]
  /\ requests = 0
  /\ mishaps = 0
  /\ told = {}
  /\ raced = {}

At(t, step) == thread[t].step = step

Arrive(t) ==
  /\ At(t, "idle")
  /\ requests < MaxRequests
  /\ requests' = requests + 1
  /\ \E u \in Users : \E q \in Submissions(u) \cup Other(u) :
       thread' = [thread EXCEPT ![t] = [step |-> "find", id |-> requests', req |-> q]]
  /\ UNCHANGED <<tables, mishaps, told, raced>>

Goto(t, step) == thread' = [thread EXCEPT ![t].step = step]

\* courses_dispatch: the handler's first statement once the course and the quiz, guide or
\* rep are found; bookmarks are kept by slug and look nothing up.
First(op) ==
  CASE op \in {"quiz", "guide", "rep"} -> "select"
    [] op = "enroll" -> "enrollment"
    [] OTHER -> op

Found(t) ==
  /\ At(t, "find")
  /\ Goto(t, First(thread[t].req.op))
  /\ UNCHANGED <<tables, requests, mishaps, told, raced>>

\* Course, quiz, guide or rep is not there or not published, or the body is no JSON.
Refuse(t) ==
  /\ At(t, "find")
  /\ thread' = [thread EXCEPT ![t] = Idle]
  /\ UNCHANGED <<tables, requests, mishaps, told, raced>>

Of(t, table) == {row \in table : row.user = thread[t].req.user}

\* 200: the request has done what it was asked for.
Tell(t) ==
  /\ thread' = [thread EXCEPT ![t] = Idle]
  /\ told' = told \cup {[id |-> thread[t].id, req |-> thread[t].req]}

\* 500: a unique index refused the row, and the user is told nothing.
Conflict(t) ==
  /\ thread' = [thread EXCEPT ![t] = Idle]
  /\ UNCHANGED <<tables, told>>

-----------------------------------------------------------------------------
(***************************************************************************)
(* UserProgress: get_or_create_progress and the three handlers that use it.*)
(***************************************************************************)

NewRow(t) ==
  [id |-> thread[t].id, user |-> thread[t].req.user,
   completedGuides |-> <<>>, quizAttempts |-> <<>>, repAttempts |-> <<>>,
   totalTimeSpentMinutes |-> 0]

ReadRow(t, row) ==
  thread' = [thread EXCEPT ![t] = [step |-> "update", id |-> thread[t].id,
                                   req |-> thread[t].req, row |-> row]]

SelectProgress(t) ==
  /\ At(t, "select")
  /\ \/ Of(t, progress) = {} /\ Goto(t, "create")
     \/ \E row \in Of(t, progress) : ReadRow(t, row)
  /\ UNCHANGED <<tables, requests, mishaps, told, raced>>

\* Plausible bug: the unique index is missing.
CreateUnchecked(t) ==
  /\ At(t, "create")
  /\ progress' = progress \cup {NewRow(t)}
  /\ ReadRow(t, NewRow(t))
  /\ UNCHANGED <<enrollments, bookmarks, told, requests, mishaps, raced>>

\* INSERT: idx_userprogress_user_course refuses the second row of a user.
CreateProgress(t) ==
  /\ At(t, "create")
  /\ \/ /\ Of(t, progress) = {}
        /\ progress' = progress \cup {NewRow(t)}
        /\ ReadRow(t, NewRow(t))
        /\ UNCHANGED <<enrollments, bookmarks, told>>
     \/ Of(t, progress) # {} /\ Conflict(t)
  /\ UNCHANGED <<requests, mishaps, raced>>

Attempt(t) ==
  LET q == thread[t].req IN [id |-> thread[t].id, item |-> q.item, value |-> q.value]

\* Plausible bug: the whole row is written back, as it was read.
WriteWholeRow(t, row) ==
  LET q == thread[t].req  old == thread[t].row IN
  CASE q.op = "quiz" -> [old EXCEPT !.quizAttempts = Append(old.quizAttempts, Attempt(t))]
    [] q.op = "guide" -> [old EXCEPT !.completedGuides = Append(old.completedGuides, q.item)]
    [] OTHER -> [old EXCEPT !.repAttempts = Append(old.repAttempts, Attempt(t)),
                            !.totalTimeSpentMinutes = old.totalTimeSpentMinutes + q.value]

\* Plausible bug: the minutes are added in the statement, to the total it finds.
AddToStoredTotal(t, row) ==
  LET q == thread[t].req  old == thread[t].row IN
  CASE q.op = "quiz" -> [row EXCEPT !.quizAttempts = Append(old.quizAttempts, Attempt(t))]
    [] q.op = "guide" -> [row EXCEPT !.completedGuides = Append(old.completedGuides, q.item)]
    [] OTHER -> [row EXCEPT !.repAttempts = Append(old.repAttempts, Attempt(t)),
                            !.totalTimeSpentMinutes = row.totalTimeSpentMinutes + q.value]

\* The UPDATE of each handler: the columns it names get what the row it read makes of them.
Updated(t, row) ==
  LET q == thread[t].req  old == thread[t].row IN
  CASE q.op = "quiz" -> [row EXCEPT !.quizAttempts = Append(old.quizAttempts, Attempt(t))]
    [] q.op = "guide" -> [row EXCEPT !.completedGuides = Append(old.completedGuides, q.item)]
    [] OTHER -> [row EXCEPT !.repAttempts = Append(old.repAttempts, Attempt(t)),
                            !.totalTimeSpentMinutes = old.totalTimeSpentMinutes + q.value]

\* guide_complete: a guide in the list it read is not written again.
Already(t) ==
  /\ thread[t].req.op = "guide"
  /\ Contains(thread[t].row.completedGuides, thread[t].req.item)

\* Another request will write the same list from what it has read before, or has written
\* it since this one found its guide there.
Overtaken(t) ==
  \/ \E s \in Threads \ {t} : /\ At(s, "update")
                              /\ thread[s].req.op = thread[t].req.op
                              /\ thread[s].req.user = thread[t].req.user
  \/ Already(t) /\ \A row \in Of(t, progress) :
                     row.completedGuides # thread[t].row.completedGuides

UpdateProgress(t) ==
  /\ At(t, "update")
  /\ progress' = IF Already(t) THEN progress
                 ELSE (progress \ Of(t, progress)) \cup
                      {Updated(t, row) : row \in Of(t, progress)}
  /\ raced' = IF Overtaken(t) THEN raced \cup {thread[t].id} ELSE raced
  /\ Tell(t)
  /\ UNCHANGED <<enrollments, bookmarks, requests, mishaps>>

\* detailed_progress, what progress_get shows of a row.
completedGuideIds(row) == ToSet(row.completedGuides)
passedQuizIds(row) == {a.item : a \in {x \in ToSet(row.quizAttempts) : x.value = 1}}
completedRepIds(row) == {a.item : a \in ToSet(row.repAttempts)}

-----------------------------------------------------------------------------
(***************************************************************************)
(* course_enroll.                                                          *)
(***************************************************************************)

FindEnrollment(t) ==
  /\ At(t, "enrollment")
  /\ \/ Of(t, enrollments) = {} /\ Goto(t, "insert_enrollment") /\ UNCHANGED told
     \/ \E row \in Of(t, enrollments) :
          IF row.status = "active" THEN Tell(t)
          ELSE /\ thread' = [thread EXCEPT ![t] = [step |-> "activate", id |-> thread[t].id,
                                                   req |-> thread[t].req, row |-> row]]
               /\ UNCHANGED told
  /\ UNCHANGED <<tables, requests, mishaps, raced>>

Activate(t) ==
  /\ At(t, "activate")
  /\ enrollments' = {IF e.id = thread[t].row.id /\ e.user = thread[t].req.user
                     THEN [e EXCEPT !.status = "active"] ELSE e : e \in enrollments}
  /\ Tell(t)
  /\ UNCHANGED <<progress, bookmarks, requests, mishaps, raced>>

\* INSERT: idx_enrollments_user_course refuses the second row of a user.
InsertEnrollment(t) ==
  /\ At(t, "insert_enrollment")
  /\ \/ /\ Of(t, enrollments) = {}
        /\ enrollments' = enrollments \cup
              {[id |-> thread[t].id, user |-> thread[t].req.user, status |-> "active"]}
        /\ Tell(t)
        /\ UNCHANGED <<progress, bookmarks>>
     \/ Of(t, enrollments) # {} /\ Conflict(t)
  /\ UNCHANGED <<requests, mishaps, raced>>

-----------------------------------------------------------------------------
(***************************************************************************)
(* Bookmarks, one pool call each.                                          *)
(***************************************************************************)

Section(t) == thread[t].req.item

\* guide_bookmarks_post: the index refuses a section marked already.
Mark(t) ==
  LET same == {b \in Of(t, bookmarks) : b.section = Section(t)} IN
  /\ At(t, "mark")
  /\ \/ /\ same = {}
        /\ bookmarks' = bookmarks \cup
              {[id |-> thread[t].id, user |-> thread[t].req.user, section |-> Section(t)]}
        /\ Tell(t)
        /\ UNCHANGED <<progress, enrollments>>
     \/ same # {} /\ Conflict(t)
  /\ UNCHANGED <<requests, mishaps, raced>>

\* guide_bookmarks_delete, by section; any number of rows, none included, is a success.
Unmark(t) ==
  /\ At(t, "unmark")
  /\ bookmarks' = bookmarks \ {b \in Of(t, bookmarks) : b.section = Section(t)}
  /\ Tell(t)
  /\ UNCHANGED <<progress, enrollments, requests, mishaps, raced>>

\* bookmark_delete, by id, of the user's own rows.
Forget(t) ==
  /\ At(t, "forget")
  /\ bookmarks' = bookmarks \ {b \in Of(t, bookmarks) : b.id = Section(t)}
  /\ Tell(t)
  /\ UNCHANGED <<progress, enrollments, requests, mishaps, raced>>

-----------------------------------------------------------------------------
\* A pool call fails: nothing written, 500.
CallFails(t) ==
  /\ thread[t].step # "idle"
  /\ mishaps < MaxMishaps
  /\ mishaps' = mishaps + 1
  /\ thread' = [thread EXCEPT ![t] = Idle]
  /\ UNCHANGED <<tables, requests, told, raced>>

\* The process stops between any two calls and starts again on the same database.
Crash ==
  /\ mishaps < MaxMishaps
  /\ mishaps' = mishaps + 1
  /\ thread' = [t \in Threads |-> Idle]
  /\ UNCHANGED <<tables, requests, told, raced>>

Handle(t) ==
  \/ Found(t) \/ Refuse(t)
  \/ SelectProgress(t) \/ CreateProgress(t) \/ UpdateProgress(t)
  \/ FindEnrollment(t) \/ Activate(t) \/ InsertEnrollment(t)
  \/ Mark(t) \/ Unmark(t) \/ Forget(t)

Next ==
  \/ \E t \in Threads : Arrive(t) \/ Handle(t) \/ CallFails(t)
  \/ Crash

Spec == Init /\ [][Next]_vars

-----------------------------------------------------------------------------
(***************************************************************************)
(* Properties.                                                             *)
(***************************************************************************)

\* The unique indexes of UserProgress, Enrollments and Bookmarks: however requests
\* interleave, a user has one row of progress and one enrollment per course, and marks a
\* section once, though each handler looks for the row and inserts it in two calls.
OneRowEach ==
  /\ \A r, s \in progress : r.user = s.user => r = s
  /\ \A e, f \in enrollments : e.user = f.user => e = f
  /\ \A b, c \in bookmarks : b.user = c.user /\ b.section = c.section => b = c

\* quiz_submit, guide_complete, rep_complete, course_enroll: what was answered 200 shows
\* in the user's progress for ever, whatever other requests, failures and crashes come
\* after, unless another request for the same list ran between its read and its answer or
\* had read the list by then and wrote it later.
AnsweredIsKept ==
  \A q \in {q \in told : q.id \notin raced} :
    LET mine(table) == {row \in table : row.user = q.req.user} IN
    CASE q.req.op = "quiz" -> \E row \in mine(progress) :
           /\ \E a \in ToSet(row.quizAttempts) : a.id = q.id
           /\ q.req.value = 1 => q.req.item \in passedQuizIds(row)
      [] q.req.op = "guide" -> \E row \in mine(progress) : q.req.item \in completedGuideIds(row)
      [] q.req.op = "rep" -> \E row \in mine(progress) : q.req.item \in completedRepIds(row)
      [] q.req.op = "enroll" -> \E row \in mine(enrollments) : row.status = "active"
      [] OTHER -> TRUE

MinutesOf(attempts) ==
  LET sum[n \in 0 .. Len(attempts)] == IF n = 0 THEN 0 ELSE sum[n - 1] + attempts[n].value
  IN  sum[Len(attempts)]

\* rep_complete, guide_complete: even when an update is lost the row agrees with itself:
\* the minutes are those of the attempts listed, and no guide is listed twice.
RowAddsUp ==
  \A row \in progress :
    /\ row.totalTimeSpentMinutes = MinutesOf(row.repAttempts)
    /\ IsInjective(row.completedGuides)

=============================================================================
