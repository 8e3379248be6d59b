-------------------------------- MODULE Quiz --------------------------------
(***************************************************************************)
(* One quiz, from its row to the graded result: quiz_attempt shuffles the  *)
(* options of each question, the page shows them in the order of their ids *)
(* and sends back what was picked, and quiz_submit grades that against the *)
(* row (routes.rs).                                                        *)
(***************************************************************************)
EXTENDS Naturals, Sequences, FiniteSets, SequencesExt, FiniteSetsExt, Functions

CONSTANTS
  Questions,      \* question ids
  OptionTexts,    \* OptionTexts[q]: the sequence of texts the author offers
  Letters,        \* option ids in their order: "a", "b", ...; no text is a letter
  PointsChoices,  \* points a question may carry: {}, or a set of one number
  PassingScore,
  Null            \* Json::Null: not answered

\* Every quiz of databases/AppSchool.db is of this kind; nothing in the code makes it so.
ASSUME QuizAssumption ==
  /\ IsFiniteSet(Questions) /\ Questions # {}
  /\ Letters \in Seq(Range(Letters)) /\ IsInjective(Letters) /\ Null \notin Range(Letters)
  /\ \A q \in Questions :
       /\ OptionTexts[q] \in Seq(Range(OptionTexts[q])) /\ IsInjective(OptionTexts[q])
       /\ Len(OptionTexts[q]) <= Len(Letters)
       /\ Range(OptionTexts[q]) \cap (Range(Letters) \cup {Null}) = {}
  /\ \A points \in PointsChoices : points = {} \/ \E n \in points : points = {n}
  /\ UNION PointsChoices \subseteq Nat \ {0}
  /\ PassingScore \in Nat

VARIABLES
  phase,      \* "draft", "stored", "shown", "graded"
  quiz,       \* quiz[q]: the options of the row, correctAnswer, points
  shown,      \* shown[q]: the options as quiz_attempt sends them
  answers,    \* answers[q]: what the page sends for q
  result      \* what grade_quiz returns

quizVars == <<phase, quiz, shown, answers, result>>

Orders(s) == {[i \in DOMAIN s |-> s[p[i]]] : p \in Bijection(DOMAIN s, DOMAIN s)}

-----------------------------------------------------------------------------
\* option_id() and option_text(): an option is a string, or has an id and a text.
AsString(text) == [id |-> text, text |-> text, object |-> FALSE]
Lettered(id, text) == [id |-> id, text |-> text, object |-> TRUE]

\* options.sort_by(option_id).
InOrder(options) ==
  CHOOSE s \in Orders(options) :
    \A i, j \in DOMAIN s : \A k, l \in DOMAIN Letters :
      s[i].id = Letters[k] /\ s[j].id = Letters[l] /\ k < l => i < j

\* Plausible bug: a letter is an index into the options as the row has them.
TextByRow(question, answer) ==
  LET options == question.options
      at == {k \in DOMAIN Letters : Letters[k] = answer} \cap DOMAIN options
      same == {i \in DOMAIN options : options[i].object /\ options[i].id = answer}
  IN  IF at # {} THEN options[Min(at)].text
      ELSE IF same # {} THEN options[Min(same)].text ELSE answer

\* get_option_text(): a letter is an index into the options in their order, else the id of
\* an option, else the text itself.
GetOptionText(question, answer) ==
  LET options == question.options
      at == {k \in DOMAIN Letters : Letters[k] = answer} \cap DOMAIN options
      same == {i \in DOMAIN options : options[i].object /\ options[i].id = answer}
  IN  IF at # {} THEN InOrder(options)[Min(at)].text
      ELSE IF same # {} THEN options[Min(same)].text ELSE answer

PointsOf(question) == IF question.points = {} THEN 1 ELSE Max(question.points)

\* (earned / total * 100).round(), or 0 for a quiz without points.  Quotient and product
\* are f64, so what is exactly a half may come out below it: 23 of 40 is 57, not 58.  Of
\* other scores the error is too small to matter, for totals of less than 2^40.
Scores(earned, total) ==
  LET up == (200 * earned + total) \div (2 * total)
  IN  IF total = 0 THEN {0}
      ELSE IF (200 * earned + total) % (2 * total) = 0 THEN {up, up - 1} ELSE {up}

\* The sum of the numbers of w, each as many pairs.
SumOver(w) == Cardinality(UNION {{x} \X (1 .. w[x]) : x \in DOMAIN w})

\* grade_quiz(): what it may return.
GradeQuiz(given) ==
  LET Correct(q) == given[q] = quiz[q].correctAnswer
      earned == [q \in Questions |-> IF Correct(q) THEN PointsOf(quiz[q]) ELSE 0]
      worth == [q \in Questions |-> PointsOf(quiz[q])]
  IN  { [ score |-> score,
          passed |-> score >= PassingScore,
          correctCount |-> Cardinality({q \in Questions : Correct(q)}),
          results |-> [q \in Questions |->
            [ correct |-> Correct(q),
              userAnswer |-> GetOptionText(quiz[q], given[q]),
              correctAnswer |-> GetOptionText(quiz[q], quiz[q].correctAnswer),
              points |-> earned[q] ]] ]
        : score \in Scores(SumOver(earned), SumOver(worth)) }

-----------------------------------------------------------------------------
\* What an author may store for q: the options in any order, lettered or as strings.
QuizRows(q) ==
  LET texts == OptionTexts[q]
      lettered == [i \in DOMAIN texts |-> Lettered(Letters[i], texts[i])]
      plain == [i \in DOMAIN texts |-> AsString(texts[i])]
  IN  UNION { {[options |-> s, correctAnswer |-> s[i].id, points |-> n] :
                 i \in DOMAIN s, n \in PointsChoices}
              : s \in Orders(lettered) \cup {plain} }

QuizInit ==
  /\ phase = "draft"
  /\ quiz = [q \in Questions |-> Null]
  /\ shown = [q \in Questions |-> <<>>]
  /\ answers = [q \in Questions |-> Null]
  /\ result = Null

Author ==
  /\ phase = "draft" /\ phase' = "stored"
  /\ quiz' \in {f \in [Questions -> UNION {QuizRows(q) : q \in Questions}] :
                  \A q \in Questions : f[q] \in QuizRows(q)}
  /\ UNCHANGED <<shown, answers, result>>

\* quiz_attempt() with shuffle_json(): any order may come out.
QuizAttempt ==
  /\ phase = "stored" /\ phase' = "shown"
  /\ shown' \in {f \in [Questions -> UNION {Orders(quiz[q].options) : q \in Questions}] :
                   \A q \in Questions : f[q] \in Orders(quiz[q].options)}
  /\ UNCHANGED <<quiz, answers, result>>

\* The page lists the options by id; a click sends the id, or the string.
Pick(q) ==
  /\ phase = "shown" /\ answers[q] = Null
  /\ \E i \in DOMAIN shown[q] : answers' = [answers EXCEPT ![q] = InOrder(shown[q])[i].id]
  /\ UNCHANGED <<phase, quiz, shown, result>>

\* quiz_submit(), as far as the grading goes; questions may be left out.
Submit ==
  /\ phase = "shown" /\ phase' = "graded"
  /\ result' \in GradeQuiz(answers)
  /\ UNCHANGED <<quiz, shown, answers>>

QuizNext == Author \/ QuizAttempt \/ Submit \/ \E q \in Questions : Pick(q)

-----------------------------------------------------------------------------
\* The text next to the id that was picked, on the page.
ReadOnPage(q) == LET o == {shown[q][i] : i \in DOMAIN shown[q]}
                 IN  IF answers[q] = Null THEN Null
                     ELSE (CHOOSE x \in o : x.id = answers[q]).text

\* grade_quiz() and get_option_text(): whatever the order of the row and of the shuffle,
\* the result shows the text that was picked and the author's, a question is right
\* exactly if they are the same text, and the score is the rounded percentage of the
\* points: with fewer than 200 points in all, 100 only for all of them.
GradedAsPicked ==
  phase = "graded" =>
    LET total == SumOver([q \in Questions |-> PointsOf(quiz[q])])
        earned == SumOver([q \in Questions |->
                             IF result.results[q].correct THEN PointsOf(quiz[q]) ELSE 0])
    IN  /\ \A q \in Questions :
             LET r == result.results[q]
             IN  /\ r.userAnswer = ReadOnPage(q)
                 /\ r.correct <=> r.userAnswer = r.correctAnswer
                 /\ \E i \in DOMAIN quiz[q].options :
                      /\ quiz[q].options[i].id = quiz[q].correctAnswer
                      /\ quiz[q].options[i].text = r.correctAnswer
        /\ 2 * result.score * total <= 200 * earned + total
        /\ 200 * earned <= 2 * result.score * total + total
        /\ result.passed <=> result.score >= PassingScore
        /\ total < 200 =>
             (result.score = 100 <=> result.correctCount = Cardinality(Questions))

=============================================================================
