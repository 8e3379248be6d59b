------------------------------ MODULE Toolbox -------------------------------
(***************************************************************************)
(* The parts of the backend that compute without sharing state with the    *)
(* rest: JSON, dates, digests and Base64, signatures, stored passwords,    *)
(* quiz grading, settings.  Each behaviour exercises one of them; they are *)
(* put together to be checked in one run.                                  *)
(***************************************************************************)
EXTENDS Json, Calendar, Crypto, Signatures, Passwords, Quiz, Settings

VARIABLE tool      \* the part that this behaviour exercises

Tools == {"json", "calendar", "crypto", "signatures", "passwords", "quiz", "settings"}

vars == <<tool, jsonVars, calendarVars, cryptoVars, signatureVars,
          passwordVars, quizVars, settingsVars>>

Init ==
  /\ tool \in Tools
  /\ JsonInit
  /\ CalendarInit
  /\ CryptoInit
  /\ SignaturesInit
  /\ tool # "signatures" => jwtSecret = CHOOSE secret \in JwtSecrets : TRUE
  /\ PasswordsInit
  /\ tool # "passwords" => stored = <<"bcrypt", Owned>>
  /\ QuizInit
  /\ SettingsInit

UsesJson ==
  /\ tool = "json" /\ JsonNext
  /\ UNCHANGED <<tool, calendarVars, cryptoVars, signatureVars,
                  passwordVars, quizVars, settingsVars>>

UsesCalendar ==
  /\ tool = "calendar" /\ NextDay
  /\ UNCHANGED <<tool, jsonVars, cryptoVars, signatureVars,
                  passwordVars, quizVars, settingsVars>>

UsesCrypto ==
  /\ tool = "crypto" /\ CryptoNext
  /\ UNCHANGED <<tool, jsonVars, calendarVars, signatureVars,
                  passwordVars, quizVars, settingsVars>>

UsesSignatures ==
  /\ tool = "signatures" /\ SignaturesNext
  /\ UNCHANGED <<tool, jsonVars, calendarVars, cryptoVars,
                  passwordVars, quizVars, settingsVars>>

UsesPasswords ==
  /\ tool = "passwords" /\ PasswordsNext
  /\ UNCHANGED <<tool, jsonVars, calendarVars, cryptoVars, signatureVars,
                  quizVars, settingsVars>>

UsesQuiz ==
  /\ tool = "quiz" /\ QuizNext
  /\ UNCHANGED <<tool, jsonVars, calendarVars, cryptoVars, signatureVars,
                  passwordVars, settingsVars>>

UsesSettings ==
  /\ tool = "settings" /\ SettingsNext
  /\ UNCHANGED <<tool, jsonVars, calendarVars, cryptoVars, signatureVars,
                  passwordVars, quizVars>>

Next ==
  \/ UsesJson \/ UsesCalendar \/ UsesCrypto \/ UsesSignatures
  \/ UsesPasswords \/ UsesQuiz \/ UsesSettings

Spec == Init /\ [][Next]_vars

=============================================================================
