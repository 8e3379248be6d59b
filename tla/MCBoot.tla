------------------------------- MODULE MCBoot -------------------------------
(***************************************************************************)
(* An instance of Boot for TLC: two core tables, one with two columns to   *)
(* repair, and one table of the application.                               *)
(***************************************************************************)
EXTENDS Boot

CONSTANTS
  a1, a2, a3, a4, c1, c2, p1, p2,
  Users, Auths, UserProgress, stripeID, usage_count, password,
  users_email, userprogress_user_course

MCCoreTables == <<Users, Auths>>
MCCoreIndexes == <<users_email>>
MCAppTables == <<UserProgress>>
MCAppIndexes == <<userprogress_user_course>>

MCTableOf ==
  [i \in {users_email, userprogress_user_course} |->
     IF i = users_email THEN Users ELSE UserProgress]

MCColumnsOf ==
  [t \in {Users, Auths} |-> IF t = Users THEN {stripeID, usage_count} ELSE {password}]

=============================================================================
