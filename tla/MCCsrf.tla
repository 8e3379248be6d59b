------------------------------- MODULE MCCsrf -------------------------------
(***************************************************************************)
(* An instance of Csrf for TLC.                                            *)
(***************************************************************************)
EXTENDS Csrf, TLC

CONSTANTS b1, b2, alice, bob, r1, r2

TwoOfAliceOneOfBob == {<<alice, 1>>, <<alice, 2>>, <<bob, 1>>}

\* A browser alone on its account, that loses an answer, or whose token the server
\* forgets; a browser used for two accounts; two browsers on one account.
OneTwoShared ==
  { [accounts |-> b1 :> {alice} @@ b2 :> {}, kinds |-> Kinds, mishaps |-> 1],
    [accounts |-> b1 :> {alice, bob} @@ b2 :> {}, kinds |-> {"signin", "mutate"},
     mishaps |-> 0],
    [accounts |-> b1 :> {alice} @@ b2 :> {alice}, kinds |-> {"signin", "mutate"},
     mishaps |-> 1] }

=============================================================================
