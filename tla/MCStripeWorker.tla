--------------------------- MODULE MCStripeWorker ---------------------------
(***************************************************************************)
(* An instance of StripeWorker for TLC.                                    *)
(***************************************************************************)
EXTENDS StripeWorker

CONSTANTS c1, c2, w1, w2

Checkouts == {<<"price", "checkout">>}

=============================================================================
