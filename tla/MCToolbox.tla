----------------------------- MODULE MCToolbox ------------------------------
EXTENDS Toolbox

\* CURRENT_PARAMS, a doubled N, a doubled p.
Builders == {<<16384, 8, 1>>, <<32768, 8, 1>>, <<16384, 8, 2>>}
NodeParams == <<16384, 8, 1>>

\* 30 December 1599, a Thursday.
StartDay == -135142
StartDate == <<1599, 12, 30>>

\* A question of three options and one of two.
Offered == [q1 |-> <<"red", "green", "blue">>, q2 |-> <<"yes", "no">>]
Ids == <<"a", "b", "c">>

=============================================================================
