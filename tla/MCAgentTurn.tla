---------------------------- MODULE MCAgentTurn ----------------------------
(* Batches of calls for the runs of AgentTurn.                              *)
EXTENDS AgentTurn

CONSTANTS w1, w2

TwoWorkers == {w1, w2}
Agents == {Main, w1, w2}

\* Each kind of call alone, beside another, and two workers at once.
Batches == {<<>>, <<"check", "edit">>, <<"job", w1>>, <<w1, w2>>}
Budgets == <<1, 3>>
OneBudget == <<3>>
Edits == {<<>>, <<"edit">>}
BothWorkers == {<<>>, <<w1, w2>>}
=============================================================================
