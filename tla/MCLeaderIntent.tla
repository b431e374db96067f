-------------------------- MODULE MCLeaderIntent --------------------------
(* Small instances of LeaderIntent: which rules ask. *)
EXTENDS LeaderIntent

\* The quest drive, the regroup, the travel column's errands and the run.
MCLeaderRules == {QuestDriver, Regrouper, Runner} \cup ColumnErrands
\* Those that may fall silent: the fetch, the regroup and an operator.
MCForgetful == {Regrouper, Fetcher, Operator}
MCFairRules == {QuestDriver} \cup MCForgetful
MCNone == {}
MCPicksQuest == {"QuestDrive"}

=============================================================================
