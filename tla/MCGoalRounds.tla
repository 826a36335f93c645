---------------------------- MODULE MCGoalRounds ----------------------------
\* What a person may do and the caps are given by the .cfg files.
EXTENDS GoalRounds
=============================================================================
