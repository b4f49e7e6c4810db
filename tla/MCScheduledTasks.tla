-------------------------- MODULE MCScheduledTasks --------------------------
(* Small instances of ScheduledTasks for TLC: expressions that go on beyond *)
(* the bound of the clock, and one with a year that runs out.               *)
EXTENDS ScheduledTasks

Often == 1 .. 6
Once == {1}
WithYear == {Often, Once}
=============================================================================
