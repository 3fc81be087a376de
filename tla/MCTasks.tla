------------------------------ MODULE MCTasks ------------------------------
(* An instance of Tasks for TLC. *)
EXTENDS Tasks

CONSTANTS t1, t2

MCThreads == {t1, t2}

\* The main loop of one task sleeps two ticks, that of the other a tick and a half.
MCSleepTimes == [t \in MCThreads |-> IF t = t1 THEN {4} ELSE {3}]

\* Priorities are only compared, and one of the two tasks is at least as urgent.
FirstUrgent == priority[t1] = 1
==============================================================================
