---------------------------- MODULE MCAlarmIngest ----------------------------
(* Values of the constants of AlarmIngest for TLC. *)
EXTENDS AlarmIngest

Deploy(queue, autoCommits, restarts) ==
    [queue |-> queue, autoCommits |-> autoCommits, restarts |-> restarts]

(* A queue that overflows with everybody going down, one with room for all *)
(* records and nobody going down.                                          *)
HostileAndCalm == {Deploy(2, TRUE, TRUE), Deploy(MaxRecords, TRUE, FALSE)}
=============================================================================
