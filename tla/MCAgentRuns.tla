----------------------------- MODULE MCAgentRuns -----------------------------
(* Values of the constants of AgentRuns for TLC. *)
EXTENDS AgentRuns, TLC

CONSTANTS r1, w1, w2

OneRun == {r1}
TwoWorkers == {w1, w2}

OverlappingAndInTurn == {[threads |-> 2], [threads |-> 1]}

Symmetry == Permutations(Worker)
=============================================================================
