------------------------ MODULE MCIdempotentRequests ------------------------
(* Values of the constants of IdempotentRequests for TLC. *)
EXTENDS IdempotentRequests, TLC

CONSTANTS k1, k2, q1, q2, q3

TwoKeys == {k1, k2}
ThreeRequests == {q1, q2, q3}

(* Both stores with requests in turn, Redis also behind the client that    *)
(* the factory builds, and the memory of one process with three            *)
(* overlapping requests.                                                   *)
Sound == { [store |-> "redis",  names |-> TRUE, threads |-> 1],
           [store |-> "redis",  names |-> FALSE, threads |-> 1],
           [store |-> "memory", names |-> TRUE, threads |-> 1],
           [store |-> "memory", names |-> TRUE, threads |-> 3] }

Symmetry == Permutations(Request) \cup Permutations(Key)
=============================================================================
