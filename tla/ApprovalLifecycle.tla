-------------------------- MODULE ApprovalLifecycle --------------------------
(***************************************************************************)
(* What an approval service promises about its tasks, with no notion of    *)
(* threads, snapshots or rows: a task is opened once, changes hands while  *)
(* it is open, and is closed at most once by one decision that nothing     *)
(* later revises.  The hand-overs a caller was told about are never lost.  *)
(***************************************************************************)
EXTENDS Sequences

CONSTANTS TaskId, HandOver

VARIABLES phase,       \* TaskId -> "absent", "open" or the final decision
          handOvers    \* TaskId -> the acknowledged hand-overs, in order

vars == <<phase, handOvers>>

Decision == {"approved", "rejected"}

TypeOK == /\ phase \in [TaskId -> {"absent", "open"} \cup Decision]
          /\ handOvers \in [TaskId -> Seq(HandOver)]

Init == /\ phase = [t \in TaskId |-> "absent"]
        /\ handOvers = [t \in TaskId |-> << >>]

Open(t) == /\ phase[t] = "absent"
           /\ phase' = [phase EXCEPT ![t] = "open"]
           /\ UNCHANGED handOvers

HandOverTo(t, h) == /\ phase[t] = "open"
                    /\ handOvers' = [handOvers EXCEPT ![t] = Append(@, h)]
                    /\ UNCHANGED phase

Close(t, d) == /\ phase[t] = "open"
               /\ phase' = [phase EXCEPT ![t] = d]
               /\ UNCHANGED handOvers

Next == \E t \in TaskId :
            \/ Open(t)
            \/ \E h \in HandOver : HandOverTo(t, h)
            \/ \E d \in Decision : Close(t, d)

Spec == Init /\ [][Next]_vars
=============================================================================
