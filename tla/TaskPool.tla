------------------------------ MODULE TaskPool ------------------------------
(***************************************************************************)
(* What the fiber scheduler promises: a task that is submitted runs, on    *)
(* one thread at a time and possibly in several turns, until it completes; *)
(* it is not run again afterwards, and the pool closes only when no        *)
(* submitted task is left.                                                 *)
(***************************************************************************)
CONSTANT Tasks

VARIABLES status, open

Statuses == {"new", "ready", "running", "done"}

Init ==
    /\ status = [t \in Tasks |-> "new"]
    /\ open = FALSE

Move(t, from, to) ==
    /\ status[t] = from
    /\ status' = [status EXCEPT ![t] = to]
    /\ UNCHANGED open

Submit(t) == Move(t, "new", "ready")
Dispatch(t) == open /\ Move(t, "ready", "running")
Suspend(t) == Move(t, "running", "ready")
Complete(t) == Move(t, "running", "done")

Open == ~open /\ open' = TRUE /\ UNCHANGED status

Close ==
    /\ open
    /\ \A t \in Tasks : status[t] \in {"new", "done"}
    /\ open' = FALSE
    /\ UNCHANGED status

Next ==
    \/ \E t \in Tasks : Submit(t) \/ Dispatch(t) \/ Suspend(t) \/ Complete(t)
    \/ Open
    \/ Close

Spec == Init /\ [][Next]_<<status, open>>
=============================================================================
