------------------------------ MODULE TaskPool ------------------------------
(***************************************************************************)
(* What glz::pool promises of the jobs given to it, whatever its threads,  *)
(* locks and condition variables do: a job is taken once, in the order of  *)
(* submission, it runs while it is in nobody else's hands, and it is done  *)
(* once.                                                                   *)
(***************************************************************************)
EXTENDS Sequences

CONSTANT Task

VARIABLES
    pending,   \* jobs submitted and not taken, oldest first
    running,   \* jobs in the hands of a worker
    done       \* jobs whose future is ready

vars == <<pending, running, done>>

Submitted == {pending[i] : i \in DOMAIN pending} \cup running \cup done

Init == pending = <<>> /\ running = {} /\ done = {}

Submit(t) ==
    /\ t \notin Submitted
    /\ pending' = Append(pending, t)
    /\ UNCHANGED <<running, done>>

Take ==
    /\ pending # <<>>
    /\ pending' = Tail(pending)
    /\ running' = running \cup {Head(pending)}
    /\ UNCHANGED done

Finish(t) ==
    /\ t \in running
    /\ running' = running \ {t}
    /\ done' = done \cup {t}
    /\ UNCHANGED pending

Next == Take \/ \E t \in Task : Submit(t) \/ Finish(t)

Spec == Init /\ [][Next]_vars
=============================================================================
