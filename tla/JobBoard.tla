------------------------------ MODULE JobBoard ------------------------------
(***************************************************************************)
(* What the queue of background jobs promises, seen from outside: jobs are *)
(* submitted, wait, are worked on and are done.  It says nothing of tasks, *)
(* permits, statements or restarts.  A job has a key, its type and book,   *)
(* and for some keys, the exclusive ones, there is at most one unfinished  *)
(* job at a time.                                                          *)
(***************************************************************************)
EXTENDS Naturals

CONSTANTS Ids, Keys, Exclusive
VARIABLES phase, key

vars == <<phase, key>>
Phases == {"new", "waiting", "active", "done"}
Unfinished(k) == {j \in Ids : phase[j] \in {"waiting", "active"} /\ key[j] = k}

Init ==
    /\ phase = [j \in Ids |-> "new"]
    /\ key \in [Ids -> Keys]

\* A new job is put up; refused while its exclusive key is taken.
Submit(j, k) ==
    /\ phase[j] = "new"
    /\ k \in Exclusive => Unfinished(k) = {}
    /\ phase' = [phase EXCEPT ![j] = "waiting"]
    /\ key' = [key EXCEPT ![j] = k]

\* Work starts on the job that has waited longest.
Start(j) ==
    /\ phase[j] = "waiting"
    /\ \A i \in Ids : phase[i] = "waiting" => j <= i
    /\ phase' = [phase EXCEPT ![j] = "active"]
    /\ UNCHANGED key

\* Jobs end together, done or given up, for good.
Finish(S) ==
    /\ \A j \in S : phase[j] \in {"waiting", "active"}
    /\ phase' = [j \in Ids |-> IF j \in S THEN "done" ELSE phase[j]]
    /\ UNCHANGED key

\* All the work under way is lost, and its jobs wait again.
Requeue ==
    /\ phase' = [j \in Ids |-> IF phase[j] = "active" THEN "waiting" ELSE phase[j]]
    /\ UNCHANGED key

Next ==
    \/ \E j \in Ids, k \in Keys : Submit(j, k)
    \/ \E j \in Ids : Start(j)
    \/ \E S \in SUBSET Ids : Finish(S)
    \/ Requeue

Spec == Init /\ [][Next]_vars

\* A job that waits is in the end started or given up.
Leave(j) == phase[j] = "waiting" /\ (Start(j) \/ Finish({j}))
FairSpec == Spec /\ \A j \in Ids : WF_vars(Leave(j))
=============================================================================
