---------------------------- MODULE LlmJobGauges ----------------------------
(***************************************************************************)
(* The Prometheus gauges of the job queue: LLM_JOBS_QUEUED and             *)
(* LLM_JOBS_RUNNING, adjusted by every function that changes llm_jobs (the *)
(* ones that forget to are visible here), and set anew from the table by   *)
(* the scheduler, which counts one status after the other and then sets.   *)
(* The gauges live in the process: they are 0 when it starts.              *)
(***************************************************************************)
EXTENDS LlmJobs, Integers

VARIABLES queuedGauge, runningGauge,
          refresh     \* counts read so far by refresh_database_size_metrics

gauges == <<queuedGauge, runningGauge>>
gvars == <<vars, gauges, refresh>>

NotRead == [queued |-> -1, running |-> -1]

GInit ==
    /\ Init
    /\ queuedGauge = 0 /\ runningGauge = 0 /\ refresh = NotRead

Adjust(dq, dr) ==
    /\ queuedGauge' = queuedGauge + dq
    /\ runningGauge' = runningGauge + dr
    /\ UNCHANGED refresh

\* The enqueue functions count the row they insert ...
GEnqueue ==
    /\ \/ \E b \in Books : EnqueueSemanticIndex(b)
       \/ \E c \in Callers : AskOrganize(c) \/ InsertOrganize(c)
       \/ EnqueueBackup
       \/ \E j \in JobIds : EnqueueClassify(j)
    /\ Adjust(inserted' - inserted, 0)

\* ... and admin_cover_regenerate does not, nor do the cancellation of a task
\* and the cascade of a deleted book.
GUncounted ==
    /\ \/ \E S \in SUBSET Books : RegenStart(S)
       \/ \E b \in Books : RegenInsert(b) \/ DeleteBook(b)
       \/ RegenAbort \/ RegenEnd
       \/ \E j \in JobIds : CancelCheck(j) \/ CancelWrite(j)
       \/ Tick \/ NothingToClaim \/ ClaimFails \/ Join
       \/ \E j \in JobIds : LoadBook(j) \/ Work(j) \/ SelectBooks(j) \/ EmitCompleted(j)
    /\ UNCHANGED <<gauges, refresh>>

GWithdraw == (\E j \in JobIds : Withdraw(j)) /\ Adjust(-1, 0)
GClaim == Claim /\ Adjust(-1, 1)

\* Both index_book and the runner count the end of a semantic job.
GSweep(j) ==
    /\ Sweep(j)
    /\ Adjust(0, IF faults' = faults
                 THEN - Cardinality(RunningSemantic(Book(j))) ELSE 0)
GMark(j) ==
    /\ MarkCompleted(j) \/ MarkFailed(j)
    /\ Adjust(0, IF faults' = faults THEN - Cardinality({j} \intersect Rows) ELSE 0)

GCrash ==
    /\ Crash
    /\ queuedGauge' = 0 /\ runningGauge' = 0 /\ refresh' = NotRead

\* reset_orphaned_semantic_jobs moves its rows from one gauge to the other.
GRestart == Restart /\ Adjust(Cardinality(Running), - Cardinality(Running))

ReadQueued ==
    /\ up /\ refresh = NotRead
    /\ refresh' = [refresh EXCEPT !.queued = Cardinality(Pending)]
    /\ UNCHANGED <<vars, gauges>>
ReadRunning ==
    /\ refresh.queued >= 0 /\ refresh.running < 0
    /\ refresh' = [refresh EXCEPT !.running = Cardinality(Running)]
    /\ UNCHANGED <<vars, gauges>>
\* Mutant: only the first gauge is set.
SetQueuedGauge ==
    /\ refresh.running >= 0
    /\ queuedGauge' = refresh.queued /\ UNCHANGED runningGauge
    /\ refresh' = NotRead
    /\ UNCHANGED vars

SetGauges ==
    /\ refresh.running >= 0
    /\ queuedGauge' = refresh.queued /\ runningGauge' = refresh.running
    /\ refresh' = NotRead
    /\ UNCHANGED vars
Refresh == ReadQueued \/ ReadRunning \/ SetGauges

GJobs ==
    \/ GEnqueue \/ GUncounted \/ GWithdraw \/ GClaim
    \/ \E j \in JobIds : GSweep(j) \/ GMark(j)
    \/ GCrash \/ GRestart

GNext == GJobs \/ Refresh
GSpec == GInit /\ [][GNext]_gvars
GFairSpec == GSpec /\ Fairness /\ WF_gvars(Refresh)

-----------------------------------------------------------------------------
GaugesExact ==
    /\ queuedGauge = Cardinality(Pending)
    /\ runningGauge = Cardinality(Running)

\* However far the gauges have drifted, the refresh brings them back once the
\* queue is quiet.
GaugesConverge == <>[]GaugesExact
=============================================================================
