---------------------------- MODULE ScheduledTasks ----------------------------
(***************************************************************************)
(* Recurring tasks.  A row of scheduled_tasks has a cron expression and    *)
(* the time of its next run.  Once a minute the scheduler reads the rows   *)
(* that are due, and for each of them in turn enqueues a job and then      *)
(* writes the next run, computed from the expression it has read.          *)
(* Administrators create, change and delete rows meanwhile.                *)
(*                                                                         *)
(* An expression is the set of the times it names, which is what the cron  *)
(* crate computes from it (CronFields models how its text is rewritten).   *)
(* What a job does is LlmJobs; here a task has been dispatched when its    *)
(* job was enqueued, whatever its type.  last_run_at is only displayed.    *)
(***************************************************************************)
EXTENDS Naturals

CONSTANTS
    Tasks,
    Crons,        \* expressions administrators use
    MaxTime,      \* bound: the clock
    MaxCount,     \* bound: dispatches told apart
    MaxFaults,    \* bound: failed database calls
    MaxCrashes    \* bound: crashes of the process

ASSUME CronsAssumption == Crons \subseteq SUBSET Nat
ASSUME BoundsAssumption ==
    MaxTime \in Nat /\ MaxCount \in Nat /\ MaxFaults \in Nat /\ MaxCrashes \in Nat

VARIABLES
    clock,
    rows,        \* rows of scheduled_tasks
    pass,        \* tasks process_due_scheduled_tasks_once has still to run ...
    read,        \* ... as it has read them
    running,     \* the task of it that has been enqueued and not been marked
    up,          \* the process is running
    dispatched,  \* jobs enqueued for the next run a row has now
    faults, crashes

passVars == <<pass, read, running>>
boundVars == <<faults, crashes>>
vars == <<clock, rows, passVars, up, dispatched, boundVars>>

Statuses == {"absent", "on", "off", "deleted"}
RowType == [status : Statuses, cron : Crons \union {{}}, next : Nat]
NotThere == [status |-> "absent", cron |-> {}, next |-> 0]
There(t) == rows[t].status \in {"on", "off"}
Due(t) == rows[t].status = "on" /\ rows[t].next <= clock

\* next_run_at_for_cron: the first time after now, if there is one.
NextRun(c, n) == n \in c /\ n > clock /\ \A m \in c : m > clock => n <= m
NoNextRun(c) == \A m \in c : m <= clock

\* The task in turn: the most overdue one of those read.
Turn(t) == t \in pass /\ \A u \in pass : read[t].next <= read[u].next

NoFault == UNCHANGED boundVars
Fault == faults < MaxFaults /\ faults' = faults + 1 /\ UNCHANGED crashes

Init ==
    /\ clock = 0
    /\ rows = [t \in Tasks |-> NotThere]
    /\ pass = {} /\ read = [t \in Tasks |-> NotThere] /\ running = {}
    /\ up = TRUE
    /\ dispatched = [t \in Tasks |-> 0]
    /\ faults = 0 /\ crashes = 0

Tick ==
    /\ clock < MaxTime /\ clock' = clock + 1
    /\ UNCHANGED <<rows, passVars, up, dispatched, boundVars>>

-----------------------------------------------------------------------------
(* Administrators.  An expression without a future time is refused.        *)

CreateTask(t) ==
    /\ up /\ rows[t].status = "absent"
    /\ \E s \in {"on", "off"}, c \in Crons : \E n \in c :
        /\ NextRun(c, n)
        /\ rows' = [rows EXCEPT ![t] = [status |-> s, cron |-> c, next |-> n]]
    /\ UNCHANGED <<clock, passVars, up, dispatched>> /\ NoFault

UpdateEnabled(t) ==
    /\ up /\ There(t)
    /\ \E s \in {"on", "off"} : rows' = [rows EXCEPT ![t].status = s]
    /\ UNCHANGED <<clock, passVars, up, dispatched>> /\ NoFault

\* A new expression, with its next run and, if asked for, enabled in the same
\* transaction.
UpdateCron(t) ==
    /\ up /\ There(t)
    /\ \E s \in {"on", "off"}, c \in Crons : \E n \in c :
        /\ NextRun(c, n)
        /\ rows' = [rows EXCEPT ![t] = [status |-> s, cron |-> c, next |-> n]]
    /\ dispatched' = [dispatched EXCEPT ![t] = 0]
    /\ UNCHANGED <<clock, passVars, up>> /\ NoFault

DeleteTask(t) ==
    /\ up /\ There(t)
    /\ rows' = [rows EXCEPT ![t] = [NotThere EXCEPT !.status = "deleted"]]
    /\ dispatched' = [dispatched EXCEPT ![t] = 0]
    /\ UNCHANGED <<clock, passVars, up>> /\ NoFault

-----------------------------------------------------------------------------
(* process_due_scheduled_tasks_once.                                       *)

\* Mutant: whatever their time is.
EnabledTasks == {t \in Tasks : rows[t].status = "on"}

DueTasks == {t \in Tasks : Due(t)}

\* A pass that finds nothing, or whose SELECT fails, changes nothing.
ReadDue ==
    /\ up /\ pass = {}
    /\ pass' = DueTasks
    /\ read' = [t \in Tasks |-> IF t \in pass' THEN rows[t] ELSE NotThere]
    /\ UNCHANGED <<clock, rows, running, up, dispatched>> /\ NoFault

\* The loop goes on with the next task, also after an error.
GoOn(t) ==
    /\ pass' = pass \ {t} /\ read' = [read EXCEPT ![t] = NotThere] /\ running' = {}

\* run_scheduled_task enqueues the job, of a row that may have been changed ...
Dispatch(t) ==
    /\ Turn(t) /\ running = {}
    /\ \/ /\ running' = {t}
          /\ dispatched' = [dispatched EXCEPT ![t] =
                IF read[t].next = rows[t].next /\ @ < MaxCount THEN @ + 1 ELSE @]
          /\ UNCHANGED <<pass, read>> /\ NoFault
       \/ GoOn(t) /\ UNCHANGED dispatched /\ Fault
    /\ UNCHANGED <<clock, rows, up>>

\* Mutant: UPDATE ... WHERE id = ? AND enabled = 1.
MarkIfOn(t, n) ==
    IF rows[t].status = "on" THEN /\ rows' = [rows EXCEPT ![t].next = n]
                                  /\ dispatched' = [dispatched EXCEPT ![t] = 0]
                             ELSE UNCHANGED <<rows, dispatched>>

\* mark_scheduled_task_ran
Mark(t, n) ==
    /\ rows' = IF There(t) THEN [rows EXCEPT ![t].next = n] ELSE rows
    /\ dispatched' = [dispatched EXCEPT ![t] = 0]

\* ... and then marks the row; or finds no next run to mark it with.
MarkRan(t) ==
    /\ t \in running /\ GoOn(t)
    /\ \E n \in read[t].cron :
        /\ NextRun(read[t].cron, n)
        /\ \/ Mark(t, n) /\ NoFault
           \/ UNCHANGED <<rows, dispatched>> /\ Fault
    /\ UNCHANGED <<clock, up>>

\* Mutant: the error ends the pass.
EndPass(t) ==
    /\ t \in running /\ NoNextRun(read[t].cron)
    /\ pass' = {} /\ read' = [u \in Tasks |-> NotThere] /\ running' = {}
    /\ UNCHANGED <<clock, rows, up, dispatched>> /\ NoFault

NoRunLeft(t) ==
    /\ t \in running /\ NoNextRun(read[t].cron) /\ GoOn(t)
    /\ UNCHANGED <<clock, rows, up, dispatched>> /\ NoFault

-----------------------------------------------------------------------------
Crash ==
    /\ up /\ crashes < MaxCrashes
    /\ up' = FALSE /\ crashes' = crashes + 1
    /\ pass' = {} /\ read' = [t \in Tasks |-> NotThere] /\ running' = {}
    /\ UNCHANGED <<clock, rows, dispatched, faults>>

Restart ==
    /\ ~up /\ up' = TRUE
    /\ UNCHANGED <<clock, rows, passVars, dispatched, boundVars>>

Administrate ==
    \E t \in Tasks : CreateTask(t) \/ UpdateEnabled(t) \/ UpdateCron(t) \/ DeleteTask(t)
Schedule == ReadDue \/ \E t \in Tasks : Dispatch(t) \/ MarkRan(t) \/ NoRunLeft(t)

Next == Tick \/ Administrate \/ Schedule \/ Crash \/ Restart

Spec == Init /\ [][Next]_vars

\* The interval of the scheduler ticks for ever, no call of a pass hangs, and the
\* container is restarted.
FairSpec == Spec /\ WF_vars(Schedule) /\ WF_vars(Restart)

-----------------------------------------------------------------------------
(* Properties.                                                             *)

\* Type correctness; what is read belongs to the pass.
TypeOK ==
    /\ clock \in 0 .. MaxTime
    /\ rows \in [Tasks -> RowType] /\ read \in [Tasks -> RowType]
    /\ pass \subseteq Tasks /\ up \in BOOLEAN
    /\ running \subseteq pass /\ \A t, u \in running : t = u
    /\ \A t \in pass : read[t].status = "on" /\ read[t].next <= clock
    /\ dispatched \in [Tasks -> 0 .. MaxCount]
    /\ faults \in 0 .. MaxFaults /\ crashes \in 0 .. MaxCrashes

\* A run is not repeated: whatever administrators do meanwhile, a due time leads
\* to one job, and to one more for every crash and failed call.  It takes an
\* expression that still has a run, without which the row cannot be marked.
OneJobPerRun ==
    \A t \in Tasks : dispatched[t] > 1 + faults + crashes => NoNextRun(rows[t].cron)

\* Due tasks are enqueued, also when others fail, or can never be marked.
DueIsRun == \A t \in Tasks : Due(t) ~> dispatched[t] > 0 \/ ~Due(t)

\* queries/scheduled_tasks.rs: "After execution the scheduler calls
\* mark_scheduled_task_ran with the new next_run_at".  So between passes a task
\* has no job its row does not know of, unless a call failed or the process died.
ExecutionIsMarked ==
    pass = {} /\ faults = 0 /\ crashes = 0 => \A t \in Tasks : dispatched[t] = 0
=============================================================================
