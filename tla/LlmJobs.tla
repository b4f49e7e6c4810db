------------------------------ MODULE LlmJobs ------------------------------
(***************************************************************************)
(* The queue of background LLM work: the table llm_jobs, the HTTP handlers *)
(* and the scheduler that put rows into it, the administrator's two ways   *)
(* of cancelling a row, and the single job runner of the process, which    *)
(* claims rows and works on up to MaxConcurrent of them in tasks.          *)
(*                                                                         *)
(* Every SQL statement is one step, because SQLite makes it one; two       *)
(* statements of one handler are two steps, and between them every other   *)
(* handler, task and restart of the process may run.  A row is identified  *)
(* by its position in the order of created_at, so "ORDER BY created_at" is *)
(* the order of the identifiers, and books are numbered the same way.      *)
(*                                                                         *)
(* Left out: error texts, timestamps, the text that is embedded and the    *)
(* tags a classification proposes (book_tags), and the Prometheus gauges,  *)
(* which nothing reads back (module LlmJobGauges adds them).               *)
(***************************************************************************)
EXTENDS Naturals, FiniteSets

CONSTANTS
    NumBooks,       \* books are 1 .. NumBooks, oldest first
    NoBook,         \* the NULL book_id of an organize or a backup row
    Callers,        \* tasks that may ask for an organize job at the same time
    MaxConcurrent,  \* MAX_CONCURRENT_LLM_JOBS, the permits of the semaphore
    OrganizeLimit,  \* the LIMIT 50 of an organize job
    PoolSize,       \* connections of the sqlx pool
    Requests,       \* what callers ask for in this instance, see Operations
    MaxJobs,        \* bound: rows ever inserted
    MaxFaults,      \* bound: failed database calls
    MaxCrashes      \* bound: crashes of the process

Operations == {"semantic_index", "classify", "organize", "backup",
               "withdraw", "cancel", "delete_book"}

ASSUME SizesAssumption ==
    /\ NumBooks \in Nat /\ MaxJobs \in Nat
    /\ MaxConcurrent \in Nat /\ OrganizeLimit \in Nat /\ PoolSize \in Nat
    /\ MaxFaults \in Nat /\ MaxCrashes \in Nat
ASSUME NoBookAssumption == NoBook \notin Nat
ASSUME RequestsAssumption == Requests \subseteq Operations

Books == 1 .. NumBooks
JobIds == 1 .. MaxJobs
BookTypes == {"semantic_index", "classify"}
JobTypes == BookTypes \union {"organize", "backup"}
Active == {"pending", "running"}
Final == {"completed", "failed", "cancelled"}
Gone == {"absent", "deleted"}                  \* no row of that id in the table
Statuses == Active \union Final \union Gone
Stages == {"none", "load", "work", "sweep_ok", "sweep_failed", "fan_out",
           "mark_ok", "mark_failed", "emit"}

RowType == [type : JobTypes, book : Books \union {NoBook}, status : Statuses]

VARIABLES
    books,       \* rows of the table books
    jobs,        \* rows of llm_jobs; a row not there has a status of Gone
    inserted,    \* number of rows ever inserted
    up,          \* the process is running
    runner,      \* where run_semantic_job_runner stands
    batch,       \* the jobs whose handles the current iteration awaits
    permits,     \* free permits of the semaphore
    task,        \* the stage of the task working on a job
    todo,        \* the books an organize task has still to enqueue
    asking,      \* callers between the SELECT and the INSERT of an organize job
    cancelling,  \* admin_task_cancel handlers between their SELECT and UPDATE
    regen,       \* the running admin_cover_regenerate: the books left to insert
    fkOff,       \* pooled connections on which foreign_keys is OFF
    emitted,     \* how often llm_job.completed was enqueued for a job
    dbErr,       \* a database call failed since the process started
    faults, crashes

tableVars == <<books, jobs, inserted>>
runnerVars == <<runner, batch>>
handlerVars == <<asking, cancelling, regen, fkOff>>
boundVars == <<dbErr, faults, crashes>>
vars == <<tableVars, up, runnerVars, permits, task, todo, handlerVars,
          emitted, boundVars>>

NotRunning == [on |-> FALSE, left |-> {}]
Status(j) == jobs[j].status
Rows == {j \in JobIds : Status(j) \notin Gone}
Pending == {j \in JobIds : Status(j) = "pending"}
Running == {j \in JobIds : Status(j) = "running"}
Live == {j \in JobIds : task[j] # "none"}      \* jobs that have a task

ActiveFor(t, b) ==
    {j \in JobIds : jobs[j].type = t /\ jobs[j].book = b /\ Status(j) \in Active}

SetStatus(S, s) ==
    [j \in JobIds |-> IF j \in S THEN [jobs[j] EXCEPT !.status = s] ELSE jobs[j]]

Init ==
    /\ books = Books
    /\ jobs = [j \in JobIds |-> [type |-> "backup", book |-> NoBook, status |-> "absent"]]
    /\ inserted = 0
    /\ up = TRUE /\ runner = "sleep" /\ batch = {} /\ permits = MaxConcurrent
    /\ task = [j \in JobIds |-> "none"] /\ todo = [j \in JobIds |-> {}]
    /\ asking = {} /\ cancelling = {} /\ regen = NotRunning /\ fkOff = 0
    /\ emitted = [j \in JobIds |-> 0]
    /\ dbErr = FALSE /\ faults = 0 /\ crashes = 0

-----------------------------------------------------------------------------
(* Database calls that fail, and rows that refer to a book.                *)

NoFault == UNCHANGED boundVars
Fault ==                          \* a call returns Err: locked, disk full, ...
    /\ faults < MaxFaults
    /\ faults' = faults + 1 /\ dbErr' = TRUE
    /\ UNCHANGED crashes

\* A row with this book_id can be inserted: the book is there, or the
\* connection that runs the statement does not enforce foreign keys.
MayRefer(b) == b \in books \/ fkOff > 0
MayRefuse(b) ==                   \* at the bound the table is as good as full
    (b \notin books /\ fkOff < PoolSize) \/ inserted = MaxJobs

Insert(t, b) ==
    /\ inserted < MaxJobs
    /\ inserted' = inserted + 1
    /\ jobs' = [jobs EXCEPT ![inserted + 1] =
                    [type |-> t, book |-> b, status |-> "pending"]]

\* Mutant: NOT EXISTS looks for pending rows only.
InsertUnlessPending(t, b) ==
    IF ActiveFor(t, b) \intersect Pending = {}
    THEN Insert(t, b) ELSE UNCHANGED <<jobs, inserted>>

\* INSERT ... SELECT ... WHERE NOT EXISTS (an active row): one statement.
InsertUnlessActive(t, b) ==
    IF ActiveFor(t, b) = {} THEN Insert(t, b) ELSE UNCHANGED <<jobs, inserted>>

-----------------------------------------------------------------------------
(* Callers that enqueue.                                                   *)

\* An upload, a re-index or the loop of the scheduled task semantic_index_all
\* over all books: each call is independent of the others.
EnqueueSemanticIndex(b) ==
    /\ up /\ "semantic_index" \in Requests /\ MayRefer(b)
    /\ InsertUnlessActive("semantic_index", b)
    /\ UNCHANGED <<books, up, runnerVars, permits, task, todo, handlerVars, emitted>>
    /\ NoFault

\* enqueue_organize_job, its SELECT: an active row ends the call ...
AskOrganize(c) ==
    /\ up /\ "organize" \in Requests /\ c \notin asking
    /\ ActiveFor("organize", NoBook) = {}
    /\ asking' = asking \union {c}
    /\ UNCHANGED <<tableVars, up, runnerVars, permits, task, todo, cancelling,
                   regen, fkOff, emitted>>
    /\ NoFault

\* ... and its INSERT, which does not look again.
InsertOrganize(c) ==
    /\ c \in asking
    /\ asking' = asking \ {c}
    /\ Insert("organize", NoBook)
    /\ UNCHANGED <<books, up, runnerVars, permits, task, todo, cancelling,
                   regen, fkOff, emitted>>
    /\ NoFault

\* enqueue_backup_job has the same two statements and a single caller, the
\* scheduler task, so nobody inserts a backup row between them.
EnqueueBackup ==
    /\ up /\ "backup" \in Requests
    /\ InsertUnlessActive("backup", NoBook)
    /\ UNCHANGED <<books, up, runnerVars, permits, task, todo, handlerVars, emitted>>
    /\ NoFault

\* admin_cover_regenerate switches foreign keys off on one connection of the
\* pool, ...
RegenStart(S) ==
    /\ up /\ "classify" \in Requests /\ ~regen.on
    /\ regen' = [on |-> TRUE, left |-> S]
    /\ fkOff' \in {n \in {fkOff, fkOff + 1} : n \in 1 .. PoolSize}
    /\ UNCHANGED <<tableVars, up, runnerVars, permits, task, todo, asking,
                   cancelling, emitted>>
    /\ NoFault

\* ... inserts classify rows one by one on any of them, ...
RegenInsert(b) ==
    /\ b \in regen.left /\ MayRefer(b)
    /\ regen' = [regen EXCEPT !.left = @ \ {b}]
    /\ InsertUnlessActive("classify", b)
    /\ UNCHANGED <<books, up, runnerVars, permits, task, todo, asking,
                   cancelling, fkOff, emitted>>
    /\ NoFault

\* ... returns at the first call that fails, leaving the connection as it is, ...
RegenAbort ==
    /\ regen.on
    /\ regen' = NotRunning
    /\ UNCHANGED <<tableVars, up, runnerVars, permits, task, todo, asking,
                   cancelling, fkOff, emitted>>
    /\ \/ (\E b \in regen.left : MayRefuse(b)) /\ NoFault
       \/ Fault

\* ... and switches them on again on some connection, not always that one.
RegenEnd ==
    /\ regen.on /\ regen.left = {}
    /\ regen' = NotRunning
    /\ fkOff' \in {n \in 0 .. PoolSize : n + 1 = fkOff \/ (n = fkOff /\ n < PoolSize)}
    /\ UNCHANGED <<tableVars, up, runnerVars, permits, task, todo, asking,
                   cancelling, emitted>>
    /\ NoFault

-----------------------------------------------------------------------------
(* Administrators cancel a job; a book is deleted.                         *)

\* DELETE /admin/jobs/:id: the UPDATE itself looks at the status.
Withdraw(j) ==
    /\ up /\ "withdraw" \in Requests /\ Status(j) = "pending"
    /\ jobs' = SetStatus({j}, "failed")
    /\ UNCHANGED <<books, inserted, up, runnerVars, permits, task, todo,
                   handlerVars, emitted>>
    /\ NoFault

\* DELETE /admin/tasks/:id: a SELECT that refuses a final status ...
CancelCheck(j) ==
    /\ up /\ "cancel" \in Requests /\ j \notin cancelling
    /\ Status(j) \in Active
    /\ cancelling' = cancelling \union {j}
    /\ UNCHANGED <<tableVars, up, runnerVars, permits, task, todo, asking,
                   regen, fkOff, emitted>>
    /\ NoFault

\* ... and an UPDATE that does not look at it again.
CancelWrite(j) ==
    /\ j \in cancelling
    /\ cancelling' = cancelling \ {j}
    /\ jobs' = SetStatus({j} \intersect Rows, "cancelled")
    /\ UNCHANGED <<books, inserted, up, runnerVars, permits, task, todo,
                   asking, regen, fkOff, emitted>>
    /\ NoFault

\* Rows of llm_jobs go with their book (ON DELETE CASCADE), unless the DELETE
\* runs on a connection that does not enforce foreign keys.
DeleteBook(b) ==
    /\ up /\ "delete_book" \in Requests /\ b \in books
    /\ books' = books \ {b}
    /\ \/ /\ fkOff < PoolSize
          /\ jobs' = SetStatus({j \in Rows : jobs[j].book = b}, "deleted")
       \/ /\ fkOff > 0
          /\ UNCHANGED jobs
    /\ UNCHANGED <<inserted, up, runnerVars, permits, task, todo, handlerVars,
                   emitted>>
    /\ NoFault

-----------------------------------------------------------------------------
(* The job runner: an iteration claims rows while it gets permits, then    *)
(* waits for every task it has spawned before it sleeps again.             *)

\* Mutant: an iteration that starts with what the last one has left to await.
TickToJoin ==
    /\ up /\ runner = "sleep"
    /\ runner' = "join" /\ batch' = {}
    /\ UNCHANGED <<tableVars, up, permits, task, todo, handlerVars, emitted>>
    /\ NoFault

Tick ==
    /\ up /\ runner = "sleep"
    /\ runner' = "claim" /\ batch' = {}
    /\ UNCHANGED <<tableVars, up, permits, task, todo, handlerVars, emitted>>
    /\ NoFault

FirstStage(j) == IF jobs[j].type = "backup" THEN "mark_ok" ELSE "load"

\* Mutant: a permit taken by the runner and another one by the task.
ClaimTakingTwoPermits ==
    /\ runner = "claim" /\ permits > 0
    /\ \E j \in Pending :
        /\ \A k \in Pending : j <= k
        /\ jobs' = SetStatus({j}, "running")
        /\ task' = [task EXCEPT ![j] = FirstStage(j)]
        /\ batch' = batch \union {j}
    /\ permits' = permits - 2
    /\ UNCHANGED <<books, inserted, up, runner, todo, handlerVars, emitted>>
    /\ NoFault

\* claim_next_pending_job: the oldest pending row, in one statement.
Claim ==
    /\ runner = "claim" /\ permits > 0
    /\ \E j \in Pending :
        /\ \A k \in Pending : j <= k
        /\ jobs' = SetStatus({j}, "running")
        /\ task' = [task EXCEPT ![j] = FirstStage(j)]
        /\ batch' = batch \union {j}
    /\ permits' = permits - 1
    /\ UNCHANGED <<books, inserted, up, runner, todo, handlerVars, emitted>>
    /\ NoFault

NothingToClaim ==
    /\ runner = "claim" /\ (permits = 0 \/ Pending = {})
    /\ runner' = "join"
    /\ UNCHANGED <<tableVars, up, batch, permits, task, todo, handlerVars, emitted>>
    /\ NoFault

\* The claim returns Err: the iteration returns at once, its handles are
\* dropped and the tasks run on, detached, with their permits.
ClaimFails ==
    /\ runner = "claim" /\ permits > 0
    /\ runner' = "sleep" /\ batch' = {}
    /\ UNCHANGED <<tableVars, up, permits, task, todo, handlerVars, emitted>>
    /\ Fault

\* Mutant: the handles are not awaited.
JoinAtOnce ==
    /\ runner = "join"
    /\ runner' = "sleep" /\ batch' = {}
    /\ UNCHANGED <<tableVars, up, permits, task, todo, handlerVars, emitted>>
    /\ NoFault

Join ==
    /\ runner = "join" /\ batch \intersect Live = {}
    /\ runner' = "sleep" /\ batch' = {}
    /\ UNCHANGED <<tableVars, up, permits, task, todo, handlerVars, emitted>>
    /\ NoFault

-----------------------------------------------------------------------------
(* A task: process_semantic_job, process_classify_job, process_organize_job *)
(* or process_backup_job for the row it was spawned with.                  *)

Type(j) == jobs[j].type
Book(j) == jobs[j].book
GoTo(j, s) == task' = [task EXCEPT ![j] = s] /\ UNCHANGED permits
TaskEnds(j) == task' = [task EXCEPT ![j] = "none"] /\ permits' = permits + 1
TaskFrame == UNCHANGED <<books, inserted, up, runnerVars, handlerVars>>

\* Mutant: the row is completed before the work is done.
LoadBookAndComplete(j) ==
    /\ task[j] = "load" /\ Type(j) \in BookTypes
    /\ \/ /\ Book(j) \in books /\ GoTo(j, "work")
          /\ jobs' = SetStatus({j} \intersect Rows, "completed")
       \/ GoTo(j, "mark_failed") /\ UNCHANGED jobs
    /\ UNCHANGED <<todo, emitted>> /\ TaskFrame /\ NoFault

\* The book is read; the model is not configured, the book is not there or
\* the read fails: the job is marked failed.
LoadBook(j) ==
    /\ task[j] = "load" /\ Type(j) \in BookTypes
    /\ \/ Book(j) \in books /\ GoTo(j, "work")
       \/ GoTo(j, "mark_failed")
    /\ UNCHANGED <<jobs, todo, emitted>> /\ TaskFrame /\ NoFault

\* The model answers and its answer is stored (book_embeddings, book_tags).
\* No suggestion of a tag is an answer too, and stores nothing.
Work(j) ==
    /\ task[j] = "work"
    /\ IF Type(j) = "semantic_index"
       THEN \/ MayRefer(Book(j)) /\ GoTo(j, "sweep_ok")
            \/ GoTo(j, "sweep_failed")
       ELSE GoTo(j, "mark_ok") \/ GoTo(j, "mark_failed")
    /\ UNCHANGED <<jobs, todo, emitted>> /\ TaskFrame /\ NoFault

\* index_book marks every running semantic job of the book, whoever runs it.
RunningSemantic(b) ==
    {k \in Running : jobs[k].type = "semantic_index" /\ jobs[k].book = b}

Sweep(j) ==
    /\ task[j] \in {"sweep_ok", "sweep_failed"}
    /\ LET next == IF task[j] = "sweep_ok" THEN "mark_ok" ELSE "mark_failed"
           s == IF task[j] = "sweep_ok" THEN "completed" ELSE "failed"
       IN \/ /\ jobs' = SetStatus(RunningSemantic(Book(j)), s)
             /\ GoTo(j, next) /\ NoFault
          \/ /\ GoTo(j, "mark_failed") /\ UNCHANGED jobs
             /\ Fault
    /\ UNCHANGED <<todo, emitted>> /\ TaskFrame

\* An organize job selects the oldest books without a classify job ...
Unclassified ==
    {b \in books : \A j \in Rows : Type(j) = "classify" /\ Book(j) = b
                                      => Status(j) \notin Active \union {"completed"}}
Oldest(S, n) == {b \in S : Cardinality({c \in S : c < b}) < n}

SelectBooks(j) ==
    /\ task[j] = "load" /\ Type(j) = "organize"
    /\ \/ /\ todo' = [todo EXCEPT ![j] = Oldest(Unclassified, OrganizeLimit)]
          /\ GoTo(j, IF todo'[j] = {} THEN "mark_ok" ELSE "fan_out")
          /\ NoFault
       \/ GoTo(j, "mark_failed") /\ UNCHANGED todo /\ Fault
    /\ UNCHANGED <<jobs, emitted>> /\ TaskFrame

\* ... and enqueues one for each of them in turn; the first call that fails,
\* be it for a book deleted meanwhile, fails the job.
EnqueueClassify(j) ==
    /\ task[j] = "fan_out"
    /\ \E b \in Oldest(todo[j], 1) :
        \/ /\ MayRefer(b)
           /\ InsertUnlessActive("classify", b)
           /\ todo' = [todo EXCEPT ![j] = @ \ {b}]
           /\ GoTo(j, IF todo'[j] = {} THEN "mark_ok" ELSE "fan_out")
           /\ NoFault
        \/ /\ todo' = [todo EXCEPT ![j] = {}]
           /\ GoTo(j, "mark_failed") /\ UNCHANGED <<jobs, inserted>>
           /\ (MayRefuse(b) /\ NoFault) \/ Fault
    /\ UNCHANGED <<books, emitted, up, runnerVars, handlerVars>>

\* Mutant: the event is emitted whatever the UPDATE returned.
MarkCompletedAndGoOn(j) ==
    /\ task[j] = "mark_ok"
    /\ \/ /\ jobs' = SetStatus({j} \intersect Rows, "completed")
          /\ GoTo(j, "emit") /\ NoFault
       \/ GoTo(j, "emit") /\ UNCHANGED jobs /\ Fault
    /\ UNCHANGED <<todo, emitted>> /\ TaskFrame

\* mark_job_completed: WHERE id = ?, whatever the status is by now.
MarkCompleted(j) ==
    /\ task[j] = "mark_ok"
    /\ \/ /\ jobs' = SetStatus({j} \intersect Rows, "completed")
          /\ GoTo(j, "emit") /\ NoFault
       \/ TaskEnds(j) /\ UNCHANGED jobs /\ Fault
    /\ UNCHANGED <<todo, emitted>> /\ TaskFrame

\* Mutants: the permit outlives the task; the UPDATE has the guard of cancel_job.
MarkFailedKeepingPermit(j) ==
    /\ task[j] = "mark_failed"
    /\ \/ jobs' = SetStatus({j} \intersect Rows, "failed") /\ NoFault
       \/ UNCHANGED jobs /\ Fault
    /\ GoTo(j, "none")
    /\ UNCHANGED <<todo, emitted>> /\ TaskFrame
MarkFailedIfPending(j) ==
    /\ task[j] = "mark_failed"
    /\ \/ jobs' = SetStatus({j} \intersect Pending, "failed") /\ NoFault
       \/ UNCHANGED jobs /\ Fault
    /\ TaskEnds(j)
    /\ UNCHANGED <<todo, emitted>> /\ TaskFrame

\* mark_job_failed: its own failure is ignored.
MarkFailed(j) ==
    /\ task[j] = "mark_failed"
    /\ \/ jobs' = SetStatus({j} \intersect Rows, "failed") /\ NoFault
       \/ UNCHANGED jobs /\ Fault
    /\ TaskEnds(j)
    /\ UNCHANGED <<todo, emitted>> /\ TaskFrame

\* emit_llm_job_completed_event: best effort.
EmitCompleted(j) ==
    /\ task[j] = "emit"
    /\ \/ emitted' = [emitted EXCEPT ![j] = @ + 1] /\ NoFault
       \/ UNCHANGED emitted /\ Fault
    /\ TaskEnds(j)
    /\ UNCHANGED <<jobs, todo>> /\ TaskFrame

-----------------------------------------------------------------------------
(* The process dies with its tasks and handlers; the rows stay.  The next  *)
(* start returns running rows to pending before it spawns the runner.      *)

Crash ==
    /\ up /\ crashes < MaxCrashes
    /\ up' = FALSE /\ crashes' = crashes + 1
    /\ runner' = "sleep" /\ batch' = {} /\ permits' = MaxConcurrent
    /\ task' = [j \in JobIds |-> "none"] /\ todo' = [j \in JobIds |-> {}]
    /\ asking' = {} /\ cancelling' = {} /\ regen' = NotRunning /\ fkOff' = 0
    /\ UNCHANGED <<tableVars, emitted, dbErr, faults>>

\* Mutants: nothing is reset; failed rows are tried again.
RestartWithoutReset ==
    /\ ~up
    /\ up' = TRUE /\ dbErr' = FALSE
    /\ UNCHANGED <<tableVars, runnerVars, permits, task, todo,
                   handlerVars, emitted, faults, crashes>>
RestartRetryingFailed ==
    /\ ~up
    /\ up' = TRUE /\ dbErr' = FALSE
    /\ jobs' = SetStatus({j \in JobIds : Status(j) \in {"running", "failed"}}, "pending")
    /\ UNCHANGED <<books, inserted, runnerVars, permits, task, todo,
                   handlerVars, emitted, faults, crashes>>

\* reset_orphaned_semantic_jobs; should it fail, the process exits again.
Restart ==
    /\ ~up
    /\ up' = TRUE /\ dbErr' = FALSE
    /\ jobs' = SetStatus(Running, "pending")
    /\ UNCHANGED <<books, inserted, runnerVars, permits, task, todo,
                   handlerVars, emitted, faults, crashes>>

-----------------------------------------------------------------------------
Enqueue ==
    \/ \E b \in Books : EnqueueSemanticIndex(b)
    \/ \E c \in Callers : AskOrganize(c) \/ InsertOrganize(c)
    \/ EnqueueBackup
    \/ \E S \in SUBSET Books : RegenStart(S)
    \/ \E b \in Books : RegenInsert(b)
    \/ RegenAbort \/ RegenEnd

Administrate ==
    \/ \E j \in JobIds : Withdraw(j) \/ CancelCheck(j) \/ CancelWrite(j)
    \/ \E b \in Books : DeleteBook(b)

RunnerStep == Tick \/ Claim \/ NothingToClaim \/ Join

TaskStep(j) ==
    \/ LoadBook(j) \/ Work(j) \/ Sweep(j)
    \/ SelectBooks(j) \/ EnqueueClassify(j)
    \/ MarkCompleted(j) \/ MarkFailed(j) \/ EmitCompleted(j)

Next ==
    \/ Enqueue \/ Administrate
    \/ RunnerStep \/ ClaimFails
    \/ \E j \in JobIds : TaskStep(j)
    \/ Crash \/ Restart

Spec == Init /\ [][Next]_vars

\* Tokio keeps polling the runner and the tasks, every request to a model has
\* a timeout, and the container is restarted; nobody has to ask for anything.
Fairness ==
    /\ WF_vars(RunnerStep)
    /\ \A j \in JobIds : WF_vars(TaskStep(j))
    /\ WF_vars(Restart)
FairSpec == Spec /\ Fairness

-----------------------------------------------------------------------------
(* Properties.                                                             *)

\* Type correctness of the table of jobs, in which the identifiers handed out
\* so far are those of the rows that are or were there, ...
RowsOK ==
    /\ jobs \in [JobIds -> RowType] /\ inserted \in 0 .. MaxJobs
    /\ \A j \in JobIds : Status(j) = "absent" <=> j > inserted
\* ... of the tasks and their permits, ...
TasksOK == task \in [JobIds -> Stages] /\ permits \in Nat
\* ... of the calls that failed, ...
BoundsOK == dbErr \in BOOLEAN /\ faults \in 0 .. MaxFaults /\ crashes \in 0 .. MaxCrashes
\* ... and of all the rest.
TypeOK ==
    /\ RowsOK /\ TasksOK /\ BoundsOK
    /\ books \subseteq Books /\ up \in BOOLEAN
    /\ runner \in {"sleep", "claim", "join"} /\ batch \subseteq JobIds
    /\ todo \in [JobIds -> SUBSET Books] /\ emitted \in [JobIds -> Nat]
    /\ asking \subseteq Callers /\ cancelling \subseteq JobIds
    /\ regen \in [on : BOOLEAN, left : SUBSET Books] /\ fkOff \in 0 .. PoolSize

\* The guard of the enqueue functions: however uploads, organize tasks, cover
\* regenerations, cancellations and restarts interleave, a book never has two
\* active rows of the same type.
OneActivePerBook ==
    \A j, k \in JobIds :
        /\ Status(j) \in Active /\ Status(k) \in Active
        /\ Type(j) \in BookTypes /\ Type(j) = Type(k) /\ Book(j) = Book(k)
        => j = k

\* The semaphore: a permit is free or held by exactly one task, through failed
\* claims, tasks that outlive their iteration and restarts.
PermitsConserved == permits + Cardinality(Live) = MaxConcurrent

\* No row is stranded: unless a database call failed since the process started,
\* every running row is being worked on.  (A failed mark_job_* leaves a running
\* row without a task until the next start.)
RunningHasTask == up /\ ~dbErr => Running \subseteq Live

\* An iteration waits for its tasks: unless a database call failed, no task runs
\* outside the batch of the current iteration, and none while the runner sleeps.
NoDetachedTask == ~dbErr => Live \subseteq batch /\ (runner = "sleep" => Live = {})

\* llm_job.completed is enqueued at most once for a job, over all restarts, and
\* never for a job that failed or will run again.
Earned == {"completed", "cancelled", "deleted"}
EventOnce ==
    \A j \in JobIds :
        /\ emitted[j] <= 1
        /\ emitted[j] = 1 => Status(j) \in Earned

\* A finished job is never handed out again, whatever marks its row afterwards.
FinishedStaysFinished ==
    [][\A j \in JobIds : Status(j) \in Final \union {"deleted"}
                            => Status(j)' \notin Active]_vars

\* Only one task at a time works on a book (and on its embedding).  It holds as
\* long as no administrator cancels a running job.
Working == {j \in JobIds : task[j] \in {"load", "work", "sweep_ok", "sweep_failed"}}
OneWorkerPerBook ==
    \A j, k \in Working \intersect Rows :
        Type(j) \in BookTypes /\ Type(j) = Type(k) /\ Book(j) = Book(k) => j = k

\* Every job reaches a final status, also over crashes, unless a database call
\* fails on the way.
EveryJobEnds == \A j \in JobIds : Status(j) \in Active ~> Status(j) \notin Active \/ dbErr

\* The comment on the enqueue functions (db/queries/llm.rs:9-11): they guard
\* against a second active job of the same type and book.
OneActiveOrganize ==
    \A j, k \in JobIds :
        Type(j) = "organize" /\ Type(k) = "organize"
        /\ Status(j) \in Active /\ Status(k) \in Active => j = k

\* The comment on admin_task_cancel (api/admin/mod.rs:813): "409 if already
\* final", so a final status is not overwritten by a cancellation.
CancelSparesFinal ==
    [][\A j \in JobIds : Status(j) \in {"completed", "failed"}
                            => Status(j)' # "cancelled"]_vars

\* The queue keeps the promise of module JobBoard: exclusive keys, oldest
\* first, finished for good, and no job waits for ever.
PhaseOf(s) == CASE s = "absent" -> "new" [] s = "pending" -> "waiting"
                [] s = "running" -> "active" [] OTHER -> "done"
Board == INSTANCE JobBoard WITH
    Ids <- JobIds, Keys <- JobTypes \X (Books \union {NoBook}),
    Exclusive <- BookTypes \X Books,
    phase <- [j \in JobIds |-> PhaseOf(Status(j))],
    key <- [j \in JobIds |-> <<Type(j), Book(j)>>]
ImplementsFairBoard == Board!FairSpec

=============================================================================
