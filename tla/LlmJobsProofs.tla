---------------------------- MODULE LlmJobsProofs ----------------------------
(***************************************************************************)
(* Theorems about LlmJobs for every number of books, rows, permits,        *)
(* connections, failures and crashes.                                      *)
(***************************************************************************)
EXTENDS LlmJobs, FiniteSetTheorems, TLAPS

-----------------------------------------------------------------------------
(* What the helpers on rows do.                                            *)

\* SetStatus changes the status of the rows it is given, and nothing else.
LEMMA SetStatusRows ==
    ASSUME jobs \in [JobIds -> RowType], NEW S, NEW s \in Statuses,
           jobs' = SetStatus(S, s)
    PROVE  /\ jobs' \in [JobIds -> RowType]
           /\ \A j \in JobIds : /\ Type(j)' = Type(j) /\ Book(j)' = Book(j)
                                /\ Status(j)' = IF j \in S THEN s ELSE Status(j)
  BY DEF SetStatus, RowType, Type, Book, Status

\* An insertion writes one row that was not there and keeps all others.
LEMMA InsertRows ==
    ASSUME TypeOK, NEW t \in JobTypes, NEW b \in Books \union {NoBook}, Insert(t, b)
    PROVE  /\ jobs' \in [JobIds -> RowType]
           /\ inserted' = inserted + 1 /\ inserted + 1 \in JobIds
           /\ jobs[inserted + 1].status = "absent"
           /\ jobs'[inserted + 1] = [type |-> t, book |-> b, status |-> "pending"]
           /\ \A j \in JobIds \ {inserted + 1} : jobs'[j] = jobs[j]
  <1>1. inserted + 1 \in JobIds
    BY SizesAssumption DEF TypeOK, RowsOK, Insert, JobIds
  <1>2. [type |-> t, book |-> b, status |-> "pending"] \in RowType
    BY DEF RowType, Statuses, Active
  <1>3. jobs[inserted + 1].status = "absent"
    BY <1>1, SizesAssumption DEF TypeOK, RowsOK, Status, JobIds
  <1> QED BY <1>1, <1>2, <1>3 DEF Insert, TypeOK, RowsOK

-----------------------------------------------------------------------------
(* Type correctness.                                                       *)

\* The empty table and the idle runner are well typed.
LEMMA TypeInit == Init => TypeOK
  <1> SUFFICES ASSUME Init PROVE TypeOK
    OBVIOUS
  <1>1. RowsOK
    BY SizesAssumption DEF Init, RowsOK, Status, JobIds, RowType, JobTypes, Statuses, Gone
  <1>2. TasksOK /\ BoundsOK
    <2>1. TasksOK
      BY SizesAssumption DEF Init, TasksOK, Stages
    <2>2. dbErr \in BOOLEAN
      BY DEF Init
    <2> QED BY <2>1, <2>2, SizesAssumption DEF Init, BoundsOK
  <1>3. regen \in [on : BOOLEAN, left : SUBSET Books]
    BY DEF Init, NotRunning
  <1>4. todo \in [JobIds -> SUBSET Books] /\ emitted \in [JobIds -> Nat]
    BY DEF Init
  <1> QED BY <1>1, <1>2, <1>3, <1>4, SizesAssumption DEF Init, TypeOK

\* Setting the status of rows that are there keeps the table well formed ...
LEMMA SetStatusOK ==
    ASSUME TypeOK, NEW S, NEW s \in Statuses \ {"absent"}, S \intersect JobIds \subseteq Rows,
           jobs' = SetStatus(S, s), inserted' = inserted
    PROVE  RowsOK'
  <1>1. s \in Statuses /\ jobs \in [JobIds -> RowType]
    BY DEF TypeOK, RowsOK
  <1>2. jobs' \in [JobIds -> RowType]
    BY <1>1, SetStatusRows
  <1>3. \A j \in JobIds : Status(j)' = IF j \in S THEN s ELSE Status(j)
    BY <1>1, SetStatusRows
  <1>4. \A j \in JobIds : j \in S => Status(j) # "absent"
    BY DEF Rows, Gone
  <1> QED BY <1>2, <1>3, <1>4 DEF TypeOK, RowsOK

\* ... and so does an insertion.
LEMMA InsertOK ==
    ASSUME TypeOK, NEW t \in JobTypes, NEW b \in Books \union {NoBook},
           Insert(t, b) \/ UNCHANGED <<jobs, inserted>>
    PROVE  RowsOK'
  <1>1. CASE Insert(t, b)
    <2>1. /\ jobs' \in [JobIds -> RowType]
          /\ inserted' = inserted + 1 /\ inserted + 1 \in JobIds
          /\ jobs[inserted + 1].status = "absent"
          /\ jobs'[inserted + 1] = [type |-> t, book |-> b, status |-> "pending"]
          /\ \A j \in JobIds \ {inserted + 1} : jobs'[j] = jobs[j]
      BY <1>1, InsertRows
    <2>2. ASSUME NEW j \in JobIds
          PROVE  Status(j)' = "absent" <=> j > inserted'
      BY <2>1, SizesAssumption DEF TypeOK, RowsOK, Status, JobIds
    <2> QED BY <2>1, <2>2, SizesAssumption DEF RowsOK, JobIds, TypeOK
  <1>2. CASE UNCHANGED <<jobs, inserted>>
    BY <1>2 DEF RowsOK, TypeOK, Status
  <1> QED BY <1>1, <1>2

\* A step of a task moves it, or ends it and frees its permit.
LEMMA TasksStep ==
    ASSUME TypeOK, NEW j \in JobIds, NEW s \in Stages, GoTo(j, s) \/ TaskEnds(j)
    PROVE  TasksOK'
  BY DEF TypeOK, TasksOK, GoTo, TaskEnds, Stages

\* A step whose database call fails is counted.
LEMMA BoundsStep == ASSUME TypeOK, NoFault \/ Fault PROVE BoundsOK'
  <1>1. CASE NoFault
    BY <1>1 DEF TypeOK, BoundsOK, NoFault, boundVars
  <1>2. CASE Fault
    BY <1>2, SizesAssumption DEF TypeOK, BoundsOK, Fault
  <1> QED BY <1>1, <1>2

\* Every action keeps the types, one step of the proof for each.
LEMMA TypeNext == TypeOK /\ [Next]_vars => TypeOK'
  <1> SUFFICES ASSUME TypeOK, [Next]_vars
               PROVE  TypeOK'
    OBVIOUS
  <1> USE DEF TypeOK, tableVars, runnerVars, handlerVars, TaskFrame
  <1>1. ASSUME NEW b \in Books, EnqueueSemanticIndex(b)
          PROVE  TypeOK'
    <2>1. RowsOK'
      BY <1>1, InsertOK DEF InsertUnlessActive, EnqueueSemanticIndex, JobTypes, BookTypes
    <2>2. TasksOK' /\ BoundsOK'
      BY <1>1, BoundsStep DEF EnqueueSemanticIndex, TasksOK
    <2> QED BY <1>1, <2>1, <2>2 DEF EnqueueSemanticIndex
  <1>2. ASSUME NEW c \in Callers, AskOrganize(c)
          PROVE  TypeOK'
    <2>1. RowsOK' /\ TasksOK'
      BY <1>2 DEF AskOrganize, RowsOK, TasksOK, Status
    <2>2. BoundsOK'
      BY <1>2, BoundsStep DEF AskOrganize
    <2> QED BY <1>2, <2>1, <2>2, SizesAssumption DEF AskOrganize
  <1>3. ASSUME NEW c \in Callers, InsertOrganize(c)
          PROVE  TypeOK'
    <2>1. RowsOK'
      BY <1>3, InsertOK DEF InsertUnlessActive, InsertOrganize, JobTypes, BookTypes
    <2>2. TasksOK' /\ BoundsOK'
      BY <1>3, BoundsStep DEF InsertOrganize, TasksOK
    <2> QED BY <1>3, <2>1, <2>2 DEF InsertOrganize
  <1>4. ASSUME EnqueueBackup
          PROVE  TypeOK'
    <2>1. RowsOK'
      BY <1>4, InsertOK DEF InsertUnlessActive, EnqueueBackup, JobTypes, BookTypes
    <2>2. TasksOK' /\ BoundsOK'
      BY <1>4, BoundsStep DEF EnqueueBackup, TasksOK
    <2> QED BY <1>4, <2>1, <2>2 DEF EnqueueBackup
  <1>5. ASSUME NEW S \in SUBSET Books, RegenStart(S)
          PROVE  TypeOK'
    <2>1. RowsOK' /\ TasksOK'
      BY <1>5 DEF RegenStart, RowsOK, TasksOK, Status
    <2>2. BoundsOK'
      BY <1>5, BoundsStep DEF RegenStart
    <2> QED BY <1>5, <2>1, <2>2, SizesAssumption DEF RegenStart
  <1>6. ASSUME NEW b \in Books, RegenInsert(b)
          PROVE  TypeOK'
    <2>1. RowsOK'
      BY <1>6, InsertOK DEF InsertUnlessActive, RegenInsert, JobTypes, BookTypes
    <2>2. TasksOK' /\ BoundsOK'
      BY <1>6, BoundsStep DEF RegenInsert, TasksOK
    <2> QED BY <1>6, <2>1, <2>2 DEF RegenInsert
  <1>7. ASSUME RegenAbort
          PROVE  TypeOK'
    <2>1. RowsOK' /\ TasksOK'
      BY <1>7 DEF RegenAbort, RowsOK, TasksOK, Status
    <2>2. BoundsOK'
      BY <1>7, BoundsStep DEF RegenAbort
    <2> QED BY <1>7, <2>1, <2>2, SizesAssumption DEF RegenAbort, NotRunning
  <1>8. ASSUME RegenEnd
          PROVE  TypeOK'
    <2>1. RowsOK' /\ TasksOK'
      BY <1>8 DEF RegenEnd, RowsOK, TasksOK, Status
    <2>2. BoundsOK'
      BY <1>8, BoundsStep DEF RegenEnd
    <2> QED BY <1>8, <2>1, <2>2, SizesAssumption DEF RegenEnd, NotRunning
  <1>9. ASSUME NEW j \in JobIds, Withdraw(j)
          PROVE  TypeOK'
    <2>1. RowsOK'
      BY <1>9, SetStatusOK DEF Withdraw, Statuses, Final, Rows, Gone
    <2>2. TasksOK' /\ BoundsOK'
      BY <1>9, BoundsStep DEF Withdraw, TasksOK
    <2> QED BY <1>9, <2>1, <2>2 DEF Withdraw
  <1>10. ASSUME NEW j \in JobIds, CancelCheck(j)
          PROVE  TypeOK'
    <2>1. RowsOK' /\ TasksOK'
      BY <1>10 DEF CancelCheck, RowsOK, TasksOK, Status
    <2>2. BoundsOK'
      BY <1>10, BoundsStep DEF CancelCheck
    <2> QED BY <1>10, <2>1, <2>2, SizesAssumption DEF CancelCheck
  <1>11. ASSUME NEW j \in JobIds, CancelWrite(j)
          PROVE  TypeOK'
    <2>1. RowsOK'
      BY <1>11, SetStatusOK DEF CancelWrite, Statuses, Final, Rows, Gone
    <2>2. TasksOK' /\ BoundsOK'
      BY <1>11, BoundsStep DEF CancelWrite, TasksOK
    <2> QED BY <1>11, <2>1, <2>2 DEF CancelWrite
  <1>12. ASSUME NEW b \in Books, DeleteBook(b)
          PROVE  TypeOK'
    <2>1. RowsOK'
      <3>1. CASE UNCHANGED jobs
        BY <1>12, <3>1 DEF DeleteBook, RowsOK, Status
      <3>2. CASE jobs' = SetStatus({j \in Rows : jobs[j].book = b}, "deleted")
        BY <1>12, <3>2, SetStatusOK DEF DeleteBook, Statuses, Gone
      <3> QED BY <1>12, <3>1, <3>2 DEF DeleteBook
    <2>2. TasksOK' /\ BoundsOK'
      BY <1>12, BoundsStep DEF DeleteBook, TasksOK
    <2> QED BY <1>12, <2>1, <2>2 DEF DeleteBook
  <1>13. ASSUME Tick
          PROVE  TypeOK'
    <2>1. RowsOK' /\ TasksOK'
      BY <1>13 DEF Tick, RowsOK, TasksOK, Status
    <2>2. BoundsOK'
      BY <1>13, BoundsStep DEF Tick
    <2> QED BY <1>13, <2>1, <2>2, SizesAssumption DEF Tick
  <1>14. ASSUME Claim
          PROVE  TypeOK'
    <2>1. PICK j \in Pending : /\ jobs' = SetStatus({j}, "running")
                              /\ task' = [task EXCEPT ![j] = FirstStage(j)]
                              /\ batch' = batch \union {j}
      BY <1>14 DEF Claim
    <2>2. RowsOK'
      BY <1>14, <2>1, SetStatusOK DEF Claim, Pending, Rows, Gone, Statuses, Active
    <2>3. TasksOK'
      BY <1>14, <2>1 DEF Claim, TasksOK, Pending, FirstStage, Stages
    <2>4. BoundsOK'
      BY <1>14, BoundsStep DEF Claim
    <2> QED BY <1>14, <2>1, <2>2, <2>3, <2>4 DEF Claim, Pending
  <1>15. ASSUME NothingToClaim
          PROVE  TypeOK'
    <2>1. RowsOK' /\ TasksOK'
      BY <1>15 DEF NothingToClaim, RowsOK, TasksOK, Status
    <2>2. BoundsOK'
      BY <1>15, BoundsStep DEF NothingToClaim
    <2> QED BY <1>15, <2>1, <2>2, SizesAssumption DEF NothingToClaim
  <1>16. ASSUME ClaimFails
          PROVE  TypeOK'
    <2>1. RowsOK' /\ TasksOK'
      BY <1>16 DEF ClaimFails, RowsOK, TasksOK, Status
    <2>2. BoundsOK'
      BY <1>16, BoundsStep DEF ClaimFails
    <2> QED BY <1>16, <2>1, <2>2, SizesAssumption DEF ClaimFails
  <1>17. ASSUME Join
          PROVE  TypeOK'
    <2>1. RowsOK' /\ TasksOK'
      BY <1>17 DEF Join, RowsOK, TasksOK, Status
    <2>2. BoundsOK'
      BY <1>17, BoundsStep DEF Join
    <2> QED BY <1>17, <2>1, <2>2, SizesAssumption DEF Join
  <1>18. ASSUME NEW j \in JobIds, LoadBook(j)
          PROVE  TypeOK'
    <2>1. RowsOK'
      BY <1>18 DEF LoadBook, RowsOK, Status
    <2>2. TasksOK'
      BY <1>18, TasksStep DEF LoadBook, Stages
    <2>3. BoundsOK'
      BY <1>18, BoundsStep DEF LoadBook
    <2> QED BY <1>18, <2>1, <2>2, <2>3 DEF LoadBook
  <1>19. ASSUME NEW j \in JobIds, Work(j)
          PROVE  TypeOK'
    <2>1. RowsOK'
      BY <1>19 DEF Work, RowsOK, Status
    <2>2. TasksOK'
      BY <1>19, TasksStep DEF Work, Stages
    <2>3. BoundsOK'
      BY <1>19, BoundsStep DEF Work
    <2> QED BY <1>19, <2>1, <2>2, <2>3 DEF Work
  <1>20. ASSUME NEW j \in JobIds, Sweep(j)
          PROVE  TypeOK'
    <2>1. RowsOK'
      <3>1. CASE UNCHANGED jobs
        BY <1>20, <3>1 DEF Sweep, RowsOK, Status
      <3>2. CASE \E s \in {"completed", "failed"} :
                     jobs' = SetStatus(RunningSemantic(Book(j)), s)
        BY <1>20, <3>2, SetStatusOK
           DEF Sweep, Statuses, Final, RunningSemantic, Running, Rows, Gone
      <3> QED BY <1>20, <3>1, <3>2 DEF Sweep
    <2>2. TasksOK'
      BY <1>20, TasksStep DEF Sweep, Stages
    <2>3. BoundsOK'
      BY <1>20, BoundsStep DEF Sweep
    <2> QED BY <1>20, <2>1, <2>2, <2>3 DEF Sweep
  <1>21. ASSUME NEW j \in JobIds, SelectBooks(j)
          PROVE  TypeOK'
    <2>1. RowsOK'
      BY <1>21 DEF SelectBooks, RowsOK, Status
    <2>2. TasksOK'
      BY <1>21, TasksStep DEF SelectBooks, Stages
    <2>3. BoundsOK'
      BY <1>21, BoundsStep DEF SelectBooks
    <2>4. Oldest(Unclassified, OrganizeLimit) \subseteq Books
      BY DEF Oldest, Unclassified
    <2>5. todo' \in [JobIds -> SUBSET Books]
      BY <1>21, <2>4 DEF SelectBooks
    <2> QED BY <1>21, <2>1, <2>2, <2>3, <2>5 DEF SelectBooks
  <1>22. ASSUME NEW j \in JobIds, EnqueueClassify(j)
          PROVE  TypeOK'
    <2>1. PICK b \in Oldest(todo[j], 1) :
             \/ /\ InsertUnlessActive("classify", b)
                /\ todo' = [todo EXCEPT ![j] = @ \ {b}]
                /\ GoTo(j, IF todo'[j] = {} THEN "mark_ok" ELSE "fan_out")
                /\ NoFault
             \/ /\ todo' = [todo EXCEPT ![j] = {}]
                /\ GoTo(j, "mark_failed") /\ UNCHANGED <<jobs, inserted>>
                /\ NoFault \/ Fault
      BY <1>22 DEF EnqueueClassify
    <2>2. b \in Books
      BY DEF Oldest
    <2>3. RowsOK'
      BY <2>1, <2>2, InsertOK DEF InsertUnlessActive, JobTypes, BookTypes
    <2>4. TasksOK'
      BY <2>1, TasksStep DEF Stages
    <2>5. BoundsOK'
      BY <2>1, BoundsStep
    <2>6. todo' \in [JobIds -> SUBSET Books]
      BY <2>1
    <2> QED BY <1>22, <2>3, <2>4, <2>5, <2>6 DEF EnqueueClassify
  <1>23. ASSUME NEW j \in JobIds, MarkCompleted(j)
          PROVE  TypeOK'
    <2>1. RowsOK'
      <3>1. CASE UNCHANGED jobs
        BY <1>23, <3>1 DEF MarkCompleted, RowsOK, Status
      <3>2. CASE jobs' = SetStatus({j} \intersect Rows, "completed")
        BY <1>23, <3>2, SetStatusOK DEF MarkCompleted, Statuses, Final
      <3> QED BY <1>23, <3>1, <3>2 DEF MarkCompleted
    <2>2. TasksOK'
      BY <1>23, TasksStep DEF MarkCompleted, Stages
    <2>3. BoundsOK'
      BY <1>23, BoundsStep DEF MarkCompleted
    <2> QED BY <1>23, <2>1, <2>2, <2>3 DEF MarkCompleted
  <1>24. ASSUME NEW j \in JobIds, MarkFailed(j)
          PROVE  TypeOK'
    <2>1. RowsOK'
      <3>1. CASE UNCHANGED jobs
        BY <1>24, <3>1 DEF MarkFailed, RowsOK, Status
      <3>2. CASE jobs' = SetStatus({j} \intersect Rows, "failed")
        BY <1>24, <3>2, SetStatusOK DEF MarkFailed, Statuses, Final
      <3> QED BY <1>24, <3>1, <3>2 DEF MarkFailed
    <2>2. TasksOK'
      BY <1>24, TasksStep DEF MarkFailed, Stages
    <2>3. BoundsOK'
      BY <1>24, BoundsStep DEF MarkFailed
    <2> QED BY <1>24, <2>1, <2>2, <2>3 DEF MarkFailed
  <1>25. ASSUME NEW j \in JobIds, EmitCompleted(j)
          PROVE  TypeOK'
    <2>1. RowsOK'
      BY <1>25 DEF EmitCompleted, RowsOK, Status
    <2>2. TasksOK'
      BY <1>25, TasksStep DEF EmitCompleted, Stages
    <2>3. BoundsOK'
      BY <1>25, BoundsStep DEF EmitCompleted
    <2> QED BY <1>25, <2>1, <2>2, <2>3 DEF EmitCompleted
  <1>26. ASSUME Crash
          PROVE  TypeOK'
    <2>1. RowsOK'
      BY <1>26 DEF Crash, RowsOK, Status
    <2>2. TasksOK' /\ BoundsOK'
      BY <1>26, SizesAssumption DEF Crash, TasksOK, BoundsOK, Stages
    <2>3. regen' \in [on : BOOLEAN, left : SUBSET Books] /\ fkOff' \in 0 .. PoolSize
      BY <1>26, SizesAssumption DEF Crash, NotRunning
    <2> QED BY <1>26, <2>1, <2>2, <2>3 DEF Crash
  <1>27. ASSUME Restart
          PROVE  TypeOK'
    <2>1. RowsOK'
      BY <1>27, SetStatusOK DEF Restart, Statuses, Active, Running, Rows, Gone
    <2>2. TasksOK' /\ BoundsOK'
      BY <1>27 DEF Restart, TasksOK, BoundsOK
    <2> QED BY <1>27, <2>1, <2>2 DEF Restart
  <1>28. CASE UNCHANGED vars
    BY <1>28 DEF vars, boundVars, RowsOK, TasksOK, BoundsOK, Status
  <1> QED
    BY <1>1, <1>2, <1>3, <1>4, <1>5, <1>6, <1>7, <1>8, <1>9, <1>10,
       <1>11, <1>12, <1>13, <1>14, <1>15, <1>16, <1>17, <1>18, <1>19, <1>20,
       <1>21, <1>22, <1>23, <1>24, <1>25, <1>26, <1>27, <1>28
    DEF Next, Enqueue, Administrate, RunnerStep, TaskStep

\* Every reachable state is well typed; in particular the rows are those of the
\* identifiers handed out so far, and the semaphore never goes below zero.
THEOREM TypeCorrect == Spec => []TypeOK
  BY TypeInit, TypeNext, PTL DEF Spec

-----------------------------------------------------------------------------
(* What any step does to the rows.                                         *)

\* Every step leaves the rows alone, inserts one under the guard of its type,
\* ends rows that are there, hands out the oldest, or is the reset at a start.
QueueStep ==
    \/ UNCHANGED <<jobs, inserted>>
    \/ \E t \in JobTypes, b \in Books \union {NoBook} :
          Insert(t, b) /\ (t \in BookTypes => ActiveFor(t, b) = {})
    \/ \E S \in SUBSET Rows, s \in Final \union {"deleted"} :
          jobs' = SetStatus(S, s) /\ inserted' = inserted
    \/ Claim \/ Restart

\* Whatever the step, it is one of these.
LEMMA StepOfQueue == TypeOK /\ [Next]_vars => QueueStep
  <1> SUFFICES ASSUME TypeOK, [Next]_vars
               PROVE  QueueStep
    OBVIOUS
  <1> USE DEF tableVars, TaskFrame
  <1>1. ASSUME NEW b \in Books, EnqueueSemanticIndex(b) \/ RegenInsert(b)
        PROVE  QueueStep
    BY <1>1 DEF EnqueueSemanticIndex, RegenInsert, InsertUnlessActive, QueueStep,
                JobTypes, BookTypes
  <1>2. ASSUME NEW c \in Callers, InsertOrganize(c)
        PROVE  QueueStep
    BY <1>2 DEF InsertOrganize, QueueStep, JobTypes, BookTypes
  <1>3. CASE EnqueueBackup
    BY <1>3 DEF EnqueueBackup, InsertUnlessActive, QueueStep, JobTypes, BookTypes
  <1>4. ASSUME NEW j \in JobIds, EnqueueClassify(j)
        PROVE  QueueStep
    <2>1. PICK b \in Oldest(todo[j], 1) :
             InsertUnlessActive("classify", b) \/ UNCHANGED <<jobs, inserted>>
      BY <1>4 DEF EnqueueClassify
    <2>2. b \in Books
      BY DEF Oldest, TypeOK
    <2> QED BY <2>1, <2>2 DEF InsertUnlessActive, QueueStep, JobTypes, BookTypes
  <1>5. ASSUME NEW j \in JobIds, Withdraw(j)
        PROVE  QueueStep
    <2>1. {j} \in SUBSET Rows
      BY <1>5 DEF Withdraw, Rows, Gone
    <2> QED BY <1>5, <2>1 DEF Withdraw, QueueStep, Final
  <1>6. ASSUME NEW j \in JobIds, CancelWrite(j)
        PROVE  QueueStep
    <2>1. {j} \intersect Rows \in SUBSET Rows
      OBVIOUS
    <2> QED BY <1>6, <2>1 DEF CancelWrite, QueueStep, Final
  <1>7. ASSUME NEW b \in Books, DeleteBook(b)
        PROVE  QueueStep
    <2>1. {j \in Rows : jobs[j].book = b} \in SUBSET Rows
      OBVIOUS
    <2> QED BY <1>7, <2>1 DEF DeleteBook, QueueStep
  <1>8. CASE Claim \/ Restart
    BY <1>8 DEF QueueStep
  <1>9. ASSUME NEW j \in JobIds, Sweep(j)
        PROVE  QueueStep
    <2>1. RunningSemantic(Book(j)) \in SUBSET Rows
      BY DEF RunningSemantic, Running, Rows, Gone
    <2>2. \/ UNCHANGED jobs
          \/ \E s \in {"completed", "failed"} :
                jobs' = SetStatus(RunningSemantic(Book(j)), s)
      BY <1>9 DEF Sweep
    <2>3. inserted' = inserted
      BY <1>9 DEF Sweep
    <2> QED BY <2>1, <2>2, <2>3 DEF QueueStep, Final
  <1>10. ASSUME NEW j \in JobIds, MarkCompleted(j) \/ MarkFailed(j)
         PROVE  QueueStep
    <2>1. {j} \intersect Rows \in SUBSET Rows
      OBVIOUS
    <2>2. \/ UNCHANGED jobs
          \/ \E s \in {"completed", "failed"} :
                jobs' = SetStatus({j} \intersect Rows, s)
      BY <1>10 DEF MarkCompleted, MarkFailed
    <2>3. inserted' = inserted
      BY <1>10 DEF MarkCompleted, MarkFailed
    <2> QED BY <2>1, <2>2, <2>3 DEF QueueStep, Final
  <1>12. ASSUME \/ \E c \in Callers : AskOrganize(c)
                \/ \E S \in SUBSET Books : RegenStart(S)
                \/ RegenAbort \/ RegenEnd \/ Tick \/ NothingToClaim \/ ClaimFails
                \/ Join \/ Crash \/ UNCHANGED vars
                \/ \E j \in JobIds : \/ CancelCheck(j) \/ LoadBook(j) \/ Work(j)
                                     \/ SelectBooks(j) \/ EmitCompleted(j)
         PROVE  QueueStep
    BY <1>12 DEF AskOrganize, RegenStart, RegenAbort, RegenEnd, Tick, NothingToClaim,
       ClaimFails, Join, Crash, CancelCheck, LoadBook, Work, SelectBooks, EmitCompleted,
       vars, QueueStep
  <1> QED
    BY <1>1, <1>2, <1>3, <1>4, <1>5, <1>6, <1>7, <1>8, <1>9, <1>10, <1>12
    DEF Next, Enqueue, Administrate, RunnerStep, TaskStep

\* Put more roughly, a step leaves the rows alone, inserts one under its guard,
\* or sets the status of rows that are there; only rows that are active already
\* are set to an active status.
RowStep ==
    \/ UNCHANGED <<jobs, inserted>>
    \/ \E t \in JobTypes, b \in Books \union {NoBook} :
          Insert(t, b) /\ (t \in BookTypes => ActiveFor(t, b) = {})
    \/ \E S \in SUBSET Rows, s \in Statuses \ {"absent"} :
          /\ jobs' = SetStatus(S, s) /\ inserted' = inserted
          /\ s \in Active => \A j \in S : Status(j) \in Active

\* Whatever the step, it inserts one row or gives a set of rows one status.
LEMMA StepOfRows == TypeOK /\ [Next]_vars => RowStep
  <1> SUFFICES ASSUME TypeOK, QueueStep
               PROVE  RowStep
    BY StepOfQueue
  <1>1. CASE \E S \in SUBSET Rows, s \in Final \union {"deleted"} :
                jobs' = SetStatus(S, s) /\ inserted' = inserted
    BY <1>1 DEF RowStep, Statuses, Final, Gone, Active
  <1>2. CASE Claim
    <2>1. PICK j \in Pending : jobs' = SetStatus({j}, "running")
      BY <1>2 DEF Claim
    <2>2. {j} \in SUBSET Rows /\ Status(j) \in Active /\ inserted' = inserted
      BY <1>2 DEF Claim, Pending, Rows, Gone, Active
    <2> QED BY <2>1, <2>2 DEF RowStep, Statuses, Active
  <1>3. CASE Restart
    <2>1. Running \in SUBSET Rows /\ \A j \in Running : Status(j) \in Active
      BY DEF Running, Rows, Gone, Active
    <2> QED BY <1>3, <2>1 DEF Restart, RowStep, Statuses, Active
  <1> QED BY <1>1, <1>2, <1>3 DEF QueueStep, RowStep

-----------------------------------------------------------------------------
(* The guard of the enqueue functions.                                     *)

\* Such a step never makes a second row of a book and type active.
LEMMA OneActiveStep == TypeOK /\ OneActivePerBook /\ RowStep => OneActivePerBook'
  <1> SUFFICES ASSUME TypeOK, OneActivePerBook, RowStep
               PROVE  OneActivePerBook'
    OBVIOUS
  <1>1. CASE UNCHANGED <<jobs, inserted>>
    BY <1>1 DEF OneActivePerBook, Status, Type, Book
  <1>2. ASSUME NEW t \in JobTypes, NEW b \in Books \union {NoBook}, Insert(t, b),
               t \in BookTypes => ActiveFor(t, b) = {}
        PROVE  OneActivePerBook'
    <2>1. /\ inserted + 1 \in JobIds
          /\ jobs'[inserted + 1] = [type |-> t, book |-> b, status |-> "pending"]
          /\ \A j \in JobIds \ {inserted + 1} : jobs'[j] = jobs[j]
      BY <1>2, InsertRows
    <2>2. ASSUME NEW j \in JobIds, NEW k \in JobIds, j # inserted + 1, k # inserted + 1,
                 jobs'[j].status \in Active, jobs'[k].status \in Active,
                 jobs'[j].type \in BookTypes, jobs'[j].type = jobs'[k].type,
                 jobs'[j].book = jobs'[k].book
          PROVE  j = k
      BY <2>1, <2>2 DEF OneActivePerBook, Status, Type, Book
    <2>3. ASSUME NEW j \in JobIds, j # inserted + 1, jobs'[j].status \in Active,
                 jobs'[j].type = t, jobs'[j].book = b, t \in BookTypes
          PROVE  FALSE
      BY <1>2, <2>1, <2>3 DEF ActiveFor, Status
    <2> QED BY <2>1, <2>2, <2>3 DEF OneActivePerBook, Status, Type, Book
  <1>3. ASSUME NEW S \in SUBSET Rows, NEW s \in Statuses \ {"absent"},
               jobs' = SetStatus(S, s), s \in Active => \A j \in S : Status(j) \in Active
        PROVE  OneActivePerBook'
    <2>1. \A j \in JobIds : /\ Type(j)' = Type(j) /\ Book(j)' = Book(j)
                            /\ Status(j)' = IF j \in S THEN s ELSE Status(j)
      BY <1>3, SetStatusRows DEF TypeOK, RowsOK
    <2>2. \A j \in JobIds : Status(j)' \in Active => Status(j) \in Active
      BY <1>3, <2>1
    <2> QED BY <2>1, <2>2 DEF OneActivePerBook
  <1> QED BY <1>1, <1>2, <1>3 DEF RowStep

\* A book never has two active rows of one type, for any number of books, rows,
\* tasks, failures and restarts.
THEOREM OneActiveCorrect == Spec => []OneActivePerBook
  <1>1. Init => OneActivePerBook
    BY DEF Init, OneActivePerBook, Status, Active
  <1>2. TypeOK /\ OneActivePerBook /\ [Next]_vars => OneActivePerBook'
    BY StepOfRows, OneActiveStep
  <1> QED BY <1>1, <1>2, TypeCorrect, PTL DEF Spec

\* No step brings a finished row back into the queue.
THEOREM FinishedCorrect == Spec => FinishedStaysFinished
  <1> DEFINE Stays == \A j \in JobIds : Status(j) \in Final \union {"deleted"}
                                           => Status(j)' \notin Active
  <1>1. TypeOK /\ RowStep => Stays
    <2> SUFFICES ASSUME TypeOK, RowStep, NEW j \in JobIds,
                        Status(j) \in Final \union {"deleted"}
                 PROVE  Status(j)' \notin Active
      OBVIOUS
    <2>1. CASE UNCHANGED <<jobs, inserted>>
      BY <2>1 DEF Status, Final, Active
    <2>2. ASSUME NEW t \in JobTypes, NEW b \in Books \union {NoBook}, Insert(t, b)
          PROVE  Status(j)' \notin Active
      BY <2>2, InsertRows DEF Status, Final, Active
    <2>3. ASSUME NEW S \in SUBSET Rows, NEW s \in Statuses \ {"absent"},
                 jobs' = SetStatus(S, s), s \in Active => \A k \in S : Status(k) \in Active
          PROVE  Status(j)' \notin Active
      <3>1. Status(j)' = IF j \in S THEN s ELSE Status(j)
        BY <2>3, SetStatusRows DEF TypeOK, RowsOK
      <3>2. Status(j) \notin Active
        BY DEF Final, Active
      <3> QED BY <2>3, <3>1, <3>2
    <2> QED BY <2>1, <2>2, <2>3 DEF RowStep
  <1>2. TypeOK /\ [Next]_vars => Stays
    BY <1>1, StepOfRows
  <1>3. TypeOK /\ [Next]_vars => [Stays]_vars
    BY <1>2
  <1> QED BY <1>3, TypeCorrect, PTL DEF Spec, FinishedStaysFinished

-----------------------------------------------------------------------------
(* Rows, tasks and events.                                                 *)

\* What makes RunningHasTask, NoDetachedTask and EventOnce inductive: a task's
\* row has been claimed, a job with a task has no event yet, and the stage that
\* emits one is only reached over a row marked completed.
TaskInv ==
    /\ ~up => Live = {} /\ runner = "sleep"
    /\ \A j \in Live : Status(j) \notin {"absent", "pending"}
    /\ RunningHasTask /\ NoDetachedTask
    /\ \A j \in JobIds : \/ emitted[j] = 0
                         \/ emitted[j] = 1 /\ j \notin Live /\ Status(j) \in Earned
    /\ \A j \in JobIds : task[j] = "emit" => Status(j) \in Earned

\* A step of a caller or an administrator: tasks and runner stay where they are,
\* and a row is inserted, withdrawn while it is pending, cancelled or deleted.
Harmless(old, new) ==
    \/ new = old
    \/ old = "absent" /\ new = "pending"
    \/ old = "pending" /\ new = "failed"
    \/ old # "absent" /\ new \in {"cancelled", "deleted"}
OutsideStep ==
    /\ UNCHANGED <<up, runner, batch, task, emitted>>
    /\ dbErr => dbErr'
    /\ \A j \in JobIds : Harmless(Status(j), Status(j)')

\* A step that touches no task and makes no row running keeps the invariant.
LEMMA OutsideKeeps == TaskInv /\ OutsideStep => TaskInv'
  <1> SUFFICES ASSUME TaskInv, OutsideStep
               PROVE  TaskInv'
    OBVIOUS
  <1>1. Live' = Live
    BY DEF OutsideStep, Live
  <1>2. Running' \subseteq Running
    BY DEF OutsideStep, Harmless, Running
  <1>3. \A j \in JobIds : Status(j) \in Earned => Status(j)' \in Earned
    BY DEF OutsideStep, Harmless, Earned
  <1>4. \A j \in JobIds : Status(j) \notin {"absent", "pending"}
                             => Status(j)' \notin {"absent", "pending"}
    BY DEF OutsideStep, Harmless
  <1>5. RunningHasTask' /\ NoDetachedTask'
    BY <1>1, <1>2 DEF TaskInv, OutsideStep, RunningHasTask, NoDetachedTask
  <1> QED BY <1>1, <1>3, <1>4, <1>5 DEF TaskInv, OutsideStep, Live

\* A step of a caller or of an administrator is such a step.
LEMMA CallersAreOutside == TypeOK /\ (Enqueue \/ Administrate) => OutsideStep
  <1> SUFFICES ASSUME TypeOK, Enqueue \/ Administrate
               PROVE  OutsideStep
    OBVIOUS
  <1> USE DEF runnerVars, boundVars, NoFault, OutsideStep
  <1>1. ASSUME NEW t \in JobTypes, NEW b \in Books \union {NoBook},
               InsertUnlessActive(t, b) \/ Insert(t, b) \/ UNCHANGED jobs,
               UNCHANGED <<up, runner, batch, task, emitted>>, dbErr => dbErr'
        PROVE  OutsideStep
    <2>1. CASE Insert(t, b)
      <3>1. /\ jobs[inserted + 1].status = "absent"
            /\ jobs'[inserted + 1] = [type |-> t, book |-> b, status |-> "pending"]
            /\ \A j \in JobIds \ {inserted + 1} : jobs'[j] = jobs[j]
        BY <2>1, InsertRows
      <3>2. \A j \in JobIds : Harmless(Status(j), Status(j)')
        BY <3>1 DEF Harmless, Status
      <3> QED BY <1>1, <3>2
    <2>2. CASE UNCHANGED jobs
      BY <1>1, <2>2 DEF Harmless, Status
    <2> QED BY <1>1, <2>1, <2>2 DEF InsertUnlessActive
  <1>2. ASSUME NEW b \in Books, EnqueueSemanticIndex(b) \/ RegenInsert(b)
        PROVE  OutsideStep
    BY <1>1, <1>2 DEF EnqueueSemanticIndex, RegenInsert, JobTypes, BookTypes
  <1>3. ASSUME NEW c \in Callers, AskOrganize(c) \/ InsertOrganize(c)
        PROVE  OutsideStep
    BY <1>1, <1>3 DEF AskOrganize, InsertOrganize, tableVars, JobTypes, BookTypes
  <1>4. CASE EnqueueBackup
    BY <1>1, <1>4 DEF EnqueueBackup, JobTypes, BookTypes
  <1>5. CASE RegenAbort \/ RegenEnd \/ (\E S \in SUBSET Books : RegenStart(S))
    BY <1>5 DEF RegenAbort, RegenEnd, RegenStart, Fault, tableVars, Harmless, Status
  <1>6. ASSUME NEW j \in JobIds, Withdraw(j) \/ CancelCheck(j) \/ CancelWrite(j)
        PROVE  OutsideStep
    <2>1. CASE Withdraw(j)
      <3>1. \A k \in JobIds : Status(k)' = IF k \in {j} THEN "failed" ELSE Status(k)
        BY <2>1, SetStatusRows DEF Withdraw, TypeOK, RowsOK, Statuses, Final
      <3> QED BY <2>1, <3>1 DEF Withdraw, Harmless
    <2>2. CASE CancelCheck(j)
      BY <2>2 DEF CancelCheck, tableVars, Harmless, Status
    <2>3. CASE CancelWrite(j)
      <3>1. \A k \in JobIds : Status(k)' = IF k \in {j} \intersect Rows
                                           THEN "cancelled" ELSE Status(k)
        BY <2>3, SetStatusRows DEF CancelWrite, TypeOK, RowsOK, Statuses, Final
      <3> QED BY <2>3, <3>1 DEF CancelWrite, Harmless, Rows, Gone
    <2> QED BY <1>6, <2>1, <2>2, <2>3
  <1>7. ASSUME NEW b \in Books, DeleteBook(b)
        PROVE  OutsideStep
    <2>1. CASE UNCHANGED jobs
      BY <1>7, <2>1 DEF DeleteBook, Harmless, Status
    <2>2. CASE jobs' = SetStatus({j \in Rows : jobs[j].book = b}, "deleted")
      <3>1. \A k \in JobIds : Status(k)' = IF k \in {j \in Rows : jobs[j].book = b}
                                           THEN "deleted" ELSE Status(k)
        BY <2>2, SetStatusRows DEF TypeOK, RowsOK, Statuses, Gone
      <3> QED BY <1>7, <3>1 DEF DeleteBook, Harmless, Rows, Gone
    <2> QED BY <1>7, <2>1, <2>2 DEF DeleteBook
  <1> QED BY <1>2, <1>3, <1>4, <1>5, <1>6, <1>7 DEF Enqueue, Administrate

\* The runner: what it claims was pending and has no task.
LEMMA RunnerKeeps == TypeOK /\ TaskInv /\ (RunnerStep \/ ClaimFails) => TaskInv'
  <1> SUFFICES ASSUME TypeOK, TaskInv, RunnerStep \/ ClaimFails
               PROVE  TaskInv'
    OBVIOUS
  <1> USE DEF TaskInv, tableVars, boundVars, NoFault
  <1>1. CASE Claim
    <2>1. PICK j \in Pending : /\ jobs' = SetStatus({j}, "running")
                               /\ task' = [task EXCEPT ![j] = FirstStage(j)]
                               /\ batch' = batch \union {j}
      BY <1>1 DEF Claim
    <2>2. j \in JobIds /\ Status(j) = "pending" /\ j \notin Live
      BY DEF Pending
    <2>3. \A k \in JobIds : Status(k)' = IF k \in {j} THEN "running" ELSE Status(k)
      BY <2>1, SetStatusRows DEF TypeOK, RowsOK, Statuses, Active
    <2>4. Live' = Live \union {j} /\ task'[j] # "emit"
      BY <2>1, <2>2 DEF TypeOK, TasksOK, Live, FirstStage
    <2>5. Running' = Running \union {j}
      BY <2>2, <2>3 DEF Running
    <2>6. RunningHasTask' /\ NoDetachedTask'
      BY <1>1, <2>1, <2>4, <2>5 DEF Claim, RunningHasTask, NoDetachedTask
    <2>7. \A k \in JobIds \ {j} : task'[k] = task[k] /\ Status(k)' = Status(k)
      BY <2>1, <2>3 DEF TypeOK, TasksOK
    <2>8. emitted[j] = 0
      BY <2>2 DEF Earned
    <2>9. up' /\ emitted' = emitted
      BY <1>1 DEF Claim
    <2>10. \A k \in Live' : Status(k)' \notin {"absent", "pending"}
      <3>1. ASSUME NEW k \in Live, k # j
            PROVE  Status(k)' \notin {"absent", "pending"}
        BY <2>7, <3>1 DEF Live
      <3>2. Status(j)' = "running"
        BY <2>2, <2>3
      <3> QED BY <2>4, <3>1, <3>2
    <2>11. \A k \in JobIds : \/ emitted'[k] = 0
                             \/ emitted'[k] = 1 /\ k \notin Live' /\ Status(k)' \in Earned
      BY <2>4, <2>7, <2>8, <2>9
    <2>12. \A k \in JobIds : task'[k] = "emit" => Status(k)' \in Earned
      BY <2>4, <2>7
    <2> QED BY <2>6, <2>9, <2>10, <2>11, <2>12
  <1>2. ASSUME UNCHANGED <<jobs, task, up, emitted>>, up \/ runner' = "sleep",
               RunningHasTask', NoDetachedTask'
        PROVE  TaskInv'
    BY <1>2 DEF Live, Status
  <1>3. CASE Tick
    <2>1. RunningHasTask' /\ NoDetachedTask'
      BY <1>3 DEF Tick, RunningHasTask, NoDetachedTask, Running, Live, Status
    <2> QED BY <1>2, <1>3, <2>1 DEF Tick
  <1>4. CASE NothingToClaim
    <2>1. RunningHasTask' /\ NoDetachedTask'
      BY <1>4 DEF NothingToClaim, RunningHasTask, NoDetachedTask, Running, Live, Status
    <2> QED BY <1>2, <1>4, <2>1 DEF NothingToClaim
  <1>5. CASE ClaimFails
    <2>1. RunningHasTask' /\ NoDetachedTask'
      BY <1>5 DEF ClaimFails, Fault, RunningHasTask, NoDetachedTask
    <2> QED BY <1>2, <1>5, <2>1 DEF ClaimFails
  <1>6. CASE Join
    <2>1. RunningHasTask' /\ NoDetachedTask'
      BY <1>6 DEF Join, RunningHasTask, NoDetachedTask, Running, Live, Status
    <2> QED BY <1>2, <1>6, <2>1 DEF Join
  <1> QED BY <1>1, <1>3, <1>4, <1>5, <1>6 DEF RunnerStep

\* A task that goes on, to a stage before the event, and changes rows only by
\* inserting one or by ending running ones.
LEMMA TaskGoesOn ==
    ASSUME TypeOK, TaskInv, NEW j \in Live, NEW s \in Stages \ {"none", "emit"},
           task' = [task EXCEPT ![j] = s],
           UNCHANGED <<up, runner, batch, emitted>>, dbErr => dbErr',
           \A k \in JobIds : \/ Harmless(Status(k), Status(k)')
                             \/ Status(k) = "running" /\ Status(k)' \in Final
    PROVE  TaskInv'
  <1>1. Live' = Live
    BY DEF TypeOK, TasksOK, Live
  <1>2. Running' \subseteq Running
    BY DEF Harmless, Running, Final
  <1>3. \A k \in JobIds : Status(k) \in Earned => Status(k)' \in Earned
    BY DEF Harmless, Earned
  <1>4. \A k \in JobIds : Status(k) \notin {"absent", "pending"}
                             => Status(k)' \notin {"absent", "pending"}
    BY DEF Harmless, Final
  <1>5. RunningHasTask' /\ NoDetachedTask'
    BY <1>1, <1>2 DEF TaskInv, RunningHasTask, NoDetachedTask
  <1>6. \A k \in JobIds : task'[k] = "emit" => task[k] = "emit"
    BY DEF TypeOK, TasksOK
  <1> QED BY <1>1, <1>3, <1>4, <1>5, <1>6 DEF TaskInv, Live

\* A task that ends: its row is not running any more, or its call failed.
LEMMA TaskGoesAway ==
    ASSUME TypeOK, TaskInv, NEW j \in Live, TaskEnds(j),
           UNCHANGED <<up, runner, batch>>, dbErr => dbErr',
           \A k \in JobIds \ {j} : Status(k)' = Status(k),
           \A k \in JobIds \ {j} : emitted'[k] = emitted[k],
           emitted'[j] = 0 \/ (emitted'[j] = 1 /\ Status(j)' \in Earned),
           Status(j)' # "running" \/ dbErr'
    PROVE  TaskInv'
  <1>1. Live' = Live \ {j} /\ \A k \in JobIds \ {j} : task'[k] = task[k]
    BY DEF TaskEnds, TypeOK, TasksOK, Live
  <1>2. task'[j] = "none"
    BY DEF TaskEnds, TypeOK, TasksOK, Live
  <1>3. RunningHasTask' /\ NoDetachedTask'
    BY <1>1 DEF TaskInv, RunningHasTask, NoDetachedTask, Running
  <1> QED BY <1>1, <1>2, <1>3 DEF TaskInv, Live

\* Every step of a task keeps the invariant.
LEMMA TasksKeep ==
    ASSUME TypeOK, TaskInv, NEW j \in JobIds, TaskStep(j)
    PROVE  TaskInv'
  <1> USE DEF boundVars, NoFault, TaskFrame, runnerVars
  <1>1. CASE task[j] # "none"
    <2>1. j \in Live /\ emitted[j] = 0 /\ Status(j) \notin {"absent", "pending"}
      BY <1>1 DEF Live, TaskInv
    <2>2. CASE LoadBook(j) \/ Work(j)
      <3>1. PICK s \in {"work", "mark_failed", "sweep_ok", "sweep_failed", "mark_ok"} :
                task' = [task EXCEPT ![j] = s]
        BY <2>2 DEF LoadBook, Work, GoTo
      <3>2. /\ s \in Stages \ {"none", "emit"} /\ dbErr' = dbErr
            /\ UNCHANGED <<up, runner, batch, emitted>>
        BY <2>2 DEF LoadBook, Work, Stages
      <3>3. \A k \in JobIds : Harmless(Status(k), Status(k)')
        BY <2>2 DEF LoadBook, Work, Harmless, Status
      <3> QED BY <2>1, <3>1, <3>2, <3>3, TaskGoesOn
    <2>3. CASE SelectBooks(j)
      <3>1. PICK s \in {"mark_ok", "fan_out", "mark_failed"} : task' = [task EXCEPT ![j] = s]
        BY <2>3 DEF SelectBooks, GoTo
      <3>2. dbErr => dbErr'
        BY <2>3 DEF SelectBooks, Fault
      <3> QED BY <2>1, <2>3, <3>1, <3>2, TaskGoesOn DEF SelectBooks, Stages, Harmless, Status
    <2>4. CASE EnqueueClassify(j)
      <3>1. PICK b \in Oldest(todo[j], 1), s \in {"mark_ok", "fan_out", "mark_failed"} :
                /\ InsertUnlessActive("classify", b) \/ UNCHANGED <<jobs, inserted>>
                /\ task' = [task EXCEPT ![j] = s]
        BY <2>4 DEF EnqueueClassify, GoTo
      <3>2. dbErr => dbErr'
        BY <2>4 DEF EnqueueClassify, Fault
      <3>3. b \in Books /\ "classify" \in JobTypes
        BY DEF Oldest, TypeOK, JobTypes, BookTypes
      <3>4. \A k \in JobIds : Harmless(Status(k), Status(k)')
        <4>1. CASE Insert("classify", b)
          <5>1. /\ jobs[inserted + 1].status = "absent"
                /\ jobs'[inserted + 1] = [type |-> "classify", book |-> b,
                                          status |-> "pending"]
                /\ \A k \in JobIds \ {inserted + 1} : jobs'[k] = jobs[k]
            BY <3>3, <4>1, InsertRows
          <5> QED BY <5>1 DEF Harmless, Status
        <4>2. CASE UNCHANGED <<jobs, inserted>>
          BY <4>2 DEF Harmless, Status
        <4> QED BY <3>1, <4>1, <4>2 DEF InsertUnlessActive
      <3> QED BY <2>1, <2>4, <3>1, <3>2, <3>4, TaskGoesOn DEF EnqueueClassify, Stages
    <2>5. CASE Sweep(j)
      <3>1. PICK next \in {"mark_ok", "mark_failed"} : task' = [task EXCEPT ![j] = next]
        BY <2>5 DEF Sweep, GoTo
      <3>2. dbErr => dbErr'
        BY <2>5 DEF Sweep, Fault
      <3>3. \A k \in JobIds : \/ Harmless(Status(k), Status(k)')
                              \/ Status(k) = "running" /\ Status(k)' \in Final
        <4>1. CASE UNCHANGED jobs
          BY <4>1 DEF Harmless, Status
        <4>2. ASSUME NEW s \in {"completed", "failed"},
                     jobs' = SetStatus(RunningSemantic(Book(j)), s)
              PROVE  \A k \in JobIds : \/ Harmless(Status(k), Status(k)')
                                       \/ Status(k) = "running" /\ Status(k)' \in Final
          <5>1. \A k \in JobIds : Status(k)' = IF k \in RunningSemantic(Book(j))
                                               THEN s ELSE Status(k)
            BY <4>2, SetStatusRows DEF TypeOK, RowsOK, Statuses, Final
          <5> QED BY <5>1 DEF Harmless, RunningSemantic, Running, Final
        <4> QED BY <2>5, <4>1, <4>2 DEF Sweep
      <3> QED BY <2>1, <2>5, <3>1, <3>2, <3>3, TaskGoesOn DEF Sweep, Stages
    <2>6. CASE MarkCompleted(j)
      <3>1. CASE TaskEnds(j) /\ UNCHANGED jobs /\ Fault
        BY <2>1, <2>6, <3>1, TaskGoesAway DEF MarkCompleted, Fault, Status
      <3>2. CASE jobs' = SetStatus({j} \intersect Rows, "completed") /\ GoTo(j, "emit") /\ NoFault
        <4>1. \A k \in JobIds : Status(k)' = IF k \in {j} \intersect Rows
                                             THEN "completed" ELSE Status(k)
          BY <3>2, SetStatusRows DEF TypeOK, RowsOK, Statuses, Final
        <4>2. Status(j)' \in Earned /\ Status(j)' # "running"
          BY <2>1, <4>1 DEF Rows, Gone, Earned
        <4>3. Live' = Live /\ \A k \in JobIds \ {j} : task'[k] = task[k] /\ Status(k)' = Status(k)
          BY <2>1, <3>2, <4>1 DEF GoTo, TypeOK, TasksOK, Live
        <4>4. RunningHasTask' /\ NoDetachedTask'
          BY <2>6, <3>2, <4>2, <4>3 DEF MarkCompleted, TaskInv, RunningHasTask,
             NoDetachedTask, Running
        <4>5. \A k \in Live' : Status(k)' \notin {"absent", "pending"}
          BY <4>2, <4>3 DEF TaskInv, Earned, Live
        <4>6. \A k \in JobIds : \/ emitted'[k] = 0
                                \/ emitted'[k] = 1 /\ k \notin Live' /\ Status(k)' \in Earned
          BY <2>1, <2>6, <4>3 DEF TaskInv, MarkCompleted
        <4>7. \A k \in JobIds : task'[k] = "emit" => Status(k)' \in Earned
          BY <4>2, <4>3 DEF TaskInv
        <4> QED BY <2>6, <4>3, <4>4, <4>5, <4>6, <4>7 DEF TaskInv, MarkCompleted
      <3> QED BY <2>6, <3>1, <3>2 DEF MarkCompleted
    <2>7. CASE MarkFailed(j)
      <3>1. CASE UNCHANGED jobs /\ Fault
        BY <2>1, <2>7, <3>1, TaskGoesAway DEF MarkFailed, Fault, Status
      <3>2. CASE jobs' = SetStatus({j} \intersect Rows, "failed") /\ NoFault
        <4>1. \A k \in JobIds : Status(k)' = IF k \in {j} \intersect Rows
                                             THEN "failed" ELSE Status(k)
          BY <3>2, SetStatusRows DEF TypeOK, RowsOK, Statuses, Final
        <4>2. Status(j)' # "running"
          BY <2>1, <4>1 DEF Rows, Gone
        <4> QED BY <2>1, <2>7, <3>2, <4>1, <4>2, TaskGoesAway DEF MarkFailed
      <3> QED BY <2>7, <3>1, <3>2 DEF MarkFailed
    <2>8. CASE EmitCompleted(j)
      <3>1. Status(j) \in Earned /\ Status(j)' = Status(j) /\ Status(j) # "running"
        BY <2>8 DEF EmitCompleted, TaskInv, Status, Earned
      <3>2. emitted'[j] \in {0, 1} /\ \A k \in JobIds \ {j} : emitted'[k] = emitted[k]
        BY <2>1, <2>8 DEF EmitCompleted, TypeOK
      <3>3. dbErr => dbErr'
        BY <2>8 DEF EmitCompleted, Fault
      <3> QED BY <2>1, <2>8, <3>1, <3>2, <3>3, TaskGoesAway DEF EmitCompleted, Status
    <2> QED BY <2>2, <2>3, <2>4, <2>5, <2>6, <2>7, <2>8 DEF TaskStep
  <1>2. CASE task[j] = "none"
    BY <1>2 DEF TaskStep, LoadBook, Work, SelectBooks, EnqueueClassify, Sweep,
       MarkCompleted, MarkFailed, EmitCompleted
  <1> QED BY <1>1, <1>2

\* The invariant that ties rows, tasks and events together is inductive.
LEMMA TaskInvNext == TypeOK /\ TaskInv /\ [Next]_vars => TaskInv'
  <1> SUFFICES ASSUME TypeOK, TaskInv, [Next]_vars
               PROVE  TaskInv'
    OBVIOUS
  <1>1. CASE Enqueue \/ Administrate
    BY <1>1, CallersAreOutside, OutsideKeeps
  <1>2. CASE RunnerStep \/ ClaimFails
    BY <1>2, RunnerKeeps
  <1>3. ASSUME NEW j \in JobIds, TaskStep(j)
        PROVE  TaskInv'
    BY <1>3, TasksKeep
  <1>4. CASE Crash
    <2>1. Live' = {} /\ ~up' /\ runner' = "sleep" /\ batch' = {}
      BY <1>4 DEF Crash, Live
    <2>2. /\ jobs' = jobs /\ emitted' = emitted
          /\ \A j \in JobIds : task'[j] = "none" /\ Status(j)' = Status(j)
      BY <1>4 DEF Crash, tableVars, Status
    <2>3. RunningHasTask' /\ NoDetachedTask'
      BY <2>1 DEF RunningHasTask, NoDetachedTask
    <2> QED BY <2>1, <2>2, <2>3 DEF TaskInv
  <1>5. CASE Restart
    <2>1. Live' = {} /\ runner' = "sleep" /\ emitted' = emitted /\ task' = task
      BY <1>5 DEF Restart, TaskInv, Live, runnerVars
    <2>2. \A j \in JobIds : Status(j)' = IF j \in Running THEN "pending" ELSE Status(j)
      BY <1>5, SetStatusRows DEF Restart, TypeOK, RowsOK, Statuses, Active
    <2>3. Running' = {}
      BY <2>2 DEF Running
    <2>4. \A j \in JobIds : Status(j) \in Earned => Status(j)' \in Earned
      BY <2>2 DEF Running, Earned
    <2>5. RunningHasTask' /\ NoDetachedTask'
      BY <2>1, <2>3 DEF RunningHasTask, NoDetachedTask
    <2>6. \A j \in JobIds : \/ emitted'[j] = 0
                            \/ emitted'[j] = 1 /\ j \notin Live' /\ Status(j)' \in Earned
      BY <2>1, <2>4 DEF TaskInv
    <2>7. \A j \in JobIds : task'[j] = "emit" => Status(j)' \in Earned
      BY <2>1, <2>4 DEF TaskInv
    <2> QED BY <2>1, <2>5, <2>6, <2>7 DEF TaskInv
  <1>6. CASE UNCHANGED vars
    <2>1. OutsideStep
      BY <1>6 DEF vars, runnerVars, boundVars, tableVars, OutsideStep, Harmless, Status
    <2> QED BY <2>1, OutsideKeeps
  <1> QED BY <1>1, <1>2, <1>3, <1>4, <1>5, <1>6 DEF Next

\* Rows, tasks, batch and events stay tied together in every reachable state.
THEOREM TaskInvCorrect == Spec => []TaskInv
  <1>1. Init => TaskInv
    BY DEF Init, TaskInv, Live, RunningHasTask, NoDetachedTask, Running, Status
  <1> QED BY <1>1, TaskInvNext, TypeCorrect, PTL DEF Spec

\* A running row has a task unless a database call failed since the last start,
\* however often the process crashed before.
THEOREM RunningHasTaskCorrect == Spec => []RunningHasTask
  <1>1. TaskInv => RunningHasTask
    BY DEF TaskInv
  <1> QED BY <1>1, TaskInvCorrect, PTL

\* An iteration of the runner never leaves a task behind, unless its claim failed.
THEOREM NoDetachedTaskCorrect == Spec => []NoDetachedTask
  <1>1. TaskInv => NoDetachedTask
    BY DEF TaskInv
  <1> QED BY <1>1, TaskInvCorrect, PTL

\* Over all crashes and restarts a job leads to at most one llm_job.completed,
\* and to none unless its row was marked completed.
THEOREM EventOnceCorrect == Spec => []EventOnce
  <1>1. TypeOK /\ TaskInv => EventOnce
    BY DEF TypeOK, TaskInv, EventOnce
  <1> QED BY <1>1, TaskInvCorrect, TypeCorrect, PTL

-----------------------------------------------------------------------------
(* The semaphore.                                                          *)

\* There are finitely many tasks, so they can be counted.
LEMMA LiveFinite == IsFiniteSet(Live) /\ Cardinality(Live) \in Nat
  <1>1. IsFiniteSet(JobIds)
    BY SizesAssumption, FS_Interval DEF JobIds
  <1>2. Live \subseteq JobIds
    BY DEF Live
  <1> QED BY <1>1, <1>2, FS_Subset, FS_CardinalityType

\* A permit moves between the semaphore and one task, or not at all.
LEMMA PermitsStep == TypeOK /\ TaskInv /\ PermitsConserved /\ [Next]_vars => PermitsConserved'
  <1> SUFFICES ASSUME TypeOK, TaskInv, PermitsConserved, [Next]_vars
               PROVE  PermitsConserved'
    OBVIOUS
  <1>1. ASSUME UNCHANGED <<task, permits>>
        PROVE  PermitsConserved'
    BY <1>1 DEF PermitsConserved, Live
  <1>2. CASE Enqueue \/ Administrate \/ Tick \/ NothingToClaim \/ ClaimFails \/ Join
             \/ Restart \/ UNCHANGED vars
    BY <1>1, <1>2 DEF Enqueue, EnqueueSemanticIndex, AskOrganize, InsertOrganize,
       EnqueueBackup, RegenStart, RegenInsert, RegenAbort, RegenEnd, Administrate,
       Withdraw, CancelCheck, CancelWrite, DeleteBook, Tick, NothingToClaim,
       ClaimFails, Join, Restart, vars
  <1>3. CASE Claim
    <2>1. PICK j \in Pending : task' = [task EXCEPT ![j] = FirstStage(j)]
      BY <1>3 DEF Claim
    <2>2. j \notin Live /\ j \in JobIds
      BY DEF Pending, TaskInv
    <2>3. Live' = Live \union {j}
      BY <2>1, <2>2 DEF TypeOK, TasksOK, Live, FirstStage
    <2>4. Cardinality(Live') = Cardinality(Live) + 1
      BY <2>2, <2>3, LiveFinite, FS_AddElement
    <2>5. permits' = permits - 1
      BY <1>3 DEF Claim
    <2> QED BY <2>4, <2>5, LiveFinite, SizesAssumption DEF PermitsConserved, TypeOK, TasksOK
  <1>4. ASSUME NEW j \in JobIds, TaskStep(j)
        PROVE  PermitsConserved'
    <2>1. j \in Live
      BY <1>4 DEF TaskStep, LoadBook, Work, SelectBooks, EnqueueClassify, Sweep,
         MarkCompleted, MarkFailed, EmitCompleted, Live
    <2>2. CASE TaskEnds(j)
      <3>1. Live' = Live \ {j} /\ permits' = permits + 1
        BY <2>2 DEF TaskEnds, TypeOK, TasksOK, Live
      <3>2. Cardinality(Live') = Cardinality(Live) - 1
        BY <2>1, <3>1, LiveFinite, FS_RemoveElement
      <3> QED BY <3>1, <3>2, LiveFinite, SizesAssumption DEF PermitsConserved, TypeOK, TasksOK
    <2>3. ASSUME NEW s \in Stages \ {"none"}, GoTo(j, s)
          PROVE  PermitsConserved'
      <3>1. Live' = Live /\ permits' = permits
        BY <2>1, <2>3 DEF GoTo, TypeOK, TasksOK, Live
      <3> QED BY <3>1 DEF PermitsConserved
    <2>4. TaskEnds(j) \/ \E s \in Stages \ {"none"} : GoTo(j, s)
      BY <1>4 DEF TaskStep, LoadBook, Work, SelectBooks, EnqueueClassify, Sweep,
         MarkCompleted, MarkFailed, EmitCompleted, Stages
    <2> QED BY <2>2, <2>3, <2>4
  <1>5. CASE Crash
    <2>1. Live' = {} /\ permits' = MaxConcurrent
      BY <1>5 DEF Crash, Live
    <2> QED BY <2>1, FS_EmptySet, SizesAssumption DEF PermitsConserved
  <1> QED BY <1>2, <1>3, <1>4, <1>5 DEF Next, RunnerStep

\* Free permits and tasks add up to MaxConcurrent, whatever fails or is detached.
THEOREM PermitsCorrect == Spec => []PermitsConserved
  <1>1. Init => PermitsConserved
    <2> SUFFICES ASSUME Init PROVE PermitsConserved
      OBVIOUS
    <2>1. Live = {} /\ permits = MaxConcurrent
      BY DEF Init, Live
    <2> QED BY <2>1, FS_EmptySet, SizesAssumption DEF PermitsConserved
  <1> QED BY <1>1, PermitsStep, TypeCorrect, TaskInvCorrect, PTL DEF Spec

-----------------------------------------------------------------------------
(* The board that the queue implements.                                    *)

\* The status of a row says in which phase its job is on the board.
LEMMA PhasesOfStatuses ==
    ASSUME NEW s \in Statuses
    PROVE  /\ PhaseOf(s) = "new" <=> s = "absent"
           /\ PhaseOf(s) = "waiting" <=> s = "pending"
           /\ PhaseOf(s) = "active" <=> s = "running"
           /\ PhaseOf(s) = "done" <=> s \in Final \union {"deleted"}
  BY DEF PhaseOf, Statuses, Active, Final, Gone

\* The table at the first start is an empty board.
LEMMA BoardInit == Init => Board!Init
  <1> SUFFICES ASSUME Init
               PROVE  Board!Init
    OBVIOUS
  <1>1. \A j \in JobIds : /\ PhaseOf(Status(j)) = "new"
                          /\ <<Type(j), Book(j)>> \in JobTypes \X (Books \union {NoBook})
    BY DEF Init, PhaseOf, Status, Type, Book, JobTypes
  <1> QED BY <1>1 DEF Board!Init

\* A row that is inserted under its guard is a job put up under its key.
LEMMA InsertionIsSubmit ==
    ASSUME TypeOK, NEW t \in JobTypes, NEW b \in Books \union {NoBook},
           Insert(t, b), t \in BookTypes => ActiveFor(t, b) = {},
           NEW j, j = inserted + 1
    PROVE  j \in JobIds /\ Board!Submit(j, <<t, b>>)
  <1>1. /\ j \in JobIds /\ Status(j) = "absent"
        /\ jobs'[j] = [type |-> t, book |-> b, status |-> "pending"]
        /\ \A k \in JobIds \ {j} : jobs'[k] = jobs[k]
    BY InsertRows DEF Status
  <1>2. /\ Status(j)' = "pending" /\ Type(j)' = t /\ Book(j)' = b
        /\ \A k \in JobIds \ {j} : /\ Status(k)' = Status(k)
                                   /\ Type(k)' = Type(k) /\ Book(k)' = Book(k)
    BY <1>1 DEF Status, Type, Book
  <1>3. ASSUME <<t, b>> \in BookTypes \X Books
        PROVE  Board!Unfinished(<<t, b>>) = {}
    <2> SUFFICES ASSUME NEW k \in JobIds, PhaseOf(Status(k)) \in {"waiting", "active"},
                        <<Type(k), Book(k)>> = <<t, b>>
                 PROVE  FALSE
      BY DEF Board!Unfinished
    <2>1. Status(k) \in Active /\ Type(k) = t /\ Book(k) = b
      BY PhasesOfStatuses DEF TypeOK, RowsOK, RowType, Status, Active
    <2>2. k \in ActiveFor(t, b)
      BY <2>1 DEF ActiveFor, Type, Book
    <2> QED BY <1>3, <2>2
  <1>4. PhaseOf("absent") = "new" /\ PhaseOf("pending") = "waiting"
    BY DEF PhaseOf
  <1>5. [k \in JobIds |-> PhaseOf(Status(k)')]
            = [[k \in JobIds |-> PhaseOf(Status(k))] EXCEPT ![j] = "waiting"]
    BY <1>1, <1>2, <1>4
  <1>6. [k \in JobIds |-> <<Type(k)', Book(k)'>>]
            = [[k \in JobIds |-> <<Type(k), Book(k)>>] EXCEPT ![j] = <<t, b>>]
    BY <1>1, <1>2
  <1> QED BY <1>1, <1>3, <1>4, <1>5, <1>6 DEF Board!Submit

\* Every step of the queue is a step of the board, or invisible on it.
LEMMA BoardStep == TypeOK /\ QueueStep => [Board!Next]_(Board!vars)
  <1> SUFFICES ASSUME TypeOK, QueueStep
               PROVE  Board!Next \/ UNCHANGED Board!vars
    OBVIOUS
  <1> DEFINE phase == [j \in JobIds |-> PhaseOf(Status(j))]
             keys == [j \in JobIds |-> <<Type(j), Book(j)>>]
  <1>1. CASE UNCHANGED <<jobs, inserted>>
    BY <1>1 DEF Board!vars, Status, Type, Book
  <1>2. ASSUME NEW t \in JobTypes, NEW b \in Books \union {NoBook},
               Insert(t, b), t \in BookTypes => ActiveFor(t, b) = {}
        PROVE  Board!Next
    <2>1. PICK j : j = inserted + 1
      OBVIOUS
    <2>2. j \in JobIds /\ Board!Submit(j, <<t, b>>)
      BY <1>2, <2>1, InsertionIsSubmit
    <2> QED BY <2>2 DEF Board!Next
  <1>3. ASSUME NEW S, NEW s \in Statuses, jobs' = SetStatus(S, s)
        PROVE  /\ UNCHANGED keys
               /\ \A j \in JobIds : Status(j)' = IF j \in S THEN s ELSE Status(j)
    BY <1>3, SetStatusRows DEF TypeOK, RowsOK
  <1>4. \A j \in JobIds : Status(j) \in Statuses
    BY DEF TypeOK, RowsOK, RowType, Status
  <1>5. ASSUME NEW S \in SUBSET Rows, NEW s \in Final \union {"deleted"},
               jobs' = SetStatus(S, s)
        PROVE  Board!Next
    <2> DEFINE ended == {j \in S : Status(j) \in Active}
    <2>1. s \in Statuses /\ PhaseOf(s) = "done" /\ S \subseteq JobIds
      BY DEF Statuses, Final, Gone, PhaseOf, Rows
    <2>2. ASSUME NEW j \in JobIds
          PROVE  PhaseOf(Status(j)') = IF j \in ended THEN "done" ELSE PhaseOf(Status(j))
      <3>1. Status(j)' = IF j \in S THEN s ELSE Status(j)
        BY <1>3, <1>5, <2>1
      <3>2. ASSUME j \in S, j \notin ended
            PROVE  PhaseOf(Status(j)) = "done"
        BY <3>2, <1>4 DEF Rows, Statuses, Gone, PhaseOf, Final, Active
      <3> QED BY <2>1, <3>1, <3>2
    <2>3. \A j \in ended : phase[j] \in {"waiting", "active"}
      BY <2>1 DEF PhaseOf, Active
    <2>4. Board!Finish(ended)
      BY <1>3, <1>5, <2>1, <2>2, <2>3 DEF Board!Finish
    <2> QED BY <2>1, <2>4 DEF Board!Next
  <1>6. CASE Claim
    <2>1. PICK j \in Pending : jobs' = SetStatus({j}, "running") /\ \A k \in Pending : j <= k
      BY <1>6 DEF Claim
    <2>2. j \in JobIds /\ phase[j] = "waiting"
      BY DEF Pending, PhaseOf
    <2>3. \A i \in JobIds : phase[i] = "waiting" => j <= i
      BY <1>4, <2>1, PhasesOfStatuses DEF Pending
    <2>4. "running" \in Statuses /\ PhaseOf("running") = "active"
      BY DEF Statuses, Active, PhaseOf
    <2>5. UNCHANGED keys /\ \A i \in JobIds : Status(i)' = IF i = j THEN "running" ELSE Status(i)
      BY <1>3, <2>1, <2>4
    <2>6. phase' = [phase EXCEPT ![j] = "active"]
      BY <2>2, <2>4, <2>5
    <2>7. Board!Start(j)
      BY <2>2, <2>3, <2>5, <2>6 DEF Board!Start
    <2> QED BY <2>2, <2>7 DEF Board!Next
  <1>7. CASE Restart
    <2>1. "pending" \in Statuses /\ PhaseOf("pending") = "waiting"
      BY DEF Statuses, Active, PhaseOf
    <2>2. UNCHANGED keys /\ \A j \in JobIds : Status(j)' = IF j \in Running THEN "pending" ELSE Status(j)
      BY <1>3, <1>7, <2>1 DEF Restart
    <2>3. \A j \in JobIds : phase[j] = "active" <=> j \in Running
      BY <1>4, PhasesOfStatuses DEF Running
    <2>4. Board!Requeue
      BY <2>1, <2>2, <2>3 DEF Board!Requeue
    <2> QED BY <2>4 DEF Board!Next
  <1> QED BY <1>1, <1>2, <1>5, <1>6, <1>7 DEF QueueStep

\* The queue keeps the promise of the board, its liveness aside: exclusive keys,
\* oldest first, finished for good, and nothing but a start puts jobs back.
THEOREM BoardImplemented == Spec => Board!Spec
  <1>1. TypeOK /\ [Next]_vars => [Board!Next]_(Board!vars)
    BY StepOfQueue, BoardStep
  <1> QED BY <1>1, BoardInit, TypeCorrect, PTL DEF Spec, Board!Spec

-----------------------------------------------------------------------------
(* One task per book.                                                      *)

\* As long as nobody cancels a job or deletes a book, a task that works for a
\* book has a running row, and only tasks of semantic jobs reach the sweep.
WorkersRun ==
    \A j \in Working :
        /\ task[j] # "load" => Type(j) \in BookTypes
        /\ task[j] \in {"sweep_ok", "sweep_failed"} => Type(j) = "semantic_index"
        /\ Type(j) \in BookTypes => Status(j) = "running"

\* Two running rows of one book and type would be two active ones.
LEMMA WorkersAreOne == TypeOK /\ OneActivePerBook /\ WorkersRun => OneWorkerPerBook
  BY DEF OneActivePerBook, WorkersRun, OneWorkerPerBook, Working, Active, Rows

\* A worker that a step leaves alone: its task and its running row stay.
Undisturbed(j) ==
    /\ j \in Working /\ task'[j] = task[j] /\ Type(j)' = Type(j)
    /\ Status(j) = "running" => Status(j)' = "running"

\* What is asked of a worker by WorkersRun
RunsFor(j) ==
    /\ task[j] # "load" => Type(j) \in BookTypes
    /\ task[j] \in {"sweep_ok", "sweep_failed"} => Type(j) = "semantic_index"
    /\ Type(j) \in BookTypes => Status(j) = "running"

LEMMA UndisturbedRuns == ASSUME WorkersRun, NEW j \in JobIds, Undisturbed(j) PROVE RunsFor(j)'
  BY DEF WorkersRun, RunsFor, Undisturbed

\* An insertion disturbs nobody, for the rows of tasks are there.
LEMMA InsertionDisturbsNobody ==
    ASSUME TypeOK, TaskInv, NEW t \in JobTypes, NEW b \in Books \union {NoBook},
           InsertUnlessActive(t, b) \/ Insert(t, b), NEW j \in Live
    PROVE  Type(j)' = Type(j) /\ Book(j)' = Book(j) /\ Status(j)' = Status(j)
  <1>1. j \in JobIds /\ Status(j) # "absent"
    BY DEF Live, TaskInv
  <1>2. CASE Insert(t, b)
    BY <1>1, <1>2, InsertRows DEF Type, Book, Status
  <1>3. CASE UNCHANGED jobs
    BY <1>3 DEF Type, Book, Status
  <1> QED BY <1>2, <1>3 DEF InsertUnlessActive

\* Callers and the runner leave workers alone.
LEMMA OthersDisturbNobody ==
    ASSUME "delete_book" \notin Requests, TypeOK, TaskInv, cancelling = {},
           Enqueue \/ Administrate \/ Tick \/ NothingToClaim \/ ClaimFails \/ Join \/ UNCHANGED vars,
           NEW j \in Working
    PROVE  task' = task /\ Undisturbed(j)
  <1>1. j \in Live /\ j \in JobIds
    BY DEF Working, Live
  <1>2. task' = task
    BY DEF Enqueue, EnqueueSemanticIndex, AskOrganize, InsertOrganize, EnqueueBackup, RegenStart,
       RegenInsert, RegenAbort, RegenEnd, Administrate, Withdraw, CancelCheck, CancelWrite, DeleteBook,
       Tick, NothingToClaim, ClaimFails, Join, vars
  <1>3. \/ \E t \in JobTypes, b \in Books \union {NoBook} : InsertUnlessActive(t, b) \/ Insert(t, b)
        \/ UNCHANGED jobs
        \/ \E k \in JobIds : Status(k) = "pending" /\ jobs' = SetStatus({k}, "failed")
    <2>1. ASSUME NEW b \in Books, EnqueueSemanticIndex(b) \/ RegenInsert(b)
          PROVE  \E t \in JobTypes : InsertUnlessActive(t, b)
      BY <2>1 DEF EnqueueSemanticIndex, RegenInsert, JobTypes, BookTypes
    <2>2. CASE EnqueueBackup \/ \E c \in Callers : InsertOrganize(c)
      BY <2>2 DEF EnqueueBackup, InsertOrganize, JobTypes, BookTypes
    <2>3. CASE Administrate
      BY <2>3 DEF Administrate, Withdraw, CancelCheck, CancelWrite, DeleteBook, tableVars
    <2>4. CASE \/ \E c \in Callers : AskOrganize(c)
               \/ \E S \in SUBSET Books : RegenStart(S)
               \/ RegenAbort \/ RegenEnd \/ Tick \/ NothingToClaim \/ ClaimFails \/ Join \/ UNCHANGED vars
      BY <2>4 DEF AskOrganize, RegenStart, RegenAbort, RegenEnd, Tick, NothingToClaim, ClaimFails,
         Join, vars, tableVars
    <2> QED BY <2>1, <2>2, <2>3, <2>4 DEF Enqueue
  <1>4. Type(j)' = Type(j) /\ (Status(j) = "running" => Status(j)' = "running")
    <2>1. ASSUME NEW k \in JobIds, Status(k) = "pending", jobs' = SetStatus({k}, "failed")
          PROVE  Type(j)' = Type(j) /\ (Status(j) = "running" => Status(j)' = "running")
      <3>1. "failed" \in Statuses
        BY DEF Statuses, Final
      <3> QED BY <1>1, <2>1, <3>1, SetStatusRows DEF TypeOK, RowsOK
    <2> QED BY <1>1, <1>3, <2>1, InsertionDisturbsNobody DEF Type, Status
  <1> QED BY <1>2, <1>4 DEF Undisturbed

\* A task that marks its row or sweeps its book's leaves other workers alone,
\* for two of them would be two active rows of one book and type.
LEMMA TasksDisturbNobody ==
    ASSUME TypeOK, TaskInv, OneActivePerBook, WorkersRun, NEW j \in JobIds, TaskStep(j),
           NEW k \in Working, k # j
    PROVE  Undisturbed(k)
  <1>1. k \in JobIds /\ k \in Live
    BY DEF Working, Live
  <1>2. task'[k] = task[k]
    BY <1>1 DEF TaskStep, LoadBook, Work, SelectBooks, EnqueueClassify, Sweep, MarkCompleted, MarkFailed,
       EmitCompleted, GoTo, TaskEnds, TypeOK, TasksOK
  <1>3. ASSUME NEW S, NEW s \in Statuses, jobs' = SetStatus(S, s), k \notin S
        PROVE  Type(k)' = Type(k) /\ Status(k)' = Status(k)
    BY <1>1, <1>3, SetStatusRows DEF TypeOK, RowsOK
  <1>4. "completed" \in Statuses /\ "failed" \in Statuses
    BY DEF Statuses, Final
  <1>5. CASE Sweep(j)
    <2>1. j \in Working /\ Type(j) = "semantic_index" /\ Status(j) = "running"
      BY <1>5 DEF Sweep, Working, WorkersRun, BookTypes
    <2>2. ASSUME k \in RunningSemantic(Book(j))
          PROVE  FALSE
      BY <1>1, <2>1, <2>2 DEF RunningSemantic, Running, OneActivePerBook, Active, BookTypes, Type, Book, Status
    <2>3. UNCHANGED jobs \/ \E s \in {"completed", "failed"} : jobs' = SetStatus(RunningSemantic(Book(j)), s)
      BY <1>5 DEF Sweep
    <2>4. Type(k)' = Type(k) /\ Status(k)' = Status(k)
      BY <1>3, <1>4, <2>2, <2>3 DEF Type, Status
    <2> QED BY <1>2, <2>4 DEF Undisturbed
  <1>6. CASE MarkCompleted(j) \/ MarkFailed(j)
    <2>1. UNCHANGED jobs \/ \E s \in {"completed", "failed"} : jobs' = SetStatus({j} \intersect Rows, s)
      BY <1>6 DEF MarkCompleted, MarkFailed
    <2>2. Type(k)' = Type(k) /\ Status(k)' = Status(k)
      BY <1>3, <1>4, <2>1 DEF Type, Status
    <2> QED BY <1>2, <2>2 DEF Undisturbed
  <1>7. CASE EnqueueClassify(j)
    <2>1. PICK b \in Oldest(todo[j], 1) : InsertUnlessActive("classify", b) \/ UNCHANGED jobs
      BY <1>7 DEF EnqueueClassify
    <2>2. b \in Books /\ "classify" \in JobTypes
      BY DEF Oldest, TypeOK, JobTypes, BookTypes
    <2>3. Type(k)' = Type(k) /\ Status(k)' = Status(k)
      BY <1>1, <2>1, <2>2, InsertionDisturbsNobody DEF Type, Status
    <2> QED BY <1>2, <2>3 DEF Undisturbed
  <1>8. CASE LoadBook(j) \/ Work(j) \/ SelectBooks(j) \/ EmitCompleted(j)
    <2>1. UNCHANGED jobs
      BY <1>8 DEF LoadBook, Work, SelectBooks, EmitCompleted
    <2> QED BY <1>2, <2>1 DEF Undisturbed, Type, Status
  <1> QED BY <1>5, <1>6, <1>7, <1>8 DEF TaskStep

\* A task that goes on to work or to the sweep keeps its running row.
LEMMA WorkerGoesOn ==
    ASSUME TypeOK, WorkersRun, NEW j \in JobIds, TaskStep(j), j \in Working'
    PROVE  RunsFor(j)'
  <1>1. task'[j] \in {"load", "work", "sweep_ok", "sweep_failed"}
    BY DEF Working
  <1>2. LoadBook(j) \/ Work(j)
    BY <1>1 DEF TaskStep, LoadBook, Work, SelectBooks, EnqueueClassify, Sweep, MarkCompleted, MarkFailed,
       EmitCompleted, GoTo, TaskEnds, TypeOK, TasksOK
  <1>3. UNCHANGED jobs /\ j \in Working
    BY <1>2 DEF LoadBook, Work, Working
  <1>4. Type(j) \in BookTypes /\ (task'[j] \in {"sweep_ok", "sweep_failed"} => Type(j) = "semantic_index")
    BY <1>1, <1>2, <1>3 DEF LoadBook, Work, GoTo, TypeOK, TasksOK, WorkersRun
  <1> QED BY <1>3, <1>4 DEF RunsFor, WorkersRun, Type, Status

\* Every step but cancellations and deletions of books keeps the workers' rows running.
LEMMA WorkersStep ==
    ASSUME "cancel" \notin Requests, "delete_book" \notin Requests,
           TypeOK, TaskInv, OneActivePerBook, cancelling = {}, WorkersRun, [Next]_vars
    PROVE  cancelling' = {} /\ WorkersRun'
  <1>1. cancelling' = {}
    BY DEF Next, Enqueue, EnqueueSemanticIndex, AskOrganize, InsertOrganize, EnqueueBackup, RegenStart,
       RegenInsert, RegenAbort, RegenEnd, Administrate, Withdraw, CancelCheck, CancelWrite, DeleteBook,
       RunnerStep, Tick, Claim, NothingToClaim, ClaimFails, Join, TaskStep, LoadBook, Work, Sweep, SelectBooks,
       EnqueueClassify, MarkCompleted, MarkFailed, EmitCompleted, TaskFrame, Crash, Restart, vars, handlerVars
  <1>2. SUFFICES ASSUME NEW j \in JobIds, j \in Working'
                 PROVE  RunsFor(j)'
    BY <1>1 DEF WorkersRun, RunsFor, Working
  <1>3. CASE Enqueue \/ Administrate \/ Tick \/ NothingToClaim \/ ClaimFails \/ Join \/ UNCHANGED vars
    <2>1. task' = task
      BY <1>3 DEF Enqueue, EnqueueSemanticIndex, AskOrganize, InsertOrganize, EnqueueBackup, RegenStart,
         RegenInsert, RegenAbort, RegenEnd, Administrate, Withdraw, CancelCheck, CancelWrite, DeleteBook,
         Tick, NothingToClaim, ClaimFails, Join, vars
    <2>2. j \in Working
      BY <1>2, <2>1 DEF Working
    <2> QED BY <1>3, <2>2, OthersDisturbNobody, UndisturbedRuns
  <1>4. CASE Claim
    <2>1. PICK k \in Pending : /\ jobs' = SetStatus({k}, "running")
                               /\ task' = [task EXCEPT ![k] = FirstStage(k)]
      BY <1>4 DEF Claim
    <2>2. k \in JobIds /\ "running" \in Statuses /\ FirstStage(k) \in {"load", "mark_ok"}
      BY DEF Pending, Statuses, Active, FirstStage
    <2>3. Type(j)' = Type(j) /\ Status(j)' = IF j = k THEN "running" ELSE Status(j)
      BY <2>1, <2>2, SetStatusRows DEF TypeOK, RowsOK
    <2>4. task'[j] = IF j = k THEN FirstStage(k) ELSE task[j]
      BY <2>1, <2>2 DEF TypeOK, TasksOK
    <2>5. CASE j = k
      <3>1. task'[j] = "load"
        BY <1>2, <2>2, <2>4, <2>5 DEF Working
      <3> QED BY <2>3, <2>5, <3>1 DEF RunsFor
    <2>6. CASE j # k
      <3>1. j \in Working
        BY <1>2, <2>4, <2>6 DEF Working
      <3>2. Undisturbed(j)
        BY <2>3, <2>4, <2>6, <3>1 DEF Undisturbed
      <3> QED BY <3>2, UndisturbedRuns
    <2> QED BY <2>5, <2>6
  <1>5. ASSUME NEW k \in JobIds, TaskStep(k)
        PROVE  RunsFor(j)'
    <2>1. CASE j = k
      BY <1>2, <1>5, <2>1, WorkerGoesOn
    <2>2. CASE j # k
      <3>1. j \in Working
        BY <1>2, <1>5, <2>2 DEF Working, TaskStep, LoadBook, Work, SelectBooks, EnqueueClassify, Sweep, MarkCompleted,
           MarkFailed, EmitCompleted, GoTo, TaskEnds, TypeOK, TasksOK
      <3> QED BY <1>5, <2>2, <3>1, TasksDisturbNobody, UndisturbedRuns
    <2> QED BY <2>1, <2>2
  <1>6. CASE Crash \/ Restart
    <2>1. ~(j \in Working')
      BY <1>6 DEF Crash, Restart, TaskInv, Live, Working
    <2> QED BY <1>2, <2>1
  <1> QED BY <1>3, <1>4, <1>5, <1>6 DEF Next, RunnerStep

\* As long as nobody cancels a running job or deletes a book, no two tasks ever
\* work on the same book: the guard of the insertion, the claim and the sweep,
\* which marks the rows of a book whoever runs them, add up to that.
THEOREM OneWorkerCorrect ==
    ASSUME "cancel" \notin Requests, "delete_book" \notin Requests
    PROVE  Spec => []OneWorkerPerBook
  <1> DEFINE Inv == cancelling = {} /\ WorkersRun
  <1>1. Init => Inv
    BY DEF Init, WorkersRun, Working
  <1>2. TypeOK /\ TaskInv /\ OneActivePerBook /\ Inv /\ [Next]_vars => Inv'
    BY WorkersStep
  <1>3. TypeOK /\ OneActivePerBook /\ Inv => OneWorkerPerBook
    BY WorkersAreOne
  <1> HIDE DEF Inv
  <1> QED BY <1>1, <1>2, <1>3, TypeCorrect, TaskInvCorrect, OneActiveCorrect, PTL DEF Spec

=============================================================================
