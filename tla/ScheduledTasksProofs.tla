------------------------ MODULE ScheduledTasksProofs ------------------------
(* Theorems about ScheduledTasks for every set of tasks and of expressions,
   however long the clock runs and however many calls fail or crashes happen. *)
EXTENDS ScheduledTasks, TLAPS

-----------------------------------------------------------------------------
(* Helpers *)

\* A row that was never there, or that was deleted, has the type of a row.
LEMMA GoneTyped == NotThere \in RowType /\ [NotThere EXCEPT !.status = "deleted"] \in RowType
  BY DEF NotThere, RowType, Statuses

\* A row that an administrator writes has the type of a row, and a time to come.
LEMMA WrittenTyped ==
    ASSUME clock \in Nat, NEW s \in {"on", "off"}, NEW c \in Crons, NEW n \in c, NextRun(c, n)
    PROVE  [status |-> s, cron |-> c, next |-> n] \in RowType /\ n \in Nat /\ n > clock
  BY CronsAssumption DEF NextRun, RowType, Statuses

\* The UPDATE of mark_scheduled_task_ran changes one row's next run and no
\* more, whatever has become of the row.
LEMMA MarkRow ==
    ASSUME TypeOK, NEW t \in Tasks, NEW n \in Nat, Mark(t, n)
    PROVE  /\ rows' \in [Tasks -> RowType]
           /\ \A u \in Tasks : rows'[u].cron = rows[u].cron /\ rows'[u].status = rows[u].status
           /\ \A u \in Tasks \ {t} : rows'[u] = rows[u]
           /\ dispatched' \in [Tasks -> 0 .. MaxCount]
           /\ dispatched'[t] = 0
           /\ \A u \in Tasks \ {t} : dispatched'[u] = dispatched[u]
  <1>1. dispatched' = [dispatched EXCEPT ![t] = 0] /\ dispatched \in [Tasks -> 0 .. MaxCount] /\ 0 \in 0 .. MaxCount
    BY BoundsAssumption DEF Mark, TypeOK
  <1>2. rows \in [Tasks -> RowType]
    BY DEF TypeOK
  <1>3. CASE There(t)
    <2>1. rows' = [rows EXCEPT ![t].next = n]
      BY <1>3 DEF Mark
    <2>2. [rows[t] EXCEPT !.next = n] \in RowType
      BY <1>2 DEF RowType
    <2> QED BY <1>1, <1>2, <2>1, <2>2 DEF RowType
  <1>4. CASE ~There(t)
    BY <1>1, <1>2, <1>4 DEF Mark
  <1> QED BY <1>3, <1>4

\* A step that fails is counted, and nothing else is.
LEMMA FaultsStep ==
    ASSUME TypeOK, NoFault \/ Fault
    PROVE  faults' \in 0 .. MaxFaults /\ crashes' = crashes /\ faults' >= faults
  BY BoundsAssumption DEF TypeOK, NoFault, Fault, boundVars

-----------------------------------------------------------------------------
(* Type correctness *)

LEMMA TypeInit == Init => TypeOK
  <1> SUFFICES ASSUME Init PROVE TypeOK
    OBVIOUS
  <1>1. rows \in [Tasks -> RowType] /\ read \in [Tasks -> RowType]
    BY GoneTyped DEF Init
  <1> QED BY <1>1, BoundsAssumption DEF Init, TypeOK

\* What the scheduler leaves alone, an administrator's step must keep typed.
LEMMA TypeAdministrate == TypeOK /\ Administrate => TypeOK'
  <1> SUFFICES ASSUME TypeOK, NEW t \in Tasks,
                      CreateTask(t) \/ UpdateEnabled(t) \/ UpdateCron(t) \/ DeleteTask(t)
               PROVE  TypeOK'
    BY DEF Administrate
  <1>1. UNCHANGED <<clock, passVars, up>> /\ NoFault
    BY DEF CreateTask, UpdateEnabled, UpdateCron, DeleteTask
  <1>2. clock \in Nat /\ rows \in [Tasks -> RowType] /\ 0 \in 0 .. MaxCount
    BY BoundsAssumption DEF TypeOK
  <1>3. rows' \in [Tasks -> RowType]
    <2>1. CASE CreateTask(t) \/ UpdateCron(t)
      BY <1>2, <2>1, WrittenTyped DEF CreateTask, UpdateCron
    <2>2. CASE UpdateEnabled(t)
      <3>1. PICK s \in {"on", "off"} : rows' = [rows EXCEPT ![t].status = s]
        BY <2>2 DEF UpdateEnabled
      <3>2. [rows[t] EXCEPT !.status = s] \in RowType
        BY <1>2 DEF RowType, Statuses
      <3> QED BY <1>2, <3>1, <3>2
    <2>3. CASE DeleteTask(t)
      BY <1>2, <2>3, GoneTyped DEF DeleteTask
    <2> QED BY <2>1, <2>2, <2>3
  <1>4. dispatched' \in [Tasks -> 0 .. MaxCount]
    BY <1>2 DEF TypeOK, CreateTask, UpdateEnabled, UpdateCron, DeleteTask
  <1> QED BY <1>1, <1>3, <1>4 DEF TypeOK, passVars, NoFault, boundVars

\* Going on with the next task leaves a pass of rows that were due.
LEMMA TypeGoOn ==
    ASSUME TypeOK, NEW t \in Tasks, GoOn(t), UNCHANGED clock
    PROVE  /\ read' \in [Tasks -> RowType] /\ pass' \subseteq Tasks
           /\ running' \subseteq pass' /\ \A u, v \in running' : u = v
           /\ \A u \in pass' : read'[u].status = "on" /\ read'[u].next <= clock'
  BY GoneTyped DEF TypeOK, GoOn

LEMMA TypeSchedule == TypeOK /\ Schedule => TypeOK'
  <1> SUFFICES ASSUME TypeOK, Schedule PROVE TypeOK'
    OBVIOUS
  <1>1. CASE ReadDue
    <2>1. read' \in [Tasks -> RowType]
      BY <1>1, GoneTyped DEF ReadDue, TypeOK
    <2>2. \A t \in pass' : read'[t] = rows[t] /\ Due(t) /\ t \in Tasks
      BY <1>1 DEF ReadDue, DueTasks
    <2>3. running' = {}
      BY <1>1 DEF ReadDue, TypeOK
    <2>4. pass' \subseteq Tasks /\ UNCHANGED <<clock, rows, up, dispatched>> /\ NoFault
      BY <1>1 DEF ReadDue, DueTasks
    <2> QED BY <2>1, <2>2, <2>3, <2>4 DEF TypeOK, Due, NoFault, boundVars
  <1>2. ASSUME NEW t \in Tasks, Dispatch(t) PROVE TypeOK'
    <2>1. UNCHANGED <<clock, rows, up>> /\ (NoFault \/ Fault)
      BY <1>2 DEF Dispatch
    <2>2. faults' \in 0 .. MaxFaults /\ crashes' = crashes
      BY <2>1, FaultsStep
    <2>3. CASE GoOn(t) /\ UNCHANGED dispatched
      BY <2>1, <2>2, <2>3, TypeGoOn DEF TypeOK
    <2>4. CASE ~(GoOn(t) /\ UNCHANGED dispatched)
      <3>1. running' = {t} /\ t \in pass /\ UNCHANGED <<pass, read>>
        BY <1>2, <2>4 DEF Dispatch, Turn
      <3>2. dispatched' = [dispatched EXCEPT ![t] =
                IF read[t].next = rows[t].next /\ @ < MaxCount THEN @ + 1 ELSE @]
        BY <1>2, <2>4 DEF Dispatch
      <3>3. dispatched' \in [Tasks -> 0 .. MaxCount]
        BY <3>2, BoundsAssumption DEF TypeOK
      <3> QED BY <2>1, <2>2, <3>1, <3>3 DEF TypeOK
    <2> QED BY <2>3, <2>4
  <1>3. ASSUME NEW t \in Tasks, MarkRan(t) PROVE TypeOK'
    <2>1. GoOn(t) /\ UNCHANGED <<clock, up>> /\ (NoFault \/ Fault)
      BY <1>3 DEF MarkRan
    <2>2. faults' \in 0 .. MaxFaults /\ crashes' = crashes
      BY <2>1, FaultsStep
    <2>3. PICK n \in read[t].cron : Mark(t, n) \/ UNCHANGED <<rows, dispatched>>
      BY <1>3 DEF MarkRan
    <2>4. n \in Nat
      BY CronsAssumption DEF TypeOK, RowType
    <2>5. rows' \in [Tasks -> RowType] /\ dispatched' \in [Tasks -> 0 .. MaxCount]
      BY <2>3, <2>4, MarkRow DEF TypeOK
    <2> QED BY <2>1, <2>2, <2>5, TypeGoOn DEF TypeOK
  <1>4. ASSUME NEW t \in Tasks, NoRunLeft(t) PROVE TypeOK'
    <2>1. GoOn(t) /\ UNCHANGED <<clock, rows, up, dispatched>> /\ NoFault
      BY <1>4 DEF NoRunLeft
    <2> QED BY <2>1, TypeGoOn DEF TypeOK, NoFault, boundVars
  <1> QED BY <1>1, <1>2, <1>3, <1>4 DEF Schedule

LEMMA TypeStep == TypeOK /\ [Next]_vars => TypeOK'
  <1> SUFFICES ASSUME TypeOK, [Next]_vars PROVE TypeOK'
    OBVIOUS
  <1>1. CASE Tick
    <2>1. clock' \in 0 .. MaxTime /\ clock' >= clock
      BY <1>1, BoundsAssumption DEF Tick, TypeOK
    <2>2. \A t \in pass : read[t].next \in Nat /\ read[t].next <= clock /\ clock \in Nat
      BY DEF TypeOK, RowType
    <2>3. UNCHANGED <<rows, passVars, up, dispatched, boundVars>>
      BY <1>1 DEF Tick
    <2> QED BY <2>1, <2>2, <2>3 DEF TypeOK, passVars, boundVars
  <1>2. CASE Administrate
    BY <1>2, TypeAdministrate
  <1>3. CASE Schedule
    BY <1>3, TypeSchedule
  <1>4. CASE Crash
    <2>1. read' \in [Tasks -> RowType]
      BY <1>4, GoneTyped DEF Crash
    <2>2. crashes' \in 0 .. MaxCrashes
      BY <1>4, BoundsAssumption DEF Crash, TypeOK
    <2>3. up' = FALSE /\ pass' = {} /\ running' = {} /\ UNCHANGED <<clock, rows, dispatched, faults>>
      BY <1>4 DEF Crash
    <2> QED BY <2>1, <2>2, <2>3 DEF TypeOK
  <1>5. CASE Restart
    BY <1>5 DEF Restart, TypeOK, passVars, boundVars
  <1>6. CASE UNCHANGED vars
    BY <1>6 DEF TypeOK, vars, passVars, boundVars
  <1> QED BY <1>1, <1>2, <1>3, <1>4, <1>5, <1>6 DEF Next

\* The rows, the copies the pass works on and the counters have their types,
\* and the pass is of enabled rows that were due, with at most one under way.
THEOREM TypeCorrect == Spec => []TypeOK
  BY TypeInit, TypeStep, PTL DEF Spec
-----------------------------------------------------------------------------
(* One job for a due time *)

\* What the scheduler has read of a row in its pass is still its expression,
\* unless an administrator has changed or deleted the row since: then no job is
\* counted for its new time, which is later than the one that was read.
ReadIsKnown ==
    \A t \in pass :
        /\ rows[t].status # "absent"
        /\ \/ rows[t].cron = read[t].cron
           \/ rows[t].next # read[t].next /\ dispatched[t] = 0
           \/ rows[t].cron = {}

\* Jobs counted for one time: of a task that is being run, one more than the
\* failures and crashes there have been; of any other, no more than those.
Excused(t) == dispatched[t] <= faults + crashes + (IF t \in running THEN 1 ELSE 0)

CountsExcused ==
    \A t \in Tasks : /\ rows[t].status = "absent" => dispatched[t] = 0
                     /\ Excused(t) \/ NoNextRun(rows[t].cron)

CountInv == TypeOK /\ ReadIsKnown /\ CountsExcused

LEMMA CountInit == Init => CountInv
  <1> SUFFICES ASSUME Init PROVE CountInv
    OBVIOUS
  <1>1. TypeOK
    BY TypeInit
  <1>2. ReadIsKnown /\ \A t \in Tasks : dispatched[t] = 0
    BY DEF Init, ReadIsKnown
  <1>3. \A t \in Tasks : Excused(t)
    <2>1. faults = 0 /\ crashes = 0
      BY DEF Init
    <2>2. ASSUME NEW t \in Tasks PROVE dispatched[t] <= faults + crashes + (IF t \in running THEN 1 ELSE 0)
      BY <1>2, <2>1
    <2> QED BY <2>2 DEF Excused
  <1>4. CountsExcused
    BY <1>2, <1>3 DEF CountsExcused
  <1> QED BY <1>1, <1>2, <1>4 DEF CountInv

\* An administrator who gives a row another expression sets its next run later
\* than all that was read, and its count to nothing.
LEMMA CountAdministrate == CountInv /\ Administrate => (ReadIsKnown /\ CountsExcused)'
  <1> SUFFICES ASSUME CountInv, NEW t \in Tasks,
                      CreateTask(t) \/ UpdateEnabled(t) \/ UpdateCron(t) \/ DeleteTask(t)
               PROVE  (ReadIsKnown /\ CountsExcused)'
    BY DEF Administrate
  <1>1. UNCHANGED <<clock, pass, read, running, faults, crashes>>
    BY DEF CreateTask, UpdateEnabled, UpdateCron, DeleteTask, passVars, NoFault, boundVars
  <1>2. /\ \A u \in Tasks \ {t} : rows'[u] = rows[u] /\ dispatched'[u] = dispatched[u]
        /\ clock \in Nat /\ faults \in Nat /\ crashes \in Nat
        /\ rows \in [Tasks -> RowType] /\ read \in [Tasks -> RowType] /\ dispatched \in [Tasks -> Nat]
        /\ pass \subseteq Tasks
    BY BoundsAssumption DEF CountInv, TypeOK, CreateTask, UpdateEnabled, UpdateCron, DeleteTask
  <1>3. /\ rows'[t].status = "absent" => dispatched'[t] = 0
        /\ (dispatched'[t] = 0 \/ (dispatched'[t] = dispatched[t] /\ rows'[t].cron = rows[t].cron))
        /\ t \in pass => /\ rows'[t].status # "absent"
                         /\ \/ rows'[t].cron = read[t].cron
                            \/ rows'[t].next # read[t].next /\ dispatched'[t] = 0
                            \/ rows'[t].cron = {}
    <2>1. CASE CreateTask(t)
      <3>1. rows[t].status = "absent" /\ dispatched' = dispatched
        BY <2>1 DEF CreateTask
      <3>2. t \notin pass /\ dispatched[t] = 0
        BY <3>1 DEF CountInv, ReadIsKnown, CountsExcused
      <3> QED BY <3>1, <3>2
    <2>2. CASE UpdateEnabled(t)
      <3>1. PICK s \in {"on", "off"} : rows' = [rows EXCEPT ![t].status = s]
        BY <2>2 DEF UpdateEnabled
      <3>2. rows'[t].status = s /\ rows'[t].cron = rows[t].cron /\ rows'[t].next = rows[t].next
        BY <1>2, <3>1 DEF RowType
      <3>3. dispatched' = dispatched
        BY <2>2 DEF UpdateEnabled
      <3> QED BY <3>2, <3>3 DEF CountInv, ReadIsKnown
    <2>3. CASE UpdateCron(t)
      <3>1. PICK s \in {"on", "off"}, c \in Crons : \E n \in c :
                /\ NextRun(c, n) /\ rows' = [rows EXCEPT ![t] = [status |-> s, cron |-> c, next |-> n]]
        BY <2>3 DEF UpdateCron
      <3>2. PICK n \in c : NextRun(c, n) /\ rows' = [rows EXCEPT ![t] = [status |-> s, cron |-> c, next |-> n]]
        BY <3>1
      <3>3. n \in Nat /\ n > clock /\ rows'[t].next = n /\ rows'[t].status = s
        BY <1>2, <3>2, WrittenTyped
      <3>4. t \in pass => read[t].next <= clock /\ read[t].next \in Nat
        BY <1>2 DEF CountInv, TypeOK, RowType
      <3>5. dispatched'[t] = 0
        BY <1>2, <2>3 DEF UpdateCron
      <3> QED BY <1>2, <3>3, <3>4, <3>5
    <2>4. CASE DeleteTask(t)
      BY <1>2, <2>4 DEF DeleteTask, NotThere
    <2> QED BY <2>1, <2>2, <2>3, <2>4
  <1>4. ReadIsKnown'
    BY <1>1, <1>2, <1>3 DEF CountInv, ReadIsKnown
  <1>5. CountsExcused'
    <2>1. \A u \in Tasks : NoNextRun(rows[u].cron) /\ rows'[u].cron = rows[u].cron => NoNextRun(rows[u].cron)'
      BY <1>1 DEF NoNextRun
    <2>2. Excused(t)' \/ NoNextRun(rows[t].cron)'
      <3>1. CASE dispatched'[t] = 0
        BY <1>1, <1>2, <3>1 DEF Excused
      <3>2. CASE dispatched'[t] = dispatched[t] /\ rows'[t].cron = rows[t].cron
        BY <1>1, <2>1, <3>2 DEF CountInv, CountsExcused, Excused
      <3> QED BY <1>3, <3>1, <3>2
    <2>3. ASSUME NEW u \in Tasks \ {t} PROVE Excused(u)' \/ NoNextRun(rows[u].cron)'
      BY <1>1, <1>2, <2>1 DEF CountInv, CountsExcused, Excused
    <2> QED BY <1>2, <1>3, <2>2, <2>3 DEF CountInv, CountsExcused
  <1> QED BY <1>4, <1>5

\* The scheduler's steps: a job more is counted when its task begins to run; it
\* is forgotten when the row is marked, excused by the call that failed, or the
\* row's expression has run out.
LEMMA CountSchedule == CountInv /\ Schedule => (ReadIsKnown /\ CountsExcused)'
  <1> SUFFICES ASSUME CountInv, Schedule PROVE (ReadIsKnown /\ CountsExcused)'
    OBVIOUS
  <1> USE DEF CountInv
  <1>0. /\ clock \in Nat /\ faults \in Nat /\ crashes \in Nat
        /\ rows \in [Tasks -> RowType] /\ read \in [Tasks -> RowType] /\ dispatched \in [Tasks -> Nat]
        /\ pass \subseteq Tasks /\ running \subseteq pass
    BY BoundsAssumption DEF TypeOK
  <1>1. CASE ReadDue
    <2>1. UNCHANGED <<clock, rows, running, dispatched, faults, crashes>>
      BY <1>1 DEF ReadDue, NoFault, boundVars
    <2>2. \A t \in pass' : read'[t] = rows[t] /\ rows[t].status = "on"
      BY <1>1 DEF ReadDue, DueTasks, Due
    <2>3. ReadIsKnown'
      BY <2>1, <2>2 DEF ReadIsKnown
    <2>4. CountsExcused'
      BY <2>1 DEF CountsExcused, Excused, NoNextRun
    <2> QED BY <2>3, <2>4
  <1>2. ASSUME NEW t \in Tasks, Dispatch(t) PROVE (ReadIsKnown /\ CountsExcused)'
    <2>1. UNCHANGED <<clock, rows>> /\ running = {} /\ t \in pass
      BY <1>2 DEF Dispatch, Turn
    <2>2. CASE GoOn(t) /\ UNCHANGED dispatched /\ Fault
      <3>1. faults' = faults + 1 /\ crashes' = crashes /\ running' = {}
        BY <2>2 DEF Fault, GoOn
      <3>2. ReadIsKnown'
        BY <1>0, <2>1, <2>2 DEF ReadIsKnown, GoOn
      <3>3. CountsExcused'
        BY <1>0, <2>1, <2>2, <3>1 DEF CountsExcused, Excused, NoNextRun
      <3> QED BY <3>2, <3>3
    <2>3. CASE ~(GoOn(t) /\ UNCHANGED dispatched /\ Fault)
      <3>1. running' = {t} /\ UNCHANGED <<pass, read, faults, crashes>>
        BY <1>2, <2>3 DEF Dispatch, NoFault, boundVars
      <3>2. dispatched' = [dispatched EXCEPT ![t] =
                IF read[t].next = rows[t].next /\ @ < MaxCount THEN @ + 1 ELSE @]
        BY <1>2, <2>3 DEF Dispatch
      <3>3. \A u \in Tasks \ {t} : dispatched'[u] = dispatched[u]
        BY <1>0, <3>2
      <3>4. dispatched'[t] \in {dispatched[t], dispatched[t] + 1}
            /\ (rows[t].next # read[t].next => dispatched'[t] = dispatched[t])
        BY <1>0, <3>2
      <3>5. ReadIsKnown'
        BY <1>0, <2>1, <3>1, <3>3, <3>4 DEF ReadIsKnown
      <3>6. CountsExcused'
        <4>1. rows[t].status # "absent"
          BY <2>1 DEF ReadIsKnown
        <4>2. Excused(t)' \/ NoNextRun(rows[t].cron)'
          BY <1>0, <2>1, <3>1, <3>4 DEF CountsExcused, Excused, NoNextRun
        <4>3. ASSUME NEW u \in Tasks \ {t} PROVE Excused(u)' \/ NoNextRun(rows[u].cron)'
          BY <1>0, <2>1, <3>1, <3>3 DEF CountsExcused, Excused, NoNextRun
        <4> QED BY <2>1, <3>3, <4>1, <4>2, <4>3 DEF CountsExcused
      <3> QED BY <3>5, <3>6
    <2> QED BY <2>2, <2>3
  <1>3. ASSUME NEW t \in Tasks, MarkRan(t) PROVE (ReadIsKnown /\ CountsExcused)'
    <2>1. GoOn(t) /\ UNCHANGED clock /\ t \in running
      BY <1>3 DEF MarkRan
    <2>2. running' = {} /\ running = {t}
      BY <1>0, <2>1 DEF GoOn, TypeOK
    <2>3. PICK n \in read[t].cron : (Mark(t, n) /\ NoFault) \/ (UNCHANGED <<rows, dispatched>> /\ Fault)
      BY <1>3 DEF MarkRan
    <2>4. n \in Nat
      BY <1>0, CronsAssumption DEF RowType
    <2>5. CASE Mark(t, n) /\ NoFault
      <3>1. /\ \A u \in Tasks : rows'[u].cron = rows[u].cron /\ rows'[u].status = rows[u].status
            /\ \A u \in Tasks \ {t} : rows'[u] = rows[u] /\ dispatched'[u] = dispatched[u]
            /\ dispatched'[t] = 0
        BY <2>4, <2>5, MarkRow
      <3>2. faults' = faults /\ crashes' = crashes
        BY <2>5 DEF NoFault, boundVars
      <3>3. ReadIsKnown'
        BY <1>0, <2>1, <3>1 DEF ReadIsKnown, GoOn
      <3>4. CountsExcused'
        <4>1. Excused(t)'
          BY <1>0, <2>2, <3>1, <3>2 DEF Excused
        <4>2. ASSUME NEW u \in Tasks \ {t} PROVE Excused(u)' \/ NoNextRun(rows[u].cron)'
          BY <1>0, <2>1, <2>2, <3>1, <3>2 DEF CountsExcused, Excused, NoNextRun
        <4> QED BY <3>1, <4>1, <4>2 DEF CountsExcused
      <3> QED BY <3>3, <3>4
    <2>6. CASE UNCHANGED <<rows, dispatched>> /\ Fault
      <3>1. faults' = faults + 1 /\ crashes' = crashes
        BY <2>6 DEF Fault
      <3>2. ReadIsKnown'
        BY <1>0, <2>1, <2>6 DEF ReadIsKnown, GoOn
      <3>3. CountsExcused'
        BY <1>0, <2>1, <2>2, <2>6, <3>1 DEF CountsExcused, Excused, NoNextRun
      <3> QED BY <3>2, <3>3
    <2> QED BY <2>3, <2>5, <2>6
  <1>4. ASSUME NEW t \in Tasks, NoRunLeft(t) PROVE (ReadIsKnown /\ CountsExcused)'
    <2>1. GoOn(t) /\ t \in running /\ NoNextRun(read[t].cron) /\ UNCHANGED <<clock, rows, dispatched, faults, crashes>>
      BY <1>4 DEF NoRunLeft, NoFault, boundVars
    <2>2. running' = {} /\ running = {t}
      BY <1>0, <2>1 DEF GoOn, TypeOK
    <2>3. ReadIsKnown'
      BY <1>0, <2>1 DEF ReadIsKnown, GoOn
    <2>4. Excused(t)' \/ NoNextRun(rows[t].cron)'
      <3>1. t \in pass
        BY <1>0, <2>1
      <3>2. CASE rows[t].cron = read[t].cron
        BY <2>1, <3>2 DEF NoNextRun
      <3>3. CASE dispatched[t] = 0
        BY <1>0, <2>1, <2>2, <3>3 DEF Excused
      <3>4. CASE rows[t].cron = {}
        BY <2>1, <3>4 DEF NoNextRun
      <3> QED BY <3>1, <3>2, <3>3, <3>4 DEF ReadIsKnown
    <2>5. ASSUME NEW u \in Tasks \ {t} PROVE Excused(u)' \/ NoNextRun(rows[u].cron)'
      BY <1>0, <2>1, <2>2 DEF CountsExcused, Excused, NoNextRun
    <2>6. CountsExcused'
      BY <2>1, <2>4, <2>5 DEF CountsExcused
    <2> QED BY <2>3, <2>6
  <1> QED BY <1>1, <1>2, <1>3, <1>4 DEF Schedule

LEMMA CountStep == CountInv /\ [Next]_vars => CountInv'
  <1> SUFFICES ASSUME CountInv, [Next]_vars PROVE (ReadIsKnown /\ CountsExcused)'
    BY TypeStep DEF CountInv
  <1>0. /\ clock \in Nat /\ faults \in Nat /\ crashes \in Nat /\ dispatched \in [Tasks -> Nat]
        /\ \A t \in Tasks : rows[t].cron \subseteq Nat
    <2>1. \A t \in Tasks : rows[t].cron \in Crons \union {{}}
      BY DEF CountInv, TypeOK, RowType
    <2>2. \A t \in Tasks : rows[t].cron \subseteq Nat
      BY <2>1, CronsAssumption
    <2> QED BY <2>2, BoundsAssumption DEF CountInv, TypeOK
  <1>1. CASE Tick
    <2>1. clock' = clock + 1 /\ UNCHANGED <<rows, pass, read, running, dispatched, faults, crashes>>
      BY <1>1 DEF Tick, passVars, boundVars
    <2>2. \A t \in Tasks : NoNextRun(rows[t].cron) => NoNextRun(rows[t].cron)'
      BY <1>0, <2>1 DEF NoNextRun
    <2> QED BY <2>1, <2>2 DEF CountInv, ReadIsKnown, CountsExcused, Excused
  <1>2. CASE Administrate
    BY <1>2, CountAdministrate
  <1>3. CASE Schedule
    BY <1>3, CountSchedule
  <1>4. CASE Crash
    <2>1. pass' = {} /\ running' = {} /\ crashes' = crashes + 1 /\ UNCHANGED <<clock, rows, dispatched, faults>>
      BY <1>4 DEF Crash
    <2>2. CountsExcused'
      BY <1>0, <2>1 DEF CountInv, CountsExcused, Excused, NoNextRun
    <2> QED BY <2>1, <2>2 DEF ReadIsKnown
  <1>5. CASE Restart \/ UNCHANGED vars
    <2>1. UNCHANGED <<clock, rows, pass, read, running, dispatched, faults, crashes>>
      BY <1>5 DEF Restart, vars, passVars, boundVars
    <2> QED BY <2>1 DEF CountInv, ReadIsKnown, CountsExcused, Excused, NoNextRun
  <1> QED BY <1>1, <1>2, <1>3, <1>4, <1>5 DEF Next

\* Whatever administrators do between the SELECT of a pass, the job that is
\* enqueued and the UPDATE that marks it, a due time leads to one job, and to one
\* more for every failed call and crash, while its expression has a run left.
THEOREM OneJobCorrect == Spec => []OneJobPerRun
  <1>1. CountInv => OneJobPerRun
    <2>1. CountInv => faults \in Nat /\ crashes \in Nat /\ dispatched \in [Tasks -> Nat]
      BY BoundsAssumption DEF CountInv, TypeOK
    <2> QED BY <2>1 DEF CountInv, CountsExcused, Excused, OneJobPerRun
  <1> QED BY CountInit, CountStep, <1>1, PTL DEF Spec
=============================================================================
