------------------------ MODULE WebhookDeliveryProofs ------------------------
(***************************************************************************)
(* Theorems about WebhookDelivery for every number of webhooks, senders,   *)
(* deliveries, failures and crashes, and every size of the batch.          *)
(***************************************************************************)
EXTENDS WebhookDelivery, TLAPS

-----------------------------------------------------------------------------
(* Helpers.                                                                *)

\* A set of numbers has at most one first element.
LEMMA FirstUnique ==
    ASSUME NEW S \in SUBSET Nat, NEW d \in First(S), NEW e \in First(S)
    PROVE  d = e
  BY DEF First

\* A new row has the type of a row.
LEMMA RowTyped ==
    ASSUME NEW h \in Hooks \union {0}, NEW s \in Statuses, NEW due \in BOOLEAN
    PROVE  Row(h, s, due) \in RowType /\ Row(h, s, due).status = s
                                      /\ Row(h, s, due).attempts = 0
  BY DEF Row, RowType, MaxAttempts

\* A step whose database call fails is counted.
LEMMA BoundsStep ==
    ASSUME TypeOK, NoFault \/ Fault
    PROVE  faults' \in 0 .. MaxFaults /\ crashes' \in 0 .. MaxCrashes
  <1>1. CASE NoFault
    BY <1>1 DEF TypeOK, NoFault, boundVars
  <1>2. CASE Fault
    BY <1>2, SizesAssumption DEF TypeOK, Fault
  <1> QED BY <1>1, <1>2

\* An UPDATE of one row, unless it is gone.
LEMMA MarkRows ==
    ASSUME TypeOK, NEW d \in Ids, NEW s \in {"pending", "delivered", "failed"},
           NEW due \in BOOLEAN, Mark(d, s, due),
           There(d) => rows[d].attempts < MaxAttempts
    PROVE  /\ rows' \in [Ids -> RowType]
           /\ \A e \in Ids \ {d} : rows'[e] = rows[e]
           /\ ~There(d) => rows' = rows
           /\ There(d) => /\ rows'[d].status = s
                          /\ rows'[d].attempts = rows[d].attempts + 1
  <1>1. CASE There(d)
    <2>1. rows[d] \in RowType /\ rows[d].attempts + 1 \in 0 .. MaxAttempts
      BY <1>1 DEF TypeOK, RowType, MaxAttempts
    <2>2. rows' = [rows EXCEPT ![d].status = s, ![d].attempts = @ + 1, ![d].due = due]
      BY <1>1 DEF Mark
    <2> QED BY <1>1, <2>1, <2>2 DEF TypeOK, RowType, Statuses
  <1>2. CASE ~There(d)
    BY <1>2 DEF Mark, TypeOK
  <1> QED BY <1>1, <1>2

-----------------------------------------------------------------------------
(* Type correctness, together with what a batch is.                        *)

\* The batch holds rows that were inserted, and those of them still to be
\* marked are as they were read.
BatchInserted == \A d \in batch : Status(d) # "absent"
Invariant == TypeOK /\ BatchIsCurrent /\ BatchInserted

LEMMA InvariantInit == Init => Invariant
  <1> SUFFICES ASSUME Init PROVE Invariant
    OBVIOUS
  <1>1. Row(0, "absent", FALSE) \in RowType
    BY RowTyped DEF Statuses
  <1>2. \A d \in Ids : Status(d) = "absent" /\ d > inserted
    <2>1. ASSUME NEW d \in Ids PROVE rows[d] = Row(0, "absent", FALSE) /\ d > inserted
      BY SizesAssumption DEF Init, Ids
    <2> QED BY <2>1 DEF Status, Row
  <1>3. TypeOK
    <2>1. rows \in [Ids -> RowType]
      BY <1>1 DEF Init
    <2>2. \A d \in Ids : (Status(d) = "absent" <=> d > inserted) /\ Status(d) # "pending"
      BY <1>2
    <2>3. hooks \in [Hooks -> {"absent", "on", "off", "deleted"}]
      BY DEF Init
    <2>4. sending \in [Senders -> SUBSET Hooks] /\ seen \in [Ids -> 0 .. MaxAttempts]
      BY DEF Init, MaxAttempts
    <2>5. posts \in [Ids -> Nat] /\ accepted \in [Ids -> Acceptances]
      BY DEF Init, Acceptances
    <2>6. stage \in Stages /\ batch \subseteq Ids /\ answer \in Answers /\ up \in BOOLEAN
      BY DEF Init, Stages, Answers
    <2>7. inserted \in 0 .. MaxDeliveries /\ faults \in 0 .. MaxFaults
                                         /\ crashes \in 0 .. MaxCrashes
      BY SizesAssumption DEF Init
    <2> QED BY <2>1, <2>2, <2>3, <2>4, <2>5, <2>6, <2>7 DEF TypeOK
  <1> QED BY <1>3 DEF Init, Invariant, BatchIsCurrent, BatchInserted

\* What does not touch the tables and the batch keeps them consistent.
LEMMA BatchFrame ==
    ASSUME Invariant, UNCHANGED <<rows, batchVars>>
    PROVE  BatchIsCurrent' /\ BatchInserted'
  BY DEF Invariant, BatchIsCurrent, BatchInserted, There, Status, First, batchVars

\* An empty batch is consistent.
LEMMA BatchGivenUp ==
    ASSUME GiveUpBatch
    PROVE  /\ BatchIsCurrent' /\ BatchInserted'
           /\ stage' \in Stages /\ batch' \subseteq Ids /\ answer' \in Answers
           /\ seen' \in [Ids -> 0 .. MaxAttempts]
  BY DEF GiveUpBatch, BatchIsCurrent, BatchInserted, Stages, Answers, MaxAttempts

\* The three ways of marking the first row of the batch.
MarkAny(d) == MarkDelivered(d) \/ MarkRetry(d) \/ MarkFailed(d)

\* What they have in common: the row marked is gone, or was pending with the
\* attempts that were read.
LEMMA MarkCases ==
    ASSUME Invariant, NEW d \in Ids, MarkAny(d)
    PROVE  /\ stage = "mark" /\ d \in First(batch) /\ d \in batch
           /\ There(d) => /\ Status(d) = "pending" /\ rows[d].attempts = seen[d]
                          /\ rows[d].attempts < MaxAttempts
           /\ \E s \in {"pending", "delivered", "failed"}, due \in BOOLEAN :
                /\ MarkStep(d, s, due)
                /\ There(d) /\ s = "pending" => rows[d].attempts + 1 < MaxAttempts
                /\ s = "delivered" <=> answer = "accepted"
                /\ s # "delivered" <=> answer = "refused"
  <1>1. /\ stage = "mark" /\ d \in First(batch) /\ d \in batch
        /\ There(d) => /\ Status(d) = "pending" /\ rows[d].attempts = seen[d]
                       /\ rows[d].attempts < MaxAttempts
    BY DEF MarkAny, MarkDelivered, MarkRetry, MarkFailed, Answered, First, Invariant,
           BatchIsCurrent, TypeOK
  <1>2. CASE MarkDelivered(d)
    BY <1>1, <1>2 DEF MarkDelivered, Answered
  <1>3. CASE MarkRetry(d)
    <2>1. seen[d] \in Nat /\ ~(seen[d] + 1 >= MaxAttempts)
      BY <1>3 DEF MarkRetry, LastAttempt, Invariant, TypeOK, MaxAttempts
    <2>2. There(d) => rows[d].attempts + 1 < MaxAttempts
      BY <1>1, <2>1 DEF MaxAttempts
    <2> QED BY <1>1, <1>3, <2>2 DEF MarkRetry, Answered
  <1>4. CASE MarkFailed(d)
    <2>1. rows[d].due \in BOOLEAN
      BY DEF Invariant, TypeOK, RowType
    <2> QED BY <1>1, <1>4, <2>1 DEF MarkFailed, Answered
  <1> QED BY <1>2, <1>3, <1>4 DEF MarkAny

\* They keep the invariant.
LEMMA MarkKeepsInvariant ==
    ASSUME Invariant, NEW d \in Ids, MarkAny(d)
    PROVE  Invariant'
  <1>1. PICK s \in {"pending", "delivered", "failed"}, due \in BOOLEAN :
             /\ MarkStep(d, s, due)
             /\ There(d) /\ s = "pending" => rows[d].attempts + 1 < MaxAttempts
    BY MarkCases
  <1>2. /\ stage = "mark" /\ d \in First(batch) /\ d \in batch
        /\ There(d) => rows[d].attempts < MaxAttempts
    BY MarkCases
  <1>3. faults' \in 0 .. MaxFaults /\ crashes' \in 0 .. MaxCrashes
    BY <1>1, BoundsStep DEF MarkStep, Invariant
  <1>4. CASE Mark(d, s, due) /\ stage' = "mark_hook" /\ UNCHANGED <<batch, seen, answer>>
    <2>1. /\ rows' \in [Ids -> RowType]
          /\ \A e \in Ids \ {d} : rows'[e] = rows[e]
          /\ ~There(d) => rows' = rows
          /\ There(d) => /\ rows'[d].status = s
                         /\ rows'[d].attempts = rows[d].attempts + 1
      BY <1>2, <1>4, MarkRows DEF Invariant
    <2>2. \A e \in Ids : /\ Status(e)' = "pending" => rows'[e].attempts < MaxAttempts
                         /\ Status(e)' = "absent" <=> e > inserted
      BY <1>1, <2>1 DEF Invariant, TypeOK, Status, There
    <2>3. TypeOK'
      BY <1>1, <1>3, <1>4, <2>1, <2>2
         DEF MarkStep, Invariant, TypeOK, senderVars, ghosts, Stages
    <2>4. BatchIsCurrent' /\ BatchInserted'
      <3>1. First(batch)' = First(batch)
        BY <1>4 DEF First
      <3>2. \A e \in batch : Status(e)' # "absent"
        BY <1>4, <2>1 DEF Invariant, TypeOK, BatchInserted, Status, There
      <3>3. \A e \in batch \ {d} :
              There(e) => Status(e)' = "pending" /\ rows'[e].attempts = seen[e]
        BY <1>2, <2>1, FirstUnique DEF Invariant, TypeOK, BatchIsCurrent, Status, There
      <3> QED BY <1>2, <1>4, <2>1, <3>1, <3>2, <3>3
              DEF BatchIsCurrent, BatchInserted, Status, There, Invariant, TypeOK
    <2> QED BY <2>3, <2>4 DEF Invariant
  <1>5. CASE GiveUpBatch /\ UNCHANGED rows
    <2>1. BatchIsCurrent' /\ BatchInserted'
      BY <1>5, BatchGivenUp
    <2>2. TypeOK'
      BY <1>1, <1>3, <1>5, BatchGivenUp
         DEF MarkStep, Invariant, TypeOK, senderVars, ghosts, Status
    <2> QED BY <2>1, <2>2 DEF Invariant
  <1> QED BY <1>1, <1>4, <1>5 DEF MarkStep

\* A delivery is inserted: the row was absent, so no batch holds it.
LEMMA InsertKeepsInvariant ==
    ASSUME Invariant, NEW s \in Senders, InsertDelivery(s)
    PROVE  Invariant'
  <1> DEFINE d == inserted + 1
  <1>1. d \in Ids /\ Status(d) = "absent" /\ d \notin batch
    BY SizesAssumption DEF InsertDelivery, Invariant, TypeOK, Ids, BatchInserted
  <1>2. PICK h \in Hooks : /\ sending' = [sending EXCEPT ![s] = @ \ {h}]
                           /\ rows' = [rows EXCEPT ![d] = Row(h, "pending", TRUE)]
    BY DEF InsertDelivery, First, Invariant, TypeOK
  <1>3. /\ Row(h, "pending", TRUE) \in RowType /\ Row(h, "pending", TRUE).status = "pending"
        /\ Row(h, "pending", TRUE).attempts = 0
    BY RowTyped DEF Statuses
  <1> HIDE DEF d
  <1>4. /\ rows' \in [Ids -> RowType]
        /\ rows'[d].status = "pending" /\ rows'[d].attempts = 0
        /\ \A e \in Ids \ {d} : rows'[e] = rows[e]
    BY <1>1, <1>2, <1>3 DEF Invariant, TypeOK
  <1>5. \A e \in Ids : Status(e)' = "pending" => rows'[e].attempts < MaxAttempts
    BY <1>4 DEF Invariant, TypeOK, Status, MaxAttempts
  <1>6. \A e \in Ids : Status(e)' = "absent" <=> e > inserted'
    <2>1. inserted' = inserted + 1 /\ inserted \in Nat
      BY DEF InsertDelivery, Invariant, TypeOK
    <2>2. \A e \in Ids : Status(e)' = "absent" <=> Status(e) = "absent" /\ e # d
      BY <1>1, <1>4 DEF Status
    <2> QED BY <2>1, <2>2 DEF Invariant, TypeOK, Ids, d
  <1>7. inserted' \in 0 .. MaxDeliveries
    BY SizesAssumption DEF InsertDelivery, Invariant, TypeOK
  <1>8. sending' \in [Senders -> SUBSET Hooks]
    BY <1>2 DEF Invariant, TypeOK
  <1>9. TypeOK'
    BY <1>4, <1>5, <1>6, <1>7, <1>8
       DEF InsertDelivery, Invariant, TypeOK, batchVars, ghosts, NoFault, boundVars
  <1>10. BatchIsCurrent' /\ BatchInserted'
    <2>1. UNCHANGED <<batch, stage, seen>> /\ First(batch)' = First(batch)
      BY DEF InsertDelivery, batchVars, First
    <2>2. \A e \in batch : e \in Ids /\ rows'[e] = rows[e]
      BY <1>1, <1>4 DEF Invariant, TypeOK
    <2> QED BY <2>1, <2>2 DEF Invariant, BatchIsCurrent, BatchInserted, Status, There
  <1> QED BY <1>9, <1>10 DEF Invariant

\* Every action keeps the invariant, one step of the proof for each.
LEMMA InvariantNext == Invariant /\ [Next]_vars => Invariant'
  <1> SUFFICES ASSUME Invariant, [Next]_vars
               PROVE  Invariant'
    OBVIOUS
  <1>1. ASSUME NEW h \in Hooks, CreateWebhook(h) \/ UpdateWebhook(h)
        PROVE  Invariant'
    <2>1. UNCHANGED <<rows, senderVars, batchVars, up, ghosts, boundVars>>
      BY <1>1 DEF CreateWebhook, UpdateWebhook, NoFault
    <2>2. hooks' \in [Hooks -> {"absent", "on", "off", "deleted"}]
      BY <1>1 DEF CreateWebhook, UpdateWebhook, Invariant, TypeOK
    <2>3. TypeOK'
      BY <2>1, <2>2 DEF Invariant, TypeOK, senderVars, batchVars, ghosts, boundVars, Status
    <2> QED BY <2>1, <2>3, BatchFrame DEF Invariant
  <1>2. ASSUME NEW h \in Hooks, DeleteWebhook(h)
        PROVE  Invariant'
    <2>1. Row(0, "deleted", FALSE) \in RowType /\ Row(0, "deleted", FALSE).status = "deleted"
      BY RowTyped DEF Statuses
    <2>2. /\ rows' \in [Ids -> RowType]
          /\ \A d \in Ids : \/ rows'[d] = rows[d]
                            \/ There(d) /\ rows'[d].status = "deleted"
      BY <1>2, <2>1 DEF DeleteWebhook, Invariant, TypeOK
    <2>3. \A d \in Ids : /\ Status(d)' = "pending" => rows'[d].attempts < MaxAttempts
                         /\ Status(d)' = "absent" <=> d > inserted
      BY <2>2 DEF Invariant, TypeOK, Status, There
    <2>4. hooks' \in [Hooks -> {"absent", "on", "off", "deleted"}]
      BY <1>2 DEF DeleteWebhook, Invariant, TypeOK
    <2>5. TypeOK'
      BY <1>2, <2>2, <2>3, <2>4 DEF DeleteWebhook, Invariant, TypeOK, senderVars, batchVars,
                                    ghosts, NoFault, boundVars
    <2>6. UNCHANGED <<batch, stage, seen>> /\ First(batch)' = First(batch)
      BY <1>2 DEF DeleteWebhook, batchVars, First
    <2>7. BatchIsCurrent'
      BY <2>2, <2>6 DEF Invariant, TypeOK, BatchIsCurrent, Status, There
    <2>8. BatchInserted'
      BY <2>2, <2>6 DEF Invariant, TypeOK, BatchInserted, Status
    <2> QED BY <2>5, <2>7, <2>8 DEF Invariant
  <1>3. ASSUME NEW s \in Senders, FindSubscribers(s)
        PROVE  Invariant'
    <2>1. sending' \in [Senders -> SUBSET Hooks]
      BY <1>3 DEF FindSubscribers, Invariant, TypeOK
    <2>2. TypeOK'
      BY <1>3, <2>1 DEF FindSubscribers, Invariant, TypeOK, batchVars, ghosts, NoFault,
                        boundVars, Status
    <2> QED BY <1>3, <2>2, BatchFrame DEF FindSubscribers, Invariant
  <1>4. ASSUME NEW s \in Senders, InsertDelivery(s)
        PROVE  Invariant'
    BY <1>4, InsertKeepsInvariant
  <1>5. ASSUME NEW s \in Senders, InsertFails(s)
        PROVE  Invariant'
    <2>1. sending' \in [Senders -> SUBSET Hooks]
      BY <1>5 DEF InsertFails, Invariant, TypeOK
    <2>2. faults' \in 0 .. MaxFaults /\ crashes' \in 0 .. MaxCrashes
      BY <1>5, BoundsStep DEF InsertFails, Invariant
    <2>3. TypeOK'
      BY <1>5, <2>1, <2>2 DEF InsertFails, Invariant, TypeOK, batchVars, ghosts, Status
    <2> QED BY <1>5, <2>3, BatchFrame DEF InsertFails, Invariant
  <1>6. ASSUME ReadBatch
        PROVE  Invariant'
    <2>1. batch' \subseteq Due
      BY <1>6 DEF ReadBatch, Oldest
    <2>2. \A d \in batch' : d \in Ids /\ Status(d) = "pending"
      BY <2>1 DEF Due, Pending
    <2>3. seen' \in [Ids -> 0 .. MaxAttempts] /\ \A d \in batch' : seen'[d] = rows[d].attempts
      BY <1>6, <2>2 DEF ReadBatch, Invariant, TypeOK, RowType, MaxAttempts
    <2>4. TypeOK'
      BY <1>6, <2>2, <2>3 DEF ReadBatch, Invariant, TypeOK, senderVars, ghosts, NoFault,
                              boundVars, Status, Stages
    <2>5. BatchIsCurrent' /\ BatchInserted'
      BY <1>6, <2>2, <2>3 DEF ReadBatch, BatchIsCurrent, BatchInserted, Status, There
    <2> QED BY <2>4, <2>5 DEF Invariant
  <1>7. ASSUME NEW d \in Ids, Post(d)
        PROVE  Invariant'
    <2>1. posts' \in [Ids -> Nat] /\ accepted' \in [Ids -> Acceptances]
      <3>1. [posts EXCEPT ![d] = @ + 1] \in [Ids -> Nat]
        BY DEF Invariant, TypeOK
      <3>2. \A a \in Acceptances : [accepted EXCEPT ![d] = a] \in [Ids -> Acceptances]
        BY DEF Invariant, TypeOK
      <3>3. /\ posts' = [posts EXCEPT ![d] = @ + 1] \/ posts' = posts
            /\ \/ \E a \in Acceptances : accepted' = [accepted EXCEPT ![d] = a]
               \/ accepted' = accepted
        BY <1>7 DEF Post, ghosts, Acceptances, Invariant, TypeOK
      <3> QED BY <3>1, <3>2, <3>3 DEF Invariant, TypeOK
    <2>2. stage' = "mark" /\ answer' \in Answers /\ UNCHANGED <<rows, batch, seen>>
      BY <1>7 DEF Post, Answers
    <2>3. TypeOK'
      BY <1>7, <2>1, <2>2 DEF Post, Invariant, TypeOK, senderVars, NoFault, boundVars, Status,
                              Stages
    <2>4. BatchIsCurrent' /\ BatchInserted'
      BY <1>7, <2>2 DEF Post, Invariant, BatchIsCurrent, BatchInserted, There, Status
    <2> QED BY <2>3, <2>4 DEF Invariant
  <1>8. ASSUME NEW d \in Ids, MarkAny(d)
        PROVE  Invariant'
    BY <1>8, MarkKeepsInvariant
  <1>9. ASSUME NEW d \in Ids, MarkHook(d)
        PROVE  Invariant'
    <2>1. faults' \in 0 .. MaxFaults /\ crashes' \in 0 .. MaxCrashes
      BY <1>9, BoundsStep DEF MarkHook, Invariant
    <2>2. CASE GiveUpBatch
      <3>1. TypeOK'
        BY <1>9, <2>1, <2>2, BatchGivenUp
           DEF MarkHook, Invariant, TypeOK, senderVars, ghosts, Status
      <3> QED BY <2>2, <3>1, BatchGivenUp DEF Invariant
    <2>3. CASE /\ batch' = batch \ {d} /\ seen' = [seen EXCEPT ![d] = 0] /\ answer' = "none"
               /\ stage' \in {"idle", "post"}
      <3>1. TypeOK'
        BY <1>9, <2>1, <2>3 DEF MarkHook, Invariant, TypeOK, senderVars, ghosts, Status,
                                Stages, Answers, MaxAttempts
      <3>2. \A e \in batch' : e \in batch /\ e \notin First(batch) /\ seen'[e] = seen[e]
        <4>1. \A e \in First(batch) : e = d
          BY <1>9, FirstUnique DEF MarkHook, Invariant, TypeOK, Ids
        <4> QED BY <2>3, <4>1 DEF Invariant, TypeOK
      <3>3. BatchIsCurrent' /\ BatchInserted'
        BY <1>9, <3>2 DEF MarkHook, Invariant, BatchIsCurrent, BatchInserted, There, Status
      <3> QED BY <3>1, <3>3 DEF Invariant
    <2> QED BY <1>9, <2>2, <2>3 DEF MarkHook
  <1>10. ASSUME NEW d \in Ids, Elapse(d)
         PROVE  Invariant'
    <2>1. /\ rows' \in [Ids -> RowType]
          /\ \A e \in Ids : rows'[e].status = rows[e].status
                            /\ rows'[e].attempts = rows[e].attempts
      BY <1>10, ZenonT(60) DEF Elapse, Invariant, TypeOK, RowType
    <2>2. TypeOK'
      BY <1>10, <2>1 DEF Elapse, Invariant, TypeOK, senderVars, batchVars, ghosts, NoFault,
                         boundVars, Status
    <2>3. BatchIsCurrent' /\ BatchInserted'
      BY <1>10, <2>1 DEF Elapse, Invariant, TypeOK, BatchIsCurrent, BatchInserted, There,
                         Status, First, batchVars
    <2> QED BY <2>2, <2>3 DEF Invariant
  <1>11. ASSUME Crash
         PROVE  Invariant'
    <2>1. crashes' \in 0 .. MaxCrashes /\ GiveUpBatch
      BY <1>11, SizesAssumption DEF Crash, Invariant, TypeOK
    <2>2. TypeOK'
      BY <1>11, <2>1, BatchGivenUp DEF Crash, Invariant, TypeOK, ghosts, Status
    <2> QED BY <2>1, <2>2, BatchGivenUp DEF Invariant
  <1>12. ASSUME Restart
         PROVE  Invariant'
    <2>1. TypeOK'
      BY <1>12 DEF Restart, Invariant, TypeOK, senderVars, batchVars, ghosts, boundVars, Status
    <2> QED BY <1>12, <2>1, BatchFrame DEF Restart, Invariant
  <1>13. CASE UNCHANGED vars
    <2>1. TypeOK'
      BY <1>13 DEF vars, Invariant, TypeOK, senderVars, batchVars, ghosts, boundVars, Status
    <2> QED BY <1>13, <2>1, BatchFrame DEF vars, Invariant
  <1> QED BY <1>1, <1>2, <1>3, <1>4, <1>5, <1>6, <1>7, <1>8, <1>9, <1>10, <1>11, <1>12, <1>13
          DEF Next, Owners, Enqueue, Deliver, MarkAny

\* The rows, the batch and the counters are always well typed, and a waiting
\* delivery has attempts left.
THEOREM TypeCorrect == Spec => []TypeOK
  <1>1. Invariant => TypeOK
    BY DEF Invariant
  <1> QED BY <1>1, InvariantInit, InvariantNext, PTL DEF Spec

\* The copy deliver_pending works on agrees with the table, so the limit of
\* attempts computed from it is the limit of the row.
THEOREM BatchCurrent == Spec => []BatchIsCurrent
  <1>1. Invariant => BatchIsCurrent
    BY DEF Invariant
  <1> QED BY <1>1, InvariantInit, InvariantNext, PTL DEF Spec

\* A row that is delivered or failed is never taken up again: a batch holds it
\* only after it was marked.
THEOREM FinalIsFinalCorrect == Spec => FinalIsFinal
  <1> DEFINE Settled == \A d \in Ids : Status(d) \in Final => Status(d)' \in {Status(d), "deleted"}
  <1>1. Invariant /\ [Next]_vars => Settled
    <2> SUFFICES ASSUME Invariant, [Next]_vars, NEW d \in Ids, Status(d) \in Final
                 PROVE  Status(d)' \in {Status(d), "deleted"}
      OBVIOUS
    <2>1. CASE UNCHANGED rows
      BY <2>1 DEF Status
    <2>2. ASSUME NEW h \in Hooks, DeleteWebhook(h)
          PROVE  Status(d)' \in {Status(d), "deleted"}
      BY <2>2 DEF DeleteWebhook, Status, Row
    <2>3. ASSUME NEW s \in Senders, InsertDelivery(s)
          PROVE  Status(d)' \in {Status(d), "deleted"}
      <3>1. d # inserted + 1
        BY DEF Invariant, TypeOK, Final
      <3> QED BY <2>3, <3>1 DEF InsertDelivery, Invariant, TypeOK, Status
    <2>4. ASSUME NEW e \in Ids, MarkAny(e)
          PROVE  Status(d)' \in {Status(d), "deleted"}
      <3>1. There(e) => Status(e) = "pending"
        BY <2>4, MarkCases
      <3>2. e # d
        BY <3>1 DEF There, Final
      <3>3. PICK s \in {"pending", "delivered", "failed"}, due \in BOOLEAN : MarkStep(e, s, due)
        BY <2>4, MarkCases
      <3> QED BY <3>2, <3>3 DEF MarkStep, Mark, Invariant, TypeOK, Status
    <2>5. ASSUME NEW e \in Ids, Elapse(e)
          PROVE  Status(d)' \in {Status(d), "deleted"}
      BY <2>5 DEF Elapse, Invariant, TypeOK, RowType, Status
    <2> QED BY <2>1, <2>2, <2>3, <2>4, <2>5
            DEF Next, Owners, Enqueue, Deliver, MarkAny, CreateWebhook, UpdateWebhook,
                FindSubscribers, InsertFails, ReadBatch, Post, MarkHook, Crash, Restart, vars
  <1> QED BY <1>1, InvariantInit, InvariantNext, PTL DEF Spec, FinalIsFinal

-----------------------------------------------------------------------------
(* What the receivers have seen.                                           *)

\* An acceptance that was heard and is not recorded yet, and a row still to be POSTed.
Arriving(d) == stage = "mark" /\ answer = "accepted" /\ d \in First(batch)
Waiting(d) == d \in batch /\ (stage = "post" \/ d \notin First(batch))

\* An acceptance that was heard is in the table, on its way there, or lost; and
\* none was heard of what is still to be POSTed.
Honest(d) ==
    /\ Arriving(d) \/ Status(d) = "delivered" => accepted[d] = "heard"
    /\ accepted[d] = "heard" => Status(d) # "absent"
    /\ accepted[d] = "heard" => Lost \/ Status(d) \in {"delivered", "deleted"} \/ Arriving(d)
    /\ Waiting(d) /\ accepted[d] = "heard" => Lost

\* Every POST is an attempt of the row, is about to be one, or was lost with a
\* failed UPDATE or a crash; a row deleted before its POST had one attempt left.
Sending(d) == stage = "mark" /\ d \in First(batch)
Bounded(d) ==
    /\ Status(d) = "absent" => posts[d] = 0
    /\ There(d) => posts[d] <= rows[d].attempts + faults + crashes + IF Sending(d) THEN 1 ELSE 0
    /\ Waiting(d) /\ ~There(d) => posts[d] < MaxAttempts + faults + crashes
    /\ posts[d] <= MaxAttempts + faults + crashes

Faithful(d) == Honest(d) /\ Bounded(d)

\* The numbers involved.
LEMMA Counts ==
    ASSUME Invariant, NEW d \in Ids
    PROVE  /\ posts[d] \in Nat /\ faults \in Nat /\ crashes \in Nat
           /\ rows[d].attempts \in 0 .. MaxAttempts /\ seen[d] \in 0 .. MaxAttempts
  BY SizesAssumption DEF Invariant, TypeOK, RowType

\* No step takes a failure or a crash back.
LEMMA CountersGrow ==
    ASSUME Invariant, [Next]_vars
    PROVE  /\ faults' >= faults /\ crashes' >= crashes
           /\ faults' \in Nat /\ crashes' \in Nat
  <1>1. faults \in Nat /\ crashes \in Nat
    BY SizesAssumption DEF Invariant, TypeOK
  <1>2. /\ faults' = faults \/ faults' = faults + 1
        /\ crashes' = crashes \/ crashes' = crashes + 1
    <2>1. CASE Owners
      BY <2>1 DEF Owners, CreateWebhook, UpdateWebhook, DeleteWebhook, NoFault, boundVars
    <2>2. CASE Enqueue
      BY <2>2 DEF Enqueue, FindSubscribers, InsertDelivery, InsertFails, NoFault, Fault, boundVars
    <2>3. CASE Deliver
      BY <2>3 DEF Deliver, ReadBatch, Post, MarkDelivered, MarkRetry, MarkFailed, MarkStep,
                  MarkHook, NoFault, Fault, boundVars
    <2>4. CASE \E d \in Ids : Elapse(d)
      BY <2>4 DEF Elapse, NoFault, boundVars
    <2>5. CASE Crash \/ Restart \/ UNCHANGED vars
      BY <2>5 DEF Crash, Restart, vars, boundVars
    <2> QED BY <2>1, <2>2, <2>3, <2>4, <2>5 DEF Next
  <1> QED BY <1>1, <1>2

\* A row that looks the same, and does not come up for a POST, stays faithful.
LEMMA SameView ==
    ASSUME Invariant, Invariant', [Next]_vars, NEW d \in Ids, Faithful(d),
           rows'[d].status = rows[d].status, rows'[d].attempts = rows[d].attempts,
           posts'[d] = posts[d], accepted'[d] = accepted[d],
           Arriving(d)' <=> Arriving(d), Sending(d)' <=> Sending(d),
           Waiting(d)' => Waiting(d)
    PROVE  Faithful(d)'
  <1>1. /\ faults' >= faults /\ crashes' >= crashes
        /\ faults' \in Nat /\ crashes' \in Nat /\ faults \in Nat /\ crashes \in Nat
        /\ posts[d] \in Nat /\ rows[d].attempts \in Nat
    BY CountersGrow, Counts DEF MaxAttempts
  <1>2. Lost => Lost'
    BY <1>1 DEF Lost
  <1>3. Honest(d)'
    BY <1>2 DEF Faithful, Honest, Status
  <1>4. Bounded(d)'
    BY <1>1 DEF Faithful, Bounded, Status, There, MaxAttempts
  <1> QED BY <1>3, <1>4 DEF Faithful

\* So does one nobody touches.
LEMMA Untouched ==
    ASSUME Invariant, Invariant', [Next]_vars, NEW d \in Ids, Faithful(d),
           UNCHANGED <<rows, batchVars, ghosts>>
    PROVE  Faithful(d)'
  <1>1. /\ Arriving(d)' <=> Arriving(d)
        /\ Sending(d)' <=> Sending(d)
        /\ Waiting(d)' <=> Waiting(d)
    BY DEF Arriving, Sending, Waiting, First, batchVars
  <1> QED BY <1>1, SameView DEF ghosts

\* A row without POSTs, and one whose batch is given up at the cost of a failure
\* or a crash.
LEMMA NewRow ==
    ASSUME Invariant', NEW d \in Ids, accepted[d]' # "heard", posts[d]' = 0,
           Status(d)' \in {"absent", "pending"}, d \notin batch'
    PROVE  Faithful(d)'
  <1>1. /\ faults' \in Nat /\ crashes' \in Nat /\ rows[d].attempts' \in Nat
    BY SizesAssumption DEF Invariant, TypeOK, RowType, MaxAttempts
  <1>2. ~Arriving(d)' /\ ~Waiting(d)' /\ ~Sending(d)'
    BY DEF Arriving, Waiting, Sending, First
  <1>3. Honest(d)'
    BY <1>2 DEF Honest, Arriving
  <1>4. Bounded(d)'
    <2> DEFINE a == rows[d].attempts'
               f == faults'
               c == crashes'
    <2>0. a \in Nat /\ f \in Nat /\ c \in Nat
      BY <1>1
    <2>1. posts[d]' <= a + f + c /\ posts[d]' <= 3 + f + c
      <3> HIDE DEF a, f, c
      <3> QED BY <2>0
    <2>2. (Status(d) = "absent" => posts[d] = 0)'
      OBVIOUS
    <2>3. (Waiting(d) /\ ~There(d) => posts[d] < MaxAttempts + faults + crashes)'
      BY <1>2
    <2>4. (IF Sending(d) THEN 1 ELSE 0)' = 0
      BY <1>2
    <2>5. posts[d]' <= rows[d].attempts' + faults' + crashes' + (IF Sending(d) THEN 1 ELSE 0)'
      BY <1>1, <2>1, <2>4
    <2> QED BY <2>1, <2>2, <2>3, <2>5 DEF Bounded, MaxAttempts
  <1> QED BY <1>3, <1>4 DEF Faithful

LEMMA AnswerLost ==
    ASSUME Invariant, NEW d \in Ids, Faithful(d), GiveUpBatch, UNCHANGED <<rows, ghosts>>,
           \/ faults' = faults + 1 /\ crashes' = crashes
           \/ crashes' = crashes + 1 /\ faults' = faults
    PROVE  Faithful(d)'
  <1>1. /\ posts[d] \in Nat /\ faults \in Nat /\ crashes \in Nat /\ rows[d].attempts \in Nat
    BY Counts DEF MaxAttempts
  <1>2. Lost' /\ ~Arriving(d)' /\ ~Waiting(d)' /\ ~Sending(d)'
    BY <1>1 DEF Lost, GiveUpBatch, Arriving, Waiting, Sending
  <1>3. Honest(d)'
    BY <1>2 DEF Faithful, Honest, Status, ghosts, Arriving
  <1>4. Bounded(d)'
    BY <1>1, <1>2 DEF Faithful, Bounded, Status, There, ghosts, MaxAttempts
  <1> QED BY <1>3, <1>4 DEF Faithful

\* A POST: the row is pending, or deleted, and no acceptance was heard before.
LEMMA PostKeepsFaithful ==
    ASSUME Invariant, Invariant', [Next]_vars, NEW d \in Ids, Post(d),
           NEW e \in Ids, Faithful(e)
    PROVE  Faithful(e)'
  <1>1. /\ d \in First(batch) /\ d \in batch /\ stage = "post" /\ stage' = "mark"
        /\ First(batch)' = First(batch)
        /\ UNCHANGED <<rows, batch, seen, faults, crashes>>
    BY DEF Post, First, NoFault, boundVars
  <1>2. CASE e # d
    <2>1. posts'[e] = posts[e] /\ accepted'[e] = accepted[e]
      BY <1>2 DEF Post, ghosts, Invariant, TypeOK
    <2>2. e \notin First(batch)
      BY <1>1, <1>2, FirstUnique DEF Invariant, TypeOK, Ids
    <2>3. /\ ~Arriving(e) /\ ~Arriving(e)'
          /\ ~Sending(e) /\ ~Sending(e)'
          /\ Waiting(e)' => Waiting(e)
      BY <1>1, <2>2 DEF Arriving, Sending, Waiting
    <2> QED BY <1>1, <2>1, <2>3, SameView
  <1>3. CASE e = d
    <2>1. /\ posts'[d] = posts[d] \/ posts'[d] = posts[d] + 1
          /\ \/ (Heard(d)' <=> Heard(d)) /\ answer' # "accepted"
             \/ Heard(d)' /\ answer' = "accepted"
      <3>1. /\ posts' = [posts EXCEPT ![d] = @ + 1] \/ posts' = posts
            /\ \/ accepted' = [accepted EXCEPT ![d] = "heard"] /\ answer' = "accepted"
               \/ /\ accepted' = [accepted EXCEPT ![d] = IF @ = "no" THEN "unheard" ELSE @]
                  /\ answer' = "refused"
               \/ accepted' = accepted /\ answer' = "refused"
        BY DEF Post, ghosts
      <3>2. posts'[d] = posts[d] \/ posts'[d] = posts[d] + 1
        BY <3>1 DEF Invariant, TypeOK
      <3>3. \/ (Heard(d)' <=> Heard(d)) /\ answer' # "accepted"
            \/ Heard(d)' /\ answer' = "accepted"
        BY <3>1 DEF Heard, Invariant, TypeOK
      <3> QED BY <3>2, <3>3
    <2>2. /\ Waiting(d) /\ ~Waiting(d)'
          /\ Sending(d)' /\ ~Sending(d)
          /\ Arriving(d)' <=> answer' = "accepted"
      BY <1>1 DEF Waiting, Sending, Arriving
    <2>3. There(d) => Status(d) = "pending" /\ rows[d].attempts < MaxAttempts
      BY <1>1 DEF Invariant, BatchIsCurrent, TypeOK
    <2>4. Status(d) # "absent"
      BY <1>1 DEF Invariant, BatchInserted
    <2>5. Honest(d)'
      <3>1. Lost' <=> Lost
        BY <1>1 DEF Lost
      <3>2. Status(d)' = Status(d) /\ Status(d) \in {"pending", "deleted"}
        BY <1>1, <2>3, <2>4 DEF There, Status
      <3>3. Heard(d) => Lost
        BY <1>3, <2>2 DEF Faithful, Honest, Heard
      <3> QED BY <2>1, <2>2, <3>1, <3>2, <3>3 DEF Honest, Heard
    <2>6. Bounded(d)'
      <3>1. /\ posts[d] \in Nat /\ faults \in Nat /\ crashes \in Nat
            /\ rows[d].attempts \in Nat
        BY Counts DEF MaxAttempts
      <3>2. /\ There(d) => posts[d] <= rows[d].attempts + faults + crashes
            /\ ~There(d) => posts[d] < MaxAttempts + faults + crashes
        BY <1>3, <2>2, <3>1 DEF Faithful, Bounded
      <3>3. /\ There(d) => posts'[d] <= rows[d].attempts + faults + crashes + 1
            /\ posts'[d] <= MaxAttempts + faults + crashes
        BY <2>1, <2>3, <3>1, <3>2 DEF MaxAttempts
      <3>4. Status(d)' = Status(d) /\ There(d)' = There(d)
        BY <1>1 DEF There, Status
      <3> QED BY <1>1, <2>2, <2>4, <3>3, <3>4 DEF Bounded
    <2> QED BY <1>3, <2>5, <2>6 DEF Faithful
  <1> QED BY <1>2, <1>3

\* Marking the row: the answer arrives in it, or is lost.
LEMMA MarkKeepsFaithful ==
    ASSUME Invariant, Invariant', [Next]_vars, NEW d \in Ids, MarkAny(d),
           NEW e \in Ids, Faithful(e)
    PROVE  Faithful(e)'
  <1>1. PICK s \in {"pending", "delivered", "failed"}, due \in BOOLEAN :
            /\ MarkStep(d, s, due)
            /\ s = "delivered" <=> answer = "accepted"
            /\ s # "delivered" <=> answer = "refused"
    BY MarkCases
  <1>2. /\ stage = "mark" /\ d \in First(batch) /\ d \in batch
        /\ There(d) => Status(d) = "pending" /\ rows[d].attempts < MaxAttempts
    BY MarkCases
  <1>3. CASE GiveUpBatch /\ UNCHANGED rows /\ Fault
    BY <1>1, <1>3, AnswerLost DEF MarkStep, Fault
  <1>4. CASE Mark(d, s, due) /\ stage' = "mark_hook" /\ UNCHANGED <<batch, seen, answer>> /\ NoFault
    <2>1. /\ \A f \in Ids \ {d} : rows'[f] = rows[f]
          /\ ~There(d) => rows' = rows
          /\ There(d) => rows'[d].status = s /\ rows'[d].attempts = rows[d].attempts + 1
      BY <1>2, <1>4, MarkRows DEF Invariant
    <2>2. /\ UNCHANGED <<posts, accepted, faults, crashes, batch>> /\ stage' = "mark_hook"
          /\ First(batch)' = First(batch)
      BY <1>1, <1>4 DEF MarkStep, ghosts, NoFault, boundVars, First
    <2>3. CASE e # d
      <3>1. e \notin First(batch)
        BY <1>2, <2>3, FirstUnique DEF Invariant, TypeOK, Ids
      <3>2. /\ ~Arriving(e) /\ ~Arriving(e)'
            /\ ~Sending(e) /\ ~Sending(e)'
            /\ Waiting(e)' => Waiting(e)
        BY <2>2, <3>1 DEF Arriving, Sending, Waiting
      <3> QED BY <2>1, <2>2, <2>3, <3>2, SameView
    <2>4. CASE e = d
      <3>1. /\ Sending(d) /\ ~Sending(d)' /\ ~Arriving(d)' /\ ~Waiting(d)'
            /\ Arriving(d) <=> s = "delivered"
        BY <1>1, <1>2, <2>2 DEF Arriving, Sending, Waiting
      <3>2. Lost' <=> Lost
        BY <2>2 DEF Lost
      <3>3. Status(d) # "absent"
        BY <1>2 DEF Invariant, BatchInserted
      <3>4. CASE There(d)
        <4>1. Status(d)' = s /\ Status(d) = "pending"
          BY <1>2, <2>1, <3>4 DEF Status
        <4>2. Honest(d)'
          BY <2>2, <2>4, <3>1, <3>2, <4>1 DEF Faithful, Honest
        <4>3. Bounded(d)'
          <5>1. /\ posts[d] \in Nat /\ faults \in Nat /\ crashes \in Nat
                /\ rows[d].attempts \in Nat
            BY Counts DEF MaxAttempts
          <5>2. /\ posts[d] <= rows[d].attempts + 1 + faults + crashes
                /\ posts[d] <= MaxAttempts + faults + crashes
            BY <2>4, <3>1, <3>4, <5>1 DEF Faithful, Bounded
          <5> QED BY <2>1, <2>2, <3>1, <3>4, <4>1, <5>1, <5>2 DEF Bounded
        <4> QED BY <2>4, <4>2, <4>3 DEF Faithful
      <3>5. CASE ~There(d)
        <4>1. rows' = rows /\ Status(d) = "deleted" /\ Status(d)' = "deleted" /\ ~There(d)'
          BY <2>1, <3>3, <3>5 DEF There, Status
        <4>2. Honest(d)'
          BY <2>2, <2>4, <3>1, <3>2, <4>1 DEF Faithful, Honest
        <4>3. Bounded(d)'
          BY <2>2, <2>4, <3>1, <4>1 DEF Faithful, Bounded
        <4> QED BY <2>4, <4>2, <4>3 DEF Faithful
      <3> QED BY <3>4, <3>5
    <2> QED BY <2>3, <2>4
  <1> QED BY <1>1, <1>3, <1>4 DEF MarkStep

\* Reading a batch and going on in it.
LEMMA BatchKeepsFaithful ==
    ASSUME Invariant, Invariant', [Next]_vars, NEW e \in Ids, Faithful(e),
           ReadBatch \/ \E d \in Ids : MarkHook(d)
    PROVE  Faithful(e)'
  <1>1. CASE ReadBatch
    <2>1. /\ stage = "idle" /\ stage' \in {"idle", "post"} /\ UNCHANGED <<rows, posts, accepted, faults, crashes>>
          /\ e \in batch' => Status(e) = "pending"
      BY <1>1 DEF ReadBatch, ghosts, NoFault, boundVars, Oldest, Due, Pending
    <2>2. ~Arriving(e) /\ ~Arriving(e)' /\ ~Sending(e) /\ ~Sending(e)'
      BY <2>1 DEF Arriving, Sending
    <2>3. CASE e \notin batch'
      BY <2>1, <2>2, <2>3, SameView DEF Waiting
    <2>4. CASE e \in batch'
      <3>1. Status(e) = "pending" /\ Status(e)' = "pending" /\ There(e)'
        BY <2>1, <2>4 DEF Status, There
      <3>2. Honest(e)'
        <4>1. accepted[e] = "heard" => Lost
          BY <2>2, <3>1 DEF Faithful, Honest
        <4>2. Lost' <=> Lost
          BY <2>1 DEF Lost
        <4> QED BY <2>1, <2>2, <3>1, <4>1, <4>2 DEF Honest
      <3>3. There(e)
        BY <3>1 DEF There
      <3>4. Bounded(e)'
        BY <2>1, <2>2, <3>1, <3>3 DEF Faithful, Bounded
      <3> QED BY <3>2, <3>4 DEF Faithful
    <2> QED BY <2>3, <2>4
  <1>2. ASSUME NEW d \in Ids, MarkHook(d)
        PROVE  Faithful(e)'
    <2>1. /\ stage = "mark_hook" /\ d \in First(batch) /\ UNCHANGED <<rows, ghosts>>
      BY <1>2 DEF MarkHook
    <2>2. CASE GiveUpBatch /\ Fault
      BY <2>1, <2>2, AnswerLost DEF Fault
    <2>3. CASE batch' = batch \ {d} /\ stage' \in {"idle", "post"} /\ NoFault
      <3>1. ~Arriving(e) /\ ~Arriving(e)' /\ ~Sending(e) /\ ~Sending(e)'
        BY <2>1, <2>3 DEF Arriving, Sending
      <3>2. \A f \in First(batch) : f = d
        <4>1. batch \in SUBSET Nat
          BY DEF Invariant, TypeOK, Ids
        <4> QED BY <2>1, <4>1, FirstUnique
      <3>3. Waiting(e)' => Waiting(e)
        BY <2>3, <3>2 DEF Waiting
      <3> QED BY <2>1, <3>1, <3>3, SameView DEF ghosts
    <2> QED BY <1>2, <2>2, <2>3 DEF MarkHook
  <1> QED BY <1>1, <1>2

\* A row deleted with its webhook, and a new one.
LEMMA RowsKeepFaithful ==
    ASSUME Invariant, Invariant', [Next]_vars, NEW e \in Ids, Faithful(e),
           \/ \E h \in Hooks : DeleteWebhook(h)
           \/ \E s \in Senders : InsertDelivery(s)
    PROVE  Faithful(e)'
  <1>1. UNCHANGED <<stage, batch, answer, posts, accepted, faults, crashes>>
    BY DEF DeleteWebhook, InsertDelivery, batchVars, ghosts, NoFault, boundVars
  <1>2. First(batch)' = First(batch)
    BY <1>1 DEF First
  <1>3. /\ Arriving(e)' <=> Arriving(e)
        /\ Sending(e)' <=> Sending(e)
        /\ Waiting(e)' <=> Waiting(e)
    BY <1>1, <1>2 DEF Arriving, Sending, Waiting
  <1>4. CASE rows'[e] = rows[e]
    BY <1>1, <1>3, <1>4, SameView
  <1>5. CASE There(e) /\ rows'[e].status = "deleted"
    <2>1. Status(e)' = "deleted" /\ ~There(e)' /\ (Lost' <=> Lost)
      BY <1>1, <1>5 DEF Status, There, Lost
    <2>2. Honest(e)'
      BY <1>1, <1>3, <2>1 DEF Faithful, Honest
    <2>3. Bounded(e)'
      <3>1. /\ posts[e] \in Nat /\ faults \in Nat /\ crashes \in Nat
            /\ rows[e].attempts \in Nat
        BY Counts DEF MaxAttempts
      <3>2. Waiting(e) => ~Sending(e) /\ rows[e].attempts < MaxAttempts
        <4>1. Waiting(e) => ~Sending(e)
          BY DEF Waiting, Sending
        <4>2. Waiting(e) => stage # "mark_hook" \/ e \notin First(batch)
          BY DEF Waiting
        <4>3. Waiting(e) => Status(e) = "pending"
          BY <1>5, <4>2 DEF Waiting, Invariant, BatchIsCurrent
        <4> QED BY <4>1, <4>3 DEF Invariant, TypeOK
      <3>3. /\ Waiting(e) => posts[e] < MaxAttempts + faults + crashes
            /\ posts[e] <= MaxAttempts + faults + crashes
        BY <1>5, <3>1, <3>2 DEF Faithful, Bounded, MaxAttempts
      <3> QED BY <1>1, <1>3, <2>1, <3>3 DEF Bounded
    <2> QED BY <2>2, <2>3 DEF Faithful
  <1>6. CASE Status(e) = "absent" /\ Status(e)' = "pending" /\ e \notin batch'
    <2>1. accepted[e] # "heard" /\ posts[e] = 0
      BY <1>6 DEF Faithful, Honest, Bounded, Invariant, TypeOK
    <2> QED BY <1>1, <1>6, <2>1, NewRow
  <1>7. ASSUME NEW h \in Hooks, DeleteWebhook(h)
        PROVE  \/ rows'[e] = rows[e]
               \/ There(e) /\ rows'[e].status = "deleted"
    <2>1. Row(0, "deleted", FALSE).status = "deleted"
      BY DEF Row
    <2>2. rows'[e] = IF There(e) /\ rows[e].hook = h THEN Row(0, "deleted", FALSE) ELSE rows[e]
      BY <1>7 DEF DeleteWebhook
    <2> QED BY <2>1, <2>2
  <1>8. ASSUME NEW s \in Senders, InsertDelivery(s)
        PROVE  \/ rows'[e] = rows[e]
               \/ Status(e) = "absent" /\ Status(e)' = "pending" /\ e \notin batch'
    <2>1. CASE e = inserted + 1
      <3>1. Status(e) = "absent" /\ e \notin batch
        BY <2>1 DEF Invariant, TypeOK, BatchInserted
      <3>2. Status(e)' = "pending"
        BY <1>8, <2>1 DEF InsertDelivery, Status, Row, Invariant, TypeOK
      <3> QED BY <1>1, <3>1, <3>2
    <2>2. CASE e # inserted + 1
      BY <1>8, <2>2 DEF InsertDelivery, Invariant, TypeOK
    <2> QED BY <2>1, <2>2
  <1> QED BY <1>4, <1>5, <1>6, <1>7, <1>8

\* All of it together.
AllFaithful == Invariant /\ \A d \in Ids : Faithful(d)

LEMMA FaithfulInit == Init => AllFaithful
  <1> SUFFICES ASSUME Init, NEW d \in Ids PROVE Faithful(d)
    BY InvariantInit DEF AllFaithful
  <1>1. /\ Status(d) = "absent" /\ posts[d] = 0 /\ accepted[d] # "heard" /\ batch = {}
        /\ faults = 0 /\ crashes = 0
    BY DEF Init, Status, Row
  <1>2. ~Arriving(d) /\ ~Waiting(d) /\ ~There(d)
    BY <1>1 DEF Init, Arriving, Waiting, There
  <1> QED BY <1>1, <1>2 DEF Faithful, Honest, Bounded, MaxAttempts

LEMMA FaithfulNext == AllFaithful /\ [Next]_vars => AllFaithful'
  <1> SUFFICES ASSUME AllFaithful, [Next]_vars PROVE AllFaithful'
    OBVIOUS
  <1>1. Invariant /\ Invariant'
    BY InvariantNext DEF AllFaithful
  <1> SUFFICES ASSUME NEW e \in Ids PROVE Faithful(e)'
    BY <1>1 DEF AllFaithful, Ids
  <1>2. Faithful(e)
    BY DEF AllFaithful
  <1>3. CASE UNCHANGED <<rows, batchVars, ghosts>>
    BY <1>1, <1>2, <1>3, Untouched
  <1>4. CASE \/ \E h \in Hooks : DeleteWebhook(h)
             \/ \E s \in Senders : InsertDelivery(s)
    BY <1>1, <1>2, <1>4, RowsKeepFaithful
  <1>5. CASE ReadBatch \/ \E d \in Ids : MarkHook(d)
    BY <1>1, <1>2, <1>5, BatchKeepsFaithful
  <1>6. CASE \E d \in Ids : Post(d)
    BY <1>1, <1>2, <1>6, PostKeepsFaithful
  <1>7. CASE \E d \in Ids : MarkAny(d)
    BY <1>1, <1>2, <1>7, MarkKeepsFaithful
  <1>8. CASE Crash
    BY <1>1, <1>2, <1>8, AnswerLost DEF Crash
  <1>9. ASSUME NEW d \in Ids, Elapse(d)
        PROVE  Faithful(e)'
    <2>1. /\ rows'[e].status = rows[e].status /\ rows'[e].attempts = rows[e].attempts
          /\ UNCHANGED <<batchVars, ghosts>>
      BY <1>1, <1>9 DEF Elapse, Invariant, TypeOK, RowType
    <2>2. /\ Arriving(e)' <=> Arriving(e)
          /\ Sending(e)' <=> Sending(e)
          /\ Waiting(e)' <=> Waiting(e)
      BY <2>1 DEF Arriving, Sending, Waiting, First, batchVars
    <2> QED BY <1>1, <1>2, <2>1, <2>2, SameView DEF ghosts
  <1> QED BY <1>3, <1>4, <1>5, <1>6, <1>7, <1>8, <1>9
          DEF Next, Owners, Enqueue, Deliver, MarkAny, CreateWebhook, UpdateWebhook,
              FindSubscribers, InsertFails, Restart, vars

\* A delivered row had a 2xx that was heard, and a failed one had none, unless a
\* crash or a failed UPDATE lost it.
THEOREM StatusHonest == Spec => []StatusIsHonest
  <1>1. AllFaithful => StatusIsHonest
    <2> SUFFICES ASSUME AllFaithful, NEW d \in Ids
                 PROVE  /\ Status(d) = "delivered" => accepted[d] = "heard"
                        /\ Status(d) = "failed" /\ accepted[d] = "heard" => Lost
      BY DEF StatusIsHonest, Heard
    <2>1. Status(d) = "failed" => ~Arriving(d)
      BY DEF AllFaithful, Invariant, BatchIsCurrent, Arriving, There, First
    <2> QED BY <2>1 DEF AllFaithful, Faithful, Honest
  <1> QED BY <1>1, FaithfulInit, FaithfulNext, PTL DEF Spec

\* A receiver gets a delivery at most three times, and once more for every crash
\* and every failed UPDATE.
THEOREM PostsCounted == Spec => []PostsAreCounted
  <1>1. AllFaithful => PostsAreCounted
    BY DEF AllFaithful, Faithful, Bounded, PostsAreCounted
  <1> QED BY <1>1, FaithfulInit, FaithfulNext, PTL DEF Spec

\* Once a 2xx was heard, the delivery is not POSTed again, unless a crash or a
\* failed UPDATE lost what was heard.
THEOREM NoPostOnceHeardCorrect == Spec => NoPostOnceHeard
  <1> DEFINE Quiet == \A d \in Ids : Heard(d) /\ ~Lost => posts'[d] = posts[d]
  <1>1. AllFaithful /\ [Next]_vars => Quiet
    <2> SUFFICES ASSUME AllFaithful, [Next]_vars, NEW d \in Ids, Heard(d), ~Lost
                 PROVE  posts'[d] = posts[d]
      OBVIOUS
    <2>1. CASE UNCHANGED posts
      BY <2>1
    <2>2. ASSUME NEW e \in Ids, Post(e)
          PROVE  posts'[d] = posts[d]
      <3>1. Waiting(e)
        BY <2>2 DEF Post, Waiting, First
      <3>2. e # d
        BY <3>1 DEF AllFaithful, Faithful, Honest, Heard
      <3> QED BY <2>2, <3>2 DEF Post, ghosts, AllFaithful, Invariant, TypeOK
    <2> QED BY <2>1, <2>2
            DEF Next, Owners, Enqueue, Deliver, MarkDelivered, MarkRetry, MarkFailed, MarkStep,
                CreateWebhook, UpdateWebhook, DeleteWebhook, FindSubscribers, InsertDelivery,
                InsertFails, ReadBatch, MarkHook, Elapse, Crash, Restart, vars, ghosts
  <1> QED BY <1>1, FaithfulInit, FaithfulNext, PTL DEF Spec, NoPostOnceHeard
=============================================================================
