--------------------------- MODULE WebhookDelivery ---------------------------
(***************************************************************************)
(* Outgoing webhooks: enqueue_event writes one row of webhook_deliveries   *)
(* for every subscriber of an event, and every 30 seconds the scheduler    *)
(* runs deliver_pending, which takes the oldest rows that are due, POSTs   *)
(* them one after the other and marks each delivered, failed or due again  *)
(* later.                                                                  *)
(*                                                                         *)
(* Every SQL statement and every POST is a step of its own.  Deliveries    *)
(* are identified by their position in the order of created_at.  Left out: *)
(* payloads and signatures, the columns last_error and last_delivery_at,   *)
(* which are only displayed, and the size check at delivery, which the     *)
(* same check in enqueue_event makes unreachable.                          *)
(***************************************************************************)
EXTENDS Naturals, FiniteSets

CONSTANTS
    NumHooks,        \* webhooks are 1 .. NumHooks, oldest first
    Senders,         \* requests and tasks that enqueue events concurrently
    BatchLimit,      \* the LIMIT 50 of deliver_pending
    MaxDeliveries,   \* bound: deliveries ever inserted
    MaxFaults,       \* bound: failed database calls
    MaxCrashes       \* bound: crashes of the process

ASSUME SizesAssumption ==
    /\ NumHooks \in Nat /\ BatchLimit \in Nat /\ MaxDeliveries \in Nat
    /\ MaxFaults \in Nat /\ MaxCrashes \in Nat

Hooks == 1 .. NumHooks
Ids == 1 .. MaxDeliveries
MaxAttempts == 3

Statuses == {"absent", "pending", "delivered", "failed", "deleted"}
Final == {"delivered", "failed"}
RowType == [hook : Hooks \union {0}, status : Statuses, attempts : 0 .. MaxAttempts,
            due : BOOLEAN]
Stages == {"idle", "post", "mark", "mark_hook"}
Answers == {"none", "accepted", "refused"}
Acceptances == {"no", "unheard", "heard"}

VARIABLES
    hooks,      \* rows of webhooks: enabled or not, or not there yet, or deleted
    rows,       \* rows of webhook_deliveries
    inserted,   \* number of deliveries ever inserted
    sending,    \* what each enqueue_event has still to insert
    stage,      \* where deliver_pending stands
    batch,      \* the rows it has read and not dealt with, ...
    seen,       \* ... with the attempts it has read for them
    answer,     \* how the POST of the first of them went, as send() returned
    up,         \* the process is running
    posts,      \* POSTs sent for a delivery
    accepted,   \* the receiver answered 2xx to one of them, and was heard or not
    faults, crashes

senderVars == <<inserted, sending>>
batchVars == <<stage, batch, seen, answer>>
ghosts == <<posts, accepted>>
boundVars == <<faults, crashes>>
vars == <<hooks, rows, senderVars, batchVars, up, ghosts, boundVars>>

Exists(h) == hooks[h] \in {"on", "off"}
Row(h, s, due) == [hook |-> h, status |-> s, attempts |-> 0, due |-> due]
Status(d) == rows[d].status
Pending == {d \in Ids : Status(d) = "pending"}
There(d) == Status(d) \notin {"absent", "deleted"}
\* Mutant: rows of every status are due.
DueOfAny == {d \in Ids : There(d) /\ rows[d].due}
\* status = 'pending' AND next_attempt_at <= now
Due == {d \in Pending : rows[d].due}
First(S) == {d \in S : \A e \in S : d <= e}
Oldest(S, n) == {d \in S : Cardinality({e \in S : e < d}) < n}

NoFault == UNCHANGED boundVars
Fault == faults < MaxFaults /\ faults' = faults + 1 /\ UNCHANGED crashes

Init ==
    /\ hooks = [h \in Hooks |-> "absent"]
    /\ rows = [d \in Ids |-> Row(0, "absent", FALSE)]
    /\ inserted = 0 /\ sending = [s \in Senders |-> {}]
    /\ stage = "idle" /\ batch = {} /\ seen = [d \in Ids |-> 0] /\ answer = "none"
    /\ up = TRUE
    /\ posts = [d \in Ids |-> 0] /\ accepted = [d \in Ids |-> "no"]
    /\ faults = 0 /\ crashes = 0

-----------------------------------------------------------------------------
(* Owners of webhooks.                                                     *)

CreateWebhook(h) ==
    /\ up /\ h \in First({g \in Hooks : hooks[g] = "absent"})
    /\ \E v \in {"on", "off"} : hooks' = [hooks EXCEPT ![h] = v]
    /\ UNCHANGED <<rows, senderVars, batchVars, up, ghosts>> /\ NoFault

\* update_webhook writes the value asked for, or the one it read before.
UpdateWebhook(h) ==
    /\ up /\ Exists(h)
    /\ \E v \in {"on", "off"} : hooks' = [hooks EXCEPT ![h] = v]
    /\ UNCHANGED <<rows, senderVars, batchVars, up, ghosts>> /\ NoFault

\* Deliveries go with their webhook (ON DELETE CASCADE).
DeleteWebhook(h) ==
    /\ up /\ Exists(h)
    /\ hooks' = [hooks EXCEPT ![h] = "deleted"]
    /\ rows' = [d \in Ids |-> IF There(d) /\ rows[d].hook = h THEN Row(0, "deleted", FALSE)
                                                               ELSE rows[d]]
    /\ UNCHANGED <<senderVars, batchVars, up, ghosts>> /\ NoFault

-----------------------------------------------------------------------------
(* enqueue_event.                                                          *)

\* The subscribers of an event: enabled webhooks that list it (and, for
\* user.registered, belong to an administrator).
FindSubscribers(s) ==
    /\ up /\ sending[s] = {}
    /\ \E S \in SUBSET {h \in Hooks : hooks[h] = "on"} :
        S # {} /\ sending' = [sending EXCEPT ![s] = S]
    /\ UNCHANGED <<hooks, rows, inserted, batchVars, up, ghosts>> /\ NoFault

\* One row for each of them in turn, oldest webhook first.
InsertDelivery(s) ==
    /\ inserted < MaxDeliveries
    /\ \E h \in First(sending[s]) :
        /\ Exists(h)
        /\ sending' = [sending EXCEPT ![s] = @ \ {h}]
        /\ rows' = [rows EXCEPT ![inserted + 1] = Row(h, "pending", TRUE)]
    /\ inserted' = inserted + 1
    /\ UNCHANGED <<hooks, batchVars, up, ghosts>> /\ NoFault

\* The first INSERT that fails, also one for a webhook deleted meanwhile, ends
\* the call; its callers ignore the error.  (At the bound the table is full.)
InsertFails(s) ==
    /\ sending[s] # {}
    /\ sending' = [sending EXCEPT ![s] = {}]
    /\ UNCHANGED <<hooks, rows, inserted, batchVars, up, ghosts>>
    /\ \/ /\ (\E h \in First(sending[s]) : ~Exists(h)) \/ inserted = MaxDeliveries
          /\ NoFault
       \/ Fault

-----------------------------------------------------------------------------
(* deliver_pending, called by one task and never twice at a time.          *)

\* Up to BatchLimit rows that are due, oldest first.  A call that finds none,
\* or whose SELECT fails, changes nothing.
ReadBatch ==
    /\ up /\ stage = "idle"
    /\ batch' = Oldest(Due, BatchLimit)
    /\ seen' = [d \in Ids |-> IF d \in batch' THEN rows[d].attempts ELSE 0]
    /\ stage' = IF batch' = {} THEN "idle" ELSE "post"
    /\ UNCHANGED <<hooks, rows, senderVars, answer, up, ghosts>> /\ NoFault

\* deliver_single_delivery, for a row that may be gone by now.  The receiver
\* accepts it in time; or accepts it, and the answer comes after the timeout of
\* 10 seconds or is lost; or refuses it or is not reached; or the target is not
\* valid any more, and nothing is sent.  All but the first are tried again.
Post(d) ==
    /\ stage = "post" /\ d \in First(batch)
    /\ stage' = "mark"
    /\ \/ /\ answer' = "accepted"
          /\ posts' = [posts EXCEPT ![d] = @ + 1]
          /\ accepted' = [accepted EXCEPT ![d] = "heard"]
       \/ /\ answer' = "refused"
          /\ posts' = [posts EXCEPT ![d] = @ + 1]
          /\ accepted' = [accepted EXCEPT ![d] = IF @ = "no" THEN "unheard" ELSE @]
       \/ /\ answer' = "refused"
          /\ posts' = [posts EXCEPT ![d] = @ + 1]
          /\ UNCHANGED accepted
       \/ /\ answer' = "refused"
          /\ UNCHANGED ghosts
    /\ UNCHANGED <<hooks, rows, senderVars, batch, seen, up>> /\ NoFault

\* Mutant: the attempt is not counted.
MarkUncounted(d, s, due) ==
    rows' = IF There(d)
            THEN [rows EXCEPT ![d].status = s, ![d].due = due] ELSE rows

\* UPDATE webhook_deliveries SET attempts = attempts + 1, ... WHERE id = ?
Mark(d, s, due) ==
    rows' = IF There(d)
            THEN [rows EXCEPT ![d].status = s, ![d].attempts = @ + 1, ![d].due = due]
            ELSE rows

\* Mutants: any answer will do; one attempt more.
AnsweredSomehow(d, a) == stage = "mark" /\ d \in First(batch)
LastAttemptMissed(d) == seen[d] >= MaxAttempts

Answered(d, a) == stage = "mark" /\ d \in First(batch) /\ answer = a
LastAttempt(d) == seen[d] + 1 >= MaxAttempts

\* The call returns Err and leaves the rest of its batch for the next one.
GiveUpBatch ==
    stage' = "idle" /\ batch' = {} /\ seen' = [d \in Ids |-> 0] /\ answer' = "none"

\* An UPDATE that is made, or fails.
MarkStep(d, s, due) ==
    /\ \/ /\ Mark(d, s, due)
          /\ stage' = "mark_hook" /\ UNCHANGED <<batch, seen, answer>> /\ NoFault
       \/ GiveUpBatch /\ UNCHANGED rows /\ Fault
    /\ UNCHANGED <<hooks, senderVars, up, ghosts>>

\* mark_delivery_delivered; mark_delivery_retry, due again after 30 seconds or 5
\* minutes; mark_delivery_failed after the third attempt.
MarkDelivered(d) == Answered(d, "accepted") /\ MarkStep(d, "delivered", FALSE)
MarkRetry(d) ==
    Answered(d, "refused") /\ ~LastAttempt(d) /\ MarkStep(d, "pending", FALSE)
MarkFailed(d) ==
    Answered(d, "refused") /\ LastAttempt(d) /\ MarkStep(d, "failed", rows[d].due)

\* The second UPDATE, of the webhook, and on to the next row.
MarkHook(d) ==
    /\ stage = "mark_hook" /\ d \in First(batch)
    /\ \/ /\ batch' = batch \ {d} /\ seen' = [seen EXCEPT ![d] = 0] /\ answer' = "none"
          /\ stage' = IF batch' = {} THEN "idle" ELSE "post"
          /\ NoFault
       \/ GiveUpBatch /\ Fault
    /\ UNCHANGED <<hooks, rows, senderVars, up, ghosts>>

\* next_attempt_at of a row comes.
Elapse(d) ==
    /\ Status(d) = "pending" /\ ~rows[d].due
    /\ rows' = [rows EXCEPT ![d].due = TRUE]
    /\ UNCHANGED <<hooks, senderVars, batchVars, up, ghosts>> /\ NoFault

-----------------------------------------------------------------------------
Crash ==
    /\ up /\ crashes < MaxCrashes
    /\ up' = FALSE /\ crashes' = crashes + 1
    /\ sending' = [s \in Senders |-> {}]
    /\ GiveUpBatch
    /\ UNCHANGED <<hooks, rows, inserted, ghosts, faults>>

Restart ==
    /\ ~up /\ up' = TRUE
    /\ UNCHANGED <<hooks, rows, senderVars, batchVars, ghosts, boundVars>>

Owners == \E h \in Hooks : CreateWebhook(h) \/ UpdateWebhook(h) \/ DeleteWebhook(h)
Enqueue == \E s \in Senders : FindSubscribers(s) \/ InsertDelivery(s) \/ InsertFails(s)
Deliver ==
    \/ ReadBatch
    \/ \E d \in Ids : \/ Post(d) \/ MarkDelivered(d) \/ MarkRetry(d)
                      \/ MarkFailed(d) \/ MarkHook(d)

Next ==
    \/ Owners \/ Enqueue \/ Deliver
    \/ \E d \in Ids : Elapse(d)
    \/ Crash \/ Restart

Spec == Init /\ [][Next]_vars

\* The scheduler ticks for ever, a POST times out after 10 seconds, time passes
\* and the container is restarted.
FairSpec ==
    /\ Spec
    /\ WF_vars(Deliver) /\ WF_vars(Restart)
    /\ \A d \in Ids : WF_vars(Elapse(d))

-----------------------------------------------------------------------------
(* Properties.                                                             *)

\* Type correctness; a delivery waits only while attempts are left.
TypeOK ==
    /\ hooks \in [Hooks -> {"absent", "on", "off", "deleted"}]
    /\ rows \in [Ids -> RowType]
    /\ \A d \in Ids : Status(d) = "pending" => rows[d].attempts < MaxAttempts
    /\ inserted \in 0 .. MaxDeliveries
    /\ \A d \in Ids : Status(d) = "absent" <=> d > inserted
    /\ sending \in [Senders -> SUBSET Hooks]
    /\ stage \in Stages /\ batch \subseteq Ids /\ answer \in Answers
    /\ seen \in [Ids -> 0 .. MaxAttempts]
    /\ up \in BOOLEAN
    /\ posts \in [Ids -> Nat] /\ accepted \in [Ids -> Acceptances]
    /\ faults \in 0 .. MaxFaults /\ crashes \in 0 .. MaxCrashes

\* What the scheduler has read is still what the table says, except for rows
\* that were deleted: nobody else attempts a delivery, so the limit computed
\* from the copy is the limit of the row.
BatchIsCurrent ==
    \A d \in batch :
        /\ There(d)
        /\ stage # "mark_hook" \/ d \notin First(batch)
        => Status(d) = "pending" /\ rows[d].attempts = seen[d]

\* The status tells what the receivers answered: a delivered row was accepted,
\* and its 2xx was heard, and a failed row had no 2xx that was heard, unless a
\* crash or a failed UPDATE lost it.  (A failed row may have been accepted all
\* the same: each of its answers came too late or never.)
Heard(d) == accepted[d] = "heard"
Lost == faults > 0 \/ crashes > 0
StatusIsHonest ==
    \A d \in Ids :
        /\ Status(d) = "delivered" => Heard(d)
        /\ Status(d) = "failed" /\ Heard(d) => Lost

\* A receiver gets a delivery at most three times, answered late or not at all
\* or refused, and every crash or failed UPDATE costs at most one POST more.
PostsAreCounted ==
    \A d \in Ids : posts[d] <= MaxAttempts + faults + crashes

\* Once a 2xx was heard, the delivery is not POSTed again, unless a crash or a
\* failed UPDATE lost what was heard.
NoPostOnceHeard ==
    [][\A d \in Ids : Heard(d) /\ ~Lost => posts'[d] = posts[d]]_vars

\* A row that is delivered or failed is never taken up again.
FinalIsFinal ==
    [][\A d \in Ids : Status(d) \in Final => Status(d)' \in {Status(d), "deleted"}]_vars

\* Every delivery comes to an end, also those behind a full batch of receivers
\* that never accept anything, and over crashes.
EveryDeliveryEnds == \A d \in Ids : Status(d) = "pending" ~> Status(d) # "pending"
=============================================================================
