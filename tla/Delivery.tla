------------------------------- MODULE Delivery -------------------------------
(***************************************************************************)
(* The delivery engine of Open Notificaties (src/nrc/api/tasks.py).        *)
(*                                                                         *)
(* Publishing a message stores one ScheduledNotification row per matching  *)
(* subscription.  Celery beat keeps starting execute_notifications: it     *)
(* takes a lock in the cache, selects the earliest rows that are due (or   *)
(* stuck), marks them in progress and queues one send_to_sub task per row. *)
(* A worker thread POSTs the message, logs the answer, and deletes the row *)
(* or puts it back with an exponential backoff.  Every database or cache   *)
(* call that another process can come between is a step of its own.        *)
(*                                                                         *)
(* Time is relative: "due" is execute_after minus the current time, in     *)
(* ticks, so that a behaviour can go on for ever in finitely many states.  *)
(***************************************************************************)
EXTENDS Integers, FiniteSets

CONSTANTS
    Msg,          \* the notifications and cloud events a publisher may POST
    Sub,          \* the subscriptions (Abonnement)
    Exec,         \* worker threads that run execute_notifications
    Worker,       \* worker threads that run send_to_sub
    Origin,       \* [Msg -> {"notificatie", "cloudevent"}]
    EventId,      \* the "id" of each message; unique only with its source
    LogInDb,      \* settings.LOG_NOTIFICATIONS_IN_DB
    Limit,        \* settings.NOTIFICATION_LIMIT
    LockTimeout,  \* settings.NOTIFICATION_SEC_INTERVAL - 1, in ticks
    StuckAfter,   \* settings.NOTIFICATION_REQUESTS_TIMEOUT * 10, in ticks
    LeastRetries, \* least and greatest notification_delivery_max_retries
    MostRetries,  \*   an administrator configures
    Factor, Base, BackoffMax,  \* the other three fields of NotificationsConfig
    Operations,   \* what administrators and subscribers do in this instance
    MaxRun,       \* bound: ticks one execute_notifications takes
    MaxTask,      \* bound: ticks between marking a row and the end of its task
    MaxQueue,     \* bound: copies of one row in the task queue
    MaxCrashes    \* bound: crashes and lost broker messages

VARIABLES
    table,      \* the ScheduledNotification rows; DOMAIN table: those that exist
    published,  \* messages POSTed to the API
    stored,     \* messages whose Notificatie or CloudEvent object exists
    subs,       \* subscriptions that exist
    sendCE,     \* Abonnement.send_cloudevents
    maxRetries, \* NotificationsConfig.notification_delivery_max_retries
    lock,       \* ticks left of the key "execute_notifications_lock"; 0: no key
    run,        \* what each execute_notifications thread holds
    queue,      \* send_to_sub messages in the broker, per row
    task,       \* what each send_to_sub thread holds
    confirmed,  \* history: the subscriber answered 2xx for the row
    failures,   \* history: attempts recorded as failed, saturating at FailCap
    crashes     \* history: crashes and lost messages so far

data == <<published, stored, subs, sendCE, maxRetries>>
ghosts == <<confirmed, failures, crashes>>
vars == <<table, data, lock, run, queue, task, ghosts>>
-----------------------------------------------------------------------------
Row == Msg \X Sub
MsgOf(r) == r[1]
SubOf(r) == r[2]

FailCap == MostRetries + 2
\* A row overdue by Floor ticks is not told from one that is overdue longer.
Floor == StuckAfter + MaxRun + BackoffMax

\* celery.utils.time.get_exponential_backoff_interval without jitter
Backoff(n) == IF Factor * Base^n < BackoffMax THEN Factor * Base^n ELSE BackoffMax

ASSUME ConstantsAssumption ==
    /\ Origin \in [Msg -> {"notificatie", "cloudevent"}]
    /\ LogInDb \in BOOLEAN
    /\ Limit \in Nat /\ LockTimeout \in Nat \ {0} /\ StuckAfter \in Nat \ {0}
    /\ LeastRetries \in Nat /\ MostRetries \in Nat /\ LeastRetries <= MostRetries
    /\ BackoffMax \in Nat
    /\ MaxRun \in Nat /\ MaxTask \in Nat /\ MaxQueue \in Nat \ {0} /\ MaxCrashes \in Nat
    /\ IsFiniteSet(Row)

ASSUME BackoffAssumption == \A n \in 0..MostRetries : Backoff(n) \in 0..BackoffMax

RowRecord == [kind : {"notification", "cloudevent"}, inProgress : BOOLEAN,
              due : Int, taskAttempt : 0..MostRetries]
TaskRecord == [pc : {"loaded", "accepted", "rejected"}, row : Row,
               attempt : 0..MostRetries, due : Int, asEvent : BOOLEAN]
RunRecord == [pc : {"idle", "locked", "counted", "selected", "marked", "started"},
              age : 0..MaxRun, cutoff : Int, retries : LeastRetries..MostRetries,
              slots : Nat, ids : SUBSET Row]

NoTask == [pc |-> "idle"]
NoRun == [pc |-> "idle", age |-> 0, cutoff |-> 0, retries |-> LeastRetries,
          slots |-> 0, ids |-> {}]

TypeOK ==
    /\ DOMAIN table \subseteq Row
    /\ table \in [DOMAIN table -> RowRecord]
    /\ published \subseteq Msg /\ stored \subseteq published
    /\ subs \subseteq Sub /\ sendCE \in [Sub -> BOOLEAN]
    /\ maxRetries \in LeastRetries..MostRetries
    /\ lock \in 0..LockTimeout
    /\ run \in [Exec -> RunRecord]
    /\ queue \in [Row -> 0..MaxQueue]
    /\ task \in [Worker -> TaskRecord \cup {NoTask}]
    /\ confirmed \in [Row -> BOOLEAN]
    /\ failures \in [Row -> 0..FailCap]
    /\ crashes \in 0..MaxCrashes

Init ==
    /\ table = [r \in {} |-> [kind |-> "notification"]]
    /\ published = {} /\ stored = {}
    /\ subs = Sub /\ sendCE \in [Sub -> BOOLEAN]
    /\ maxRetries \in LeastRetries..MostRetries
    /\ lock = 0
    /\ run = [e \in Exec |-> NoRun]
    /\ queue = [r \in Row |-> 0]
    /\ task = [w \in Worker |-> NoTask]
    /\ confirmed = [r \in Row |-> FALSE]
    /\ failures = [r \in Row |-> 0]
    /\ crashes = 0
-----------------------------------------------------------------------------
(* The table.                                                              *)

Remove(R) == table' = [r \in DOMAIN table \ R |-> table[r]]

Kind(m, s) ==
    IF Origin[m] = "notificatie" /\ ~sendCE[s] THEN "notification" ELSE "cloudevent"

NewRow(m, s) ==
    [kind |-> Kind(m, s), inProgress |-> FALSE, due |-> 0, taskAttempt |-> 0]

\* The message is logged, and one bulk_create writes a row for each of the
\* subscriptions M.
Publish(m, M) ==
    /\ m \notin published
    /\ published' = published \cup {m}
    /\ stored' = IF LogInDb THEN stored \cup {m} ELSE stored
    /\ table' = [r \in DOMAIN table \cup ({m} \X M) |->
                    IF r \in DOMAIN table THEN table[r] ELSE NewRow(m, SubOf(r))]
    /\ UNCHANGED <<subs, sendCE, maxRetries, lock, run, queue, task, ghosts>>

\* POST /notificaties: for the subscriptions whose filters match, any of them
\* here.
ScheduleNotification(m) ==
    /\ Origin[m] = "notificatie"
    /\ \E M \in SUBSET subs : Publish(m, M)

\* POST /cloudevents: only subscriptions with send_cloudevents are looked at.
ScheduleCloudEvent(m) ==
    /\ Origin[m] = "cloudevent"
    /\ \E M \in SUBSET {s \in subs : sendCE[s]} : Publish(m, M)

\* clean_old_notifications, or an administrator, deletes a Notificatie or a
\* CloudEvent; the database deletes the rows that refer to it.
DeleteParent(m) ==
    /\ "deleteParent" \in Operations
    /\ m \in stored
    /\ stored' = stored \ {m}
    /\ Remove({m} \X Sub)
    /\ UNCHANGED <<published, subs, sendCE, maxRetries, lock, run, queue, task, ghosts>>

\* DELETE /abonnement/{uuid}: the rows of the subscription go with it.
DeleteSub(s) ==
    /\ "deleteSub" \in Operations
    /\ s \in subs
    /\ subs' = subs \ {s}
    /\ Remove(Msg \X {s})
    /\ UNCHANGED <<published, stored, sendCE, maxRetries, lock, run, queue, task, ghosts>>

\* PUT or PATCH /abonnement/{uuid} changes send_cloudevents.
UpdateSub(s) ==
    /\ "updateSub" \in Operations
    /\ s \in subs
    /\ sendCE' = [sendCE EXCEPT ![s] = ~@]
    /\ UNCHANGED <<table, published, stored, subs, maxRetries, lock, run, queue, task, ghosts>>

\* An administrator changes notification_delivery_max_retries.
Configure(n) ==
    /\ "configure" \in Operations
    /\ maxRetries' = n
    /\ UNCHANGED <<table, published, stored, subs, sendCE, lock, run, queue, task, ghosts>>
-----------------------------------------------------------------------------
(* execute_notifications.                                                  *)

Running(e) == run[e].pc # "idle"

LockIsFree_CacheSet == TRUE            \* mutant: cache.set instead of cache.add
LockIsFree == lock = 0

\* cache.add succeeds only when the key is absent or expired.  A task that
\* does not get the lock returns and changes nothing.
AcquireLock(e) ==
    /\ run[e].pc = "idle"
    /\ LockIsFree
    /\ lock' = LockTimeout
    /\ run' = [run EXCEPT ![e] = [NoRun EXCEPT !.pc = "locked"]]
    /\ UNCHANGED <<table, data, queue, task, ghosts>>

Stuck_Never(row, cutoff) == FALSE       \* mutant: no second query for stuck rows

Stuck(row, cutoff) == row.inProgress /\ row.due <= cutoff
Waiting(row) == ~row.inProgress /\ row.due <= 0
InProgress(cutoff) == {r \in DOMAIN table : table[r].inProgress /\ table[r].due > cutoff}

FreeSlots_OneRun(cutoff) == Limit       \* mutant: the limit of each run alone
FreeSlots(cutoff) ==
    LET n == Cardinality(InProgress(cutoff)) IN IF n < Limit THEN Limit - n ELSE 0

\* The configuration is read, the cutoff taken and the rows counted.
CountInProgress(e) ==
    /\ run[e].pc = "locked"
    /\ run' = [run EXCEPT ![e] = [@ EXCEPT !.pc = "counted",
                                            !.retries = maxRetries,
                                            !.cutoff = -StuckAfter,
                                            !.slots = FreeSlots(-StuckAfter)]]
    /\ UNCHANGED <<table, data, lock, queue, task, ghosts>>

Selectable(cutoff) ==
    {r \in DOMAIN table : Waiting(table[r]) \/ Stuck(table[r], cutoff)}

\* The first n rows in the order of execute_after; ties are broken by attempt
\* and then by nothing at all, here: in any way.
Earliest(S, n) ==
    {R \in SUBSET S :
        /\ Cardinality(R) <= n
        /\ R # S => Cardinality(R) = n
        /\ \A r \in R, q \in S \ R : table[r].due <= table[q].due}

SelectIds(e) ==
    /\ run[e].pc = "counted"
    /\ \E R \in Earliest(Selectable(run[e].cutoff), run[e].slots) :
          run' = [run EXCEPT ![e] = [@ EXCEPT !.pc = "selected", !.ids = R]]
    /\ UNCHANGED <<table, data, lock, queue, task, ghosts>>

Marked_TimeKept(row) == [row EXCEPT !.inProgress = TRUE]          \* mutant
Marked_Counted(row) == [row EXCEPT !.inProgress = TRUE, !.due = 0,
                                   !.taskAttempt = @ + 1]         \* mutant
Marked(row) == [kind |-> row.kind, inProgress |-> TRUE, due |-> 0,
                taskAttempt |-> row.taskAttempt]

\* The UPDATE goes by id: it does not ask again whether the row is selectable.
MarkInProgress(e) ==
    /\ run[e].pc = "selected"
    /\ table' = [r \in DOMAIN table |->
                    IF r \in run[e].ids THEN Marked(table[r]) ELSE table[r]]
    /\ run' = [run EXCEPT ![e].pc = "marked"]
    /\ UNCHANGED <<data, lock, queue, task, ghosts>>

Exhausted_Early(attempt, retries) == attempt >= retries               \* mutant
Exhausted(attempt, retries) == attempt > retries

GivenUp_Next(e) == {r \in run[e].ids \cap DOMAIN table :
                       Exhausted(table[r].taskAttempt + 1, run[e].retries)}  \* mutant
GivenUp(e) == {r \in run[e].ids \cap DOMAIN table :
                  Exhausted(table[r].taskAttempt, run[e].retries)}

Enqueue(R) ==
    /\ \A r \in R : queue[r] < MaxQueue
    /\ queue' = [r \in Row |-> IF r \in R THEN queue[r] + 1 ELSE queue[r]]

\* The marked rows that still exist are read back: those out of attempts (the
\* limit was lowered) are deleted, a task is queued for each of the others.
StartTasks(e) ==
    /\ run[e].pc = "marked"
    /\ Remove(GivenUp(e))
    /\ Enqueue((run[e].ids \cap DOMAIN table) \ GivenUp(e))
    /\ run' = [run EXCEPT ![e] = [@ EXCEPT !.pc = "started", !.ids = {}]]
    /\ UNCHANGED <<data, lock, task, ghosts>>

\* cache.delete removes the key whoever holds it by now.
ReleaseLock(e) ==
    /\ run[e].pc = "started"
    /\ lock' = 0
    /\ run' = [run EXCEPT ![e] = NoRun]
    /\ UNCHANGED <<table, data, queue, task, ghosts>>

\* The thread dies, or a call in it raises: the key stays until it expires.
\* Half-way through the loop or the publishing of the group, part of the rows
\* has been given up and part of the tasks is queued.
RunCrash(e) ==
    /\ Running(e)
    /\ crashes < MaxCrashes
    /\ crashes' = crashes + 1
    /\ run' = [run EXCEPT ![e] = NoRun]
    /\ IF run[e].pc = "marked"
         THEN \E R \in SUBSET (run[e].ids \cap DOMAIN table) :
                 Remove(R \cap GivenUp(e)) /\ Enqueue(R \ GivenUp(e))
         ELSE UNCHANGED <<table, queue>>
    /\ UNCHANGED <<data, lock, task, confirmed, failures>>
-----------------------------------------------------------------------------
(* send_to_sub.                                                            *)

Take(w, r) ==
    /\ task[w] = NoTask
    /\ queue[r] > 0
    /\ queue' = [queue EXCEPT ![r] = @ - 1]

\* A notification row has no key "id": reading it for a subscription that by
\* now wants cloud events raises KeyError before the try statement.
Readable(r) == table[r].kind = "notification" => ~sendCE[SubOf(r)]

\* The row is gone, or the task dies on it: the message is consumed (it was
\* acknowledged when it was taken) and nothing else changes.
TaskAborts(w, r) ==
    /\ Take(w, r)
    /\ r \in DOMAIN table => ~Readable(r)
    /\ UNCHANGED <<table, data, lock, run, task, ghosts>>

\* The row and its subscription are read; the task keeps what it read.
StartTask(w, r) ==
    /\ Take(w, r)
    /\ r \in DOMAIN table /\ Readable(r)
    /\ task' = [task EXCEPT ![w] =
                   [pc |-> "loaded", row |-> r, attempt |-> table[r].taskAttempt,
                    due |-> table[r].due, asEvent |-> sendCE[SubOf(r)]]]
    /\ UNCHANGED <<table, data, lock, run, ghosts>>

\* The POST to callback_url is answered: with 2xx, or in any other way, no answer
\* included.
Answer(w) ==
    /\ task[w].pc = "loaded"
    /\ \/ /\ task' = [task EXCEPT ![w].pc = "accepted"]
          /\ confirmed' = [confirmed EXCEPT ![task[w].row] = TRUE]
       \/ /\ task' = [task EXCEPT ![w].pc = "rejected"]
          /\ UNCHANGED confirmed
    /\ UNCHANGED <<table, data, lock, run, queue, failures, crashes>>

DeliverMessage(w) == Answer(w) /\ ~task[w].asEvent
DeliverCloudEvent(w) == Answer(w) /\ task[w].asEvent

\* The finally clauses log the answer when the message was stored; that raises
\* when the logged object or the subscription has been deleted since.
LogRaises(t) == MsgOf(t.row) \notin stored \/ SubOf(t.row) \notin subs

\* deliver_message logs notifications only: a cloud event goes unlogged.
MessageLogRaises(t) ==
    LogInDb /\ Origin[MsgOf(t.row)] = "notificatie" /\ LogRaises(t)

\* CloudEvent.objects.get(id=...) finds several: events of different sources
\* may share an id.
Ambiguous(m) ==
    /\ Origin[m] = "cloudevent"
    /\ \E n \in stored \ {m} : Origin[n] = "cloudevent" /\ EventId[n] = EventId[m]

CloudEventLogRaises(t) == LogInDb /\ (LogRaises(t) \/ Ambiguous(MsgOf(t.row)))

RecordRaises(t) == IF t.asEvent THEN CloudEventLogRaises(t) ELSE MessageLogRaises(t)

\* Delivered and logged: the row is deleted, if it still exists.
Succeed(w) ==
    /\ task[w].pc = "accepted" /\ ~RecordRaises(task[w])
    /\ Remove({task[w].row})
    /\ task' = [task EXCEPT ![w] = NoTask]
    /\ UNCHANGED <<data, lock, run, queue, ghosts>>

\* What _fail_scheduled_notification saves of the object the task has held
\* since it started, over whatever the row holds by now.
Retried_Uncounted(row, t) ==                                          \* mutant
    [row EXCEPT !.inProgress = FALSE, !.due = t.due + Backoff(t.attempt)]
Retried_Twice(row, t) ==                                              \* mutant
    [row EXCEPT !.inProgress = FALSE, !.due = t.due + Backoff(t.attempt),
                !.taskAttempt = t.attempt + 2]
Retried(row, t) ==
    [row EXCEPT !.inProgress = FALSE, !.due = t.due + Backoff(t.attempt),
                !.taskAttempt = t.attempt + 1]

\* Not delivered, or not logged.  Saving a row that is gone raises and changes
\* nothing; deleting it changes nothing.
Fail(w) ==
    LET t == task[w]  r == t.row IN
    /\ \/ t.pc = "rejected"
       \/ t.pc = "accepted" /\ RecordRaises(t)
    /\ failures' = [failures EXCEPT ![r] = IF @ < FailCap THEN @ + 1 ELSE @]
    /\ \/ /\ Exhausted(t.attempt + 1, maxRetries)
          /\ Remove({r})
       \/ /\ ~Exhausted(t.attempt + 1, maxRetries)
          /\ table' = [q \in DOMAIN table |->
                          IF q = r THEN Retried(table[r], t) ELSE table[q]]
    /\ task' = [task EXCEPT ![w] = NoTask]
    /\ UNCHANGED <<data, lock, run, queue, confirmed, crashes>>

\* The worker is killed; its message was acknowledged and does not come back.
TaskCrash(w) ==
    /\ task[w] # NoTask
    /\ crashes < MaxCrashes
    /\ crashes' = crashes + 1
    /\ task' = [task EXCEPT ![w] = NoTask]
    /\ UNCHANGED <<table, data, lock, run, queue, confirmed, failures>>

\* The broker restarts without a message it held.
LoseMessage(r) ==
    /\ queue[r] > 0
    /\ crashes < MaxCrashes
    /\ crashes' = crashes + 1
    /\ queue' = [queue EXCEPT ![r] = @ - 1]
    /\ UNCHANGED <<table, data, lock, run, task, confirmed, failures>>
-----------------------------------------------------------------------------
(* Time.                                                                   *)

Older(d) == IF d > -Floor THEN d - 1 ELSE d

Holds(w, r) == task[w] # NoTask /\ task[w].row = r
Outstanding(r) == queue[r] > 0 \/ \E w \in Worker : Holds(w, r)

Aged(rec) == [rec EXCEPT !.age = @ + 1,
                         !.cutoff = IF rec.pc = "locked" THEN @ ELSE @ - 1]

\* One tick passes.  MaxRun and MaxTask bound how long a run and a task take:
\* an instance whose bounds lie below LockTimeout and StuckAfter describes a
\* deployment that keeps up, any other one a deployment that does not.
Tick ==
    /\ \A e \in Exec : Running(e) => run[e].age < MaxRun
    /\ \A r \in DOMAIN table : Outstanding(r) => table[r].due > -MaxTask
    /\ lock' = IF lock > 0 THEN lock - 1 ELSE 0
    /\ table' = [r \in DOMAIN table |-> [table[r] EXCEPT !.due = Older(@)]]
    /\ task' = [w \in Worker |-> IF task[w] = NoTask THEN NoTask
                                 ELSE [task[w] EXCEPT !.due = Older(@)]]
    /\ run' = [e \in Exec |-> IF ~Running(e) THEN run[e] ELSE Aged(run[e])]
    /\ UNCHANGED <<data, queue, ghosts>>
-----------------------------------------------------------------------------
RunStep(e) ==
    \/ CountInProgress(e) \/ SelectIds(e) \/ MarkInProgress(e)
    \/ StartTasks(e) \/ ReleaseLock(e)

TakeTask(w, r) == TaskAborts(w, r) \/ StartTask(w, r)
TaskStep(w) == DeliverMessage(w) \/ DeliverCloudEvent(w) \/ Succeed(w) \/ Fail(w)

Breakdown ==
    \/ \E e \in Exec : RunCrash(e)
    \/ \E w \in Worker : TaskCrash(w)
    \/ \E r \in Row : LoseMessage(r)

Environment ==
    \/ \E m \in Msg : ScheduleNotification(m) \/ ScheduleCloudEvent(m)
    \/ \E m \in Msg : DeleteParent(m)
    \/ \E s \in Sub : DeleteSub(s) \/ UpdateSub(s)
    \/ \E n \in LeastRetries..MostRetries : Configure(n)

Next ==
    \/ \E e \in Exec : AcquireLock(e) \/ RunStep(e)
    \/ \E w \in Worker : TaskStep(w) \/ \E r \in Row : TakeTask(w, r)
    \/ Breakdown
    \/ Environment
    \/ Tick

Spec == Init /\ [][Next]_vars

\* Beat keeps asking for runs, threads that hold work go on with it, the broker
\* hands out its messages in order, so that none waits for ever, and time
\* passes.  Nothing forces a publisher, an administrator or a crash.
Fairness ==
    /\ WF_vars(\E e \in Exec : AcquireLock(e))
    /\ \A e \in Exec : WF_vars(RunStep(e))
    /\ \A w \in Worker : WF_vars(TaskStep(w))
    /\ \A r \in Row : SF_vars(\E w \in Worker : TakeTask(w, r))
    /\ WF_vars(Tick)

FairSpec == Spec /\ Fairness
-----------------------------------------------------------------------------
(* Properties.                                                             *)

\* The counters tell what happened: every attempt a row counts, or a task has
\* read, really failed, and a task goes to delete its row only after a 2xx.
\* Neither a stale write nor a restart ever counts an attempt that was not made
\* (lines 288-307, 384-388).
HistoryAgrees ==
    /\ \A r \in DOMAIN table : table[r].taskAttempt <= failures[r]
    /\ \A w \in Worker : task[w] # NoTask =>
          /\ task[w].attempt <= failures[task[w].row]
          /\ task[w].pc = "accepted" => confirmed[task[w].row]

\* The subscription of a row, or its logged message, was deleted.
Gone == {r \in Row : \/ SubOf(r) \notin subs
                     \/ LogInDb /\ MsgOf(r) \in published \ stored}

\* A row leaves the table only when its subscriber confirmed the message, when
\* more attempts failed than the retry limit allows, or when the subscription
\* or the logged message was deleted: crashes, overlapping runs, stale tasks
\* and lost messages delay a message but never lose it.
NoSilentLoss ==
    [][\A r \in DOMAIN table \ DOMAIN table' :
          confirmed[r] \/ failures'[r] > LeastRetries \/ r \in Gone']_vars

\* While the deployment keeps up no row has two tasks, queued or running, and a
\* row that has one is marked in progress (or gone): the lock, the mark and the
\* stuck cutoff together keep a subscriber from concurrent deliveries.
Tasks(r) == queue[r] + Cardinality({w \in Worker : Holds(w, r)})
OneTaskPerRow ==
    \A r \in Row : /\ Tasks(r) <= 1
                   /\ r \in DOMAIN table /\ Outstanding(r) => table[r].inProgress

\* Two runs never overlap while a run ends before its lock expires, and a run
\* that goes on still holds its lock.
RunsExclusive ==
    /\ \A e, f \in Exec : Running(e) /\ Running(f) => e = f
    /\ \A e \in Exec : Running(e) => lock > 0

\* NOTIFICATION_LIMIT bounds the rows in progress that are not stuck, over all
\* runs together, although each run counts before it selects and marks.
LimitRespected == Cardinality(InProgress(-StuckAfter)) <= Limit

\* "The maximum number of retries the task queue will do": a row is tried once
\* and retried at most maxRetries times (docs/delivery_guarantees.rst).
RetryBound == \A r \in Row : failures[r] <= maxRetries + 1

\* "Whenever a delivery attempt succeeds, no more delivery attempts are made"
\* (docs/delivery_guarantees.rst), unless something broke down in between.
NoRedelivery ==
    [][\A w \in Worker :
          task[w].pc = "loaded" /\ task'[w].pc \in {"accepted", "rejected"}
             => ~confirmed[task[w].row] \/ crashes > 0]_vars

\* Every row is settled: delivered, given up, or deleted with its subscription
\* or message.  It does not stay in the table for ever.
EveryRowSettles == \A r \in Row : r \in DOMAIN table ~> r \notin DOMAIN table
=============================================================================
