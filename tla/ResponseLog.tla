------------------------------ MODULE ResponseLog ------------------------------
(***************************************************************************)
(* What Open Notificaties records of its deliveries and shows of them in   *)
(* the admin: NotificatieResponse and CloudEventResponse, written by       *)
(* deliver_message and deliver_cloudevent, numbered when a message is      *)
(* published or sent again, and read by the lists of the admin.            *)
(*                                                                         *)
(* The scheduling of the rows is that of Delivery and left out here: any   *)
(* row may be started, a task that died is started again.  A deletion is a *)
(* transaction of several statements that others come between.  Messages   *)
(* that are not stored (LOG_NOTIFICATIONS_IN_DB is off) have no response:  *)
(* every publication here stores its message, or sends a stored one.       *)
(***************************************************************************)
EXTENDS Integers, FiniteSets

CONSTANTS
    Object,      \* Notificatie and CloudEvent objects
    Sub,         \* subscriptions
    SendCE,      \* those with send_cloudevents at first
    Publication, \* each stores a message and schedules it, or sends it again
    Kind,        \* [Object -> {"notificatie", "cloudevent"}]
    EventId,     \* [Object -> ids]: the "id" of a cloud event, unique only with its source
    MaxRetries,  \* NotificationsConfig.notification_delivery_max_retries
    MaxRows,     \* bound: ScheduledNotification rows
    MaxFaults    \* bound: tasks that die, deletions and switches, together

VARIABLES
    stored,  \* the objects that exist
    subs,    \* the subscriptions that exist
    sendCE,  \* those with Abonnement.send_cloudevents
    pub,     \* what each publication holds
    rows,    \* ScheduledNotification; DOMAIN rows: those that exist
    task,    \* the send_to_sub task of each row
    log,     \* NotificatieResponse and CloudEventResponse
    doom,    \* the deletion that is under way
    lost,      \* history: attempts per row that were not logged
    switched,  \* history: subscriptions whose send_cloudevents was changed
    faults     \* history: crashes, deletions and switches so far

ghosts == <<lost, switched, faults>>
vars == <<stored, subs, sendCE, pub, rows, task, log, doom, ghosts>>
-----------------------------------------------------------------------------
\* A publication makes at most one row for a subscription.
Row == Publication \X Sub
Attempt == 1..Cardinality(Publication)
\* plain: the arguments of the task are a notification, not a cloud event.
RowRecord == [attempt : Attempt, tries : 0..MaxRetries, plain : BOOLEAN]

\* "refused": an answer outside 2xx; "error": no answer, response_status stays NULL.
Outcome == {"ok", "refused", "error"}
\* nth tells the responses to one row apart; their keys and order do not matter.
Response == [row : Row, nth : 1..MaxRetries + MaxFaults + 1, obj : Object,
             attempt : Attempt, outcome : Outcome]

PubRecord == [obj : Object, to : SUBSET Sub, plain : SUBSET Sub, todo : SUBSET Sub,
              earlier : SUBSET Response, made : SUBSET (Sub \X Attempt), done : BOOLEAN]
NoPub == [to |-> {}, done |-> FALSE]
\* A task keeps the row it read, and whether it has the id of an object to log for;
\* "posted" until its answer is logged.
TaskRecord == [pc : {"posted", "logged"}, read : RowRecord, logs : BOOLEAN,
               outcome : Outcome, raised : BOOLEAN]
NoTask == [pc |-> "none"]
DoomRecord == [target : Object \cup Sub, responses : SUBSET Response, rows : SUBSET Row,
               pc : {"responses", "rows"}]
NoDoom == [pc |-> "none", rows |-> {}]

ASSUME ResponseLogAssumption ==
    /\ Object \cap Sub = {} /\ SendCE \subseteq Sub
    /\ Kind \in [Object -> {"notificatie", "cloudevent"}]
    /\ MaxRetries \in Nat /\ MaxRows \in Nat /\ MaxFaults \in Nat
    /\ IsFiniteSet(Publication)

ObjOf(r) == pub[r[1]].obj

TypeOK ==
    /\ stored \subseteq Object /\ subs \subseteq Sub /\ sendCE \subseteq subs
    /\ pub \in [Publication -> PubRecord \cup {NoPub}]
    /\ DOMAIN rows \subseteq Row /\ rows \in [DOMAIN rows -> RowRecord]
    /\ \A r \in DOMAIN rows : ObjOf(r) \in stored /\ r[2] \in subs
    /\ task \in [Row -> TaskRecord \cup {NoTask}]
    /\ log \subseteq Response
    /\ \A e \in log : e.obj \in stored /\ e.row[2] \in subs
    /\ doom \in DoomRecord \cup {NoDoom}
    /\ lost \in [Row -> Nat] /\ switched \subseteq Sub /\ faults \in 0..MaxFaults

Init ==
    /\ stored = {} /\ subs = Sub /\ sendCE = SendCE
    /\ pub = [p \in Publication |-> NoPub]
    /\ rows = [r \in {} |-> 0] /\ task = [r \in Row |-> NoTask]
    /\ log = {} /\ doom = NoDoom
    /\ lost = [r \in Row |-> 0] /\ switched = {} /\ faults = 0

MaxOf(S) == CHOOSE n \in S : \A m \in S : m <= n
Of(o) == {e \in log : e.obj = o}
-----------------------------------------------------------------------------
(* Publishing: MessageSerializer.create, CloudEventSerializer.create and     *)
(* update.                                                                   *)

LastAttempt(o) == MaxOf({0} \cup {e.attempt : e \in Of(o)})

Published(o) == \E p \in Publication : pub[p] # NoPub /\ pub[p].obj = o
RowsMade == UNION {{p} \X pub[p].to : p \in Publication}

\* _get_subs: whichever subscriptions match by now; an event is only for those with
\* send_cloudevents, a notification is made an event for these.
Start(p, o, S) ==
    /\ pub[p] = NoPub /\ S \subseteq subs /\ (Kind[o] = "cloudevent" => S \subseteq sendCE)
    /\ Cardinality(RowsMade) + Cardinality(S) <= MaxRows
    /\ pub' = [pub EXCEPT ![p] = [obj |-> o, to |-> S, plain |-> S \ sendCE, todo |-> S,
                                  made |-> {}, earlier |-> Of(o), done |-> FALSE]]
    /\ UNCHANGED <<subs, sendCE, rows, task, log, doom, ghosts>>

\* The API or the form of the admin stores a message, whose save_model sends it.
Store(p, o, S) == ~Published(o) /\ stored' = stored \cup {o} /\ Start(p, o, S)

\* resend_notifications, resend_cloudevents, and the form of an old message.
Resend(p, o, S) == o \in stored /\ UNCHANGED stored /\ Start(p, o, S)

Busy(p) == pub[p] # NoPub /\ ~pub[p].done

NextAttempt_Same(o) == IF LastAttempt(o) = 0 THEN 1 ELSE LastAttempt(o)  \* mutant
NextAttempt(o) == LastAttempt(o) + 1

\* The list comprehension of _schedule_notification asks for the last attempt
\* once per subscription.
Number(p, s) ==
    /\ Busy(p) /\ s \in pub[p].todo
    /\ pub' = [pub EXCEPT ![p].todo = @ \ {s},
                          ![p].made = @ \cup {<<s, NextAttempt(pub[p].obj)>>}]
    /\ UNCHANGED <<stored, subs, sendCE, rows, task, log, doom, ghosts>>

\* bulk_create: all rows or, when a foreign key fails, none.
Schedule(p) ==
    /\ Busy(p) /\ pub[p].todo = {}
    /\ pub' = [pub EXCEPT ![p] = [@ EXCEPT !.done = TRUE, !.made = {}]]
    /\ rows' = IF pub[p].obj \in stored /\ pub[p].to \subseteq subs
                 THEN [r \in DOMAIN rows \cup {<<p, m[1]>> : m \in pub[p].made} |->
                         IF r \in DOMAIN rows THEN rows[r]
                         ELSE [attempt |-> CHOOSE n \in Attempt : <<r[2], n>> \in pub[p].made,
                               tries |-> 0, plain |-> r[2] \in pub[p].plain]]
                 ELSE rows
    /\ UNCHANGED <<stored, subs, sendCE, task, log, doom, ghosts>>
-----------------------------------------------------------------------------
(* Delivering: send_to_sub with deliver_message or deliver_cloudevent.       *)

\* The task loads the row and its subscription, and POSTs; _get_task_kwargs passes the
\* attempt number and the ids.  send_cloudevents decides what is called: deliver_message
\* knows no cloud event to log for, and the row of a notification lacks the attributes of
\* an event, which raises KeyError before anything is sent.
Post(r, outcome) ==
    /\ r \in DOMAIN rows /\ task[r] = NoTask
    /\ rows[r].plain => r[2] \notin sendCE
    /\ task' = [task EXCEPT ![r] =
                   [pc |-> "posted", read |-> rows[r],
                    logs |-> Kind[ObjOf(r)] = "cloudevent" => r[2] \in sendCE,
                    outcome |-> outcome, raised |-> FALSE]]
    /\ UNCHANGED <<stored, subs, sendCE, pub, rows, log, doom, ghosts>>

\* A Notificatie is logged by primary key, a CloudEvent looked up by its id.
Parents(o) ==
    IF Kind[o] = "notificatie"
      THEN {o} \cap stored
      ELSE {c \in stored : Kind[c] = "cloudevent" /\ EventId[c] = EventId[o]}

Attempts(r) == {e \in log : e.row = r}
Logged(r, o) == [row |-> r, nth |-> Cardinality(Attempts(r)) + 1, obj |-> o,
                 attempt |-> task[r].read.attempt, outcome |-> task[r].outcome]

LogAnswer_OnFailure(r) ==        \* mutant: logged in the except clause
    /\ task[r].pc = "posted"
    /\ log' = IF task[r].outcome # "ok" /\ ObjOf(r) \in stored /\ r[2] \in subs
                THEN log \cup {Logged(r, ObjOf(r))} ELSE log
    /\ task' = [task EXCEPT ![r] = [@ EXCEPT !.pc = "logged"]]
    /\ UNCHANGED <<stored, subs, sendCE, pub, rows, doom, ghosts>>
\* The finally clause.  It does nothing without an id.  It raises when the message or
\* the subscription is gone, when several events have the id, and when the text of an
\* exception does not fit the 1000 characters of its column.
LogAnswer(r) ==
    LET fits == Cardinality(Parents(ObjOf(r))) = 1 /\ r[2] \in subs
    IN /\ task[r].pc = "posted"
       /\ \/ /\ task[r].logs /\ fits
             /\ \E o \in Parents(ObjOf(r)) : log' = log \cup {Logged(r, o)}
             /\ task' = [task EXCEPT ![r] = [@ EXCEPT !.pc = "logged"]]
             /\ UNCHANGED lost
          \/ /\ ~task[r].logs \/ ~fits \/ task[r].outcome = "error"
             /\ task' = [task EXCEPT ![r] = [@ EXCEPT !.pc = "logged", !.raised = task[r].logs]]
             /\ lost' = [lost EXCEPT ![r] = @ + 1]
             /\ UNCHANGED log
       /\ UNCHANGED <<stored, subs, sendCE, pub, rows, doom, switched, faults>>

Delivered(r) == task[r].outcome = "ok" /\ ~task[r].raised

\* The row is deleted or goes back, waiting for a deletion that has locked it;
\* save(update_fields) of a row that is gone raises and changes nothing.
Settle(r) ==
    LET tries == task[r].read.tries + 1 IN
    /\ task[r].pc = "logged" /\ r \notin doom.rows
    /\ rows' = IF Delivered(r) \/ tries > MaxRetries
                 THEN [q \in DOMAIN rows \ {r} |-> rows[q]]
                 ELSE [q \in DOMAIN rows |-> IF q = r THEN [rows[q] EXCEPT !.tries = tries]
                                             ELSE rows[q]]
    /\ task' = [task EXCEPT ![r] = NoTask]
    /\ UNCHANGED <<stored, subs, sendCE, pub, log, doom, ghosts>>

\* The worker dies; the row is started again as stuck.
Crash(r) ==
    /\ task[r] # NoTask /\ faults < MaxFaults
    /\ faults' = faults + 1
    /\ lost' = [lost EXCEPT ![r] = IF task[r].pc = "posted" THEN @ + 1 ELSE @]
    /\ task' = [task EXCEPT ![r] = NoTask]
    /\ UNCHANGED <<stored, subs, sendCE, pub, rows, log, doom, switched>>

\* A subscription is updated.
Switch(s) ==
    /\ s \in subs /\ faults < MaxFaults /\ faults' = faults + 1
    /\ sendCE' = IF s \in sendCE THEN sendCE \ {s} ELSE sendCE \cup {s}
    /\ switched' = switched \cup {s}
    /\ UNCHANGED <<stored, subs, pub, rows, task, log, doom, lost>>
-----------------------------------------------------------------------------
(* Deleting a message (admin, clean_old_notifications) or a subscription     *)
(* (API, admin): Django deletes the responses, then the rows, then the       *)
(* object, in one transaction.                                               *)

OfTarget(r, o, t) == o = t \/ r[2] = t
Responses(t) == {e \in log : OfTarget(e.row, e.obj, t)}
Rows(t) == {r \in DOMAIN rows : OfTarget(r, ObjOf(r), t)}

DeleteResponses(t) ==
    /\ doom = NoDoom /\ t \in stored \cup subs
    /\ faults < MaxFaults /\ faults' = faults + 1
    /\ doom' = [target |-> t, responses |-> Responses(t), rows |-> {}, pc |-> "responses"]
    /\ UNCHANGED <<stored, subs, sendCE, pub, rows, task, log, lost, switched>>

DeleteRows ==
    /\ doom.pc = "responses"
    /\ doom' = [doom EXCEPT !.rows = Rows(doom.target), !.pc = "rows"]
    /\ UNCHANGED <<stored, subs, sendCE, pub, rows, task, log, ghosts>>

Gone(t) ==
    /\ stored' = stored \ {t} /\ subs' = subs \ {t} /\ sendCE' = sendCE \ {t}
    /\ log' = log \ doom.responses
    /\ rows' = [r \in DOMAIN rows \ doom.rows |-> rows[r]]

DeleteObject_Unchecked ==        \* mutant: without the foreign key constraints
    /\ doom.pc = "rows"
    /\ Gone(doom.target) /\ doom' = NoDoom
    /\ UNCHANGED <<pub, task, ghosts>>
\* The foreign keys are checked at the end: what was added meanwhile makes the
\* deletion fail, and it is rolled back.
DeleteObject ==
    /\ doom.pc = "rows"
    /\ IF Responses(doom.target) \subseteq doom.responses /\ Rows(doom.target) \subseteq doom.rows
         THEN Gone(doom.target)
         ELSE UNCHANGED <<stored, subs, sendCE, rows, log>>
    /\ doom' = NoDoom
    /\ UNCHANGED <<pub, task, ghosts>>
-----------------------------------------------------------------------------
(* Reading: the column and filter "result" of the admin.  A query without an *)
(* order among equals is a set of rows it may return.  Both views are defined *)
(* of every object: what is logged of the two kinds of messages is alike.    *)

OfSub(o, s) == {e \in Of(o) : e.row[2] = s}

Latest_Unordered(o, s) == OfSub(o, s)      \* mutant: order_by("abonnement") only
\* order_by("abonnement", "-attempt").distinct("abonnement")
Latest(o, s) == {e \in OfSub(o, s) : \A f \in OfSub(o, s) : f.attempt <= e.attempt}

\* CloudEventAdmin: what may be shown of one subscription.
EventResults(o, s) == {e.outcome # "refused" : e \in Latest(o, s)}

\* NotificatieAdmin: filter() after distinct() tests every response, and a
\* response_status that is NULL fails no comparison.
HasFailure(o) == \E e \in Of(o) : e.outcome = "refused"

\* ResultFilter
Listed(value) == {o \in stored : HasFailure(o) = (value = "failure")}
-----------------------------------------------------------------------------
Next ==
    \/ \E p \in Publication :
          \/ \E o \in Object, S \in SUBSET Sub : Store(p, o, S) \/ Resend(p, o, S)
          \/ \E s \in Sub : Number(p, s)
          \/ Schedule(p)
    \/ \E r \in Row :
          \/ \E outcome \in Outcome : Post(r, outcome)
          \/ LogAnswer(r) \/ Settle(r) \/ Crash(r)
    \/ \E s \in Sub : Switch(s)
    \/ \E t \in Object \cup Sub : DeleteResponses(t)
    \/ DeleteRows \/ DeleteObject

Spec == Init /\ [][Next]_vars
-----------------------------------------------------------------------------
(* Properties.                                                               *)

\* Sending a message again is told from what went before: its responses have a
\* greater attempt number than every response that was there when it began, whoever
\* resends at the same time and whatever is deleted meanwhile (last_attempt).
AttemptsGrow ==
    \A e, f \in log : e.obj = f.obj /\ e \in pub[f.row[1]].earlier => e.attempt < f.attempt

\* Deliveries of stored messages leave a trace: a row that its task takes from the table
\* was answered with success in the log, or its attempts were all used up, each of them
\* logged or counted among those that are not - whose logging raised, whose worker died,
\* which sent an event as a plain message (the finally clauses).  One success leaves none:
\* that of an event to a subscription that is switched off send_cloudevents while the row
\* waits.  Of a subscription that is never switched everything is traced.
Traced(r) ==
    \/ \E e \in Attempts(r) : e.outcome = "ok"
    \/ Cardinality(Attempts(r)) + lost[r] > MaxRetries
    \/ Delivered(r) /\ Kind[ObjOf(r)] = "cloudevent" /\ r[2] \in switched
SettledAsLogged ==
    [][\A r \in DOMAIN rows \ DOMAIN rows' : task[r] # task'[r] => Traced(r)]_vars

\* The other responses to the object were there when the publication began.
Newest(p, o) ==
    /\ pub[p] # NoPub /\ pub[p].obj = o
    /\ \A e \in Of(o) : e.row[1] # p => e \in pub[p].earlier
AnswersTo(p, o, s) == {e \in OfSub(o, s) : e.row[1] = p}

\* The admin goes by the last time a message was sent, once the subscription has
\* answered that: the result of a cloud event is one of these answers, older ones do not
\* count any more; a message that was only refused is in the list of failures and not
\* in that of successes (get_queryset of both admins, ResultFilter).
NewestDecides ==
    \A o \in stored, p \in Publication, s \in Sub :
       LET outcomes == {e.outcome : e \in AnswersTo(p, o, s)} IN
       Newest(p, o) /\ outcomes # {} =>
          /\ EventResults(o, s) \subseteq {outcome # "refused" : outcome \in outcomes}
          /\ outcomes = {"refused"} => o \in Listed("failure") \ Listed("success")
=============================================================================
