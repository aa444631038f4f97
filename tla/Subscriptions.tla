----------------------------- MODULE Subscriptions -----------------------------
(***************************************************************************)
(* The subscription and channel endpoints of Open Notificaties: what       *)
(* concurrent POST, PUT, PATCH and DELETE requests on /abonnement do to an *)
(* Abonnement row and its filter groups while channels (/kanaal) come, go  *)
(* and change.  A request reads its instance, probes the callback, checks  *)
(* the channels and then writes in one READ COMMITTED transaction; every   *)
(* statement another request can come between is a step of its own.        *)
(*                                                                         *)
(* The value of a column is abstracted to the request that wrote it.       *)
(***************************************************************************)
EXTENDS FiniteSets

CONSTANTS
    Request,    \* API requests; each is made once
    Initial,    \* the author of what was there before
    Sub,        \* primary keys of subscriptions
    Field,      \* columns of Abonnement that a request may set
    Naam,       \* channel names
    Key,        \* names of filter attributes
    Channels,   \* [Naam -> SUBSET Key]: the channels there are at first
    Existing,   \* the subscriptions there are at first
    Bodies,     \* the requests made: a set of records, see BodyRecord
    ChannelOps  \* subset of {"create", "update", "delete"}

VARIABLES
    kanaal,     \* the Kanaal rows: filters by naam
    abonnement, \* the Abonnement rows: per column, the request it is from
    groups,     \* FilterGroup and CloudEventFilterGroup rows per subscription
    req,        \* the requests
    deleted,    \* history: subscriptions whose DELETE was answered with 204, with the
                \*   requests that had read them by then
    changed     \* history: channels that were created or updated since

vars == <<kanaal, abonnement, groups, req, deleted, changed>>
-----------------------------------------------------------------------------
Author == Request \cup {Initial}
Column == [Field -> Author]

\* A group names a channel, or a substring of cloud event types (kanaal = NoKanaal).
NoKanaal == "cloudevent"
Content == [kanaal : Naam \cup {NoKanaal}, keys : SUBSET Key]
Group == [by : Author, kanaal : Naam \cup {NoKanaal}, keys : SUBSET Key]

\* fields: the columns in the body; filters: the groups in "kanalen" and
\* "cloudevent_filters", none when the body leaves both out.
BodyRecord == [method : {"POST", "PUT", "PATCH", "DELETE"}, sub : Sub,
               fields : SUBSET Field, filters : SUBSET Content]

Pending == {"received", "fetched", "probed", "valid"}
InUpdate == {"saved", "read", "cleared"}     \* PUT, PATCH: row saved, groups read, deleted
InDelete == {"collected", "dropped"}         \* DELETE: groups read, deleted
ReqRecord == [pc : Pending \cup InUpdate \cup InDelete \cup {"inserting", "done"},
              body : BodyRecord, instance : Column \cup {<<>>},
              seen : SUBSET Group, dropped : SUBSET Group,
              answer : {0, 200, 201, 204, 400, 404, 500}]
NoRequest == [pc |-> "idle"]

ASSUME SubscriptionAssumption ==
    /\ Initial \notin Request /\ NoKanaal \notin Naam
    /\ Channels \in [Naam -> SUBSET Key] /\ Existing \subseteq Sub
    /\ Bodies \subseteq BodyRecord

TypeOK ==
    /\ DOMAIN kanaal \subseteq Naam /\ kanaal \in [DOMAIN kanaal -> SUBSET Key]
    /\ DOMAIN abonnement \subseteq Sub /\ abonnement \in [DOMAIN abonnement -> Column]
    /\ groups \in [Sub -> SUBSET Group]
    /\ \A s \in Sub \ DOMAIN abonnement : groups[s] = {}
    /\ req \in [Request -> ReqRecord \cup {NoRequest}]
    /\ deleted \subseteq [sub : Sub, readers : SUBSET Request] /\ changed \subseteq Naam

Made(q) == req[q] # NoRequest
Target(q) == req[q].body.sub

Init ==
    /\ kanaal = Channels
    /\ abonnement = [s \in Existing |-> [f \in Field |-> Initial]]
    /\ groups \in [Sub -> SUBSET {[by |-> Initial, kanaal |-> n, keys |-> {}] : n \in Naam}]
    /\ \A s \in Sub \ Existing : groups[s] = {}
    /\ req = [q \in Request |-> NoRequest]
    /\ deleted = {} /\ changed = {}
-----------------------------------------------------------------------------
(* Reading and validating.                                                 *)

Goto(q, pc) == req' = [req EXCEPT ![q] = [@ EXCEPT !.pc = pc]]
\* Answering ends the request, its transaction and the locks that it holds.
Finish(q, code) ==
    req' = [req EXCEPT ![q] = [@ EXCEPT !.pc = "done", !.instance = <<>>, !.seen = {},
                                        !.dropped = {}, !.answer = code]]
Refuse(q, code) == Finish(q, code) /\ UNCHANGED <<kanaal, abonnement, groups, deleted, changed>>

Receive(q, b) ==
    /\ ~Made(q)
    /\ b.method = "POST" => /\ b.sub \notin DOMAIN abonnement
                            /\ \A p \in Request : Made(p) => Target(p) # b.sub
    /\ req' = [req EXCEPT ![q] = [pc |-> IF b.method = "POST" THEN "fetched" ELSE "received",
                                  body |-> b, instance |-> <<>>, seen |-> {},
                                  dropped |-> {}, answer |-> 0]]
    /\ UNCHANGED <<kanaal, abonnement, groups, deleted, changed>>

Fetch_PutAsCreate(q) ==               \* mutant: a missing subscription is created by PUT
    /\ req[q].pc = "received"
    /\ req' = [req EXCEPT ![q] = [@ EXCEPT !.pc = "fetched", !.instance = [f \in Field |-> Initial]]]
    /\ UNCHANGED <<kanaal, abonnement, groups, deleted, changed>>
\* get_object: the whole row is read, and held until the request ends.
Fetch(q) ==
    /\ req[q].pc = "received"
    /\ IF Target(q) \in DOMAIN abonnement
         THEN /\ req' = [req EXCEPT ![q] =
                          [@ EXCEPT !.pc = "fetched", !.instance = abonnement[Target(q)]]]
              /\ UNCHANGED <<kanaal, abonnement, groups, deleted, changed>>
         ELSE Refuse(q, 404)

\* The callback is called with and without authorization; whatever it answers
\* takes its time.  DELETE does not probe.
Probe(q) ==
    /\ req[q].pc = "fetched" /\ req[q].body.method # "DELETE"
    /\ \/ /\ Goto(q, "probed")
          /\ UNCHANGED <<kanaal, abonnement, groups, deleted, changed>>
       \/ Refuse(q, 400)

MatchFilterNames(names, keys) == names \subseteq keys \/ keys \subseteq names

Consistent_Exists(g) == g.kanaal = NoKanaal \/ g.kanaal \in DOMAIN kanaal  \* mutant
\* A group without filters is not compared; nor are those of cloud events.
Consistent(g) ==
    \/ g.kanaal = NoKanaal
    \/ /\ g.kanaal \in DOMAIN kanaal
       /\ g.keys = {} \/ MatchFilterNames(kanaal[g.kanaal], g.keys)

CheckKanalen(q) ==
    /\ req[q].pc = "probed"
    /\ IF \A g \in req[q].body.filters : Consistent(g)
         THEN Goto(q, "valid") /\ UNCHANGED <<kanaal, abonnement, groups, deleted, changed>>
         ELSE Refuse(q, 400)
-----------------------------------------------------------------------------
(* Writing.  An uncommitted change is seen by its own transaction only; it *)
(* shows to others as the locks of that transaction.                       *)

RowLocked(q) ==
    \E p \in Request \ {q} : Made(p) /\ Target(p) = Target(q) /\ req[p].pc \in InUpdate

GroupsLocked(q, G) ==
    \E p \in Request \ {q} : Made(p) /\ req[p].pc # "done" /\ req[p].dropped \cap G # {}

NewGroups(q) == {[by |-> q, kanaal |-> g.kanaal, keys |-> g.keys] : g \in req[q].body.filters}

\* Kanaal.objects.get in _create_kanalen_filters.
KanalenExist(q) ==
    \A g \in req[q].body.filters : g.kanaal = NoKanaal \/ g.kanaal \in DOMAIN kanaal

\* save() writes every column: those of the request over the instance it read.
Merged(q) == [f \in Field |-> IF f \in req[q].body.fields THEN q ELSE req[q].instance[f]]

With(s, row) == [t \in DOMAIN abonnement \cup {s} |-> IF t = s THEN row ELSE abonnement[t]]

Create(q) ==
    /\ req[q].pc = "valid" /\ req[q].body.method = "POST"
    /\ IF KanalenExist(q)
         THEN /\ abonnement' = With(Target(q), [f \in Field |-> q])
              /\ groups' = [groups EXCEPT ![Target(q)] = NewGroups(q)]
              /\ Finish(q, 201)
              /\ UNCHANGED <<kanaal, deleted, changed>>
         ELSE Refuse(q, 500)

SaveRow_AfterGroups(q) ==             \* mutant: the groups are replaced before save()
    /\ req[q].pc = "valid" /\ req[q].body.method \in {"PUT", "PATCH"}
    /\ Goto(q, IF Target(q) \in DOMAIN abonnement THEN "saved" ELSE "inserting")
    /\ UNCHANGED <<kanaal, abonnement, groups, deleted, changed>>
\* The UPDATE of save() waits for the transaction that has the row.  When it
\* finds no row any more Django goes on with an INSERT.
SaveRow(q) ==
    /\ req[q].pc = "valid" /\ req[q].body.method \in {"PUT", "PATCH"}
    /\ IF Target(q) \in DOMAIN abonnement
         THEN ~RowLocked(q) /\ Goto(q, "saved")
         ELSE Goto(q, "inserting")
    /\ UNCHANGED <<kanaal, abonnement, groups, deleted, changed>>

\* The INSERT waits for one of the same key, and fails if that one commits.
InsertRow(q) ==
    /\ req[q].pc = "inserting" /\ ~RowLocked(q)
    /\ IF Target(q) \in DOMAIN abonnement
         THEN Refuse(q, 500)
         ELSE Goto(q, "saved") /\ UNCHANGED <<kanaal, abonnement, groups, deleted, changed>>

Old_ByChannel(q) == {g \in groups[Target(q)] : g.kanaal # NoKanaal}   \* mutant
Old(q) == groups[Target(q)]

\* filter_groups.all().delete(), cloudevent_filtergroups.all().delete() and
\* instance.delete() first read what there is to delete ...
ReadGroups(q) ==
    /\ \/ req[q].pc = "saved"
       \/ req[q].pc = "fetched" /\ req[q].body.method = "DELETE"
    /\ req' = [req EXCEPT ![q] = [@ EXCEPT
                                 !.pc = IF req[q].pc = "saved" THEN "read" ELSE "collected",
                                 !.seen = Old(q)]]
    /\ UNCHANGED <<kanaal, abonnement, groups, deleted, changed>>

DropGroups_Autocommit(q) ==                                           \* mutant
    /\ req[q].pc \in {"read", "collected"} /\ ~GroupsLocked(q, req[q].seen)
    /\ groups' = [groups EXCEPT ![Target(q)] = @ \ req[q].seen]
    /\ req' = [req EXCEPT ![q] = [@ EXCEPT
                                 !.pc = IF req[q].pc = "read" THEN "cleared" ELSE "dropped"]]
    /\ UNCHANGED <<kanaal, abonnement, deleted, changed>>
\* ... and then delete it by id, waiting for a transaction that did so before.
DropGroups(q) ==
    /\ req[q].pc \in {"read", "collected"} /\ ~GroupsLocked(q, req[q].seen)
    /\ req' = [req EXCEPT ![q] = [@ EXCEPT
                                 !.pc = IF req[q].pc = "read" THEN "cleared" ELSE "dropped",
                                 !.dropped = req[q].seen \cap groups[Target(q)]]]
    /\ UNCHANGED <<kanaal, abonnement, groups, deleted, changed>>

Replace_LeftOpen(q) ==                \* mutant: the exception is caught, no rollback
    /\ req[q].pc = "cleared" /\ KanalenExist(q)
    /\ abonnement' = With(Target(q), Merged(q))
    /\ groups' = [groups EXCEPT ![Target(q)] = (@ \ req[q].dropped) \cup NewGroups(q)]
    /\ Finish(q, 200)
    /\ UNCHANGED <<kanaal, deleted, changed>>
\* The groups of the request are created and the transaction commits; it is
\* rolled back when a channel is gone.
Replace(q) ==
    /\ req[q].pc = "cleared"
    /\ IF KanalenExist(q)
         THEN /\ abonnement' = With(Target(q), Merged(q))
              /\ groups' = [groups EXCEPT ![Target(q)] = (@ \ req[q].dropped) \cup NewGroups(q)]
              /\ Finish(q, 200)
              /\ UNCHANGED <<kanaal, deleted, changed>>
         ELSE Refuse(q, 500)

Readers(s) == {p \in Request : Made(p) /\ Target(p) = s /\ req[p].pc \notin {"received", "done"}}

Destroy_Unchecked(q) ==                                               \* mutant
    /\ req[q].pc = "dropped" /\ ~RowLocked(q)
    /\ abonnement' = [t \in DOMAIN abonnement \ {Target(q)} |-> abonnement[t]]
    /\ groups' = [groups EXCEPT ![Target(q)] = @ \ req[q].dropped]
    /\ UNCHANGED deleted
    /\ Finish(q, 204)
    /\ UNCHANGED <<kanaal, changed>>
\* The row goes after its groups, waiting for a transaction that updated it.
\* At its commit the foreign keys are checked: groups that were created since
\* the related rows were read make it fail.
Destroy(q) ==
    LET s == Target(q) IN
    /\ req[q].pc = "dropped" /\ (s \in DOMAIN abonnement => ~RowLocked(q))
    /\ IF groups[s] \subseteq req[q].dropped
         THEN /\ abonnement' = [t \in DOMAIN abonnement \ {s} |-> abonnement[t]]
              /\ groups' = [groups EXCEPT ![s] = {}]
              /\ deleted' = deleted \cup {[sub |-> s, readers |-> Readers(s) \ {q}]}
              /\ Finish(q, 204)
              /\ UNCHANGED <<kanaal, changed>>
         ELSE Refuse(q, 500)

\* PostgreSQL ends one of two transactions that wait for each other: a DELETE
\* that waits for the row, and an update that waits for groups it deleted.
Deadlocked(q, p) ==
    /\ Made(q) /\ Made(p) /\ Target(p) = Target(q)
    /\ req[q].pc = "read" /\ req[q].seen \cap req[p].dropped # {}
    /\ req[p].pc = "dropped"
DeadlockAbort(q) ==
    /\ \E p \in Request : Deadlocked(q, p) \/ Deadlocked(p, q)
    /\ Refuse(q, 500)

\* The web worker dies; the database rolls its transaction back.
Crash(q) ==
    /\ Made(q) /\ req[q].pc # "done"
    /\ Refuse(q, 500)
-----------------------------------------------------------------------------
(* Channels.                                                               *)

\* Bound: a channel is set once, to something else.
SetKanaal(n, keys) ==
    /\ n \notin changed
    /\ n \in DOMAIN kanaal => "update" \in ChannelOps /\ keys # kanaal[n]
    /\ n \notin DOMAIN kanaal => "create" \in ChannelOps
    /\ kanaal' = [m \in DOMAIN kanaal \cup {n} |-> IF m = n THEN keys ELSE kanaal[m]]
    /\ changed' = changed \cup {n}
    /\ UNCHANGED <<abonnement, groups, req, deleted>>

\* In the admin only; it cascades to the filter groups.
DeleteKanaal(n) ==
    /\ "delete" \in ChannelOps /\ n \in DOMAIN kanaal
    /\ \A s \in Sub, q \in Request :
          Made(q) /\ req[q].pc # "done" => \A g \in groups[s] \cap req[q].dropped : g.kanaal # n
    /\ kanaal' = [m \in DOMAIN kanaal \ {n} |-> kanaal[m]]
    /\ groups' = [s \in Sub |-> {g \in groups[s] : g.kanaal # n}]
    /\ UNCHANGED <<abonnement, req, deleted, changed>>
-----------------------------------------------------------------------------
Step(q) ==
    \/ Fetch(q) \/ Probe(q) \/ CheckKanalen(q)
    \/ Create(q)
    \/ SaveRow(q) \/ InsertRow(q) \/ ReadGroups(q) \/ DropGroups(q)
    \/ Replace(q) \/ Destroy(q)

Next ==
    \/ \E q \in Request : Step(q) \/ DeadlockAbort(q) \/ Crash(q)
    \/ \E q \in Request, b \in Bodies : Receive(q, b)
    \/ \E n \in Naam : DeleteKanaal(n) \/ \E keys \in SUBSET Key : SetKanaal(n, keys)

Spec == Init /\ [][Next]_vars

\* Requests go on, the probed callback answers in the end, and PostgreSQL
\* detects deadlocks.  Crashes and new requests are never forced.
FairSpec == Spec /\ \A q \in Request : WF_vars(Step(q) \/ DeadlockAbort(q))
-----------------------------------------------------------------------------
(* Properties.                                                             *)

Answered(q) == Made(q) /\ req[q].answer # 0

\* While subscribers send whole bodies only (no PATCH), the callback, the credentials and the
\* filters of a subscription always come from one request: nobody receives the
\* messages another request asked for.
Untorn ==
    (\A q \in Request : Made(q) => req[q].body.method # "PATCH") =>
    \A s \in DOMAIN abonnement :
       \A f, h \in Field : /\ abonnement[s][f] = abonnement[s][h]
                          /\ \A g \in groups[s] : g.by = abonnement[s][f]

\* A subscription changes in the very step in which one request on it is
\* answered with success, or in which a channel is deleted: a request that fails
\* half-way, at whatever step, leaves no trace (@transaction.atomic).
Succeeds(s) ==
    \E q \in Request : /\ Made(q) /\ Target(q) = s
                       /\ req[q].answer = 0 /\ req'[q].answer \in {200, 201, 204}
FailureLeavesNoTrace ==
    [][\A s \in Sub :
          \/ Succeeds(s)
          \/ /\ s \in DOMAIN abonnement <=> s \in DOMAIN abonnement'
             /\ s \in DOMAIN abonnement => abonnement'[s] = abonnement[s]
             /\ groups'[s] = {g \in groups[s] : g.kanaal = NoKanaal \/ g.kanaal \in DOMAIN kanaal'}]_vars

\* As long as a channel keeps its filters, those of its subscriptions are some of them or
\* contain them all, and they go with the channel (validate, match_filter_names).
GroupsConsistent ==
    \A s \in Sub : \A g \in groups[s] :
       g.kanaal \in Naam \ changed =>
          /\ g.kanaal \in DOMAIN kanaal
          /\ g.keys \subseteq kanaal[g.kanaal] \/ kanaal[g.kanaal] \subseteq g.keys

\* Every request is answered, although updates and deletions of a subscription
\* take the locks of its row and of its groups in opposite orders: again and again there
\* is a moment with no request open.
EveryRequestAnswered == []<>(\A q \in Request : Made(q) => Answered(q))

\* A subscription whose DELETE was confirmed comes back only by a request that had read
\* it before (Model.save falls back to an INSERT); all later ones are answered with 404
\* (get_object).
RevivedByReader ==
    \A d \in deleted : d.sub \in DOMAIN abonnement =>
        \E p \in d.readers : req[p].body.method \in {"PUT", "PATCH"} /\ req[p].answer = 200
=============================================================================
