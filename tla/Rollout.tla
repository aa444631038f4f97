-------------------------------- MODULE Rollout --------------------------------
(***************************************************************************)
(* The rollout of a version: containers that migrate the database, one     *)
(* that executes setup_configuration, others that create the superuser and *)
(* serve, beside servers of the version before and people who change what  *)
(* the deployment is about (bin/docker_start.sh, bin/setup_configuration.sh *)
(* and what they call).                                                    *)
(*                                                                         *)
(* Django wraps a migration in a transaction, and nothing keeps two        *)
(* containers from migrating at a time.  setup_configuration is taken to   *)
(* commit every statement: one transaction per step is the special case in *)
(* which nobody comes between and a failure happens before the first.      *)
(***************************************************************************)
EXTENDS Migrations, FiniteSets

CONSTANTS
    Setup,      \* containers that run bin/setup_configuration.sh
    Web,        \* containers that run bin/docker_start.sh
    Starts,     \* sets of migrations that earlier versions have recorded
    Together,   \* those from which containers may migrate at the same time
    Kanalen,    \* the channels of the configuration
    Name,       \* these, and types of events
    Items,      \* sequence: those the configured subscription is to have
    Key,        \* attributes that filters can be about
    Wanted,     \* [Items -> sets of keys]: the filters it is to have for each
    KeySets,    \* the filters that the API is asked for: sets of keys
    MaxFaults   \* bound: containers killed or with fixtures that fail, changes by the API,
                \* administrators, old servers

VARIABLES
    tables,       \* the schema of the database
    recorded,     \* django_migrations
    content,      \* an old row of two tables, in the columns that migrations copy
    twins,        \* tables with rows that violate a constraint that is to come
    users,        \* "admin": the initial superuser; "other": somebody with its e-mail address
    index,        \* whether the groups of the admin index are there
    kanalen,      \* the channels that exist
    subscription, \* the configured subscription: "none", or by whom it was written last
    groups,       \* its filter groups of both kinds
    pc, held,     \* what a container is about to do, and what it remembers
    ordered,      \* whether web waits for the end of web-init (docker-compose.yml)
    faults,       \* how often a container was killed or somebody else changed something
    due,          \* history: the client id and the status the old rows must keep
    late,         \* history: an old server wrote auth_client_id after it was copied
    disturbed     \* history: the configured objects were changed since the set-up began

database == <<tables, recorded, content>>
configured == <<kanalen, subscription, groups>>
ghosts == <<due, late, disturbed>>
limits == <<ordered, faults>>
vars == <<database, twins, users, index, configured, pc, held, limits, ghosts>>
-----------------------------------------------------------------------------
Container == Setup \cup Web
Traced == {"client_id", "auth_client_id", "response_status", "response_status_int"}
Value == {"", "null", "id", "auth", "oversized", "200"}

\* What can have been executed: a beginning of each app's migrations.  Versions before 1.0.0
\* had none of 0009 to 0012 or all, and 0023 came with 0024.
Upto(a, d) == {m \in Migration : \/ m = 1 /\ a > 0
                                 \/ m \in 14..17 /\ m - 12 <= a
                                 \/ m \in 2..13 /\ m - 1 <= d
                                 \/ m \in 18..30 /\ m - 5 <= d}
Past == {Upto(p[1], p[2]) : p \in {q \in (0..5) \X (0..25) : q[1] > 1 => q[2] >= 12}}
Ran(past, migration) == \E m \in past : Plan[m] = migration
Released(past) == /\ Ran(past, D0009) => Ran(past, D0012)
                  /\ Ran(past, D0023) => Ran(past, D0024)

ASSUME RolloutAssumption ==
    /\ Setup \cap Web = {} /\ Container # {} /\ Items \in Seq(Range(Items))
    /\ Kanalen \cup Range(Items) \subseteq Name /\ Wanted \in [Range(Items) -> SUBSET Key]
    /\ KeySets \subseteq SUBSET Key
    /\ Starts \subseteq {past \in Past : Released(past)} /\ Together \subseteq Starts
    /\ MaxFaults \in Nat

\* A group of the subscription, with the keys of its filters that have the value of the
\* configuration, and of those that have another.
Group == [id : Nat \ {0}, item : Name, ours : SUBSET Key, theirs : SUBSET Key]
Held == [plan : SUBSET Migration, item : 1..Len(Items) + 1, group : Nat, todo : SUBSET Key]
Fresh == [plan |-> {}, item |-> 1, group |-> 0, todo |-> {}]
Migrates == {"waiting", "migrating", "recording", "deleted", "looked"}

TypeOK ==
    /\ \A t \in DOMAIN tables : UNION tables[t].keys \subseteq DOMAIN tables[t].columns
    /\ recorded \subseteq Migration
    /\ \A t \in DOMAIN content : /\ t \in DOMAIN tables
                                 /\ content[t] \in [Traced \cap DOMAIN tables[t].columns -> Value]
    /\ twins \subseteq {"filter", "user"} /\ users \subseteq {"admin", "other"} /\ index \in BOOLEAN
    /\ kanalen \subseteq Kanalen /\ subscription \in {"none", "config", "api"}
    /\ groups \subseteq Group /\ (subscription = "none" => groups = {})
    /\ \A g, h \in groups : g.id = h.id => g = h
    /\ \A g \in groups : g.ours \cap g.theirs = {}
    /\ pc \in [Container -> Migrates \cup {"fixtures", "superuser", "creating", "serving",
                                    "kanalen", "abonnement", "item", "group", "filter", "done"}]
    /\ held \in [Container -> Held]
    /\ faults \in 0..MaxFaults
    /\ ordered \in BOOLEAN /\ late \in BOOLEAN /\ disturbed \in BOOLEAN

\* The old rows hold what that version could write: a status is text, empty after an
\* exception, as long as the column is text.
OldContent(columns) ==
    LET Values(c) ==
            CASE c = "client_id" -> {"", "id"} [] c = "auth_client_id" -> {"", "auth", "oversized"}
              [] c = "response_status" -> IF columns[c].null THEN {"200"} ELSE {"200", ""}
              [] c = "response_status_int" -> {"null"}
    IN {f \in [Traced \cap DOMAIN columns -> Value] : \A c \in DOMAIN f : f[c] \in Values(c)}

ClientId(row) ==
    IF "client_id" \in DOMAIN row /\ row["client_id"] # "" THEN row["client_id"]
    ELSE IF "auth_client_id" \in DOMAIN row THEN row["auth_client_id"] ELSE ""

\* What must not be lost of an old row.
ToKeep(t, row) == IF t = "abonnement" THEN ClientId(row)
                  ELSE IF "200" \in {row[c] : c \in DOMAIN row} THEN "200" ELSE ""

\* The tables of an earlier version: the state after what it recorded.
After(past) ==
    FoldLeft(LAMBDA s, m : IF m \in past THEN FoldLeft(Apply, s, Steps[m]) ELSE s,
             [t \in {} |-> 0], [m \in Migration |-> m])

Init ==
    /\ ordered \in BOOLEAN
    /\ recorded \in IF ordered THEN Starts ELSE Together
    /\ tables = After(recorded)
    /\ \E rows \in SUBSET ({"abonnement", "notificatieresponse"} \cap DOMAIN tables) :
          /\ recorded # {} => rows = {"abonnement", "notificatieresponse"} \cap DOMAIN tables
          /\ content \in {f \in [rows -> UNION {OldContent(tables[t].columns) : t \in rows}] :
                            \A t \in rows : f[t] \in OldContent(tables[t].columns)}
    /\ twins \in SUBSET {t \in {"filter", "user"} \cap DOMAIN tables : tables[t].keys = {}}
    /\ users = IF recorded = {} THEN {} ELSE {"admin"}
    /\ index = FALSE
    /\ \/ kanalen = {} /\ subscription = "none" /\ groups = {}
       \/ /\ recorded # {} /\ kanalen = Kanalen /\ subscription = "api"
          /\ \E name \in Name, keys \in KeySets :
                groups = {[id |-> 1, item |-> name, ours |-> {}, theirs |-> keys]}
    /\ pc = [c \in Container |-> "waiting"] /\ held = [c \in Container |-> Fresh]
    /\ faults = 0
    /\ due = [t \in DOMAIN content |-> ToKeep(t, content[t])]
    /\ late = FALSE /\ disturbed = FALSE

Goto(c, place) == pc' = [pc EXCEPT ![c] = place]
\* set -e: the container stops and is started again, with nothing remembered.
Restart(c) == Goto(c, "waiting") /\ held' = [held EXCEPT ![c] = Fresh]
Fault == faults < MaxFaults /\ faults' = faults + 1
-----------------------------------------------------------------------------
(* manage.py migrate                                                         *)

EmptyOf(column) == IF column.null THEN "null" ELSE ""
IsEmpty(value) == value \in {"", "null"}

Copied(row, op) ==
    IF IsEmpty(row[op.from]) \/ ~IsEmpty(row[op.to]) \/ row[op.from] = "oversized" THEN row
    ELSE [row EXCEPT ![op.to] = row[op.from]]

\* What an operation makes of an old row of its table, and whether the row lets it.
ApplyRow(row, op) ==
    CASE op.op = "add" /\ op.c \in Traced -> (op.c :> EmptyOf(op.column)) @@ row
      [] op.op = "remove" -> Without(row, op.c)
      [] op.op = "rename" -> (op.to :> row[op.c]) @@ Without(row, op.c)
      [] op.op = "copy" -> Copied(row, op)
      [] OTHER -> row
Converts(row, op) ==
    op.op = "copy" /\ ~op.skips => row[op.from] # "oversized" \/ ~IsEmpty(row[op.to])

\* Operations in order, and those of a migration before one of them.
SchemaAfter(schema, ops) == FoldLeft(Apply, schema, ops)
RowAfter(t, row, ops) ==
    FoldLeft(LAMBDA r, op : IF op.t = t THEN ApplyRow(r, op) ELSE r, row, ops)
Until(m, i) == SubSeq(Steps[m], 1, i - 1)

Applicable(schema, m) ==
    \A i \in DOMAIN Steps[m] : Applies(SchemaAfter(schema, Until(m, i)), Steps[m][i])
Convertible(t, row, m) ==
    \A i \in DOMAIN Steps[m] :
        Steps[m][i].t = t => Converts(RowAfter(t, row, Until(m, i)), Steps[m][i])

\* Whether every operation of a migration succeeds: it is all or nothing.
Executes_Skips(m) ==                    \* mutant: a row that cannot be converted is skipped
    /\ Applicable(tables, m)
    /\ \A i \in DOMAIN Plan[m] : Plan[m][i].op = "constrain" => Plan[m][i].t \notin twins
Executes(m) ==
    /\ Applicable(tables, m)
    /\ \A t \in DOMAIN content : Convertible(t, content[t], m)
    /\ \A i \in DOMAIN Plan[m] : Plan[m][i].op = "constrain" => Plan[m][i].t \notin twins

\* The plan is made once, from what is recorded by then.
PlanMigrations(c) ==
    /\ pc[c] = "waiting"
    /\ ordered /\ c \in Web => \A d \in Setup : pc[d] = "done"
    /\ held' = [held EXCEPT ![c].plan = Migration \ recorded]
    /\ Goto(c, "migrating")
    /\ UNCHANGED <<database, twins, users, index, configured, limits, ghosts>>

\* A migration with statements that the schema editor defers to its end (foreign
\* keys, indexes) is recorded after its transaction, the others in it.
Defers(op) == \/ op.op = "create"
              \/ op.op = "add" /\ op.column.type = "references"
Deferred(m) == \E i \in DOMAIN Plan[m] : Defers(Plan[m][i])

Migrate_GoesOn(c) ==                    \* mutant: without set -e
    LET m == Min(held[c].plan) IN
    /\ pc[c] = "migrating" /\ held[c].plan # {}
    /\ IF Executes(m)
         THEN /\ tables' = SchemaAfter(tables, Steps[m])
              /\ content' = [t \in DOMAIN content |-> RowAfter(t, content[t], Steps[m])]
              /\ IF Deferred(m)
                   THEN Goto(c, "recording") /\ UNCHANGED <<held, recorded>>
                   ELSE /\ recorded' = recorded \cup {m}
                        /\ held' = [held EXCEPT ![c].plan = @ \ {m}]
                        /\ UNCHANGED pc
         ELSE Goto(c, "superuser") /\ UNCHANGED <<database, held>>
    /\ UNCHANGED <<twins, users, index, configured, limits, ghosts>>
Migrate(c) ==
    LET m == Min(held[c].plan) IN
    /\ pc[c] = "migrating" /\ held[c].plan # {}
    /\ IF Executes(m)
         THEN /\ tables' = SchemaAfter(tables, Steps[m])
              /\ content' = [t \in DOMAIN content |-> RowAfter(t, content[t], Steps[m])]
              /\ IF Deferred(m)
                   THEN Goto(c, "recording") /\ UNCHANGED <<held, recorded>>
                   ELSE /\ recorded' = recorded \cup {m}
                        /\ held' = [held EXCEPT ![c].plan = @ \ {m}]
                        /\ UNCHANGED pc
         ELSE Restart(c) /\ UNCHANGED database
    /\ UNCHANGED <<twins, users, index, configured, limits, ghosts>>

Record(c) ==
    LET m == Min(held[c].plan) IN
    /\ pc[c] = "recording"
    /\ recorded' = recorded \cup {m}
    /\ held' = [held EXCEPT ![c].plan = @ \ {m}]
    /\ Goto(c, "migrating")
    /\ UNCHANGED <<tables, content, twins, users, index, configured, limits, ghosts>>

\* update_admin_index, on post_migrate: the groups are deleted, and loaddata inserts
\* or updates them by their primary keys.
DeleteIndex(c) ==
    /\ pc[c] = "migrating" /\ held[c].plan = {}
    /\ index' = FALSE
    /\ Goto(c, "deleted")
    /\ UNCHANGED <<database, twins, users, configured, held, limits, ghosts>>

Migrated(c) ==
    /\ Goto(c, IF c \in Web THEN "fixtures" ELSE "kanalen")
    /\ disturbed' = (disturbed /\ c \in Web)

LookIndex(c) ==
    /\ pc[c] = "deleted"
    /\ IF index THEN Migrated(c) ELSE Goto(c, "looked") /\ UNCHANGED disturbed
    /\ UNCHANGED <<database, twins, users, index, configured, held, limits, due, late>>

LoadIndex_WebOnly(c) ==                 \* mutant: loaded in docker_start.sh only
    /\ pc[c] = "looked"
    /\ index' = (index \/ c \in Web)
    /\ Migrated(c)
    /\ UNCHANGED <<database, twins, users, configured, held, limits, due, late>>
\* It inserts; somebody else may have done so since.
LoadIndex(c) ==
    /\ pc[c] = "looked"
    /\ index' = TRUE
    /\ IF index THEN Restart(c) /\ UNCHANGED disturbed ELSE Migrated(c) /\ UNCHANGED held
    /\ UNCHANGED <<database, twins, users, configured, limits, due, late>>
-----------------------------------------------------------------------------
(* manage.py loaddata and createinitialsuperuser                             *)

\* Whatever JSON the deployment has mounted; what it adds is not modelled.
LoadFixtures(c) ==
    /\ pc[c] = "fixtures"
    /\ \/ Goto(c, "superuser") /\ UNCHANGED <<held, faults>>
       \/ Fault /\ Restart(c)
    /\ UNCHANGED <<database, twins, users, index, configured, ordered, ghosts>>

CheckSuperuser_Always(c) ==             \* mutant: without looking for the account
    /\ pc[c] = "superuser"
    /\ Goto(c, "creating")
    /\ UNCHANGED <<database, twins, users, index, configured, held, limits, ghosts>>
CheckSuperuser(c) ==
    /\ pc[c] = "superuser"
    /\ Goto(c, IF "admin" \in users THEN "serving" ELSE "creating")
    /\ UNCHANGED <<database, twins, users, index, configured, held, limits, ghosts>>

\* The name or the e-mail address may be in use.
CreateSuperuser(c) ==
    /\ pc[c] = "creating"
    /\ IF users = {}
         THEN users' = {"admin"} /\ Goto(c, "serving") /\ UNCHANGED held
         ELSE Restart(c) /\ UNCHANGED users
    /\ UNCHANGED <<database, twins, index, configured, limits, ghosts>>
-----------------------------------------------------------------------------
(* manage.py setup_configuration                                             *)

ConfigureKanalen(c) ==
    /\ pc[c] = "kanalen"
    /\ kanalen' = kanalen \cup Kanalen
    /\ Goto(c, "abonnement")
    /\ UNCHANGED <<database, twins, users, index, subscription, groups, held, limits, ghosts>>

\* A subscription to nothing is refused, once it is written.
ConfigureAbonnement(c) ==
    /\ pc[c] = "abonnement"
    /\ subscription' = "config"
    /\ IF Items = <<>> THEN Restart(c)
       ELSE held' = [held EXCEPT ![c].item = 1] /\ Goto(c, "item")
    /\ UNCHANGED <<database, twins, users, index, kanalen, groups, limits, ghosts>>

Item(c) == Items[held[c].item]
Of(item) == {g \in groups : g.item = item}
Several(item) == \E g, h \in Of(item) : g # h
\* Items of channels need the channel, all need the subscription.
Reachable(item) == subscription # "none" /\ (item \in Kanalen => item \in kanalen)

\* The filters of the item are to be written into a group, if it is to have any.
NextItem(c) ==
    /\ held' = [held EXCEPT ![c].item = @ + 1, ![c].group = 0, ![c].todo = {}]
    /\ Goto(c, IF held[c].item = Len(Items) THEN "done" ELSE "item")
Filters(c, id) ==
    IF Wanted[Item(c)] = {} THEN NextItem(c)
    ELSE /\ held' = [held EXCEPT ![c].group = id, ![c].todo = Wanted[Item(c)]]
         /\ Goto(c, "filter")

\* update_or_create by channel, or type, and subscription: no such group, one, or
\* MultipleObjectsReturned.
FindGroup(c) ==
    /\ pc[c] = "item"
    /\ IF ~Reachable(Item(c)) \/ Several(Item(c)) THEN Restart(c)
       ELSE IF Of(Item(c)) = {} THEN Goto(c, "group") /\ UNCHANGED held
       ELSE Filters(c, (CHOOSE g \in Of(Item(c)) : TRUE).id)
    /\ UNCHANGED <<database, twins, users, index, configured, limits, ghosts>>

\* The sequence of the primary keys, which no group and no container is ahead of.
LastId == Max({0} \cup {g.id : g \in groups} \cup {held[c].group : c \in Container})
CreateGroup(c) ==
    /\ pc[c] = "group"
    /\ IF Reachable(Item(c))
         THEN /\ groups' = groups \cup
                    {[id |-> LastId + 1, item |-> Item(c), ours |-> {}, theirs |-> {}]}
              /\ Filters(c, LastId + 1)
         ELSE Restart(c) /\ UNCHANGED groups
    /\ UNCHANGED <<database, twins, users, index, kanalen, subscription, limits, ghosts>>

\* update_or_create by key and group; a filter of another key stays what it is.
WithFilter_New(g, key) ==               \* mutant: get_or_create keeps the old value
    IF key \in g.theirs THEN g ELSE [g EXCEPT !.ours = @ \cup {key}]
WithFilter(g, key) == [g EXCEPT !.ours = @ \cup {key}, !.theirs = @ \ {key}]

ConfigureFilter(c) ==
    /\ pc[c] = "filter"
    /\ \E key \in held[c].todo :
          IF \E g \in groups : g.id = held[c].group
            THEN /\ groups' = {IF g.id = held[c].group THEN WithFilter(g, key) ELSE g
                               : g \in groups}
                 /\ IF held[c].todo = {key} THEN NextItem(c)
                    ELSE held' = [held EXCEPT ![c].todo = @ \ {key}] /\ UNCHANGED pc
            ELSE Restart(c) /\ UNCHANGED groups
    /\ UNCHANGED <<database, twins, users, index, kanalen, subscription, limits, ghosts>>

-----------------------------------------------------------------------------
(* Everybody else.                                                           *)

Killed(c) ==
    /\ pc[c] # "waiting" /\ Fault
    /\ Restart(c)
    /\ UNCHANGED <<database, twins, users, index, configured, ordered, ghosts>>

\* A PUT replaces the groups: one or two of a channel or type, with any filters, whoever
\* configured them.
PutAbonnement(name, n, keys) ==
    /\ Fault /\ subscription # "none" /\ (name \in Kanalen => name \in kanalen)
    /\ subscription' = "api" /\ disturbed' = TRUE
    /\ groups' = {[id |-> LastId + i, item |-> name, ours |-> {}, theirs |-> keys] : i \in 1..n}
    /\ UNCHANGED <<database, twins, users, index, kanalen, pc, held, ordered, due, late>>

DeleteAbonnement_Alone ==               \* mutant: groups are not deleted with it
    /\ Fault /\ subscription # "none"
    /\ subscription' = "none" /\ disturbed' = TRUE
    /\ UNCHANGED <<database, twins, users, index, kanalen, groups, pc, held, ordered, due, late>>
DeleteAbonnement ==
    /\ Fault /\ subscription # "none"
    /\ subscription' = "none" /\ groups' = {} /\ disturbed' = TRUE
    /\ UNCHANGED <<database, twins, users, index, kanalen, pc, held, ordered, due, late>>

DeleteKanaal(k) ==
    /\ Fault /\ k \in kanalen
    /\ kanalen' = kanalen \ {k} /\ groups' = groups \ Of(k) /\ disturbed' = TRUE
    /\ UNCHANGED <<database, twins, users, index, subscription, pc, held, ordered, due, late>>

\* The superuser gets another name, or is removed.
EditUsers(result) ==
    /\ Fault /\ users # {} /\ users' = result
    /\ UNCHANGED <<database, twins, index, configured, pc, held, ordered, ghosts>>

\* An administrator resolves what a constraint would be violated by.
RemoveTwins(t) ==
    /\ Fault /\ t \in twins /\ twins' = twins \ {t}
    /\ UNCHANGED <<database, users, index, configured, pc, held, ordered, ghosts>>

\* A server of the version before is asked to change the client id.
OldPut(value) ==
    /\ Fault /\ "abonnement" \in DOMAIN content
    /\ "auth_client_id" \in DOMAIN content["abonnement"]
    /\ content' = [content EXCEPT !["abonnement"]["auth_client_id"] = value]
    /\ due' = [due EXCEPT !["abonnement"] = ClientId(content'["abonnement"])]
    /\ late' = (late \/ Ran(recorded, D0023))
    /\ UNCHANGED <<tables, recorded, twins, users, index, configured, pc, held, ordered, disturbed>>
-----------------------------------------------------------------------------
ContainerStep(c) ==
    \/ PlanMigrations(c) \/ Migrate(c) \/ Record(c)
    \/ DeleteIndex(c) \/ LookIndex(c) \/ LoadIndex(c)
    \/ LoadFixtures(c) \/ CheckSuperuser(c) \/ CreateSuperuser(c)
    \/ ConfigureKanalen(c) \/ ConfigureAbonnement(c)
    \/ FindGroup(c) \/ CreateGroup(c) \/ ConfigureFilter(c)

Next ==
    \/ \E c \in Container : ContainerStep(c) \/ Killed(c)
    \/ \E name \in Name, n \in 1..2, keys \in KeySets : PutAbonnement(name, n, keys)
    \/ DeleteAbonnement
    \/ \E k \in Kanalen : DeleteKanaal(k)
    \/ \E result \in {{}, {"other"}} : EditUsers(result)
    \/ \E t \in {"filter", "user"} : RemoveTwins(t)
    \/ \E value \in {"", "auth"} : OldPut(value)

Spec == Init /\ [][Next]_vars

\* Containers run, and are started again when they stop; nobody else is forced.
FairSpec == Spec /\ \A c \in Container : WF_vars(ContainerStep(c))
-----------------------------------------------------------------------------
(* Properties.                                                               *)

\* A container serves only on the tables that models.py declares, all migrations
\* recorded, whoever else has migrated at the same time or been killed at it
\* (docker_start.sh, set -e).
ServesOnItsModels ==
    (\E c \in Web : pc[c] = "serving") => tables = Models /\ recorded = Migration

\* The admin index is deleted and loaded by every container that migrates; when the
\* last of them is through, it is there (update_admin_index).
IndexRestored == (\A c \in Container : pc[c] \notin Migrates) => index

\* What rows of earlier versions hold in a column that is replaced is kept, in the old
\* or in the new one, at every moment of the migration: the client id of a subscription
\* (0023, 0024) and the status of a response (0010 to 0012).
Kept(t) ==
    due[t] \in {"", ClientId(content[t])} \cup {content[t][c] : c \in DOMAIN content[t]}
ValuesKept == \A t \in DOMAIN content : (t = "abonnement" /\ late) \/ Kept(t)

\* A set-up that nobody came between leaves the subscription with what is configured for
\* it, whatever earlier attempts and the API had left: one group for each channel and type,
\* with the configured filters at the configured values.  Filters of other keys and groups
\* of other channels may be there still (AbonnementConfigurationStep.execute).
ConfiguredWhenDone ==
    (\E c \in Setup : pc[c] = "done") /\ ~disturbed =>
       /\ subscription = "config" /\ kanalen = Kanalen
       /\ \A i \in DOMAIN Items : \E g \in groups :
             Of(Items[i]) = {g} /\ Wanted[Items[i]] \subseteq g.ours

\* What stands in the way until a human removes it: a migration that was executed and
\* whose container was killed before it was recorded; rows that violate a constraint; a
\* client id that is too long; the e-mail address of the superuser under another name;
\* two groups of one channel; a configuration with a subscription to nothing.
Executed(op) == \/ op.op = "create" /\ op.t \in DOMAIN tables
                \/ op.op = "add" /\ op.column.type = "references" /\ Has(tables, op.t, op.c)
Torn == \E m \in Migration \ recorded : \E i \in DOMAIN Plan[m] : Executed(Plan[m][i])
Oversized == "abonnement" \in DOMAIN content /\ content["abonnement"]["client_id"] = ""
             /\ \E c \in DOMAIN content["abonnement"] : content["abonnement"][c] = "oversized"
Blocked == \/ Torn \/ twins # {} \/ Oversized \/ users = {"other"}
           \/ Items = <<>> \/ \E i \in DOMAIN Items : Several(Items[i])

\* Unless one of these persists, every container gets there: concurrent migrations,
\* failures of one and kills are made up for by starting again.
Arrived(c) == pc[c] \in {"serving", "done"}
RolledOut == <>[]~Blocked => <>[](\A c \in Container : Arrived(c))
=============================================================================
