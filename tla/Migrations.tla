------------------------------ MODULE Migrations ------------------------------
(***************************************************************************)
(* The migrations of the apps accounts and datamodel, the tables they      *)
(* make, and those that models.py declares: what a deployment executes and *)
(* what the code it starts relies on.                                      *)
(*                                                                         *)
(* A table is [columns, keys]; keys are the unique constraints over more   *)
(* than one column, or over some rows.  Names and help texts, choices,     *)
(* defaults and the many-to-many tables of users are left out.             *)
(***************************************************************************)
EXTENDS Naturals, Sequences, SequencesExt, FiniteSetsExt, TLC

Column(type, max) == [type |-> type, max |-> max, null |-> FALSE, unique |-> FALSE]
Nullable(column) == [column EXCEPT !.null = TRUE]
Unique(column) == [column EXCEPT !.unique = TRUE]
Char(max) == Column("varchar", max)
Url == Char(200)
Serial == Unique(Column("serial", 0))
Uuid == Unique(Column("uuid", 0))
Text == Column("text", 0)
Json == Column("jsonb", 0)
Number == Column("integer", 0)
Bool == Column("boolean", 0)
Time == Column("timestamptz", 0)
Names == Column("varchar[]", 100)
ForeignKey == Column("references", 0)

Create(t, columns, keys) == [op |-> "create", t |-> t, columns |-> columns, keys |-> keys]
Add(t, c, column) == [op |-> "add", t |-> t, c |-> c, column |-> column]
Alter(t, c, column) == [op |-> "alter", t |-> t, c |-> c, column |-> column]
Drop(t, c) == [op |-> "remove", t |-> t, c |-> c]
Rename(t, c, to) == [op |-> "rename", t |-> t, c |-> c, to |-> to]
Constrain(t, key) == [op |-> "constrain", t |-> t, key |-> key]
\* Rows with from have it copied to the empty column to, if it can be converted; when
\* it cannot, the row is skipped or the migration fails.
Copy(t, from, to, skips) ==
    [op |-> "copy", t |-> t, from |-> from, to |-> to, skips |-> skips]
-----------------------------------------------------------------------------
(* accounts/migrations                                                       *)

A0001 == <<Create("user",
    [id |-> Serial, password |-> Char(128), last_login |-> Nullable(Time), is_superuser |-> Bool,
     username |-> Unique(Char(150)), first_name |-> Char(255), last_name |-> Char(255),
     email |-> Char(254), is_staff |-> Bool, is_active |-> Bool, date_joined |-> Time], {})>>
A0002 == <<>>
A0003 == <<>>
A0004 == <<>>
A0005 == <<Constrain("user", {"email"})>>
-----------------------------------------------------------------------------
(* datamodel/migrations                                                      *)

D0001 == <<
    Create("abonnement", [id |-> Serial, uuid |-> Uuid, callback_url |-> Unique(Url),
                          auth |-> Char(1000)], {}),
    Create("filter", [id |-> Serial, key |-> Char(100), value |-> Char(1000)], {}),
    Create("filtergroup", [id |-> Serial, abonnement |-> ForeignKey], {}),
    Create("kanaal", [id |-> Serial, uuid |-> Uuid, naam |-> Unique(Char(50)),
                      documentatie_link |-> Nullable(Url)], {}),
    Add("filtergroup", "kanaal", ForeignKey), Add("filter", "filter_group", ForeignKey)>>
D0002 == <<
    Alter("abonnement", "auth", Char(1000)), Alter("abonnement", "callback_url", Unique(Url)),
    Alter("filter", "key", Char(100)), Alter("filter", "value", Char(1000)),
    Alter("kanaal", "documentatie_link", Url), Alter("kanaal", "naam", Unique(Char(50)))>>
D0003 == <<
    Add("abonnement", "client_id", Char(100)), Alter("abonnement", "auth", Char(1000)),
    Alter("abonnement", "uuid", Uuid), Alter("kanaal", "uuid", Uuid)>>
D0004 == <<
    Create("notificatie", [id |-> Serial, forwarded_msg |-> Text, kanaal |-> ForeignKey], {}),
    Create("notificatieresponse", [id |-> Serial, response_status |-> Char(20),
                                   abonnement |-> ForeignKey, notificatie |-> ForeignKey], {})>>
D0005 == <<Add("kanaal", "filters", Nullable(Names))>>
D0006 == <<Alter("kanaal", "filters", Names)>>
D0007 == <<Add("notificatieresponse", "exception", Char(1000)),
           Alter("notificatieresponse", "response_status", Char(20))>>
D0008 == <<Alter("abonnement", "client_id", Char(100)), Alter("notificatie", "forwarded_msg", Json)>>
D0009 == <<Add("notificatieresponse", "response_status_int", Nullable(Number))>>
D0010 == <<Copy("notificatieresponse", "response_status", "response_status_int", TRUE)>>
D0011 == <<Drop("notificatieresponse", "response_status")>>
D0012 == <<Rename("notificatieresponse", "response_status_int", "response_status")>>
D0013 == <<Alter("kanaal", "filters", Names), Alter("kanaal", "naam", Unique(Char(50)))>>
D0014 == <<Alter("notificatie", "forwarded_msg", Json)>>
D0015 == <<Add("notificatieresponse", "attempt", Number)>>
D0016 == <<Alter("abonnement", "callback_url", Url)>>
D0017 == <<Constrain("filter", {"filter_group", "key"})>>
D0018 == <<
    Alter("abonnement", "auth", Char(1000)), Alter("abonnement", "callback_url", Url),
    Alter("kanaal", "documentatie_link", Url), Alter("kanaal", "filters", Names),
    Alter("kanaal", "naam", Unique(Char(50)))>>
D0019 == <<
    Add("abonnement", "send_cloudevents", Bool),
    Create("cloudevent",
        [int_id |-> Serial, id |-> Char(255), source |-> Char(255), specversion |-> Char(50),
         type |-> Char(255), datacontenttype |-> Char(255), dataschema |-> Char(255),
         subject |-> Char(255), time |-> Nullable(Time), data |-> Nullable(Text)],
        {{"id", "source"}}),
    Create("cloudeventfiltergroup", [id |-> Serial, type_substring |-> Char(255),
                                     abonnement |-> ForeignKey], {}),
    Create("cloudeventresponse",
        [id |-> Serial, attempt |-> Number, exception |-> Char(1000), response_status |-> Nullable(Number),
         abonnement |-> ForeignKey, cloudevent |-> ForeignKey], {})>>
D0020 == <<
    Add("abonnement", "auth_client_id", Char(255)), Add("abonnement", "auth_type", Char(30)),
    Add("abonnement", "oauth2_scope", Char(255)), Add("abonnement", "oauth2_token_url", Char(1000)),
    Add("abonnement", "secret", Char(255)), Alter("abonnement", "auth", Char(1000))>>
D0021 == <<Add("abonnement", "client_certificate", Nullable(ForeignKey)),
           Add("abonnement", "server_certificate", Nullable(ForeignKey))>>
D0022 == <<Create("cloudeventfilter",
    [id |-> Serial, key |-> Char(100), value |-> Char(1000), cloud_event_filter_group |-> ForeignKey],
    {{"cloud_event_filter_group", "key"}})>>

\* An id that does not fit the 100 characters of client_id raises DataError.
D0023 == <<Copy("abonnement", "auth_client_id", "client_id", FALSE)>>
D0024 == <<Drop("abonnement", "auth_client_id"), Alter("abonnement", "client_id", Char(100))>>
D0025 == <<Create("schedulednotification",
    [id |-> Serial, type |-> Char(255), task_args |-> Json, execute_after |-> Time, attempt |-> Number,
     task_attempt |-> Number, in_progress |-> Bool, cloudevent |-> Nullable(ForeignKey),
     notificatie |-> Nullable(ForeignKey), sub |-> ForeignKey], {})>>

\* The order of MigrationExecutor.migration_plan: accounts 0002 depends on datamodel 0012.
Plan == <<A0001, D0001, D0002, D0003, D0004, D0005, D0006, D0007, D0008, D0009, D0010, D0011,
          D0012, A0002, A0003, A0004, A0005, D0013, D0014, D0015, D0016, D0017, D0018, D0019,
          D0020, D0021, D0022, D0023, D0024, D0025>>
Migration == DOMAIN Plan
-----------------------------------------------------------------------------
(* What models.py of the two apps declares.                                  *)

UserModel ==
    [columns |-> [id |-> Serial, password |-> Char(128), last_login |-> Nullable(Time),
                  is_superuser |-> Bool, username |-> Unique(Char(150)), first_name |-> Char(255),
                  last_name |-> Char(255), email |-> Char(254), is_staff |-> Bool,
                  is_active |-> Bool, date_joined |-> Time], keys |-> {{"email"}}]
KanaalModel ==
    [columns |-> [id |-> Serial, uuid |-> Uuid, naam |-> Unique(Char(50)),
                  documentatie_link |-> Url, filters |-> Names], keys |-> {}]
AbonnementModel ==
    [columns |-> [id |-> Serial, uuid |-> Uuid, callback_url |-> Url, auth |-> Char(1000),
                  client_id |-> Char(100), auth_type |-> Char(30), secret |-> Char(255),
                  oauth2_token_url |-> Char(1000), oauth2_scope |-> Char(255),
                  client_certificate |-> Nullable(ForeignKey),
                  server_certificate |-> Nullable(ForeignKey), send_cloudevents |-> Bool],
     keys |-> {}]
FilterModel(group) ==
    [columns |-> [c \in {"id", "key", "value", group} |->
                    CASE c = "id" -> Serial [] c = "key" -> Char(100)
                      [] c = "value" -> Char(1000) [] c = group -> ForeignKey],
     keys |-> {{group, "key"}}]
ResponseModel(message) ==
    [columns |-> [c \in {"id", message, "abonnement", "attempt", "exception", "response_status"} |->
                    CASE c = "id" -> Serial [] c \in {message, "abonnement"} -> ForeignKey
                      [] c = "attempt" -> Number [] c = "exception" -> Char(1000)
                      [] c = "response_status" -> Nullable(Number)],
     keys |-> {}]
CloudEventModel ==
    [columns |-> [int_id |-> Serial, id |-> Char(255), source |-> Char(255),
                  specversion |-> Char(50), type |-> Char(255), datacontenttype |-> Char(255),
                  dataschema |-> Char(255), subject |-> Char(255), time |-> Nullable(Time),
                  data |-> Nullable(Text)], keys |-> {{"id", "source"}}]
ScheduledNotificationModel ==
    [columns |-> [id |-> Serial, type |-> Char(255), task_args |-> Json, execute_after |-> Time,
                  attempt |-> Number, task_attempt |-> Number, sub |-> ForeignKey, in_progress |-> Bool,
                  notificatie |-> Nullable(ForeignKey), cloudevent |-> Nullable(ForeignKey)],
     keys |-> {}]

Models ==
    [user |-> UserModel, kanaal |-> KanaalModel, abonnement |-> AbonnementModel,
     filtergroup |-> [columns |-> [id |-> Serial, abonnement |-> ForeignKey, kanaal |-> ForeignKey],
                      keys |-> {}],
     filter |-> FilterModel("filter_group"),
     notificatie |-> [columns |-> [id |-> Serial, forwarded_msg |-> Json, kanaal |-> ForeignKey],
                      keys |-> {}],
     notificatieresponse |-> ResponseModel("notificatie"), cloudevent |-> CloudEventModel,
     cloudeventfiltergroup |-> [columns |-> [id |-> Serial, abonnement |-> ForeignKey,
                                             type_substring |-> Char(255)], keys |-> {}],
     cloudeventfilter |-> FilterModel("cloud_event_filter_group"),
     cloudeventresponse |-> ResponseModel("cloudevent"),
     schedulednotification |-> ScheduledNotificationModel]
-----------------------------------------------------------------------------
(* The schema editor of Django, as far as these operations use it.           *)

Without(f, x) == [y \in DOMAIN f \ {x} |-> f[y]]

Has(tables, t, c) == t \in DOMAIN tables /\ c \in DOMAIN tables[t].columns

\* How the migrations before m define a column: the state of the project before m.
Defines(op, t, c) ==
    /\ op.t = t
    /\ \/ op.op = "create" /\ c \in DOMAIN op.columns
       \/ op.op \in {"add", "alter"} /\ op.c = c
Definition(op, c) == IF op.op = "create" THEN op.columns[c] ELSE op.column
Defined(m, t, c) ==
    LET Before == SelectSeq(FlattenSeq(SubSeq(Plan, 1, m - 1)), LAMBDA op : Defines(op, t, c))
    IN Definition(Last(Before), c)

\* The plan once more, with what each column was before it is altered.
Step(m, op) == IF op.op = "alter" THEN [from |-> Defined(m, op.t, op.c)] @@ op ELSE op
Steps == [m \in Migration |-> [i \in DOMAIN Plan[m] |-> Step(m, Plan[m][i])]]

\* AlterField issues statements for what differs between the two states of the
\* project, whatever the database holds.
Altered(column, from, to) ==
    [a \in DOMAIN column |-> IF from[a] = to[a] THEN column[a] ELSE to[a]]

\* What an operation makes of tables.
Apply(tables, op) ==
    CASE op.op = "create" ->
           (op.t :> [columns |-> op.columns, keys |-> op.keys]) @@ tables
      [] op.op = "add" ->
           [tables EXCEPT ![op.t].columns = (op.c :> op.column) @@ @]
      [] op.op = "alter" ->
           [tables EXCEPT ![op.t].columns[op.c] = Altered(@, op.from, op.column)]
      [] op.op = "remove" -> [tables EXCEPT ![op.t].columns = Without(@, op.c)]
      [] op.op = "rename" ->
           [tables EXCEPT ![op.t].columns = (op.to :> @[op.c]) @@ Without(@, op.c)]
      [] op.op = "constrain" -> [tables EXCEPT ![op.t].keys = @ \cup {op.key}]
      [] op.op = "copy" -> tables

\* Whether the statements of an operation find what they expect.
Applies(tables, op) ==
    CASE op.op = "create" -> op.t \notin DOMAIN tables
      [] op.op = "add" -> op.t \in DOMAIN tables /\ ~Has(tables, op.t, op.c)
      [] op.op = "alter" -> Has(tables, op.t, op.c) \/ op.from = op.column
      [] op.op \in {"remove", "rename"} -> Has(tables, op.t, op.c)
      [] op.op = "constrain" -> op.t \in DOMAIN tables /\ op.key \notin tables[op.t].keys
      [] op.op = "copy" -> Has(tables, op.t, op.from) /\ Has(tables, op.t, op.to)
=============================================================================
