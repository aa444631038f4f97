# A verification project for Open Notificaties

Open Notificaties routes notifications and cloud events from publishers to the
webhooks of subscribers. This directory holds TLA+ modules that model it, TLC
configurations that check them on small instances, and TLAPS proofs of theorems
about them. Paths are relative to the repository; the Python package is
`src/nrc/`.

## 1. Inventory

| component | code | state | operations |
|---|---|---|---|
| Delivery engine | `api/tasks.py` | `ScheduledNotification` rows, the cache key `execute_notifications_lock`, the Celery queue, the tasks in the worker threads | `execute_notifications`, `send_to_sub`, `_fail_scheduled_notification` |
| Publishing | `api/serializers.py`, `api/viewsets.py` | `Notificatie`, `CloudEvent`, new rows | `POST /notificaties`, `POST /cloudevents`, resending from the admin |
| Response log | `api/tasks.py` `deliver_*`, `datamodel/models.py`, `datamodel/admin.py` | `NotificatieResponse`, `CloudEventResponse`, attempt numbers | logging in the `finally` clauses, `last_attempt`, cascades, the results in the admin |
| Subscriptions and channels | `api/serializers.py`, `api/viewsets.py`, `api/validators.py` | `Kanaal`, `Abonnement`, filter groups and filters | POST, PUT, PATCH, DELETE; the callback probe |
| Filter matching | `datamodel/models.py`, `api/serializers.py` | none (pure) | `match_pattern`, `match_filter_names`, `_get_subs` |
| Retention | `management/commands/clean_old_notifications.py` | the same tables | monthly deletion of old messages, cascading |
| Rollout | `bin/docker_start.sh`, `bin/setup_configuration.sh`, `*/migrations/`, `setup_configuration/`, `accounts/` | the schema, the recorded migrations, the admin index, the superuser, the configured objects | migrating, loading the index and the fixtures, creating the superuser, the configuration steps |
| Worker health | `celery.py`, `bin/check_celery_worker_liveness.py` | a heartbeat file, a readiness file | touch per heartbeat, create and remove, probes |
| Admin | `datamodel/admin.py`, `admin_filters.py` | sessions, the request that a `ModelAdmin` keeps, the same tables | results, status filter, resend, callback check, forms |
| Accounts | `accounts/` | users | managers, login metrics |
| Domain migration | `management/commands/migrate_domains.py` | URLs in several tables | a one-off rewriting |
| API plumbing | `api/fields.py`, `api/utils.py`, `utils/` | none | parsing, rendering, schema |
| Configuration, web assets, translations, fixtures, CI | `conf/`, `sass/`, `js/`, `fixtures/`, `templates/` | none | no behaviour of their own |

How they interact: publishing writes rows; Celery beat starts runs of
`execute_notifications`, which mark rows and queue tasks in the broker; worker
threads POST to subscribers and delete or re-schedule rows. Administrators,
subscribers and the retention job delete and change the parents of rows at any
moment, and the database cascades. No transaction spans two steps
(`ATOMIC_REQUESTS` is off, Celery acknowledges early), so the steps of all of
these interleave freely. The one exception is `AbonnementSerializer.create` and
`update`, which are `@transaction.atomic`.

What makes each component correct, and what is hard about it:

- *Delivery engine.* A row leaves the table only when it was delivered, given up
  or cancelled; it does leave in the end; nothing is sent to one subscriber twice
  at a time, after a success, or beyond the retry limit. Hard: a lock that
  expires, a stuck cutoff that cannot tell a dead task from a slow one, writes of
  values read long before, crashes between any two calls.
- *Publishing.* Every subscription that wants a message gets one row, nobody else
  does, and a publication schedules all of its rows or none, also one that dies
  before its answer. Hard: four statements without a transaction, two queries for groups
  and filters, foreign keys that fail.
- *Subscriptions.* A subscription is always what one request made of it. Hard: the
  instance is read before an HTTP probe and written after it; locks are taken in
  opposite orders by updates and deletions.
- *Filter matching.* A dictionary with normalised keys decides what several
  filters say.
- *Response log.* One entry per attempt, numbered so that the latest counts. Hard:
  logging may fail after a delivery succeeded; two publications read the last number
  before either writes; a deletion cascades while tasks log.
- *Rollout.* A container serves only when the database is that of its models, and it
  gets there. Hard: two containers migrate at once, a migration and its record are
  not always one transaction, people and older servers change rows meanwhile.
- *Worker health.* A worker that works is left alone, one that hangs is replaced.
  Hard: the files outlive their writer, four intervals race.
- *Admin.* What is shown belongs to what it is shown beside. Hard: a session outlives
  the subscriptions it tells about, threads share one `ModelAdmin`.
- *Retention.* It deletes what the other components work on, while they do.

`PROJECT.json` lists every such hazard at its line with the properties about it.

## 2. Modules

| module | what it models |
|---|---|
| `Delivery` | `api/tasks.py`: rows, lock, runs, queue, tasks, crashes, time |
| `DeliveryContract` | what the engine promises, without rows in progress, runs, locks, queues or time |
| `DeliveryImplements` | the refinement mapping from `Delivery` to `DeliveryContract` |
| `DeliveryProof` | theorems about `Delivery`, whatever falls behind |
| `DeliveryTimelyProof` | theorems about a deployment that keeps up (extends `DeliveryProof`) |
| `Subscriptions` | concurrent requests on `/abonnement`, channels that change |
| `SubscriptionContract` | what `/abonnement` promises: each request in one step or not at all, no locks, no transactions |
| `SubscriptionsImplement` | the refinement mapping from `Subscriptions` to `SubscriptionContract` |
| `SubscriptionsProof` | theorems about `Subscriptions` |
| `Publication` | POSTs and resends of messages, filter matching, changes around them |
| `PublicationProof` | theorems about `Publication` |
| `ResponseLog` | what is logged of deliveries, its numbering, deletions, the results in the admin |
| `ResponseLogProof` | theorems about `ResponseLog` |
| `Migrations` | the migrations as lists of operations, and what an operation does to a schema |
| `Rollout` | containers that migrate, configure and start (extends `Migrations`) |
| `RolloutFacts` | what each migration makes of the tables and of old rows (extends `Rollout`) |
| `RolloutProof` | theorems about `Rollout`, from `RolloutFacts` |
| `WorkerHealth` | the files of a worker, the probe, the orchestrator |
| `WorkerHealthProof` | theorems about `WorkerHealth` |
| `CallbackStatus` | the callback check of the admin and its list |
| `CallbackStatusProof` | theorems about `CallbackStatus` |
| `MCDelivery`, `MCSubscriptions`, `MCPublication`, `MCResponseLog`, `MCRollout`, `MCCallbackStatus` | instances for TLC; `WorkerHealth` needs none |

`Delivery` is the composition of the engine, the broker, the clock and those who
delete rows. `Publication` and `ResponseLog` meet it at the table of rows: the first
ends with the insertion of rows, which `Delivery` makes of any set of subscriptions;
the second keeps of `Delivery` that a row is started, answered, and settled or started
again, and adds what is written and read about it.

In every module a definition whose name has a suffix (`WorkerShutdown_Keeps`) and the comment
"mutant" is what a bug in that code would make of it; no specification uses it, and a
run that did would be refuted.

### Delivery

`table` is `datamodel_schedulednotification`: its domain are the rows that exist,
named by message and subscription; a record holds `type`, `in_progress`,
`execute_after` (`due`) and `task_attempt`. `lock` is what is left of the cache
key; `run[e]` what a thread of `execute_notifications` holds between two calls to
the database (`locked`, `counted`, `selected`, `marked`, `started`); `queue` the
`send_to_sub` messages in the broker; `task[w]` the object a worker thread read,
which it writes back at the end. `confirmed`, `failures` and `crashes` are history.

| code (`api/tasks.py`) | actions |
|---|---|
| `execute_notifications`: `cache.add` | `AcquireLock` |
| cutoff, configuration, count of rows in progress | `CountInProgress` |
| the two queries for rows, in the order of `execute_after` | `SelectIds` |
| the `UPDATE` by id | `MarkInProgress` |
| the loop that gives up or queues, `group.apply_async` | `StartTasks` |
| `cache.delete` | `ReleaseLock` |
| `send_to_sub` up to the POST | `StartTask`, `TaskAborts` (row gone, or `KeyError`) |
| `deliver_message`, `deliver_cloudevent`: the answer | `DeliverMessage`, `DeliverCloudEvent` |
| log and delete the row | `Succeed` |
| `_fail_scheduled_notification`, also after logging raised | `Fail` |
| a killed process, a lost broker message | `RunCrash`, `TaskCrash`, `LoseMessage` |

Abstractions. Time is relative: `due` is `execute_after` minus now, in ticks, and
is not told apart below `-Floor`, where a row is selectable and stuck whatever it
is. Rows with equal `execute_after` are selected in any order (the code orders
them by `attempt`; more behaviours are allowed here). A message is published to
any set of subscriptions (which one is the subject of `Publication`). A message
resent is another message. The answer and the log entry that belongs to it are
two steps, the log entry and the commit of its outcome one. Backoff has no jitter,
as in the code.

### Subscriptions

A column's value is abstracted to the request that wrote it, so that "these two
values come from one request" can be said. `req[q].instance` is what `get_object`
read, `seen` the groups a deletion has collected, `dropped` those it has deleted
and not yet committed; a request whose `pc` says that it is in its transaction
holds the row locks `RowLocked` and `GroupsLocked` speak of. Writes appear at the
commit, which is when others see them under READ COMMITTED.

| code | actions |
|---|---|
| `get_object` | `Fetch` |
| `CallbackURLValidator`, `CallbackURLAuthValidator` | `Probe` |
| `AbonnementSerializer.validate` | `CheckKanalen` |
| `create` | `Create` |
| `update`: `super().update`, which is `Model.save` | `SaveRow`, `InsertRow` |
| `filter_groups.all().delete()`, `cloudevent_filtergroups.all().delete()` | `ReadGroups`, `DropGroups` |
| `_create_kanalen_filters`, `_create_cloudevent_filters`, commit | `Replace` |
| `perform_destroy` | `ReadGroups`, `DropGroups`, `Destroy` |
| PostgreSQL | `DeadlockAbort`, `Crash` (rollback) |
| `KanaalViewSet`, `KanaalAdmin` | `SetKanaal`, `DeleteKanaal` |

`SubscriptionContract` keeps what a client sees: `client[q]` is whether its request has read
the row (`Read`) and how it was answered. A PUT or PATCH writes over the row as it read it,
in one step with its answer and with exactly its own groups. The mapping forgets locks
and what a transaction has not committed: `saved`, `read`, `cleared`, `collected` and
`dropped` are all `ready`.

### Publication

`pub[p]` is one POST or one resend; a stored `Notificatie` or `CloudEvent` is named
by the POST that created it (two POSTs of one event are two objects), and a resend
refers to such an object. `always` and `ever` are history: the subscriptions whose
filters wanted the message at every, or at some, moment since it came in. They are
computed by `Wanted`, which says what filters mean without the dictionaries of
`match_pattern`.

`Schedule` is the commit of the rows, and the answer to the publisher a step of its own. A
web worker may die before either, and `answer` says which: `crashed` before the commit,
`unheard` after it, when the rows are there and the publisher knows nothing of them.

The attributes of a notification have snake case keys when they are compared with
the filters of the channel, as the parser delivers them, and camel case ones when
they are compared with those of subscriptions (`Camelized`). A deletion and what it
cascades to are one step; the autocommit of every other statement makes each a step.

| code | actions |
|---|---|
| `NotificatieAPIView.post`, `CloudEventViewSet.create` | `Post` |
| `resend_notifications`, `resend_cloudevents` | `Resend` |
| `is_valid` | `Validate` |
| `Notificatie.objects.create`, `super().create` | `Store` |
| `_get_subs`: groups and subscriptions | `QueryGroups` |
| `_get_subs`: `prefetch_related`, `match_pattern`; `_validate_source` | `QueryFilters` |
| `bulk_create`, its commit | `Schedule` |
| the response, a refusal, an error | `Respond`, `Finish` |
| a web worker that dies | `Crash` |
| subscribers, administrators, retention | `Subscribe`, `Replace`, `Unsubscribe`, `Switch`, `SetKanaal`, `DeleteKanaal`, `Purge` |

The data of a message is a function from attributes to values. The data of an
event may be null, and is text when the event is resent (`CloudEvent.data` is a
text field): then "in" asks for a substring, which is taken to hold for exactly
the attributes of the data. That subscriptions replace their groups in one step is
what `Subscriptions` shows (`OneStepPerRequest`). A subscription that comes back after its
deletion (`RevivedByReader`) is a new one here: the cascade has taken everything of the old.

### ResponseLog

`log` holds the responses of both tables, `rows[r]` the `attempt` a row was made with,
`task[r]` what its task holds between the answer and the log entry (`posted`) and
between the entry and the outcome (`logged`). `doom` is a deletion under way: Django
collects responses and rows in two queries and deletes them in a transaction, which
fails when a response that came in between still refers to the object.

Whether an attempt at an event is logged is decided when its task starts: the task passes
on the `id` to log it by only when the subscription then has `send_cloudevents`
(`sendCE`). Otherwise the event is sent as a plain message and `deliver_message` is given
nothing to log it by (`logs`). `plain` says of a row that its task has a notification for
its arguments, which a subscription with `send_cloudevents` cannot be sent
(`poison_row`). Messages that are not stored (`LOG_NOTIFICATIONS_IN_DB` off) have no
responses and are not in this module.

| code | actions |
|---|---|
| a POST, `resend_notifications`, `resend_cloudevents` | `Store`, `Resend` |
| `last_attempt` per subscription, `bulk_create` | `Number`, `Schedule` |
| `deliver_message`, `deliver_cloudevent`: the answer, the `finally` clause | `Post`, `LogAnswer` |
| the deletion of the row, or `_fail_scheduled_notification` | `Settle` |
| a task that dies | `Crash` |
| `send_cloudevents` of a subscription is changed | `Switch` |
| `delete()` of a message or a subscription, with the cascade | `DeleteResponses`, `DeleteRows`, `DeleteObject` |
| `NotificatieAdmin`, `CloudEventAdmin`: results, `ResultFilter` | `Latest`, `EventResults`, `HasFailure`, `Listed` |

### Migrations and Rollout

`Migrations!Plan` lists the migrations of `accounts` and `datamodel` in the order
Django's graph gives them, each a sequence of operations on tables and columns;
`Models` is what `models.py` declares. A column is its type, length and constraints.
`Past` are the sets of migrations that can have been executed, a beginning of each app's,
and `Released` those that a released version has left (0009 to 0012 came together, and
0024 with 0023).
`Rollout` executes them: `pc[c]` is where a container is, `held[c].plan` the plan it
made before its first migration, `tables` the schema, which is `After(past)` for what has been
executed, `content` one old row of each of the two tables whose
values are moved, `twins` the tables with rows that violate a constraint to come.

| code | actions |
|---|---|
| `manage.py migrate`: the plan, a migration, its record | `PlanMigrations`, `Migrate`, `Record` |
| `update_admin_index` on `post_migrate` | `DeleteIndex`, `LookIndex`, `LoadIndex` |
| the fixtures that `docker_start.sh` loads | `LoadFixtures` |
| `createinitialsuperuser` | `CheckSuperuser`, `CreateSuperuser` |
| `KanaalConfigurationStep` | `ConfigureKanalen` |
| `AbonnementConfigurationStep` | `ConfigureAbonnement`, `FindGroup`, `CreateGroup`, `ConfigureFilter`, with `Filters`, `WithFilter`, `NextItem` |
| `set -e` and a restart | `Restart`, in each of these |
| the API, administrators, a server of the version before, a kill | `PutAbonnement`, `DeleteAbonnement`, `DeleteKanaal`, `EditUsers`, `RemoveTwins`, `OldPut`, `Killed` |

Abstractions. `setup_configuration` commits every statement here; if the library puts a
step in a transaction, that is the special case in which nobody comes between. A filter is
its key and whether it has the configured value: a group has the keys `ours` with that
value and `theirs` with another. `ConfigureFilter` writes one filter, in any order of the
keys, and leaves those of other keys as they are. One list of channels and event types is
configured (`Items`), its channels among `Kanalen`; an item that is listed twice with
different filters, what fixtures contain, the password of the superuser,
`AuthorizationStep` and the steps of libraries (OIDC, sites, services) are left out. The
numbers of groups count up from those in use
(`LastId`): of the sequence of a primary key only matters that it is ahead of them.

### WorkerHealth

A tick is ten seconds, the interval of the heartbeat. `readiness` and `heartbeat` (its
age) are the files, `worker` what the process does, `probe`, `failures` and
`terminating` what the orchestrator counts. Celery runs `call_repeatedly` in the event
loop of the consumer, so the timer stands still until the broker is reached and while
it is being reached again. `loop`, `silence`, `own` and `clean` are history.

| code | actions |
|---|---|
| `LivenessProbe.start`, `.update_heartbeat_file`, `.stop` | `StartSteps`, `UpdateHeartbeatFile`, `Stop` |
| `worker_ready`, `worker_shutdown` | `Connect`, `WorkerShutdown` |
| `check_celery_worker_liveness.py` | `Healthy`, in `Probe` |
| the consumer and its broker | `Connect`, `Disconnect` |
| the orchestrator | `Probe`, `Kill`, `StartContainer`, `Redeploy` |
| time and what breaks | `Tick`, `Hang`, `Crash`, `Outage` |

The orchestrator is one that restarts what its liveness probe refuses, as Kubernetes
does. The health check of `docker-compose.yml` runs the same script and only marks the
container. A container that starts again may find the files of the last one, or a new
file system.

### CallbackStatus

`store[a]` is the session of an administrator in the database, `req[t].session` the
copy a request loads at its start and saves at its end, `current` what
`AbonnementAdmin._request` holds: one attribute of one object that all threads of a
server process use. A status is stored under `callback_url` and `auth` (`KeyOf`).

| code | actions |
|---|---|
| the session is loaded | `Open`, `Post` |
| `changelist_view`, `StatusCodeFilter.queryset` | `ChangelistView` |
| the rows and `get_callback_url_reachable` | `ReadRows`, `ShowRow`, `CloseList` |
| the action, `check_all_callback_urls` | `CheckSelected`, `CheckAllCallbackUrls` |
| `check_callback_url_status` per row, the session middleware | `CheckRow`, `Respond` |
| others | `SetEndpoint`, `Delete`, `Flip` |

## 3. What is checked

| run | question | properties |
|---|---|---|
| `timely` | what does a deployment that keeps up guarantee, with crashes and deletions? | `OneTaskPerRow`, `RunsExclusive`, `LimitRespected`, `RetryBound`, `NoRedelivery` |
| `behind` | what is left of it in one that falls behind? | `TypeOK`, `HistoryAgrees`, `NoSilentLoss`, `ContractSpec` |
| `settles` | is every row settled in the end? | `EveryRowSettles` |
| `requests` | what do concurrent requests make of a subscription, and is each answered in spite of opposite lock orders? | `TypeOK`, `Untorn`, `RevivedByReader`, `GroupsConsistent`, `OneStepPerRequest`, `FailureLeavesNoTrace`, `EveryRequestAnswered` |
| `publish` | who gets a row, who does not, whatever changes meanwhile? | `TypeOK`, `NoneMissed`, `OneRowPerSub`, `AllOrNothing` |
| `log` | does the log tell what was delivered, and the admin what the log says? | `TypeOK`, `AttemptsGrow`, `NewestDecides`, `SettledAsLogged` |
| `rollout` | do containers that start at the same time get to the database and the configuration of their version? | `TypeOK`, `ServesOnItsModels`, `IndexRestored`, `ValuesKept`, `ConfiguredWhenDone`, `RolledOut` |
| `health` | is a worker restarted when, and only when, it stands still? | `TypeOK`, `BelievedBriefly`, `OnlyStandstillTerminated`, `HungReplaced`, `StaysUp` |
| `statuses` | does a status in the admin belong to what it is shown beside? | `TypeOK`, `ShownWasAnswered`, `OneCheck`, `ListAgrees` |

Three more runs end in a violation; section 4 tells of them.

Bounds, and why they are enough.

- `timely`: two messages for one subscriber (a cloud event and a notification), two
  threads of each kind, one slot (`Limit` 1), two retries, one crash. Two rows for
  one slot are what the limit is about, and two threads of a kind what the lock and
  the mark are about. `MaxRun < LockTimeout` and `MaxTask < StuckAfter` say that the
  deployment keeps up; without them the properties are false. The theorems about the
  same properties have these two hypotheses, and bounds for nothing else.
- `behind`: one row, two workers, a stuck cutoff of one tick and tasks of any age
  (`MaxTask` lies beyond `Floor`), one crash, every operation. Two stale tasks of one
  row are the shortest way to a lost update. That runs overlap, and with more of
  everything, the theorems cover.
- `settles`: two rows, one slot, one crash, no symmetry.
- `requests`: three requests, each a PUT, PATCH or DELETE of one subscription or a POST
  of another, and a channel whose filters are set once and which may be deleted.
  Three allow a deletion between two updates, and a third request behind two that
  wait for each other.
- `publish`: two publications out of three messages, two subscriptions that each
  have one of two sets of groups, two changes. A change and its reverse, or a
  deletion and another publication of the event, fit in, and so does the retry of a
  publisher whose first attempt went unheard.
- `log`: two publications of two cloud events that share an `id`, or of a
  notification, to two subscriptions, two rows, one retry, one crash or deletion. Two
  publications of one object are what the numbers tell apart; a third has the same
  two neighbours. Both subscriptions have `send_cloudevents` at first; in place of the
  crash or deletion one of them may be switched off.
- `rollout`: the set-up container and two servers, on an empty database or one of three
  earlier versions, and one kill or change by somebody else. From the version before,
  containers may migrate at the same time; from older ones only the set-up does, as
  `depends_on` in `docker-compose.yml` has it (`ordered`). A channel is configured with two
  filters and an event type with none; somebody else may leave groups for either or for
  another type, with a filter of a configured key and one of another key. Fixtures that do
  not load count as the one failure.
- `health`: the intervals of `celery.py`, the script and `docker-compose.yml` (60 s of
  patience, a probe every 30 s after the first 10, three failures), 30 s to stop as
  Kubernetes grants by default, a boot of at most 50 s, three faults. Two
  faults make a restart beside stale files, the third breaks that.
- `statuses`: two administrators, two threads, two subscriptions with one address and
  two credentials, two checks, one list, one change. The list needs one check before
  and one meanwhile.

Fairness.

- `Delivery!Fairness`: beat keeps starting runs (weak fairness of `AcquireLock`), a
  thread that holds work goes on (weak fairness of `RunStep` and `TaskStep`; a POST
  has the timeout `NOTIFICATION_REQUESTS_TIMEOUT`), the broker hands out its messages
  in order, so that one that is taken again and again by others' turns comes up itself
  (strong fairness of `TakeTask`), and time passes.
- `Subscriptions!FairSpec`: a request goes on (every call has a timeout,
  `setup.py:84`) or is ended by PostgreSQL as part of a deadlock.
- `Rollout!FairSpec`: a container runs and is started again when it stops. Kubernetes
  does so; `docker-compose.yml` has no restart policy, and there a failure stays.
- `WorkerHealth!FairSpec`: time passes and the orchestrator does what is due. `Tick`
  waits for what is due, so a worker's steps are not late either.

No publisher, administrator, request, crash or fault is forced.

Deadlock is checked in the runs of `Delivery` and `WorkerHealth`. In the other modules
everything that was to be done may be done, so their runs do not check it.

## 4. Where the code departs from what it says

Each of these runs ends with a behaviour of the code.

- `poison_row`: a notification is scheduled, its subscription is switched to
  `send_cloudevents`, and the task reads `msg["id"]` of a message that has none,
  outside the `try`. The row is never counted, deleted or delivered: it is
  restarted as stuck for ever and takes a slot of `NOTIFICATION_LIMIT` while it
  does (`tasks.py:264`).
- `torn_filters`: groups are read in one query and filters in a second; a group that
  was replaced in between has no filters and matches everything
  (`serializers.py:273`).
- `lost_event`: a cloud event is stored, its `bulk_create` fails because a matching
  subscription is gone, and the retry is refused as a duplicate
  (`serializers.py:438`).

The models contain more that is no run of its own. About deliveries and publications:

- A cloud event row whose subscription is switched back to plain notifications is
  POSTed as a plain message, although `tasks.py:235` says otherwise: the format is
  read when the task starts (`StartTask`, `Post`). Such an attempt is logged nowhere, since
  `deliver_message` gets no `id` of a notification (`tasks.py:206`, `tasks.py:271`), while
  its success deletes the row. `SettledAsLogged` says that these are the only deliveries
  that leave no trace.
- A web worker that dies between the commit of the rows and the response leaves them
  scheduled, and the publisher hears nothing. The retry of a notification is delivered
  beside them, as another message; that of a stored event is refused as a duplicate
  (`unheard`).
- In a deployment that falls behind `RetryBound` fails: a task older than the stuck
  cutoff writes its old attempt count over a newer one (`Retried`).
- The log entry of a delivered cloud event is looked up by `id` alone
  (`tasks.py:208`). Events of two sources that share an id make the lookup fail after
  the subscriber has confirmed, and the event is delivered again
  (`ResponseLog!LogAnswer`, with `SharedId`).
- A cloud event with `data: null` fails with a `TypeError` for a subscription with
  filters, after it was stored; so does a resent event with data (`MatchRaises`).
- The keys of filters are brought into camel case, those in the data of an event are
  not (`Compared`): an attribute `zaak_type` of an event is compared with no filter,
  and the event is forwarded although a filter refuses it (`models.py:432`). The
  instance spells the keys of its events in camel case.

About subscriptions:

- A PUT or PATCH that read the subscription before a DELETE was answered inserts it
  again (`InsertRow`, `serializers.py:229`). `RevivedByReader` says that this is the
  only way in which a deleted subscription comes back.
- A PATCH that names no filters deletes all of them (`serializers.py:233`), and writes
  the columns it does not name back to what it read, over another PATCH (`Merged`).
- A group may filter by attributes that its channel does not have, if it filters by all
  that the channel has: `match_filter_names` accepts either direction, and
  `match_pattern` never reads such a filter, for no message of the channel carries the
  attribute (`models.py:435`). `GroupsConsistent` says no more than what is accepted.
- `GroupsConsistent` holds only while channels keep their filters: nothing checks
  subscriptions against a channel that is changed.

About the admin:

- The list of failed messages takes every response into account, not the latest: a
  message that was delivered at the second attempt stays among the failed ones, while
  `docs/manual/notifications.rst` has the list show what was not delivered
  (`HasFailure`). An attempt without an answer has no status and is never a failure.
- Responses of automatic retries share an attempt number, so which of them counts as
  the latest is left to the database (`Latest` is a set).
- `AbonnementAdmin._request` is shared by the threads of a server process: an
  administrator is shown the results of another one's session (`ShowRow`,
  `admin.py:173`). They were answered all the same (`ShownWasAnswered`), but the
  filter went by the own session, which is why `ListAgrees` speaks of a list nobody
  came between.
- Of two checks at a time the one that ends last wins, also when it began first
  (`Respond`).
- "No" in the filter for reachable callback URLs includes the ones that were never
  checked (`Selects`).

About a rollout: what `Blocked` lists does not resolve itself by restarting. A
migration that creates tables is recorded after its transaction, so a container that is
killed in between leaves one that fails for ever (`Torn`); rows that violate a new
constraint, a client id that does not fit its new column, a renamed superuser who keeps
the e-mail address, and two groups of one channel that the API has made stop it
likewise. Two containers that migrate an older database at once can drop the column
that holds the status codes, since the second executes the same plan (hence `ordered`).
What an old server writes to `auth_client_id` after it was copied is lost (`late`). A
subscription that is configured for nothing stops the set-up for ever
(`abonnementen.py:53`, in `Blocked`); so does a fixture that never loads, which the model
counts as a fault each time.

The set-up adds to what it finds: filters of keys that are not configured, and groups of
channels and types that are not, remain as the API left them (`abonnementen.py:67`,
`abonnementen.py:89`), and such a filter may still keep messages away.
`ConfiguredWhenDone` is about the configured ones only.

About the worker: while it waits for a broker that is down no heartbeat is written, so
it is restarted after some two minutes, over and over until the broker is back; and a
boot that takes longer than the probe's patience is restarted for ever
(`WorkerAssumption` excludes it).

## 5. What is proved

`DeliveryProof` proves for every value of the constants, from
`ConstantsAssumption` (types of the settings, the bounds are natural numbers, the
set of rows is finite) and `BackoffAssumption` (a backoff lies between 0 and its
maximum), which TLC evaluates in every run:

- `TypeCorrect`: `TypeOK` is inductive as it stands.
- `HistoryCorrect`: `HistoryAgrees`. It is inductive together with `TypeOK`. The
  part about tasks is needed for the part about rows: `Fail` writes
  `task[w].attempt + 1` into the row, whatever the row holds, and this is at most
  `failures` only because what the task read was.
- `NothingLostSilently`: `NoSilentLoss`. A row that is given up has failed more
  often than the limit by `HistoryAgrees`, one that is deleted as delivered was
  confirmed by it; one that goes with its subscription or message is
  `Gone`, because by the invariant `Provenance` every row, task, confirmation and
  failure is of a message that has been published.
- `ContractImplemented`: every behaviour is one of `DeliveryContract`. Each action
  maps to a step of the contract or to a stutter. `HistoryAgrees` supplies what
  `Settle` and `GiveUp` ask for, and `Provenance` that what `Accept` opens is new.
- `RunsExcludeEachOther`: if `MaxRun < LockTimeout`, runs exclude each other and a
  run holds its lock. The inductive invariant `RunsHoldLock` says that the lock's
  remaining time plus a run's age is at least the timeout.

`DeliveryTimelyProof` proves the properties of `timely` for any number of rows, threads
and crashes, each from no more of "the deployment keeps up" than it needs. `KeepsUp` is:
a run of `execute_notifications` ends before its lock expires
(`NOTIFICATION_SEC_INTERVAL - 1` seconds) and, like every task, before the stuck cutoff
(ten times `NOTIFICATION_REQUESTS_TIMEOUT`). The code enforces neither: a POST has a
timeout, but a run has none, and one that queues many rows may take longer.
`behind` shows what is left then.

- `NoConcurrentDeliveries` (`OneTaskPerRow`) from `KeepsUp`. The inductive `TimelyInv`
  has `RunsHoldLock`; `OneCopy` (a row has one message in the broker or one task);
  `BusyRows` (a row with either is marked, and was marked less than the cutoff ago, which
  is why no run selects it); `RunsIdsFree` (what a run has selected or marked nobody
  works on). The last needs the lock: between the query and the `UPDATE` no other
  run may queue the same rows.
- `LimitHolds` (`LimitRespected`) needs only `MaxRun < LockTimeout`: tasks may take any
  time. `LimitInv` adds that a run that has counted leaves room for what it may still
  select and mark (`RoomFor`); only the holder of the lock makes rows in progress.
- `RetriesBounded` (`RetryBound`) from `KeepsUp`, while nobody lowers or raises the
  limit (no `"configure"` among the `Operations`): an administrator who lowers it makes
  every row exceed it at once. `AttemptsCounted` says that the counter of a row is
  exactly the number of its failures, which is what overlapping tasks would break.
- `NoneAfterSuccess` (`NoRedelivery`, an action property) from `KeepsUp` and `UniqueIds`
  (no two events of different sources share an id; section 4 tells what happens when
  they do). `ConfirmedOnce` says that a confirmed row is about to be deleted by the task
  that was answered; `ParentsExist` that logging does not fail for a missing parent.

`PublicationProof` proves from `PublicationAssumption` (types of the constants; the wildcard is
no value; notifications have data) that `PublicationInv` is inductive. Its parts:

- `PublicationsFit`: a publication has an answer when it is over, and what a resend refers
  to was made by a POST that has gone past the table.
- `StoredOnce`: only POSTs that log store, and an event once. `RowsOfCreated`: there is one
  row per subscription, if any, and only of a publication that committed its rows, answered
  or not.
- `AlwaysWanted` and `AllCarried` follow a subscription that wants the message all along:
  its group is among those of the first query with filters that the message satisfies, what
  the second query sees of it matches, and so it is among those to schedule. Here the
  lemmas about the operators come in: `SatisfiedMatches` (what the filters say by
  themselves implies what `match_pattern` says of its dictionary, in which the last filter
  of a key wins) and `NoFiltersMatch`.

From it: `TypeCorrect`, `NobodyLeftOut` (`NoneMissed`), `AllRowsOrNone`
(`AllOrNothing`) and `OneRowEach` (`OneRowPerSub`). The last assumes `LogInDb`.
With `LOG_NOTIFICATIONS_IN_DB` off, which is the default, no event is stored, nothing
recognises its second POST, and both are scheduled; that each of them has at
most one row per subscription is part of `RowsOfCreated` and holds with either setting.

`ResponseLogProof` proves from `ResponseLogAssumption` (an object is no subscription; finitely
many publications) that `LogInv` is inductive. Its parts:

- `Begun` and `ForSubs`: rows, tasks and responses are those of a publication that has made
  its rows, which it does once.
- `Numbered`: no attempt number exceeds the number of publications, so there is a greatest.
- `EarlierStay` and `Grown`: the responses that were there when a publication began are still
  there or cannot return, and whatever it numbers is above them. `Grown` is about rows, tasks
  and responses at once, because the number travels from one to the next.
- `Tallied`, `LoggedAsTried`: a row has an entry per try, but for what is known to be `lost`
  and for tries of which a worker died between the entry and the outcome.
- `Doomed`: a deletion takes only responses of what it deletes.
- `Events`: the rows of an event are of subscriptions that have `send_cloudevents` or were
  switched, and a task that logs nothing sends an event to one that was switched.

From it: `TypeCorrect` (whose part about foreign keys is what deletions could break),
`NumbersGrow` (`AttemptsGrow`), `ResultsAreNewest` (`NewestDecides`) and `NoneUntraced`
(`SettledAsLogged`, an action property).

`CallbackStatusProof` proves from `CallbackStatusAssumption` (endpoints are pairs of URL and
auth; bounds are natural numbers) that `StatusInv` is inductive. Its parts:

- `Answered`: every status in a session, in a request's copy of one and in the request that
  `AbonnementAdmin` keeps was an answer to a check, at whichever of these places it is
  shown from (`ShownIsAnswered`).
- `ChecksApart`, `ChecksHold`, `NotStored`: a check under way has a number of its own, its
  results are all of its answers, and no session has any of them yet; so what
  `Respond` saves is one check, whole (`SessionsHoldOneCheck`).
- `ListsAlone`: while nobody comes between, the request that is stored is that of the list,
  and its rows are what its filter saw (`ListMatchesFilter`).

`RolloutProof` proves for any set of containers, any configuration and any number of faults,
from `RolloutAssumption` (earlier versions are `Released` beginnings of the migrations). Three
theorems need nothing about what migrations do:

- `IndexComesBack` (`IndexRestored`): inductive as it stands. Only a container that migrates
  deletes the index, and it goes on only when the index is there, loaded by itself or by
  another; one that finds nothing to migrate passes the same way.
- `AllMigrationsRecorded`: a container serves only when every migration is recorded. What is
  not recorded is in the plan of each container that migrates (`Planned`), and nothing
  removes a record.
- `SetUpAsConfigured` (`ConfiguredWhenDone`) from `OneSetup`: one container executes the
  configuration, the `web-init` of `docker-compose.yml`. `PreparedAlone` says how far it is at
  each step, that all items before the current one have one group in which the configured
  filters have their configured values, and, once `update_or_create` has found or made a
  group, that there is no other for this item and that its filters outside `todo` have
  theirs. Filters of other keys and groups of other items may be there still.
  Two set-ups at a time would each create one, which is why the hypothesis is needed; that
  the groups are left by the API, an administrator or an earlier attempt does not matter.

Three more are about tables and rows and assume `Orderly`: there is one `web-init`, on which the
others wait by `depends_on` with `service_completed_successfully`, except from versions
that have 0012 already, from which any number may migrate at a time. Without that they are
false: section 4 has the two containers that lose the statuses. `DatabaseInv` says that
some `past` has been executed:

- `Agrees`: the tables are those after `past`. What is executed and not recorded is a migration
  that is recorded after its transaction, and a container's plan leaves out
  nothing that has not been executed.
- `Alone` or `Meeting`: either one container migrates at a time, and what it may have executed
  and not recorded comes before everything it has to do; or several do, and 0001 to 0012
  are recorded and in nobody's plan. Then a container may come to a migration that another one
  has executed. `MigrationAgain` says that it fails or changes nothing; one of those before
  0013 would do neither, and `Alone` is why it is not repeated.
- `RowsAgree`: the rows have the columns of their tables and hold what must be kept where it
  has to be after `past` (`Sound`): a client id in one column until it is merged, in the
  other from then on; a status in the column that is copied, renamed and dropped around it.

From it: `ServesOnModels` (`ServesOnItsModels`), `ValuesSurvive` (`ValuesKept`) and, with `TypeInv`,
`TypeCorrect`. `TypeInv` bounds the numbers of groups (`Numbered`), since a greatest one
must exist for the next to be new.

`RolloutFacts` has the facts about single migrations that these proofs use: that each executes in
its turn and leads to the tables of the longer plan, what it does to any row of its
tables, what a second execution does, and that the whole plan makes `Models`. Tables are
folds over the operations of the concrete migrations, which the provers cannot compute. The
facts have no parameter, though: there is one list of 30 migrations, 108 sets of it can have
been executed, and a row has at most two columns of six values. They are named assumptions that
TLC evaluates, every case of them, before the run `rollout`; the theorems are as good as that
computation.

`WorkerHealthProof` proves from `WorkerAssumption` (natural numbers, a heartbeat and a
probe's period shorter than the patience) that the inductive invariant `HealthInv`
holds, whose parts are needed for each other:

- `FilesInv`: whose files there are. Readiness is there once `worker_ready` was sent,
  a worker that stops has unlinked its heartbeat, and beside a clean start there is
  no heartbeat but the worker's own.
- `SilenceInv`: the heartbeat file is at least as old as the silence, so a probe that
  passes bounds the silence by `MaxDelta`, and what has passed since by one period.
- `LoopInv`: a loop has written the file within an interval or has run for less than
  one, which is the argument that a probe passes while the loop works; it needs
  `FilesInv` for the readiness file.

- `CreditInv`: a probe passes by files of this process, or of one that was killed.

From it: `HealthTypeCorrect`, `FilesBelievedBriefly` (`BelievedBriefly`) and
`WorkingWorkerKept` (`OnlyStandstillTerminated`, an action property).

`SubscriptionsProof` proves for any number of requests, subscriptions and channels, from
`SubscriptionAssumption` (types of the constants), that `SubscriptionsInv` is inductive. Its
parts, and what needs them:

- `UpdatesExclusive`: the row's lock is with one update at a time. `UpdatesSeeAll`: so an
  update that has read the groups to delete has read all there are, which is why the
  groups that it creates are the only ones (`OneAuthor`). It needs `PostsAlone` too:
  a POST, which takes no lock, creates groups where nobody else is.
- `RequestsFit`: what a request remembers fits its method and place; an update that
  saves its row holds an instance, and a success answers a request for the first time.
- `ChannelsExist`: a group's channel exists, so that only the deletion of the channel
  takes the group along. `ValidatedAgrees` and `GroupsAgree`: what was validated, then
  created, agrees with its channel unless the channel was changed since.
- `DeletedKnown`: of a deleted subscription only its readers know, or one of them has
  been answered with success.

From it: `TypeCorrect`, `FiltersOfOneRequest` (`OneAuthor`, which the contract implies),
`FiltersFitChannels` (`GroupsConsistent`), `DeletedStaysAway` (`RevivedByReader`), and, of every step,
`NoTraceOfFailures` (`FailureLeavesNoTrace`). `SubscriptionsAreWhole` proves `Untorn`
when every PUT names all columns of `Field` (`WholeBodies`): the serializer requires
`callback_url` and `auth`, which are the columns of the run, while a PUT may leave
`send_cloudevents` out and then the row keeps the value that it had.

`RequestsAreAtomic` proves that `Subscriptions` implements `SubscriptionContract`
(`OneStepPerRequest`). Every step is one of the contract or changes nothing a client sees: a
lemma per action (`FetchImplements`, `ReplaceImplements`, ...) says which. What it takes from the
invariant is `UpdatesSeeAll` for `Replace` (the groups that remain are those of the request
alone), `PostsAlone` for `Create` (the key is new) and `RequestsFit` for what a request may
be answered at each place.

Only model-checked:

- Liveness (`EveryRowSettles`, `EveryRequestAnswered`, `RolledOut`, `HungReplaced`, `StaysUp`):
  fairness and ENABLED are out of the prover's reach.
- The facts of `RolloutFacts`, which TLC computes completely.
- The violations of section 4: a run shows each of them.

## 6. What is not modelled

- Editing subscriptions, groups and single filters in forms of the admin: each is one
  write of one row without the steps of the API, and `Publication!Replace` and
  `Subscriptions` already let any other writer come between.
- Retention's choice of old messages (`aanmaakdatum` compared with a date): a deletion
  may hit any message at any moment in `Delivery`, `Publication` and `ResponseLog`.
- Domain migration: a sequential rewriting of URLs that runs once, alone.
- Accounts beyond the superuser: a user manager, and counters of logins.
- API plumbing: parsing, rendering, the OpenAPI schema, metrics. Pure functions and
  I/O; what a property depends on (camel case, text data) is in `Publication`.
- Configuration and web assets: settings are the constants of the modules.
- Steps of `setup_configuration` that belong to libraries.

What could be proved next: that `Delivery` and `ResponseLog`, each of which models as much of
the other as it needs of the table of rows, agree about every row that they share.
