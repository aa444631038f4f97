----------------------------- MODULE CallbackStatus -----------------------------
(***************************************************************************)
(* The check of callback URLs in the admin (datamodel/admin.py): its       *)
(* results are kept in the session of the administrator, the list of       *)
(* subscriptions shows them and is filtered by them.                       *)
(*                                                                         *)
(* A session is read when a request comes in and written when it is over.  *)
(* AbonnementAdmin is one object in a server process: what a request       *)
(* stores in it is seen by the threads that serve others (docker_start.sh  *)
(* starts uwsgi with --threads).                                           *)
(***************************************************************************)
EXTENDS Naturals, FiniteSets, Functions

CONSTANTS
    Admin,      \* the administrators; each has a session
    Thread,     \* the threads of one server process
    Abonnement,
    Endpoint,   \* pairs of callback_url and auth
    MaxChecks,  \* bound: checks that are made
    MaxViews,   \* bound: lists that are opened
    MaxChanges  \* bound: subscriptions that are changed, endpoints that go up and down

VARIABLES
    subs,       \* the subscriptions that exist, with their endpoints
    reachable,  \* the endpoints that answer a probe with 2xx
    store,      \* the results in the session of each administrator
    current,    \* AbonnementAdmin._request: its thread while it lasts, and the session it holds
    req,        \* what a thread does
    views, changes,
    made,       \* history: how many checks were started; each is known by its number
    log         \* history: the answers that each check was given

vars == <<subs, reachable, store, current, req, views, changes, made, log>>
-----------------------------------------------------------------------------
Nobody == "nobody"
Choice == {"all", "true", "false", "unknown"}
NoResults == [key \in {} |-> FALSE]

KeyOf_Url(endpoint) == endpoint[1]      \* mutant: without auth
\* What a status is stored under.
KeyOf(endpoint) == <<endpoint[1], endpoint[2]>>

ASSUME CallbackStatusAssumption ==
    /\ Nobody \notin Admin \cup Thread
    /\ \A d, e \in Endpoint : d[1] = e[1] /\ d[2] = e[2] => d = e
    /\ MaxChecks \in Nat /\ MaxViews \in Nat /\ MaxChanges \in Nat

\* f with the value v for k.
With(f, k, v) == [x \in DOMAIN f \cup {k} |-> IF x = k THEN v ELSE f[x]]
PartOf(D, R) == UNION {[E -> R] : E \in SUBSET D}

Results == [ok : BOOLEAN, by : 1..MaxChecks]
Session == PartOf({KeyOf(e) : e \in Endpoint}, Results)
Rows == PartOf(Abonnement, Endpoint)
Stage == {"idle", "opened", "listed", "rendering", "posted", "checking"}

\* alone: history: nobody has stored a request, or changed a subscription, since.
Idle == [at |-> "idle", admin |-> Nobody, session |-> NoResults, choice |-> "all",
         check |-> 0, rows |-> NoResults, results |-> NoResults,
         shown |-> NoResults, alone |-> TRUE]

\* Of a row that is shown: its status, or none.
Request == [at : Stage, admin : Admin \cup {Nobody}, session : Session, choice : Choice,
            check : 0..MaxChecks, rows : Rows, results : Session,
            shown : PartOf(Abonnement, SUBSET Results), alone : BOOLEAN]

TypeOK ==
    /\ subs \in Rows /\ reachable \subseteq Endpoint
    /\ store \in [Admin -> Session]
    /\ current \in [thread : Thread \cup {Nobody}, session : Session]
    /\ req \in [Thread -> Request]
    /\ \A t \in Thread :
          /\ req[t].check <= made /\ (req[t].at # "idle" => req[t].admin \in Admin)
          /\ DOMAIN req[t].shown \subseteq DOMAIN req[t].rows
          /\ current.thread = t => req[t].at # "idle" /\ current.session = req[t].session
    /\ views \in 0..MaxViews /\ changes \in 0..MaxChanges /\ made \in 0..MaxChecks
    /\ log \subseteq [endpoint : Endpoint, ok : BOOLEAN, by : 1..made]

Init ==
    /\ subs \in [Abonnement -> Endpoint] /\ reachable \in SUBSET Endpoint
    /\ store = [a \in Admin |-> NoResults]
    /\ current = [thread |-> Nobody, session |-> NoResults]
    /\ req = [t \in Thread |-> Idle]
    /\ views = 0 /\ changes = 0 /\ made = 0 /\ log = {}

\* The threads' requests, when t's is stored in AbonnementAdmin.
Interrupted(t, own) ==
    [u \in Thread |-> IF u = t THEN own ELSE [req[u] EXCEPT !.alone = FALSE]]
\* A request is over; the object that is stored stays what it was.
Finish(t) ==
    /\ req' = [req EXCEPT ![t] = Idle]
    /\ current' = IF current.thread = t THEN [current EXCEPT !.thread = Nobody] ELSE current
-----------------------------------------------------------------------------
(* The list of subscriptions.                                                *)

Open(t, a, choice) ==
    /\ req[t].at = "idle" /\ views < MaxViews
    /\ views' = views + 1
    /\ req' = [req EXCEPT ![t] = [Idle EXCEPT !.at = "opened", !.admin = a, !.choice = choice,
                                              !.session = store[a]]]
    /\ UNCHANGED <<subs, reachable, store, current, changes, made, log>>

\* StatusCodeFilter.queryset: "No" is whatever is not "Yes".
Selects(results, choice, endpoint) ==
    LET key == KeyOf(endpoint)
        known == key \in DOMAIN results
    IN
    CASE choice = "true" -> known /\ results[key].ok
      [] choice = "false" -> ~known \/ ~results[key].ok
      [] choice = "unknown" -> ~known
      [] choice = "all" -> TRUE

Listed(session, choice) ==
    IF session = NoResults THEN DOMAIN subs
    ELSE {s \in DOMAIN subs : Selects(session, choice, subs[s])}

\* changelist_view: the request is stored, the filter picks ids by its own session.
ChangelistView_Once(t) ==               \* mutant: the request is stored if there is none
    /\ req[t].at = "opened"
    /\ current' = IF current.thread = Nobody /\ current.session = NoResults
                    THEN [thread |-> t, session |-> req[t].session] ELSE current
    /\ req' = Interrupted(t, [req[t] EXCEPT !.at = "listed",
                                !.rows = Restrict(subs, Listed(req[t].session, req[t].choice))])
    /\ UNCHANGED <<subs, reachable, store, views, changes, made, log>>
ChangelistView(t) ==
    LET ids == Listed(req[t].session, req[t].choice) IN
    /\ req[t].at = "opened"
    /\ current' = [thread |-> t, session |-> req[t].session]
    /\ req' = Interrupted(t, [req[t] EXCEPT !.at = "listed", !.rows = Restrict(subs, ids)])
    /\ UNCHANGED <<subs, reachable, store, views, changes, made, log>>

ReadRows_Again(t) ==                    \* mutant: the query is evaluated again meanwhile
    /\ req[t].at \in {"listed", "rendering"}
    /\ req' = [req EXCEPT ![t].at = "rendering",
                          ![t].rows = Restrict(subs, DOMAIN @ \cap DOMAIN subs)]
    /\ UNCHANGED <<subs, reachable, store, current, views, changes, made, log>>
\* The rows with these ids are read, in a second query.
ReadRows(t) ==
    /\ req[t].at = "listed"
    /\ req' = [req EXCEPT ![t].at = "rendering",
                          ![t].rows = Restrict(subs, DOMAIN @ \cap DOMAIN subs)]
    /\ UNCHANGED <<subs, reachable, store, current, views, changes, made, log>>

\* get_callback_url_reachable, for one row after the other, by the session of the
\* request that is stored by then.
ShowRow(t, s) ==
    LET key == KeyOf(req[t].rows[s])
        known == key \in DOMAIN current.session
    IN /\ req[t].at = "rendering" /\ s \in DOMAIN req[t].rows \ DOMAIN req[t].shown
       /\ req' = [req EXCEPT ![t].shown =
                    With(@, s, IF known THEN {current.session[key]} ELSE {})]
       /\ UNCHANGED <<subs, reachable, store, current, views, changes, made, log>>

CloseList(t) ==
    /\ req[t].at = "rendering" /\ DOMAIN req[t].shown = DOMAIN req[t].rows
    /\ Finish(t)
    /\ UNCHANGED <<subs, reachable, store, views, changes, made, log>>
-----------------------------------------------------------------------------
(* The check.                                                                *)

Post(t, a) ==
    /\ req[t].at = "idle" /\ made < MaxChecks
    /\ made' = made + 1
    /\ req' = [req EXCEPT ![t] = [Idle EXCEPT !.at = "posted", !.admin = a, !.check = made + 1,
                                              !.session = store[a]]]
    /\ UNCHANGED <<subs, reachable, store, current, views, changes, log>>

\* The action is posted to changelist_view, and is about what was selected;
\* check_all_callback_urls has an address of its own and takes all.
CheckSelected(t, ids) ==
    /\ req[t].at = "posted" /\ ids \subseteq DOMAIN subs /\ ids # {}
    /\ current' = [thread |-> t, session |-> req[t].session]
    /\ req' = Interrupted(t, [req[t] EXCEPT !.at = "checking", !.rows = Restrict(subs, ids)])
    /\ UNCHANGED <<subs, reachable, store, views, changes, made, log>>

CheckAllCallbackUrls(t) ==
    /\ req[t].at = "posted"
    /\ req' = [req EXCEPT ![t].at = "checking", ![t].rows = subs]
    /\ UNCHANGED <<subs, reachable, store, current, views, changes, made, log>>

\* One subscription of the loop; one whose endpoint was probed before gets its status.
CheckRow_Again(t, s) ==                 \* mutant: without the test of the key
    LET e == req[t].rows[s]
        answer == [ok |-> e \in reachable, by |-> req[t].check]
    IN /\ req[t].at = "checking" /\ s \in DOMAIN req[t].rows
       /\ log' = log \cup {[endpoint |-> e, ok |-> answer.ok, by |-> answer.by]}
       /\ req' = [req EXCEPT ![t].rows = Restrict(@, DOMAIN @ \ {s}),
                             ![t].results = With(@, KeyOf(e), answer)]
       /\ UNCHANGED <<subs, reachable, store, current, views, changes, made>>
CheckRow(t, s) ==
    LET e == req[t].rows[s]
        answered == KeyOf(e) \in DOMAIN req[t].results
        answer == [ok |-> e \in reachable, by |-> req[t].check]
    IN /\ req[t].at = "checking" /\ s \in DOMAIN req[t].rows
       /\ log' = IF answered THEN log
                 ELSE log \cup {[endpoint |-> e, ok |-> answer.ok, by |-> answer.by]}
       /\ req' = [req EXCEPT ![t].rows = Restrict(@, DOMAIN @ \ {s}),
                             ![t].results = IF answered THEN @ ELSE With(@, KeyOf(e), answer)]
       /\ UNCHANGED <<subs, reachable, store, current, views, changes, made>>

\* The results replace those of the session, which is written with the response.
Respond(t) ==
    /\ req[t].at = "checking" /\ DOMAIN req[t].rows = {}
    /\ store' = [store EXCEPT ![req[t].admin] = req[t].results]
    /\ req' = [req EXCEPT ![t] = Idle]
    /\ current' = IF current.thread = t
                    THEN [thread |-> Nobody, session |-> req[t].results] ELSE current
    /\ UNCHANGED <<subs, reachable, views, changes, made, log>>
-----------------------------------------------------------------------------
(* Everybody else.                                                           *)

SetEndpoint(s, e) ==
    /\ changes < MaxChanges /\ changes' = changes + 1
    /\ s \in DOMAIN subs => subs[s] # e
    /\ subs' = With(subs, s, e)
    /\ req' = [t \in Thread |-> [req[t] EXCEPT !.alone = FALSE]]
    /\ UNCHANGED <<reachable, store, current, views, made, log>>

Delete(s) ==
    /\ changes < MaxChanges /\ changes' = changes + 1
    /\ s \in DOMAIN subs /\ subs' = Restrict(subs, DOMAIN subs \ {s})
    /\ UNCHANGED <<reachable, store, current, req, views, made, log>>

Flip(e) ==
    /\ changes < MaxChanges /\ changes' = changes + 1
    /\ reachable' = (reachable \cup {e}) \ (reachable \cap {e})
    /\ UNCHANGED <<subs, store, current, req, views, made, log>>

Next ==
    \/ \E t \in Thread :
          \/ \E a \in Admin, choice \in Choice : Open(t, a, choice)
          \/ ChangelistView(t) \/ ReadRows(t) \/ CloseList(t)
          \/ \E s \in Abonnement : ShowRow(t, s) \/ CheckRow(t, s)
          \/ \E a \in Admin : Post(t, a)
          \/ \E ids \in SUBSET Abonnement : CheckSelected(t, ids)
          \/ CheckAllCallbackUrls(t) \/ Respond(t)
    \/ \E s \in Abonnement, e \in Endpoint : SetEndpoint(s, e)
    \/ \E s \in Abonnement : Delete(s)
    \/ \E e \in Endpoint : Flip(e)

Spec == Init /\ [][Next]_vars
-----------------------------------------------------------------------------
(* Properties.                                                               *)

\* A status that is shown beside a subscription was the answer of its endpoint, with
\* the callback_url and auth that are shown, whoever changed them since the check and
\* whoever's session it is taken from (get_callback_url_reachable).
ShownWasAnswered ==
    \A t \in Thread : \A s \in DOMAIN req[t].shown : \A status \in req[t].shown[s] :
        [endpoint |-> req[t].rows[s], ok |-> status.ok, by |-> status.by] \in log

\* A session holds exactly what one check was answered, one status per endpoint:
\* previous results are reset, and subscriptions that share an endpoint share its
\* status (check_callback_url_status).
OneCheck ==
    \A a \in Admin : \A entry \in Range(store[a]) :
        {<<KeyOf(l.endpoint), l.ok>> : l \in {l \in log : l.by = entry.by}} =
            {<<key, store[a][key].ok>> : key \in DOMAIN store[a]}

\* When nobody comes between, the list agrees with its filter: "Yes" shows reachable
\* ones only, "No" none that is reachable, "Unknown" none that was checked
\* (StatusCodeFilter and get_callback_url_reachable read one session).
ListAgrees ==
    \A t \in Thread : req[t].alone /\ req[t].session # NoResults =>
        \A s \in DOMAIN req[t].shown :
            LET ok == {status.ok : status \in req[t].shown[s]} IN
            CASE req[t].choice = "true" -> ok = {TRUE}
              [] req[t].choice = "false" -> ok # {TRUE}
              [] req[t].choice = "unknown" -> ok = {}
              [] OTHER -> TRUE
=============================================================================
