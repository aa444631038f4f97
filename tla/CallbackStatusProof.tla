-------------------------- MODULE CallbackStatusProof --------------------------
(* Theorems about the check of callback URLs, for every number of            *)
(* administrators, threads, subscriptions and checks.                        *)
EXTENDS CallbackStatus, TLAPS

\* Every status that is kept was an answer to a check.
AnsweredIn(f, L) ==
    \A key \in DOMAIN f : \E l \in L :
       KeyOf(l.endpoint) = key /\ l.ok = f[key].ok /\ l.by = f[key].by
Answered ==
    /\ \A a \in Admin : AnsweredIn(store[a], log)
    /\ AnsweredIn(current.session, log)
    /\ \A t \in Thread : AnsweredIn(req[t].session, log) /\ AnsweredIn(req[t].results, log)

\* Rows are shown after they have been read.
ShownLate == \A t \in Thread : req[t].at # "rendering" => DOMAIN req[t].shown = {}

\* A check that is under way: no other has its number, its results are all of its answers,
\* and no session holds any of them yet.
Checks(t) == req[t].at \in {"posted", "checking"}
AnswersOf(c, L) == {<<KeyOf(l.endpoint), l.ok>> : l \in {l \in L : l.by = c}}
StatusesOf(f) == {<<key, f[key].ok>> : key \in DOMAIN f}
ChecksApart ==
    \A t, u \in Thread : Checks(t) /\ Checks(u) /\ t # u => req[t].check # req[u].check
ChecksHold ==
    \A t \in Thread : Checks(t) =>
       /\ req[t].check > 0 /\ AnswersOf(req[t].check, log) = StatusesOf(req[t].results)
       /\ \A key \in DOMAIN req[t].results : req[t].results[key].by = req[t].check
NotStored ==
    \A a \in Admin, t \in Thread : Checks(t) =>
       \A key \in DOMAIN store[a] : store[a][key].by # req[t].check

\* While nobody comes between, the list that is shown is the one whose request is stored:
\* its rows are as the filter saw them, and are shown by the session it went by.
ListsAlone ==
    \A t \in Thread : req[t].alone /\ req[t].at \in {"listed", "rendering"} =>
       /\ current.thread = t
       /\ req[t].session # NoResults =>
             \A s \in DOMAIN req[t].rows :
                Selects(req[t].session, req[t].choice, req[t].rows[s])
       /\ req[t].at = "listed" =>
             \A s \in DOMAIN req[t].rows \cap DOMAIN subs : subs[s] = req[t].rows[s]
       /\ \A s \in DOMAIN req[t].shown :
             req[t].shown[s] = IF KeyOf(req[t].rows[s]) \in DOMAIN req[t].session
                                 THEN {req[t].session[KeyOf(req[t].rows[s])]} ELSE {}

StatusInv ==
    /\ TypeOK /\ Answered /\ ShownLate /\ ShownWasAnswered
    /\ ChecksApart /\ ChecksHold /\ NotStored /\ OneCheck /\ ListsAlone

--------------------------------------------------------------------------------
(* Functions on a part of a set.                                               *)

LEMMA PartOfShape ==
    ASSUME NEW D, NEW R, NEW f
    PROVE  f \in PartOf(D, R) <=> DOMAIN f \subseteq D /\ f \in [DOMAIN f -> R]
  BY DEF PartOf

LEMMA EmptyPart ==
    /\ DOMAIN NoResults = {}
    /\ \A D, R : NoResults \in PartOf(D, R)
  BY PartOfShape DEF NoResults

LEMMA RestrictPart ==
    ASSUME NEW D, NEW R, NEW f \in PartOf(D, R), NEW E \in SUBSET DOMAIN f
    PROVE  /\ Restrict(f, E) \in PartOf(D, R) /\ DOMAIN Restrict(f, E) = E
           /\ \A x \in E : Restrict(f, E)[x] = f[x]
<1>1. DOMAIN f \subseteq D /\ f \in [DOMAIN f -> R]
  BY PartOfShape
<1>2. Restrict(f, E) \in [E -> R] /\ \A x \in E : Restrict(f, E)[x] = f[x]
  BY <1>1 DEF Restrict
<1> QED
  BY <1>1, <1>2, PartOfShape

LEMMA WithPart ==
    ASSUME NEW D, NEW R, NEW f \in PartOf(D, R), NEW k \in D, NEW v \in R
    PROVE  With(f, k, v) \in PartOf(D, R)
<1>1. DOMAIN f \subseteq D /\ f \in [DOMAIN f -> R]
  BY PartOfShape
<1>2. With(f, k, v) \in [DOMAIN f \cup {k} -> R]
  BY <1>1 DEF With
<1> QED
  BY <1>1, <1>2, PartOfShape

--------------------------------------------------------------------------------
(* Shapes.                                                                     *)

LEMMA RequestShape ==
    ASSUME NEW r \in Request
    PROVE  /\ r.at \in Stage /\ r.admin \in Admin \cup {Nobody} /\ r.session \in Session
           /\ r.choice \in Choice /\ r.check \in 0..MaxChecks /\ r.rows \in Rows
           /\ r.results \in Session /\ r.shown \in PartOf(Abonnement, SUBSET Results)
           /\ r.alone \in BOOLEAN
  BY DEF Request

LEMMA IdleShape ==
    /\ Idle \in Request /\ Idle.at = "idle" /\ Idle.session = NoResults
    /\ Idle.results = NoResults /\ Idle.rows = NoResults /\ Idle.shown = NoResults
    /\ Idle.check = 0
<1>1. NoResults \in Session /\ NoResults \in Rows /\ NoResults \in PartOf(Abonnement, SUBSET Results)
  BY EmptyPart DEF Session, Rows
<1>2. 0 \in 0..MaxChecks
  BY CallbackStatusAssumption
<1> QED
  BY <1>1, <1>2 DEF Idle, Request, Stage, Choice

LEMMA StateShape ==
    ASSUME TypeOK
    PROVE  /\ subs \in Rows /\ \A a \in Admin : store[a] \in Session
           /\ current.session \in Session /\ current.thread \in Thread \cup {Nobody}
           /\ \A t \in Thread : req[t] \in Request
           /\ made \in Nat /\ made <= MaxChecks
  BY CallbackStatusAssumption DEF TypeOK

--------------------------------------------------------------------------------
(* What the steps do to the requests.                                          *)

\* A request no step is about: at most it is not alone any more.
Kept(u) ==
    /\ req'[u] \in Request /\ req'[u].at = req[u].at /\ req'[u].admin = req[u].admin
    /\ req'[u].session = req[u].session /\ req'[u].choice = req[u].choice
    /\ req'[u].check = req[u].check /\ req'[u].rows = req[u].rows
    /\ req'[u].results = req[u].results /\ req'[u].shown = req[u].shown
    /\ req'[u].alone => req[u].alone

LEMMA NotAlone ==
    ASSUME NEW r \in Request
    PROVE  LET q == [r EXCEPT !.alone = FALSE] IN
           /\ q \in Request /\ q.at = r.at /\ q.admin = r.admin /\ q.session = r.session
           /\ q.choice = r.choice /\ q.check = r.check /\ q.rows = r.rows
           /\ q.results = r.results /\ q.shown = r.shown /\ ~q.alone
  BY DEF Request

LEMMA KeptSame ==
    ASSUME TypeOK, NEW u \in Thread, req'[u] = req[u]
    PROVE  Kept(u)
  BY StateShape DEF Kept

LEMMA KeptNotAlone ==
    ASSUME TypeOK, NEW u \in Thread, req'[u] = [req[u] EXCEPT !.alone = FALSE]
    PROVE  Kept(u) /\ ~req'[u].alone
  BY StateShape, NotAlone DEF Kept

LEMMA OpenEffect ==
    ASSUME TypeOK, NEW t \in Thread, NEW a \in Admin, NEW choice \in Choice, Open(t, a, choice)
    PROVE  /\ req[t].at = "idle" /\ req' \in [Thread -> Request] /\ req'[t].at = "opened"
           /\ req'[t].admin = a /\ req'[t].session = store[a] /\ req'[t].results = NoResults
           /\ req'[t].shown = NoResults /\ req'[t].rows = NoResults /\ req'[t].check = 0
           /\ \A u \in Thread \ {t} : Kept(u)
           /\ UNCHANGED <<subs, reachable, store, current, changes, made, log>>
<1> DEFINE new == [Idle EXCEPT !.at = "opened", !.admin = a, !.choice = choice,
                               !.session = store[a]]
<1>1. /\ new \in Request /\ new.at = "opened" /\ new.admin = a /\ new.session = store[a]
      /\ new.results = NoResults /\ new.shown = NoResults /\ new.rows = NoResults
      /\ new.check = 0
  BY IdleShape, StateShape DEF Request, Stage
<1>2. req' = [req EXCEPT ![t] = new]
  BY DEF Open
<1> HIDE DEF new
<1>3. req' \in [Thread -> Request] /\ req'[t] = new
  BY <1>1, <1>2 DEF TypeOK
<1>4. \A u \in Thread \ {t} : Kept(u)
  BY <1>2, KeptSame DEF TypeOK
<1> QED
  BY <1>1, <1>3, <1>4 DEF Open

LEMMA PostEffect ==
    ASSUME TypeOK, NEW t \in Thread, NEW a \in Admin, Post(t, a)
    PROVE  /\ req[t].at = "idle" /\ req' \in [Thread -> Request] /\ req'[t].at = "posted"
           /\ req'[t].admin = a /\ req'[t].session = store[a] /\ req'[t].results = NoResults
           /\ req'[t].shown = NoResults /\ req'[t].rows = NoResults
           /\ req'[t].check = made + 1 /\ made' = made + 1 /\ made' <= MaxChecks
           /\ \A u \in Thread \ {t} : Kept(u)
           /\ UNCHANGED <<subs, reachable, store, current, views, changes, log>>
<1> DEFINE new == [Idle EXCEPT !.at = "posted", !.admin = a, !.check = made + 1,
                               !.session = store[a]]
<1>0. made + 1 \in 0..MaxChecks /\ made + 1 <= MaxChecks
  BY StateShape, CallbackStatusAssumption DEF Post
<1>1. /\ new \in Request /\ new.at = "posted" /\ new.admin = a /\ new.session = store[a]
      /\ new.results = NoResults /\ new.shown = NoResults /\ new.rows = NoResults
      /\ new.check = made + 1
  BY <1>0, IdleShape, StateShape DEF Request, Stage
<1>2. req' = [req EXCEPT ![t] = new]
  BY DEF Post
<1> HIDE DEF new
<1>3. req' \in [Thread -> Request] /\ req'[t] = new
  BY <1>1, <1>2 DEF TypeOK
<1>4. \A u \in Thread \ {t} : Kept(u)
  BY <1>2, KeptSame DEF TypeOK
<1> QED
  BY <1>0, <1>1, <1>3, <1>4 DEF Post

\* Rows are read for a list or a check, and the request may be stored.
LEMMA ViewEffect ==
    ASSUME TypeOK, NEW t \in Thread, ChangelistView(t)
    PROVE  LET ids == Listed(req[t].session, req[t].choice) IN
           /\ req[t].at = "opened" /\ req' \in [Thread -> Request] /\ req'[t].at = "listed"
           /\ req'[t].admin = req[t].admin /\ req'[t].session = req[t].session
           /\ req'[t].choice = req[t].choice /\ req'[t].results = req[t].results
           /\ req'[t].shown = req[t].shown /\ req'[t].check = req[t].check
           /\ ids \subseteq DOMAIN subs /\ DOMAIN req'[t].rows = ids
           /\ \A s \in ids : req'[t].rows[s] = subs[s]
           /\ current' = [thread |-> t, session |-> req[t].session]
           /\ \A u \in Thread \ {t} : Kept(u) /\ ~req'[u].alone
           /\ UNCHANGED <<subs, reachable, store, views, changes, made, log>>
<1> DEFINE ids == Listed(req[t].session, req[t].choice)
           new == [req[t] EXCEPT !.at = "listed", !.rows = Restrict(subs, ids)]
<1>0. ids \subseteq DOMAIN subs
  BY DEF Listed
<1>1. /\ Restrict(subs, ids) \in Rows /\ DOMAIN Restrict(subs, ids) = ids
      /\ \A s \in ids : Restrict(subs, ids)[s] = subs[s]
  BY <1>0, RestrictPart, StateShape DEF Rows
<1>2. req' = Interrupted(t, new)
  BY DEF ChangelistView
<1> HIDE DEF ids
<1>3. req[t] \in Request
  BY StateShape
<1>4. /\ new \in Request /\ new.at = "listed" /\ new.admin = req[t].admin
      /\ new.session = req[t].session /\ new.choice = req[t].choice
      /\ new.results = req[t].results /\ new.shown = req[t].shown
      /\ new.check = req[t].check /\ new.rows = Restrict(subs, ids)
  BY <1>1, <1>3 DEF Request, Stage
<1> HIDE DEF new
<1>5. \A u \in Thread \ {t} : req'[u] = [req[u] EXCEPT !.alone = FALSE]
  BY <1>2 DEF Interrupted
<1>6. \A u \in Thread \ {t} : Kept(u) /\ ~req'[u].alone
  BY <1>5, KeptNotAlone
<1>7. req'[t] = new /\ req' = [u \in Thread |-> req'[u]]
  BY <1>2 DEF Interrupted
<1>8. req' \in [Thread -> Request]
  BY <1>4, <1>6, <1>7 DEF Kept
<1> QED
  BY <1>0, <1>1, <1>4, <1>6, <1>7, <1>8 DEF ChangelistView, ids

\* The second query finds what is left of the rows.
LEMMA ReadEffect ==
    ASSUME TypeOK, NEW t \in Thread, ReadRows(t)
    PROVE  /\ req[t].at = "listed" /\ req' \in [Thread -> Request] /\ req'[t].at = "rendering"
           /\ req'[t].admin = req[t].admin /\ req'[t].session = req[t].session
           /\ req'[t].choice = req[t].choice /\ req'[t].results = req[t].results
           /\ req'[t].shown = req[t].shown /\ req'[t].check = req[t].check
           /\ req'[t].alone = req[t].alone
           /\ DOMAIN req'[t].rows = DOMAIN req[t].rows \cap DOMAIN subs
           /\ \A s \in DOMAIN req'[t].rows : req'[t].rows[s] = subs[s]
           /\ \A u \in Thread \ {t} : Kept(u)
           /\ UNCHANGED <<subs, reachable, store, current, views, changes, made, log>>
<1> DEFINE ids == DOMAIN req[t].rows \cap DOMAIN subs
           rows == Restrict(subs, ids)
           new == [req[t] EXCEPT !.at = "rendering", !.rows = rows]
<1>1. rows \in Rows /\ DOMAIN rows = ids /\ \A s \in ids : rows[s] = subs[s]
  BY RestrictPart, StateShape DEF Rows
<1>2. req[t] \in Request
  BY StateShape
<1>3. req' = [req EXCEPT ![t].at = "rendering", ![t].rows = rows]
  BY DEF ReadRows
<1> HIDE DEF rows
<1>4. req' = [req EXCEPT ![t] = new]
  BY <1>3, <1>2 DEF TypeOK, Request
<1>5. /\ new \in Request /\ new.at = "rendering" /\ new.admin = req[t].admin
      /\ new.session = req[t].session /\ new.choice = req[t].choice
      /\ new.results = req[t].results /\ new.shown = req[t].shown
      /\ new.check = req[t].check /\ new.alone = req[t].alone /\ new.rows = rows
  BY <1>1, <1>2 DEF Request, Stage
<1> HIDE DEF new
<1>6. req' \in [Thread -> Request] /\ req'[t] = new
  BY <1>4, <1>5 DEF TypeOK
<1>7. \A u \in Thread \ {t} : Kept(u)
  BY <1>4, KeptSame DEF TypeOK
<1> QED
  BY <1>1, <1>5, <1>6, <1>7 DEF ReadRows

LEMMA ShowEffect ==
    ASSUME TypeOK, NEW t \in Thread, NEW s \in Abonnement, ShowRow(t, s)
    PROVE  LET key == KeyOf(req[t].rows[s])
               status == IF key \in DOMAIN current.session THEN {current.session[key]} ELSE {}
           IN
           /\ req[t].at = "rendering" /\ req' \in [Thread -> Request] /\ req'[t].at = "rendering"
           /\ req'[t].admin = req[t].admin /\ req'[t].session = req[t].session
           /\ req'[t].choice = req[t].choice /\ req'[t].results = req[t].results
           /\ req'[t].rows = req[t].rows /\ req'[t].check = req[t].check
           /\ req'[t].alone = req[t].alone
           /\ s \in DOMAIN req[t].rows /\ s \notin DOMAIN req[t].shown
           /\ DOMAIN req'[t].shown = DOMAIN req[t].shown \cup {s}
           /\ req'[t].shown[s] = status
           /\ \A x \in DOMAIN req[t].shown : req'[t].shown[x] = req[t].shown[x]
           /\ \A u \in Thread \ {t} : Kept(u)
           /\ UNCHANGED <<subs, reachable, store, current, views, changes, made, log>>
<1> DEFINE key == KeyOf(req[t].rows[s])
           status == IF key \in DOMAIN current.session THEN {current.session[key]} ELSE {}
           shown == With(req[t].shown, s, status)
           new == [req[t] EXCEPT !.shown = shown]
<1>1. status \in SUBSET Results
  <2> HIDE DEF key
  <2> QED
    BY StateShape, PartOfShape DEF Session
<1>2. req[t] \in Request /\ req[t].shown \in PartOf(Abonnement, SUBSET Results)
  BY StateShape, RequestShape
<1>3. req' = [req EXCEPT ![t].shown = shown] /\ s \in DOMAIN req[t].rows \ DOMAIN req[t].shown
  BY DEF ShowRow
<1> HIDE DEF status
<1>4. /\ shown \in PartOf(Abonnement, SUBSET Results)
      /\ DOMAIN shown = DOMAIN req[t].shown \cup {s} /\ shown[s] = status
      /\ \A x \in DOMAIN req[t].shown : x # s => shown[x] = req[t].shown[x]
  <2> DEFINE R == SUBSET Results
  <2>1. status \in R /\ req[t].shown \in PartOf(Abonnement, R)
    BY <1>1, <1>2
  <2> HIDE DEF R
  <2>2. shown \in PartOf(Abonnement, R)
    BY <2>1, WithPart
  <2>3. /\ DOMAIN shown = DOMAIN req[t].shown \cup {s} /\ shown[s] = status
        /\ \A x \in DOMAIN req[t].shown : x # s => shown[x] = req[t].shown[x]
    BY DEF With
  <2> QED
    BY <2>2, <2>3 DEF R
<1> HIDE DEF shown
<1>5. req' = [req EXCEPT ![t] = new]
  BY <1>3, <1>2 DEF TypeOK, Request
<1>6. /\ new \in Request /\ new.at = req[t].at /\ new.admin = req[t].admin
      /\ new.session = req[t].session /\ new.choice = req[t].choice
      /\ new.results = req[t].results /\ new.rows = req[t].rows
      /\ new.check = req[t].check /\ new.alone = req[t].alone /\ new.shown = shown
  BY <1>4, <1>2 DEF Request
<1> HIDE DEF new
<1>7. req' \in [Thread -> Request] /\ req'[t] = new
  BY <1>5, <1>6 DEF TypeOK
<1>8. \A u \in Thread \ {t} : Kept(u)
  BY <1>5, KeptSame DEF TypeOK
<1>9. \A x \in DOMAIN req[t].shown : shown[x] = req[t].shown[x]
  BY <1>3, <1>4
<1> QED
  BY <1>3, <1>4, <1>6, <1>7, <1>8, <1>9 DEF ShowRow, status, key

\* A check begins: with the rows of its subscriptions, and nothing answered yet.
LEMMA SelectedEffect ==
    ASSUME TypeOK, NEW t \in Thread, NEW ids \in SUBSET Abonnement, CheckSelected(t, ids)
    PROVE  /\ req[t].at = "posted" /\ req' \in [Thread -> Request] /\ req'[t].at = "checking"
           /\ req'[t].admin = req[t].admin /\ req'[t].session = req[t].session
           /\ req'[t].results = req[t].results
           /\ req'[t].shown = req[t].shown /\ req'[t].check = req[t].check
           /\ current' = [thread |-> t, session |-> req[t].session]
           /\ \A u \in Thread \ {t} : Kept(u) /\ ~req'[u].alone
           /\ UNCHANGED <<subs, reachable, store, views, changes, made, log>>
<1> DEFINE new == [req[t] EXCEPT !.at = "checking", !.rows = Restrict(subs, ids)]
<1>1. Restrict(subs, ids) \in Rows
  BY RestrictPart, StateShape DEF Rows, CheckSelected
<1>2. req' = Interrupted(t, new)
  BY DEF CheckSelected
<1>3. req[t] \in Request
  BY StateShape
<1>4. /\ new \in Request /\ new.at = "checking" /\ new.admin = req[t].admin
      /\ new.session = req[t].session /\ new.results = req[t].results
      /\ new.shown = req[t].shown /\ new.check = req[t].check
  BY <1>1, <1>3 DEF Request, Stage
<1> HIDE DEF new
<1>5. \A u \in Thread \ {t} : req'[u] = [req[u] EXCEPT !.alone = FALSE]
  BY <1>2 DEF Interrupted
<1>6. \A u \in Thread \ {t} : Kept(u) /\ ~req'[u].alone
  BY <1>5, KeptNotAlone
<1>7. req'[t] = new /\ req' = [u \in Thread |-> req'[u]]
  BY <1>2 DEF Interrupted
<1>8. req' \in [Thread -> Request]
  BY <1>4, <1>6, <1>7 DEF Kept
<1> QED
  BY <1>4, <1>6, <1>7, <1>8 DEF CheckSelected

LEMMA AllEffect ==
    ASSUME TypeOK, NEW t \in Thread, CheckAllCallbackUrls(t)
    PROVE  /\ req[t].at = "posted" /\ req' \in [Thread -> Request] /\ req'[t].at = "checking"
           /\ req'[t].admin = req[t].admin /\ req'[t].session = req[t].session
           /\ req'[t].results = req[t].results
           /\ req'[t].shown = req[t].shown /\ req'[t].check = req[t].check
           /\ \A u \in Thread \ {t} : Kept(u)
           /\ UNCHANGED <<subs, reachable, store, current, views, changes, made, log>>
<1> DEFINE new == [req[t] EXCEPT !.at = "checking", !.rows = subs]
<1>1. req[t] \in Request /\ subs \in Rows
  BY StateShape
<1>2. req' = [req EXCEPT ![t] = new]
  BY <1>1 DEF CheckAllCallbackUrls, TypeOK, Request
<1>3. /\ new \in Request /\ new.at = "checking" /\ new.admin = req[t].admin
      /\ new.session = req[t].session /\ new.results = req[t].results
      /\ new.shown = req[t].shown /\ new.check = req[t].check
  BY <1>1 DEF Request, Stage
<1> HIDE DEF new
<1>4. req' \in [Thread -> Request] /\ req'[t] = new
  BY <1>2, <1>3 DEF TypeOK
<1>5. \A u \in Thread \ {t} : Kept(u)
  BY <1>2, KeptSame DEF TypeOK
<1> QED
  BY <1>3, <1>4, <1>5 DEF CheckAllCallbackUrls

\* An endpoint is probed once in a check.
LEMMA CheckEffect ==
    ASSUME TypeOK, NEW t \in Thread, NEW s \in Abonnement, CheckRow(t, s), req[t].check > 0
    PROVE  /\ req[t].at = "checking" /\ req' \in [Thread -> Request] /\ req'[t].at = "checking"
           /\ req'[t].admin = req[t].admin /\ req'[t].session = req[t].session
           /\ req'[t].shown = req[t].shown /\ req'[t].check = req[t].check
           /\ \/ UNCHANGED log /\ req'[t].results = req[t].results
              \/ \E e \in Endpoint, answer \in Results :
                    /\ answer.by = req[t].check /\ KeyOf(e) \notin DOMAIN req[t].results
                    /\ log' = log \cup {[endpoint |-> e, ok |-> answer.ok, by |-> answer.by]}
                    /\ DOMAIN req'[t].results = DOMAIN req[t].results \cup {KeyOf(e)}
                    /\ req'[t].results[KeyOf(e)] = answer
                    /\ \A key \in DOMAIN req[t].results :
                          req'[t].results[key] = req[t].results[key]
           /\ \A u \in Thread \ {t} : Kept(u)
           /\ UNCHANGED <<subs, reachable, store, current, views, changes, made>>
<1> DEFINE e == req[t].rows[s]
           answer == [ok |-> e \in reachable, by |-> req[t].check]
           rows == Restrict(req[t].rows, DOMAIN req[t].rows \ {s})
           results == IF KeyOf(e) \in DOMAIN req[t].results THEN req[t].results
                      ELSE With(req[t].results, KeyOf(e), answer)
           new == [req[t] EXCEPT !.rows = rows, !.results = results]
<1>1. /\ req[t] \in Request /\ req[t].rows \in Rows /\ req[t].results \in Session
      /\ req[t].check \in 0..MaxChecks
  BY StateShape, RequestShape
<1>2. req' = [req EXCEPT ![t].rows = rows, ![t].results = results]
  BY DEF CheckRow
<1>3. e \in Endpoint
  BY <1>1, PartOfShape DEF Rows, CheckRow
<1>4. rows \in Rows
  BY <1>1, RestrictPart DEF Rows
<1>5. answer \in Results /\ answer.by = req[t].check /\ answer.ok = (e \in reachable)
  BY <1>1 DEF Results
<1>6. log' = IF KeyOf(e) \in DOMAIN req[t].results THEN log
             ELSE log \cup {[endpoint |-> e, ok |-> answer.ok, by |-> answer.by]}
  BY DEF CheckRow
<1> HIDE DEF e, rows, answer
<1>7. /\ results \in Session
      /\ KeyOf(e) \notin DOMAIN req[t].results =>
            /\ DOMAIN results = DOMAIN req[t].results \cup {KeyOf(e)}
            /\ results[KeyOf(e)] = answer
            /\ \A key \in DOMAIN req[t].results : results[key] = req[t].results[key]
  <2> DEFINE Keys == {KeyOf(d) : d \in Endpoint}
             k == KeyOf(e)
             f == req[t].results
  <2>1. k \in Keys /\ f \in PartOf(Keys, Results) /\ Session = PartOf(Keys, Results)
    BY <1>1, <1>3 DEF Session
  <2> HIDE DEF Keys, k, f
  <2>2. With(f, k, answer) \in PartOf(Keys, Results)
    BY <2>1, <1>5, WithPart
  <2>5. /\ DOMAIN With(f, k, answer) = DOMAIN f \cup {k} /\ With(f, k, answer)[k] = answer
        /\ \A x \in DOMAIN f : x # k => With(f, k, answer)[x] = f[x]
    BY DEF With
  <2>3. results = IF k \in DOMAIN f THEN f ELSE With(f, k, answer)
    BY DEF k, f
  <2>4. /\ results \in Session
        /\ k \notin DOMAIN f =>
              /\ DOMAIN results = DOMAIN f \cup {k} /\ results[k] = answer
              /\ \A key \in DOMAIN f : results[key] = f[key]
    <3> HIDE DEF results
    <3> QED
      BY <2>1, <2>2, <2>3, <2>5
  <2> QED
    BY <2>4 DEF k, f
<1>8. KeyOf(e) \in DOMAIN req[t].results => results = req[t].results
  OBVIOUS
<1> HIDE DEF results
<1>9. req' = [req EXCEPT ![t] = new]
  BY <1>1, <1>2 DEF TypeOK, Request
<1>10. /\ new \in Request /\ new.at = req[t].at /\ new.admin = req[t].admin
       /\ new.session = req[t].session /\ new.results = results
       /\ new.shown = req[t].shown /\ new.check = req[t].check
  BY <1>1, <1>4, <1>7 DEF Request
<1> HIDE DEF new
<1>11. req' \in [Thread -> Request] /\ req'[t] = new
  BY <1>9, <1>10 DEF TypeOK
<1>12. \A u \in Thread \ {t} : Kept(u)
  BY <1>9, KeptSame DEF TypeOK
<1> QED
  BY <1>3, <1>5, <1>6, <1>7, <1>8, <1>10, <1>11, <1>12 DEF CheckRow

\* A request is over.
LEMMA OverEffect ==
    ASSUME TypeOK, NEW t \in Thread, CloseList(t) \/ Respond(t)
    PROVE  /\ req' \in [Thread -> Request] /\ req'[t] = Idle
           /\ \A u \in Thread \ {t} : Kept(u)
           /\ UNCHANGED <<subs, reachable, views, changes, made, log>>
<1>1. req' = [req EXCEPT ![t] = Idle]
  BY DEF CloseList, Finish, Respond
<1>2. \A u \in Thread \ {t} : Kept(u)
  BY <1>1, KeptSame DEF TypeOK
<1> QED
  BY <1>1, <1>2, IdleShape DEF CloseList, Respond, TypeOK

LEMMA RespondEffect ==
    ASSUME TypeOK, NEW t \in Thread, Respond(t)
    PROVE  /\ req[t].at = "checking" /\ req[t].admin \in Admin
           /\ store' \in [Admin -> Session] /\ store'[req[t].admin] = req[t].results
           /\ \A a \in Admin \ {req[t].admin} : store'[a] = store[a]
           /\ current' = IF current.thread = t
                           THEN [thread |-> Nobody, session |-> req[t].results] ELSE current
  BY StateShape, RequestShape DEF Respond, TypeOK

LEMMA ChangeEffect ==
    ASSUME TypeOK, NEW s \in Abonnement, NEW e \in Endpoint, SetEndpoint(s, e)
    PROVE  /\ subs' \in Rows /\ req' \in [Thread -> Request]
           /\ \A u \in Thread : Kept(u) /\ ~req'[u].alone
           /\ UNCHANGED <<reachable, store, current, views, made, log>>
<1>1. subs' \in Rows
  BY StateShape, WithPart DEF SetEndpoint, Rows
<1>2. \A u \in Thread : Kept(u) /\ ~req'[u].alone
  BY KeptNotAlone DEF SetEndpoint
<1>3. req' \in [Thread -> Request]
  BY <1>2 DEF SetEndpoint, Kept
<1> QED
  BY <1>1, <1>2, <1>3 DEF SetEndpoint

LEMMA DeletionEffect ==
    ASSUME TypeOK, NEW s \in Abonnement, Delete(s)
    PROVE  /\ subs' \in Rows /\ DOMAIN subs' = DOMAIN subs \ {s}
           /\ \A x \in DOMAIN subs' : subs'[x] = subs[x]
           /\ UNCHANGED <<reachable, store, current, req, views, made, log>>
  BY StateShape, RestrictPart DEF Delete, Rows

--------------------------------------------------------------------------------
(* The log of the answers.                                                     *)

LEMMA AnswersGrow ==
    ASSUME NEW f, NEW L, NEW M, L \subseteq M, AnsweredIn(f, L)
    PROVE  AnsweredIn(f, M)
  BY DEF AnsweredIn

LEMMA NoneAnswered == \A L : AnsweredIn(NoResults, L)
  BY EmptyPart DEF AnsweredIn

LEMMA LogGrows ==
    ASSUME TypeOK, ChecksHold, Next
    PROVE  log \subseteq log'
<1>1. ASSUME NEW t \in Thread, NEW s \in Abonnement, CheckRow(t, s)
      PROVE  log \subseteq log'
  BY <1>1 DEF CheckRow
<1>2. CASE UNCHANGED log
  BY <1>2
<1> QED
  BY <1>1, <1>2
     DEF Next, Open, ChangelistView, ReadRows, ShowRow, CloseList, Post, CheckSelected,
         CheckAllCallbackUrls, Respond, SetEndpoint, Delete, Flip

\* What a check in its loop was answered has its number, which is above zero.
LEMMA CheckStarted ==
    ASSUME ChecksHold, NEW t \in Thread, NEW s, CheckRow(t, s)
    PROVE  Checks(t) /\ req[t].check > 0
  BY DEF ChecksHold, Checks, CheckRow

LEMMA AnswersApart ==
    ASSUME NEW L, NEW l, NEW c, l.by # c
    PROVE  AnswersOf(c, L \cup {l}) = AnswersOf(c, L)
  BY DEF AnswersOf

LEMMA AnswersAdd ==
    ASSUME NEW L, NEW l
    PROVE  AnswersOf(l.by, L \cup {l}) = AnswersOf(l.by, L) \cup {<<KeyOf(l.endpoint), l.ok>>}
  BY DEF AnswersOf

LEMMA ByMade ==
    ASSUME TypeOK, NEW l \in log
    PROVE  /\ l.by \in Nat /\ l.by > 0 /\ l.by <= made /\ l.endpoint \in Endpoint
           /\ l = [endpoint |-> l.endpoint, ok |-> l.ok, by |-> l.by]
<1>1. l \in [endpoint : Endpoint, ok : BOOLEAN, by : 1..made]
  BY DEF TypeOK
<1>2. made \in Nat
  BY StateShape
<1> QED
  BY <1>1, <1>2

\* A check has its number from the count of checks.
LEMMA CheckMade ==
    ASSUME TypeOK, NEW t \in Thread
    PROVE  req[t].check \in Nat /\ req[t].check <= made /\ made \in Nat
<1>1. req[t].check \in 0..MaxChecks
  BY StateShape, RequestShape
<1> QED
  BY <1>1, StateShape, CallbackStatusAssumption DEF TypeOK

--------------------------------------------------------------------------------
(* Steps of the parts of the invariant.                                        *)

LEMMA AnsweredStep ==
    ASSUME TypeOK, Answered, ChecksHold, Next
    PROVE  Answered'
<1>0. log \subseteq log' /\ \A f : AnsweredIn(f, log) => AnsweredIn(f, log')
  BY LogGrows, AnswersGrow
<1>1. ASSUME NEW u \in Thread, Kept(u)
      PROVE  AnsweredIn(req'[u].session, log') /\ AnsweredIn(req'[u].results, log')
  BY <1>0, <1>1 DEF Answered, Kept
<1>2. ASSUME UNCHANGED <<store, current>>, NEW t \in Thread, \A u \in Thread \ {t} : Kept(u),
             AnsweredIn(req'[t].session, log'), AnsweredIn(req'[t].results, log')
      PROVE  Answered'
  BY <1>0, <1>1, <1>2 DEF Answered
<1>3. ASSUME NEW t \in Thread, NEW a \in Admin, NEW choice \in Choice, Open(t, a, choice)
      PROVE  Answered'
  <2>1. req'[t].session = store[a] /\ req'[t].results = NoResults
    BY <1>3, OpenEffect
  <2>2. UNCHANGED <<store, current>> /\ \A u \in Thread \ {t} : Kept(u)
    BY <1>3, OpenEffect
  <2>3. AnsweredIn(req'[t].session, log') /\ AnsweredIn(req'[t].results, log')
    BY <1>0, <2>1, NoneAnswered DEF Answered
  <2> QED
    BY <1>2, <2>2, <2>3
<1>4. ASSUME NEW t \in Thread, NEW a \in Admin, Post(t, a)
      PROVE  Answered'
  <2>1. req'[t].session = store[a] /\ req'[t].results = NoResults
    BY <1>4, PostEffect
  <2>2. UNCHANGED <<store, current>> /\ \A u \in Thread \ {t} : Kept(u)
    BY <1>4, PostEffect
  <2>3. AnsweredIn(req'[t].session, log') /\ AnsweredIn(req'[t].results, log')
    BY <1>0, <2>1, NoneAnswered DEF Answered
  <2> QED
    BY <1>2, <2>2, <2>3
<1>5. ASSUME NEW t \in Thread,
             ChangelistView(t) \/ \E ids \in SUBSET Abonnement : CheckSelected(t, ids)
      PROVE  Answered'
  <2>1. /\ req'[t].session = req[t].session /\ req'[t].results = req[t].results
        /\ current'.session = req[t].session /\ UNCHANGED store
        /\ \A u \in Thread \ {t} : Kept(u)
    BY <1>5, ViewEffect, SelectedEffect
  <2> QED
    BY <1>0, <1>1, <2>1 DEF Answered
<1>6. ASSUME NEW t \in Thread,
             ReadRows(t) \/ CheckAllCallbackUrls(t) \/ \E s \in Abonnement : ShowRow(t, s)
      PROVE  Answered'
  <2>1. /\ req'[t].session = req[t].session /\ req'[t].results = req[t].results
        /\ UNCHANGED <<store, current>> /\ \A u \in Thread \ {t} : Kept(u)
    BY <1>6, ReadEffect, AllEffect, ShowEffect
  <2>2. AnsweredIn(req'[t].session, log') /\ AnsweredIn(req'[t].results, log')
    BY <1>0, <2>1 DEF Answered
  <2> QED
    BY <1>2, <2>1, <2>2
<1>7. ASSUME NEW t \in Thread, NEW s \in Abonnement, CheckRow(t, s)
      PROVE  Answered'
  <2>1. req[t].check > 0
    BY <1>7, CheckStarted
  <2>2. /\ req'[t].session = req[t].session /\ UNCHANGED <<store, current>>
        /\ \A u \in Thread \ {t} : Kept(u)
    BY <1>7, <2>1, CheckEffect
  <2>3. AnsweredIn(req[t].results, log') /\ AnsweredIn(req'[t].session, log')
    BY <1>0, <2>2 DEF Answered
  <2>4. CASE req'[t].results = req[t].results
    BY <1>2, <2>2, <2>3, <2>4
  <2>5. ASSUME NEW e \in Endpoint, NEW answer \in Results,
               log' = log \cup {[endpoint |-> e, ok |-> answer.ok, by |-> answer.by]},
               DOMAIN req'[t].results = DOMAIN req[t].results \cup {KeyOf(e)},
               req'[t].results[KeyOf(e)] = answer,
               \A key \in DOMAIN req[t].results : req'[t].results[key] = req[t].results[key]
        PROVE  AnsweredIn(req'[t].results, log')
    <3> DEFINE l == [endpoint |-> e, ok |-> answer.ok, by |-> answer.by]
    <3>1. l \in log' /\ l.endpoint = e /\ l.ok = answer.ok /\ l.by = answer.by
      BY <2>5
    <3> HIDE DEF l
    <3> QED
      BY <2>3, <2>5, <3>1 DEF AnsweredIn
  <2> QED
    BY <1>2, <1>7, <2>1, <2>2, <2>3, <2>4, <2>5, CheckEffect
<1>8. ASSUME NEW t \in Thread, CloseList(t) \/ Respond(t)
      PROVE  Answered'
  <2>1. /\ req'[t].session = NoResults /\ req'[t].results = NoResults
        /\ \A u \in Thread \ {t} : Kept(u)
    BY <1>8, OverEffect, IdleShape
  <2>2. CASE Respond(t)
    <3>1. \A a \in Admin : store'[a] = store[a] \/ store'[a] = req[t].results
      BY <2>2, RespondEffect
    <3>2. current'.session = current.session \/ current'.session = req[t].results
      BY <2>2, RespondEffect
    <3> QED
      BY <1>0, <1>1, <2>1, <3>1, <3>2, NoneAnswered DEF Answered
  <2>3. CASE CloseList(t)
    <3>1. UNCHANGED store /\ current'.session = current.session
      BY <2>3 DEF CloseList, Finish, TypeOK
    <3> QED
      BY <1>0, <1>1, <2>1, <3>1, NoneAnswered DEF Answered
  <2> QED
    BY <1>8, <2>2, <2>3
<1>9. ASSUME NEW s \in Abonnement, NEW e \in Endpoint, SetEndpoint(s, e)
      PROVE  Answered'
  BY <1>0, <1>1, <1>9, ChangeEffect DEF Answered
<1>10. CASE UNCHANGED <<store, current, req, log>>
  BY <1>10 DEF Answered
<1> QED
  BY <1>3, <1>4, <1>5, <1>6, <1>7, <1>8, <1>9, <1>10 DEF Next, Delete, Flip

\* Of every thread: it does a step, or nothing of it changes.
Acts(t) ==
    \/ \E a \in Admin, choice \in Choice : Open(t, a, choice)
    \/ ChangelistView(t) \/ ReadRows(t) \/ CloseList(t)
    \/ \E s \in Abonnement : ShowRow(t, s)
    \/ \E s \in Abonnement : CheckRow(t, s)
    \/ \E a \in Admin : Post(t, a)
    \/ \E ids \in SUBSET Abonnement : CheckSelected(t, ids)
    \/ CheckAllCallbackUrls(t) \/ Respond(t)

LEMMA NextActs ==
    ASSUME Next
    PROVE  \/ \E t \in Thread : Acts(t)
           \/ \E s \in Abonnement, e \in Endpoint : SetEndpoint(s, e)
           \/ \E s \in Abonnement : Delete(s)
           \/ \E e \in Endpoint : Flip(e)
  BY DEF Next, Acts

LEMMA OthersKept ==
    ASSUME TypeOK, ChecksHold, NEW t \in Thread, Acts(t), NEW u \in Thread \ {t}
    PROVE  Kept(u)
<1>1. CASE \/ \E a \in Admin, choice \in Choice : Open(t, a, choice)
           \/ \E a \in Admin : Post(t, a)
  BY <1>1, OpenEffect, PostEffect
<1>2. CASE ChangelistView(t) \/ \E ids \in SUBSET Abonnement : CheckSelected(t, ids)
  BY <1>2, ViewEffect, SelectedEffect
<1>3. CASE ReadRows(t) \/ CheckAllCallbackUrls(t)
  BY <1>3, ReadEffect, AllEffect
<1>4. ASSUME NEW s \in Abonnement, ShowRow(t, s)
      PROVE  Kept(u)
  BY <1>4, ShowEffect
<1>5. ASSUME NEW s \in Abonnement, CheckRow(t, s)
      PROVE  Kept(u)
  BY <1>5, CheckStarted, CheckEffect
<1>6. CASE CloseList(t) \/ Respond(t)
  BY <1>6, OverEffect
<1> QED
  BY <1>1, <1>2, <1>3, <1>4, <1>5, <1>6 DEF Acts

LEMMA KeptOrActs ==
    ASSUME TypeOK, ChecksHold, Next, NEW u \in Thread
    PROVE  Kept(u) \/ Acts(u)
<1>1. CASE \E t \in Thread : Acts(t)
  BY <1>1, OthersKept
<1>2. CASE \E s \in Abonnement, e \in Endpoint : SetEndpoint(s, e)
  BY <1>2, ChangeEffect
<1>3. CASE UNCHANGED req
  BY <1>3, KeptSame
<1> QED
  BY <1>1, <1>2, <1>3, NextActs DEF Delete, Flip

LEMMA ShownLateStep ==
    ASSUME TypeOK, ShownLate, ChecksHold, Next
    PROVE  ShownLate'
<1> SUFFICES ASSUME NEW u \in Thread, req'[u].at # "rendering"
             PROVE  DOMAIN req'[u].shown = {}
  BY DEF ShownLate
<1>1. CASE Kept(u)
  BY <1>1 DEF Kept, ShownLate
<1>2. ASSUME NEW a \in Admin, NEW choice \in Choice, Open(u, a, choice)
      PROVE  DOMAIN req'[u].shown = {}
  BY <1>2, OpenEffect, EmptyPart
<1>3. ASSUME NEW a \in Admin, Post(u, a)
      PROVE  DOMAIN req'[u].shown = {}
  BY <1>3, PostEffect, EmptyPart
<1>4. CASE \/ ChangelistView(u) \/ \E ids \in SUBSET Abonnement : CheckSelected(u, ids)
           \/ CheckAllCallbackUrls(u)
  <2>1. req'[u].shown = req[u].shown /\ req[u].at \in {"opened", "posted"}
    BY <1>4, ViewEffect, SelectedEffect, AllEffect
  <2> QED
    BY <2>1 DEF ShownLate
<1>5. CASE ReadRows(u) \/ \E s \in Abonnement : ShowRow(u, s)
  BY <1>5, ReadEffect, ShowEffect
<1>6. ASSUME NEW s \in Abonnement, CheckRow(u, s)
      PROVE  DOMAIN req'[u].shown = {}
  <2>1. req[u].at = "checking" /\ req'[u].shown = req[u].shown
    BY <1>6, CheckStarted, CheckEffect
  <2> QED
    BY <2>1 DEF ShownLate
<1>7. CASE CloseList(u) \/ Respond(u)
  BY <1>7, OverEffect, IdleShape, EmptyPart
<1> QED
  BY <1>1, <1>2, <1>3, <1>4, <1>5, <1>6, <1>7, KeptOrActs DEF Acts

\* A status that is in the stored session was an answer for the endpoint that has its key.
LEMMA ShownStep ==
    ASSUME TypeOK, Answered, ShownLate, ShownWasAnswered, ChecksHold, Next
    PROVE  ShownWasAnswered'
<1> SUFFICES ASSUME NEW u \in Thread, NEW s \in DOMAIN req'[u].shown,
                    NEW status \in req'[u].shown[s]
             PROVE  [endpoint |-> req'[u].rows[s], ok |-> status.ok, by |-> status.by] \in log'
  BY DEF ShownWasAnswered
<1>0. log \subseteq log' /\ req'[u].at = "rendering"
  BY LogGrows, ShownLateStep DEF ShownLate
<1>1. ASSUME s \in DOMAIN req[u].shown, req'[u].shown[s] = req[u].shown[s],
             req'[u].rows = req[u].rows
      PROVE  [endpoint |-> req'[u].rows[s], ok |-> status.ok, by |-> status.by] \in log'
  BY <1>0, <1>1 DEF ShownWasAnswered
<1>2. CASE Kept(u)
  BY <1>1, <1>2 DEF Kept
<1>3. ASSUME NEW x \in Abonnement, ShowRow(u, x)
      PROVE  [endpoint |-> req'[u].rows[s], ok |-> status.ok, by |-> status.by] \in log'
  <2>1. CASE s \in DOMAIN req[u].shown
    BY <1>1, <1>3, <2>1, ShowEffect
  <2>2. CASE s \notin DOMAIN req[u].shown
    <3> DEFINE key == KeyOf(req[u].rows[s])
    <3>0. /\ DOMAIN req'[u].shown = DOMAIN req[u].shown \cup {x}
          /\ req'[u].rows = req[u].rows /\ x \in DOMAIN req[u].rows
          /\ req'[u].shown[x] = IF KeyOf(req[u].rows[x]) \in DOMAIN current.session
                                  THEN {current.session[KeyOf(req[u].rows[x])]} ELSE {}
      BY <1>3, ShowEffect
    <3>1. s = x /\ req'[u].rows = req[u].rows /\ s \in DOMAIN req[u].rows
      BY <2>2, <3>0
    <3>2. key \in DOMAIN current.session /\ status = current.session[key]
      BY <3>0, <3>1
    <3>3. PICK l \in log : KeyOf(l.endpoint) = key /\ l.ok = status.ok /\ l.by = status.by
      BY <3>2 DEF Answered, AnsweredIn
    <3>4. req[u].rows[s] \in Endpoint
      BY <3>1, StateShape, RequestShape, PartOfShape DEF Rows
    <3>5. l.endpoint = req[u].rows[s]
      BY <3>3, <3>4, ByMade, CallbackStatusAssumption DEF KeyOf
    <3>6. l = [endpoint |-> l.endpoint, ok |-> l.ok, by |-> l.by]
      BY ByMade
    <3>7. [endpoint |-> req'[u].rows[s], ok |-> status.ok, by |-> status.by] = l
      BY <3>1, <3>3, <3>5, <3>6
    <3> QED
      BY <1>0, <3>7
  <2> QED
    BY <2>1, <2>2
<1>4. CASE ReadRows(u)
  <2>1. req[u].at = "listed" /\ req'[u].shown = req[u].shown
    BY <1>4, ReadEffect
  <2> QED
    BY <2>1 DEF ShownLate
<1>5. req'[u].at = "rendering" /\ Acts(u) => ReadRows(u) \/ \E x \in Abonnement : ShowRow(u, x)
  <2>1. ASSUME NEW a \in Admin, NEW choice \in Choice, Open(u, a, choice)
        PROVE  req'[u].at # "rendering"
    BY <2>1, OpenEffect
  <2>2. ASSUME NEW a \in Admin, Post(u, a)
        PROVE  req'[u].at # "rendering"
    BY <2>2, PostEffect
  <2>3. ASSUME \/ ChangelistView(u) \/ \E ids \in SUBSET Abonnement : CheckSelected(u, ids)
               \/ CheckAllCallbackUrls(u)
        PROVE  req'[u].at # "rendering"
    BY <2>3, ViewEffect, SelectedEffect, AllEffect
  <2>4. ASSUME NEW x \in Abonnement, CheckRow(u, x)
        PROVE  req'[u].at # "rendering"
    BY <2>4, CheckStarted, CheckEffect
  <2>5. ASSUME CloseList(u) \/ Respond(u)
        PROVE  req'[u].at # "rendering"
    BY <2>5, OverEffect, IdleShape
  <2> QED
    BY <2>1, <2>2, <2>3, <2>4, <2>5 DEF Acts
<1> QED
  BY <1>0, <1>2, <1>3, <1>4, <1>5, KeptOrActs

\* No two checks have one number, and all that one was answered is in its results.
LEMMA ChecksApartStep ==
    ASSUME TypeOK, ChecksApart, ChecksHold, Next
    PROVE  ChecksApart'
<1>1. ASSUME NEW u \in Thread, Checks(u)'
      PROVE  \/ Checks(u) /\ req'[u].check = req[u].check
             \/ (\E a \in Admin : Post(u, a)) /\ req'[u].check = made + 1
  <2>1. CASE Kept(u)
    BY <1>1, <2>1 DEF Kept, Checks
  <2>2. ASSUME NEW a \in Admin, NEW choice \in Choice, Open(u, a, choice)
        PROVE  FALSE
    BY <1>1, <2>2, OpenEffect DEF Checks
  <2>3. ASSUME NEW a \in Admin, Post(u, a)
        PROVE  req'[u].check = made + 1
    BY <2>3, PostEffect
  <2>4. ASSUME ChangelistView(u) \/ ReadRows(u)
        PROVE  FALSE
    BY <1>1, <2>4, ViewEffect, ReadEffect DEF Checks
  <2>5. ASSUME NEW s \in Abonnement, ShowRow(u, s)
        PROVE  FALSE
    BY <1>1, <2>5, ShowEffect DEF Checks
  <2>6. ASSUME CheckAllCallbackUrls(u) \/ \E ids \in SUBSET Abonnement : CheckSelected(u, ids)
        PROVE  Checks(u) /\ req'[u].check = req[u].check
    BY <2>6, SelectedEffect, AllEffect DEF Checks
  <2>7. ASSUME NEW s \in Abonnement, CheckRow(u, s)
        PROVE  Checks(u) /\ req'[u].check = req[u].check
    BY <2>7, CheckStarted, CheckEffect
  <2>8. ASSUME CloseList(u) \/ Respond(u)
        PROVE  FALSE
    BY <1>1, <2>8, OverEffect, IdleShape DEF Checks
  <2> QED
    BY <2>1, <2>2, <2>3, <2>4, <2>5, <2>6, <2>7, <2>8, KeptOrActs DEF Acts
<1>2. ASSUME NEW t \in Thread, NEW u \in Thread, Checks(t)', Checks(u)', t # u
      PROVE  req'[t].check # req'[u].check
  <2>1. CASE /\ Checks(t) /\ req'[t].check = req[t].check
             /\ Checks(u) /\ req'[u].check = req[u].check
    BY <1>2, <2>1 DEF ChecksApart
  <2>2. ASSUME NEW v \in Thread, NEW w \in Thread \ {v}, NEW a \in Admin, Post(v, a),
               req'[v].check = made + 1
        PROVE  req'[w].check # req'[v].check
    <3>1. Kept(w)
      BY <2>2, PostEffect
    <3> QED
      BY <2>2, <3>1, CheckMade DEF Kept
  <2> QED
    BY <1>1, <1>2, <2>1, <2>2
<1> QED
  BY <1>2 DEF ChecksApart

LEMMA EmptyStatuses == StatusesOf(NoResults) = {}
  BY EmptyPart DEF StatusesOf

\* The number of a new check is that of no answer and of no status.
LEMMA NumberUnused ==
    ASSUME TypeOK
    PROVE  AnswersOf(made + 1, log) = {}
<1>1. \A l \in log : l.by # made + 1
  BY ByMade, StateShape
<1> QED
  BY <1>1 DEF AnswersOf

LEMMA ChecksHoldStep ==
    ASSUME TypeOK, ChecksApart, ChecksHold, Next
    PROVE  ChecksHold'
<1> DEFINE Holds(u) == /\ req'[u].check > 0
                       /\ AnswersOf(req'[u].check, log') = StatusesOf(req'[u].results)
                       /\ \A key \in DOMAIN req'[u].results :
                             req'[u].results[key].by = req'[u].check
<1> SUFFICES ASSUME NEW u \in Thread, Checks(u)'
             PROVE  Holds(u)
  BY DEF ChecksHold
<1>1. ASSUME Checks(u), req'[u].check = req[u].check, req'[u].results = req[u].results,
             AnswersOf(req[u].check, log') = AnswersOf(req[u].check, log)
      PROVE  Holds(u)
  BY <1>1 DEF ChecksHold
<1>2. ASSUME NEW t \in Thread, t # u, Acts(t)
      PROVE  Holds(u)
  <2>1. Kept(u)
    BY <1>2, OthersKept
  <2>2. Checks(u) /\ req'[u].check = req[u].check /\ req'[u].results = req[u].results
    BY <2>1 DEF Kept, Checks
  <2>3. CASE UNCHANGED log
    BY <1>1, <2>2, <2>3
  <2>4. ASSUME NEW s \in Abonnement, CheckRow(t, s)
        PROVE  Holds(u)
    <3>1. Checks(t) /\ req[t].check > 0 /\ req[t].check # req[u].check
      BY <1>2, <2>2, <2>4, CheckStarted DEF ChecksApart
    <3>2. \/ UNCHANGED log
          \/ \E e \in Endpoint, answer \in Results :
                /\ answer.by = req[t].check
                /\ log' = log \cup {[endpoint |-> e, ok |-> answer.ok, by |-> answer.by]}
      BY <2>4, <3>1, CheckEffect
    <3>3. AnswersOf(req[u].check, log') = AnswersOf(req[u].check, log)
      BY <3>1, <3>2, AnswersApart
    <3> QED
      BY <1>1, <2>2, <3>3
  <2> QED
    BY <1>2, <2>3, <2>4
       DEF Acts, Open, ChangelistView, ReadRows, CloseList, ShowRow, Post, CheckSelected,
           CheckAllCallbackUrls, Respond
<1>3. ASSUME NEW a \in Admin, Post(u, a)
      PROVE  Holds(u)
  <2>1. /\ req'[u].check = made + 1 /\ req'[u].results = NoResults /\ log' = log
        /\ made \in Nat
    BY <1>3, PostEffect, StateShape
  <2> QED
    BY <2>1, EmptyStatuses, EmptyPart, NumberUnused
<1>4. ASSUME CheckAllCallbackUrls(u) \/ \E ids \in SUBSET Abonnement : CheckSelected(u, ids)
      PROVE  Holds(u)
  <2>1. /\ Checks(u) /\ req'[u].check = req[u].check /\ req'[u].results = req[u].results
        /\ log' = log
    BY <1>4, SelectedEffect, AllEffect DEF Checks
  <2> QED
    BY <1>1, <2>1
<1>5. ASSUME NEW s \in Abonnement, CheckRow(u, s)
      PROVE  Holds(u)
  <2>1. Checks(u) /\ req[u].check > 0 /\ req'[u].check = req[u].check
    BY <1>5, CheckStarted, CheckEffect
  <2>2. CASE UNCHANGED log /\ req'[u].results = req[u].results
    BY <1>1, <2>1, <2>2
  <2>3. ASSUME NEW e \in Endpoint, NEW answer \in Results,
               answer.by = req[u].check, KeyOf(e) \notin DOMAIN req[u].results,
               log' = log \cup {[endpoint |-> e, ok |-> answer.ok, by |-> answer.by]},
               DOMAIN req'[u].results = DOMAIN req[u].results \cup {KeyOf(e)},
               req'[u].results[KeyOf(e)] = answer,
               \A key \in DOMAIN req[u].results : req'[u].results[key] = req[u].results[key]
        PROVE  Holds(u)
    <3> DEFINE l == [endpoint |-> e, ok |-> answer.ok, by |-> answer.by]
    <3>1. l.endpoint = e /\ l.ok = answer.ok /\ l.by = req[u].check /\ log' = log \cup {l}
      BY <2>3
    <3> HIDE DEF l
    <3>2. AnswersOf(req[u].check, log') =
             AnswersOf(req[u].check, log) \cup {<<KeyOf(e), answer.ok>>}
      BY <3>1, AnswersAdd
    <3>3. StatusesOf(req'[u].results) = StatusesOf(req[u].results) \cup {<<KeyOf(e), answer.ok>>}
      BY <2>3 DEF StatusesOf
    <3>4. /\ AnswersOf(req[u].check, log) = StatusesOf(req[u].results)
          /\ \A key \in DOMAIN req[u].results : req[u].results[key].by = req[u].check
      BY <2>1 DEF ChecksHold
    <3> QED
      BY <2>1, <2>3, <3>2, <3>3, <3>4
  <2> HIDE DEF Holds
  <2> QED
    BY <1>5, <2>1, <2>2, <2>3, CheckEffect
<1>6. ASSUME \/ \E a \in Admin, choice \in Choice : Open(u, a, choice)
             \/ ChangelistView(u) \/ ReadRows(u)
      PROVE  FALSE
  BY <1>6, OpenEffect, ViewEffect, ReadEffect DEF Checks
<1>7. ASSUME NEW s \in Abonnement, ShowRow(u, s)
      PROVE  FALSE
  BY <1>7, ShowEffect DEF Checks
<1>8. ASSUME CloseList(u) \/ Respond(u)
      PROVE  FALSE
  BY <1>8, OverEffect, IdleShape DEF Checks
<1>9. ASSUME NEW s \in Abonnement, NEW e \in Endpoint, SetEndpoint(s, e)
      PROVE  Holds(u)
  <2>1. Kept(u) /\ log' = log
    BY <1>9, ChangeEffect
  <2> QED
    BY <1>1, <2>1 DEF Kept, Checks
<1>10. ASSUME UNCHANGED <<req, log>>
       PROVE  Holds(u)
  BY <1>1, <1>10 DEF Checks
<1> HIDE DEF Holds
<1>11. ASSUME NEW t \in Thread, Acts(t)
       PROVE  Holds(u)
  BY <1>2, <1>3, <1>4, <1>5, <1>6, <1>7, <1>8, <1>11 DEF Acts
<1> QED
  BY <1>9, <1>10, <1>11, NextActs DEF Delete, Flip

\* Which checks there are after a step.
LEMMA ChecksFrom ==
    ASSUME TypeOK, ChecksHold, Next, NEW u \in Thread, Checks(u)'
    PROVE  \/ Checks(u) /\ req'[u].check = req[u].check /\ ~CloseList(u) /\ ~Respond(u)
           \/ UNCHANGED <<store, log>> /\ req'[u].check = made + 1
<1>1. CASE Kept(u) /\ ~CloseList(u) /\ ~Respond(u)
  BY <1>1 DEF Kept, Checks
<1>2. ASSUME NEW a \in Admin, Post(u, a)
      PROVE  UNCHANGED <<store, log>> /\ req'[u].check = made + 1
  BY <1>2, PostEffect
<1>3. ASSUME \/ \E a \in Admin, choice \in Choice : Open(u, a, choice)
             \/ ChangelistView(u) \/ ReadRows(u)
      PROVE  FALSE
  BY <1>3, OpenEffect, ViewEffect, ReadEffect DEF Checks
<1>4. ASSUME NEW s \in Abonnement, ShowRow(u, s)
      PROVE  FALSE
  BY <1>4, ShowEffect DEF Checks
<1>5. ASSUME CheckAllCallbackUrls(u) \/ \E ids \in SUBSET Abonnement : CheckSelected(u, ids)
      PROVE  /\ Checks(u) /\ req'[u].check = req[u].check
             /\ req[u].at = "posted" /\ req'[u].at = "checking"
  BY <1>5, SelectedEffect, AllEffect DEF Checks
<1>6. ASSUME NEW s \in Abonnement, CheckRow(u, s)
      PROVE  Checks(u) /\ req'[u].check = req[u].check
  BY <1>6, CheckStarted, CheckEffect
<1>7. ASSUME CloseList(u) \/ Respond(u)
      PROVE  FALSE
  BY <1>7, OverEffect, IdleShape DEF Checks
<1> QED
  BY <1>1, <1>2, <1>3, <1>4, <1>5, <1>6, <1>7, KeptOrActs DEF Acts

\* What a session may hold after a step: what it held, or the results of a check that is over.
LEMMA StoreFrom ==
    ASSUME TypeOK, Next, NEW a \in Admin
    PROVE  \/ store'[a] = store[a]
           \/ \E t \in Thread : Respond(t) /\ store'[a] = req[t].results
<1>1. ASSUME NEW t \in Thread, Respond(t)
      PROVE  store'[a] = store[a] \/ store'[a] = req[t].results
  BY <1>1, RespondEffect
<1>2. CASE UNCHANGED store
  BY <1>2
<1> QED
  BY ZenonT(30), <1>1, <1>2
     DEF Next, Open, ChangelistView, ReadRows, ShowRow, CheckRow, CloseList, Post,
         CheckSelected, CheckAllCallbackUrls, SetEndpoint, Delete, Flip

LEMMA StoredMade ==
    ASSUME TypeOK, Answered, NEW a \in Admin, NEW key \in DOMAIN store[a]
    PROVE  store[a][key].by # made + 1
<1>1. PICK l \in log : l.by = store[a][key].by
  BY DEF Answered, AnsweredIn
<1> QED
  BY <1>1, ByMade, StateShape

LEMMA NotStoredStep ==
    ASSUME TypeOK, Answered, ChecksApart, ChecksHold, NotStored, Next
    PROVE  NotStored'
<1> SUFFICES ASSUME NEW a \in Admin, NEW u \in Thread, Checks(u)', NEW key \in DOMAIN store'[a]
             PROVE  store'[a][key].by # req'[u].check
  BY DEF NotStored
<1>1. CASE Checks(u) /\ req'[u].check = req[u].check /\ ~Respond(u)
  <2>1. CASE store'[a] = store[a]
    BY <1>1, <2>1 DEF NotStored
  <2>2. ASSUME NEW t \in Thread, Respond(t), store'[a] = req[t].results
        PROVE  store'[a][key].by # req'[u].check
    <3>1. Checks(t)
      BY <2>2, RespondEffect DEF Checks
    <3>2. store'[a][key].by = req[t].check
      BY <2>2, <3>1 DEF ChecksHold
    <3>3. req[t].check # req[u].check
      BY <1>1, <2>2, <3>1 DEF ChecksApart
    <3> QED
      BY <1>1, <3>2, <3>3
  <2> QED
    BY <2>1, <2>2, StoreFrom
<1>2. CASE UNCHANGED store /\ req'[u].check = made + 1
  BY <1>2, StoredMade
<1> QED
  BY <1>1, <1>2, ChecksFrom

\* A session that holds the results of a check is not touched by the answers to others.
LEMMA OneCheckStep ==
    ASSUME TypeOK, Answered, ChecksApart, ChecksHold, NotStored, OneCheck, Next
    PROVE  OneCheck'
<1> SUFFICES ASSUME NEW a \in Admin, NEW key \in DOMAIN store'[a]
             PROVE  AnswersOf(store'[a][key].by, log') = StatusesOf(store'[a])
  BY DEF OneCheck, AnswersOf, StatusesOf, Range
<1>1. CASE store'[a] = store[a]
  <2> DEFINE c == store[a][key].by
  <2>1. AnswersOf(c, log) = StatusesOf(store[a])
    BY <1>1 DEF OneCheck, AnswersOf, StatusesOf, Range
  <2>2. ASSUME NEW t \in Thread, NEW s \in Abonnement, CheckRow(t, s)
        PROVE  AnswersOf(c, log') = AnswersOf(c, log)
    <3>1. Checks(t) /\ req[t].check > 0 /\ c # req[t].check
      BY <1>1, <2>2, CheckStarted DEF NotStored
    <3>2. \/ UNCHANGED log
          \/ \E e \in Endpoint, answer \in Results :
                /\ answer.by = req[t].check
                /\ log' = log \cup {[endpoint |-> e, ok |-> answer.ok, by |-> answer.by]}
      BY <2>2, <3>1, CheckEffect
    <3> HIDE DEF c
    <3>3. ASSUME NEW e \in Endpoint, NEW answer \in Results, answer.by = req[t].check,
                 log' = log \cup {[endpoint |-> e, ok |-> answer.ok, by |-> answer.by]}
          PROVE  AnswersOf(c, log') = AnswersOf(c, log)
      <4> DEFINE l == [endpoint |-> e, ok |-> answer.ok, by |-> answer.by]
      <4>1. l.by # c /\ log' = log \cup {l}
        BY <3>1, <3>3
      <4> HIDE DEF l
      <4>2. AnswersOf(c, log \cup {l}) = AnswersOf(c, log)
        BY <4>1, AnswersApart
      <4> QED
        BY <4>1, <4>2
    <3> QED
      BY <3>2, <3>3
  <2>3. CASE UNCHANGED log
    BY <1>1, <2>1, <2>3
  <2>4. \/ \E t \in Thread, s \in Abonnement : CheckRow(t, s)
        \/ UNCHANGED log
    BY DEF Next, Open, ChangelistView, ReadRows, ShowRow, CloseList, Post, CheckSelected,
           CheckAllCallbackUrls, Respond, SetEndpoint, Delete, Flip
  <2> QED
    BY <1>1, <2>1, <2>2, <2>3, <2>4
<1>2. ASSUME NEW t \in Thread, Respond(t), store'[a] = req[t].results
      PROVE  AnswersOf(store'[a][key].by, log') = StatusesOf(store'[a])
  <2>1. Checks(t) /\ log' = log
    BY <1>2, RespondEffect, OverEffect DEF Checks
  <2> QED
    BY <1>2, <2>1 DEF ChecksHold
<1> QED
  BY <1>1, <1>2, StoreFrom

LEMMA ListsAloneStep ==
    ASSUME TypeOK, ShownLate, ChecksHold, ListsAlone, Next
    PROVE  ListsAlone'
<1> DEFINE Lists(u) ==
             /\ current'.thread = u
             /\ req'[u].session # NoResults =>
                   \A s \in DOMAIN req'[u].rows :
                      Selects(req'[u].session, req'[u].choice, req'[u].rows[s])
             /\ req'[u].at = "listed" =>
                   \A s \in DOMAIN req'[u].rows \cap DOMAIN subs' : subs'[s] = req'[u].rows[s]
             /\ \A s \in DOMAIN req'[u].shown :
                   req'[u].shown[s] =
                      IF KeyOf(req'[u].rows[s]) \in DOMAIN req'[u].session
                        THEN {req'[u].session[KeyOf(req'[u].rows[s])]} ELSE {}
<1> SUFFICES ASSUME NEW u \in Thread, req'[u].alone, req'[u].at \in {"listed", "rendering"}
             PROVE  Lists(u)
  BY DEF ListsAlone
<1>1. ASSUME Kept(u), current'.thread = current.thread \/ current.thread # u,
             current'.thread = current.thread \/ \E t \in Thread \ {u} : current.thread = t,
             DOMAIN subs' \subseteq DOMAIN subs, \A s \in DOMAIN subs' : subs'[s] = subs[s]
      PROVE  Lists(u)
  <2>1. /\ req'[u].at = req[u].at /\ req'[u].session = req[u].session
        /\ req'[u].choice = req[u].choice /\ req'[u].rows = req[u].rows
        /\ req'[u].shown = req[u].shown
        /\ req[u].alone /\ req[u].at \in {"listed", "rendering"}
    BY <1>1 DEF Kept
  <2>2. /\ current.thread = u
        /\ req[u].session # NoResults =>
              \A s \in DOMAIN req[u].rows :
                 Selects(req[u].session, req[u].choice, req[u].rows[s])
        /\ req[u].at = "listed" =>
              \A s \in DOMAIN req[u].rows \cap DOMAIN subs : subs[s] = req[u].rows[s]
        /\ \A s \in DOMAIN req[u].shown :
              req[u].shown[s] = IF KeyOf(req[u].rows[s]) \in DOMAIN req[u].session
                                  THEN {req[u].session[KeyOf(req[u].rows[s])]} ELSE {}
    BY <2>1 DEF ListsAlone
  <2>3. current'.thread = u
    BY <1>1, <2>2
  <2>4. req'[u].at = "listed" =>
           \A s \in DOMAIN req'[u].rows \cap DOMAIN subs' : subs'[s] = req'[u].rows[s]
    BY <1>1, <2>1, <2>2
  <2> QED
    BY <2>1, <2>2, <2>3, <2>4
<1>2. ASSUME ChangelistView(u)
      PROVE  Lists(u)
  <2> DEFINE ids == Listed(req[u].session, req[u].choice)
  <2>1. /\ req[u].at = "opened" /\ req'[u].session = req[u].session
        /\ req'[u].choice = req[u].choice /\ req'[u].shown = req[u].shown
        /\ DOMAIN req'[u].rows = ids /\ \A s \in ids : req'[u].rows[s] = subs[s]
        /\ current'.thread = u /\ subs' = subs
    BY <1>2, ViewEffect
  <2>2. DOMAIN req'[u].shown = {}
    BY <2>1 DEF ShownLate
  <2>3. req[u].session # NoResults =>
           \A s \in ids : Selects(req[u].session, req[u].choice, subs[s])
    BY DEF Listed
  <2> HIDE DEF ids
  <2> QED
    BY <2>1, <2>2, <2>3
<1>3. ASSUME ReadRows(u)
      PROVE  Lists(u)
  <2>1. /\ req[u].at = "listed" /\ req'[u].at = "rendering" /\ req'[u].session = req[u].session
        /\ req'[u].choice = req[u].choice /\ req'[u].shown = req[u].shown
        /\ req'[u].alone = req[u].alone
        /\ DOMAIN req'[u].rows = DOMAIN req[u].rows \cap DOMAIN subs
        /\ \A s \in DOMAIN req'[u].rows : req'[u].rows[s] = subs[s]
        /\ current' = current
    BY <1>3, ReadEffect
  <2>2. DOMAIN req'[u].shown = {}
    BY <2>1 DEF ShownLate
  <2>3. /\ current.thread = u
        /\ req[u].session # NoResults =>
              \A s \in DOMAIN req[u].rows :
                 Selects(req[u].session, req[u].choice, req[u].rows[s])
        /\ \A s \in DOMAIN req[u].rows \cap DOMAIN subs : subs[s] = req[u].rows[s]
    BY <2>1 DEF ListsAlone
  <2> QED
    BY <2>1, <2>2, <2>3
<1>4. ASSUME NEW s \in Abonnement, ShowRow(u, s)
      PROVE  Lists(u)
  <2>1. /\ req[u].at = "rendering" /\ req'[u].at = "rendering"
        /\ req'[u].session = req[u].session /\ req'[u].choice = req[u].choice
        /\ req'[u].rows = req[u].rows /\ req'[u].alone = req[u].alone
        /\ DOMAIN req'[u].shown = DOMAIN req[u].shown \cup {s}
        /\ \A x \in DOMAIN req[u].shown : req'[u].shown[x] = req[u].shown[x]
        /\ current' = current
    BY <1>4, ShowEffect
  <2>2. req'[u].shown[s] = IF KeyOf(req[u].rows[s]) \in DOMAIN current.session
                             THEN {current.session[KeyOf(req[u].rows[s])]} ELSE {}
    BY <1>4, ShowEffect
  <2>3. /\ current.thread = u
        /\ req[u].session # NoResults =>
              \A x \in DOMAIN req[u].rows :
                 Selects(req[u].session, req[u].choice, req[u].rows[x])
        /\ \A x \in DOMAIN req[u].shown :
              req[u].shown[x] = IF KeyOf(req[u].rows[x]) \in DOMAIN req[u].session
                                  THEN {req[u].session[KeyOf(req[u].rows[x])]} ELSE {}
    BY <2>1 DEF ListsAlone
  <2>4. current.session = req[u].session
    BY <2>3 DEF TypeOK
  <2> QED
    BY SMTT(30), <2>1, <2>2, <2>3, <2>4
<1>5. ASSUME NEW t \in Thread, Acts(t), t # u
      PROVE  Lists(u)
  <2>1. Kept(u)
    BY <1>5, OthersKept
  <2>2. CASE ChangelistView(t) \/ \E ids \in SUBSET Abonnement : CheckSelected(t, ids)
    BY <1>5, <2>2, ViewEffect, SelectedEffect
  <2>3. CASE ~(ChangelistView(t) \/ \E ids \in SUBSET Abonnement : CheckSelected(t, ids))
    <3>1. UNCHANGED subs
      BY <1>5, <2>3
         DEF Acts, Open, ReadRows, CloseList, ShowRow, CheckRow, Post, CheckAllCallbackUrls,
             Respond
    <3>2. current'.thread = current.thread \/ current.thread = t
      BY <1>5, <2>3
         DEF Acts, Open, ReadRows, CloseList, Finish, ShowRow, CheckRow, Post,
             CheckAllCallbackUrls, Respond
    <3> HIDE DEF Lists
    <3> QED
      BY <1>1, <1>5, <2>1, <3>1, <3>2
  <2> QED
    BY <2>2, <2>3
<1>6. ASSUME \/ \E a \in Admin, choice \in Choice : Open(u, a, choice)
             \/ \E a \in Admin : Post(u, a)
             \/ \E ids \in SUBSET Abonnement : CheckSelected(u, ids)
             \/ CheckAllCallbackUrls(u)
      PROVE  FALSE
  BY <1>6, OpenEffect, PostEffect, SelectedEffect, AllEffect
<1>7. ASSUME NEW s \in Abonnement, CheckRow(u, s)
      PROVE  FALSE
  BY <1>7, CheckStarted, CheckEffect
<1>8. ASSUME CloseList(u) \/ Respond(u)
      PROVE  FALSE
  BY <1>8, OverEffect, IdleShape
<1> HIDE DEF Lists
<1>9. ASSUME NEW s \in Abonnement, NEW e \in Endpoint, SetEndpoint(s, e)
      PROVE  FALSE
  BY <1>9, ChangeEffect
<1>10. ASSUME NEW s \in Abonnement, Delete(s)
       PROVE  Lists(u)
  BY <1>1, <1>10, DeletionEffect, KeptSame
<1>11. ASSUME NEW e \in Endpoint, Flip(e)
       PROVE  Lists(u)
  BY <1>1, <1>11, KeptSame DEF Flip
<1>12. ASSUME Acts(u)
       PROVE  Lists(u)
  BY <1>2, <1>3, <1>4, <1>6, <1>7, <1>8, <1>12 DEF Acts
<1> QED
  BY <1>5, <1>9, <1>10, <1>11, <1>12, NextActs

--------------------------------------------------------------------------------
(* Types.                                                                      *)

LEMMA RequestsStep ==
    ASSUME TypeOK, ChecksHold, Next
    PROVE  req' \in [Thread -> Request]
<1>1. ASSUME NEW t \in Thread, Acts(t)
      PROVE  req' \in [Thread -> Request]
  <2>1. CASE \/ \E a \in Admin, choice \in Choice : Open(t, a, choice)
             \/ \E a \in Admin : Post(t, a)
    BY <2>1, OpenEffect, PostEffect
  <2>2. CASE ChangelistView(t) \/ \E ids \in SUBSET Abonnement : CheckSelected(t, ids)
    BY <2>2, ViewEffect, SelectedEffect
  <2>3. CASE ReadRows(t) \/ CheckAllCallbackUrls(t) \/ CloseList(t) \/ Respond(t)
    BY <2>3, ReadEffect, AllEffect, OverEffect
  <2>4. ASSUME NEW s \in Abonnement, ShowRow(t, s)
        PROVE  req' \in [Thread -> Request]
    BY <2>4, ShowEffect
  <2>5. ASSUME NEW s \in Abonnement, CheckRow(t, s)
        PROVE  req' \in [Thread -> Request]
    BY <2>5, CheckStarted, CheckEffect
  <2> QED
    BY <1>1, <2>1, <2>2, <2>3, <2>4, <2>5 DEF Acts
<1>2. ASSUME NEW s \in Abonnement, NEW e \in Endpoint, SetEndpoint(s, e)
      PROVE  req' \in [Thread -> Request]
  BY <1>2, ChangeEffect
<1>3. CASE UNCHANGED req
  BY <1>3 DEF TypeOK
<1> QED
  BY <1>1, <1>2, <1>3, NextActs DEF Delete, Flip

LEMMA SubsStep ==
    ASSUME TypeOK, Next
    PROVE  subs' \in Rows /\ reachable' \subseteq Endpoint
<1>1. ASSUME NEW s \in Abonnement, NEW e \in Endpoint, SetEndpoint(s, e)
      PROVE  subs' \in Rows /\ reachable' \subseteq Endpoint
  BY <1>1, ChangeEffect DEF TypeOK
<1>2. ASSUME NEW s \in Abonnement, Delete(s)
      PROVE  subs' \in Rows /\ reachable' \subseteq Endpoint
  BY <1>2, DeletionEffect DEF TypeOK
<1>3. ASSUME NEW e \in Endpoint, Flip(e)
      PROVE  subs' \in Rows /\ reachable' \subseteq Endpoint
  BY <1>3 DEF Flip, TypeOK
<1>4. CASE UNCHANGED <<subs, reachable>>
  BY <1>4 DEF TypeOK
<1> QED
  BY ZenonT(30), <1>1, <1>2, <1>3, <1>4
     DEF Next, Open, ChangelistView, ReadRows, ShowRow, CheckRow, CloseList, Post,
         CheckSelected, CheckAllCallbackUrls, Respond

LEMMA StoreStep ==
    ASSUME TypeOK, Next
    PROVE  store' \in [Admin -> Session]
<1>1. ASSUME NEW t \in Thread, Respond(t)
      PROVE  store' \in [Admin -> Session]
  BY <1>1, RespondEffect
<1>2. CASE UNCHANGED store
  BY <1>2 DEF TypeOK
<1> QED
  BY ZenonT(30), <1>1, <1>2
     DEF Next, Open, ChangelistView, ReadRows, ShowRow, CheckRow, CloseList, Post,
         CheckSelected, CheckAllCallbackUrls, SetEndpoint, Delete, Flip

LEMMA CountsStep ==
    ASSUME TypeOK, Next
    PROVE  /\ views' \in 0..MaxViews /\ changes' \in 0..MaxChanges /\ made' \in 0..MaxChecks
           /\ made \in Nat /\ made' \in Nat /\ made <= made'
<1>1. views \in Nat /\ changes \in Nat /\ made \in Nat
  BY CallbackStatusAssumption DEF TypeOK
<1>2. ASSUME NEW t \in Thread, NEW a \in Admin, NEW choice \in Choice, Open(t, a, choice)
      PROVE  views' \in 0..MaxViews /\ UNCHANGED <<changes, made>>
  BY <1>1, <1>2, CallbackStatusAssumption DEF Open
<1>3. ASSUME NEW t \in Thread, NEW a \in Admin, Post(t, a)
      PROVE  made' = made + 1 /\ made' \in 0..MaxChecks /\ UNCHANGED <<views, changes>>
  BY <1>1, <1>3, CallbackStatusAssumption DEF Post
<1>4. ASSUME changes < MaxChanges, changes' = changes + 1
      PROVE  changes' \in 0..MaxChanges
  BY <1>1, <1>4, CallbackStatusAssumption
<1>5. CASE UNCHANGED <<views, made>> /\ changes' \in 0..MaxChanges
  BY <1>1, <1>5 DEF TypeOK
<1>6. CASE \E t \in Thread, a \in Admin, choice \in Choice : Open(t, a, choice)
  BY <1>1, <1>2, <1>6 DEF TypeOK
<1>7. CASE \E t \in Thread, a \in Admin : Post(t, a)
  BY <1>1, <1>3, <1>7 DEF TypeOK
<1>8. changes \in 0..MaxChanges
  BY DEF TypeOK
<1> QED
  BY ZenonT(30), <1>4, <1>5, <1>6, <1>7, <1>8
     DEF Next, ChangelistView, ReadRows, ShowRow, CheckRow, CloseList,
         CheckSelected, CheckAllCallbackUrls, Respond, SetEndpoint, Delete, Flip

LEMMA LogStep ==
    ASSUME TypeOK, ChecksHold, Next
    PROVE  log' \subseteq [endpoint : Endpoint, ok : BOOLEAN, by : 1..made']
<1> DEFINE Entry == [endpoint : Endpoint, ok : BOOLEAN, by : 1..made']
<1>1. made \in Nat /\ made' \in Nat /\ made <= made'
  BY CountsStep
<1>2. log \subseteq Entry
  BY <1>1 DEF TypeOK
<1>3. ASSUME NEW t \in Thread, NEW s \in Abonnement, CheckRow(t, s)
      PROVE  log' \subseteq Entry
  <2>1. req[t].check \in 1..made'
    BY <1>1, <1>3, CheckStarted, CheckMade
  <2>2. \/ UNCHANGED log
        \/ \E e \in Endpoint, answer \in Results :
              /\ answer.by = req[t].check
              /\ log' = log \cup {[endpoint |-> e, ok |-> answer.ok, by |-> answer.by]}
    BY <1>3, CheckStarted, CheckEffect
  <2>3. \A answer \in Results : answer.ok \in BOOLEAN
    BY DEF Results
  <2>4. \A e \in Endpoint, answer \in Results : answer.by = req[t].check =>
           [endpoint |-> e, ok |-> answer.ok, by |-> answer.by] \in Entry
    BY <2>1, <2>3
  <2> HIDE DEF Entry
  <2> QED
    BY <1>2, <2>2, <2>4
<1>4. ASSUME UNCHANGED log
      PROVE  log' \subseteq Entry
  BY <1>2, <1>4
<1> HIDE DEF Entry
<1>5. log' \subseteq Entry
  BY <1>3, <1>4
     DEF Next, Open, ChangelistView, ReadRows, ShowRow, CloseList, Post, CheckSelected,
         CheckAllCallbackUrls, Respond, SetEndpoint, Delete, Flip
<1> QED
  BY <1>5 DEF Entry

LEMMA FitsStep ==
    ASSUME TypeOK, ShownLate, ChecksHold, Next, NEW u \in Thread
    PROVE  /\ req'[u].check <= made'
           /\ req'[u].at # "idle" => req'[u].admin \in Admin
           /\ DOMAIN req'[u].shown \subseteq DOMAIN req'[u].rows
<1> DEFINE Fits == /\ req'[u].check <= made'
                   /\ req'[u].at # "idle" => req'[u].admin \in Admin
                   /\ DOMAIN req'[u].shown \subseteq DOMAIN req'[u].rows
<1>0. /\ made \in Nat /\ made' \in Nat /\ made <= made'
      /\ req[u].check \in Nat /\ req[u].check <= made
      /\ req[u].at # "idle" => req[u].admin \in Admin
      /\ DOMAIN req[u].shown \subseteq DOMAIN req[u].rows
  BY CountsStep, CheckMade DEF TypeOK
<1>1. ASSUME req[u].at # "idle", req'[u].admin = req[u].admin, req'[u].check = req[u].check,
             DOMAIN req'[u].shown \subseteq DOMAIN req'[u].rows
      PROVE  Fits
  BY <1>0, <1>1
<1>2. ASSUME Kept(u)
      PROVE  Fits
  BY <1>0, <1>2 DEF Kept
<1>3. ASSUME NEW a \in Admin, NEW choice \in Choice, Open(u, a, choice)
      PROVE  Fits
  BY <1>0, <1>3, OpenEffect, EmptyPart
<1>4. ASSUME NEW a \in Admin, Post(u, a)
      PROVE  Fits
  <2>1. /\ req'[u].check = made + 1 /\ made' = made + 1 /\ req'[u].admin = a
        /\ req'[u].shown = NoResults
    BY <1>4, PostEffect
  <2> QED
    BY <1>0, <2>1, EmptyPart
<1>5. ASSUME \/ ChangelistView(u) \/ \E ids \in SUBSET Abonnement : CheckSelected(u, ids)
             \/ CheckAllCallbackUrls(u) \/ ReadRows(u)
      PROVE  Fits
  <2>1. /\ req[u].at \in {"opened", "posted", "listed"} /\ req'[u].shown = req[u].shown
        /\ req'[u].admin = req[u].admin /\ req'[u].check = req[u].check
    BY <1>5, ViewEffect, SelectedEffect, AllEffect, ReadEffect
  <2>2. DOMAIN req'[u].shown = {}
    BY <2>1 DEF ShownLate
  <2> QED
    BY <1>1, <2>1, <2>2
<1>6. ASSUME NEW s \in Abonnement, ShowRow(u, s)
      PROVE  Fits
  <2>1. /\ req[u].at = "rendering" /\ req'[u].rows = req[u].rows
        /\ s \in DOMAIN req[u].rows /\ DOMAIN req'[u].shown = DOMAIN req[u].shown \cup {s}
        /\ req'[u].admin = req[u].admin /\ req'[u].check = req[u].check
    BY <1>6, ShowEffect
  <2> QED
    BY <1>0, <1>1, <2>1
<1>7. ASSUME NEW s \in Abonnement, CheckRow(u, s)
      PROVE  Fits
  <2>1. /\ req[u].at = "checking" /\ req'[u].shown = req[u].shown
        /\ req'[u].admin = req[u].admin /\ req'[u].check = req[u].check
    BY <1>7, CheckStarted, CheckEffect
  <2>2. DOMAIN req'[u].shown = {}
    BY <2>1 DEF ShownLate
  <2> QED
    BY <1>1, <2>1, <2>2
<1>8. ASSUME CloseList(u) \/ Respond(u)
      PROVE  Fits
  <2>1. req'[u] = Idle
    BY <1>8, OverEffect
  <2> QED
    BY <1>0, <2>1, IdleShape, EmptyPart
<1> HIDE DEF Fits
<1>9. Fits
  BY <1>2, <1>3, <1>4, <1>5, <1>6, <1>7, <1>8, KeptOrActs DEF Acts
<1> QED
  BY <1>9 DEF Fits

\* The request that is stored is one that lasts, with its session.
LEMMA CurrentStep ==
    ASSUME TypeOK, ChecksHold, Next
    PROVE  /\ current' \in [thread : Thread \cup {Nobody}, session : Session]
           /\ \A u \in Thread : current'.thread = u =>
                 req'[u].at # "idle" /\ current'.session = req'[u].session
<1> DEFINE Stored == /\ current' \in [thread : Thread \cup {Nobody}, session : Session]
                     /\ \A u \in Thread : current'.thread = u =>
                           req'[u].at # "idle" /\ current'.session = req'[u].session
<1>0. /\ current \in [thread : Thread \cup {Nobody}, session : Session]
      /\ \A u \in Thread : current.thread = u =>
            req[u].at # "idle" /\ current.session = req[u].session
      /\ Nobody \notin Thread
  BY CallbackStatusAssumption DEF TypeOK
<1>1. ASSUME UNCHANGED current, NEW t \in Thread, \A u \in Thread \ {t} : Kept(u),
             \/ req[t].at = "idle"
             \/ req'[t].at # "idle" /\ req'[t].session = req[t].session
      PROVE  Stored
  BY <1>0, <1>1 DEF Kept
<1>2. ASSUME NEW t \in Thread, NEW a \in Admin, NEW choice \in Choice, Open(t, a, choice)
      PROVE  Stored
  <2>1. UNCHANGED current /\ req[t].at = "idle" /\ \A u \in Thread \ {t} : Kept(u)
    BY <1>2, OpenEffect
  <2> QED
    BY <1>1, <2>1
<1>3. ASSUME NEW t \in Thread, NEW a \in Admin, Post(t, a)
      PROVE  Stored
  <2>1. UNCHANGED current /\ req[t].at = "idle" /\ \A u \in Thread \ {t} : Kept(u)
    BY <1>3, PostEffect
  <2> QED
    BY <1>1, <2>1
<1>4. ASSUME NEW t \in Thread,
             ChangelistView(t) \/ \E ids \in SUBSET Abonnement : CheckSelected(t, ids)
      PROVE  Stored
  <2>1. /\ current' = [thread |-> t, session |-> req[t].session]
        /\ req'[t].session = req[t].session /\ req'[t].at \in {"listed", "checking"}
    BY <1>4, ViewEffect, SelectedEffect
  <2>2. req[t].session \in Session
    BY StateShape, RequestShape
  <2> QED
    BY <2>1, <2>2
<1>5. ASSUME NEW t \in Thread, ReadRows(t) \/ CheckAllCallbackUrls(t)
      PROVE  Stored
  <2>1. /\ UNCHANGED current /\ req'[t].at \in {"rendering", "checking"}
        /\ req'[t].session = req[t].session /\ \A u \in Thread \ {t} : Kept(u)
    BY <1>5, ReadEffect, AllEffect
  <2> QED
    BY <1>1, <2>1
<1>6. ASSUME NEW t \in Thread, NEW s \in Abonnement, ShowRow(t, s)
      PROVE  Stored
  <2>1. /\ UNCHANGED current /\ req'[t].at = "rendering"
        /\ req'[t].session = req[t].session /\ \A u \in Thread \ {t} : Kept(u)
    BY <1>6, ShowEffect
  <2> QED
    BY <1>1, <2>1
<1>7. ASSUME NEW t \in Thread, NEW s \in Abonnement, CheckRow(t, s)
      PROVE  Stored
  <2>1. /\ UNCHANGED current /\ req'[t].at = "checking"
        /\ req'[t].session = req[t].session /\ \A u \in Thread \ {t} : Kept(u)
    BY <1>7, CheckStarted, CheckEffect
  <2> QED
    BY <1>1, <2>1
<1>8. ASSUME NEW t \in Thread, CloseList(t) \/ Respond(t)
      PROVE  Stored
  <2>1. \A u \in Thread \ {t} : Kept(u)
    BY <1>8, OverEffect
  <2>2. CASE current.thread = t
    <3>1. current'.thread = Nobody
      BY <1>0, <1>8, <2>2 DEF CloseList, Finish, Respond
    <3>2. current' \in [thread : Thread \cup {Nobody}, session : Session]
      BY <1>0, <1>8, <2>2, StateShape, RequestShape DEF CloseList, Finish, Respond
    <3> QED
      BY <1>0, <3>1, <3>2
  <2>3. CASE current.thread # t
    <3>1. UNCHANGED current
      BY <1>8, <2>3 DEF CloseList, Finish, Respond
    <3> QED
      BY <1>0, <2>1, <2>3, <3>1 DEF Kept
  <2> QED
    BY <2>2, <2>3
<1>9. ASSUME UNCHANGED current /\ \A u \in Thread : Kept(u)
      PROVE  Stored
  BY <1>0, <1>9 DEF Kept
<1> HIDE DEF Stored
<1>10. ASSUME NEW s \in Abonnement, NEW e \in Endpoint, SetEndpoint(s, e)
       PROVE  Stored
  BY <1>9, <1>10, ChangeEffect
<1>11. ASSUME UNCHANGED <<current, req>>
       PROVE  Stored
  BY <1>9, <1>11, KeptSame
<1>12. ASSUME NEW t \in Thread, Acts(t)
       PROVE  Stored
  BY <1>2, <1>3, <1>4, <1>5, <1>6, <1>7, <1>8, <1>12 DEF Acts
<1>13. Stored
  BY <1>10, <1>11, <1>12, NextActs DEF Delete, Flip
<1> QED
  BY <1>13 DEF Stored

LEMMA TypeStep ==
    ASSUME TypeOK, ShownLate, ChecksHold, Next
    PROVE  TypeOK'
  BY RequestsStep, SubsStep, StoreStep, CountsStep, LogStep, FitsStep, CurrentStep DEF TypeOK

--------------------------------------------------------------------------------
(* The invariant.                                                              *)

LEMMA StatusInvInit == Init => StatusInv
<1> SUFFICES ASSUME Init
             PROVE  StatusInv
  OBVIOUS
<1>1. /\ log = {} /\ current.session = NoResults /\ current.thread = Nobody
      /\ \A a \in Admin : store[a] = NoResults
      /\ \A t \in Thread : req[t] = Idle
  BY DEF Init
<1>2. TypeOK
  <2>1. subs \in Rows /\ reachable \subseteq Endpoint
    BY PartOfShape DEF Init, Rows
  <2>2. NoResults \in Session
    BY EmptyPart DEF Session
  <2>3. /\ store \in [Admin -> Session] /\ req \in [Thread -> Request]
        /\ current \in [thread : Thread \cup {Nobody}, session : Session]
    BY <2>2, IdleShape DEF Init
  <2>4. \A t \in Thread : req[t].check = 0 /\ req[t].at = "idle" /\ DOMAIN req[t].shown = {}
    BY <1>1, IdleShape, EmptyPart
  <2>5. /\ views \in 0..MaxViews /\ changes \in 0..MaxChanges /\ made \in 0..MaxChecks
        /\ made = 0
    BY CallbackStatusAssumption DEF Init
  <2>6. log \subseteq [endpoint : Endpoint, ok : BOOLEAN, by : 1..made]
    BY <1>1
  <2> QED
    BY <1>1, <2>1, <2>3, <2>4, <2>5, <2>6, CallbackStatusAssumption DEF TypeOK
<1>3. Answered
  BY <1>1, IdleShape, NoneAnswered DEF Answered
<1>4. ShownLate /\ ShownWasAnswered
  BY <1>1, IdleShape, EmptyPart DEF ShownLate, ShownWasAnswered
<1>5. ChecksApart /\ ChecksHold /\ NotStored
  BY <1>1, IdleShape DEF ChecksApart, ChecksHold, NotStored, Checks
<1>6. OneCheck
  BY <1>1, EmptyPart DEF OneCheck, Range
<1>7. ListsAlone
  BY <1>1, IdleShape DEF ListsAlone
<1> QED
  BY <1>2, <1>3, <1>4, <1>5, <1>6, <1>7 DEF StatusInv

LEMMA StatusInvStep == StatusInv /\ [Next]_vars => StatusInv'
<1> SUFFICES ASSUME StatusInv, [Next]_vars
             PROVE  StatusInv'
  OBVIOUS
<1> USE DEF StatusInv
<1>1. CASE Next
  BY <1>1, TypeStep, AnsweredStep, ShownLateStep, ShownStep, ChecksApartStep, ChecksHoldStep,
     NotStoredStep, OneCheckStep, ListsAloneStep
<1>2. CASE UNCHANGED vars
  <2> USE <1>2 DEF vars
  <2>1. TypeOK'
    BY DEF TypeOK
  <2>2. Answered' /\ ShownLate' /\ ShownWasAnswered'
    BY DEF Answered, ShownLate, ShownWasAnswered
  <2>3. ChecksApart' /\ ChecksHold' /\ NotStored'
    BY DEF ChecksApart, ChecksHold, NotStored, Checks
  <2>4. OneCheck'
    BY DEF OneCheck
  <2>5. ListsAlone'
    BY DEF ListsAlone
  <2> QED
    BY <2>1, <2>2, <2>3, <2>4, <2>5
<1> QED
  BY <1>1, <1>2

LEMMA StatusInvHolds == Spec => []StatusInv
  BY StatusInvInit, StatusInvStep, PTL DEF Spec

--------------------------------------------------------------------------------
(* Theorems.                                                                   *)

\* Sessions, requests and the log are well-formed, and the request that AbonnementAdmin
\* stores is one that lasts.
THEOREM TypeCorrect == Spec => []TypeOK
<1>1. StatusInv => TypeOK
  BY DEF StatusInv
<1> QED
  BY <1>1, StatusInvHolds, PTL

\* A status that is shown beside a subscription was the answer of the endpoint it is shown
\* with, whatever was changed since and whoever's session it is from.
THEOREM ShownIsAnswered == Spec => []ShownWasAnswered
<1>1. StatusInv => ShownWasAnswered
  BY DEF StatusInv
<1> QED
  BY <1>1, StatusInvHolds, PTL

\* A session holds what one check was answered, all of it, and nothing of another check.
THEOREM SessionsHoldOneCheck == Spec => []OneCheck
<1>1. StatusInv => OneCheck
  BY DEF StatusInv
<1> QED
  BY <1>1, StatusInvHolds, PTL

\* What a row of an undisturbed list shows is what the filter went by.
LEMMA ListsAgree ==
    ASSUME StatusInv
    PROVE  ListAgrees
<1> SUFFICES ASSUME NEW t \in Thread, req[t].alone, req[t].session # NoResults,
                    NEW s \in DOMAIN req[t].shown
             PROVE  LET ok == {status.ok : status \in req[t].shown[s]} IN
                    CASE req[t].choice = "true" -> ok = {TRUE}
                      [] req[t].choice = "false" -> ok # {TRUE}
                      [] req[t].choice = "unknown" -> ok = {}
                      [] OTHER -> TRUE
  BY DEF ListAgrees
<1> DEFINE key == KeyOf(req[t].rows[s])
           results == req[t].session
           ok == {status.ok : status \in req[t].shown[s]}
<1>1. req[t].at = "rendering"
  BY DEF StatusInv, ShownLate
<1>2. s \in DOMAIN req[t].rows
  BY DEF StatusInv, TypeOK
<1>3. Selects(results, req[t].choice, req[t].rows[s])
  BY <1>1, <1>2 DEF StatusInv, ListsAlone
<1>4. req[t].shown[s] = IF key \in DOMAIN results THEN {results[key]} ELSE {}
  BY <1>1 DEF StatusInv, ListsAlone
<1>5. key \in DOMAIN results => results[key].ok \in BOOLEAN
  <2>1. results \in Session
    BY StateShape, RequestShape DEF StatusInv
  <2>2. key \in DOMAIN results => results[key] \in Results
    BY <2>1, PartOfShape DEF Session
  <2> QED
    BY <2>2 DEF Results
<1>6. ok = IF key \in DOMAIN results THEN {results[key].ok} ELSE {}
  BY <1>4
<1>7. req[t].choice = "true" => key \in DOMAIN results /\ results[key].ok
  BY <1>3 DEF Selects
<1>8. req[t].choice = "false" => key \notin DOMAIN results \/ ~results[key].ok
  BY <1>3 DEF Selects
<1>9. req[t].choice = "unknown" => key \notin DOMAIN results
  BY <1>3 DEF Selects
<1> HIDE DEF key, results, ok
<1>10. /\ req[t].choice = "true" => ok = {TRUE}
       /\ req[t].choice = "false" => ok # {TRUE}
       /\ req[t].choice = "unknown" => ok = {}
  BY <1>5, <1>6, <1>7, <1>8, <1>9
<1> QED
  BY <1>10 DEF ok

\* When nobody comes between, the list of subscriptions agrees with the filter it is opened
\* with: what is selected by a status and what is shown as it are from one session.
THEOREM ListMatchesFilter == Spec => []ListAgrees
  BY ListsAgree, StatusInvHolds, PTL

================================================================================
