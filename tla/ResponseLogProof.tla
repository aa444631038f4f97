--------------------------- MODULE ResponseLogProof ---------------------------
(* Theorems about the response log, for every value of its constants.        *)
EXTENDS ResponseLog, FiniteSetTheorems, WellFoundedInduction, TLAPS

\* The publications that have made their rows.
Done == {p \in Publication : pub[p] # NoPub /\ pub[p].done}

\* Rows, tasks and responses are those of publications that are done: none comes
\* to a row before, or after, it was made once.
Begun ==
    \A r \in Row :
       r \in DOMAIN rows \/ task[r] # NoTask \/ (\E e \in log : e.row = r) => r[1] \in Done

\* A publication numbers the subscriptions it is for.
ForSubs ==
    \A p \in Publication : pub[p] # NoPub =>
       pub[p].todo \subseteq pub[p].to /\ \A m \in pub[p].made : m[1] \in pub[p].to

\* An attempt number is never greater than the number of times that was published.
Numbered ==
    /\ \A p \in Publication : Busy(p) => \A m \in pub[p].made : m[2] <= Cardinality(Done) + 1
    /\ \A r \in DOMAIN rows : rows[r].attempt <= Cardinality(Done)
    /\ \A r \in Row : task[r] # NoTask => task[r].read.attempt <= Cardinality(Done)
    /\ \A e \in log : e.attempt <= Cardinality(Done)

\* The responses there were when a publication began are about its object; each is
\* still there, or was deleted with its object or subscription and cannot return.
EarlierStay ==
    \A p \in Publication : pub[p] # NoPub =>
       \A e \in pub[p].earlier :
          /\ e.obj = pub[p].obj
          /\ e \in log \/ e.obj \notin stored \/ e.row[2] \notin subs

\* Whatever a publication has numbered is greater than the attempts before it.
Grown ==
    \A p \in Publication : pub[p] # NoPub =>
       \A e \in pub[p].earlier \cap log :
          /\ \A m \in pub[p].made : e.attempt < m[2]
          /\ \A r \in DOMAIN rows : r[1] = p => e.attempt < rows[r].attempt
          /\ \A r \in Row : r[1] = p /\ task[r] # NoTask => e.attempt < task[r].read.attempt
          /\ \A f \in log : f.row[1] = p => e.attempt < f.attempt

\* How often a row was tried, the attempt included whose answer was just logged.
Tries(r) ==
    IF task[r] = NoTask THEN rows[r].tries
    ELSE IF task[r].pc = "posted" THEN task[r].read.tries ELSE task[r].read.tries + 1

\* A row is answered no more often than it was tried, but for the tries of which a
\* worker died after it had logged.
Tallied ==
    /\ IsFiniteSet(log)
    /\ \A r \in Row : r \in DOMAIN rows \/ task[r] # NoTask
          => Cardinality(Attempts(r)) <= Tries(r) + faults
    /\ \A r \in DOMAIN rows : task[r] # NoTask => task[r].read = rows[r]

\* While a row exists, its tries are in the log or known to be lost.
TriesLogged(r) ==
    /\ \A e \in Attempts(r) : e.obj = ObjOf(r) /\ e.nth <= Cardinality(Attempts(r))
    /\ Cardinality(Attempts(r)) + lost[r] >= Tries(r)
    /\ task[r] # NoTask /\ task[r].pc = "logged" /\ task[r].logs /\ ~task[r].raised =>
          \E e \in Attempts(r) : e.outcome = task[r].outcome
LoggedAsTried == IsFiniteSet(stored) /\ \A r \in DOMAIN rows : TriesLogged(r)

\* An event is only for subscriptions that take events; while its rows wait one is
\* switched off, and it is only for such a one that a task has nothing to log for.
Events ==
    /\ \A p \in Publication : pub[p] # NoPub /\ Kind[pub[p].obj] = "cloudevent" =>
          \A s \in pub[p].to \cap subs : s \in sendCE \cup switched
    /\ \A r \in DOMAIN rows : Kind[ObjOf(r)] = "cloudevent" => r[2] \in sendCE \cup switched
    /\ \A r \in Row : task[r] # NoTask /\ ~task[r].logs =>
          Kind[ObjOf(r)] = "cloudevent" /\ r[2] \in switched

\* A deletion takes only responses of what it deletes.
Doomed == doom # NoDoom => \A e \in doom.responses : OfTarget(e.row, e.obj, doom.target)

--------------------------------------------------------------------------------
(* Shapes.                                                                     *)

LEMMA PubShape ==
    ASSUME TypeOK, NEW p \in Publication, pub[p] # NoPub
    PROVE  /\ pub[p] \in PubRecord /\ pub[p].obj \in Object /\ pub[p].earlier \subseteq Response
           /\ pub[p].made \subseteq Sub \X Attempt /\ pub[p].done \in BOOLEAN
           /\ pub[p].to \subseteq Sub /\ pub[p].todo \subseteq Sub
  BY DEF TypeOK, PubRecord

LEMMA PubIsNotNone == \A x \in PubRecord : x # NoPub
<1>1. "obj" \notin DOMAIN NoPub
  BY DEF NoPub
<1>2. \A x \in PubRecord : "obj" \in DOMAIN x
  BY DEF PubRecord
<1> QED
  BY <1>1, <1>2

LEMMA TaskShape ==
    ASSUME TypeOK, NEW r \in Row, task[r] # NoTask
    PROVE  /\ task[r] \in TaskRecord /\ task[r].pc \in {"posted", "logged"}
           /\ task[r].read \in RowRecord /\ task[r].outcome \in Outcome
           /\ task[r].raised \in BOOLEAN /\ task[r].logs \in BOOLEAN
           /\ task[r].read.attempt \in Attempt /\ task[r].read.tries \in 0..MaxRetries
<1>1. task[r] \in TaskRecord
  BY DEF TypeOK
<1>2. /\ task[r].pc \in {"posted", "logged"} /\ task[r].read \in RowRecord
      /\ task[r].outcome \in Outcome /\ task[r].raised \in BOOLEAN /\ task[r].logs \in BOOLEAN
  BY <1>1 DEF TaskRecord
<1> QED
  BY <1>1, <1>2 DEF RowRecord

LEMMA TaskIsNotNone == \A x \in TaskRecord : x # NoTask
  BY DEF TaskRecord, NoTask

LEMMA RowShape ==
    ASSUME TypeOK, NEW r \in DOMAIN rows
    PROVE  /\ r \in Row /\ rows[r] \in RowRecord
           /\ rows[r].attempt \in Attempt /\ rows[r].tries \in 0..MaxRetries
  BY DEF TypeOK, RowRecord

LEMMA ResponseShape ==
    ASSUME NEW e \in Response
    PROVE  /\ e.row \in Row /\ e.obj \in Object /\ e.attempt \in Attempt
           /\ e.nth \in Nat /\ e.outcome \in Outcome
           /\ e.row[1] \in Publication /\ e.row[2] \in Sub
<1>1. e.nth \in 1..MaxRetries + MaxFaults + 1
  BY DEF Response
<1> QED
  BY <1>1, ResponseLogAssumption DEF Response, Row

LEMMA AttemptsAreNumbers ==
    Cardinality(Publication) \in Nat /\ Attempt \subseteq Nat \ {0}
  BY ResponseLogAssumption, FS_CardinalityType DEF Attempt

--------------------------------------------------------------------------------
(* What the steps do to publications.                                          *)

LEMMA StartEffect ==
    ASSUME TypeOK, NEW p \in Publication, NEW o \in Object, NEW S \in SUBSET Sub, Start(p, o, S)
    PROVE  /\ pub[p] = NoPub /\ pub'[p] \in PubRecord
           /\ pub'[p].obj = o /\ pub'[p].earlier = Of(o) /\ pub'[p].made = {} /\ ~pub'[p].done
           /\ Kind[o] = "cloudevent" => pub'[p].to \subseteq sendCE
           /\ \A q \in Publication \ {p} : pub'[q] = pub[q]
           /\ UNCHANGED <<subs, sendCE, rows, task, log, doom, lost, switched, faults>>
<1>1. Of(o) \subseteq Response
  BY DEF TypeOK, Of
<1>2. [obj |-> o, to |-> S, plain |-> S \ sendCE, todo |-> S, made |-> {},
       earlier |-> Of(o), done |-> FALSE] \in PubRecord
  BY <1>1 DEF PubRecord
<1> QED
  BY <1>2 DEF Start, TypeOK, ghosts

LEMMA NumberEffect ==
    ASSUME TypeOK, NEW p \in Publication, NEW s \in Sub, Number(p, s)
    PROVE  /\ Busy(p) /\ s \in pub[p].todo
           /\ pub'[p].obj = pub[p].obj /\ pub'[p].earlier = pub[p].earlier
           /\ pub'[p].to = pub[p].to /\ pub'[p].done = pub[p].done
           /\ pub'[p].todo = pub[p].todo \ {s} /\ DOMAIN pub'[p] = DOMAIN pub[p]
           /\ pub'[p].made = pub[p].made \cup {<<s, NextAttempt(pub[p].obj)>>}
           /\ \A q \in Publication \ {p} : pub'[q] = pub[q]
           /\ UNCHANGED <<stored, subs, sendCE, rows, task, log, doom, lost, switched, faults>>
<1>1. pub[p] \in PubRecord
  BY PubShape DEF Number, Busy
<1> QED
  BY <1>1 DEF Number, TypeOK, PubRecord, ghosts

LEMMA ScheduleEffect ==
    ASSUME TypeOK, NEW p \in Publication, Schedule(p)
    PROVE  /\ Busy(p)
           /\ pub'[p] \in PubRecord /\ pub'[p].obj = pub[p].obj /\ pub'[p].to = pub[p].to
           /\ pub'[p].earlier = pub[p].earlier /\ pub'[p].done /\ pub'[p].made = {}
           /\ \A q \in Publication \ {p} : pub'[q] = pub[q]
           /\ UNCHANGED <<stored, subs, sendCE, task, log, doom, lost, switched, faults>>
<1>1. pub[p] \in PubRecord
  BY PubShape DEF Schedule, Busy
<1> QED
  BY <1>1 DEF Schedule, TypeOK, PubRecord, ghosts

\* The rows a publication makes: of subscriptions it has numbered, and only while
\* the object and the subscriptions exist.
LEMMA ScheduleRows ==
    ASSUME TypeOK, ForSubs, NEW p \in Publication, Schedule(p)
    PROVE  /\ DOMAIN rows \subseteq DOMAIN rows'
           /\ \A r \in DOMAIN rows : rows'[r] = rows[r]
           /\ \A r \in DOMAIN rows' \ DOMAIN rows :
                 /\ r \in Row /\ r[1] = p /\ rows'[r].tries = 0 /\ rows'[r] \in RowRecord
                 /\ <<r[2], rows'[r].attempt>> \in pub[p].made
                 /\ pub[p].obj \in stored /\ r[2] \in subs
<1>0. pub[p].made \subseteq Sub \X Attempt
  BY PubShape DEF Schedule, Busy
<1>1. CASE pub[p].obj \in stored /\ pub[p].to \subseteq subs
  <2> DEFINE new == {<<p, m[1]>> : m \in pub[p].made}
             NewRow(r) == [attempt |-> CHOOSE n \in Attempt : <<r[2], n>> \in pub[p].made,
                           tries |-> 0, plain |-> r[2] \in pub[p].plain]
  <2>1. rows' = [r \in DOMAIN rows \cup new |-> IF r \in DOMAIN rows THEN rows[r] ELSE NewRow(r)]
    BY <1>1 DEF Schedule
  <2>2. ASSUME NEW r \in new
        PROVE  /\ r \in Row /\ r[1] = p /\ NewRow(r).tries = 0 /\ NewRow(r) \in RowRecord
               /\ <<r[2], NewRow(r).attempt>> \in pub[p].made
    <3>1. PICK m \in pub[p].made : r = <<p, m[1]>>
      BY <2>2
    <3>2. m[1] \in Sub /\ m[2] \in Attempt /\ m = <<m[1], m[2]>>
      BY <1>0, <3>1
    <3>3. \E n \in Attempt : <<r[2], n>> \in pub[p].made
      BY <3>1, <3>2
    <3>4. NewRow(r).attempt \in Attempt /\ <<r[2], NewRow(r).attempt>> \in pub[p].made
      BY <3>3
    <3> QED
      BY <3>1, <3>2, <3>4, ResponseLogAssumption DEF Row, RowRecord
  <2>3. \A r \in new : r[2] \in pub[p].to
    BY DEF Schedule, Busy, ForSubs
  <2> QED
    BY <1>1, <2>1, <2>2, <2>3
<1>2. CASE ~(pub[p].obj \in stored /\ pub[p].to \subseteq subs)
  BY <1>2 DEF Schedule
<1> QED
  BY <1>1, <1>2

--------------------------------------------------------------------------------
(* What the steps do to tasks and responses.                                   *)

LEMMA PostEffect ==
    ASSUME TypeOK, NEW r \in Row, NEW outcome \in Outcome, Post(r, outcome)
    PROVE  /\ r \in DOMAIN rows /\ task[r] = NoTask /\ task'[r] \in TaskRecord
           /\ task'[r].pc = "posted" /\ task'[r].read = rows[r]
           /\ ~task'[r].logs => Kind[ObjOf(r)] = "cloudevent" /\ r[2] \notin sendCE
           /\ \A q \in Row \ {r} : task'[q] = task[q]
           /\ UNCHANGED <<stored, subs, sendCE, pub, rows, log, doom, lost, switched, faults>>
<1> DEFINE logs == Kind[ObjOf(r)] = "cloudevent" => r[2] \in sendCE
<1>1. [pc |-> "posted", read |-> rows[r], logs |-> logs, outcome |-> outcome,
       raised |-> FALSE] \in TaskRecord
  <2>1. logs \in BOOLEAN
    OBVIOUS
  <2> HIDE DEF logs
  <2> QED
    BY <2>1, RowShape DEF Post, TaskRecord
<1>2. task' = [task EXCEPT ![r] = [pc |-> "posted", read |-> rows[r], logs |-> logs,
                                   outcome |-> outcome, raised |-> FALSE]]
  BY DEF Post
<1>3. task'[r].logs = logs
  <2> HIDE DEF logs
  <2> QED
    BY <1>2 DEF TypeOK
<1>4. task'[r] \in TaskRecord /\ task'[r].pc = "posted" /\ task'[r].read = rows[r]
  <2> HIDE DEF logs
  <2> QED
    BY <1>1, <1>2 DEF TypeOK
<1>5. \A q \in Row \ {r} : task'[q] = task[q]
  <2> HIDE DEF logs
  <2> QED
    BY <1>2 DEF TypeOK
<1> QED
  BY <1>3, <1>4, <1>5 DEF Post, ghosts

\* An answer is logged with one of the objects that fit, or logging it raises, or there
\* is nothing to log it for.
LEMMA LogEffect ==
    ASSUME TypeOK, NEW r \in Row, LogAnswer(r)
    PROVE  /\ task[r] # NoTask /\ task[r].pc = "posted" /\ task'[r] \in TaskRecord
           /\ task'[r].pc = "logged" /\ task'[r].read = task[r].read
           /\ task'[r].outcome = task[r].outcome /\ task'[r].logs = task[r].logs
           /\ \A q \in Row \ {r} : task'[q] = task[q]
           /\ UNCHANGED <<stored, subs, sendCE, pub, rows, doom, switched, faults>>
           /\ \/ /\ Cardinality(Parents(ObjOf(r))) = 1 /\ r[2] \in subs
                 /\ \E o \in Parents(ObjOf(r)) : log' = log \cup {Logged(r, o)}
                 /\ UNCHANGED lost
              \/ /\ task'[r].raised = task[r].logs /\ lost'[r] = lost[r] + 1
                 /\ \A q \in Row \ {r} : lost'[q] = lost[q]
                 /\ lost' \in [Row -> Nat] /\ UNCHANGED log
<1>1. task[r] # NoTask /\ task[r].pc = "posted"
  BY DEF LogAnswer, NoTask
<1>2. task[r] \in TaskRecord
  BY <1>1, TaskShape
<1>3. CASE /\ task' = [task EXCEPT ![r] = [@ EXCEPT !.pc = "logged"]]
           /\ \E o \in Parents(ObjOf(r)) : log' = log \cup {Logged(r, o)}
           /\ Cardinality(Parents(ObjOf(r))) = 1 /\ r[2] \in subs /\ UNCHANGED lost
  BY <1>1, <1>2, <1>3 DEF LogAnswer, TypeOK, TaskRecord
<1>4. CASE /\ task' = [task EXCEPT ![r] = [@ EXCEPT !.pc = "logged", !.raised = task[r].logs]]
           /\ lost' = [lost EXCEPT ![r] = @ + 1] /\ UNCHANGED log
  <2>1. task'[r] = [task[r] EXCEPT !.pc = "logged", !.raised = task[r].logs]
    BY <1>4 DEF TypeOK
  <2>2. /\ task'[r] \in TaskRecord /\ task'[r].pc = "logged" /\ task'[r].read = task[r].read
        /\ task'[r].outcome = task[r].outcome /\ task'[r].logs = task[r].logs
        /\ task'[r].raised = task[r].logs
    BY <1>2, <2>1 DEF TaskRecord
  <2>3. lost'[r] = lost[r] + 1 /\ lost' \in [Row -> Nat]
    BY <1>4 DEF TypeOK
  <2>4. \A q \in Row \ {r} : task'[q] = task[q] /\ lost'[q] = lost[q]
    BY <1>4 DEF TypeOK
  <2> QED
    BY <1>1, <1>4, <2>2, <2>3, <2>4 DEF LogAnswer
<1> QED
  BY <1>3, <1>4 DEF LogAnswer

LEMMA SettleEffect ==
    ASSUME TypeOK, NEW r \in Row, Settle(r)
    PROVE  /\ task[r] # NoTask /\ task[r].pc = "logged" /\ task'[r] = NoTask
           /\ \A q \in Row \ {r} : task'[q] = task[q]
           /\ DOMAIN rows' \subseteq DOMAIN rows
           /\ \A q \in DOMAIN rows' \ {r} : rows'[q] = rows[q]
           /\ DOMAIN rows \ DOMAIN rows' \subseteq {r}
           /\ r \in DOMAIN rows /\ r \notin DOMAIN rows' =>
                 Delivered(r) \/ task[r].read.tries + 1 > MaxRetries
           /\ r \in DOMAIN rows' =>
                 /\ rows'[r] \in RowRecord /\ rows'[r].attempt = rows[r].attempt
                 /\ rows'[r].tries = task[r].read.tries + 1
           /\ UNCHANGED <<stored, subs, sendCE, pub, log, doom, lost, switched, faults>>
<1>1. task[r] # NoTask /\ task[r].pc = "logged"
  BY DEF Settle, NoTask
<1>2. task[r].read.tries \in 0..MaxRetries
  BY <1>1, TaskShape
<1>3. r \in DOMAIN rows => rows[r] \in RowRecord
  BY RowShape
<1>4. task'[r] = NoTask /\ \A q \in Row \ {r} : task'[q] = task[q]
  BY DEF Settle, TypeOK
<1>5. CASE Delivered(r) \/ task[r].read.tries + 1 > MaxRetries
  BY <1>1, <1>4, <1>5 DEF Settle, ghosts
<1>6. CASE ~(Delivered(r) \/ task[r].read.tries + 1 > MaxRetries)
  <2>1. rows' = [q \in DOMAIN rows |->
                    IF q = r THEN [rows[q] EXCEPT !.tries = task[r].read.tries + 1]
                    ELSE rows[q]]
    BY <1>6 DEF Settle
  <2>2. task[r].read.tries + 1 \in 0..MaxRetries
    BY <1>2, <1>6, ResponseLogAssumption
  <2>3. r \in DOMAIN rows =>
            /\ [rows[r] EXCEPT !.tries = task[r].read.tries + 1] \in RowRecord
            /\ [rows[r] EXCEPT !.tries = task[r].read.tries + 1].attempt = rows[r].attempt
            /\ [rows[r] EXCEPT !.tries = task[r].read.tries + 1].tries = task[r].read.tries + 1
    BY <1>3, <2>2 DEF RowRecord
  <2> QED
    BY <1>1, <1>4, <2>1, <2>3 DEF Settle, ghosts
<1> QED
  BY <1>5, <1>6

LEMMA CrashEffect ==
    ASSUME TypeOK, NEW r \in Row, Crash(r)
    PROVE  /\ task[r] # NoTask /\ task'[r] = NoTask
           /\ \A q \in Row \ {r} : task'[q] = task[q]
           /\ faults' = faults + 1 /\ faults' \in 0..MaxFaults
           /\ lost'[r] = IF task[r].pc = "posted" THEN lost[r] + 1 ELSE lost[r]
           /\ \A q \in Row \ {r} : lost'[q] = lost[q]
           /\ lost' \in [Row -> Nat]
           /\ UNCHANGED <<stored, subs, sendCE, pub, rows, log, doom, switched>>
  BY ResponseLogAssumption DEF Crash, TypeOK

\* A deletion that comes to its end takes the object and what it found of it, unless
\* more was added meanwhile.
LEMMA DeleteEffect ==
    ASSUME TypeOK, DeleteObject
    PROVE  /\ doom # NoDoom /\ doom' = NoDoom /\ UNCHANGED <<pub, task, lost, switched, faults>>
           /\ \/ /\ Responses(doom.target) \subseteq doom.responses
                 /\ Rows(doom.target) \subseteq doom.rows
                 /\ stored' = stored \ {doom.target} /\ subs' = subs \ {doom.target}
                 /\ sendCE' = sendCE \ {doom.target} /\ log' = log \ doom.responses
                 /\ DOMAIN rows' = DOMAIN rows \ doom.rows
                 /\ \A r \in DOMAIN rows' : rows'[r] = rows[r]
              \/ UNCHANGED <<stored, subs, sendCE, rows, log>>
<1>1. doom # NoDoom
  BY DEF DeleteObject, NoDoom
<1> QED
  BY <1>1 DEF DeleteObject, Gone, ghosts

--------------------------------------------------------------------------------
(* All steps together.                                                         *)

\* A publication stays what it is, and is done for ever.
LEMMA PubsKept ==
    ASSUME TypeOK, Next, NEW p \in Publication, pub[p] # NoPub
    PROVE  /\ pub'[p] # NoPub /\ pub'[p].obj = pub[p].obj /\ pub'[p].earlier = pub[p].earlier
           /\ pub'[p].to = pub[p].to
           /\ pub[p].done => pub'[p].done
<1>1. ASSUME NEW q \in Publication, NEW o \in Object, NEW S \in SUBSET Sub, Start(q, o, S)
      PROVE  pub'[p] = pub[p]
  BY <1>1, StartEffect
<1>2. ASSUME NEW q \in Publication, NEW s \in Sub, Number(q, s)
      PROVE  /\ pub'[p] # NoPub /\ pub'[p].obj = pub[p].obj /\ pub'[p].earlier = pub[p].earlier
             /\ pub'[p].to = pub[p].to /\ pub'[p].done = pub[p].done
  <2>1. "obj" \in DOMAIN pub[p]
    BY PubShape DEF PubRecord
  <2>2. "obj" \notin DOMAIN NoPub
    BY DEF NoPub
  <2>3. "obj" \in DOMAIN pub'[p]
    BY <1>2, <2>1, NumberEffect
  <2> QED
    BY <1>2, <2>2, <2>3, NumberEffect
<1>3. ASSUME NEW q \in Publication, Schedule(q)
      PROVE  /\ pub'[p] # NoPub /\ pub'[p].obj = pub[p].obj /\ pub'[p].earlier = pub[p].earlier
             /\ pub'[p].to = pub[p].to /\ (pub[p].done => pub'[p].done)
  BY <1>3, ScheduleEffect, PubIsNotNone
<1>4. CASE UNCHANGED pub
  BY <1>4
<1> QED
  BY <1>1, <1>2, <1>3, <1>4
     DEF Next, Store, Resend, Post, LogAnswer, Settle, Crash, Switch, DeleteResponses, DeleteRows,
         DeleteObject

\* Where the numbers of a publication come from, and what one starts with.
LEMMA NumbersMade ==
    ASSUME TypeOK, Next, NEW p \in Publication, pub'[p] # NoPub
    PROVE  /\ pub[p] = NoPub =>
                 /\ pub'[p].made = {} /\ ~pub'[p].done /\ pub'[p].earlier = Of(pub'[p].obj)
                 /\ Kind[pub'[p].obj] = "cloudevent" => pub'[p].to \subseteq sendCE
                 /\ UNCHANGED <<rows, task, log, sendCE>>
           /\ pub[p] # NoPub => \A m \in pub'[p].made :
                 m \in pub[p].made \/ (Busy(p) /\ m[2] = NextAttempt(pub[p].obj))
<1> DEFINE Begins == /\ pub[p] = NoPub /\ pub'[p].made = {} /\ ~pub'[p].done
                     /\ pub'[p].earlier = Of(pub'[p].obj)
                     /\ Kind[pub'[p].obj] = "cloudevent" => pub'[p].to \subseteq sendCE
                     /\ UNCHANGED <<rows, task, log, sendCE>>
           Numbers == /\ pub[p] # NoPub
                      /\ \A m \in pub'[p].made :
                            m \in pub[p].made \/ (Busy(p) /\ m[2] = NextAttempt(pub[p].obj))
<1>1. ASSUME NEW q \in Publication, NEW o \in Object, NEW S \in SUBSET Sub, Start(q, o, S)
      PROVE  pub'[p] = pub[p] \/ Begins
  BY <1>1, StartEffect
<1>2. ASSUME NEW q \in Publication, NEW s \in Sub, Number(q, s)
      PROVE  pub'[p] = pub[p] \/ Numbers
  BY <1>2, NumberEffect DEF Busy
<1>3. ASSUME NEW q \in Publication, Schedule(q)
      PROVE  pub'[p] = pub[p] \/ Numbers
  BY <1>3, ScheduleEffect DEF Busy
<1>4. pub'[p] = pub[p] \/ Begins \/ Numbers
  <2> HIDE DEF Begins, Numbers
  <2> QED
    BY <1>1, <1>2, <1>3
       DEF Next, Store, Resend, Post, LogAnswer, Settle, Crash, Switch, DeleteResponses, DeleteRows,
           DeleteObject
<1> QED
  BY <1>4

\* Where rows, tasks and responses come from.
LEMMA RowsFrom ==
    ASSUME TypeOK, ForSubs, Next, NEW r \in DOMAIN rows'
    PROVE  \/ r \in DOMAIN rows /\ rows'[r].attempt = rows[r].attempt
           \/ /\ r \in Row /\ r[1] \in Publication /\ Schedule(r[1])
              /\ <<r[2], rows'[r].attempt>> \in pub[r[1]].made
<1>1. ASSUME NEW p \in Publication, Schedule(p)
      PROVE  \/ r \in DOMAIN rows /\ rows'[r].attempt = rows[r].attempt
             \/ /\ r \in Row /\ r[1] \in Publication /\ Schedule(r[1])
                /\ <<r[2], rows'[r].attempt>> \in pub[r[1]].made
  BY <1>1, ScheduleRows
<1>2. ASSUME NEW q \in Row, Settle(q)
      PROVE  r \in DOMAIN rows /\ rows'[r].attempt = rows[r].attempt
  BY <1>2, SettleEffect
<1>3. CASE DeleteObject
  BY <1>3, DeleteEffect
<1>4. CASE UNCHANGED rows
  BY <1>4
<1> QED
  BY <1>1, <1>2, <1>3, <1>4
     DEF Next, Store, Resend, Start, Number, Post, LogAnswer, Crash, Switch, DeleteResponses,
         DeleteRows

LEMMA TasksFrom ==
    ASSUME TypeOK, Next, NEW r \in Row, task'[r] # NoTask
    PROVE  \/ task[r] # NoTask /\ task'[r].read = task[r].read
           \/ r \in DOMAIN rows /\ task'[r].read = rows[r]
<1>1. ASSUME NEW q \in Row, NEW outcome \in Outcome, Post(q, outcome)
      PROVE  task'[r] = task[r] \/ (r \in DOMAIN rows /\ task'[r].read = rows[r])
  BY <1>1, PostEffect
<1>2. ASSUME NEW q \in Row, LogAnswer(q)
      PROVE  task[r] # NoTask /\ task'[r].read = task[r].read
  BY <1>2, LogEffect
<1>3. ASSUME NEW q \in Row, Settle(q) \/ Crash(q)
      PROVE  task'[r] = task[r]
  BY <1>3, SettleEffect, CrashEffect
<1>4. CASE UNCHANGED task
  BY <1>4
<1> QED
  BY ZenonT(30), <1>1, <1>2, <1>3, <1>4
     DEF Next, Store, Resend, Start, Number, Schedule, Switch, DeleteResponses, DeleteRows,
         DeleteObject

LEMMA ParentsStored ==
    ASSUME NEW o, NEW c \in Parents(o)
    PROVE  c \in stored
  BY DEF Parents

LEMMA ResponsesFrom ==
    ASSUME TypeOK, Next, NEW e \in log', e \notin log
    PROVE  /\ e.row \in Row /\ task[e.row] # NoTask /\ e.attempt = task[e.row].read.attempt
           /\ e.obj \in stored /\ e.row[2] \in subs
<1>1. ASSUME NEW r \in Row, LogAnswer(r)
      PROVE  /\ e.row \in Row /\ task[e.row] # NoTask /\ e.attempt = task[e.row].read.attempt
             /\ e.obj \in stored /\ e.row[2] \in subs
  <2>1. task[r] # NoTask /\ r[2] \in subs
    BY <1>1, LogEffect
  <2>2. PICK o \in Parents(ObjOf(r)) : e = Logged(r, o)
    BY <1>1, LogEffect
  <2> QED
    BY <2>1, <2>2, ParentsStored DEF Logged
<1>2. CASE log' \subseteq log
  BY <1>2
<1> QED
  BY <1>1, <1>2, DeleteEffect
     DEF Next, Store, Resend, Start, Number, Schedule, Post, Settle, Crash, Switch, DeleteResponses,
         DeleteRows

--------------------------------------------------------------------------------
(* Numbers.                                                                    *)

\* A bounded set of numbers has a greatest one: its least distance from the bound exists.
LEMMA Greatest ==
    ASSUME NEW n \in Nat, NEW T \in SUBSET (0..n), T # {}
    PROVE  \E x \in T : \A y \in T : y <= x
<1> DEFINE U == {n - i : i \in T}
<1>1. U \subseteq Nat /\ U # {}
  <2>1. \A i \in T : n - i \in Nat
    OBVIOUS
  <2>2. PICK i \in T : TRUE
    OBVIOUS
  <2>3. n - i \in U
    BY <2>2
  <2> QED
    BY <2>1, <2>3
<1>2. \E u \in U : \A v \in U : <<v, u>> \notin OpToRel(<, Nat)
  <2> HIDE DEF U
  <2> QED
    BY <1>1, NatLessThanWellFounded, WFMin
<1>3. PICK u \in U : \A v \in U : ~(v < u)
  BY <1>1, <1>2 DEF OpToRel
<1>4. PICK x \in T : u = n - x
  OBVIOUS
<1> QED
  BY <1>3, <1>4

LEMMA LastIsGreatest ==
    ASSUME TypeOK, NEW o
    PROVE  /\ LastAttempt(o) \in 0..Cardinality(Publication)
           /\ \A e \in Of(o) : e.attempt <= LastAttempt(o)
           /\ LastAttempt(o) = 0 \/ \E e \in Of(o) : LastAttempt(o) = e.attempt
<1> DEFINE T == {0} \cup {e.attempt : e \in Of(o)}
<1>1. T \in SUBSET (0..Cardinality(Publication)) /\ T # {}
  BY AttemptsAreNumbers, ResponseShape DEF TypeOK, Of, Attempt
<1>2. \E x \in T : \A y \in T : y <= x
  <2> HIDE DEF T
  <2> QED
    BY <1>1, Greatest, AttemptsAreNumbers
<1>3. LastAttempt(o) \in T /\ \A y \in T : y <= LastAttempt(o)
  BY <1>2 DEF LastAttempt, MaxOf
<1>4. LastAttempt(o) \in 0..Cardinality(Publication)
  BY <1>1, <1>3
<1>5. \A e \in Of(o) : e.attempt \in T
  OBVIOUS
<1>6. LastAttempt(o) = 0 \/ \E e \in Of(o) : LastAttempt(o) = e.attempt
  BY <1>3
<1> QED
  BY <1>3, <1>4, <1>5, <1>6

\* The number of publications that are done only grows, and a publication that is not
\* done yet leaves room for one more.
LEMMA DoneCounts ==
    ASSUME TypeOK
    PROVE  /\ IsFiniteSet(Done) /\ Cardinality(Done) \in Nat
           /\ \A p \in Publication : Busy(p) =>
                 p \notin Done /\ Cardinality(Done) + 1 <= Cardinality(Publication)
<1>1. Done \subseteq Publication /\ IsFiniteSet(Publication)
  BY ResponseLogAssumption DEF Done
<1>2. IsFiniteSet(Done) /\ Cardinality(Done) \in Nat /\ Cardinality(Publication) \in Nat
  BY <1>1, FS_Subset, FS_CardinalityType
<1>3. ASSUME NEW p \in Publication, Busy(p)
      PROVE  p \notin Done /\ Cardinality(Done) + 1 <= Cardinality(Publication)
  <2>1. p \notin Done
    BY <1>3 DEF Done, Busy
  <2>2. Cardinality(Done \cup {p}) = Cardinality(Done) + 1
    BY <1>2, <2>1, FS_AddElement
  <2>3. Cardinality(Done \cup {p}) <= Cardinality(Publication)
    BY <1>1, FS_Subset
  <2> QED
    BY <2>1, <2>2, <2>3
<1> QED
  BY <1>2, <1>3

LEMMA DoneGrows ==
    ASSUME TypeOK, Next
    PROVE  /\ Done \subseteq Done' /\ Cardinality(Done') \in Nat
           /\ Cardinality(Done) <= Cardinality(Done')
           /\ \A p \in Publication : Busy(p) /\ p \in Done' =>
                 Cardinality(Done) + 1 <= Cardinality(Done')
<1>1. Done \subseteq Done'
  BY PubsKept DEF Done
<1>2. IsFiniteSet(Done')
  BY FS_Subset, ResponseLogAssumption DEF Done
<1>3. Cardinality(Done') \in Nat /\ Cardinality(Done) <= Cardinality(Done')
  BY <1>1, <1>2, FS_Subset, FS_CardinalityType
<1>4. ASSUME NEW p \in Publication, Busy(p), p \in Done'
      PROVE  Cardinality(Done) + 1 <= Cardinality(Done')
  <2>1. Cardinality(Done \cup {p}) = Cardinality(Done) + 1
    BY <1>4, DoneCounts, FS_AddElement
  <2>2. Cardinality(Done \cup {p}) <= Cardinality(Done')
    BY <1>1, <1>2, <1>4, FS_Subset
  <2> QED
    BY <2>1, <2>2
<1> QED
  BY <1>1, <1>3, <1>4

LEMMA NextIsNew ==
    ASSUME TypeOK, Numbered, NEW o
    PROVE  /\ NextAttempt(o) \in Nat \ {0} /\ NextAttempt(o) <= Cardinality(Done) + 1
           /\ \A e \in Of(o) : e.attempt < NextAttempt(o)
<1>1. LastAttempt(o) \in Nat /\ LastAttempt(o) <= Cardinality(Done)
  BY LastIsGreatest, DoneCounts, AttemptsAreNumbers DEF Numbered, Of
<1>2. \A e \in Of(o) : e.attempt \in Nat
  BY ResponseShape, AttemptsAreNumbers DEF Of, TypeOK
<1> QED
  BY <1>1, <1>2, LastIsGreatest, DoneCounts DEF NextAttempt

--------------------------------------------------------------------------------
(* Steps of the parts of the invariant.                                        *)

LEMMA BegunStep ==
    ASSUME TypeOK, ForSubs, Begun, Next
    PROVE  Begun'
<1> SUFFICES ASSUME NEW r \in Row,
                    r \in DOMAIN rows' \/ task'[r] # NoTask \/ (\E e \in log' : e.row = r)
             PROVE  r[1] \in Done'
  BY DEF Begun
<1>1. Done \subseteq Done'
  BY DoneGrows
<1>2. CASE r \in DOMAIN rows'
  <2>1. CASE r \in DOMAIN rows
    BY <1>1, <2>1 DEF Begun
  <2>2. CASE r[1] \in Publication /\ Schedule(r[1])
    BY <2>2, ScheduleEffect, PubIsNotNone DEF Done
  <2> QED
    BY <1>2, <2>1, <2>2, RowsFrom
<1>3. CASE task'[r] # NoTask
  BY <1>1, <1>3, TasksFrom DEF Begun
<1>4. CASE \E e \in log' : e.row = r
  BY <1>1, <1>4, ResponsesFrom DEF Begun
<1> QED
  BY <1>2, <1>3, <1>4

LEMMA ForSubsStep ==
    ASSUME TypeOK, ForSubs, Next
    PROVE  ForSubs'
<1> SUFFICES ASSUME NEW p \in Publication, pub'[p] # NoPub
             PROVE  pub'[p].todo \subseteq pub'[p].to /\ \A m \in pub'[p].made : m[1] \in pub'[p].to
  BY DEF ForSubs
<1>1. CASE pub'[p] = pub[p]
  BY <1>1 DEF ForSubs
<1>2. ASSUME NEW q \in Publication, NEW o \in Object, NEW S \in SUBSET Sub, Start(q, o, S),
             pub'[p] # pub[p]
      PROVE  pub'[p].todo = pub'[p].to /\ pub'[p].made = {}
  BY <1>2 DEF Start, TypeOK
<1>3. ASSUME NEW q \in Publication, NEW s \in Sub, Number(q, s), pub'[p] # pub[p]
      PROVE  pub'[p].todo \subseteq pub'[p].to /\ \A m \in pub'[p].made : m[1] \in pub'[p].to
  BY <1>3, NumberEffect DEF ForSubs, Busy
<1>4. ASSUME NEW q \in Publication, Schedule(q), pub'[p] # pub[p]
      PROVE  pub'[p].todo = {} /\ pub'[p].made = {}
  <2>1. p = q /\ pub[p] \in PubRecord
    BY <1>4, ScheduleEffect, PubShape DEF Busy
  <2> QED
    BY <1>4, <2>1 DEF Schedule, TypeOK, PubRecord
<1> QED
  BY <1>1, <1>2, <1>3, <1>4
     DEF Next, Store, Resend, Post, LogAnswer, Settle, Crash, Switch, DeleteResponses, DeleteRows,
         DeleteObject

LEMMA AttemptsNat ==
    ASSUME TypeOK
    PROVE  /\ \A r \in DOMAIN rows : rows[r].attempt \in Nat
           /\ \A r \in Row : task[r] # NoTask => task[r].read.attempt \in Nat
           /\ \A e \in log : e.attempt \in Nat
<1>1. \A r \in DOMAIN rows : rows[r].attempt \in Nat
  BY RowShape, AttemptsAreNumbers
<1>2. \A r \in Row : task[r] # NoTask => task[r].read.attempt \in Nat
  BY TaskShape, AttemptsAreNumbers
<1>3. \A e \in log : e.attempt \in Nat
  BY ResponseShape, AttemptsAreNumbers DEF TypeOK
<1> QED
  BY <1>1, <1>2, <1>3

LEMMA NumberedStep ==
    ASSUME TypeOK, ForSubs, Numbered, Next
    PROVE  Numbered'
<1>1. /\ Cardinality(Done) \in Nat /\ Cardinality(Done') \in Nat
      /\ Cardinality(Done) <= Cardinality(Done')
  BY DoneCounts, DoneGrows
<1>2. ASSUME NEW p \in Publication, Busy(p)', NEW m \in pub'[p].made
      PROVE  m[2] <= Cardinality(Done') + 1
  <2>1. pub[p] # NoPub
    BY <1>2, NumbersMade DEF Busy
  <2>2. Busy(p)
    BY <1>2, <2>1, PubsKept DEF Busy
  <2>3. CASE m \in pub[p].made
    <3>1. m[2] \in Nat
      BY <2>1, <2>3, PubShape, AttemptsAreNumbers
    <3> QED
      BY <1>1, <2>2, <2>3, <3>1 DEF Numbered
  <2>4. CASE m[2] = NextAttempt(pub[p].obj)
    BY <1>1, <2>4, NextIsNew
  <2> QED
    BY <1>2, <2>1, <2>3, <2>4, NumbersMade DEF Busy
<1>3. ASSUME NEW r \in DOMAIN rows'
      PROVE  rows'[r].attempt <= Cardinality(Done')
  <2>1. CASE r \in DOMAIN rows /\ rows'[r].attempt = rows[r].attempt
    <3>1. rows[r].attempt \in Nat /\ rows[r].attempt <= Cardinality(Done)
      BY <2>1, AttemptsNat DEF Numbered
    <3> QED
      BY <1>1, <2>1, <3>1
  <2>2. CASE /\ r \in Row /\ r[1] \in Publication /\ Schedule(r[1])
             /\ <<r[2], rows'[r].attempt>> \in pub[r[1]].made
    <3>1. Busy(r[1]) /\ r[1] \in Done'
      BY <2>2, ScheduleEffect, PubIsNotNone DEF Done
    <3>2. Cardinality(Done) + 1 <= Cardinality(Done')
      BY <2>2, <3>1, DoneGrows
    <3>3. rows'[r].attempt \in Nat /\ rows'[r].attempt <= Cardinality(Done) + 1
      BY <2>2, <3>1, PubShape, AttemptsAreNumbers DEF Numbered, Busy
    <3> QED
      BY <1>1, <3>2, <3>3
  <2> QED
    BY <2>1, <2>2, RowsFrom
<1>4. ASSUME NEW r \in Row, task'[r] # NoTask
      PROVE  task'[r].read.attempt <= Cardinality(Done')
  <2>1. CASE task[r] # NoTask /\ task'[r].read = task[r].read
    <3>1. task[r].read.attempt \in Nat /\ task[r].read.attempt <= Cardinality(Done)
      BY <2>1, AttemptsNat DEF Numbered
    <3> QED
      BY <1>1, <2>1, <3>1
  <2>2. CASE r \in DOMAIN rows /\ task'[r].read = rows[r]
    <3>1. rows[r].attempt \in Nat /\ rows[r].attempt <= Cardinality(Done)
      BY <2>2, AttemptsNat DEF Numbered
    <3> QED
      BY <1>1, <2>2, <3>1
  <2> QED
    BY <1>4, <2>1, <2>2, TasksFrom
<1>5. ASSUME NEW e \in log'
      PROVE  e.attempt <= Cardinality(Done')
  <2>1. CASE e \in log
    <3>1. e.attempt \in Nat /\ e.attempt <= Cardinality(Done)
      BY <2>1, AttemptsNat DEF Numbered
    <3> QED
      BY <1>1, <3>1
  <2>2. CASE e \notin log
    <3>1. e.row \in Row /\ task[e.row] # NoTask /\ e.attempt = task[e.row].read.attempt
      BY <2>2, ResponsesFrom
    <3>2. e.attempt \in Nat /\ e.attempt <= Cardinality(Done)
      BY <3>1, AttemptsNat DEF Numbered
    <3> QED
      BY <1>1, <3>2
  <2> QED
    BY <2>1, <2>2
<1> QED
  BY <1>2, <1>3, <1>4, <1>5 DEF Numbered

\* An object that was published does not come back, nor does a subscription.
LEMMA NoneReturns ==
    ASSUME Next
    PROVE  subs' \subseteq subs /\ \A o \in stored' \ stored : ~Published(o)
  BY DEF Next, Store, Resend, Start, Number, Schedule, Post, LogAnswer, Settle, Crash, Switch,
         DeleteResponses, DeleteRows, DeleteObject, Gone

\* A response goes with its object or its subscription.
LEMMA ResponsesGo ==
    ASSUME TypeOK, Doomed, Next, NEW e \in log, e \notin log'
    PROVE  e.obj \notin stored' \/ e.row[2] \notin subs'
<1>1. CASE DeleteObject
  <2>1. /\ e \in doom.responses /\ doom # NoDoom
        /\ stored' = stored \ {doom.target} /\ subs' = subs \ {doom.target}
    BY <1>1, DeleteEffect
  <2> QED
    BY <2>1 DEF Doomed, OfTarget
<1>2. ASSUME NEW r \in Row, LogAnswer(r)
      PROVE  log \subseteq log'
  BY <1>2 DEF LogAnswer
<1> QED
  BY <1>1, <1>2
     DEF Next, Store, Resend, Start, Number, Schedule, Post, Settle, Crash, Switch, DeleteResponses,
         DeleteRows

LEMMA DoomedStep ==
    ASSUME TypeOK, Doomed, Next
    PROVE  Doomed'
<1>1. ASSUME NEW t \in Object \cup Sub, DeleteResponses(t)
      PROVE  Doomed'
  <2>1. doom'.responses = Responses(t) /\ doom'.target = t
    BY <1>1 DEF DeleteResponses
  <2> QED
    BY <2>1 DEF Doomed, Responses
<1>2. CASE DeleteRows
  <2>1. doom # NoDoom /\ doom \in DoomRecord
    BY <1>2 DEF DeleteRows, NoDoom, TypeOK
  <2>2. doom'.responses = doom.responses /\ doom'.target = doom.target
    BY <1>2, <2>1 DEF DeleteRows, DoomRecord
  <2> QED
    BY <2>1, <2>2 DEF Doomed
<1>3. CASE DeleteObject
  BY <1>3, DeleteEffect DEF Doomed
<1>4. CASE UNCHANGED doom
  BY <1>4 DEF Doomed
<1> QED
  BY <1>1, <1>2, <1>3, <1>4
     DEF Next, Store, Resend, Start, Number, Schedule, Post, LogAnswer, Settle, Crash, Switch

LEMMA EarlierStayStep ==
    ASSUME TypeOK, EarlierStay, Doomed, Next
    PROVE  EarlierStay'
<1> SUFFICES ASSUME NEW p \in Publication, pub'[p] # NoPub, NEW e \in pub'[p].earlier
             PROVE  /\ e.obj = pub'[p].obj
                    /\ e \in log' \/ e.obj \notin stored' \/ e.row[2] \notin subs'
  BY DEF EarlierStay
<1>1. CASE pub[p] = NoPub
  BY <1>1, NumbersMade DEF Of
<1>2. CASE pub[p] # NoPub
  <2>1. pub'[p].obj = pub[p].obj /\ e \in pub[p].earlier
    BY <1>2, PubsKept
  <2>2. e.obj = pub[p].obj /\ (e \in log \/ e.obj \notin stored \/ e.row[2] \notin subs)
    BY <1>2, <2>1 DEF EarlierStay
  <2>3. CASE e \in log
    BY <2>1, <2>2, <2>3, ResponsesGo
  <2>4. CASE e.obj \notin stored
    <3>1. Published(e.obj)
      BY <1>2, <2>2 DEF Published
    <3> QED
      BY <2>1, <2>2, <2>4, <3>1, NoneReturns
  <2>5. CASE e.row[2] \notin subs
    BY <2>1, <2>2, <2>5, NoneReturns
  <2> QED
    BY <2>2, <2>3, <2>4, <2>5
<1> QED
  BY <1>1, <1>2

\* Responses that were there before are not logged anew, so what a publication has
\* numbered was numbered with all of them in the log.
LEMMA GrownStep ==
    ASSUME TypeOK, ForSubs, Begun, Numbered, EarlierStay, Grown, Next
    PROVE  Grown'
<1> SUFFICES ASSUME NEW p \in Publication, pub'[p] # NoPub, NEW e \in pub'[p].earlier, e \in log'
             PROVE  /\ \A m \in pub'[p].made : e.attempt < m[2]
                    /\ \A r \in DOMAIN rows' : r[1] = p => e.attempt < rows'[r].attempt
                    /\ \A r \in Row : r[1] = p /\ task'[r] # NoTask
                                         => e.attempt < task'[r].read.attempt
                    /\ \A f \in log' : f.row[1] = p => e.attempt < f.attempt
  BY DEF Grown
<1>1. CASE pub[p] = NoPub
  <2>1. pub'[p].made = {} /\ UNCHANGED <<rows, task, log>> /\ p \notin Done
    BY <1>1, NumbersMade DEF Done
  <2>2. \A r \in DOMAIN rows : r[1] # p
    BY <2>1, RowShape DEF Begun
  <2>3. \A r \in Row : r[1] = p => task[r] = NoTask
    BY <2>1 DEF Begun
  <2>4. \A f \in log : f.row[1] # p
    BY <2>1, ResponseShape DEF Begun, TypeOK
  <2> QED
    BY <2>1, <2>2, <2>3, <2>4
<1>2. CASE pub[p] # NoPub
  <2>1. e \in pub[p].earlier
    BY <1>2, PubsKept
  <2>2. e \in log
    BY <1>2, <2>1, ResponsesFrom DEF EarlierStay
  <2>3. /\ \A m \in pub[p].made : e.attempt < m[2]
        /\ \A r \in DOMAIN rows : r[1] = p => e.attempt < rows[r].attempt
        /\ \A r \in Row : r[1] = p /\ task[r] # NoTask => e.attempt < task[r].read.attempt
        /\ \A f \in log : f.row[1] = p => e.attempt < f.attempt
    BY <1>2, <2>1, <2>2 DEF Grown
  <2>4. e \in Of(pub[p].obj)
    BY <1>2, <2>1, <2>2 DEF Of, EarlierStay
  <2>5. ASSUME NEW m \in pub'[p].made
        PROVE  e.attempt < m[2]
    BY <1>2, <2>3, <2>4, NumbersMade, NextIsNew
  <2>6. ASSUME NEW r \in DOMAIN rows', r[1] = p
        PROVE  e.attempt < rows'[r].attempt
    <3>1. CASE r \in DOMAIN rows /\ rows'[r].attempt = rows[r].attempt
      BY <2>3, <2>6, <3>1
    <3>2. CASE <<r[2], rows'[r].attempt>> \in pub[r[1]].made
      BY <2>3, <2>6, <3>2
    <3> QED
      BY <3>1, <3>2, RowsFrom
  <2>7. ASSUME NEW r \in Row, r[1] = p, task'[r] # NoTask
        PROVE  e.attempt < task'[r].read.attempt
    <3>1. CASE task[r] # NoTask /\ task'[r].read = task[r].read
      BY <2>3, <2>7, <3>1
    <3>2. CASE r \in DOMAIN rows /\ task'[r].read = rows[r]
      BY <2>3, <2>7, <3>2
    <3> QED
      BY <2>7, <3>1, <3>2, TasksFrom
  <2>8. ASSUME NEW f \in log', f.row[1] = p
        PROVE  e.attempt < f.attempt
    BY <2>3, <2>8, ResponsesFrom
  <2> QED
    BY <2>5, <2>6, <2>7, <2>8
<1> QED
  BY <1>1, <1>2

--------------------------------------------------------------------------------
(* How often a row was tried.                                                  *)

LEMMA TriesBound ==
    ASSUME TypeOK, NEW r \in Row, r \in DOMAIN rows \/ task[r] # NoTask
    PROVE  Tries(r) \in Nat /\ Tries(r) <= MaxRetries + 1
<1>1. CASE task[r] = NoTask
  BY <1>1, RowShape, ResponseLogAssumption DEF Tries
<1>2. CASE task[r] # NoTask
  BY <1>2, TaskShape, ResponseLogAssumption DEF Tries
<1> QED
  BY <1>1, <1>2

LEMMA AttemptsFinite ==
    ASSUME IsFiniteSet(log), NEW r
    PROVE  /\ IsFiniteSet(Attempts(r)) /\ Cardinality(Attempts(r)) \in Nat
           /\ Attempts(r)' \subseteq Attempts(r) =>
                 /\ Cardinality(Attempts(r)') \in Nat
                 /\ Cardinality(Attempts(r)') <= Cardinality(Attempts(r))
<1>1. IsFiniteSet(Attempts(r))
  BY FS_Subset DEF Attempts
<1> QED
  BY <1>1, FS_Subset, FS_CardinalityType

LEMMA LogFinite ==
    ASSUME IsFiniteSet(log), TypeOK, Next
    PROVE  IsFiniteSet(log')
<1>1. ASSUME NEW r \in Row, LogAnswer(r)
      PROVE  IsFiniteSet(log')
  BY <1>1, FS_AddElement, LogEffect
<1>2. CASE log' \subseteq log
  BY <1>2, FS_Subset
<1> QED
  BY <1>1, <1>2, DeleteEffect
     DEF Next, Store, Resend, Start, Number, Schedule, Post, Settle, Crash, Switch, DeleteResponses,
         DeleteRows

\* A new response to a row counts once.
LEMMA OneLogged ==
    ASSUME IsFiniteSet(log), NEW r, NEW o, log' = log \cup {Logged(r, o)}
    PROVE  /\ Attempts(r)' = Attempts(r) \cup {Logged(r, o)}
           /\ \A q : q # r => Attempts(q)' = Attempts(q)
           /\ Cardinality(Attempts(r)') \in Nat
           /\ Cardinality(Attempts(r)') <= Cardinality(Attempts(r)) + 1
           /\ Logged(r, o) \notin Attempts(r) =>
                 Cardinality(Attempts(r)') = Cardinality(Attempts(r)) + 1
<1>1. Logged(r, o).row = r
  BY DEF Logged
<1>2. Attempts(r)' = Attempts(r) \cup {Logged(r, o)} /\ \A q : q # r => Attempts(q)' = Attempts(q)
  BY <1>1 DEF Attempts
<1>3. IsFiniteSet(Attempts(r)) /\ Cardinality(Attempts(r)) \in Nat
  BY AttemptsFinite
<1>4. IsFiniteSet(Attempts(r) \cup {Logged(r, o)})
  BY <1>3, FS_AddElement
<1>5. Cardinality(Attempts(r) \cup {Logged(r, o)}) =
         IF Logged(r, o) \in Attempts(r) THEN Cardinality(Attempts(r))
         ELSE Cardinality(Attempts(r)) + 1
  BY <1>3, FS_AddElement
<1> QED
  BY <1>2, <1>3, <1>4, <1>5, FS_CardinalityType

LEMMA FaultsGrow ==
    ASSUME TypeOK, Next
    PROVE  faults \in Nat /\ faults' \in Nat /\ faults <= faults'
<1>1. faults \in Nat
  BY ResponseLogAssumption DEF TypeOK
<1>2. faults' = faults \/ faults' = faults + 1
  BY ZenonT(30), LogEffect
     DEF Next, Store, Resend, Start, Number, Schedule, Post, Settle, Crash, Switch,
         DeleteResponses, DeleteRows, DeleteObject, ghosts
<1> QED
  BY <1>1, <1>2

\* The tally of a row no step is about.
LEMMA TallyKept ==
    ASSUME TypeOK, Tallied, Next, NEW r \in Row, r \in DOMAIN rows' \/ task'[r] # NoTask,
           task'[r] = task[r], r \in DOMAIN rows' => r \in DOMAIN rows /\ rows'[r] = rows[r],
           Attempts(r)' \subseteq Attempts(r)
    PROVE  Cardinality(Attempts(r)') <= Tries(r)' + faults'
<1>1. Tries(r)' = Tries(r)
  BY DEF Tries
<1>2. Cardinality(Attempts(r)) <= Tries(r) + faults /\ IsFiniteSet(log)
  BY DEF Tallied
<1>3. Tries(r) \in Nat
  BY TriesBound
<1> QED
  BY <1>1, <1>2, <1>3, FaultsGrow, AttemptsFinite

LEMMA TalliedStep ==
    ASSUME TypeOK, ForSubs, Begun, Tallied, Next
    PROVE  Tallied'
<1> SUFFICES ASSUME NEW r \in Row, r \in DOMAIN rows' \/ task'[r] # NoTask
             PROVE  /\ Cardinality(Attempts(r)') <= Tries(r)' + faults'
                    /\ r \in DOMAIN rows' /\ task'[r] # NoTask => task'[r].read = rows'[r]
  <2>1. \A r \in DOMAIN rows' : r \in Row
    BY RowShape, RowsFrom
  <2> QED
    BY <2>1, LogFinite DEF Tallied
<1>0. /\ IsFiniteSet(log) /\ faults \in Nat /\ faults' \in Nat /\ faults <= faults'
      /\ r \in DOMAIN rows /\ task[r] # NoTask => task[r].read = rows[r]
      /\ Cardinality(Attempts(r)) \in Nat
  BY FaultsGrow, AttemptsFinite DEF Tallied
<1>1. ASSUME task'[r] = task[r], r \in DOMAIN rows' => r \in DOMAIN rows /\ rows'[r] = rows[r],
             Attempts(r)' \subseteq Attempts(r)
      PROVE  /\ Cardinality(Attempts(r)') <= Tries(r)' + faults'
             /\ r \in DOMAIN rows' /\ task'[r] # NoTask => task'[r].read = rows'[r]
  BY <1>0, <1>1, TallyKept
<1>2. ASSUME NEW p \in Publication, Schedule(p)
      PROVE  /\ Cardinality(Attempts(r)') <= Tries(r)' + faults'
             /\ r \in DOMAIN rows' /\ task'[r] # NoTask => task'[r].read = rows'[r]
  <2>1. UNCHANGED <<task, log, faults>>
    BY <1>2, ScheduleEffect
  <2>2. CASE r \in DOMAIN rows \/ r \notin DOMAIN rows'
    BY <1>1, <1>2, <2>1, <2>2, ScheduleRows DEF Attempts
  <2>3. CASE r \notin DOMAIN rows /\ r \in DOMAIN rows'
    <3>1. r[1] \notin Done /\ rows'[r].tries = 0
      <4>1. r[1] = p /\ rows'[r].tries = 0
        BY <1>2, <2>3, ScheduleRows
      <4>2. Busy(p)
        BY <1>2, ScheduleEffect
      <4> QED
        BY <4>1, <4>2, DoneCounts
    <3>2. task[r] = NoTask /\ Attempts(r) = {}
      BY <3>1 DEF Begun, Attempts
    <3>3. Cardinality(Attempts(r)') = 0 /\ Tries(r)' = 0
      BY <2>1, <3>1, <3>2, FS_EmptySet DEF Attempts, Tries
    <3> QED
      BY <1>0, <2>1, <3>2, <3>3
  <2> QED
    BY <2>2, <2>3
<1>3. ASSUME NEW outcome \in Outcome, Post(r, outcome)
      PROVE  /\ Cardinality(Attempts(r)') <= Tries(r)' + faults'
             /\ r \in DOMAIN rows' /\ task'[r] # NoTask => task'[r].read = rows'[r]
  <2>1. r \in DOMAIN rows /\ UNCHANGED <<rows, log, faults>> /\ task'[r].read = rows[r]
    BY <1>3, PostEffect
  <2>2. Tries(r) = rows[r].tries /\ Tries(r)' = rows[r].tries
    BY <1>3, <2>1, PostEffect, TaskIsNotNone DEF Tries
  <2>3. Attempts(r)' = Attempts(r)
    BY <2>1 DEF Attempts
  <2> QED
    BY <2>1, <2>2, <2>3 DEF Tallied
<1>4. ASSUME LogAnswer(r)
      PROVE  /\ Cardinality(Attempts(r)') <= Tries(r)' + faults'
             /\ r \in DOMAIN rows' /\ task'[r] # NoTask => task'[r].read = rows'[r]
  <2>1. /\ task[r] # NoTask /\ task[r].pc = "posted" /\ task'[r] # NoTask /\ task'[r].pc = "logged"
        /\ task'[r].read = task[r].read /\ UNCHANGED <<rows, faults>>
    BY <1>4, LogEffect, TaskIsNotNone
  <2>2. Tries(r) = task[r].read.tries /\ Tries(r)' = task[r].read.tries + 1
    BY <2>1 DEF Tries
  <2>3. Tries(r) \in Nat /\ Cardinality(Attempts(r)) <= Tries(r) + faults
    BY <2>1, TriesBound DEF Tallied
  <2>4. /\ Cardinality(Attempts(r)') \in Nat
        /\ Cardinality(Attempts(r)') <= Cardinality(Attempts(r)) + 1
    <3>1. CASE UNCHANGED log
      BY <1>0, <3>1 DEF Attempts
    <3>2. CASE \E o \in Parents(ObjOf(r)) : log' = log \cup {Logged(r, o)}
      BY <1>0, <3>2, OneLogged
    <3> QED
      BY <1>4, <3>1, <3>2, LogEffect
  <2>5. Cardinality(Attempts(r)') <= Tries(r)' + faults'
    BY <1>0, <2>1, <2>2, <2>3, <2>4
  <2> QED
    BY <1>0, <2>1, <2>5
<1>5. ASSUME Settle(r)
      PROVE  /\ Cardinality(Attempts(r)') <= Tries(r)' + faults'
             /\ r \in DOMAIN rows' /\ task'[r] # NoTask => task'[r].read = rows'[r]
  <2>1. /\ task[r] # NoTask /\ task[r].pc = "logged" /\ task'[r] = NoTask
        /\ UNCHANGED <<log, faults>> /\ r \in DOMAIN rows'
        /\ rows'[r].tries = task[r].read.tries + 1
    BY <1>5, SettleEffect
  <2>2. Tries(r) = task[r].read.tries + 1 /\ Tries(r)' = task[r].read.tries + 1
    BY <2>1 DEF Tries, NoTask
  <2>3. Attempts(r)' = Attempts(r)
    BY <2>1 DEF Attempts
  <2> QED
    BY <2>1, <2>2, <2>3 DEF Tallied
<1>6. ASSUME Crash(r)
      PROVE  /\ Cardinality(Attempts(r)') <= Tries(r)' + faults'
             /\ r \in DOMAIN rows' /\ task'[r] # NoTask => task'[r].read = rows'[r]
  <2>1. /\ task[r] # NoTask /\ task'[r] = NoTask /\ UNCHANGED <<rows, log>> /\ r \in DOMAIN rows
        /\ faults' = faults + 1
    BY <1>6, CrashEffect
  <2>2. task[r].read = rows[r] /\ rows[r].tries \in Nat
    BY <1>0, <2>1, RowShape
  <2>3. Tries(r)' = rows[r].tries /\ Tries(r) <= rows[r].tries + 1 /\ Tries(r) \in Nat
    BY <2>1, <2>2 DEF Tries
  <2>4. Attempts(r)' = Attempts(r) /\ Cardinality(Attempts(r)) <= Tries(r) + faults
    BY <2>1 DEF Attempts, Tallied
  <2>5. Cardinality(Attempts(r)') <= Tries(r)' + faults'
    BY <1>0, <2>1, <2>2, <2>3, <2>4
  <2> QED
    BY <2>1, <2>5
<1>7. ASSUME NEW q \in Row, q # r,
             (\E outcome \in Outcome : Post(q, outcome)) \/ LogAnswer(q) \/ Settle(q) \/ Crash(q)
      PROVE  /\ task'[r] = task[r]
             /\ r \in DOMAIN rows' => r \in DOMAIN rows /\ rows'[r] = rows[r]
             /\ Attempts(r)' \subseteq Attempts(r)
  <2>1. CASE \E outcome \in Outcome : Post(q, outcome)
    BY <1>7, <2>1, PostEffect DEF Attempts
  <2>2. CASE LogAnswer(q)
    <3>1. CASE UNCHANGED log
      BY <1>7, <2>2, <3>1, LogEffect DEF Attempts
    <3>2. CASE \E o \in Parents(ObjOf(q)) : log' = log \cup {Logged(q, o)}
      BY <1>0, <1>7, <2>2, <3>2, LogEffect, OneLogged
    <3> QED
      BY <2>2, <3>1, <3>2, LogEffect
  <2>3. CASE Settle(q)
    BY <1>7, <2>3, SettleEffect DEF Attempts
  <2>4. CASE Crash(q)
    BY <1>7, <2>4, CrashEffect DEF Attempts
  <2> QED
    BY <1>7, <2>1, <2>2, <2>3, <2>4
<1>8. CASE DeleteObject
  BY <1>1, <1>8, DeleteEffect DEF Attempts
<1>9. CASE UNCHANGED <<rows, task, log>>
  BY <1>1, <1>9 DEF Attempts
<1> QED
  BY <1>1, <1>2, <1>3, <1>4, <1>5, <1>6, <1>7, <1>8, <1>9
     DEF Next, Store, Resend, Start, Number, Switch, DeleteResponses, DeleteRows

--------------------------------------------------------------------------------
(* A row that stays keeps its responses.                                       *)

LEMMA StoredFinite ==
    ASSUME IsFiniteSet(stored), Next
    PROVE  IsFiniteSet(stored')
<1>1. ASSUME NEW p \in Publication, NEW o \in Object, NEW S \in SUBSET Sub, Store(p, o, S)
      PROVE  IsFiniteSet(stored')
  BY <1>1, FS_AddElement DEF Store
<1>2. CASE stored' \subseteq stored
  BY <1>2, FS_Subset
<1> QED
  BY <1>1, <1>2
     DEF Next, Resend, Number, Schedule, Post, LogAnswer, Settle, Crash, Switch, DeleteResponses,
         DeleteRows, DeleteObject, Gone

\* The object of a row that exists is the only one an answer can be logged with.
LEMMA RowsParent ==
    ASSUME TypeOK, IsFiniteSet(stored), NEW r \in DOMAIN rows
    PROVE  /\ ObjOf(r) \in Parents(ObjOf(r))
           /\ Cardinality(Parents(ObjOf(r))) = 1 => Parents(ObjOf(r)) = {ObjOf(r)}
<1>1. ObjOf(r) \in stored /\ Kind[ObjOf(r)] \in {"notificatie", "cloudevent"}
  BY ResponseLogAssumption DEF TypeOK
<1>2. ObjOf(r) \in Parents(ObjOf(r))
  BY <1>1 DEF Parents
<1>3. IsFiniteSet(Parents(ObjOf(r)))
  BY FS_Subset, ParentsStored
<1>4. Cardinality(Parents(ObjOf(r))) = 1 => \E x : Parents(ObjOf(r)) = {x}
  BY <1>3, FS_Singleton
<1> QED
  BY <1>2, <1>4

LEMMA ObjOfStays ==
    ASSUME TypeOK, Begun, Next, NEW r \in DOMAIN rows
    PROVE  ObjOf(r)' = ObjOf(r)
<1>1. r \in Row /\ r[1] \in Publication
  BY RowShape DEF Row
<1>2. pub[r[1]] # NoPub
  BY <1>1 DEF Begun, Done
<1> QED
  BY <1>1, <1>2, PubsKept DEF ObjOf

LEMMA LoggedKept ==
    ASSUME NEW r, TriesLogged(r), task'[r] = task[r], lost'[r] = lost[r],
           rows'[r] = rows[r], Attempts(r)' = Attempts(r), ObjOf(r)' = ObjOf(r)
    PROVE  TriesLogged(r)'
<1>1. Tries(r)' = Tries(r)
  BY DEF Tries
<1> QED
  BY <1>1 DEF TriesLogged

\* Deleting a response takes the row it is of.
LEMMA ResponsesStay ==
    ASSUME TypeOK, Doomed, LoggedAsTried, DeleteObject, NEW r \in DOMAIN rows'
    PROVE  r \in DOMAIN rows /\ rows'[r] = rows[r] /\ Attempts(r)' = Attempts(r)
<1>1. CASE UNCHANGED <<rows, log>>
  BY <1>1 DEF Attempts
<1>2. CASE /\ Rows(doom.target) \subseteq doom.rows /\ log' = log \ doom.responses
           /\ DOMAIN rows' = DOMAIN rows \ doom.rows
           /\ \A q \in DOMAIN rows' : rows'[q] = rows[q]
  <2>1. r \in DOMAIN rows /\ ~OfTarget(r, ObjOf(r), doom.target)
    BY <1>2 DEF Rows
  <2>2. ASSUME NEW e \in Attempts(r)
        PROVE  e \notin doom.responses
    <3>1. e.row = r /\ e.obj = ObjOf(r)
      BY <2>1, <2>2 DEF LoggedAsTried, TriesLogged, Attempts
    <3> QED
      BY <2>1, <3>1, DeleteEffect DEF Doomed
  <2>3. Attempts(r)' = Attempts(r)
    BY <1>2, <2>2 DEF Attempts
  <2> QED
    BY <1>2, <2>1, <2>3
<1> QED
  BY <1>1, <1>2, DeleteEffect

LEMMA AnswerLogged ==
    ASSUME TypeOK, Tallied, LoggedAsTried, Begun, Next,
           NEW r \in DOMAIN rows, LogAnswer(r)
    PROVE  TriesLogged(r)'
<1>1. /\ r \in Row /\ IsFiniteSet(log) /\ IsFiniteSet(stored) /\ TriesLogged(r)
      /\ ObjOf(r)' = ObjOf(r) /\ Cardinality(Attempts(r)) \in Nat /\ lost[r] \in Nat
  BY RowShape, ObjOfStays, AttemptsFinite DEF Tallied, LoggedAsTried, TypeOK
<1>2. /\ task[r] # NoTask /\ task[r].pc = "posted" /\ task'[r] # NoTask /\ task'[r].pc = "logged"
      /\ task'[r].read = task[r].read /\ task'[r].outcome = task[r].outcome
      /\ task'[r].logs = task[r].logs
  BY <1>1, LogEffect, TaskIsNotNone
<1>3. Tries(r) = task[r].read.tries /\ Tries(r)' = task[r].read.tries + 1 /\ Tries(r) \in Nat
  BY <1>1, <1>2, TriesBound DEF Tries
<1>4. CASE /\ Cardinality(Parents(ObjOf(r))) = 1 /\ UNCHANGED lost
           /\ \E o \in Parents(ObjOf(r)) : log' = log \cup {Logged(r, o)}
  <2> DEFINE new == Logged(r, ObjOf(r))
  <2>1. log' = log \cup {Logged(r, ObjOf(r))}
    BY <1>1, <1>4, RowsParent
  <2>2. /\ new.nth = Cardinality(Attempts(r)) + 1 /\ new.obj = ObjOf(r)
        /\ new.outcome = task[r].outcome
    BY DEF Logged
  <2>3. new \notin Attempts(r)
    BY <1>1, <2>2 DEF TriesLogged
  <2>4. /\ Attempts(r)' = Attempts(r) \cup {new}
        /\ Cardinality(Attempts(r)') = Cardinality(Attempts(r)) + 1
    BY <1>1, <2>1, <2>3, OneLogged
  <2>5. \A e \in Attempts(r) : e.obj = ObjOf(r) /\ e.nth <= Cardinality(Attempts(r)) /\ e.nth \in Nat
    BY <1>1, ResponseShape DEF TriesLogged, Attempts, TypeOK
  <2>6. \A e \in Attempts(r)' : e.obj = ObjOf(r)' /\ e.nth <= Cardinality(Attempts(r)')
    <3> HIDE DEF new
    <3> QED
      BY <1>1, <2>2, <2>4, <2>5
  <2>7. Cardinality(Attempts(r)') + lost'[r] >= Tries(r)'
    BY <1>1, <1>3, <1>4, <2>4 DEF TriesLogged
  <2>8. \E e \in Attempts(r)' : e.outcome = task'[r].outcome
    BY <1>2, <2>2, <2>4
  <2> QED
    BY <2>6, <2>7, <2>8 DEF TriesLogged
<1>5. CASE task'[r].raised = task[r].logs /\ lost'[r] = lost[r] + 1 /\ UNCHANGED log
  <2>1. Attempts(r)' = Attempts(r)
    BY <1>5 DEF Attempts
  <2>2. Cardinality(Attempts(r)') + lost'[r] >= Tries(r)'
    BY <1>1, <1>3, <1>5, <2>1 DEF TriesLogged
  <2> QED
    BY <1>1, <1>2, <1>5, <2>1, <2>2 DEF TriesLogged
<1> QED
  BY <1>1, <1>4, <1>5, LogEffect

LEMMA LoggedAsTriedStep ==
    ASSUME TypeOK, ForSubs, Begun, Tallied, LoggedAsTried, Doomed, Next
    PROVE  LoggedAsTried'
<1> SUFFICES ASSUME NEW r \in DOMAIN rows'
             PROVE  TriesLogged(r)'
  BY StoredFinite DEF LoggedAsTried
<1>0. r \in Row /\ IsFiniteSet(log)
  BY RowsFrom, RowShape DEF Tallied
<1>1. ASSUME r \in DOMAIN rows, task'[r] = task[r], rows'[r] = rows[r], lost'[r] = lost[r],
             Attempts(r)' = Attempts(r)
      PROVE  TriesLogged(r)'
  BY <1>1, LoggedKept, ObjOfStays DEF LoggedAsTried
<1>2. ASSUME NEW p \in Publication, Schedule(p)
      PROVE  TriesLogged(r)'
  <2>1. UNCHANGED <<task, log, lost>>
    BY <1>2, ScheduleEffect
  <2>2. CASE r \in DOMAIN rows
    BY <1>1, <1>2, <2>1, <2>2, ScheduleRows DEF Attempts
  <2>3. CASE r \notin DOMAIN rows
    <3>1. r[1] = p /\ rows'[r].tries = 0
      BY <1>2, <2>3, ScheduleRows
    <3>2. Busy(p)
      BY <1>2, ScheduleEffect
    <3>3. r[1] \notin Done
      BY <3>1, <3>2, DoneCounts
    <3>4. task[r] = NoTask /\ Attempts(r) = {}
      BY <1>0, <3>3 DEF Begun, Attempts
    <3>5. Attempts(r)' = {} /\ Cardinality(Attempts(r)') = 0 /\ Tries(r)' = 0
      BY <2>1, <3>1, <3>4, FS_EmptySet DEF Attempts, Tries
    <3>6. lost'[r] \in Nat
      BY <1>0, <2>1 DEF TypeOK
    <3> QED
      BY <2>1, <3>4, <3>5, <3>6 DEF TriesLogged
  <2> QED
    BY <2>2, <2>3
<1>3. ASSUME NEW outcome \in Outcome, Post(r, outcome)
      PROVE  TriesLogged(r)'
  <2>1. r \in DOMAIN rows /\ UNCHANGED <<rows, log, lost>> /\ task'[r].read = rows[r]
    BY <1>0, <1>3, PostEffect
  <2>2. Tries(r) = rows[r].tries /\ Tries(r)' = rows[r].tries /\ task'[r].pc = "posted"
    BY <1>0, <1>3, <2>1, PostEffect, TaskIsNotNone DEF Tries
  <2>3. Attempts(r)' = Attempts(r) /\ ObjOf(r)' = ObjOf(r)
    BY <2>1, ObjOfStays DEF Attempts
  <2> QED
    BY <2>1, <2>2, <2>3 DEF TriesLogged, LoggedAsTried
<1>4. ASSUME LogAnswer(r)
      PROVE  TriesLogged(r)'
  <2>1. r \in DOMAIN rows
    BY <1>0, <1>4, LogEffect
  <2> QED
    BY <1>4, <2>1, AnswerLogged
<1>5. ASSUME Settle(r)
      PROVE  TriesLogged(r)'
  <2>1. /\ task[r] # NoTask /\ task[r].pc = "logged" /\ task'[r] = NoTask
        /\ UNCHANGED <<log, lost>> /\ r \in DOMAIN rows
        /\ rows'[r].tries = task[r].read.tries + 1
    BY <1>0, <1>5, SettleEffect
  <2>2. Tries(r) = task[r].read.tries + 1 /\ Tries(r)' = task[r].read.tries + 1
    BY <2>1 DEF Tries, NoTask
  <2>3. Attempts(r)' = Attempts(r) /\ ObjOf(r)' = ObjOf(r)
    BY <2>1, ObjOfStays DEF Attempts
  <2> QED
    BY <2>1, <2>2, <2>3 DEF TriesLogged, LoggedAsTried
<1>6. ASSUME Crash(r)
      PROVE  TriesLogged(r)'
  <2>1. /\ task[r] # NoTask /\ task'[r] = NoTask /\ UNCHANGED <<rows, log>> /\ r \in DOMAIN rows
        /\ lost'[r] = IF task[r].pc = "posted" THEN lost[r] + 1 ELSE lost[r]
    BY <1>0, <1>6, CrashEffect
  <2>2. task[r].read = rows[r] /\ rows[r].tries \in Nat /\ lost[r] \in Nat
    BY <1>0, <2>1, RowShape DEF Tallied, TypeOK
  <2>3. Tries(r)' = rows[r].tries /\ rows[r].tries <= Tries(r) /\ Tries(r) \in Nat
    BY <2>1, <2>2 DEF Tries
  <2>4. Attempts(r)' = Attempts(r) /\ ObjOf(r)' = ObjOf(r) /\ Cardinality(Attempts(r)) \in Nat
    BY <1>0, <2>1, ObjOfStays, AttemptsFinite DEF Attempts
  <2>5. TriesLogged(r)
    BY <2>1 DEF LoggedAsTried
  <2>6. Cardinality(Attempts(r)) + lost'[r] >= Tries(r)'
    BY <2>1, <2>2, <2>3, <2>4, <2>5 DEF TriesLogged
  <2> QED
    BY <2>1, <2>4, <2>5, <2>6 DEF TriesLogged
<1>7. ASSUME NEW q \in Row, q # r,
             (\E outcome \in Outcome : Post(q, outcome)) \/ LogAnswer(q) \/ Settle(q) \/ Crash(q)
      PROVE  TriesLogged(r)'
  <2>1. CASE \E outcome \in Outcome : Post(q, outcome)
    BY <1>0, <1>1, <1>7, <2>1, PostEffect DEF Attempts
  <2>2. CASE LogAnswer(q)
    <3>1. r \in DOMAIN rows /\ rows'[r] = rows[r] /\ task'[r] = task[r] /\ lost'[r] = lost[r]
      BY <1>0, <1>7, <2>2, LogEffect
    <3>2. CASE UNCHANGED log
      BY <1>1, <3>1, <3>2 DEF Attempts
    <3>3. CASE \E o \in Parents(ObjOf(q)) : log' = log \cup {Logged(q, o)}
      BY <1>0, <1>1, <1>7, <3>1, <3>3, OneLogged
    <3> QED
      BY <2>2, <3>2, <3>3, LogEffect
  <2>3. CASE Settle(q)
    BY <1>0, <1>1, <1>7, <2>3, SettleEffect DEF Attempts
  <2>4. CASE Crash(q)
    BY <1>0, <1>1, <1>7, <2>4, CrashEffect DEF Attempts
  <2> QED
    BY <1>7, <2>1, <2>2, <2>3, <2>4
<1>8. CASE DeleteObject
  BY <1>1, <1>8, ResponsesStay, DeleteEffect
<1>9. CASE UNCHANGED <<rows, task, log, lost>>
  BY <1>1, <1>9 DEF Attempts
<1> QED
  BY <1>0, <1>2, <1>3, <1>4, <1>5, <1>6, <1>7, <1>8, <1>9
     DEF Next, Store, Resend, Start, Number, Switch, DeleteResponses, DeleteRows, ghosts

--------------------------------------------------------------------------------
(* Subscriptions that are switched off.                                        *)

LEMMA SwitchedKept ==
    ASSUME TypeOK, Next
    PROVE  /\ switched \subseteq switched'
           /\ \A s \in subs' : s \in sendCE \cup switched => s \in sendCE' \cup switched'
<1>1. ASSUME NEW t \in Sub, Switch(t)
      PROVE  sendCE \subseteq sendCE' \cup {t} /\ switched' = switched \cup {t}
  BY <1>1 DEF Switch
<1>2. ASSUME NEW r \in Row, LogAnswer(r)
      PROVE  UNCHANGED <<sendCE, switched>>
  BY <1>2, LogEffect
<1>3. CASE DeleteObject
  BY <1>3, DeleteEffect DEF TypeOK
<1> QED
  BY ZenonT(30), <1>1, <1>2, <1>3
     DEF Next, Store, Resend, Start, Number, Schedule, Post, Settle, Crash, DeleteResponses,
         DeleteRows, ghosts

LEMMA EventsStep ==
    ASSUME TypeOK, TypeOK', ForSubs, Begun, Events, Next
    PROVE  Events'
<1>0. subs' \subseteq subs
  BY NoneReturns
<1>1. ASSUME NEW p \in Publication, pub'[p] # NoPub, Kind[pub'[p].obj] = "cloudevent",
             NEW s \in pub'[p].to, s \in subs'
      PROVE  s \in sendCE' \cup switched'
  <2>1. CASE pub[p] = NoPub
    BY <1>1, <2>1, NumbersMade
  <2>2. CASE pub[p] # NoPub
    <3>1. Kind[pub[p].obj] = "cloudevent" /\ s \in pub[p].to /\ s \in subs
      BY <1>0, <1>1, <2>2, PubsKept
    <3> QED
      BY <1>1, <2>2, <3>1, SwitchedKept DEF Events
  <2> QED
    BY <2>1, <2>2
<1>2. ASSUME NEW r \in DOMAIN rows', Kind[ObjOf(r)'] = "cloudevent"
      PROVE  r[2] \in sendCE' \cup switched'
  <2>1. r[2] \in subs'
    BY DEF TypeOK
  <2>2. CASE r \in DOMAIN rows
    BY <1>2, <2>1, <2>2, ObjOfStays, SwitchedKept DEF Events
  <2>3. CASE r \notin DOMAIN rows
    <3>1. /\ r[1] \in Publication /\ Schedule(r[1])
          /\ <<r[2], rows'[r].attempt>> \in pub[r[1]].made
      BY <2>3, RowsFrom
    <3>2. /\ pub[r[1]] # NoPub /\ pub'[r[1]].obj = pub[r[1]].obj
          /\ UNCHANGED <<subs, sendCE, switched>>
      BY <3>1, ScheduleEffect DEF Busy
    <3>3. r[2] \in pub[r[1]].to
      BY <3>1, <3>2 DEF ForSubs
    <3> QED
      BY <1>2, <2>1, <3>1, <3>2, <3>3 DEF Events, ObjOf
  <2> QED
    BY <2>2, <2>3
<1>3. ASSUME NEW r \in Row, task'[r] # NoTask, ~task'[r].logs
      PROVE  Kind[ObjOf(r)'] = "cloudevent" /\ r[2] \in switched'
  <2>1. ObjOf(r)' = ObjOf(r)
    <3>1. r[1] \in Done /\ r[1] \in Publication
      BY <1>3, TasksFrom DEF Begun, Done
    <3> QED
      BY <3>1, PubsKept DEF Done, ObjOf
  <2>2. CASE task[r] # NoTask /\ task'[r].logs = task[r].logs
    BY <1>3, <2>1, <2>2, SwitchedKept DEF Events
  <2>3. CASE /\ r \in DOMAIN rows /\ Kind[ObjOf(r)] = "cloudevent" /\ r[2] \notin sendCE
    BY <2>1, <2>3, SwitchedKept DEF Events
  <2>4. ASSUME NEW q \in Row, NEW outcome \in Outcome, Post(q, outcome)
        PROVE  \/ task[r] # NoTask /\ task'[r].logs = task[r].logs
               \/ r \in DOMAIN rows /\ Kind[ObjOf(r)] = "cloudevent" /\ r[2] \notin sendCE
    BY <1>3, <2>4, PostEffect
  <2>5. ASSUME NEW q \in Row, LogAnswer(q)
        PROVE  task[r] # NoTask /\ task'[r].logs = task[r].logs
    BY <1>3, <2>5, LogEffect
  <2>6. ASSUME NEW q \in Row, Settle(q) \/ Crash(q)
        PROVE  task'[r] = task[r]
    BY <1>3, <2>6, SettleEffect, CrashEffect
  <2>7. CASE UNCHANGED task
    BY <1>3, <2>2, <2>7
  <2> QED
    BY <1>3, <2>2, <2>3, <2>4, <2>5, <2>6, <2>7
       DEF Next, Store, Resend, Start, Number, Schedule, Switch, DeleteResponses, DeleteRows,
           DeleteObject
<1> QED
  BY <1>1, <1>2, <1>3 DEF Events

--------------------------------------------------------------------------------
(* Types.                                                                      *)

\* The number an attempt gets is one of the numbers there are.
LEMMA NumberFits ==
    ASSUME TypeOK, Numbered, NEW p \in Publication, Busy(p)
    PROVE  NextAttempt(pub[p].obj) \in Attempt
<1>1. /\ NextAttempt(pub[p].obj) \in Nat \ {0}
      /\ NextAttempt(pub[p].obj) <= Cardinality(Done) + 1
  BY NextIsNew
<1>2. Cardinality(Done) + 1 <= Cardinality(Publication) /\ Cardinality(Done) \in Nat
  BY DoneCounts
<1> QED
  BY <1>1, <1>2, AttemptsAreNumbers DEF Attempt

LEMMA PubTyped ==
    ASSUME TypeOK, Numbered, Next
    PROVE  pub' \in [Publication -> PubRecord \cup {NoPub}]
<1>1. ASSUME NEW p \in Publication, NEW o \in Object, NEW S \in SUBSET Sub, Start(p, o, S)
      PROVE  pub' \in [Publication -> PubRecord \cup {NoPub}]
  BY <1>1, StartEffect DEF Start, TypeOK
<1>2. ASSUME NEW p \in Publication, NEW s \in Sub, Number(p, s)
      PROVE  pub' \in [Publication -> PubRecord \cup {NoPub}]
  <2>1. Busy(p) /\ pub[p] \in PubRecord /\ NextAttempt(pub[p].obj) \in Attempt
    BY <1>2, NumberEffect, PubShape, NumberFits DEF Busy
  <2>2. pub'[p] \in PubRecord
    <3> DEFINE next == NextAttempt(pub[p].obj)
    <3>1. pub'[p] = [pub[p] EXCEPT !.todo = pub[p].todo \ {s},
                                   !.made = pub[p].made \cup {<<s, next>>}]
      BY <1>2, <2>1 DEF Number, TypeOK, PubRecord
    <3>2. <<s, next>> \in Sub \X Attempt
      BY <2>1
    <3> HIDE DEF next
    <3>3. /\ pub[p].todo \ {s} \in SUBSET Sub
          /\ pub[p].made \cup {<<s, next>>} \in SUBSET (Sub \X Attempt)
      BY <2>1, <3>2 DEF PubRecord
    <3> QED
      BY <2>1, <3>1, <3>3 DEF PubRecord
  <2> QED
    BY <1>2, <2>2 DEF Number, TypeOK
<1>3. ASSUME NEW p \in Publication, Schedule(p)
      PROVE  pub' \in [Publication -> PubRecord \cup {NoPub}]
  BY <1>3, ScheduleEffect DEF Schedule, TypeOK
<1>4. CASE UNCHANGED pub
  BY <1>4 DEF TypeOK
<1> QED
  BY <1>1, <1>2, <1>3, <1>4
     DEF Next, Store, Resend, Post, LogAnswer, Settle, Crash, Switch, DeleteResponses, DeleteRows,
         DeleteObject

LEMMA RowsTyped ==
    ASSUME TypeOK, ForSubs, Begun, Next
    PROVE  /\ DOMAIN rows' \subseteq Row /\ rows' \in [DOMAIN rows' -> RowRecord]
           /\ \A r \in DOMAIN rows' : ObjOf(r)' \in stored' /\ r[2] \in subs'
<1> DEFINE Typed == /\ DOMAIN rows' \subseteq Row /\ rows' \in [DOMAIN rows' -> RowRecord]
                    /\ \A r \in DOMAIN rows' : ObjOf(r)' \in stored' /\ r[2] \in subs'
<1>1. ASSUME NEW p \in Publication, Schedule(p)
      PROVE  Typed
  <2>1. rows' = [r \in DOMAIN rows' |-> rows'[r]]
    BY <1>1 DEF Schedule, TypeOK
  <2>2. \A r \in DOMAIN rows' : r \in Row /\ rows'[r] \in RowRecord
    BY <1>1, ScheduleRows, RowShape
  <2>3. UNCHANGED <<stored, subs>>
    BY <1>1, ScheduleEffect
  <2>4. ASSUME NEW r \in DOMAIN rows'
        PROVE  ObjOf(r)' \in stored' /\ r[2] \in subs'
    <3>1. CASE r \in DOMAIN rows
      BY <2>3, <3>1, ObjOfStays DEF TypeOK
    <3>2. CASE r \notin DOMAIN rows
      <4>1. r[1] = p /\ pub[p].obj \in stored /\ r[2] \in subs
        BY <1>1, <3>2, ScheduleRows
      <4> QED
        BY <1>1, <2>3, <4>1, ScheduleEffect DEF ObjOf
    <3> QED
      BY <3>1, <3>2
  <2> QED
    BY <2>1, <2>2, <2>4
<1>2. ASSUME rows' = [r \in DOMAIN rows' |-> rows'[r]],
             \A r \in DOMAIN rows' :
                r \in DOMAIN rows /\ rows'[r] \in RowRecord /\ ObjOf(r) \in stored' /\ r[2] \in subs'
      PROVE  Typed
  BY <1>2, ObjOfStays, RowShape
<1>3. ASSUME NEW q \in Row, Settle(q)
      PROVE  Typed
  <2>1. rows' = [r \in DOMAIN rows' |-> rows'[r]]
    BY <1>3 DEF Settle
  <2>2. \A r \in DOMAIN rows' : r \in DOMAIN rows /\ rows'[r] \in RowRecord
    BY <1>3, SettleEffect, RowShape
  <2>3. UNCHANGED <<stored, subs>>
    BY <1>3, SettleEffect
  <2> HIDE DEF Typed
  <2> QED
    BY <1>2, <2>1, <2>2, <2>3 DEF TypeOK
<1>4. ASSUME DeleteObject
      PROVE  Typed
  <2>1. rows' = [r \in DOMAIN rows' |-> rows'[r]]
    BY <1>4 DEF DeleteObject, Gone, TypeOK
  <2>2. CASE UNCHANGED <<stored, subs, sendCE, rows, log>>
    <3> HIDE DEF Typed
    <3> QED
      BY <1>2, <2>1, <2>2, RowShape DEF TypeOK
  <2>3. CASE /\ Rows(doom.target) \subseteq doom.rows
             /\ stored' = stored \ {doom.target} /\ subs' = subs \ {doom.target}
             /\ DOMAIN rows' = DOMAIN rows \ doom.rows
             /\ \A r \in DOMAIN rows' : rows'[r] = rows[r]
    <3>1. ASSUME NEW r \in DOMAIN rows'
          PROVE  /\ r \in DOMAIN rows /\ rows'[r] \in RowRecord
                 /\ ObjOf(r) \in stored' /\ r[2] \in subs'
      <4>1. r \in DOMAIN rows /\ ~OfTarget(r, ObjOf(r), doom.target)
        BY <2>3 DEF Rows
      <4> QED
        BY <2>3, <4>1, RowShape DEF OfTarget, TypeOK
    <3> HIDE DEF Typed
    <3> QED
      BY <1>2, <2>1, <3>1
  <2> QED
    BY <1>4, <2>2, <2>3, DeleteEffect
<1>5. ASSUME UNCHANGED rows, stored \subseteq stored', UNCHANGED subs
      PROVE  Typed
  <2>1. rows' = [r \in DOMAIN rows' |-> rows'[r]]
    BY <1>5 DEF TypeOK
  <2>2. ASSUME NEW r \in DOMAIN rows'
        PROVE  /\ r \in DOMAIN rows /\ rows'[r] \in RowRecord
               /\ ObjOf(r) \in stored' /\ r[2] \in subs'
    BY <1>5, RowShape DEF TypeOK
  <2> HIDE DEF Typed
  <2> QED
    BY <1>2, <2>1, <2>2
<1> QED
  BY <1>1, <1>3, <1>4, <1>5
     DEF Next, Store, Resend, Start, Number, Post, LogAnswer, Crash, Switch, DeleteResponses,
         DeleteRows

LEMMA LogTyped ==
    ASSUME TypeOK, Tallied, Next
    PROVE  log' \subseteq Response /\ \A e \in log' : e.obj \in stored' /\ e.row[2] \in subs'
<1> DEFINE Typed == /\ log' \subseteq Response
                    /\ \A e \in log' : e.obj \in stored' /\ e.row[2] \in subs'
<1>1. ASSUME NEW r \in Row, LogAnswer(r)
      PROVE  Typed
  <2>1. task[r] # NoTask /\ task[r].pc = "posted" /\ r[2] \in subs => UNCHANGED <<stored, subs>>
    BY <1>1, LogEffect
  <2>2. ASSUME NEW o \in Parents(ObjOf(r)), r[2] \in subs
        PROVE  /\ Logged(r, o) \in Response /\ Logged(r, o).obj \in stored
               /\ Logged(r, o).row[2] \in subs
    <3>1. o \in stored /\ o \in Object
      BY ParentsStored DEF TypeOK
    <3>2. task[r] # NoTask /\ task[r].pc = "posted"
      BY <1>1, LogEffect
    <3>3. task[r].read.tries \in 0..MaxRetries /\ task[r].read.attempt \in Attempt
          /\ task[r].outcome \in Outcome
      BY <3>2, TaskShape
    <3>4. Cardinality(Attempts(r)) \in Nat /\ Cardinality(Attempts(r)) <= task[r].read.tries + faults
      BY <3>2, AttemptsFinite DEF Tallied, Tries
    <3>5. faults \in 0..MaxFaults
      BY DEF TypeOK
    <3>6. Cardinality(Attempts(r)) + 1 \in 1..MaxRetries + MaxFaults + 1
      BY <3>3, <3>4, <3>5, ResponseLogAssumption
    <3> QED
      BY <2>2, <3>1, <3>3, <3>6 DEF Logged, Response
  <2>3. UNCHANGED <<stored, subs>>
    BY <1>1, LogEffect
  <2> QED
    BY <1>1, <2>2, <2>3, LogEffect DEF TypeOK
<1>2. CASE DeleteObject
  <2>1. CASE UNCHANGED <<stored, subs, sendCE, rows, log>>
    BY <2>1 DEF TypeOK
  <2>2. CASE /\ Responses(doom.target) \subseteq doom.responses /\ log' = log \ doom.responses
             /\ stored' = stored \ {doom.target} /\ subs' = subs \ {doom.target}
    BY <2>2 DEF TypeOK, Responses, OfTarget
  <2> QED
    BY <1>2, <2>1, <2>2, DeleteEffect
<1>3. CASE UNCHANGED log /\ stored \subseteq stored' /\ UNCHANGED subs
  BY <1>3 DEF TypeOK
<1> QED
  BY <1>1, <1>2, <1>3
     DEF Next, Store, Resend, Start, Number, Schedule, Post, Settle, Crash, Switch, DeleteResponses,
         DeleteRows

LEMMA TaskTyped ==
    ASSUME TypeOK, Next
    PROVE  /\ task' \in [Row -> TaskRecord \cup {NoTask}]
           /\ lost' \in [Row -> Nat] /\ faults' \in 0..MaxFaults
<1>1. ASSUME NEW r \in Row, NEW outcome \in Outcome, Post(r, outcome)
      PROVE  task' \in [Row -> TaskRecord \cup {NoTask}] /\ UNCHANGED <<lost, faults>>
  BY <1>1, PostEffect DEF Post, TypeOK
<1>2. ASSUME NEW r \in Row, LogAnswer(r)
      PROVE  task' \in [Row -> TaskRecord \cup {NoTask}] /\ lost' \in [Row -> Nat]
  <2>1. lost' \in [Row -> Nat]
    BY <1>2, LogEffect DEF TypeOK
  <2>2. task' = [q \in Row |-> task'[q]]
    BY <1>2 DEF LogAnswer, TypeOK
  <2>3. \A q \in Row : task'[q] \in TaskRecord \cup {NoTask}
    BY <1>2, LogEffect DEF TypeOK
  <2> QED
    BY <2>1, <2>2, <2>3
<1>3. ASSUME NEW r \in Row, Settle(r)
      PROVE  task' \in [Row -> TaskRecord \cup {NoTask}] /\ UNCHANGED <<lost, faults>>
  BY <1>3, SettleEffect DEF Settle, TypeOK
<1>4. ASSUME NEW r \in Row, Crash(r)
      PROVE  /\ task' \in [Row -> TaskRecord \cup {NoTask}]
             /\ lost' \in [Row -> Nat] /\ faults' \in 0..MaxFaults
  BY <1>4, CrashEffect DEF Crash, TypeOK
<1>5. ASSUME NEW t \in Object \cup Sub, DeleteResponses(t)
      PROVE  UNCHANGED <<task, lost>> /\ faults' \in 0..MaxFaults
  BY <1>5, ResponseLogAssumption DEF DeleteResponses, TypeOK
<1>6. ASSUME NEW s \in Sub, Switch(s)
      PROVE  UNCHANGED <<task, lost>> /\ faults' \in 0..MaxFaults
  BY <1>6, ResponseLogAssumption DEF Switch, TypeOK
<1>7. CASE UNCHANGED <<task, lost, faults>>
  BY <1>7 DEF TypeOK
<1> QED
  BY ZenonT(30), <1>1, <1>2, <1>3, <1>4, <1>5, <1>6, <1>7, LogEffect
     DEF Next, Store, Resend, Start, Number, Schedule, DeleteRows, DeleteObject, ghosts, TypeOK

LEMMA RestTyped ==
    ASSUME TypeOK, Next
    PROVE  /\ stored' \subseteq Object /\ subs' \subseteq Sub /\ sendCE' \subseteq subs'
           /\ switched' \subseteq Sub /\ doom' \in DoomRecord \cup {NoDoom}
<1>1. /\ stored' \subseteq Object /\ subs' \subseteq Sub
      /\ sendCE' \subseteq subs' /\ switched' \subseteq Sub
  <2>1. ASSUME NEW s \in Sub, Switch(s)
        PROVE  UNCHANGED <<stored, subs>> /\ sendCE' \subseteq subs' /\ switched' \subseteq Sub
    BY <2>1 DEF Switch, TypeOK
  <2>2. ASSUME NEW r \in Row, LogAnswer(r)
        PROVE  UNCHANGED <<stored, subs, sendCE, switched>>
    BY <2>2, LogEffect
  <2>3. CASE DeleteObject
    BY <2>3, DeleteEffect DEF TypeOK
  <2> QED
    BY ZenonT(30), <2>1, <2>2, <2>3
       DEF TypeOK, Next, Store, Resend, Start, Number, Schedule, Post, Settle, Crash,
           DeleteResponses, DeleteRows, ghosts
<1>2. ASSUME NEW t \in Object \cup Sub, DeleteResponses(t)
      PROVE  doom' \in DoomRecord
  BY <1>2 DEF DeleteResponses, DoomRecord, Responses, TypeOK
<1>3. CASE DeleteRows
  <2>1. doom \in DoomRecord
    BY <1>3 DEF DeleteRows, NoDoom, TypeOK
  <2>2. Rows(doom.target) \in SUBSET Row
    BY DEF Rows, TypeOK
  <2> QED
    BY <1>1, <1>3, <2>1, <2>2 DEF DeleteRows, DoomRecord
<1>4. CASE DeleteObject
  BY <1>1, <1>4, DeleteEffect
<1>5. CASE UNCHANGED doom
  BY <1>1, <1>5 DEF TypeOK
<1> QED
  BY ZenonT(30), <1>1, <1>2, <1>3, <1>4, <1>5
     DEF Next, Store, Resend, Start, Number, Schedule, Post, LogAnswer, Settle, Crash, Switch

--------------------------------------------------------------------------------
(* The theorems.                                                               *)

LogInv ==
    /\ TypeOK /\ Begun /\ ForSubs /\ Numbered /\ EarlierStay /\ Grown
    /\ Tallied /\ LoggedAsTried /\ Events /\ Doomed

LEMMA LogInvInit == Init => LogInv
<1> SUFFICES ASSUME Init PROVE LogInv
  OBVIOUS
<1>1. TypeOK
  BY ResponseLogAssumption DEF Init, TypeOK
<1>2. IsFiniteSet(stored) /\ IsFiniteSet(log)
  BY FS_EmptySet DEF Init
<1> QED
  BY <1>1, <1>2
     DEF Init, LogInv, Begun, ForSubs, Numbered, Busy, EarlierStay, Grown, Tallied,
         LoggedAsTried, Events, Doomed

LEMMA LogInvStep == LogInv /\ [Next]_vars => LogInv'
<1> SUFFICES ASSUME LogInv, [Next]_vars PROVE LogInv'
  OBVIOUS
<1>1. CASE Next
  <2>1. TypeOK'
    BY <1>1, PubTyped, RowsTyped, LogTyped, TaskTyped, RestTyped DEF LogInv, TypeOK
  <2> QED
    BY <1>1, <2>1, BegunStep, ForSubsStep, NumberedStep, EarlierStayStep, GrownStep, TalliedStep,
       LoggedAsTriedStep, EventsStep, DoomedStep
       DEF LogInv
<1>2. CASE UNCHANGED vars
  <2>1. UNCHANGED <<stored, subs, sendCE, pub, rows, task, log, doom, lost, switched, faults>>
    BY <1>2 DEF vars, ghosts
  <2>2. TypeOK'
    BY <2>1 DEF LogInv, TypeOK, ObjOf
  <2>3. Begun' /\ ForSubs' /\ EarlierStay' /\ Doomed'
    BY <2>1 DEF LogInv, Begun, Done, ForSubs, EarlierStay, Doomed
  <2>4. Numbered'
    BY <2>1 DEF LogInv, Numbered, Busy, Done
  <2>5. Grown'
    BY <2>1 DEF LogInv, Grown
  <2>6. Tallied'
    BY <2>1 DEF LogInv, Tallied, Attempts, Tries
  <2>7. LoggedAsTried'
    BY <2>1 DEF LogInv, LoggedAsTried, TriesLogged, Attempts, Tries, ObjOf
  <2>8. Events'
    BY <2>1 DEF LogInv, Events, ObjOf
  <2> QED
    BY <2>2, <2>3, <2>4, <2>5, <2>6, <2>7, <2>8 DEF LogInv
<1> QED
  BY <1>1, <1>2

LEMMA LogInvHolds == Spec => []LogInv
  BY LogInvInit, LogInvStep, PTL DEF Spec

\* Every variable has its type: a deletion leaves neither row nor response without its
\* object and subscription, and a row is answered a bounded number of times.
THEOREM TypeCorrect == Spec => []TypeOK
<1>1. LogInv => TypeOK
  BY DEF LogInv
<1> QED
  BY <1>1, LogInvHolds, PTL

\* The attempt numbers of a publication are above those there were when it began
\* (last_attempt), with any number of publications and deletions at the same time.
THEOREM NumbersGrow == Spec => []AttemptsGrow
<1>1. LogInv => AttemptsGrow
  <2> SUFFICES ASSUME LogInv, NEW e \in log, NEW f \in log,
                      e.obj = f.obj, e \in pub[f.row[1]].earlier
               PROVE  e.attempt < f.attempt
    BY DEF AttemptsGrow
  <2>1. f.row \in Row /\ f.row[1] \in Publication /\ f.row[1] \in Done
    BY ResponseShape DEF LogInv, TypeOK, Begun
  <2> QED
    BY <2>1 DEF LogInv, Grown, Done
<1> QED
  BY <1>1, LogInvHolds, PTL

\* What the admin shows of a message is what was answered when it was last published:
\* older responses have lower attempt numbers and newer ones there are none.
THEOREM ResultsAreNewest == Spec => []NewestDecides
<1>1. LogInv => NewestDecides
  <2> SUFFICES ASSUME LogInv, NEW o \in stored, NEW p \in Publication, NEW s \in Sub,
                      Newest(p, o), AnswersTo(p, o, s) # {}
               PROVE  LET outcomes == {e.outcome : e \in AnswersTo(p, o, s)} IN
                      /\ EventResults(o, s) \subseteq {outcome # "refused" : outcome \in outcomes}
                      /\ outcomes = {"refused"} => o \in Listed("failure") \ Listed("success")
    BY DEF NewestDecides
  <2>0. PICK f \in AnswersTo(p, o, s) : TRUE
    OBVIOUS
  <2>1. f \in log /\ f.row[1] = p /\ f.obj = o /\ f \in OfSub(o, s)
    BY DEF AnswersTo, OfSub, Of
  <2>2. ASSUME NEW e \in Latest(o, s)
        PROVE  e \in AnswersTo(p, o, s)
    <3>1. e \in OfSub(o, s) /\ e \in log /\ e \in Of(o) /\ f.attempt <= e.attempt
      BY <2>1 DEF Latest, OfSub, Of
    <3>2. CASE e.row[1] # p
      <4>1. e \in pub[p].earlier /\ pub[p] # NoPub
        BY <3>1, <3>2 DEF Newest
      <4>2. e.attempt < f.attempt
        BY <2>1, <3>1, <4>1 DEF LogInv, Grown
      <4>3. e.attempt \in Nat /\ f.attempt \in Nat
        BY <2>1, <3>1, AttemptsNat DEF LogInv
      <4> QED
        BY <3>1, <4>2, <4>3
    <3> QED
      BY <3>1, <3>2 DEF AnswersTo
  <2>3. EventResults(o, s) \subseteq {outcome # "refused" :
                                         outcome \in {e.outcome : e \in AnswersTo(p, o, s)}}
    BY <2>2 DEF EventResults
  <2>4. ASSUME {e.outcome : e \in AnswersTo(p, o, s)} = {"refused"}
        PROVE  o \in Listed("failure") \ Listed("success")
    <3>1. f.outcome = "refused"
      BY <2>4
    <3>2. HasFailure(o)
      BY <2>1, <3>1 DEF HasFailure, Of
    <3> QED
      BY <3>2 DEF Listed, HasFailure
  <2> QED
    BY <2>3, <2>4
<1> QED
  BY <1>1, LogInvHolds, PTL

\* A row its task takes from the table was answered with success in the log, or each of
\* its attempts is a failure in the log or known to be lost, or it is that of an event
\* that reached a subscription while that was switched off send_cloudevents: the only
\* success that leaves no response (the finally clauses of both deliveries).
THEOREM NoneUntraced == Spec => SettledAsLogged
<1> DEFINE Taken == \A r \in DOMAIN rows \ DOMAIN rows' : task[r] # task'[r] => Traced(r)
<1>1. LogInv /\ [Next]_vars => [Taken]_vars
  <2> SUFFICES ASSUME LogInv, Next, NEW r \in DOMAIN rows \ DOMAIN rows', task[r] # task'[r]
               PROVE  Traced(r)
    OBVIOUS
  <2>1. TypeOK /\ TriesLogged(r) /\ IsFiniteSet(log) /\ r \in Row
    BY RowShape DEF LogInv, LoggedAsTried, Tallied
  <2>2. ASSUME NEW q \in Row, Settle(q)
        PROVE  Traced(r)
    <3>1. q = r /\ task[r] # NoTask /\ task[r].pc = "logged"
      BY <2>1, <2>2, SettleEffect
    <3>2. Delivered(r) \/ task[r].read.tries + 1 > MaxRetries
      BY <2>1, <2>2, <3>1, SettleEffect
    <3>3. CASE Delivered(r)
      <4>1. CASE task[r].logs
        BY <2>1, <3>1, <3>3, <4>1 DEF Delivered, TriesLogged, Traced
      <4>2. CASE ~task[r].logs
        BY <2>1, <3>1, <3>3, <4>2 DEF LogInv, Events, Traced
      <4> QED
        BY <4>1, <4>2
    <3>4. CASE task[r].read.tries + 1 > MaxRetries
      <4>1. Tries(r) = task[r].read.tries + 1
        BY <3>1 DEF Tries
      <4>2. /\ Cardinality(Attempts(r)) \in Nat /\ lost[r] \in Nat
            /\ task[r].read.tries \in 0..MaxRetries
        BY <2>1, <3>1, AttemptsFinite, TaskShape DEF TypeOK
      <4> QED
        BY <2>1, <3>4, <4>1, <4>2, ResponseLogAssumption DEF TriesLogged, Traced
    <3> QED
      BY <3>2, <3>3, <3>4
  <2>3. ASSUME NEW p \in Publication, Schedule(p)
        PROVE  UNCHANGED task
    BY <2>3 DEF Schedule
  <2>4. CASE DeleteObject
    BY <2>4 DEF DeleteObject
  <2>5. CASE UNCHANGED rows
    BY <2>5
  <2> QED
    BY <2>2, <2>3, <2>4, <2>5
       DEF Next, Store, Resend, Start, Number, Post, LogAnswer, Crash, Switch, DeleteResponses,
           DeleteRows
<1> QED
  BY <1>1, LogInvHolds, PTL DEF Spec, SettledAsLogged

================================================================================
