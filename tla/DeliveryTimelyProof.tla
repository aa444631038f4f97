-------------------------- MODULE DeliveryTimelyProof --------------------------
(* Theorems about a deployment that keeps up: one whose runs end before the   *)
(* lock expires, and whose runs and tasks end before a row counts as stuck.   *)
EXTENDS DeliveryProof

\* Runs take less than NOTIFICATION_SEC_INTERVAL - 1 seconds, and runs and
\* tasks less than ten times NOTIFICATION_REQUESTS_TIMEOUT.
KeepsUp == MaxRun < LockTimeout /\ MaxRun < StuckAfter /\ MaxTask < StuckAfter

\* Of a row there is one message in the broker or one task, and only of a row
\* that was published.
OneCopy ==
    /\ \A r \in Row : queue[r] <= 1
    /\ \A r \in Row : queue[r] > 0 => MsgOf(r) \in published
    /\ \A w \in Worker : task[w] # NoTask => queue[task[w].row] = 0
    /\ \A w, v \in Worker :
          task[w] # NoTask /\ task[v] # NoTask /\ task[w].row = task[v].row => w = v

\* A row that is worked on is in progress, and not for so long that it is stuck.
BusyRows ==
    \A r \in DOMAIN table :
        Outstanding(r) => table[r].inProgress /\ table[r].due > -StuckAfter

\* What a run has selected nobody works on, until the run queues it itself; what
\* it has marked was due when it was marked.
IdsFree(e) ==
    /\ run[e].pc = "counted" => run[e].cutoff <= -StuckAfter
    /\ run[e].pc \in {"selected", "marked"} =>
          \A r \in run[e].ids : ~Outstanding(r) /\ MsgOf(r) \in published
    /\ run[e].pc = "marked" =>
          \A r \in run[e].ids \cap DOMAIN table :
             table[r].inProgress /\ table[r].due + run[e].age >= 0
RunsIdsFree == \A e \in Exec : IdsFree(e)

\* The inductive invariant.
TimelyInv == RunsHoldLock /\ OneCopy /\ BusyRows /\ RunsIdsFree

--------------------------------------------------------------------------------
(* What the steps do to tasks, rows and runs.                                  *)

LEMMA TaskShape ==
    ASSUME TypeOK, NEW w \in Worker, task[w] # NoTask
    PROVE  /\ task[w] \in TaskRecord
           /\ task[w].row \in Row /\ task[w].attempt \in 0..MostRetries
           /\ task[w].due \in Int /\ task[w].pc \in {"loaded", "accepted", "rejected"}
  BY DEF TypeOK, TaskRecord

LEMMA RowShape ==
    ASSUME TypeOK, NEW r \in DOMAIN table
    PROVE  /\ r \in Row /\ table[r] \in RowRecord /\ table[r].inProgress \in BOOLEAN
           /\ table[r].due \in Int /\ table[r].taskAttempt \in 0..MostRetries
  BY DEF TypeOK, RowRecord

LEMMA RunShape ==
    ASSUME TypeOK, NEW e \in Exec
    PROVE  /\ run[e] \in RunRecord /\ run[e].age \in 0..MaxRun /\ run[e].cutoff \in Int
           /\ run[e].slots \in Nat /\ run[e].ids \in SUBSET Row
  BY DEF TypeOK, RunRecord

\* No row comes to be worked on: tasks and queued messages only go.
NoNewTasks ==
    /\ \A r \in Row : queue'[r] <= queue[r]
    /\ \A w \in Worker : task'[w] # NoTask => task[w] # NoTask /\ task'[w].row = task[w].row

LEMMA StillFree ==
    ASSUME TypeOK, TypeOK', NoNewTasks, NEW r \in Row, Outstanding(r)'
    PROVE  Outstanding(r)
<1>1. queue[r] \in Nat /\ queue'[r] \in Nat /\ queue'[r] <= queue[r]
  BY ConstantsAssumption DEF TypeOK, NoNewTasks
<1> QED
  BY <1>1 DEF Outstanding, Holds, NoNewTasks

LEMMA StillOneCopy ==
    ASSUME TypeOK, TypeOK', OneCopy, NoNewTasks, published \subseteq published'
    PROVE  OneCopy'
<1>1. \A r \in Row : queue[r] \in Nat /\ queue'[r] \in Nat /\ queue'[r] <= queue[r]
  BY ConstantsAssumption DEF TypeOK, NoNewTasks
<1>2. \A w \in Worker : task'[w] # NoTask =>
         task[w] # NoTask /\ task'[w].row = task[w].row /\ task[w].row \in Row
  BY TaskShape DEF NoNewTasks
<1>3. \A r \in Row : queue'[r] <= 1 /\ (queue'[r] > 0 => MsgOf(r) \in published')
  BY <1>1 DEF OneCopy
<1>4. \A w \in Worker : task'[w] # NoTask => queue'[task'[w].row] = 0
  BY <1>1, <1>2 DEF OneCopy
<1>5. \A w, v \in Worker :
         task'[w] # NoTask /\ task'[v] # NoTask /\ task'[w].row = task'[v].row => w = v
  BY <1>2 DEF OneCopy
<1> QED
  BY <1>3, <1>4, <1>5 DEF OneCopy

\* A step that no row comes to be worked on by keeps rows in progress, when it
\* leaves the rows that are worked on alone.
LEMMA StillBusy ==
    ASSUME TypeOK, TypeOK', BusyRows, NoNewTasks,
           \A r \in DOMAIN table' : Outstanding(r)' =>
              r \in DOMAIN table /\ table'[r] = table[r]
    PROVE  BusyRows'
<1>1. ASSUME NEW r \in DOMAIN table', Outstanding(r)'
      PROVE  table'[r].inProgress /\ table'[r].due > -StuckAfter
  <2>1. r \in Row /\ r \in DOMAIN table /\ table'[r] = table[r]
    BY <1>1 DEF TypeOK
  <2>2. Outstanding(r)
    BY <1>1, <2>1, StillFree
  <2> QED
    BY <2>1, <2>2 DEF BusyRows
<1> QED
  BY <1>1 DEF BusyRows

\* A run keeps what it knows, when the rows it has selected stay as they are or
\* leave.
LEMMA StillIdsFree ==
    ASSUME TypeOK, TypeOK', NoNewTasks, published \subseteq published',
           NEW e \in Exec, IdsFree(e), run'[e] = run[e],
           \A r \in run[e].ids \cap DOMAIN table' :
              run[e].pc = "marked" => r \in DOMAIN table /\ table'[r] = table[r]
    PROVE  IdsFree(e)'
<1>1. run[e].ids \subseteq Row
  BY RunShape
<1>2. run'[e].pc = "counted" => run'[e].cutoff <= -StuckAfter
  BY DEF IdsFree
<1>3. run'[e].pc \in {"selected", "marked"} =>
          \A r \in run'[e].ids : ~Outstanding(r)' /\ MsgOf(r) \in published'
  BY <1>1, StillFree DEF IdsFree
<1>4. run'[e].pc = "marked" =>
          \A r \in run'[e].ids \cap DOMAIN table' :
             table'[r].inProgress /\ table'[r].due + run'[e].age >= 0
  BY DEF IdsFree
<1> QED
  BY <1>2, <1>3, <1>4 DEF IdsFree

\* The same of all parts, for steps outside execute_notifications that leave the
\* rows alone that somebody works on or that a run has marked.
LEMMA StillTimely ==
    ASSUME TypeOK, TypeOK', OneCopy, BusyRows, RunsIdsFree, NoNewTasks,
           published \subseteq published', UNCHANGED run,
           \A r \in DOMAIN table' :
              \/ r \in DOMAIN table /\ table'[r] = table[r]
              \/ ~Outstanding(r)' /\ \A e \in Exec : run[e].pc = "marked" => r \notin run[e].ids
    PROVE  OneCopy' /\ BusyRows' /\ RunsIdsFree'
<1>1. OneCopy'
  BY StillOneCopy
<1>2. BusyRows'
  BY StillBusy
<1>3. ASSUME NEW e \in Exec PROVE IdsFree(e)'
  <2>1. IdsFree(e)
    BY DEF RunsIdsFree
  <2> QED
    BY <2>1, StillIdsFree
<1> QED
  BY <1>1, <1>2, <1>3 DEF RunsIdsFree

\* Of a message that was not published there is neither a task nor a selection.
LEMMA PublishTimely ==
    ASSUME TypeOK, TypeOK', Provenance, OneCopy, BusyRows, RunsIdsFree,
           NEW m \in Msg, NEW M \in SUBSET Sub, Publish(m, M)
    PROVE  OneCopy' /\ BusyRows' /\ RunsIdsFree'
<1>1. UNCHANGED <<run, queue, task>> /\ published' = published \cup {m} /\ m \notin published
  BY DEF Publish
<1>2. NoNewTasks
  BY <1>1, ConstantsAssumption DEF NoNewTasks, TypeOK
<1>3. ASSUME NEW r \in DOMAIN table', r \notin DOMAIN table
      PROVE  ~Outstanding(r)' /\ \A e \in Exec : run[e].pc = "marked" => r \notin run[e].ids
  <2>1. MsgOf(r) = m /\ r \in Row
    BY <1>3 DEF Publish, MsgOf, TypeOK
  <2>2. ~(queue[r] > 0)
    BY <1>1, <2>1 DEF OneCopy
  <2>3. \A w \in Worker : ~Holds(w, r)
    BY <1>1, <2>1 DEF Provenance, Holds
  <2>4. ~Outstanding(r)'
    BY <1>1, <2>2, <2>3 DEF Outstanding, Holds
  <2>5. \A e \in Exec : run[e].pc = "marked" => r \notin run[e].ids
    BY <1>1, <2>1 DEF RunsIdsFree, IdsFree
  <2> QED
    BY <2>4, <2>5
<1>4. \A r \in DOMAIN table' : r \in DOMAIN table => table'[r] = table[r]
  BY DEF Publish
<1> QED
  BY <1>1, <1>2, <1>3, <1>4, StillTimely

LEMMA EnvironmentTimely ==
    ASSUME TypeOK, TypeOK', Provenance, OneCopy, BusyRows, RunsIdsFree, Environment
    PROVE  OneCopy' /\ BusyRows' /\ RunsIdsFree'
<1>1. ASSUME NEW m \in Msg, ScheduleNotification(m) \/ ScheduleCloudEvent(m)
      PROVE  OneCopy' /\ BusyRows' /\ RunsIdsFree'
  <2>1. PICK M \in SUBSET Sub : Publish(m, M)
    BY <1>1 DEF ScheduleNotification, ScheduleCloudEvent, TypeOK
  <2> QED
    BY <2>1, PublishTimely
<1>2. ASSUME \/ \E m \in Msg : DeleteParent(m)
             \/ \E s \in Sub : DeleteSub(s) \/ UpdateSub(s)
             \/ \E n \in LeastRetries..MostRetries : Configure(n)
      PROVE  OneCopy' /\ BusyRows' /\ RunsIdsFree'
  <2>1. UNCHANGED <<run, queue, task, published>>
    BY <1>2 DEF DeleteParent, DeleteSub, UpdateSub, Configure
  <2>2. NoNewTasks
    BY <2>1, ConstantsAssumption DEF NoNewTasks, TypeOK
  <2>3. \A r \in DOMAIN table' : r \in DOMAIN table /\ table'[r] = table[r]
    BY ZenonT(30), <1>2 DEF DeleteParent, DeleteSub, UpdateSub, Configure, Remove
  <2> QED
    BY <2>1, <2>2, <2>3, StillTimely
<1> QED
  BY <1>1, <1>2 DEF Environment

\* A task that fails is the only one of its row, and no run has selected the row.
LEMMA TaskTimely ==
    ASSUME TypeOK, TypeOK', OneCopy, BusyRows, RunsIdsFree, NEW w \in Worker,
           TaskStep(w) \/ TaskCrash(w)
    PROVE  OneCopy' /\ BusyRows' /\ RunsIdsFree'
<1> DEFINE t == task[w]
<1>0. t # NoTask /\ t \in TaskRecord /\ t.row \in Row
  <2>1. t # NoTask
    BY DEF TaskStep, DeliverMessage, DeliverCloudEvent, Answer, Succeed, Fail, TaskCrash, NoTask
  <2> QED
    BY <2>1, TaskShape
<1>1. UNCHANGED <<run, queue, published>>
  BY DEF TaskStep, DeliverMessage, DeliverCloudEvent, Answer, Succeed, Fail, TaskCrash, data
<1>2. NoNewTasks
  <2>1. \A v \in Worker : task'[v] # NoTask => task[v] # NoTask /\ task'[v].row = task[v].row
    BY <1>0 DEF TaskStep, DeliverMessage, DeliverCloudEvent, Answer, Succeed, Fail,
       TaskCrash, TypeOK, TaskRecord
  <2> QED
    BY <1>1, <2>1, ConstantsAssumption DEF NoNewTasks, TypeOK
<1>3. CASE Fail(w)
  <2>0. PICK q \in Row : q = t.row
    BY <1>0
  <2>1. \A r \in DOMAIN table' : r \in DOMAIN table /\ (r # q => table'[r] = table[r])
    BY <1>3, <2>0 DEF Fail, Remove
  <2>2. queue[q] = 0 /\ Holds(w, q)
    BY <1>0, <2>0 DEF OneCopy, Holds
  <2>3. ~Outstanding(q)'
    <3>1. \A v \in Worker : task'[v] # NoTask => task'[v].row # q
      BY <1>0, <1>3, <2>0 DEF Fail, TypeOK, OneCopy
    <3> QED
      BY <1>1, <2>2, <3>1 DEF Outstanding, Holds
  <2>4. \A e \in Exec : run[e].pc = "marked" => q \notin run[e].ids
    BY <2>2 DEF RunsIdsFree, IdsFree, Outstanding
  <2> QED
    BY <1>1, <1>2, <2>1, <2>3, <2>4, StillTimely
<1>4. CASE ~Fail(w)
  <2>1. \A r \in DOMAIN table' : r \in DOMAIN table /\ table'[r] = table[r]
    BY <1>4 DEF TaskStep, DeliverMessage, DeliverCloudEvent, Answer, Succeed, TaskCrash, Remove
  <2> QED
    BY <1>1, <1>2, <2>1, StillTimely
<1> QED
  BY <1>3, <1>4

\* A task takes the only message there is of its row.
LEMMA TakeTimely ==
    ASSUME TypeOK, TypeOK', Provenance, OneCopy, BusyRows, RunsIdsFree,
           NEW w \in Worker, NEW r \in Row, TakeTask(w, r)
    PROVE  OneCopy' /\ BusyRows' /\ RunsIdsFree'
<1>0. /\ queue' = [queue EXCEPT ![r] = @ - 1] /\ queue[r] = 1 /\ task[w] = NoTask
      /\ UNCHANGED <<table, run, published>>
  BY DEF TakeTask, TaskAborts, StartTask, Take, OneCopy, TypeOK, data
<1>1. \A q \in Row : queue[q] \in Nat /\ queue'[q] <= queue[q] /\ (q # r => queue'[q] = queue[q])
  BY <1>0, ConstantsAssumption DEF TypeOK
<1>2. CASE TaskAborts(w, r)
  <2>1. NoNewTasks
    BY <1>1, <1>2 DEF NoNewTasks, TaskAborts
  <2> QED
    BY <1>0, <2>1, StillTimely
<1>3. CASE StartTask(w, r)
  <2>1. /\ task'[w] # NoTask /\ task'[w].row = r
        /\ \A v \in Worker \ {w} : task'[v] = task[v]
    BY <1>3 DEF StartTask, TypeOK, NoTask
  <2>2. queue'[r] = 0
    BY <1>0 DEF TypeOK
  <2>3. \A v \in Worker : task[v] # NoTask => task[v].row # r /\ task[v].row \in Row
    BY <1>0, TaskShape DEF OneCopy
  <2>4. OneCopy'
    <3>1. \A q \in Row : queue'[q] <= 1 /\ (queue'[q] > 0 => MsgOf(q) \in published')
      BY <1>0, <1>1 DEF OneCopy
    <3>2. \A v \in Worker : task'[v] # NoTask => queue'[task'[v].row] = 0
      <4>1. \A v \in Worker \ {w} : task'[v] # NoTask => queue'[task'[v].row] = 0
        BY <1>1, <2>1, <2>3 DEF OneCopy
      <4> QED
        BY <2>1, <2>2, <4>1
    <3>3. \A v, u \in Worker : task'[v] # NoTask /\ task'[u] # NoTask
             /\ task'[v].row = task'[u].row => v = u
      BY <2>1, <2>3 DEF OneCopy
    <3> QED
      BY <3>1, <3>2, <3>3 DEF OneCopy
  <2>5. ASSUME NEW q \in Row, Outstanding(q)' PROVE Outstanding(q)
    BY <1>0, <1>1, <2>1, <2>5 DEF Outstanding, Holds
  <2>6. BusyRows'
    BY <1>0, <2>5 DEF BusyRows, TypeOK
  <2>7. RunsIdsFree'
    <3>1. \A e \in Exec : run[e].ids \in SUBSET Row
      BY RunShape
    <3> QED
      BY <1>0, <2>5, <3>1 DEF RunsIdsFree, IdsFree
  <2> QED
    BY <2>4, <2>6, <2>7
<1> QED
  BY <1>2, <1>3 DEF TakeTask

LEMMA LoseTimely ==
    ASSUME TypeOK, TypeOK', OneCopy, BusyRows, RunsIdsFree, NEW r \in Row, LoseMessage(r)
    PROVE  OneCopy' /\ BusyRows' /\ RunsIdsFree'
<1>1. NoNewTasks
  BY ConstantsAssumption DEF LoseMessage, NoNewTasks, TypeOK
<1> QED
  BY <1>1, StillTimely DEF LoseMessage, data

\* A tick makes rows older by at most a tick, and runs too, and changes nothing
\* else of rows, tasks and runs.
LEMMA TickRows ==
    ASSUME TypeOK, Tick, NEW r \in DOMAIN table
    PROVE  /\ table'[r].inProgress = table[r].inProgress
           /\ table'[r].taskAttempt = table[r].taskAttempt
           /\ table'[r].due <= table[r].due /\ table'[r].due >= table[r].due - 1
<1>1. table'[r] = [table[r] EXCEPT !.due = Older(@)]
  BY DEF Tick
<1>2. table[r] \in RowRecord /\ table[r].due \in Int
  BY RowShape
<1>3. Older(table[r].due) <= table[r].due /\ Older(table[r].due) >= table[r].due - 1
  BY <1>2 DEF Older
<1> QED
  BY <1>1, <1>2, <1>3 DEF RowRecord

LEMMA TickTasks ==
    ASSUME TypeOK, Tick, NEW w \in Worker
    PROVE  /\ task[w] = NoTask => task'[w] = NoTask
           /\ task[w] # NoTask =>
                 /\ task'[w] # NoTask /\ task'[w].row = task[w].row
                 /\ task'[w].attempt = task[w].attempt /\ task'[w].pc = task[w].pc
<1>1. task'[w] = IF task[w] = NoTask THEN NoTask ELSE [task[w] EXCEPT !.due = Older(@)]
  BY DEF Tick
<1>2. CASE task[w] # NoTask
  <2>1. task[w] \in TaskRecord
    BY <1>2, TaskShape
  <2>2. /\ task'[w].row = task[w].row /\ task'[w].attempt = task[w].attempt
        /\ task'[w].pc = task[w].pc
    BY <1>1, <1>2, <2>1 DEF TaskRecord
  <2>3. task'[w].pc # "idle"
    BY <2>1, <2>2 DEF TaskRecord
  <2> QED
    BY <1>2, <2>2, <2>3 DEF NoTask
<1> QED
  BY <1>1, <1>2

LEMMA TickRuns ==
    ASSUME TypeOK, Tick, NEW e \in Exec
    PROVE  /\ run'[e].pc = run[e].pc /\ run'[e].ids = run[e].ids /\ run'[e].slots = run[e].slots
           /\ Running(e) => run'[e].age = run[e].age + 1
           /\ run[e].pc = "locked" \/ run'[e].cutoff <= run[e].cutoff
<1>1. run'[e] = IF ~Running(e) THEN run[e] ELSE Aged(run[e])
  BY DEF Tick
<1>2. run[e] \in RunRecord /\ run[e].cutoff \in Int
  BY RunShape
<1>3. /\ Aged(run[e]).pc = run[e].pc /\ Aged(run[e]).ids = run[e].ids
      /\ Aged(run[e]).slots = run[e].slots /\ Aged(run[e]).age = run[e].age + 1
      /\ run[e].pc = "locked" \/ Aged(run[e]).cutoff <= run[e].cutoff
  BY <1>2 DEF Aged, RunRecord
<1> HIDE DEF Aged
<1> QED
  BY <1>1, <1>2, <1>3

\* Time stands still rather than let a run or a task take too long.
LEMMA TickTimely ==
    ASSUME KeepsUp, TypeOK, TypeOK', OneCopy, BusyRows, RunsIdsFree, Tick
    PROVE  OneCopy' /\ BusyRows' /\ RunsIdsFree'
<1>1. UNCHANGED <<queue, published>> /\ DOMAIN table' = DOMAIN table
  BY DEF Tick, data
<1>2. NoNewTasks
  BY <1>1, TickTasks, ConstantsAssumption DEF NoNewTasks, TypeOK
<1>3. OneCopy'
  BY <1>1, <1>2, StillOneCopy
<1>4. ASSUME NEW r \in DOMAIN table', Outstanding(r)'
      PROVE  table'[r].inProgress /\ table'[r].due > -StuckAfter
  <2>1. r \in Row /\ r \in DOMAIN table
    BY <1>1 DEF TypeOK
  <2>2. Outstanding(r)
    BY <1>2, <1>4, <2>1, StillFree
  <2>3. table[r].due > -MaxTask /\ table[r].due \in Int /\ table'[r].due \in Int
    BY <2>1, <2>2, RowShape DEF Tick, TypeOK, RowRecord
  <2>4. table'[r].inProgress = table[r].inProgress /\ table'[r].due >= table[r].due - 1
    BY <2>1, TickRows
  <2> QED
    BY <2>1, <2>2, <2>3, <2>4, ConstantsAssumption DEF BusyRows, KeepsUp
<1>5. ASSUME NEW e \in Exec PROVE IdsFree(e)'
  <2>1. /\ run'[e].pc = run[e].pc /\ run'[e].ids = run[e].ids
        /\ Running(e) => run'[e].age = run[e].age + 1
        /\ run[e].pc = "locked" \/ run'[e].cutoff <= run[e].cutoff
    BY TickRuns
  <2>2. /\ run[e].cutoff \in Int /\ run'[e].cutoff \in Int /\ run[e].age \in Int
        /\ run[e].ids \subseteq Row
    BY ConstantsAssumption DEF TypeOK, RunRecord
  <2>3. IdsFree(e)
    BY DEF RunsIdsFree
  <2>4. run'[e].pc = "counted" => run'[e].cutoff <= -StuckAfter
    BY <2>1, <2>2, <2>3, ConstantsAssumption DEF IdsFree
  <2>5. run'[e].pc \in {"selected", "marked"} =>
            \A r \in run'[e].ids : ~Outstanding(r)' /\ MsgOf(r) \in published'
    BY <1>1, <1>2, <2>1, <2>2, <2>3, StillFree DEF IdsFree
  <2>6. ASSUME run'[e].pc = "marked", NEW r \in run'[e].ids \cap DOMAIN table'
        PROVE  table'[r].inProgress /\ table'[r].due + run'[e].age >= 0
    <3>1. r \in DOMAIN table /\ run'[e].age = run[e].age + 1
      BY <1>1, <2>1, <2>6 DEF Running
    <3>2. table[r].inProgress /\ table[r].due + run[e].age >= 0
      BY <2>1, <2>3, <2>6, <3>1 DEF IdsFree
    <3>3. table[r].due \in Int /\ table'[r].due \in Int
      BY <1>1, <3>1 DEF TypeOK, RowRecord
    <3>4. table'[r].inProgress = table[r].inProgress /\ table'[r].due >= table[r].due - 1
      BY <3>1, TickRows
    <3> QED
      BY <2>2, <3>1, <3>2, <3>3, <3>4
  <2> QED
    BY <2>4, <2>5, <2>6 DEF IdsFree
<1> QED
  BY <1>3, <1>4, <1>5 DEF BusyRows, RunsIdsFree

\* Queueing rows that nobody works on, and that have just been marked.
LEMMA EnqueueTimely ==
    ASSUME TypeOK, TypeOK', OneCopy, BusyRows, NEW R \in SUBSET Row, NEW G,
           Enqueue(R), Remove(G), UNCHANGED <<task, published>>,
           \A r \in R : ~Outstanding(r) /\ MsgOf(r) \in published,
           \A r \in R \cap DOMAIN table : table[r].inProgress /\ table[r].due > -StuckAfter
    PROVE  OneCopy' /\ BusyRows'
<1>1. \A r \in Row : queue[r] \in Nat /\ queue'[r] = IF r \in R THEN queue[r] + 1 ELSE queue[r]
  BY ConstantsAssumption DEF Enqueue, TypeOK
<1>2. \A r \in R : queue[r] = 0 /\ \A w \in Worker : ~Holds(w, r)
  BY <1>1 DEF Outstanding
<1>3. OneCopy'
  <2>1. \A r \in Row : queue'[r] <= 1 /\ (queue'[r] > 0 => MsgOf(r) \in published')
    BY <1>1, <1>2 DEF OneCopy
  <2>2. \A w \in Worker : task'[w] # NoTask => queue'[task'[w].row] = 0
    <3>1. \A w \in Worker : task[w] # NoTask => task[w].row \in Row /\ task[w].row \notin R
      BY <1>2, TaskShape DEF Holds
    <3> QED
      BY <1>1, <3>1 DEF OneCopy
  <2> QED
    BY <2>1, <2>2 DEF OneCopy
<1>4. ASSUME NEW r \in DOMAIN table', Outstanding(r)'
      PROVE  table'[r].inProgress /\ table'[r].due > -StuckAfter
  <2>1. r \in DOMAIN table /\ table'[r] = table[r] /\ r \in Row
    BY DEF Remove, TypeOK
  <2>2. r \notin R => Outstanding(r)
    BY <1>1, <1>4, <2>1 DEF Outstanding, Holds
  <2> QED
    BY <2>1, <2>2 DEF BusyRows
<1> QED
  BY <1>3, <1>4 DEF BusyRows

\* While one run goes on the others are idle and know nothing.
LEMMA OthersIdle ==
    ASSUME RunsHoldLock, NEW e \in Exec, Running(e), NEW f \in Exec \ {e}, run'[f] = run[f]
    PROVE  IdsFree(f)'
<1>1. run[f].pc = "idle"
  BY DEF RunsHoldLock, Running
<1> QED
  BY <1>1 DEF IdsFree

\* What a run that has marked its rows knows of them: all of them may be queued.
LEMMA MarkedRows ==
    ASSUME KeepsUp, TypeOK, RunsIdsFree, NEW e \in Exec, run[e].pc = "marked",
           NEW r \in run[e].ids \cap DOMAIN table
    PROVE  /\ r \in Row /\ ~Outstanding(r) /\ MsgOf(r) \in published
           /\ table[r].inProgress /\ table[r].due > -StuckAfter
<1>1. run[e].age \in 0..MaxRun /\ table[r].due \in Int /\ r \in Row
  BY RunShape, RowShape
<1>2. IdsFree(e)
  BY DEF RunsIdsFree
<1>3. table[r].inProgress /\ table[r].due + run[e].age >= 0
  BY <1>2 DEF IdsFree
<1>4. table[r].due > -StuckAfter
  BY <1>1, <1>3, ConstantsAssumption DEF KeepsUp
<1> QED
  BY <1>1, <1>2, <1>3, <1>4 DEF IdsFree

\* Only rows are selected that nobody works on: they wait, or they are stuck, and
\* a row that is worked on is neither.
LEMMA SelectedFree ==
    ASSUME TypeOK, Provenance, BusyRows, RunsIdsFree, NEW e \in Exec, run[e].pc = "counted",
           NEW r \in Selectable(run[e].cutoff)
    PROVE  r \in Row /\ ~Outstanding(r) /\ MsgOf(r) \in published
<1>1. r \in DOMAIN table /\ (Waiting(table[r]) \/ Stuck(table[r], run[e].cutoff))
  BY DEF Selectable
<1>2. run[e].cutoff <= -StuckAfter /\ run[e].cutoff \in Int
  BY RunShape DEF RunsIdsFree, IdsFree
<1>3. r \in Row /\ table[r].due \in Int
  BY <1>1, RowShape
<1> QED
  BY <1>1, <1>2, <1>3, ConstantsAssumption DEF Waiting, Stuck, BusyRows, Provenance

\* The steps of a run that leave the table and the tasks alone.
LEMMA QuietRunTimely ==
    ASSUME TypeOK, TypeOK', Provenance, OneCopy, BusyRows, RunsIdsFree, NEW e \in Exec,
           UNCHANGED <<table, queue, task>>,
           \/ AcquireLock(e) \/ CountInProgress(e) \/ SelectIds(e) \/ ReleaseLock(e)
           \/ RunCrash(e)
    PROVE  OneCopy' /\ BusyRows' /\ RunsIdsFree'
<1>0. UNCHANGED published
  BY DEF AcquireLock, CountInProgress, SelectIds, ReleaseLock, RunCrash, data
<1>1. NoNewTasks
  BY ConstantsAssumption DEF NoNewTasks, TypeOK
<1>2. OneCopy'
  BY <1>0, <1>1, StillOneCopy
<1>3. BusyRows'
  BY <1>1, StillBusy
<1>4. ASSUME NEW f \in Exec \ {e} PROVE IdsFree(f)'
  <2>1. run'[f] = run[f]
    BY DEF AcquireLock, CountInProgress, SelectIds, ReleaseLock, RunCrash, TypeOK
  <2>2. IdsFree(f)
    BY DEF RunsIdsFree
  <2> QED
    BY <1>0, <1>1, <2>1, <2>2, StillIdsFree
<1>5. IdsFree(e)'
  <2>1. run[e] \in RunRecord /\ e \in DOMAIN run
    BY DEF TypeOK
  <2>2. CASE AcquireLock(e) \/ ReleaseLock(e) \/ RunCrash(e)
    <3>1. run'[e].pc \in {"idle", "locked"}
      BY <2>1, <2>2 DEF AcquireLock, ReleaseLock, RunCrash, NoRun
    <3> QED
      BY <3>1 DEF IdsFree
  <2>3. CASE CountInProgress(e)
    <3>1. run'[e].pc = "counted" /\ run'[e].cutoff = -StuckAfter
      BY <2>1, <2>3 DEF CountInProgress, RunRecord
    <3> QED
      BY <3>1, ConstantsAssumption DEF IdsFree
  <2>4. CASE SelectIds(e)
    <3>1. /\ run[e].pc = "counted" /\ run'[e].pc = "selected"
          /\ run'[e].ids \subseteq Selectable(run[e].cutoff)
      BY <2>1, <2>4 DEF SelectIds, Earliest, RunRecord
    <3>2. \A r \in run'[e].ids : ~Outstanding(r)' /\ MsgOf(r) \in published'
      BY <1>0, <1>1, <3>1, SelectedFree, StillFree
    <3> QED
      BY <3>1, <3>2 DEF IdsFree
  <2> QED
    BY <2>2, <2>3, <2>4
<1> QED
  BY <1>2, <1>3, <1>4, <1>5 DEF RunsIdsFree

\* A run marks rows that nobody works on.
LEMMA MarkTimely ==
    ASSUME KeepsUp, TypeOK, TypeOK', RunsHoldLock, OneCopy, BusyRows, RunsIdsFree,
           NEW e \in Exec, MarkInProgress(e)
    PROVE  OneCopy' /\ BusyRows' /\ RunsIdsFree'
<1>0. /\ run[e] \in RunRecord /\ run[e].pc = "selected" /\ IdsFree(e) /\ Running(e)
      /\ UNCHANGED <<queue, task, published>>
  BY RunShape DEF MarkInProgress, RunsIdsFree, Running, data
<1>1. NoNewTasks
  BY <1>0, ConstantsAssumption DEF NoNewTasks, TypeOK
<1>2. OneCopy'
  BY <1>0, <1>1, StillOneCopy
<1>3. ASSUME NEW r \in DOMAIN table'
      PROVE  /\ r \in DOMAIN table /\ r \in Row
             /\ r \in run[e].ids => table'[r].inProgress /\ table'[r].due = 0
             /\ r \notin run[e].ids => table'[r] = table[r]
  BY DEF MarkInProgress, Marked, TypeOK
<1>4. BusyRows'
  <2>1. \A r \in DOMAIN table' : Outstanding(r)' => r \in DOMAIN table /\ table'[r] = table[r]
    BY <1>0, <1>1, <1>3, StillFree DEF IdsFree
  <2> QED
    BY <1>1, <2>1, StillBusy
<1>5. IdsFree(e)'
  <2>1. run'[e].pc = "marked" /\ run'[e].ids = run[e].ids /\ run'[e].age \in 0..MaxRun
    BY <1>0 DEF MarkInProgress, TypeOK, RunRecord
  <2>2. run[e].ids \subseteq Row
    BY RunShape
  <2>3. \A r \in run'[e].ids : ~Outstanding(r)' /\ MsgOf(r) \in published'
    BY <1>0, <1>1, <2>1, <2>2, StillFree DEF IdsFree
  <2>4. \A r \in run'[e].ids \cap DOMAIN table' :
           table'[r].inProgress /\ table'[r].due + run'[e].age >= 0
    BY <1>3, <2>1, ConstantsAssumption
  <2> QED
    BY <2>1, <2>3, <2>4 DEF IdsFree
<1>6. ASSUME NEW f \in Exec \ {e} PROVE IdsFree(f)'
  BY <1>0, OthersIdle DEF MarkInProgress, TypeOK
<1> QED
  BY <1>2, <1>4, <1>5, <1>6 DEF RunsIdsFree

\* The tasks of the rows it marked are queued, all or (when it crashes) some.
LEMMA StartTimely ==
    ASSUME KeepsUp, TypeOK, TypeOK', RunsHoldLock, OneCopy, BusyRows, RunsIdsFree,
           NEW e \in Exec, run[e].pc = "marked", StartTasks(e) \/ RunCrash(e)
    PROVE  OneCopy' /\ BusyRows' /\ RunsIdsFree'
<1>0. UNCHANGED <<task, published>> /\ run[e] \in RunRecord /\ Running(e)
  BY RunShape DEF StartTasks, RunCrash, data, Running
<1>1. PICK R \in SUBSET (run[e].ids \cap DOMAIN table), G \in SUBSET run[e].ids :
         Enqueue(R) /\ Remove(G)
  <2>1. CASE StartTasks(e)
    BY <2>1 DEF StartTasks, GivenUp
  <2>2. CASE RunCrash(e)
    <3>1. PICK R \in SUBSET (run[e].ids \cap DOMAIN table) :
              Remove(R \cap GivenUp(e)) /\ Enqueue(R \ GivenUp(e))
      BY <2>2 DEF RunCrash
    <3> QED
      BY <3>1 DEF GivenUp
  <2> QED
    BY <2>1, <2>2
<1>2. /\ R \in SUBSET Row
      /\ \A r \in R : ~Outstanding(r) /\ MsgOf(r) \in published
      /\ \A r \in R \cap DOMAIN table : table[r].inProgress /\ table[r].due > -StuckAfter
  BY MarkedRows, RunShape
<1>3. OneCopy' /\ BusyRows'
  BY <1>0, <1>1, <1>2, EnqueueTimely
<1>4. run'[e].pc \in {"started", "idle"}
  <2>1. CASE StartTasks(e)
    BY <1>0, <2>1 DEF StartTasks, TypeOK, RunRecord
  <2>2. CASE RunCrash(e)
    BY <2>2 DEF RunCrash, NoRun, TypeOK
  <2> QED
    BY <2>1, <2>2
<1>5. \A f \in Exec \ {e} : IdsFree(f)'
  BY <1>0, OthersIdle DEF StartTasks, RunCrash, TypeOK
<1> QED
  BY <1>3, <1>4, <1>5 DEF RunsIdsFree, IdsFree

LEMMA RunTimely ==
    ASSUME KeepsUp, TypeOK, TypeOK', Provenance, RunsHoldLock, OneCopy, BusyRows, RunsIdsFree,
           NEW e \in Exec, AcquireLock(e) \/ RunStep(e) \/ RunCrash(e)
    PROVE  OneCopy' /\ BusyRows' /\ RunsIdsFree'
<1>1. CASE AcquireLock(e) \/ CountInProgress(e) \/ SelectIds(e) \/ ReleaseLock(e)
  <2>1. UNCHANGED <<table, queue, task>>
    BY <1>1 DEF AcquireLock, CountInProgress, SelectIds, ReleaseLock
  <2> QED
    BY <1>1, <2>1, QuietRunTimely
<1>2. CASE MarkInProgress(e)
  BY <1>2, MarkTimely
<1>3. CASE StartTasks(e)
  BY <1>3, StartTimely DEF StartTasks
<1>4. CASE RunCrash(e)
  <2>1. CASE run[e].pc = "marked"
    BY <1>4, <2>1, StartTimely
  <2>2. CASE run[e].pc # "marked"
    <3>1. UNCHANGED <<table, queue, task>>
      BY <1>4, <2>2 DEF RunCrash
    <3> QED
      BY <1>4, <3>1, QuietRunTimely
  <2> QED
    BY <2>1, <2>2
<1> QED
  BY <1>1, <1>2, <1>3, <1>4 DEF RunStep

LEMMA TimelyStep ==
    ASSUME KeepsUp, TypeOK, TypeOK', Provenance, RunsHoldLock, OneCopy, BusyRows, RunsIdsFree,
           [Next]_vars
    PROVE  OneCopy' /\ BusyRows' /\ RunsIdsFree'
<1>1. CASE \E e \in Exec : AcquireLock(e) \/ RunStep(e) \/ RunCrash(e)
  BY <1>1, RunTimely
<1>2. CASE \E w \in Worker : TaskStep(w) \/ TaskCrash(w)
  BY <1>2, TaskTimely
<1>3. CASE \E w \in Worker, r \in Row : TakeTask(w, r)
  BY <1>3, TakeTimely
<1>4. CASE \E r \in Row : LoseMessage(r)
  BY <1>4, LoseTimely
<1>5. CASE Environment
  BY <1>5, EnvironmentTimely
<1>6. CASE Tick
  BY <1>6, TickTimely
<1>7. CASE UNCHANGED vars
  BY <1>7 DEF vars, data, OneCopy, BusyRows, RunsIdsFree, IdsFree, Outstanding, Holds
<1> QED
  BY <1>1, <1>2, <1>3, <1>4, <1>5, <1>6, <1>7 DEF Next, Breakdown

LEMMA TimelyCorrect ==
    ASSUME KeepsUp
    PROVE  Spec => []TimelyInv
<1>1. Init => OneCopy /\ BusyRows /\ RunsIdsFree
  BY DEF Init, OneCopy, BusyRows, RunsIdsFree, IdsFree, NoRun
<1>2. TypeOK /\ TypeOK' /\ Provenance /\ RunsHoldLock
         /\ (OneCopy /\ BusyRows /\ RunsIdsFree) /\ [Next]_vars
      => (OneCopy /\ BusyRows /\ RunsIdsFree)'
  BY TimelyStep
<1>3. Spec => []RunsHoldLock
  BY LocksHeld DEF KeepsUp
<1> QED
  BY <1>1, <1>2, <1>3, TypeCorrect, ProvenanceCorrect, PTL DEF Spec, TimelyInv

\* While the deployment keeps up no row is ever worked on twice at a time, and a
\* row that is worked on is marked in progress (tasks.py:340-344, 347-416): the
\* lock keeps runs apart, the mark keeps the next run off, and the stuck cutoff
\* lets go of a row only after its task has ended.  This holds whatever crashes
\* and is lost, and whatever administrators and subscribers do.
THEOREM NoConcurrentDeliveries ==
    ASSUME KeepsUp
    PROVE  Spec => []OneTaskPerRow
<1>1. ASSUME TypeOK, TimelyInv, NEW r \in Row
      PROVE  Tasks(r) <= 1
  <2> DEFINE W == {w \in Worker : Holds(w, r)}
  <2>1. queue[r] \in 0..1
    BY <1>1, ConstantsAssumption DEF TypeOK, TimelyInv, OneCopy
  <2>2. CASE W = {}
    <3>1. Cardinality(W) = 0
      BY <2>2, FS_EmptySet
    <3> QED
      BY <2>1, <3>1 DEF Tasks
  <2>3. CASE W # {}
    <3>1. PICK w \in Worker : Holds(w, r)
      BY <2>3
    <3>2. W = {w}
      BY <1>1, <3>1 DEF TimelyInv, OneCopy, Holds
    <3>3. Cardinality(W) = 1
      BY <3>2, FS_Singleton
    <3>4. queue[r] = 0
      BY <1>1, <3>1 DEF TimelyInv, OneCopy, Holds
    <3> QED
      BY <3>3, <3>4 DEF Tasks
  <2> QED
    BY <2>2, <2>3
<1>2. TypeOK /\ TimelyInv => OneTaskPerRow
  BY <1>1 DEF TimelyInv, BusyRows, OneTaskPerRow
<1> QED
  BY <1>2, TypeCorrect, TimelyCorrect, PTL

--------------------------------------------------------------------------------
(* The limit on rows in progress.                                              *)

Counted == Cardinality(InProgress(-StuckAfter))

\* A run that has counted leaves room for what it may select, and one that has
\* selected for what it will mark.
RoomFor(e) ==
    /\ run[e].pc = "counted" => Counted + run[e].slots <= Limit
    /\ run[e].pc = "selected" => Counted + Cardinality(run[e].ids) <= Limit

\* The inductive invariant; it needs the lock to keep other runs from marking.
LimitInv == LimitRespected /\ \A e \in Exec : RoomFor(e)

LEMMA CountedType ==
    ASSUME TypeOK
    PROVE  /\ IsFiniteSet(InProgress(-StuckAfter)) /\ Counted \in Nat
           /\ \A e \in Exec : IsFiniteSet(run[e].ids) /\ Cardinality(run[e].ids) \in Nat
<1>1. InProgress(-StuckAfter) \subseteq Row /\ \A e \in Exec : run[e].ids \subseteq Row
  BY RunShape DEF InProgress, TypeOK
<1> QED
  BY <1>1, FS_Subset, FS_CardinalityType, ConstantsAssumption DEF Counted

\* Rows only leave the ones in progress, also by getting stuck.
FewerInProgress ==
    \A r \in DOMAIN table' :
       table'[r].inProgress /\ table'[r].due > -StuckAfter => r \in InProgress(-StuckAfter)

LEMMA FewerCounted ==
    ASSUME TypeOK, TypeOK', FewerInProgress
    PROVE  Counted' \in Nat /\ Counted \in Nat /\ Counted' <= Counted
<1>1. InProgress(-StuckAfter)' \subseteq InProgress(-StuckAfter)
  BY DEF FewerInProgress, InProgress
<1>2. IsFiniteSet(InProgress(-StuckAfter)) /\ Counted \in Nat
  BY CountedType
<1>3. Counted' <= Counted
  BY <1>1, <1>2, FS_Subset DEF Counted
<1>4. Counted' \in Nat
  BY <1>1, <1>2, FS_Subset, FS_CardinalityType DEF Counted
<1> QED
  BY <1>2, <1>3, <1>4

LEMMA StillRoom ==
    ASSUME TypeOK, TypeOK', FewerInProgress, NEW e \in Exec, RoomFor(e),
           /\ run'[e].pc = run[e].pc /\ run'[e].slots = run[e].slots
           /\ run'[e].ids = run[e].ids
    PROVE  RoomFor(e)'
<1>1. Counted' \in Nat /\ Counted \in Nat /\ Counted' <= Counted
  BY FewerCounted
<1>2. run[e].slots \in Nat /\ Cardinality(run[e].ids) \in Nat
  BY RunShape, CountedType
<1> QED
  BY <1>1, <1>2, ConstantsAssumption DEF RoomFor

LEMMA StillLimited ==
    ASSUME TypeOK, TypeOK', LimitInv, FewerInProgress,
           \A e \in Exec : /\ run'[e].pc = run[e].pc /\ run'[e].slots = run[e].slots
                           /\ run'[e].ids = run[e].ids
    PROVE  LimitInv'
<1>1. LimitRespected'
  BY FewerCounted, ConstantsAssumption DEF LimitInv, LimitRespected, Counted
<1>2. \A e \in Exec : RoomFor(e)'
  BY StillRoom DEF LimitInv
<1> QED
  BY <1>1, <1>2 DEF LimitInv

\* Outside execute_notifications rows leave progress and none enters it.
LEMMA OutsideFewer ==
    ASSUME TypeOK, Next, ~\E e \in Exec : AcquireLock(e) \/ RunStep(e) \/ RunCrash(e)
    PROVE  FewerInProgress
<1>1. ASSUME \A r \in DOMAIN table' : r \in DOMAIN table /\ table'[r] = table[r]
      PROVE  FewerInProgress
  BY <1>1 DEF FewerInProgress, InProgress
<1>2. CASE \E w \in Worker : Fail(w)
  <2>1. PICK w \in Worker : Fail(w)
    BY <1>2
  <2>2. ASSUME NEW r \in DOMAIN table', table'[r].inProgress
        PROVE  r \in DOMAIN table /\ table'[r] = table[r]
    <3>1. r \in DOMAIN table
      BY <2>1 DEF Fail, Remove
    <3>2. table[r] \in RowRecord
      BY <3>1, RowShape
    <3> QED
      BY <2>1, <2>2, <3>1, <3>2 DEF Fail, Remove, Retried, RowRecord
  <2> QED
    BY <2>2 DEF FewerInProgress, InProgress
<1>3. CASE \E m \in Msg, M \in SUBSET subs : Publish(m, M)
  BY <1>3 DEF Publish, NewRow, FewerInProgress, InProgress
<1>4. CASE Tick
  <2>1. DOMAIN table' = DOMAIN table
    BY <1>4 DEF Tick
  <2>2. ASSUME NEW r \in DOMAIN table', table'[r].inProgress, table'[r].due > -StuckAfter
        PROVE  r \in InProgress(-StuckAfter)
    <3>1. /\ table'[r].inProgress = table[r].inProgress
          /\ table'[r].due <= table[r].due /\ table[r].due \in Int /\ table'[r].due \in Int
      BY <1>4, <2>1, TickRows, TickType, RowShape DEF TypeOK, RowRecord
    <3> QED
      BY <2>1, <2>2, <3>1, ConstantsAssumption DEF InProgress
  <2> QED
    BY <2>2 DEF FewerInProgress
<1>5. CASE \/ \E w \in Worker : (TaskStep(w) /\ ~Fail(w)) \/ TaskCrash(w)
           \/ \E w \in Worker, r \in Row : TakeTask(w, r)
           \/ \E r \in Row : LoseMessage(r)
           \/ \E m \in Msg : DeleteParent(m)
           \/ \E s \in Sub : DeleteSub(s) \/ UpdateSub(s)
           \/ \E n \in LeastRetries..MostRetries : Configure(n)
  <2>1. \A r \in DOMAIN table' : r \in DOMAIN table /\ table'[r] = table[r]
    BY ZenonT(30), <1>5 DEF TaskStep, DeliverMessage, DeliverCloudEvent, Answer, Succeed, TaskCrash,
       TakeTask, TaskAborts, StartTask, LoseMessage, DeleteParent, DeleteSub, UpdateSub,
       Configure, Remove
  <2> QED
    BY <1>1, <2>1
<1> QED
  BY <1>2, <1>3, <1>4, <1>5 DEF Next, Breakdown, Environment, ScheduleNotification,
     ScheduleCloudEvent

\* What a run may mark is limited when it counts, and marked when it is selected.
LEMMA RunLimited ==
    ASSUME TypeOK, TypeOK', RunsHoldLock, LimitInv, NEW e \in Exec,
           AcquireLock(e) \/ RunStep(e) \/ RunCrash(e)
    PROVE  LimitInv'
<1>0. run[e] \in RunRecord /\ e \in DOMAIN run /\ RoomFor(e)
  BY DEF TypeOK, LimitInv
<1>1. \A f \in Exec \ {e} : run'[f] = run[f]
  BY DEF AcquireLock, RunStep, CountInProgress, SelectIds, MarkInProgress, StartTasks,
     ReleaseLock, RunCrash, TypeOK
<1>2. CASE MarkInProgress(e)
  <2>1. run[e].pc = "selected" /\ Counted + Cardinality(run[e].ids) <= Limit
    BY <1>0, <1>2 DEF MarkInProgress, RoomFor
  <2>2. InProgress(-StuckAfter)' \subseteq InProgress(-StuckAfter) \cup run[e].ids
    BY <1>2 DEF MarkInProgress, InProgress
  <2>3. IsFiniteSet(InProgress(-StuckAfter)) /\ IsFiniteSet(run[e].ids)
    BY CountedType
  <2>4. /\ Counted \in Nat /\ Cardinality(run[e].ids) \in Nat
        /\ Cardinality(InProgress(-StuckAfter) \cap run[e].ids) \in Nat
    BY <2>3, CountedType, FS_Intersection, FS_CardinalityType
  <2>5. /\ IsFiniteSet(InProgress(-StuckAfter) \cup run[e].ids)
        /\ Cardinality(InProgress(-StuckAfter) \cup run[e].ids)
              = Counted + Cardinality(run[e].ids)
                  - Cardinality(InProgress(-StuckAfter) \cap run[e].ids)
    BY <2>3, FS_Union DEF Counted
  <2>6. Counted' \in Nat /\ Counted' <= Cardinality(InProgress(-StuckAfter) \cup run[e].ids)
    BY <2>2, <2>5, FS_Subset, FS_CardinalityType DEF Counted
  <2>7. Counted' <= Limit
    BY <2>1, <2>4, <2>5, <2>6, ConstantsAssumption
  <2>8. \A f \in Exec : run'[f].pc \notin {"counted", "selected"}
    BY <1>0, <1>1, <1>2 DEF MarkInProgress, RunsHoldLock, Running, RunRecord
  <2> QED
    BY <2>7, <2>8 DEF LimitInv, LimitRespected, Counted, RoomFor
<1>3. CASE ~MarkInProgress(e)
  <2>1. \A r \in DOMAIN table' : r \in DOMAIN table /\ table'[r] = table[r]
    BY <1>3 DEF AcquireLock, RunStep, CountInProgress, SelectIds, StartTasks, ReleaseLock,
       RunCrash, Remove
  <2>2. FewerInProgress
    BY <2>1 DEF FewerInProgress, InProgress
  <2>3. LimitRespected'
    BY <2>2, FewerCounted, ConstantsAssumption DEF LimitInv, LimitRespected, Counted
  <2>4. ASSUME NEW f \in Exec \ {e} PROVE RoomFor(f)'
    BY <1>1, <2>2, StillRoom DEF LimitInv
  <2>5. RoomFor(e)'
    <3>1. Counted' \in Nat /\ Counted \in Nat /\ Counted' <= Counted
      BY <2>2, FewerCounted
    <3>2. CASE CountInProgress(e)
      <4>1. run'[e].pc = "counted" /\ run'[e].slots = FreeSlots(-StuckAfter)
        BY <1>0, <3>2 DEF CountInProgress, RunRecord
      <4>2. Counted <= Limit
        BY DEF LimitInv, LimitRespected, Counted
      <4>3. Counted + FreeSlots(-StuckAfter) <= Limit
        BY <3>1, <4>2, ConstantsAssumption DEF FreeSlots, Counted
      <4>4. FreeSlots(-StuckAfter) \in Nat
        BY FreeSlotsType
      <4> QED
        BY <3>1, <4>1, <4>3, <4>4, ConstantsAssumption DEF RoomFor
    <3>3. CASE SelectIds(e)
      <4>1. /\ run[e].pc = "counted" /\ run'[e].pc = "selected"
            /\ Cardinality(run'[e].ids) <= run[e].slots
        BY <1>0, <3>3 DEF SelectIds, Earliest, RunRecord
      <4>2. Counted + run[e].slots <= Limit /\ run[e].slots \in Nat
        BY <1>0, <4>1, RunShape DEF RoomFor
      <4>3. Cardinality(run'[e].ids) \in Nat
        <5>1. run'[e].ids \subseteq Row
          BY DEF TypeOK, RunRecord
        <5> QED
          BY <5>1, FS_Subset, FS_CardinalityType, ConstantsAssumption
      <4> QED
        BY <3>1, <4>1, <4>2, <4>3, ConstantsAssumption DEF RoomFor
    <3>4. CASE ~CountInProgress(e) /\ ~SelectIds(e)
      <4>1. run'[e].pc \notin {"counted", "selected"}
        <5>1. CASE StartTasks(e)
          BY <1>0, <5>1 DEF StartTasks, RunRecord
        <5>2. CASE AcquireLock(e) \/ ReleaseLock(e) \/ RunCrash(e)
          BY <1>0, <5>2 DEF AcquireLock, ReleaseLock, RunCrash, NoRun
        <5> QED
          BY <1>3, <3>4, <5>1, <5>2 DEF RunStep
      <4> QED
        BY <4>1 DEF RoomFor
    <3> QED
      BY <3>2, <3>3, <3>4
  <2> QED
    BY <2>3, <2>4, <2>5 DEF LimitInv
<1> QED
  BY <1>2, <1>3

\* NOTIFICATION_LIMIT bounds the rows in progress, over all runs, while runs end
\* before their lock expires: the count a run makes (tasks.py:354-359) is still
\* good when it marks (tasks.py:378-382).  Tasks may take as long as they like.
THEOREM LimitHolds ==
    ASSUME MaxRun < LockTimeout
    PROVE  Spec => []LimitRespected
<1>1. Init => LimitInv
  <2>1. ASSUME Init PROVE InProgress(-StuckAfter) = {}
    BY <2>1 DEF Init, InProgress
  <2>2. ASSUME Init PROVE Counted = 0
    BY <2>1, <2>2, FS_EmptySet DEF Counted
  <2> QED
    BY <2>2, ConstantsAssumption
       DEF Init, LimitInv, LimitRespected, Counted, RoomFor, NoRun
<1>2. TypeOK /\ TypeOK' /\ RunsHoldLock /\ LimitInv /\ [Next]_vars => LimitInv'
  <2>1. ASSUME TypeOK, TypeOK', RunsHoldLock, LimitInv, Next PROVE LimitInv'
    <3>1. CASE \E e \in Exec : AcquireLock(e) \/ RunStep(e) \/ RunCrash(e)
      BY <2>1, <3>1, RunLimited
    <3>2. CASE ~\E e \in Exec : AcquireLock(e) \/ RunStep(e) \/ RunCrash(e)
      <4>1. \/ Tick
            \/ UNCHANGED run
        BY <2>1, <3>2 DEF Next, Breakdown, Environment, TaskStep, DeliverMessage,
           DeliverCloudEvent, Answer, Succeed, Fail, TakeTask, TaskAborts, StartTask,
           TaskCrash, LoseMessage, ScheduleNotification, ScheduleCloudEvent, Publish,
           DeleteParent, DeleteSub, UpdateSub, Configure
      <4>2. \A e \in Exec : /\ run'[e].pc = run[e].pc /\ run'[e].slots = run[e].slots
                            /\ run'[e].ids = run[e].ids
        BY <2>1, <4>1, TickRuns
      <4> QED
        BY <2>1, <3>2, <4>2, OutsideFewer, StillLimited
    <3> QED
      BY <3>1, <3>2
  <2>2. LimitInv /\ UNCHANGED vars => LimitInv'
    BY DEF LimitInv, LimitRespected, RoomFor, Counted, InProgress, vars
  <2> QED
    BY <2>1, <2>2
<1>3. LimitInv => LimitRespected
  BY DEF LimitInv
<1> QED
  BY <1>1, <1>2, <1>3, TypeCorrect, LocksHeld, PTL DEF Spec

--------------------------------------------------------------------------------
(* Attempts are counted exactly.                                               *)

\* While no row has two tasks, its counter is the number of its failures.
AttemptsCounted ==
    /\ \A r \in Row : failures[r] <= maxRetries + 1
    /\ \A r \in DOMAIN table : table[r].taskAttempt = failures[r] /\ failures[r] <= maxRetries
    /\ \A w \in Worker : task[w] # NoTask =>
          task[w].attempt = failures[task[w].row] /\ task[w].attempt <= maxRetries

\* Steps that record no failure: rows keep their counter or leave, tasks keep
\* what they read, end, or have just read a row.
LEMMA StillCounted ==
    ASSUME AttemptsCounted, UNCHANGED <<failures, maxRetries>>,
           \A r \in DOMAIN table' :
              r \in DOMAIN table /\ table'[r].taskAttempt = table[r].taskAttempt,
           \A w \in Worker : task'[w] # NoTask =>
              \/ /\ task[w] # NoTask
                 /\ task'[w].row = task[w].row /\ task'[w].attempt = task[w].attempt
              \/ /\ task'[w].row \in DOMAIN table
                 /\ task'[w].attempt = table[task'[w].row].taskAttempt
    PROVE  AttemptsCounted'
<1>1. \A r \in DOMAIN table' : table'[r].taskAttempt = failures'[r] /\ failures'[r] <= maxRetries'
  BY DEF AttemptsCounted
<1>2. \A w \in Worker : task'[w] # NoTask =>
         task'[w].attempt = failures'[task'[w].row] /\ task'[w].attempt <= maxRetries'
  BY DEF AttemptsCounted
<1> QED
  BY <1>1, <1>2 DEF AttemptsCounted

\* The messages of a row that is new were never tried before.
LEMMA PublishCounted ==
    ASSUME TypeOK, Provenance, AttemptsCounted, NEW m \in Msg, NEW M \in SUBSET Sub,
           Publish(m, M)
    PROVE  AttemptsCounted'
<1>1. UNCHANGED <<failures, maxRetries, task>> /\ m \notin published
  BY DEF Publish, ghosts
<1>2. ASSUME NEW r \in DOMAIN table'
      PROVE  table'[r].taskAttempt = failures'[r] /\ failures'[r] <= maxRetries'
  <2>1. CASE r \in DOMAIN table
    BY <1>1, <2>1 DEF Publish, AttemptsCounted
  <2>2. CASE r \notin DOMAIN table
    <3>1. MsgOf(r) = m /\ r \in Row /\ table'[r].taskAttempt = 0
      BY <2>2 DEF Publish, NewRow, MsgOf, Row
    <3>2. failures[r] = 0 /\ maxRetries >= 0
      BY <1>1, <3>1, ConstantsAssumption DEF Provenance, TypeOK, FailCap
    <3> QED
      BY <1>1, <3>1, <3>2
  <2> QED
    BY <2>1, <2>2
<1> QED
  BY <1>1, <1>2 DEF AttemptsCounted

\* The task that fails is the only one of its row, and counts on from its counter.
LEMMA FailCounted ==
    ASSUME TypeOK, OneCopy, AttemptsCounted, NEW w \in Worker, Fail(w)
    PROVE  AttemptsCounted'
<1> DEFINE t == task[w]
<1>0. t # NoTask /\ t \in TaskRecord /\ t.row \in Row /\ t.attempt \in 0..MostRetries
  <2>1. t # NoTask
    BY DEF Fail, NoTask
  <2> QED
    BY <2>1, TaskShape
<1>1. t.attempt = failures[t.row] /\ t.attempt <= maxRetries
  BY <1>0 DEF AttemptsCounted
<1>2. UNCHANGED maxRetries /\ maxRetries \in LeastRetries..MostRetries
  BY DEF Fail, data, TypeOK
<1>3. /\ failures'[t.row] = t.attempt + 1 /\ failures'[t.row] <= maxRetries + 1
      /\ \A r \in Row \ {t.row} : failures'[r] = failures[r]
  BY <1>0, <1>1, <1>2, ConstantsAssumption DEF Fail, FailCap, TypeOK
<1>4. \A r \in Row : failures'[r] <= maxRetries' + 1
  BY <1>2, <1>3 DEF AttemptsCounted
<1>5. ASSUME NEW r \in DOMAIN table'
      PROVE  table'[r].taskAttempt = failures'[r] /\ failures'[r] <= maxRetries'
  <2>1. r \in DOMAIN table /\ r \in Row /\ table[r] \in RowRecord
    <3>1. r \in DOMAIN table
      BY DEF Fail, Remove
    <3> QED
      BY <3>1, RowShape
  <2>2. CASE r # t.row
    <3>1. table'[r] = table[r]
      BY <2>1, <2>2 DEF Fail, Remove
    <3> QED
      BY <1>2, <1>3, <2>1, <2>2, <3>1 DEF AttemptsCounted
  <2>3. CASE r = t.row
    <3>1. ~Exhausted(t.attempt + 1, maxRetries) /\ table'[r] = Retried(table[r], t)
      BY <2>1, <2>3 DEF Fail, Remove
    <3>2. table'[r].taskAttempt = t.attempt + 1
      BY <2>1, <3>1 DEF Retried, RowRecord
    <3> QED
      BY <1>0, <1>2, <1>3, <2>3, <3>1, <3>2, ConstantsAssumption DEF Exhausted
  <2> QED
    BY <2>2, <2>3
<1>6. ASSUME NEW v \in Worker, task'[v] # NoTask
      PROVE  task'[v].attempt = failures'[task'[v].row] /\ task'[v].attempt <= maxRetries'
  <2>1. v # w /\ task'[v] = task[v] /\ task[v] # NoTask
    BY <1>6 DEF Fail, TypeOK
  <2>2. task[v].row \in Row /\ task[v].row # t.row
    BY <1>0, <2>1, TaskShape DEF OneCopy
  <2> QED
    BY <1>2, <1>3, <2>1, <2>2 DEF AttemptsCounted
<1> QED
  BY <1>4, <1>5, <1>6 DEF AttemptsCounted

LEMMA CountedStep ==
    ASSUME "configure" \notin Operations, TypeOK, Provenance, OneCopy, AttemptsCounted, Next
    PROVE  AttemptsCounted'
<1> USE DEF data, ghosts
<1>1. CASE \E m \in Msg : ScheduleNotification(m) \/ ScheduleCloudEvent(m)
  <2>1. PICK m \in Msg, M \in SUBSET Sub : Publish(m, M)
    BY <1>1 DEF ScheduleNotification, ScheduleCloudEvent, TypeOK
  <2> QED
    BY <2>1, PublishCounted
<1>2. CASE \/ \E m \in Msg : DeleteParent(m)
           \/ \E s \in Sub : DeleteSub(s) \/ UpdateSub(s)
  BY <1>2, StillCounted DEF DeleteParent, DeleteSub, UpdateSub, Remove
<1>3. CASE \E n \in LeastRetries..MostRetries : Configure(n)
  BY <1>3 DEF Configure
<1>4. CASE \E e \in Exec : AcquireLock(e) \/ RunStep(e) \/ RunCrash(e)
  <2>1. PICK e \in Exec : AcquireLock(e) \/ RunStep(e) \/ RunCrash(e)
    BY <1>4
  <2>2. UNCHANGED <<failures, maxRetries, task>>
    BY <2>1 DEF AcquireLock, RunStep, CountInProgress, SelectIds, MarkInProgress, StartTasks,
       ReleaseLock, RunCrash
  <2>3. \A r \in DOMAIN table' :
            r \in DOMAIN table /\ table'[r].taskAttempt = table[r].taskAttempt
    <3>1. CASE MarkInProgress(e)
      BY <3>1 DEF MarkInProgress, Marked
    <3>2. CASE ~MarkInProgress(e)
      BY <2>1, <3>2 DEF AcquireLock, RunStep, CountInProgress, SelectIds, StartTasks,
         ReleaseLock, RunCrash, Remove
    <3> QED
      BY <3>1, <3>2
  <2> QED
    BY <2>2, <2>3, StillCounted
<1>5. CASE \E w \in Worker, r \in Row : TakeTask(w, r)
  <2>1. PICK w \in Worker, r \in Row : TakeTask(w, r)
    BY <1>5
  <2>2. UNCHANGED <<failures, maxRetries, table>>
    BY <2>1 DEF TakeTask, TaskAborts, StartTask
  <2>3. \A v \in Worker : task'[v] # NoTask =>
           \/ task'[v] = task[v]
           \/ /\ task'[v].row \in DOMAIN table
              /\ task'[v].attempt = table[task'[v].row].taskAttempt
    BY <2>1 DEF TakeTask, TaskAborts, StartTask, TypeOK
  <2> QED
    BY <2>2, <2>3, StillCounted
<1>6. CASE \E w \in Worker : Fail(w)
  BY <1>6, FailCounted
<1>7. CASE \E w \in Worker : Answer(w)
  <2>1. PICK w \in Worker : Answer(w)
    BY <1>7
  <2>2. task[w] # NoTask /\ task[w] \in TaskRecord
    <3>1. task[w] # NoTask
      BY <2>1 DEF Answer, NoTask
    <3> QED
      BY <3>1, TaskShape
  <2>3. \A v \in Worker : task'[v] # NoTask =>
           task[v] # NoTask /\ task'[v].row = task[v].row /\ task'[v].attempt = task[v].attempt
    BY <2>1, <2>2 DEF Answer, TypeOK, TaskRecord
  <2>4. UNCHANGED <<failures, maxRetries, table>>
    BY <2>1 DEF Answer
  <2> QED
    BY <2>3, <2>4, StillCounted
<1>8. CASE \E w \in Worker : Succeed(w) \/ TaskCrash(w)
  <2>1. PICK w \in Worker : Succeed(w) \/ TaskCrash(w)
    BY <1>8
  <2>2. \A v \in Worker : task'[v] # NoTask => task'[v] = task[v]
    BY <2>1 DEF Succeed, TaskCrash, TypeOK
  <2>3. \A r \in DOMAIN table' : r \in DOMAIN table /\ table'[r] = table[r]
    BY <2>1 DEF Succeed, TaskCrash, Remove
  <2>4. UNCHANGED <<failures, maxRetries>>
    BY <2>1 DEF Succeed, TaskCrash
  <2> QED
    BY <2>2, <2>3, <2>4, StillCounted
<1>9. CASE \E r \in Row : LoseMessage(r)
  BY <1>9, StillCounted DEF LoseMessage
<1>10. CASE Tick
  <2>1. DOMAIN table' = DOMAIN table /\ UNCHANGED <<failures, maxRetries>>
    BY <1>10 DEF Tick
  <2> QED
    BY <1>10, <2>1, TickRows, TickTasks, StillCounted
<1> QED
  BY <1>1, <1>2, <1>3, <1>4, <1>5, <1>6, <1>7, <1>8, <1>9, <1>10
     DEF Next, Breakdown, Environment, TaskStep, DeliverMessage, DeliverCloudEvent

\* A row is tried once and retried at most maxRetries times, as the documentation
\* says (docs/delivery_guarantees.rst), in a deployment that keeps up and while
\* nobody changes the limit: crashes take attempts away and never add one.
THEOREM RetriesBounded ==
    ASSUME KeepsUp, "configure" \notin Operations
    PROVE  Spec => []RetryBound
<1>1. Init => AttemptsCounted
  BY ConstantsAssumption DEF Init, AttemptsCounted
<1>2. TypeOK /\ Provenance /\ TimelyInv /\ AttemptsCounted /\ [Next]_vars => AttemptsCounted'
  <2>1. AttemptsCounted /\ UNCHANGED vars => AttemptsCounted'
    BY DEF AttemptsCounted, vars, data, ghosts
  <2> QED
    BY <2>1, CountedStep DEF TimelyInv
<1>3. AttemptsCounted => RetryBound
  BY DEF AttemptsCounted, RetryBound
<1> QED
  BY <1>1, <1>2, <1>3, TypeCorrect, ProvenanceCorrect, TimelyCorrect, PTL DEF Spec

--------------------------------------------------------------------------------
(* After a success no more attempts.                                           *)

\* Publishers do not give two cloud events of different sources the same id.
UniqueIds ==
    \A m, n \in Msg :
       Origin[m] = "cloudevent" /\ Origin[n] = "cloudevent" /\ EventId[m] = EventId[n] => m = n

\* What a row refers to exists: the database deletes the row with it.
ParentsExist ==
    \A r \in DOMAIN table : SubOf(r) \in subs /\ (LogInDb => MsgOf(r) \in stored)

\* Unless something broke down, a confirmed row that still exists is about to be
\* deleted by the task that was answered, and no other task will deliver it.
ConfirmedOnce ==
    crashes = 0 =>
       /\ \A r \in DOMAIN table : confirmed[r] =>
             \E w \in Worker : task[w] # NoTask /\ task[w].row = r /\ task[w].pc = "accepted"
       /\ \A w \in Worker : task[w] # NoTask /\ task[w].pc \in {"loaded", "rejected"}
             => ~confirmed[task[w].row]

LEMMA ParentsStep ==
    ASSUME TypeOK, ParentsExist, Next
    PROVE  ParentsExist'
<1> USE DEF data, ghosts
<1>1. CASE \E m \in Msg : ScheduleNotification(m) \/ ScheduleCloudEvent(m)
  <2>1. PICK m \in Msg, M \in SUBSET subs : Publish(m, M)
    BY <1>1 DEF ScheduleNotification, ScheduleCloudEvent
  <2>2. \A r \in DOMAIN table' \ DOMAIN table : MsgOf(r) = m /\ SubOf(r) \in M
    BY <2>1 DEF Publish, MsgOf, SubOf
  <2> QED
    BY <2>1, <2>2 DEF Publish, ParentsExist
<1>2. CASE \E m \in Msg : DeleteParent(m)
  <2>1. PICK m \in Msg : DeleteParent(m)
    BY <1>2
  <2>2. ASSUME NEW r \in DOMAIN table' PROVE r \in DOMAIN table /\ MsgOf(r) # m
    BY <2>1 DEF DeleteParent, Remove, TypeOK, Row, MsgOf
  <2> QED
    BY <2>1, <2>2 DEF DeleteParent, ParentsExist
<1>3. CASE \E s \in Sub : DeleteSub(s)
  <2>1. PICK s \in Sub : DeleteSub(s)
    BY <1>3
  <2>2. ASSUME NEW r \in DOMAIN table' PROVE r \in DOMAIN table /\ SubOf(r) # s
    BY <2>1 DEF DeleteSub, Remove, TypeOK, Row, SubOf
  <2> QED
    BY <2>1, <2>2 DEF DeleteSub, ParentsExist
<1>4. CASE DOMAIN table' \subseteq DOMAIN table /\ UNCHANGED <<subs, stored>>
  BY <1>4 DEF ParentsExist
<1> QED
  BY <1>1, <1>2, <1>3, <1>4 DEF Next, Breakdown, Environment, UpdateSub, Configure,
     AcquireLock, RunStep, CountInProgress, SelectIds, MarkInProgress, StartTasks, ReleaseLock,
     RunCrash, TaskStep, DeliverMessage, DeliverCloudEvent, Answer, Succeed, Fail, TaskCrash,
     TakeTask, TaskAborts, StartTask, LoseMessage, Tick, Remove

LEMMA ParentsCorrect == Spec => []ParentsExist
<1>1. Init => ParentsExist
  BY DEF Init, ParentsExist
<1>2. TypeOK /\ ParentsExist /\ [Next]_vars => ParentsExist'
  <2>1. ParentsExist /\ UNCHANGED vars => ParentsExist'
    BY DEF ParentsExist, vars, data
  <2> QED
    BY <2>1, ParentsStep
<1> QED
  BY <1>1, <1>2, TypeCorrect, PTL DEF Spec

\* Logging an answer cannot fail while the row exists.
LEMMA RecordSucceeds ==
    ASSUME UniqueIds, TypeOK, ParentsExist, NEW w \in Worker, task[w] # NoTask,
           task[w].row \in DOMAIN table
    PROVE  ~RecordRaises(task[w])
<1>1. LogInDb => ~LogRaises(task[w])
  BY DEF ParentsExist, LogRaises
<1>2. MsgOf(task[w].row) \in Msg
  BY TaskShape DEF Row, MsgOf
<1>3. ~Ambiguous(MsgOf(task[w].row))
  BY <1>2 DEF Ambiguous, UniqueIds, TypeOK
<1> QED
  BY <1>1, <1>3 DEF RecordRaises, CloudEventLogRaises, MessageLogRaises

\* Steps that confirm nothing: a task that was answered 2xx goes on while its row
\* is there, and no other task takes up a row that was confirmed.
LEMMA StillConfirmedOnce ==
    ASSUME TypeOK, ConfirmedOnce, crashes' = 0 => crashes = 0, UNCHANGED confirmed,
           DOMAIN table' \subseteq DOMAIN table,
           crashes = 0 => \A w \in Worker :
              task[w] # NoTask /\ task[w].pc = "accepted" /\ task[w].row \in DOMAIN table'
                 => task'[w] # NoTask /\ task'[w].row = task[w].row /\ task'[w].pc = "accepted",
           crashes = 0 => \A w \in Worker :
              task'[w] # NoTask /\ task'[w].pc \in {"loaded", "rejected"}
                 => \/ /\ task[w] # NoTask /\ task[w].pc \in {"loaded", "rejected"}
                       /\ task'[w].row = task[w].row
                    \/ ~confirmed[task'[w].row]
    PROVE  ConfirmedOnce'
<1>1. ASSUME crashes' = 0, NEW r \in DOMAIN table', confirmed'[r]
      PROVE  \E w \in Worker : task'[w] # NoTask /\ task'[w].row = r /\ task'[w].pc = "accepted"
  <2>1. PICK w \in Worker : task[w] # NoTask /\ task[w].row = r /\ task[w].pc = "accepted"
    BY <1>1 DEF ConfirmedOnce
  <2> QED
    BY <1>1, <2>1
<1>2. ASSUME crashes' = 0, NEW w \in Worker, task'[w] # NoTask,
             task'[w].pc \in {"loaded", "rejected"}
      PROVE  ~confirmed'[task'[w].row]
  BY <1>2 DEF ConfirmedOnce
<1> QED
  BY <1>1, <1>2 DEF ConfirmedOnce

LEMMA PublishConfirms ==
    ASSUME TypeOK, Provenance, ConfirmedOnce, NEW m \in Msg, NEW M \in SUBSET Sub,
           Publish(m, M)
    PROVE  ConfirmedOnce'
<1>1. UNCHANGED <<confirmed, crashes, task>> /\ m \notin published
  BY DEF Publish, ghosts
<1>2. ASSUME NEW r \in DOMAIN table', r \notin DOMAIN table PROVE ~confirmed'[r]
  <2>1. MsgOf(r) = m /\ r \in Row
    BY <1>2 DEF Publish, MsgOf, Row
  <2> QED
    BY <1>1, <2>1 DEF Provenance
<1> QED
  BY <1>1, <1>2 DEF ConfirmedOnce

\* A 2xx answer: the row has this one task, which goes on to delete it.
LEMMA AnswerConfirms ==
    ASSUME TypeOK, OneCopy, ConfirmedOnce, NEW w \in Worker, Answer(w)
    PROVE  ConfirmedOnce'
<1>0. UNCHANGED <<crashes, table>> /\ \A v \in Worker \ {w} : task'[v] = task[v]
  BY DEF Answer, TypeOK
<1>1. task[w] # NoTask /\ task[w].pc = "loaded"
  BY DEF Answer, NoTask
<1>2. PICK q \in Row : q = task[w].row
  BY <1>1, TaskShape
<1>3. CASE task' = [task EXCEPT ![w].pc = "accepted"]
           /\ confirmed' = [confirmed EXCEPT ![task[w].row] = TRUE]
  <2>1. task'[w] # NoTask /\ task'[w].row = q /\ task'[w].pc = "accepted"
    BY <1>1, <1>2, <1>3, TaskShape DEF TypeOK, TaskRecord, NoTask
  <2>2. \A r \in Row \ {q} : confirmed'[r] = confirmed[r]
    BY <1>2, <1>3 DEF TypeOK
  <2>3. ASSUME crashes' = 0, NEW r \in DOMAIN table', confirmed'[r]
        PROVE  \E v \in Worker : task'[v] # NoTask /\ task'[v].row = r /\ task'[v].pc = "accepted"
    <3>1. CASE r = q
      BY <2>1, <3>1
    <3>2. CASE r # q
      <4>1. confirmed[r] /\ r \in DOMAIN table
        BY <1>0, <2>2, <2>3, <3>2 DEF TypeOK
      <4>2. PICK v \in Worker : task[v] # NoTask /\ task[v].row = r /\ task[v].pc = "accepted"
        BY <1>0, <2>3, <4>1 DEF ConfirmedOnce
      <4> QED
        BY <1>0, <1>1, <4>2
    <3> QED
      BY <3>1, <3>2
  <2>4. ASSUME crashes' = 0, NEW v \in Worker, task'[v] # NoTask,
               task'[v].pc \in {"loaded", "rejected"}
        PROVE  ~confirmed'[task'[v].row]
    <3>1. v # w /\ task'[v] = task[v]
      BY <1>0, <2>1, <2>4
    <3>2. task[v].row \in Row \ {q}
      BY <1>1, <1>2, <2>4, <3>1, TaskShape DEF OneCopy
    <3> QED
      BY <1>0, <2>2, <2>4, <3>1, <3>2 DEF ConfirmedOnce
  <2> QED
    BY <2>3, <2>4 DEF ConfirmedOnce
<1>4. CASE task' = [task EXCEPT ![w].pc = "rejected"] /\ UNCHANGED confirmed
  <2>1. task'[w].row = task[w].row /\ task'[w].pc = "rejected"
    BY <1>1, <1>4, TaskShape DEF TypeOK, TaskRecord
  <2> QED
    BY <1>0, <1>1, <1>4, <2>1, StillConfirmedOnce
<1> QED
  BY <1>3, <1>4 DEF Answer

\* A task ends: it has deleted its row or was not answered 2xx (or the row is
\* gone), because the row's last answer could be logged.
LEMMA EndConfirms ==
    ASSUME UniqueIds, TypeOK, ParentsExist, ConfirmedOnce, NEW w \in Worker,
           Succeed(w) \/ Fail(w)
    PROVE  ConfirmedOnce'
<1>0. /\ UNCHANGED <<confirmed, crashes>> /\ task'[w] = NoTask
      /\ \A v \in Worker \ {w} : task'[v] = task[v]
      /\ DOMAIN table' \subseteq DOMAIN table
  BY DEF Succeed, Fail, TypeOK, ghosts, Remove
<1>1. task[w] # NoTask
  BY DEF Succeed, Fail, NoTask
<1>2. task[w].pc = "accepted" => task[w].row \notin DOMAIN table'
  <2>1. CASE Succeed(w)
    BY <2>1 DEF Succeed, Remove
  <2>2. CASE Fail(w)
    BY <1>0, <1>1, <2>2, RecordSucceeds DEF Fail
  <2> QED
    BY <2>1, <2>2
<1> QED
  BY <1>0, <1>1, <1>2, StillConfirmedOnce

\* A task that starts has found a message, so nobody was delivering its row.
LEMMA TakeConfirms ==
    ASSUME TypeOK, OneCopy, ConfirmedOnce, NEW w \in Worker, NEW r \in Row, TakeTask(w, r)
    PROVE  ConfirmedOnce'
<1>0. UNCHANGED <<confirmed, crashes, table>>
  BY DEF TakeTask, TaskAborts, StartTask, ghosts
<1>1. CASE TaskAborts(w, r)
  BY <1>0, <1>1, StillConfirmedOnce DEF TaskAborts
<1>2. CASE StartTask(w, r)
  <2>1. /\ task[w] = NoTask /\ queue[r] > 0 /\ r \in DOMAIN table
        /\ task'[w].row = r /\ \A v \in Worker \ {w} : task'[v] = task[v]
    BY <1>2 DEF StartTask, Take, TypeOK
  <2>2. crashes = 0 => ~confirmed[r]
    BY <2>1 DEF ConfirmedOnce, OneCopy
  <2> QED
    BY <1>0, <2>1, <2>2, StillConfirmedOnce
<1> QED
  BY <1>1, <1>2 DEF TakeTask

LEMMA ConfirmedStep ==
    ASSUME UniqueIds, TypeOK, TypeOK', Provenance, OneCopy, ParentsExist, ConfirmedOnce, Next
    PROVE  ConfirmedOnce'
<1> USE DEF data, ghosts
<1>1. CASE \E m \in Msg : ScheduleNotification(m) \/ ScheduleCloudEvent(m)
  <2>1. PICK m \in Msg, M \in SUBSET Sub : Publish(m, M)
    BY <1>1 DEF ScheduleNotification, ScheduleCloudEvent, TypeOK
  <2> QED
    BY <2>1, PublishConfirms
<1>2. CASE \/ \E m \in Msg : DeleteParent(m)
           \/ \E s \in Sub : DeleteSub(s) \/ UpdateSub(s)
           \/ \E n \in LeastRetries..MostRetries : Configure(n)
  BY <1>2, StillConfirmedOnce DEF DeleteParent, DeleteSub, UpdateSub, Configure, Remove
<1>3. CASE Breakdown
  <2>1. crashes' = crashes + 1 /\ crashes \in Nat
    BY <1>3, ConstantsAssumption DEF Breakdown, RunCrash, TaskCrash, LoseMessage, TypeOK
  <2> QED
    BY <2>1 DEF ConfirmedOnce
<1>4. CASE \E e \in Exec : AcquireLock(e) \/ RunStep(e)
  <2>1. UNCHANGED <<confirmed, crashes, task>> /\ DOMAIN table' \subseteq DOMAIN table
    BY <1>4 DEF AcquireLock, RunStep, CountInProgress, SelectIds, MarkInProgress, StartTasks,
       ReleaseLock, Remove
  <2> QED
    BY <2>1, StillConfirmedOnce
<1>5. CASE \E w \in Worker, r \in Row : TakeTask(w, r)
  BY <1>5, TakeConfirms
<1>6. CASE \E w \in Worker : Answer(w)
  BY <1>6, AnswerConfirms
<1>7. CASE \E w \in Worker : Succeed(w) \/ Fail(w)
  BY <1>7, EndConfirms
<1>8. CASE Tick
  <2>1. DOMAIN table' = DOMAIN table /\ UNCHANGED <<confirmed, crashes>>
    BY <1>8 DEF Tick
  <2> QED
    BY <1>8, <2>1, TickTasks, StillConfirmedOnce
<1> QED
  BY <1>1, <1>2, <1>3, <1>4, <1>5, <1>6, <1>7, <1>8
     DEF Next, Environment, TaskStep, DeliverMessage, DeliverCloudEvent

\* "Whenever a delivery attempt succeeds, no more delivery attempts are made"
\* (docs/delivery_guarantees.rst): true of a deployment that keeps up, of events
\* with an id of their own, and until a worker, a run or the broker breaks down.
THEOREM NoneAfterSuccess ==
    ASSUME KeepsUp, UniqueIds
    PROVE  Spec => NoRedelivery
<1> DEFINE Fresh == \A w \in Worker :
              task[w].pc = "loaded" /\ task'[w].pc \in {"accepted", "rejected"}
                 => ~confirmed[task[w].row] \/ crashes > 0
<1>1. Init => ConfirmedOnce
  BY DEF Init, ConfirmedOnce
<1>2. TypeOK /\ TypeOK' /\ Provenance /\ TimelyInv /\ ParentsExist /\ ConfirmedOnce
         /\ [Next]_vars
      => ConfirmedOnce'
  <2>1. ConfirmedOnce /\ UNCHANGED vars => ConfirmedOnce'
    BY DEF ConfirmedOnce, vars, ghosts
  <2> QED
    BY <2>1, ConfirmedStep DEF TimelyInv
<1>3. TypeOK /\ ConfirmedOnce => Fresh
  <2>1. ASSUME TypeOK, ConfirmedOnce, NEW w \in Worker, task[w].pc = "loaded"
        PROVE  ~confirmed[task[w].row] \/ crashes > 0
    <3>1. task[w] # NoTask /\ crashes \in Nat
      BY <2>1, ConstantsAssumption DEF NoTask, TypeOK
    <3> QED
      BY <2>1, <3>1 DEF ConfirmedOnce
  <2> QED
    BY <2>1
<1>4. TypeOK /\ ConfirmedOnce /\ [Next]_vars => [Fresh]_vars
  BY <1>3
<1> QED
  BY <1>1, <1>2, <1>4, TypeCorrect, ProvenanceCorrect, TimelyCorrect, ParentsCorrect, PTL
     DEF Spec, NoRedelivery

================================================================================
