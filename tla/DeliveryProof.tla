----------------------------- MODULE DeliveryProof -----------------------------
(* Theorems about the delivery engine, for every value of its constants.      *)
EXTENDS DeliveryImplements, FiniteSetTheorems, TLAPS

\* Rows in progress can be counted: the table is finite.
LEMMA FreeSlotsType ==
    ASSUME TypeOK, NEW c
    PROVE  FreeSlots(c) \in Nat
<1>1. InProgress(c) \subseteq Row
  BY DEF InProgress, TypeOK
<1>2. Cardinality(InProgress(c)) \in Nat
  BY <1>1, FS_Subset, FS_CardinalityType, ConstantsAssumption
<1> QED
  BY <1>2, ConstantsAssumption DEF FreeSlots

\* What each kind of change to the table makes of its type.
LEMMA RemoveType ==
    ASSUME TypeOK, NEW R, Remove(R)
    PROVE  DOMAIN table' \subseteq Row /\ table' \in [DOMAIN table' -> RowRecord]
  BY DEF TypeOK, Remove

LEMMA MarkType ==
    ASSUME TypeOK, NEW e \in Exec, MarkInProgress(e)
    PROVE  DOMAIN table' \subseteq Row /\ table' \in [DOMAIN table' -> RowRecord]
<1>1. ASSUME NEW row \in RowRecord PROVE Marked(row) \in RowRecord
  BY DEF Marked, RowRecord
<1>2. DOMAIN table \subseteq Row /\ \A r \in DOMAIN table : table[r] \in RowRecord
  BY DEF TypeOK
<1>3. table' = [r \in DOMAIN table |->
                  IF r \in run[e].ids THEN Marked(table[r]) ELSE table[r]]
  BY DEF MarkInProgress
<1>4. \A r \in DOMAIN table :
          (IF r \in run[e].ids THEN Marked(table[r]) ELSE table[r]) \in RowRecord
  BY <1>1, <1>2
<1> HIDE DEF Marked
<1> QED
  BY <1>2, <1>3, <1>4

LEMMA RetriedType ==
    ASSUME TypeOK, NEW row \in RowRecord, NEW t \in TaskRecord,
           ~Exhausted(t.attempt + 1, maxRetries)
    PROVE  Retried(row, t) \in RowRecord
<1>1. t.attempt \in 0..MostRetries /\ t.due \in Int
  BY DEF TaskRecord
<1>2. t.due + Backoff(t.attempt) \in Int
  BY <1>1, BackoffAssumption, ConstantsAssumption
<1>3. t.attempt + 1 \in 0..MostRetries
  BY <1>1, ConstantsAssumption DEF Exhausted, TypeOK
<1> QED
  BY <1>2, <1>3 DEF Retried, RowRecord

LEMMA PublishType ==
    ASSUME TypeOK, NEW m \in Msg, NEW M \in SUBSET Sub, Publish(m, M)
    PROVE  DOMAIN table' \subseteq Row /\ table' \in [DOMAIN table' -> RowRecord]
<1>1. \A s \in Sub : NewRow(m, s) \in RowRecord
  BY ConstantsAssumption DEF NewRow, Kind, RowRecord
<1>2. \A r \in {m} \X M : r \in Row /\ SubOf(r) \in Sub
  BY DEF Row, SubOf
<1> QED
  BY <1>1, <1>2 DEF TypeOK, Publish

LEMMA EnqueueType ==
    ASSUME TypeOK, NEW R, Enqueue(R)
    PROVE  queue' \in [Row -> 0..MaxQueue]
  BY ConstantsAssumption DEF TypeOK, Enqueue

\* A message is published to subscriptions only, and changes no other type.
LEMMA PublishStep ==
    ASSUME TypeOK, NEW m \in Msg, NEW M \in SUBSET Sub, Publish(m, M)
    PROVE  TypeOK'
<1>1. DOMAIN table' \subseteq Row /\ table' \in [DOMAIN table' -> RowRecord]
  BY PublishType
<1>2. published' \subseteq Msg /\ stored' \subseteq published'
  BY DEF TypeOK, Publish
<1> QED
  BY <1>1, <1>2 DEF TypeOK, Publish, ghosts

LEMMA EnvironmentType ==
    ASSUME TypeOK, Environment
    PROVE  TypeOK'
<1>1. ASSUME NEW m \in Msg, ScheduleNotification(m) \/ ScheduleCloudEvent(m)
      PROVE  TypeOK'
  <2>1. PICK M \in SUBSET Sub : Publish(m, M)
    BY <1>1 DEF ScheduleNotification, ScheduleCloudEvent, TypeOK
  <2> QED
    BY <2>1, PublishStep
<1>2. ASSUME NEW m \in Msg, DeleteParent(m)
      PROVE  TypeOK'
  <2>1. DOMAIN table' \subseteq Row /\ table' \in [DOMAIN table' -> RowRecord]
    BY <1>2, RemoveType DEF DeleteParent
  <2> QED
    BY <1>2, <2>1 DEF TypeOK, DeleteParent, ghosts
<1>3. ASSUME NEW s \in Sub, DeleteSub(s)
      PROVE  TypeOK'
  <2>1. DOMAIN table' \subseteq Row /\ table' \in [DOMAIN table' -> RowRecord]
    BY <1>3, RemoveType DEF DeleteSub
  <2> QED
    BY <1>3, <2>1 DEF TypeOK, DeleteSub, ghosts
<1>4. ASSUME NEW s \in Sub, UpdateSub(s)
      PROVE  TypeOK'
  <2>1. sendCE' \in [Sub -> BOOLEAN]
    BY <1>4 DEF TypeOK, UpdateSub
  <2> QED
    BY <1>4, <2>1 DEF TypeOK, UpdateSub, ghosts
<1>5. ASSUME NEW n \in LeastRetries..MostRetries, Configure(n)
      PROVE  TypeOK'
  BY <1>5 DEF TypeOK, Configure, ghosts
<1> QED
  BY <1>1, <1>2, <1>3, <1>4, <1>5 DEF Environment

\* The steps of execute_notifications and its crash.
LEMMA RunType ==
    ASSUME TypeOK, NEW e \in Exec, AcquireLock(e) \/ RunStep(e) \/ RunCrash(e)
    PROVE  TypeOK'
<1> USE DEF ghosts, data
<1>0. NoRun \in RunRecord
  BY ConstantsAssumption DEF NoRun, RunRecord
<1>1. CASE AcquireLock(e)
  <2>1. run' \in [Exec -> RunRecord]
    BY <1>0, <1>1 DEF TypeOK, AcquireLock, NoRun, RunRecord
  <2> QED
    BY <1>1, <2>1, ConstantsAssumption DEF TypeOK, AcquireLock
<1>2. CASE CountInProgress(e)
  <2>1. FreeSlots(-StuckAfter) \in Nat /\ -StuckAfter \in Int
    BY FreeSlotsType, ConstantsAssumption
  <2>2. run' \in [Exec -> RunRecord]
    <3>1. run[e] \in RunRecord /\ maxRetries \in LeastRetries..MostRetries
      BY DEF TypeOK
    <3>2. [run[e] EXCEPT !.pc = "counted", !.retries = maxRetries,
              !.cutoff = -StuckAfter, !.slots = FreeSlots(-StuckAfter)] \in RunRecord
      BY <2>1, <3>1 DEF RunRecord
    <3> QED
      BY <1>2, <3>2 DEF TypeOK, CountInProgress
  <2> QED
    BY <1>2, <2>2 DEF TypeOK, CountInProgress
<1>3. CASE SelectIds(e)
  <2>1. PICK R \in SUBSET Row : run' = [run EXCEPT ![e] = [@ EXCEPT !.pc = "selected", !.ids = R]]
    BY <1>3 DEF SelectIds, Earliest, Selectable, TypeOK
  <2>2. run' \in [Exec -> RunRecord]
    <3>1. [run[e] EXCEPT !.pc = "selected", !.ids = R] \in RunRecord
      BY ZenonT(30) DEF TypeOK, RunRecord
    <3> QED
      BY <2>1, <3>1 DEF TypeOK
  <2> QED
    BY <1>3, <2>2 DEF TypeOK, SelectIds
<1>4. CASE MarkInProgress(e)
  <2>1. run' \in [Exec -> RunRecord]
    BY <1>4 DEF TypeOK, MarkInProgress, RunRecord
  <2> QED
    BY <1>4, <2>1, MarkType DEF TypeOK, MarkInProgress
<1>5. CASE StartTasks(e)
  <2>1. run' \in [Exec -> RunRecord]
    <3>1. [run[e] EXCEPT !.pc = "started", !.ids = {}] \in RunRecord
      BY ZenonT(30) DEF TypeOK, RunRecord
    <3> QED
      BY <1>5, <3>1 DEF TypeOK, StartTasks
  <2>2. queue' \in [Row -> 0..MaxQueue]
    BY <1>5, EnqueueType DEF StartTasks
  <2>3. DOMAIN table' \subseteq Row /\ table' \in [DOMAIN table' -> RowRecord]
    BY <1>5, RemoveType DEF StartTasks
  <2> QED
    BY <1>5, <2>1, <2>2, <2>3 DEF TypeOK, StartTasks
<1>6. CASE ReleaseLock(e)
  BY <1>0, <1>6, ConstantsAssumption DEF TypeOK, ReleaseLock
<1>7. CASE RunCrash(e)
  <2>1. /\ DOMAIN table' \subseteq Row /\ table' \in [DOMAIN table' -> RowRecord]
        /\ queue' \in [Row -> 0..MaxQueue]
    <3>1. CASE run[e].pc = "marked"
      <4>1. PICK R : Remove(R \cap GivenUp(e)) /\ Enqueue(R \ GivenUp(e))
        BY <1>7, <3>1 DEF RunCrash
      <4> QED
        BY <4>1, RemoveType, EnqueueType
    <3>2. CASE run[e].pc # "marked"
      BY <1>7, <3>2 DEF RunCrash, TypeOK
    <3> QED
      BY <3>1, <3>2
  <2>2. run' \in [Exec -> RunRecord] /\ crashes' \in 0..MaxCrashes
    BY <1>0, <1>7, ConstantsAssumption DEF TypeOK, RunCrash
  <2> QED
    BY <1>7, <2>1, <2>2 DEF TypeOK, RunCrash
<1> QED
  BY <1>1, <1>2, <1>3, <1>4, <1>5, <1>6, <1>7 DEF RunStep

\* The steps of send_to_sub, its crash and a lost message.
LEMMA TaskType ==
    ASSUME TypeOK, NEW w \in Worker, TaskStep(w) \/ TaskCrash(w)
    PROVE  TypeOK'
<1> USE DEF ghosts, data
<1> DEFINE t == task[w]
<1>1. t \in TaskRecord \/ t = NoTask
  BY DEF TypeOK
<1>2. "pc" \in DOMAIN NoTask /\ NoTask.pc = "idle"
  BY DEF NoTask
<1>3. CASE Answer(w)
  <2>1. t \in TaskRecord
    BY <1>1, <1>2, <1>3 DEF Answer
  <2>2. task' \in [Worker -> TaskRecord \cup {NoTask}]
    <3>1. \A pc \in {"accepted", "rejected"} : [t EXCEPT !.pc = pc] \in TaskRecord
      BY <2>1 DEF TaskRecord
    <3>2. PICK pc \in {"accepted", "rejected"} :
              task' = [task EXCEPT ![w] = [t EXCEPT !.pc = pc]]
      BY <1>3 DEF Answer
    <3> QED
      BY <3>1, <3>2 DEF TypeOK
  <2>3. confirmed' \in [Row -> BOOLEAN]
    BY <1>3, <2>1 DEF TypeOK, Answer, TaskRecord
  <2> QED
    BY <1>3, <2>2, <2>3 DEF TypeOK, Answer
<1>4. CASE Succeed(w)
  <2>1. DOMAIN table' \subseteq Row /\ table' \in [DOMAIN table' -> RowRecord]
    BY <1>4, RemoveType DEF Succeed
  <2> QED
    BY <1>4, <2>1 DEF TypeOK, Succeed
<1>5. CASE Fail(w)
  <2>1. t \in TaskRecord
    BY <1>1, <1>2, <1>5 DEF Fail
  <2>2. DOMAIN table' \subseteq Row /\ table' \in [DOMAIN table' -> RowRecord]
    <3>1. CASE Remove({t.row})
      BY <3>1, RemoveType
    <3>2. CASE /\ ~Exhausted(t.attempt + 1, maxRetries)
               /\ table' = [q \in DOMAIN table |->
                     IF q = t.row THEN Retried(table[t.row], t) ELSE table[q]]
      <4>1. t.row \in DOMAIN table => Retried(table[t.row], t) \in RowRecord
        BY <2>1, <3>2, RetriedType DEF TypeOK
      <4> QED
        BY <3>2, <4>1 DEF TypeOK
    <3> QED
      BY <1>5, <3>1, <3>2 DEF Fail
  <2>3. failures' \in [Row -> 0..FailCap]
    BY <1>5, <2>1, ConstantsAssumption DEF TypeOK, Fail, FailCap, TaskRecord
  <2>4. task' = [task EXCEPT ![w] = NoTask] /\ UNCHANGED <<data, lock, run, queue, confirmed, crashes>>
    BY <1>5 DEF Fail
  <2> QED
    BY <2>2, <2>3, <2>4 DEF TypeOK
<1>6. CASE TaskCrash(w)
  BY <1>6, ConstantsAssumption DEF TypeOK, TaskCrash
<1> QED
  BY <1>3, <1>4, <1>5, <1>6 DEF TaskStep, DeliverMessage, DeliverCloudEvent

LEMMA TakeType ==
    ASSUME TypeOK, NEW w \in Worker, NEW r \in Row, TakeTask(w, r)
    PROVE  TypeOK'
<1> USE DEF ghosts, data
<1>1. queue' \in [Row -> 0..MaxQueue]
  <2>1. queue[r] \in 0..MaxQueue /\ queue[r] > 0 /\ queue' = [queue EXCEPT ![r] = @ - 1]
    BY DEF TypeOK, TakeTask, TaskAborts, StartTask, Take
  <2>2. queue[r] - 1 \in 0..MaxQueue
    BY <2>1, ConstantsAssumption
  <2> QED
    BY <2>1, <2>2 DEF TypeOK
<1>2. CASE TaskAborts(w, r)
  BY <1>1, <1>2 DEF TypeOK, TaskAborts
<1>3. CASE StartTask(w, r)
  <2>1. table[r] \in RowRecord /\ sendCE[SubOf(r)] \in BOOLEAN
    BY <1>3 DEF TypeOK, StartTask, SubOf, Row
  <2>2. [pc |-> "loaded", row |-> r, attempt |-> table[r].taskAttempt,
         due |-> table[r].due, asEvent |-> sendCE[SubOf(r)]] \in TaskRecord
    BY <2>1 DEF RowRecord, TaskRecord
  <2>3. task' \in [Worker -> TaskRecord \cup {NoTask}]
    BY <1>3, <2>2 DEF TypeOK, StartTask
  <2> QED
    BY <1>1, <1>3, <2>3 DEF TypeOK, StartTask
<1> QED
  BY <1>2, <1>3 DEF TakeTask

LEMMA LoseType ==
    ASSUME TypeOK, NEW r \in Row, LoseMessage(r)
    PROVE  TypeOK'
<1>1. queue[r] - 1 \in 0..MaxQueue /\ crashes' \in 0..MaxCrashes
  BY ConstantsAssumption DEF TypeOK, LoseMessage
<1> QED
  BY <1>1 DEF TypeOK, LoseMessage, data

LEMMA TickType ==
    ASSUME TypeOK, Tick
    PROVE  TypeOK'
<1>1. \A d \in Int : Older(d) \in Int
  BY ConstantsAssumption DEF Older, Floor
<1>2. DOMAIN table' \subseteq Row /\ table' \in [DOMAIN table' -> RowRecord]
  <2>1. \A row \in RowRecord : [row EXCEPT !.due = Older(@)] \in RowRecord
    BY <1>1 DEF RowRecord
  <2>2. \A r \in DOMAIN table : table[r] \in RowRecord
    BY DEF TypeOK
  <2>3. table' = [r \in DOMAIN table |-> [table[r] EXCEPT !.due = Older(@)]]
    BY DEF Tick
  <2> QED
    BY <2>1, <2>2, <2>3 DEF TypeOK
<1>3. task' \in [Worker -> TaskRecord \cup {NoTask}]
  <2>1. \A t \in TaskRecord : [t EXCEPT !.due = Older(@)] \in TaskRecord
    BY <1>1 DEF TaskRecord
  <2>2. task' = [w \in Worker |-> IF task[w] = NoTask THEN NoTask
                                  ELSE [task[w] EXCEPT !.due = Older(@)]]
    BY DEF Tick
  <2>3. \A w \in Worker : task[w] # NoTask => task[w] \in TaskRecord
    BY DEF TypeOK
  <2> QED
    BY <2>1, <2>2, <2>3
<1>4. run' \in [Exec -> RunRecord]
  <2>1. \A e \in Exec : Running(e) => run[e].age < MaxRun
    BY DEF Tick
  <2>2. run' = [e \in Exec |-> IF ~Running(e) THEN run[e] ELSE Aged(run[e])]
    BY DEF Tick
  <2>3. ASSUME NEW rec \in RunRecord, rec.age < MaxRun
        PROVE  Aged(rec) \in RunRecord
    <3>1. rec.age + 1 \in 0..MaxRun /\ rec.cutoff - 1 \in Int
      BY <2>3, ConstantsAssumption DEF RunRecord
    <3> QED
      BY <3>1 DEF Aged, RunRecord
  <2>4. \A e \in Exec : run[e] \in RunRecord
    BY DEF TypeOK
  <2> QED
    BY <2>1, <2>2, <2>3, <2>4
<1>5. lock' \in 0..LockTimeout
  BY ConstantsAssumption DEF Tick, TypeOK
<1> QED
  BY <1>2, <1>3, <1>4, <1>5 DEF Tick, TypeOK, data, ghosts

\* Type correctness: the shape of the rows, runs and tasks, with attempts no
\* greater than the configured limit and queues and crashes within their bounds.
THEOREM TypeCorrect == Spec => []TypeOK
<1>1. Init => TypeOK
  BY ConstantsAssumption DEF Init, TypeOK, NoRun, RunRecord, RowRecord, FailCap
<1>2. TypeOK /\ [Next]_vars => TypeOK'
  <2>1. ASSUME TypeOK, Next PROVE TypeOK'
    <3>1. CASE \E e \in Exec : AcquireLock(e) \/ RunStep(e) \/ RunCrash(e)
      BY <2>1, <3>1, RunType
    <3>2. CASE \E w \in Worker : TaskStep(w) \/ TaskCrash(w)
      BY <2>1, <3>2, TaskType
    <3>3. CASE \E w \in Worker, r \in Row : TakeTask(w, r)
      BY <2>1, <3>3, TakeType
    <3>4. CASE \E r \in Row : LoseMessage(r)
      BY <2>1, <3>4, LoseType
    <3>5. CASE Environment
      BY <2>1, <3>5, EnvironmentType
    <3>6. CASE Tick
      BY <2>1, <3>6, TickType
    <3> QED
      BY <2>1, <3>1, <3>2, <3>3, <3>4, <3>5, <3>6 DEF Next, Breakdown
  <2>2. TypeOK /\ UNCHANGED vars => TypeOK'
    BY DEF TypeOK, vars, data, ghosts
  <2> QED
    BY <2>1, <2>2
<1> QED
  BY <1>1, <1>2, PTL DEF Spec

--------------------------------------------------------------------------------
(* The history variables.                                                      *)

\* Enough for a step that records no failure: rows keep their counter, are new,
\* or leave; tasks keep what they read, end, or have just read a row.
LEMMA StillAgrees ==
    ASSUME TypeOK, TypeOK', HistoryAgrees, UNCHANGED failures,
           \A r \in Row : confirmed[r] => confirmed'[r],
           \A r \in DOMAIN table' :
              \/ table'[r].taskAttempt = 0
              \/ r \in DOMAIN table /\ table'[r].taskAttempt = table[r].taskAttempt,
           \A w \in Worker : task'[w] # NoTask =>
              \/ /\ task[w] # NoTask
                 /\ task'[w].row = task[w].row /\ task'[w].attempt = task[w].attempt
                 /\ task'[w].pc = "accepted" => confirmed'[task[w].row]
              \/ /\ task'[w].row \in DOMAIN table /\ task'[w].pc = "loaded"
                 /\ task'[w].attempt = table[task'[w].row].taskAttempt
    PROVE  HistoryAgrees'
<1>1. ASSUME NEW r \in DOMAIN table' PROVE table'[r].taskAttempt <= failures'[r]
  <2>1. r \in Row /\ failures'[r] \in 0..FailCap
    BY DEF TypeOK
  <2> QED
    BY <2>1 DEF HistoryAgrees
<1>2. ASSUME NEW w \in Worker, task'[w] # NoTask
      PROVE  /\ task'[w].attempt <= failures'[task'[w].row]
             /\ task'[w].pc = "accepted" => confirmed'[task'[w].row]
  BY <1>2 DEF HistoryAgrees
<1> QED
  BY <1>1, <1>2 DEF HistoryAgrees

\* Steps that leave the tasks alone and give no row another counter.
LEMMA TableStepAgrees ==
    ASSUME TypeOK, TypeOK', HistoryAgrees, UNCHANGED <<task, confirmed, failures>>,
           \A r \in DOMAIN table' :
              \/ table'[r].taskAttempt = 0
              \/ r \in DOMAIN table /\ table'[r].taskAttempt = table[r].taskAttempt
    PROVE  HistoryAgrees'
<1>1. \A w \in Worker : task'[w] # NoTask /\ task'[w].pc = "accepted"
                           => confirmed'[task[w].row]
  BY DEF HistoryAgrees
<1> QED
  BY <1>1, StillAgrees

LEMMA EnvironmentAgrees ==
    ASSUME TypeOK, TypeOK', HistoryAgrees, Environment
    PROVE  HistoryAgrees'
<1>0. UNCHANGED <<task, confirmed, failures>>
  BY DEF Environment, ScheduleNotification, ScheduleCloudEvent, Publish, DeleteParent,
         DeleteSub, UpdateSub, Configure, ghosts
<1>1. \A r \in DOMAIN table' :
          \/ table'[r].taskAttempt = 0
          \/ r \in DOMAIN table /\ table'[r].taskAttempt = table[r].taskAttempt
  <2>1. ASSUME NEW m \in Msg, NEW M, Publish(m, M)
        PROVE  \A r \in DOMAIN table' :
                  \/ table'[r].taskAttempt = 0
                  \/ r \in DOMAIN table /\ table'[r].taskAttempt = table[r].taskAttempt
    BY <2>1 DEF Publish, NewRow
  <2>2. ASSUME NEW R, Remove(R)
        PROVE  \A r \in DOMAIN table' :
                  r \in DOMAIN table /\ table'[r].taskAttempt = table[r].taskAttempt
    BY <2>2 DEF Remove
  <2>3. ASSUME UNCHANGED table
        PROVE  \A r \in DOMAIN table' :
                  r \in DOMAIN table /\ table'[r].taskAttempt = table[r].taskAttempt
    BY <2>3
  <2> QED
    BY <2>1, <2>2, <2>3 DEF Environment, ScheduleNotification, ScheduleCloudEvent,
       DeleteParent, DeleteSub, UpdateSub, Configure
<1> QED
  BY <1>0, <1>1, TableStepAgrees

LEMMA RunAgrees ==
    ASSUME TypeOK, TypeOK', HistoryAgrees, NEW e \in Exec,
           AcquireLock(e) \/ RunStep(e) \/ RunCrash(e)
    PROVE  HistoryAgrees'
<1>0. UNCHANGED <<task, confirmed, failures>>
  BY DEF AcquireLock, RunStep, CountInProgress, SelectIds, MarkInProgress, StartTasks,
         ReleaseLock, RunCrash, ghosts
<1>1. \A r \in DOMAIN table' :
          r \in DOMAIN table /\ table'[r].taskAttempt = table[r].taskAttempt
  <2>1. ASSUME NEW R, Remove(R)
        PROVE  \A r \in DOMAIN table' :
                  r \in DOMAIN table /\ table'[r].taskAttempt = table[r].taskAttempt
    BY <2>1 DEF Remove
  <2>2. CASE MarkInProgress(e)
    BY <2>2 DEF MarkInProgress, Marked
  <2>3. CASE UNCHANGED table
    BY <2>3
  <2> QED
    BY <2>1, <2>2, <2>3 DEF AcquireLock, RunStep, CountInProgress, SelectIds,
       StartTasks, ReleaseLock, RunCrash
<1> QED
  BY <1>0, <1>1, TableStepAgrees

LEMMA TakeAgrees ==
    ASSUME TypeOK, TypeOK', HistoryAgrees, NEW w \in Worker, NEW r \in Row, TakeTask(w, r)
    PROVE  HistoryAgrees'
<1>1. CASE TaskAborts(w, r)
  BY <1>1, TableStepAgrees DEF TaskAborts, ghosts
<1>2. CASE StartTask(w, r)
  <2>1. \A v \in Worker : task'[v] # NoTask =>
              \/ /\ task[v] # NoTask
                 /\ task'[v].row = task[v].row /\ task'[v].attempt = task[v].attempt
                 /\ task'[v].pc = "accepted" => confirmed'[task[v].row]
              \/ /\ task'[v].row \in DOMAIN table /\ task'[v].pc = "loaded"
                 /\ task'[v].attempt = table[task'[v].row].taskAttempt
    <3>1. task'[w].row = r /\ task'[w].pc = "loaded" /\ task'[w].attempt = table[r].taskAttempt
      BY <1>2 DEF StartTask, TypeOK
    <3>2. \A v \in Worker \ {w} : task'[v] = task[v]
      BY <1>2 DEF StartTask, TypeOK
    <3>3. r \in DOMAIN table /\ UNCHANGED confirmed
      BY <1>2 DEF StartTask, ghosts
    <3> QED
      BY <3>1, <3>2, <3>3 DEF HistoryAgrees
  <2> QED
    BY <1>2, <2>1, StillAgrees DEF StartTask, ghosts
<1> QED
  BY <1>1, <1>2 DEF TakeTask

\* A task that fails writes its own attempt plus one and records one failure
\* more: whatever the row holds by now, the count stays below the failures.
LEMMA FailAgrees ==
    ASSUME TypeOK, TypeOK', HistoryAgrees, NEW w \in Worker, Fail(w)
    PROVE  HistoryAgrees'
<1> DEFINE t == task[w]
<1>1. t \in TaskRecord /\ t # NoTask /\ t.attempt <= failures[t.row]
  <2>1. t # NoTask
    BY DEF Fail, NoTask
  <2> QED
    BY <2>1 DEF TypeOK, HistoryAgrees
<1>2. t.row \in Row /\ t.attempt \in 0..MostRetries
  BY <1>1 DEF TaskRecord
<1>3. \A r \in Row : /\ failures[r] \in 0..FailCap /\ failures'[r] \in 0..FailCap
                     /\ failures[r] <= failures'[r]
  BY <1>2, ConstantsAssumption DEF TypeOK, Fail, FailCap
<1>4. t.attempt + 1 <= failures'[t.row]
  BY <1>1, <1>2, ConstantsAssumption DEF TypeOK, Fail, FailCap
<1>5. ASSUME NEW r \in DOMAIN table' PROVE table'[r].taskAttempt <= failures'[r]
  <2>1. CASE Remove({t.row})
    <3>1. r \in DOMAIN table /\ table'[r] = table[r]
      BY <2>1 DEF Remove
    <3>2. r \in Row /\ table[r].taskAttempt \in 0..MostRetries
      BY <3>1 DEF TypeOK, RowRecord
    <3> QED
      BY <1>3, <3>1, <3>2, ConstantsAssumption DEF HistoryAgrees, FailCap
  <2>2. CASE table' = [q \in DOMAIN table |->
                          IF q = t.row THEN Retried(table[t.row], t) ELSE table[q]]
    <3>1. r \in DOMAIN table /\ r \in Row /\ table[r] \in RowRecord
      BY <2>2 DEF TypeOK
    <3>2. CASE r = t.row
      <4>1. table'[r].taskAttempt = t.attempt + 1
        BY <2>2, <3>1, <3>2 DEF Retried, RowRecord
      <4> QED
        BY <1>4, <3>2, <4>1
    <3>3. CASE r # t.row
      <4>1. table'[r] = table[r] /\ table[r].taskAttempt \in 0..MostRetries
        BY <2>2, <3>1, <3>3 DEF RowRecord
      <4> QED
        BY <1>3, <3>1, <4>1, ConstantsAssumption DEF HistoryAgrees, FailCap
    <3> QED
      BY <3>2, <3>3
  <2> QED
    BY <2>1, <2>2 DEF Fail
<1>6. ASSUME NEW v \in Worker, task'[v] # NoTask
      PROVE  /\ task'[v].attempt <= failures'[task'[v].row]
             /\ task'[v].pc = "accepted" => confirmed'[task'[v].row]
  <2>1. task'[v] = task[v] /\ UNCHANGED confirmed
    BY <1>6 DEF Fail, TypeOK
  <2>2. task[v] \in TaskRecord
    BY <1>6, <2>1 DEF TypeOK
  <2>3. task[v].row \in Row /\ task[v].attempt \in 0..MostRetries
    BY <2>2 DEF TaskRecord
  <2> QED
    BY <1>3, <1>6, <2>1, <2>3, ConstantsAssumption DEF HistoryAgrees, FailCap
<1> QED
  BY <1>5, <1>6 DEF HistoryAgrees

LEMMA TaskAgrees ==
    ASSUME TypeOK, TypeOK', HistoryAgrees, NEW w \in Worker, TaskStep(w) \/ TaskCrash(w)
    PROVE  HistoryAgrees'
<1>1. CASE Answer(w)
  <2>1. task[w] # NoTask /\ task[w] \in TaskRecord /\ task[w].row \in Row
    BY <1>1 DEF Answer, NoTask, TypeOK, TaskRecord
  <2>2. UNCHANGED <<table, failures>> /\ \A r \in Row : confirmed[r] => confirmed'[r]
    BY <1>1, <2>1 DEF Answer, TypeOK
  <2>3. \A v \in Worker : task'[v] # NoTask =>
           /\ task[v] # NoTask
           /\ task'[v].row = task[v].row /\ task'[v].attempt = task[v].attempt
           /\ task'[v].pc = "accepted" => confirmed'[task[v].row]
    <3>1. \A v \in Worker \ {w} : task'[v] = task[v]
      BY <1>1 DEF Answer, TypeOK
    <3>2. /\ task'[w].row = task[w].row /\ task'[w].attempt = task[w].attempt
          /\ task'[w].pc = "accepted" => confirmed'[task[w].row]
      BY <1>1, <2>1 DEF Answer, TypeOK, TaskRecord
    <3>3. \A v \in Worker : task[v] # NoTask => task[v].row \in Row
      BY DEF TypeOK, TaskRecord
    <3> QED
      BY <2>1, <2>2, <3>1, <3>2, <3>3 DEF HistoryAgrees
  <2> QED
    BY <2>2, <2>3, StillAgrees
<1>2. CASE Succeed(w) \/ TaskCrash(w)
  <2>1. UNCHANGED <<confirmed, failures>>
    BY <1>2 DEF Succeed, TaskCrash, ghosts
  <2>2. \A r \in DOMAIN table' :
           r \in DOMAIN table /\ table'[r].taskAttempt = table[r].taskAttempt
    BY <1>2 DEF Succeed, TaskCrash, Remove
  <2>3. \A v \in Worker : task'[v] # NoTask =>
           /\ task[v] # NoTask
           /\ task'[v].row = task[v].row /\ task'[v].attempt = task[v].attempt
           /\ task'[v].pc = "accepted" => confirmed'[task[v].row]
    BY <1>2, <2>1 DEF Succeed, TaskCrash, TypeOK, HistoryAgrees
  <2> QED
    BY <2>1, <2>2, <2>3, StillAgrees
<1>3. CASE Fail(w)
  BY <1>3, FailAgrees
<1> QED
  BY <1>1, <1>2, <1>3 DEF TaskStep, DeliverMessage, DeliverCloudEvent

LEMMA TickAgrees ==
    ASSUME TypeOK, TypeOK', HistoryAgrees, Tick
    PROVE  HistoryAgrees'
<1>1. UNCHANGED <<confirmed, failures>>
  BY DEF Tick, ghosts
<1>2. \A r \in DOMAIN table' :
         r \in DOMAIN table /\ table'[r].taskAttempt = table[r].taskAttempt
  <2>1. table' = [r \in DOMAIN table |-> [table[r] EXCEPT !.due = Older(@)]]
    BY DEF Tick
  <2>2. \A r \in DOMAIN table : table[r] \in RowRecord
    BY DEF TypeOK
  <2> QED
    BY <2>1, <2>2 DEF RowRecord
<1>3. \A w \in Worker : task'[w] # NoTask =>
         /\ task[w] # NoTask
         /\ task'[w].row = task[w].row /\ task'[w].attempt = task[w].attempt
         /\ task'[w].pc = "accepted" => confirmed'[task[w].row]
  <2>1. task' = [w \in Worker |-> IF task[w] = NoTask THEN NoTask
                                  ELSE [task[w] EXCEPT !.due = Older(@)]]
    BY DEF Tick
  <2>2. \A w \in Worker : task[w] # NoTask => task[w] \in TaskRecord
    BY DEF TypeOK
  <2>3. \A w \in Worker : task[w] # NoTask =>
            /\ task'[w].row = task[w].row /\ task'[w].attempt = task[w].attempt
            /\ task'[w].pc = task[w].pc
    BY <2>1, <2>2 DEF TaskRecord
  <2> QED
    BY <1>1, <2>1, <2>3 DEF HistoryAgrees
<1> QED
  BY <1>1, <1>2, <1>3, StillAgrees

\* The counters of rows and tasks never exceed the attempts that really failed,
\* and a task that is about to delete its row was answered 2xx: in every
\* deployment, whatever crashes, overlaps or goes stale.
THEOREM HistoryCorrect == Spec => []HistoryAgrees
<1>1. Init => HistoryAgrees
  BY DEF Init, HistoryAgrees
<1>2. TypeOK /\ TypeOK' /\ HistoryAgrees /\ [Next]_vars => HistoryAgrees'
  <2>1. ASSUME TypeOK, TypeOK', HistoryAgrees, Next PROVE HistoryAgrees'
    <3>1. CASE \E e \in Exec : AcquireLock(e) \/ RunStep(e) \/ RunCrash(e)
      BY <2>1, <3>1, RunAgrees
    <3>2. CASE \E w \in Worker : TaskStep(w) \/ TaskCrash(w)
      BY <2>1, <3>2, TaskAgrees
    <3>3. CASE \E w \in Worker, r \in Row : TakeTask(w, r)
      BY <2>1, <3>3, TakeAgrees
    <3>4. CASE \E r \in Row : LoseMessage(r)
      BY <2>1, <3>4, TableStepAgrees DEF LoseMessage
    <3>5. CASE Environment
      BY <2>1, <3>5, EnvironmentAgrees
    <3>6. CASE Tick
      BY <2>1, <3>6, TickAgrees
    <3> QED
      BY <2>1, <3>1, <3>2, <3>3, <3>4, <3>5, <3>6 DEF Next, Breakdown
  <2>2. HistoryAgrees /\ UNCHANGED vars => HistoryAgrees'
    BY DEF HistoryAgrees, vars, ghosts
  <2> QED
    BY <2>1, <2>2
<1> QED
  BY <1>1, <1>2, TypeCorrect, PTL DEF Spec

--------------------------------------------------------------------------------
(* Nothing is known of a message before it is published.                       *)

Provenance ==
    /\ LogInDb \/ stored = {}
    /\ \A r \in DOMAIN table : MsgOf(r) \in published
    /\ \A w \in Worker : task[w] # NoTask => MsgOf(task[w].row) \in published
    /\ \A r \in Row : confirmed[r] \/ failures[r] > 0 => MsgOf(r) \in published

\* Rows only stay or leave, tasks only keep their row, end or read a row of the
\* table, and attempts are recorded for rows that a task holds.
LEMMA StillProven ==
    ASSUME TypeOK, Provenance, DOMAIN table' \subseteq DOMAIN table,
           UNCHANGED published, stored' \subseteq stored,
           \A w \in Worker : task'[w] # NoTask =>
              \/ task[w] # NoTask /\ task'[w].row = task[w].row
              \/ task'[w].row \in DOMAIN table,
           \A r \in Row : \/ UNCHANGED <<confirmed[r], failures[r]>>
                         \/ \E w \in Worker : task[w] # NoTask /\ task[w].row = r
    PROVE  Provenance'
<1>1. LogInDb \/ stored' = {}
  BY DEF Provenance
<1>2. \A r \in DOMAIN table' : MsgOf(r) \in published'
  BY DEF Provenance
<1>3. \A w \in Worker : task'[w] # NoTask => MsgOf(task'[w].row) \in published'
  BY DEF Provenance
<1>4. \A r \in Row : confirmed'[r] \/ failures'[r] > 0 => MsgOf(r) \in published'
  BY DEF Provenance
<1> QED
  BY <1>1, <1>2, <1>3, <1>4 DEF Provenance

LEMMA PublishProven ==
    ASSUME TypeOK, Provenance, NEW m \in Msg, NEW M \in SUBSET Sub, Publish(m, M)
    PROVE  Provenance'
<1>1. published' = published \cup {m} /\ UNCHANGED <<task, confirmed, failures>>
  BY DEF Publish, ghosts
<1>2. LogInDb \/ stored' = {}
  BY DEF Publish, Provenance
<1>3. \A r \in DOMAIN table' : MsgOf(r) \in published'
  <2>1. DOMAIN table' = DOMAIN table \cup ({m} \X M)
    BY DEF Publish
  <2>2. \A r \in {m} \X M : MsgOf(r) = m
    BY DEF MsgOf
  <2> QED
    BY <1>1, <2>1, <2>2 DEF Provenance
<1> QED
  BY <1>1, <1>2, <1>3 DEF Provenance

LEMMA ProvenanceStep ==
    ASSUME TypeOK, Provenance, Next
    PROVE  Provenance'
<1> USE DEF data, ghosts
<1>1. ASSUME NEW m \in Msg, ScheduleNotification(m) \/ ScheduleCloudEvent(m)
      PROVE  Provenance'
  <2>1. PICK M \in SUBSET Sub : Publish(m, M)
    BY <1>1 DEF ScheduleNotification, ScheduleCloudEvent, TypeOK
  <2> QED
    BY <2>1, PublishProven
<1>2. ASSUME \/ \E m \in Msg : DeleteParent(m)
             \/ \E s \in Sub : DeleteSub(s) \/ UpdateSub(s)
             \/ \E n \in LeastRetries..MostRetries : Configure(n)
      PROVE  Provenance'
  BY <1>2, StillProven DEF DeleteParent, DeleteSub, UpdateSub, Configure, Remove
<1>3. ASSUME NEW e \in Exec, AcquireLock(e) \/ RunStep(e) \/ RunCrash(e)
      PROVE  Provenance'
  <2>1. DOMAIN table' \subseteq DOMAIN table
    BY <1>3 DEF AcquireLock, RunStep, CountInProgress, SelectIds, MarkInProgress,
       StartTasks, ReleaseLock, RunCrash, Remove
  <2>2. UNCHANGED <<published, stored, task, confirmed, failures>>
    BY <1>3 DEF AcquireLock, RunStep, CountInProgress, SelectIds, MarkInProgress,
       StartTasks, ReleaseLock, RunCrash
  <2> QED
    BY <2>1, <2>2, StillProven
<1>4. ASSUME NEW w \in Worker, NEW r \in Row, TakeTask(w, r)
      PROVE  Provenance'
  <2>1. UNCHANGED <<table, published, stored, confirmed, failures>>
    BY <1>4 DEF TakeTask, TaskAborts, StartTask
  <2>2. \A v \in Worker : task'[v] # NoTask =>
           \/ task[v] # NoTask /\ task'[v].row = task[v].row
           \/ task'[v].row \in DOMAIN table
    BY <1>4 DEF TakeTask, TaskAborts, StartTask, TypeOK
  <2> QED
    BY <2>1, <2>2, StillProven
<1>5. ASSUME NEW w \in Worker, TaskStep(w) \/ TaskCrash(w)
      PROVE  Provenance'
  <2>1. DOMAIN table' \subseteq DOMAIN table /\ UNCHANGED <<published, stored>>
    BY <1>5 DEF TaskStep, DeliverMessage, DeliverCloudEvent, Answer, Succeed, Fail, TaskCrash, Remove
  <2>2. task[w] # NoTask /\ task[w] \in TaskRecord
    BY <1>5 DEF TaskStep, DeliverMessage, DeliverCloudEvent, Answer, Succeed, Fail, TaskCrash, NoTask, TypeOK
  <2>3. \A v \in Worker : task'[v] # NoTask =>
           task[v] # NoTask /\ task'[v].row = task[v].row
    BY <1>5, <2>2 DEF TaskStep, DeliverMessage, DeliverCloudEvent, Answer, Succeed, Fail, TaskCrash, TypeOK, TaskRecord
  <2>4. \A r \in Row : UNCHANGED <<confirmed[r], failures[r]>> \/ task[w].row = r
    BY <1>5 DEF TaskStep, DeliverMessage, DeliverCloudEvent, Answer, Succeed, Fail, TaskCrash, TypeOK
  <2> QED
    BY <2>1, <2>2, <2>3, <2>4, StillProven
<1>6. ASSUME NEW r \in Row, LoseMessage(r) PROVE Provenance'
  BY <1>6, StillProven DEF LoseMessage
<1>7. CASE Tick
  <2>1. DOMAIN table' = DOMAIN table /\ UNCHANGED <<published, stored, confirmed, failures>>
    BY <1>7 DEF Tick
  <2>2. task' = [w \in Worker |-> IF task[w] = NoTask THEN NoTask
                                  ELSE [task[w] EXCEPT !.due = Older(@)]]
    BY <1>7 DEF Tick
  <2>3. \A w \in Worker : task'[w] # NoTask => task[w] # NoTask /\ task'[w].row = task[w].row
    BY <2>2 DEF TypeOK, TaskRecord
  <2> QED
    BY <2>1, <2>3, StillProven
<1> QED
  BY <1>1, <1>2, <1>3, <1>4, <1>5, <1>6, <1>7 DEF Next, Breakdown, Environment

LEMMA ProvenanceCorrect == Spec => []Provenance
<1>1. Init => Provenance
  BY DEF Init, Provenance
<1>2. TypeOK /\ Provenance /\ [Next]_vars => Provenance'
  <2>1. Provenance /\ UNCHANGED vars => Provenance'
    BY DEF Provenance, vars, data, ghosts
  <2> QED
    BY <2>1, ProvenanceStep
<1> QED
  BY <1>1, <1>2, TypeCorrect, PTL DEF Spec

--------------------------------------------------------------------------------
(* Which steps take rows out of the table, and why they may.                   *)

Lost == DOMAIN table \ DOMAIN table'

LEMMA RemoveLoses ==
    ASSUME NEW R, Remove(R)
    PROVE  Lost \subseteq R
  BY DEF Remove, Lost

\* A row a run gives up has failed more often than the run's limit.
LEMMA GivenUpFailed ==
    ASSUME TypeOK, HistoryAgrees, NEW e \in Exec, NEW r \in GivenUp(e)
    PROVE  r \in DOMAIN table /\ failures[r] > LeastRetries
<1>1. r \in DOMAIN table /\ table[r].taskAttempt > run[e].retries
  BY DEF GivenUp, Exhausted
<1>2. r \in Row /\ table[r].taskAttempt \in 0..MostRetries
  BY <1>1 DEF TypeOK, RowRecord
<1>3. run[e].retries \in LeastRetries..MostRetries
  BY DEF TypeOK, RunRecord
<1>4. failures[r] \in 0..FailCap /\ table[r].taskAttempt <= failures[r]
  BY <1>1, <1>2 DEF TypeOK, HistoryAgrees
<1> QED
  BY <1>1, <1>2, <1>3, <1>4, ConstantsAssumption DEF FailCap

LEMMA RunLoses ==
    ASSUME TypeOK, HistoryAgrees, NEW e \in Exec,
           AcquireLock(e) \/ RunStep(e) \/ RunCrash(e)
    PROVE  \A r \in Lost : failures[r] > LeastRetries
<1>1. Lost \subseteq GivenUp(e)
  <2>1. CASE StartTasks(e)
    BY <2>1, RemoveLoses DEF StartTasks
  <2>2. CASE RunCrash(e) /\ run[e].pc = "marked"
    <3>1. PICK R : Remove(R \cap GivenUp(e))
      BY <2>2 DEF RunCrash
    <3> QED
      BY <3>1, RemoveLoses
  <2>3. CASE DOMAIN table' = DOMAIN table
    BY <2>3 DEF Lost
  <2>4. MarkInProgress(e) => DOMAIN table' = DOMAIN table
    BY DEF MarkInProgress
  <2> QED
    BY <2>1, <2>2, <2>3, <2>4 DEF AcquireLock, RunStep, CountInProgress, SelectIds,
       ReleaseLock, RunCrash
<1> QED
  BY <1>1, GivenUpFailed

LEMMA FailLoses ==
    ASSUME TypeOK, HistoryAgrees, NEW w \in Worker, Fail(w), NEW r \in Lost
    PROVE  r = task[w].row /\ failures'[r] > LeastRetries
<1> DEFINE t == task[w]
<1>1. t \in TaskRecord /\ t.attempt <= failures[t.row]
  BY DEF Fail, NoTask, TypeOK, HistoryAgrees
<1>2. t.row \in Row /\ t.attempt \in 0..MostRetries
  BY <1>1 DEF TaskRecord
<1>3. Exhausted(t.attempt + 1, maxRetries) /\ r = t.row
  <2>1. CASE Exhausted(t.attempt + 1, maxRetries) /\ Remove({t.row})
    BY <2>1, RemoveLoses
  <2>2. CASE table' = [q \in DOMAIN table |->
                          IF q = t.row THEN Retried(table[t.row], t) ELSE table[q]]
    BY <2>2 DEF Lost
  <2> QED
    BY <2>1, <2>2 DEF Fail
<1>4. t.attempt + 1 <= failures'[t.row]
  BY <1>1, <1>2, ConstantsAssumption DEF TypeOK, Fail, FailCap
<1>5. maxRetries \in LeastRetries..MostRetries /\ failures'[t.row] \in Int
  BY <1>2, ConstantsAssumption DEF TypeOK, Fail, FailCap
<1> QED
  BY <1>2, <1>3, <1>4, <1>5, ConstantsAssumption DEF Exhausted

LEMMA EnvironmentLoses ==
    ASSUME TypeOK, Provenance, Environment
    PROVE  Lost \subseteq Gone'
<1>1. ASSUME NEW m \in Msg, ScheduleNotification(m) \/ ScheduleCloudEvent(m)
      PROVE  Lost \subseteq Gone'
  BY <1>1 DEF ScheduleNotification, ScheduleCloudEvent, Publish, Lost
<1>2. ASSUME NEW s \in Sub, DeleteSub(s) PROVE Lost \subseteq Gone'
  <2>1. Lost \subseteq Msg \X {s} /\ s \notin subs'
    BY <1>2, RemoveLoses DEF DeleteSub
  <2> QED
    BY <2>1 DEF Gone, Row, SubOf
<1>3. ASSUME NEW m \in Msg, DeleteParent(m) PROVE Lost \subseteq Gone'
  <2>1. Lost \subseteq {m} \X Sub
    BY <1>3, RemoveLoses DEF DeleteParent
  <2>2. LogInDb /\ m \in published' \ stored'
    BY <1>3 DEF DeleteParent, Provenance, TypeOK
  <2> QED
    BY <2>1, <2>2 DEF Gone, Row, MsgOf
<1>4. CASE UNCHANGED table
  BY <1>4 DEF Lost
<1> QED
  BY <1>1, <1>2, <1>3, <1>4 DEF Environment, UpdateSub, Configure

LEMMA TaskLoses ==
    ASSUME TypeOK, HistoryAgrees, NEW w \in Worker, TaskStep(w) \/ TaskCrash(w),
           NEW r \in Lost
    PROVE  r = task[w].row /\ (confirmed[r] \/ failures'[r] > LeastRetries)
<1>1. CASE Succeed(w)
  <2>1. task[w] # NoTask /\ confirmed[task[w].row]
    BY <1>1 DEF Succeed, NoTask, HistoryAgrees
  <2> QED
    BY <1>1, <2>1, RemoveLoses DEF Succeed
<1>2. CASE Fail(w)
  BY <1>2, FailLoses
<1>3. CASE UNCHANGED table
  BY <1>3 DEF Lost
<1> QED
  BY <1>1, <1>2, <1>3 DEF TaskStep, DeliverMessage, DeliverCloudEvent, Answer, TaskCrash

\* A row leaves the table only when it was confirmed, when more attempts failed
\* than the least retry limit, or when its subscription or message was deleted:
\* in every deployment (the deletes of tasks.py:282, 302 and 398).
THEOREM NothingLostSilently == Spec => NoSilentLoss
<1> DEFINE Justified == \A r \in DOMAIN table \ DOMAIN table' :
              confirmed[r] \/ failures'[r] > LeastRetries \/ r \in Gone'
<1>1. TypeOK /\ HistoryAgrees /\ Provenance /\ [Next]_vars => [Justified]_vars
  <2>1. ASSUME TypeOK, HistoryAgrees, Provenance, Next PROVE Justified
    <3>1. CASE \E e \in Exec : AcquireLock(e) \/ RunStep(e) \/ RunCrash(e)
      <4>1. UNCHANGED failures
        BY <3>1 DEF AcquireLock, RunStep, CountInProgress, SelectIds, MarkInProgress,
           StartTasks, ReleaseLock, RunCrash, ghosts
      <4> QED
        BY <2>1, <3>1, <4>1, RunLoses DEF Lost
    <3>2. CASE \E w \in Worker : TaskStep(w) \/ TaskCrash(w)
      BY <2>1, <3>2, TaskLoses DEF Lost
    <3>3. CASE Environment
      BY <2>1, <3>3, EnvironmentLoses DEF Lost
    <3>4. CASE \/ \E w \in Worker, r \in Row : TakeTask(w, r)
               \/ \E r \in Row : LoseMessage(r)
               \/ Tick
      BY <3>4 DEF TakeTask, TaskAborts, StartTask, LoseMessage, Tick
    <3> QED
      BY <2>1, <3>1, <3>2, <3>3, <3>4 DEF Next, Breakdown
  <2> QED
    BY <2>1
<1> QED
  BY <1>1, TypeCorrect, HistoryCorrect, ProvenanceCorrect, PTL DEF Spec, NoSilentLoss

--------------------------------------------------------------------------------
(* Refinement of the delivery contract.                                        *)

LEMMA SubOfRow == \A r \in Row : MsgOf(r) \in Msg /\ SubOf(r) \in Sub
  BY DEF Row, MsgOf, SubOf

LEMMA GoneStays ==
    ASSUME UNCHANGED <<published, stored, subs>>
    PROVE  UNCHANGED Gone
  BY DEF Gone

LEMMA PublishRefines ==
    ASSUME TypeOK, Provenance, NEW m \in Msg, NEW M \in SUBSET subs, Publish(m, M)
    PROVE  Contract!Next
<1> DEFINE R == {m} \X M
<1>1. R \in SUBSET Row /\ \A r \in R : MsgOf(r) = m /\ SubOf(r) \in subs
  BY DEF Row, MsgOf, SubOf, TypeOK
<1>2. m \notin published
  BY DEF Publish
<1>3. R \cap (DOMAIN table \cup Gone) = {}
  BY <1>1, <1>2 DEF Gone, Provenance
<1>4. \A r \in R : ~confirmed[r] /\ failures[r] = 0
  BY <1>1, <1>2 DEF Provenance, TypeOK
<1>5. DOMAIN table' = DOMAIN table \cup R /\ UNCHANGED <<confirmed, failures>>
  BY DEF Publish, ghosts
<1>6. UNCHANGED Gone
  <2>1. LogInDb => published' \ stored' = published \ stored
    BY <1>2 DEF Publish, TypeOK
  <2>2. UNCHANGED subs
    BY DEF Publish
  <2> QED
    BY <2>1, <2>2 DEF Gone
<1>7. Contract!Accept(R)
  BY <1>3, <1>4, <1>5, <1>6 DEF Contract!Accept
<1> QED
  BY <1>1, <1>7 DEF Contract!Next

LEMMA EnvironmentRefines ==
    ASSUME TypeOK, Provenance, Environment
    PROVE  Contract!Next \/ UNCHANGED Contract!vars
<1>1. ASSUME NEW m \in Msg, ScheduleNotification(m) \/ ScheduleCloudEvent(m)
      PROVE  Contract!Next
  <2>1. PICK M \in SUBSET subs : Publish(m, M)
    BY <1>1 DEF ScheduleNotification, ScheduleCloudEvent
  <2> QED
    BY <2>1, PublishRefines
<1>2. ASSUME NEW m \in Msg, DeleteParent(m) PROVE Contract!Next
  <2>1. LogInDb /\ m \in published' /\ stored' = stored \ {m} /\ UNCHANGED <<published, subs>>
    BY <1>2 DEF DeleteParent, Provenance, TypeOK
  <2>2. Gone' = Gone \cup ({m} \X Sub)
    BY <2>1 DEF Gone, Row, MsgOf
  <2>3. DOMAIN table' = DOMAIN table \ ({m} \X Sub) /\ UNCHANGED <<confirmed, failures>>
    BY <1>2 DEF DeleteParent, Remove, ghosts
  <2>4. Contract!Cancel({m} \X Sub)
    BY <2>2, <2>3 DEF Contract!Cancel
  <2> QED
    BY <2>4 DEF Contract!Next, Row
<1>3. ASSUME NEW s \in Sub, DeleteSub(s) PROVE Contract!Next
  <2>1. subs' = subs \ {s} /\ UNCHANGED <<published, stored>>
    BY <1>3 DEF DeleteSub
  <2>2. Gone' = Gone \cup (Msg \X {s})
    BY <2>1 DEF Gone, Row, SubOf
  <2>3. DOMAIN table' = DOMAIN table \ (Msg \X {s}) /\ UNCHANGED <<confirmed, failures>>
    BY <1>3 DEF DeleteSub, Remove, ghosts
  <2>4. Contract!Cancel(Msg \X {s})
    BY <2>2, <2>3 DEF Contract!Cancel
  <2> QED
    BY <2>4 DEF Contract!Next, Row
<1>4. ASSUME \/ \E s \in Sub : UpdateSub(s)
             \/ \E n \in LeastRetries..MostRetries : Configure(n)
      PROVE  UNCHANGED Contract!vars
  BY <1>4, GoneStays DEF UpdateSub, Configure, ghosts, Contract!vars
<1> QED
  BY <1>1, <1>2, <1>3, <1>4 DEF Environment

LEMMA RunRefines ==
    ASSUME TypeOK, HistoryAgrees, NEW e \in Exec,
           AcquireLock(e) \/ RunStep(e) \/ RunCrash(e)
    PROVE  Contract!Next
<1>1. UNCHANGED <<published, stored, subs, confirmed, failures>>
  BY DEF AcquireLock, RunStep, CountInProgress, SelectIds, MarkInProgress, StartTasks,
     ReleaseLock, RunCrash, data, ghosts
<1>2. DOMAIN table' \subseteq DOMAIN table
  BY DEF AcquireLock, RunStep, CountInProgress, SelectIds, MarkInProgress, StartTasks,
     ReleaseLock, RunCrash, Remove
<1>3. \A r \in Lost : failures[r] > LeastRetries
  BY RunLoses
<1>4. DOMAIN table' = DOMAIN table \ Lost /\ Lost \in SUBSET Row
  BY <1>2 DEF Lost, TypeOK
<1>5. Contract!GiveUp(Lost)
  BY <1>1, <1>3, <1>4, GoneStays DEF Contract!GiveUp
<1> QED
  BY <1>4, <1>5 DEF Contract!Next

LEMMA TaskRefines ==
    ASSUME TypeOK, HistoryAgrees, NEW w \in Worker, TaskStep(w) \/ TaskCrash(w)
    PROVE  Contract!Next \/ UNCHANGED Contract!vars
<1> DEFINE r == task[w].row
<1>1. UNCHANGED Gone
  BY GoneStays DEF TaskStep, DeliverMessage, DeliverCloudEvent, Answer, Succeed, Fail, TaskCrash, data
<1>2. r \in Row
  BY DEF TaskStep, DeliverMessage, DeliverCloudEvent, Answer, Succeed, Fail, TaskCrash, NoTask, TypeOK, TaskRecord
<1>3. CASE Answer(w)
  <2>1. CASE confirmed' = [confirmed EXCEPT ![r] = TRUE]
    <3>1. Contract!Confirm(r)
      BY <1>1, <1>3, <2>1 DEF Answer, Contract!Confirm
    <3> QED
      BY <1>2, <3>1 DEF Contract!Next
  <2>2. CASE UNCHANGED confirmed
    BY <1>1, <1>3, <2>2 DEF Answer, Contract!vars
  <2> QED
    BY <1>3, <2>1, <2>2 DEF Answer
<1>4. CASE Succeed(w)
  <2>1. confirmed[r]
    BY <1>4 DEF Succeed, NoTask, HistoryAgrees
  <2>2. DOMAIN table' = DOMAIN table \ {r} /\ UNCHANGED <<confirmed, failures>>
    BY <1>4 DEF Succeed, Remove, ghosts
  <2>3. Contract!Settle(r)
    BY <1>1, <2>1, <2>2 DEF Contract!Settle
  <2> QED
    BY <1>2, <2>3 DEF Contract!Next
<1>5. CASE Fail(w)
  <2>1. /\ failures' = [failures EXCEPT ![r] = IF @ < FailCap THEN @ + 1 ELSE @]
        /\ UNCHANGED confirmed
    BY <1>5 DEF Fail
  <2>2. Lost = {} \/ (Lost = {r} /\ failures'[r] > LeastRetries)
    BY <1>5, FailLoses
  <2>3. DOMAIN table' = DOMAIN table \ Lost
    BY <1>5 DEF Fail, Remove, Lost
  <2>4. \/ DOMAIN table' = DOMAIN table
        \/ failures'[r] > LeastRetries /\ DOMAIN table' = DOMAIN table \ {r}
    BY <2>2, <2>3
  <2>5. Contract!FailAttempt(r)
    BY <1>1, <2>1, <2>4 DEF Contract!FailAttempt
  <2> QED
    BY <1>2, <2>5 DEF Contract!Next
<1>6. CASE TaskCrash(w)
  BY <1>1, <1>6 DEF TaskCrash, Contract!vars
<1> QED
  BY <1>3, <1>4, <1>5, <1>6 DEF TaskStep, DeliverMessage, DeliverCloudEvent

\* The engine implements the delivery contract for any number of messages,
\* subscribers, threads and crashes and for all timings: each of its steps is a
\* step of the contract or invisible to it.
THEOREM ContractImplemented == Spec => ContractSpec
<1>1. Init => Contract!Init
  <2>1. Init => Gone = {}
    BY SubOfRow DEF Init, Gone
  <2> QED
    BY <2>1 DEF Init, Contract!Init
<1>2. TypeOK /\ HistoryAgrees /\ Provenance /\ [Next]_vars => [Contract!Next]_Contract!vars
  <2>1. ASSUME TypeOK, HistoryAgrees, Provenance, Next
        PROVE  Contract!Next \/ UNCHANGED Contract!vars
    <3>1. CASE \E e \in Exec : AcquireLock(e) \/ RunStep(e) \/ RunCrash(e)
      BY <2>1, <3>1, RunRefines
    <3>2. CASE \E w \in Worker : TaskStep(w) \/ TaskCrash(w)
      BY <2>1, <3>2, TaskRefines
    <3>3. CASE Environment
      BY <2>1, <3>3, EnvironmentRefines
    <3>4. CASE \/ \E w \in Worker, r \in Row : TakeTask(w, r)
               \/ \E r \in Row : LoseMessage(r)
               \/ Tick
      <4>1. DOMAIN table' = DOMAIN table
        BY <3>4 DEF TakeTask, TaskAborts, StartTask, LoseMessage, Tick
      <4>2. UNCHANGED <<published, stored, subs, confirmed, failures>>
        BY <3>4 DEF TakeTask, TaskAborts, StartTask, LoseMessage, Tick, data, ghosts
      <4> QED
        BY <4>1, <4>2, GoneStays DEF Contract!vars
    <3> QED
      BY <2>1, <3>1, <3>2, <3>3, <3>4 DEF Next, Breakdown
  <2>2. UNCHANGED vars => UNCHANGED Contract!vars
    BY GoneStays DEF vars, data, ghosts, Contract!vars
  <2> QED
    BY <2>1, <2>2
<1> QED
  BY <1>1, <1>2, TypeCorrect, HistoryCorrect, ProvenanceCorrect, PTL
     DEF Spec, ContractSpec, Contract!Spec

--------------------------------------------------------------------------------
(* The cache lock, in a deployment whose runs end before it expires.           *)

\* A run that goes on has used up no more of the lock's timeout than its age.
RunsHoldLock ==
    /\ \A e, f \in Exec : Running(e) /\ Running(f) => e = f
    /\ \A e \in Exec : Running(e) => lock + run[e].age >= LockTimeout

\* Steps in which one run goes on or ends, and the lock is kept.
LEMMA LockKept ==
    ASSUME TypeOK, RunsHoldLock, NEW e \in Exec, Running(e), UNCHANGED lock,
           \A f \in Exec \ {e} : run'[f] = run[f],
           run'[e].age = run[e].age \/ run'[e] = NoRun
    PROVE  RunsHoldLock'
<1>1. \A f \in Exec : Running(f)' => f = e /\ run'[f].age = run[f].age
  BY DEF RunsHoldLock, Running, NoRun
<1> QED
  BY <1>1 DEF RunsHoldLock

LEMMA RunHoldsLock ==
    ASSUME MaxRun < LockTimeout, TypeOK, RunsHoldLock, NEW e \in Exec,
           AcquireLock(e) \/ RunStep(e) \/ RunCrash(e)
    PROVE  RunsHoldLock'
<1>1. CASE AcquireLock(e)
  <2>1. \A f \in Exec : run[f].age \in 0..MaxRun
    BY DEF TypeOK, RunRecord
  <2>2. \A f \in Exec : ~Running(f)
    BY <1>1, <2>1, ConstantsAssumption DEF AcquireLock, LockIsFree, RunsHoldLock
  <2>3. /\ lock' = LockTimeout /\ run'[e].age = 0
        /\ \A f \in Exec \ {e} : run'[f] = run[f]
    BY <1>1 DEF AcquireLock, NoRun, TypeOK
  <2>4. \A f \in Exec : Running(f)' => f = e
    BY <2>2, <2>3 DEF Running
  <2> QED
    BY <2>3, <2>4, ConstantsAssumption DEF RunsHoldLock
<1>2. CASE ReleaseLock(e)
  <2>1. Running(e) /\ run' = [run EXCEPT ![e] = NoRun]
    BY <1>2 DEF ReleaseLock, Running
  <2>2. \A f \in Exec : ~Running(f)'
    BY <2>1 DEF RunsHoldLock, Running, NoRun, TypeOK
  <2> QED
    BY <2>2 DEF RunsHoldLock
<1>3. CASE CountInProgress(e) \/ SelectIds(e) \/ MarkInProgress(e) \/ StartTasks(e) \/ RunCrash(e)
  <2>1. Running(e) /\ UNCHANGED lock
    BY <1>3 DEF CountInProgress, SelectIds, MarkInProgress, StartTasks, RunCrash, Running
  <2>2. \A f \in Exec \ {e} : run'[f] = run[f]
    BY <1>3 DEF CountInProgress, SelectIds, MarkInProgress, StartTasks, RunCrash, TypeOK
  <2>3. run'[e].age = run[e].age \/ run'[e] = NoRun
    <3>1. run \in [Exec -> RunRecord]
      BY DEF TypeOK
    <3>2. CASE RunCrash(e)
      BY <3>1, <3>2 DEF RunCrash
    <3>3. CASE CountInProgress(e)
      BY <3>1, <3>3 DEF CountInProgress, RunRecord
    <3>4. CASE SelectIds(e)
      BY <3>1, <3>4 DEF SelectIds, RunRecord
    <3>5. CASE MarkInProgress(e) \/ StartTasks(e)
      BY <3>1, <3>5 DEF MarkInProgress, StartTasks, RunRecord
    <3> QED
      BY <1>3, <3>2, <3>3, <3>4, <3>5
  <2> QED
    BY <2>1, <2>2, <2>3, LockKept
<1> QED
  BY <1>1, <1>2, <1>3 DEF RunStep

LEMMA TickHoldsLock ==
    ASSUME MaxRun < LockTimeout, TypeOK, RunsHoldLock, Tick
    PROVE  RunsHoldLock'
<1>1. run' = [e \in Exec |-> IF ~Running(e) THEN run[e] ELSE Aged(run[e])]
  BY DEF Tick
<1>2. ASSUME NEW e \in Exec, Running(e)
      PROVE  run'[e].age = run[e].age + 1
  BY <1>1, <1>2 DEF Aged, TypeOK, RunRecord
<1>3. \A e \in Exec : Running(e)' => Running(e)
  BY <1>1 DEF Running
<1>4. ASSUME NEW e \in Exec, Running(e)
      PROVE  lock' + run'[e].age >= LockTimeout
  <2>1. run[e].age \in 0..MaxRun /\ lock \in 0..LockTimeout
    BY DEF TypeOK, RunRecord
  <2>2. lock + run[e].age >= LockTimeout
    BY <1>4 DEF RunsHoldLock
  <2>3. lock' = lock - 1
    BY <2>1, <2>2, ConstantsAssumption DEF Tick
  <2> QED
    BY <1>2, <1>4, <2>1, <2>2, <2>3, ConstantsAssumption
<1> QED
  BY <1>3, <1>4 DEF RunsHoldLock

\* While runs end before the lock expires, they hold it.
LEMMA LocksHeld ==
    ASSUME MaxRun < LockTimeout
    PROVE  Spec => []RunsHoldLock
<1>1. Init => RunsHoldLock
  BY DEF Init, RunsHoldLock, Running, NoRun
<1>2. TypeOK /\ RunsHoldLock /\ [Next]_vars => RunsHoldLock'
  <2>1. ASSUME TypeOK, RunsHoldLock, Next PROVE RunsHoldLock'
    <3>1. CASE \E e \in Exec : AcquireLock(e) \/ RunStep(e) \/ RunCrash(e)
      BY <2>1, <3>1, RunHoldsLock
    <3>2. CASE Tick
      BY <2>1, <3>2, TickHoldsLock
    <3>3. CASE UNCHANGED <<run, lock>>
      BY <2>1, <3>3 DEF RunsHoldLock, Running
    <3> QED
      BY <2>1, <3>1, <3>2, <3>3 DEF Next, Breakdown, Environment, TaskStep, DeliverMessage, DeliverCloudEvent, Answer,
         Succeed, Fail, TakeTask, TaskAborts, StartTask, TaskCrash, LoseMessage,
         ScheduleNotification, ScheduleCloudEvent, Publish, DeleteParent, DeleteSub,
         UpdateSub, Configure
  <2>2. RunsHoldLock /\ UNCHANGED vars => RunsHoldLock'
    BY DEF RunsHoldLock, Running, vars
  <2> QED
    BY <2>1, <2>2
<1> QED
  BY <1>1, <1>2, TypeCorrect, PTL DEF Spec

\* While runs end before NOTIFICATION_SEC_INTERVAL - 1 seconds are over, two
\* runs never overlap and a run still holds the lock it works under
\* (tasks.py:340-344, 416), also when others crash and leave theirs behind.
THEOREM RunsExcludeEachOther ==
    ASSUME MaxRun < LockTimeout
    PROVE  Spec => []RunsExclusive
<1>1. TypeOK /\ RunsHoldLock => RunsExclusive
  BY ConstantsAssumption DEF TypeOK, RunRecord, RunsHoldLock, RunsExclusive
<1> QED
  BY <1>1, TypeCorrect, LocksHeld, PTL
================================================================================
