--------------------------- MODULE WorkerHealthProof ---------------------------
(***************************************************************************)
(* Theorems about WorkerHealth, for every interval, patience and number of *)
(* faults that WorkerAssumption admits.                                    *)
(***************************************************************************)
EXTENDS WorkerHealth, TLAPS

\* TypeOK in two parts: an SMT solver is for the numbers.
Booleans ==
    /\ readiness \in BOOLEAN /\ announced \in BOOLEAN /\ broker \in BOOLEAN
    /\ own \in BOOLEAN /\ clean \in BOOLEAN
    /\ own => announced
    /\ worker = "gone" /\ clean => ~readiness /\ heartbeat = NoFile

Numbers ==
    /\ worker \in {"booting", "connecting", "running", "hung", "stopping", "gone"}
    /\ heartbeat \in {NoFile} \cup 0..Horizon
    /\ timer \in 0..Beat /\ retry \in 0..MaxRetry
    /\ up \in 0..MaxBoot + 1 /\ probe \in 0..Delay + Period
    /\ failures \in 0..Threshold /\ verdict \in {"none", "ok", "failed"}
    /\ terminating \in {NoFile} \cup 0..Grace
    /\ faults \in 0..MaxFaults
    /\ loop \in 0..Beat + 1 /\ silence \in 0..Horizon

\* The files are those of this process, of one that was killed, or not there.
FilesInv ==
    /\ worker = "running" => announced
    /\ announced /\ Alive => readiness
    /\ worker = "stopping" => heartbeat = NoFile
    /\ clean /\ worker \in {"booting", "gone"} => ~readiness /\ heartbeat = NoFile
    /\ clean /\ Alive /\ ~own => heartbeat = NoFile

\* The heartbeat file is at least as old as the silence, and the verdict of a probe
\* loses its force before the next one.
SilenceInv ==
    /\ worker = "running" => silence = 0
    /\ heartbeat # NoFile => silence <= heartbeat
    /\ verdict = "ok" /\ terminating = NoFile => silence + probe <= MaxDelta + Period

\* A loop has written the file within an interval, or has not run for one.
LoopInv ==
    /\ worker # "running" => loop = 0
    /\ worker = "running" => \/ heartbeat # NoFile /\ heartbeat + timer <= Beat
                             \/ loop + timer <= Beat
    /\ terminating = NoFile => failures < Threshold

\* A probe passes by files of this process, or of one that was killed.
CreditInv == Alive /\ verdict = "ok" /\ clean => own

HealthInv == TypeOK /\ FilesInv /\ SilenceInv /\ LoopInv /\ CreditInv

\* The two parts are the type invariant.
LEMMA TypeParts == TypeOK <=> Booleans /\ Numbers
BY DEF TypeOK, Booleans, Numbers

\* What WorkerAssumption says of the intervals the code and the charts configure.
LEMMA ConstantsAreNumbers ==
    /\ MaxDelta \in Nat /\ Delay \in Nat /\ Period \in Nat /\ Threshold \in Nat /\ Grace \in Nat
    /\ MaxBoot \in Nat /\ MaxRetry \in Nat /\ MaxFaults \in Nat
    /\ MaxDelta > 0 /\ Period > 0 /\ Threshold > 0 /\ Beat < MaxDelta
    /\ Horizon = MaxDelta + Period + Grace + 1 /\ Horizon \in Nat /\ Beat = 1 /\ NoFile = -1
BY WorkerAssumption DEF Beat, Horizon, NoFile

\* The first boot of a fresh container satisfies the invariant.
LEMMA InitHealthy == Init => HealthInv
<1> SUFFICES ASSUME Init PROVE HealthInv
    OBVIOUS
<1> USE ConstantsAreNumbers DEF Init
<1>1. Booleans
    BY DEF Booleans
<1>2. Numbers
    BY SMT DEF Numbers
<1>3. FilesInv
    BY SMT DEF FilesInv, Alive
<1>4. SilenceInv
    BY SMT DEF SilenceInv
<1>5. LoopInv
    BY SMT DEF LoopInv
<1>6. CreditInv
    BY SMT DEF CreditInv
<1>. QED
    BY <1>1, <1>2, <1>3, <1>4, <1>5, <1>6, TypeParts DEF HealthInv

\* Every step of the worker, the orchestrator, the clock and of a fault preserves it.
LEMMA StepHealthy == HealthInv /\ [Next]_vars => HealthInv'
<1> SUFFICES ASSUME HealthInv, [Next]_vars PROVE HealthInv'
    OBVIOUS
<1> USE ConstantsAreNumbers
    DEF HealthInv, Alive, files, process, orchestrator, world, history
<1>1. CASE StartSteps
    BY <1>1, SMT
    DEF TypeOK, FilesInv, SilenceInv, LoopInv, CreditInv, StartSteps
<1>2. CASE Connect
  <2>1. Booleans'
      BY <1>2, TypeParts DEF Booleans, FilesInv, Connect
  <2>2. Numbers'
      BY <1>2, TypeParts, SMT DEF Numbers, Connect
  <2>3. FilesInv'
      BY <1>2, TypeParts DEF Booleans, FilesInv, Connect
  <2>4. SilenceInv'
      BY <1>2, TypeParts, SMT DEF Numbers, SilenceInv, Connect
  <2>5. LoopInv'
      BY <1>2, TypeParts, SMT DEF Numbers, LoopInv, Connect
  <2>6. CreditInv'
      BY <1>2, TypeParts DEF Booleans, FilesInv, CreditInv, Connect
  <2>7. TypeOK'
      BY <2>1, <2>2 DEF TypeOK, Booleans, Numbers
  <2>. QED
      BY <2>3, <2>4, <2>5, <2>6, <2>7
<1>3. CASE Disconnect
    BY <1>3, SMT
    DEF TypeOK, FilesInv, SilenceInv, LoopInv, CreditInv, Disconnect
<1>4. CASE UpdateHeartbeatFile
    BY <1>4, SMT
    DEF TypeOK, FilesInv, SilenceInv, LoopInv, CreditInv, UpdateHeartbeatFile
<1>5. CASE Stop
    BY <1>5, SMT DEF TypeOK, FilesInv, SilenceInv, LoopInv, CreditInv, Stop
<1>6. CASE WorkerShutdown
  <2>1. Booleans'
      BY <1>6, TypeParts DEF Booleans, FilesInv, WorkerShutdown
  <2>2. Numbers'
      BY <1>6, TypeParts, SMT DEF Numbers, WorkerShutdown
  <2>3. FilesInv'
      BY <1>6, TypeParts DEF Booleans, FilesInv, WorkerShutdown
  <2>4. SilenceInv'
      BY <1>6, TypeParts, SMT DEF Numbers, SilenceInv, WorkerShutdown
  <2>5. LoopInv'
      BY <1>6, TypeParts, SMT DEF Numbers, LoopInv, WorkerShutdown
  <2>6. CreditInv'
      BY <1>6, TypeParts DEF Booleans, FilesInv, CreditInv, WorkerShutdown
  <2>7. TypeOK'
      BY <2>1, <2>2 DEF TypeOK, Booleans, Numbers
  <2>. QED
      BY <2>3, <2>4, <2>5, <2>6, <2>7
<1>7. CASE Probe
    BY <1>7, SMT
    DEF TypeOK, FilesInv, SilenceInv, LoopInv, CreditInv, Probe, Healthy
<1>8. CASE Kill
  <2>1. Booleans'
      BY <1>8, TypeParts DEF Booleans, FilesInv, Kill, Die
  <2>2. Numbers'
      BY <1>8, TypeParts, SMT DEF Numbers, Kill, Die
  <2>3. FilesInv'
      BY <1>8, TypeParts DEF Booleans, FilesInv, Kill, Die
  <2>4. SilenceInv'
      BY <1>8, TypeParts, SMT DEF Numbers, SilenceInv, Kill, Die
  <2>5. LoopInv'
      BY <1>8, TypeParts, SMT DEF Numbers, LoopInv, Kill, Die
  <2>6. CreditInv'
      BY <1>8, TypeParts DEF Booleans, FilesInv, CreditInv, Kill, Die
  <2>7. TypeOK'
      BY <2>1, <2>2 DEF TypeOK, Booleans, Numbers
  <2>. QED
      BY <2>3, <2>4, <2>5, <2>6, <2>7
<1>9. CASE StartContainer
  <2>1. Booleans'
      BY <1>9, TypeParts DEF Booleans, FilesInv, StartContainer
  <2>2. Numbers'
      BY <1>9, TypeParts, SMT DEF Numbers, StartContainer
  <2>3. FilesInv'
      BY <1>9, TypeParts DEF Booleans, FilesInv, StartContainer
  <2>4. SilenceInv'
      BY <1>9, TypeParts, SMT DEF Numbers, SilenceInv, StartContainer
  <2>5. LoopInv'
      BY <1>9, TypeParts, SMT DEF Numbers, LoopInv, StartContainer
  <2>6. CreditInv'
      BY <1>9, TypeParts DEF Booleans, FilesInv, CreditInv, StartContainer
  <2>7. TypeOK'
      BY <2>1, <2>2 DEF TypeOK, Booleans, Numbers
  <2>. QED
      BY <2>3, <2>4, <2>5, <2>6, <2>7
<1>10. CASE Tick
    BY <1>10, SMT
    DEF TypeOK, FilesInv, SilenceInv, LoopInv, CreditInv, Tick, Least, Less
<1>11. CASE Hang
    BY <1>11, SMT
    DEF TypeOK, FilesInv, SilenceInv, LoopInv, CreditInv, Hang, Fault
<1>12. CASE Crash
  <2>1. Booleans'
      BY <1>12, TypeParts DEF Booleans, FilesInv, Crash, Die, Fault
  <2>2. Numbers'
      BY <1>12, TypeParts, SMT DEF Numbers, Crash, Die, Fault
  <2>3. FilesInv'
      BY <1>12, TypeParts DEF Booleans, FilesInv, Crash, Die, Fault
  <2>4. SilenceInv'
      BY <1>12, TypeParts, SMT DEF Numbers, SilenceInv, Crash, Die, Fault
  <2>5. LoopInv'
      BY <1>12, TypeParts, SMT DEF Numbers, LoopInv, Crash, Die, Fault
  <2>6. CreditInv'
      BY <1>12, TypeParts
      DEF Booleans, FilesInv, CreditInv, Crash, Die, Fault
  <2>7. TypeOK'
      BY <2>1, <2>2 DEF TypeOK, Booleans, Numbers
  <2>. QED
      BY <2>3, <2>4, <2>5, <2>6, <2>7
<1>13. CASE Redeploy
    BY <1>13, SMT
    DEF TypeOK, FilesInv, SilenceInv, LoopInv, CreditInv, Redeploy, Fault
<1>14. CASE Outage
    BY <1>14, SMT
    DEF TypeOK, FilesInv, SilenceInv, LoopInv, CreditInv, Outage, Fault
<1>15. CASE UNCHANGED vars
    BY <1>15, SMT DEF TypeOK, FilesInv, SilenceInv, LoopInv, CreditInv, vars
<1>. QED
    BY <1>1, <1>2, <1>3, <1>4, <1>5, <1>6, <1>7, <1>8,
       <1>9, <1>10, <1>11, <1>12, <1>13, <1>14, <1>15
    DEF Next, WorkerStep, OrchestratorStep

\* So it holds in every behaviour.
LEMMA AlwaysHealthy == Spec => []HealthInv
BY InitHealthy, StepHealthy, PTL DEF Spec

\* The type invariant of WorkerHealth: counters stay within their bounds, and no file
\* is left by a worker that stopped by itself (LivenessProbe.stop, worker_shutdown).
THEOREM HealthTypeCorrect == Spec => []TypeOK
BY AlwaysHealthy, PTL DEF HealthInv

\* However long the intervals are: a probe believes the files of a killed or hung
\* worker for no longer than MaxDelta and one period, and after a worker has stopped by
\* itself the next is healthy only for what it does itself.
THEOREM FilesBelievedBriefly == Spec => []BelievedBriefly
<1>1. HealthInv => BelievedBriefly
    BY ConstantsAreNumbers, SMT
    DEF HealthInv, TypeOK, SilenceInv, CreditInv, Alive, BelievedBriefly
<1>. QED
    BY <1>1, AlwaysHealthy, PTL

\* A worker whose loop has been running for longer than one interval of the heartbeat
\* is never terminated by the probe: its files pass (celery.py:126).
THEOREM WorkingWorkerKept == Spec => OnlyStandstillTerminated
<1>1. HealthInv /\ [Next]_vars
        => [failures' = Threshold /\ failures # Threshold => loop <= Beat]_vars
  <2> SUFFICES ASSUME HealthInv, [Next]_vars, failures' = Threshold, failures # Threshold
               PROVE  loop <= Beat
      OBVIOUS
  <2> USE ConstantsAreNumbers DEF HealthInv, TypeOK, FilesInv, LoopInv, Alive
  <2>1. CASE Probe
      BY <2>1, SMT DEF Probe, Healthy
  <2>2. CASE ~Probe
    <3>1. failures' = failures \/ failures' = 0
        BY <2>2 DEF Next, WorkerStep, OrchestratorStep, StartSteps, Connect, Disconnect, Stop,
           UpdateHeartbeatFile, WorkerShutdown, Kill, Die, StartContainer, Tick, Hang, Crash,
           Redeploy, Outage, vars, orchestrator
    <3>. QED
        BY <3>1, SMT
  <2>. QED
      BY <2>1, <2>2
<1>. QED
    BY <1>1, AlwaysHealthy, PTL DEF Spec, OnlyStandstillTerminated
=============================================================================
