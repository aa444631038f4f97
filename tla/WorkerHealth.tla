------------------------------ MODULE WorkerHealth ------------------------------
(***************************************************************************)
(* The files by which a Celery worker says that it is ready and alive      *)
(* (celery.py), the script that reads them (check_celery_worker_liveness),  *)
(* and an orchestrator that runs the script periodically, terminates the   *)
(* worker after some failures and starts it again.                         *)
(*                                                                         *)
(* Time passes in ticks of ten seconds, the interval of the heartbeat.     *)
(* Celery runs the timer in its event loop: not before the consumer has    *)
(* reached the broker, nor while it tries to reach it again.               *)
(***************************************************************************)
EXTENDS Integers

CONSTANTS
    MaxDelta,   \* MAX_WORKER_LIVENESS_DELTA
    Delay,      \* initialDelaySeconds of the probe
    Period,     \* periodSeconds
    Threshold,  \* consecutive failures after which the worker is terminated
    Grace,      \* how long it may take to stop before it is killed
    MaxBoot,    \* the longest time until the worker connects to the broker
    MaxRetry,   \* the longest time between two attempts at the broker
    MaxFaults   \* bound: workers that hang, are killed or redeployed, outages of the broker

Beat == 1
NoFile == -1
Horizon == MaxDelta + Period + Grace + 1      \* ages are not told apart beyond it

ASSUME WorkerAssumption ==
    /\ {MaxDelta, Period, Threshold} \subseteq Nat \ {0}
    /\ {Delay, Grace, MaxBoot, MaxRetry, MaxFaults} \subseteq Nat
    /\ Beat < MaxDelta /\ Period < MaxDelta
    /\ MaxBoot + Beat <= Delay + (Threshold - 1) * Period

VARIABLES
    worker,     \* "booting", "connecting", "running" its loop, "hung", "stopping" or "gone"
    readiness,  \* whether the readiness file exists
    heartbeat,  \* the age of the heartbeat file, or NoFile
    announced,  \* whether worker_ready was sent: once in a process
    timer,      \* ticks until the next heartbeat is due
    retry,      \* ticks until the next attempt at the broker
    up,         \* ticks since the container was started
    probe,      \* ticks until the next probe
    failures,   \* consecutive ones
    verdict,    \* of the last probe of this container
    terminating,\* ticks since SIGTERM, or NoFile
    broker,     \* whether it can be reached
    faults,     \* how many there were
    loop,       \* history: ticks that the loop has been running for without a break
    silence,    \* history: ticks since a loop was last running, in this container or an earlier one
    own,        \* history: whether this process has become ready and written a heartbeat
    clean       \* history: whether no files were left by the last one

files == <<readiness, heartbeat>>
process == <<worker, announced, timer, retry>>
orchestrator == <<up, probe, failures, verdict, terminating>>
world == <<broker, faults>>
history == <<loop, silence, own, clean>>
vars == <<files, process, orchestrator, world, history>>
-----------------------------------------------------------------------------
Least(a, b) == IF a < b THEN a ELSE b
Less(n) == IF n = 0 THEN 0 ELSE n - 1
Alive == worker # "gone"

TypeOK ==
    /\ worker \in {"booting", "connecting", "running", "hung", "stopping", "gone"}
    /\ readiness \in BOOLEAN /\ heartbeat \in {NoFile} \cup 0..Horizon
    /\ announced \in BOOLEAN /\ timer \in 0..Beat /\ retry \in 0..MaxRetry
    /\ up \in 0..MaxBoot + 1 /\ probe \in 0..Delay + Period
    /\ failures \in 0..Threshold /\ verdict \in {"none", "ok", "failed"}
    /\ terminating \in {NoFile} \cup 0..Grace
    /\ broker \in BOOLEAN /\ faults \in 0..MaxFaults
    /\ loop \in 0..Beat + 1 /\ silence \in 0..Horizon
    /\ own \in BOOLEAN /\ clean \in BOOLEAN
    /\ own => announced
    /\ worker = "gone" /\ clean => ~readiness /\ heartbeat = NoFile

Init ==
    /\ worker = "booting" /\ readiness = FALSE /\ heartbeat = NoFile
    /\ announced = FALSE /\ timer = Beat /\ retry = 0
    /\ up = 0 /\ probe = Delay /\ failures = 0 /\ verdict = "none" /\ terminating = NoFile
    /\ broker \in BOOLEAN /\ faults = 0
    /\ loop = 0 /\ silence = 0 /\ own = FALSE /\ clean = TRUE
-----------------------------------------------------------------------------
(* The worker.                                                               *)

\* The scripts are through and Celery starts its steps: LivenessProbe.start registers
\* the timer.
StartSteps ==
    /\ worker = "booting"
    /\ worker' = "connecting" /\ timer' = Beat /\ retry' = 0
    /\ UNCHANGED <<files, announced, orchestrator, world, history>>

\* The consumer reaches the broker, its loop begins; worker_ready the first time.
Connect ==
    /\ worker = "connecting" /\ retry = 0
    /\ IF broker
         THEN worker' = "running" /\ readiness' = (readiness \/ ~announced) /\ announced' = TRUE
              /\ silence' = 0 /\ UNCHANGED retry
         ELSE retry' \in 1..MaxRetry /\ UNCHANGED <<worker, readiness, announced, silence>>
    /\ UNCHANGED <<heartbeat, timer, orchestrator, world, loop, own, clean>>

\* The loop is left when the connection breaks, now or when the consumer notices.
Disconnect ==
    /\ worker = "running" /\ ~broker
    /\ worker' = "connecting" /\ retry' = 0 /\ loop' = 0
    /\ UNCHANGED <<files, announced, timer, orchestrator, world, silence, own, clean>>

UpdateHeartbeatFile_IfMissing ==        \* mutant: an existing file is left alone
    /\ worker = "running" /\ timer = 0
    /\ heartbeat' = IF heartbeat = NoFile THEN 0 ELSE heartbeat
    /\ timer' = Beat /\ own' = TRUE
    /\ UNCHANGED <<readiness, worker, announced, retry, orchestrator, world, loop, silence, clean>>
UpdateHeartbeatFile_Thread ==           \* mutant: in a thread instead of the loop
    /\ worker \in {"running", "hung"} /\ timer = 0
    /\ heartbeat' = 0
    /\ timer' = Beat /\ own' = announced
    /\ UNCHANGED <<readiness, worker, announced, retry, orchestrator, world, loop, silence, clean>>
UpdateHeartbeatFile_Once ==             \* mutant: call_after instead of call_repeatedly
    /\ worker = "running" /\ timer = 0
    /\ heartbeat' = IF own THEN heartbeat ELSE 0
    /\ timer' = Beat /\ own' = TRUE
    /\ UNCHANGED <<readiness, worker, announced, retry, orchestrator, world, loop, silence, clean>>
UpdateHeartbeatFile ==
    /\ worker = "running" /\ timer = 0
    /\ heartbeat' = 0 /\ timer' = Beat /\ own' = TRUE
    /\ UNCHANGED <<readiness, worker, announced, retry, orchestrator, world, loop, silence, clean>>

\* SIGTERM: the steps are stopped one after the other; a worker that hangs does not
\* hear it, the shell that boots leaves what it has found.
Stop ==
    /\ terminating # NoFile /\ worker \in {"booting", "connecting", "running"}
    /\ worker' = IF worker = "booting" THEN "gone" ELSE "stopping"
    /\ heartbeat' = IF worker = "booting" THEN heartbeat ELSE NoFile
    /\ loop' = 0
    /\ UNCHANGED <<readiness, announced, timer, retry, orchestrator, world, silence, own, clean>>

\* After the last step: worker_shutdown.
WorkerShutdown_Keeps ==                 \* mutant: the readiness file stays
    /\ worker = "stopping"
    /\ worker' = "gone" /\ clean' = TRUE
    /\ UNCHANGED <<files, announced, timer, retry, orchestrator, world, loop, silence, own>>
WorkerShutdown ==
    /\ worker = "stopping"
    /\ worker' = "gone" /\ readiness' = FALSE /\ clean' = TRUE
    /\ UNCHANGED <<heartbeat, announced, timer, retry, orchestrator, world, loop, silence, own>>
-----------------------------------------------------------------------------
(* The orchestrator.                                                         *)

Healthy_Ready == readiness              \* mutant: without the heartbeat
Healthy == readiness /\ heartbeat # NoFile /\ heartbeat <= MaxDelta

\* The script runs; after too many failures in a row the worker is sent SIGTERM.
Probe ==
    /\ Alive /\ terminating = NoFile /\ probe = 0
    /\ probe' = Period
    /\ IF Healthy
         THEN verdict' = "ok" /\ failures' = 0 /\ UNCHANGED terminating
         ELSE /\ verdict' = "failed" /\ failures' = failures + 1
              /\ terminating' = IF failures + 1 = Threshold THEN 0 ELSE NoFile
    /\ UNCHANGED <<files, process, up, world, history>>

Die ==
    /\ worker' = "gone" /\ clean' = FALSE /\ loop' = 0
    /\ UNCHANGED <<files, announced, timer, retry, orchestrator, broker, silence, own>>
\* SIGKILL, when the grace period is over.
Kill == /\ Alive /\ terminating = Grace
        /\ Die /\ UNCHANGED faults

\* The container is started again, or a new one with a file system of its own.
StartContainer ==
    /\ worker = "gone"
    /\ worker' = "booting" /\ announced' = FALSE /\ own' = FALSE /\ loop' = 0
    /\ timer' = Beat /\ retry' = 0
    /\ up' = 0 /\ probe' = Delay /\ failures' = 0 /\ verdict' = "none" /\ terminating' = NoFile
    /\ \/ UNCHANGED <<files, clean>>
       \/ readiness' = FALSE /\ heartbeat' = NoFile /\ clean' = TRUE
    /\ UNCHANGED <<world, silence>>
-----------------------------------------------------------------------------
(* Everybody else.                                                           *)

Fault == faults < MaxFaults /\ faults' = faults + 1

\* The loop, or the shell, is stuck for good.
Hang ==
    /\ worker \in {"booting", "connecting", "running"} /\ Fault
    /\ worker' = "hung" /\ loop' = 0
    /\ UNCHANGED <<files, announced, timer, retry, orchestrator, broker, silence, own, clean>>

Crash == Alive /\ Fault /\ Die

Redeploy ==
    /\ Alive /\ terminating = NoFile /\ Fault
    /\ terminating' = 0
    /\ UNCHANGED <<files, process, up, probe, failures, verdict, broker, history>>

\* An outage of the broker begins, or ends.
Outage ==
    /\ broker' = ~broker /\ IF broker THEN Fault ELSE UNCHANGED faults
    /\ UNCHANGED <<files, process, orchestrator, history>>

\* Nothing that is due is late: the loop is in time, the probe is, and so is the kill.
Tick ==
    /\ Alive /\ terminating # Grace /\ (terminating = NoFile => probe # 0)
    /\ worker = "booting" => up # MaxBoot
    /\ worker = "connecting" => retry # 0
    /\ worker = "running" => timer # 0
    /\ heartbeat' = IF heartbeat = NoFile THEN NoFile ELSE Least(heartbeat + 1, Horizon)
    /\ timer' = Less(timer) /\ retry' = Less(retry)
    /\ up' = Least(up + 1, MaxBoot + 1) /\ probe' = Less(probe)
    /\ terminating' = IF terminating = NoFile THEN NoFile ELSE terminating + 1
    /\ loop' = IF worker = "running" THEN Least(loop + 1, Beat + 1) ELSE 0
    /\ silence' = IF worker = "running" THEN 0 ELSE Least(silence + 1, Horizon)
    /\ UNCHANGED <<readiness, worker, announced, failures, verdict, world, own, clean>>
-----------------------------------------------------------------------------
WorkerStep == StartSteps \/ Connect \/ Disconnect \/ UpdateHeartbeatFile \/ Stop \/ WorkerShutdown
OrchestratorStep == Probe \/ Kill \/ StartContainer

Next == WorkerStep \/ OrchestratorStep \/ Tick
        \/ Hang \/ Crash \/ Redeploy \/ Outage

Spec == Init /\ [][Next]_vars

\* Time passes, and what is due by then has happened.
FairSpec == Spec /\ WF_vars(Tick) /\ WF_vars(OrchestratorStep)
            /\ WF_vars(StartSteps) /\ WF_vars(Connect) /\ WF_vars(UpdateHeartbeatFile)
            /\ WF_vars(Stop) /\ WF_vars(WorkerShutdown)
-----------------------------------------------------------------------------
(* Properties.                                                               *)

\* The orchestrator gives up only a worker whose loop stands still, or has just begun
\* to run: one that works is never terminated by the probe, whatever files a killed
\* predecessor has left (celery.py:126, check_celery_worker_liveness.py:51).
OnlyStandstillTerminated ==
    [][failures' = Threshold /\ failures # Threshold => loop <= Beat]_vars

\* A probe believes files that a killed worker has left, or those of one that has hung,
\* for no longer than MAX_WORKER_LIVENESS_DELTA and the time until the next probe.
\* Unless the last worker was killed, a container is reported healthy only after its
\* own worker has become ready and has written a heartbeat: what the last one has
\* stopped with does not count (LivenessProbe.stop, worker_shutdown).
BelievedBriefly ==
    verdict = "ok" =>
       /\ terminating = NoFile => silence <= MaxDelta + Period
       /\ Alive /\ clean => own

\* A worker that hangs is replaced, also when its predecessor's files are there.
HungReplaced == worker = "hung" ~> worker = "gone"

\* When the broker stays reachable, and workers do not hang or crash any more, there is
\* a worker in the end that runs for ever: containers do not restart in circles, which
\* takes that a boot is shorter than the probe's patience (WorkerAssumption).
StaysUp == <>[]broker => <>[](worker = "running")
=============================================================================
