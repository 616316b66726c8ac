---------------------------- MODULE WaveExecutor ----------------------------
(***************************************************************************)
(* The CLI's run: run_command of src/commands/run.rs and run_waves_quiet   *)
(* of src/execution.rs, with its tasks running concurrently and a Ctrl+C   *)
(* at any moment.  The waves are those of a WavePlan.                      *)
(***************************************************************************)
EXTENDS Naturals, Sequences, FiniteSets

CONSTANTS Task,    \* the names of the plan
          Plans,   \* the plans: [deps, waves], waves a sequence of sets of names
          Panics   \* whether a task's future may panic

\* What WavePlan builds: each name in one wave, after everything it depends on.
IsWavePlan(p) ==
    /\ p.waves \in Seq((SUBSET Task) \ {{}})
    /\ p.deps \in [Task -> SUBSET Task]
    /\ UNION {p.waves[k] : k \in DOMAIN p.waves} = Task
    /\ \A k \in DOMAIN p.waves : \A t \in p.waves[k] :
          /\ \A j \in DOMAIN p.waves : j # k => t \notin p.waves[j]
          /\ p.deps[t] \subseteq UNION {p.waves[j] : j \in 1 .. (k - 1)}

ASSUME WaveExecutorAssumption == /\ IsFiniteSet(Task) /\ Panics \in BOOLEAN
                                 /\ \A p \in Plans : IsWavePlan(p)

VARIABLES pc,          \* "wave", "join", "fixup" of run_waves_quiet; "returned" and then
                       \* "stopped" (the dashboard) and "reported" of run_command
          plan, wave,  \* the plan and the index of the next or current wave
          joinSet,     \* tasks of the wave not joined yet
          reported, waveFailed, allOk,   \* locals of run_waves_quiet
          shutdown,    \* the CancellationToken
          interrupted, \* run_command has seen Ctrl+C
          worker,      \* each task's future
          meta,        \* the status in <task>.meta.json
          dashboard,   \* "off", "watching" or "ended"
          summary      \* the statuses run_command prints

vars == <<pc, plan, wave, joinSet, reported, waveFailed, allOk, shutdown, interrupted, worker,
          meta, dashboard, summary>>
command == <<interrupted, dashboard, summary>>

Outcome  == {"done", "failed", "cancelled", "panicked"}
Terminal == {"done", "failed", "cancelled"}
Statuses == {"pending", "running"} \cup Terminal

TypeOK ==
    /\ pc \in {"wave", "join", "fixup", "returned", "stopped", "reported"}
    /\ plan \in Plans
    /\ wave \in 1 .. (Len(plan.waves) + 1)
    /\ joinSet \subseteq Task /\ reported \subseteq Task
    /\ {waveFailed, allOk, shutdown, interrupted} \subseteq BOOLEAN
    /\ worker \in [Task -> {"idle", "spawned", "started"} \cup Outcome]
    /\ meta \in [Task -> Statuses]
    /\ dashboard \in {"off", "watching", "ended"}
    /\ summary \in [Task -> Statuses \cup {"none"}]

\* run_command up to the select!: pending metas, the dashboard if asked for, the executor.
Init == /\ pc = "wave" /\ plan \in Plans /\ wave = 1
        /\ joinSet = {} /\ reported = {} /\ waveFailed = FALSE /\ allOk = TRUE
        /\ shutdown = FALSE /\ interrupted = FALSE
        /\ worker = [t \in Task |-> "idle"]
        /\ meta = [t \in Task |-> "pending"]
        /\ dashboard \in {"off", "watching"}
        /\ summary = [t \in Task |-> "none"]

Current == plan.waves[wave]

\* Mutant: only an interrupt skips the following waves.
MutSkipping == shutdown

Skipping == waveFailed \/ shutdown

SkipWave ==
    /\ pc = "wave" /\ wave <= Len(plan.waves) /\ Skipping
    /\ meta' = [t \in Task |-> IF t \in Current THEN "cancelled" ELSE meta[t]]
    /\ allOk' = FALSE
    /\ wave' = wave + 1
    /\ UNCHANGED <<pc, plan, joinSet, reported, waveFailed, shutdown, worker, command>>

StartWave ==
    /\ pc = "wave" /\ wave <= Len(plan.waves) /\ ~Skipping
    /\ joinSet' = Current
    /\ reported' = {}
    /\ worker' = [t \in Task |-> IF t \in Current THEN "spawned" ELSE worker[t]]
    /\ pc' = "join"
    /\ UNCHANGED <<plan, wave, waveFailed, allOk, shutdown, meta, command>>

\* Mutant: a cancelled task is no reason to report failure.
MutJoinOk(t) == worker[t] \notin {"failed", "panicked"}

JoinOk(t) == worker[t] = "done"

JoinNext ==
    /\ pc = "join"
    /\ \E t \in joinSet :
          /\ worker[t] \in Outcome
          /\ joinSet' = joinSet \ {t}
          /\ allOk' = (allOk /\ JoinOk(t))
          /\ waveFailed' = (waveFailed \/ worker[t] \in {"failed", "panicked"})
          /\ reported' = IF worker[t] = "panicked" THEN reported ELSE reported \cup {t}
    /\ UNCHANGED <<pc, plan, wave, shutdown, worker, meta, command>>

JoinDone == /\ pc = "join" /\ joinSet = {}
            /\ pc' = "fixup"
            /\ UNCHANGED <<plan, wave, joinSet, reported, waveFailed, allOk, shutdown, worker,
                           meta, command>>

\* Mutants: panicked tasks keep the meta they had; every task of a failed wave is rewritten.
MutUnreported    == {}
MutUnreportedAll == IF waveFailed THEN Current ELSE {}

Unreported == Current \ reported

\* The fix-up of panicked tasks, and on to the next wave.
FixUp == /\ pc = "fixup"
         /\ meta' = [t \in Task |-> IF t \in Unreported THEN "failed" ELSE meta[t]]
         /\ waveFailed' = (waveFailed \/ Unreported # {})
         /\ allOk' = (allOk /\ Unreported = {})
         /\ wave' = wave + 1
         /\ pc' = "wave"
         /\ UNCHANGED <<plan, joinSet, reported, shutdown, worker, command>>

Return == /\ pc = "wave" /\ wave > Len(plan.waves)
          /\ pc' = "returned"
          /\ UNCHANGED <<plan, wave, joinSet, reported, waveFailed, allOk, shutdown, worker, meta,
                         command>>

----------------------------------------------------------------------------
(* The tasks: run_task, and the token it is given. *)

TaskStart(t) == /\ worker[t] = "spawned"
                /\ worker' = [worker EXCEPT ![t] = "started"]
                /\ meta' = [meta EXCEPT ![t] = "running"]
                /\ UNCHANGED <<pc, plan, wave, joinSet, reported, waveFailed, allOk, shutdown,
                               command>>

TaskEnd(t) == /\ worker[t] = "started"
              /\ \E o \in Terminal : /\ o = "cancelled" => shutdown
                                     /\ worker' = [worker EXCEPT ![t] = o]
                                     /\ meta' = [meta EXCEPT ![t] = o]
              /\ UNCHANGED <<pc, plan, wave, joinSet, reported, waveFailed, allOk, shutdown,
                             command>>

TaskPanic(t) == /\ Panics /\ worker[t] = "started"
                /\ worker' = [worker EXCEPT ![t] = "panicked"]
                /\ UNCHANGED <<pc, plan, wave, joinSet, reported, waveFailed, allOk, shutdown,
                               meta, command>>

----------------------------------------------------------------------------
(* run_command. *)

\* The select! takes Ctrl+C even if the executor has just returned; not after that.
CtrlC == /\ ~interrupted /\ pc \in {"wave", "join", "fixup", "returned"}
         /\ interrupted' = TRUE /\ shutdown' = TRUE
         /\ UNCHANGED <<pc, plan, wave, joinSet, reported, waveFailed, allOk, worker, meta,
                        dashboard, summary>>

\* Mutant: the dashboard is awaited and not told to stop.
MutStopDashboard ==
    /\ pc = "returned"
    /\ pc' = "stopped"
    /\ UNCHANGED <<plan, wave, joinSet, reported, waveFailed, allOk, shutdown, worker, meta, command>>

\* Stop the dashboard, if there is one, through the same token, and wait for it.
StopDashboard ==
    /\ pc = "returned"
    /\ shutdown' = (shutdown \/ dashboard # "off")
    /\ pc' = "stopped"
    /\ UNCHANGED <<plan, wave, joinSet, reported, waveFailed, allOk, worker, meta, command>>

\* watch_until_cancelled prints a last frame and returns.
DashboardEnds ==
    /\ dashboard = "watching" /\ shutdown
    /\ dashboard' = "ended"
    /\ UNCHANGED <<pc, plan, wave, joinSet, reported, waveFailed, allOk, shutdown, interrupted,
                   worker, meta, summary>>

\* Or it finds every meta final; unless the directory holds an unfinished one of an older run.
DashboardSeesEnd ==
    /\ dashboard = "watching" /\ \A t \in Task : meta[t] \in Terminal
    /\ dashboard' = "ended"
    /\ UNCHANGED <<pc, plan, wave, joinSet, reported, waveFailed, allOk, shutdown, interrupted,
                   worker, meta, summary>>

\* Mutant: the summary is what the futures returned, and not what is on disk.
MutReport ==
    /\ pc = "stopped" /\ dashboard # "watching"
    /\ summary' = worker
    /\ pc' = "reported"
    /\ UNCHANGED <<plan, wave, joinSet, reported, waveFailed, allOk, shutdown, interrupted, worker,
                   meta, dashboard>>

\* collect_reports: the summary is read back from the metas.
Report ==
    /\ pc = "stopped" /\ dashboard # "watching"
    /\ summary' = meta
    /\ pc' = "reported"
    /\ UNCHANGED <<plan, wave, joinSet, reported, waveFailed, allOk, shutdown, interrupted, worker,
                   meta, dashboard>>

Executor == SkipWave \/ StartWave \/ JoinNext \/ JoinDone \/ FixUp \/ Return
Command  == StopDashboard \/ DashboardEnds \/ DashboardSeesEnd \/ Report

Next == \/ Executor \/ Command \/ CtrlC
        \/ \E t \in Task : TaskStart(t) \/ TaskEnd(t) \/ TaskPanic(t)

\* Every future is polled when woken, and a codex process ends or is killed.
Spec == /\ Init /\ [][Next]_vars
        /\ WF_vars(Executor) /\ WF_vars(StopDashboard) /\ WF_vars(DashboardEnds) /\ WF_vars(Report)
        /\ \A t \in Task : WF_vars(TaskStart(t) \/ TaskEnd(t))

----------------------------------------------------------------------------
(* Properties. *)

Spawned    == {t \in Task : worker[t] # "idle"}
Before(t)  == UNION {plan.waves[j] : j \in {k \in DOMAIN plan.waves :
                                              \E i \in DOMAIN plan.waves : i > k /\ t \in plan.waves[i]}}

\* A task is spawned only when every task of every earlier wave is done.
StartsAfterEarlierWaves == \A t \in Spawned : \A u \in Before(t) : worker[u] = "done"

\* The exit status and the printed summary tell the same story, and no task is left without
\* an end: success exactly when every task is done on disk.
ReportIsTruthful ==
    pc = "reported" => /\ \A t \in Task : summary[t] \in Terminal
                       /\ allOk <=> \A t \in Task : summary[t] = "done"

\* The metas are final when run_waves_quiet returns: what the summary reads can change no more,
\* and an end once written is never rewritten.
FinalMetaStays ==
    [][\A t \in Task : meta[t] \in Terminal \/ pc \in {"returned", "stopped"}
                         => meta'[t] = meta[t]]_vars

\* The wave executor is a scheduler of the abstract task graph.
Status(t) == CASE meta[t] = "pending" /\ worker[t] = "idle" -> "waiting"
               [] worker[t] \in {"spawned", "started"}      -> "working"
               [] worker[t] = "panicked"                    -> "failed"
               [] OTHER                                     -> meta[t]

TG == INSTANCE TaskGraph WITH
        status  <- [t \in Task |-> Status(t)],
        after   <- [t \in Task |-> plan.deps[t] \cup Before(t)],
        verdict <- IF pc \in {"wave", "join", "fixup"} THEN "open"
                   ELSE IF allOk THEN "ok" ELSE "failed"

ImplementsTaskGraph == TG!Spec

\* The command ends: at once after Ctrl+C, and otherwise when its tasks do.
CommandEnds == <>(pc = "reported")

----------------------------------------------------------------------------
(* The inductive invariant behind the proofs of WaveExecutorProofs. *)

UpTo(k) == UNION {plan.waves[j] : j \in 1 .. k}
Past    == UpTo(wave - 1)
Running == pc \in {"join", "fixup"}

\* The tasks the executor is done with, but for the fix-up of the panicked ones.
Joined == Past \cup IF Running THEN Current \ joinSet ELSE {}

Places == /\ Running => wave <= Len(plan.waves)
          /\ pc \in {"returned", "stopped", "reported"} => wave = Len(plan.waves) + 1

\* The tasks of later waves have not been touched.
LaterIdle ==
    \A t \in Task \ (Past \cup IF Running THEN Current ELSE {}) :
        worker[t] = "idle" /\ meta[t] = "pending"

\* Of the wave in progress, every task is in the JoinSet or has ended, and the reports are
\* those of the tasks that did not panic.
WaveInProgress ==
    /\ pc # "join" => joinSet = {}
    /\ Running => /\ joinSet \subseteq Current
                  /\ \A t \in Current : worker[t] # "idle"
                  /\ \A t \in Current \ joinSet : worker[t] \in Outcome
                  /\ reported = {t \in Current \ joinSet : worker[t] # "panicked"}

\* The meta on disk follows the future; a panicked task has the fix-up to wait for.
MetaFollows ==
    /\ \A t \in Task : /\ worker[t] = "spawned" => meta[t] = "pending"
                       /\ worker[t] = "started" => meta[t] = "running"
                       /\ worker[t] \in Terminal => meta[t] = worker[t]
                       /\ worker[t] = "panicked" /\ t \notin Past => meta[t] = "running"
    /\ \A t \in Past : \/ worker[t] \in Terminal
                       \/ worker[t] = "panicked" /\ meta[t] = "failed"
                       \/ worker[t] = "idle" /\ meta[t] = "cancelled"

\* The two flags say what became of the tasks.
FlagsAgree ==
    /\ allOk <=> \A t \in Joined : worker[t] = "done"
    /\ (\A t \in Joined : worker[t] = "done") \/ waveFailed \/ shutdown
    /\ (\E t \in Task : worker[t] = "cancelled") => shutdown

Summarised == pc = "reported" => summary = meta

IInv == /\ TypeOK /\ Places /\ LaterIdle /\ WaveInProgress /\ MetaFollows /\ FlagsAgree
        /\ Summarised /\ StartsAfterEarlierWaves
=============================================================================
