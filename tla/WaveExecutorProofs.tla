------------------------- MODULE WaveExecutorProofs -------------------------
(***************************************************************************)
(* Proofs about WaveExecutor, for every set of names and every wave plan,  *)
(* with or without panics and a Ctrl+C.                                    *)
(***************************************************************************)
EXTENDS WaveExecutor, TLAPS

----------------------------------------------------------------------------
(* The waves of a plan. *)

\* A wave is a nonempty set of names, none of which is in an earlier wave.
LEMMA WaveFacts ==
    ASSUME plan \in Plans, NEW k \in 1 .. Len(plan.waves)
    PROVE  /\ Len(plan.waves) \in Nat /\ DOMAIN plan.waves = 1 .. Len(plan.waves)
           /\ plan.waves[k] \subseteq Task /\ plan.waves[k] # {}
           /\ UpTo(k) = UpTo(k - 1) \cup plan.waves[k]
           /\ plan.waves[k] \cap UpTo(k - 1) = {}
           /\ \A t \in plan.waves[k] : plan.deps[t] \subseteq UpTo(k - 1)
  <1> USE WaveExecutorAssumption DEF IsWavePlan
  <1>1. /\ Len(plan.waves) \in Nat /\ DOMAIN plan.waves = 1 .. Len(plan.waves)
        /\ k \in DOMAIN plan.waves
        /\ \A j \in DOMAIN plan.waves : plan.waves[j] \subseteq Task /\ plan.waves[j] # {}
    <2>1. plan.waves \in Seq((SUBSET Task) \ {{}})
      OBVIOUS
    <2> QED
      BY <2>1
  <1>2. 1 .. k = (1 .. (k - 1)) \cup {k}
    BY <1>1
  <1>3. \A j \in 1 .. (k - 1) : j \in DOMAIN plan.waves /\ j # k
    BY <1>1
  <1>4. UpTo(k) = UpTo(k - 1) \cup plan.waves[k]
    BY <1>2 DEF UpTo
  <1>5. plan.waves[k] \cap UpTo(k - 1) = {}
    BY <1>1, <1>3 DEF UpTo
  <1>6. \A t \in plan.waves[k] : plan.deps[t] \subseteq UpTo(k - 1)
    BY <1>1 DEF UpTo
  <1> QED
    BY <1>1, <1>4, <1>5, <1>6

\* Together the waves are the whole plan, and before the first there is nothing.
LEMMA AllWaves ==
    ASSUME plan \in Plans
    PROVE  UpTo(Len(plan.waves)) = Task /\ UpTo(0) = {} /\ Len(plan.waves) \in Nat
  <1>1. /\ Len(plan.waves) \in Nat /\ DOMAIN plan.waves = 1 .. Len(plan.waves)
        /\ UNION {plan.waves[k] : k \in DOMAIN plan.waves} = Task
    BY WaveExecutorAssumption DEF IsWavePlan
  <1> QED
    BY <1>1 DEF UpTo

\* What a task comes after is in the waves before its own.
LEMMA BeforeIsEarlier ==
    ASSUME plan \in Plans, NEW k \in 1 .. Len(plan.waves), NEW t \in plan.waves[k]
    PROVE  Before(t) = UpTo(k - 1)
  <1>1. /\ Len(plan.waves) \in Nat /\ DOMAIN plan.waves = 1 .. Len(plan.waves)
        /\ \A i \in DOMAIN plan.waves : t \in plan.waves[i] => i = k
    BY WaveExecutorAssumption DEF IsWavePlan
  <1>2. \A j \in DOMAIN plan.waves :
            (\E i \in DOMAIN plan.waves : i > j /\ t \in plan.waves[i]) <=> j \in 1 .. (k - 1)
    BY <1>1
  <1>3. {j \in DOMAIN plan.waves : \E i \in DOMAIN plan.waves : i > j /\ t \in plan.waves[i]}
          = 1 .. (k - 1)
    BY <1>1, <1>2
  <1> QED
    BY <1>3 DEF Before, UpTo

\* Tasks come after tasks.
LEMMA BeforeInTask ==
    ASSUME plan \in Plans, NEW t
    PROVE  Before(t) \subseteq Task
  BY WaveFacts, AllWaves, WaveExecutorAssumption DEF Before, IsWavePlan

\* The current wave, when there is one.
LEMMA CurrentFacts ==
    ASSUME TypeOK, wave <= Len(plan.waves)
    PROVE  /\ wave \in 1 .. Len(plan.waves) /\ wave + 1 \in 1 .. (Len(plan.waves) + 1)
           /\ Current \subseteq Task /\ Current # {} /\ Current \cap Past = {}
           /\ UpTo(wave) = Past \cup Current
           /\ \A t \in Current : Before(t) = Past /\ plan.deps[t] \subseteq Past
  <1>1. wave \in 1 .. Len(plan.waves) /\ wave + 1 \in 1 .. (Len(plan.waves) + 1)
    BY AllWaves DEF TypeOK
  <1> QED
    BY <1>1, WaveFacts, BeforeIsEarlier DEF TypeOK, Current, Past

\* The tasks of finished waves are tasks; when all waves are finished they are all the tasks.
LEMMA PastFacts ==
    ASSUME TypeOK
    PROVE  Past \subseteq Task /\ (wave = Len(plan.waves) + 1 => Past = Task)
  <1>1. /\ Len(plan.waves) \in Nat
        /\ \A j \in 1 .. Len(plan.waves) : plan.waves[j] \subseteq Task
    BY AllWaves, WaveFacts DEF TypeOK
  <1>2. Past \subseteq Task
    BY <1>1 DEF Past, UpTo, TypeOK
  <1>3. wave = Len(plan.waves) + 1 => wave - 1 = Len(plan.waves)
    BY <1>1
  <1> QED
    BY <1>2, <1>3, AllWaves DEF Past, TypeOK

\* Every variable keeps its type, and the executor never runs out of waves.
LEMMA TypedAndPlaced == Spec => [](TypeOK /\ Places)
  <1>1. Init => TypeOK /\ Places
    <2> SUFFICES ASSUME Init PROVE TypeOK /\ Places
      OBVIOUS
    <2>1. wave \in 1 .. (Len(plan.waves) + 1)
      BY AllWaves DEF Init
    <2> QED
      BY <2>1 DEF Init, TypeOK, Places, Running, Outcome, Statuses, Terminal
  <1>2. TypeOK /\ Places /\ [Next]_vars => (TypeOK /\ Places)'
    <2> SUFFICES ASSUME TypeOK, Places, [Next]_vars PROVE TypeOK' /\ Places'
      OBVIOUS
    <2> USE DEF TypeOK, Places, Running, Outcome, Terminal, Statuses, command
    <2>1. CASE SkipWave
      BY <2>1, CurrentFacts DEF SkipWave
    <2>2. CASE StartWave
      BY <2>2, CurrentFacts DEF StartWave
    <2>3. CASE JoinNext
      BY <2>3 DEF JoinNext, JoinOk
    <2>4. CASE JoinDone
      BY <2>4 DEF JoinDone
    <2>5. CASE FixUp
      BY <2>5, CurrentFacts DEF FixUp
    <2>6. CASE Return
      BY <2>6, AllWaves DEF Return
    <2>7. ASSUME NEW t \in Task, TaskStart(t) \/ TaskEnd(t) \/ TaskPanic(t)
          PROVE  TypeOK' /\ Places'
      BY <2>7 DEF TaskStart, TaskEnd, TaskPanic
    <2>8. CASE CtrlC \/ StopDashboard \/ DashboardEnds \/ DashboardSeesEnd \/ Report
      BY <2>8 DEF CtrlC, StopDashboard, DashboardEnds, DashboardSeesEnd, Report
    <2>9. CASE UNCHANGED vars
      BY <2>9 DEF vars
    <2> QED
      BY <2>1, <2>2, <2>3, <2>4, <2>5, <2>6, <2>7, <2>8, <2>9 DEF Next, Executor, Command
  <1> QED
    BY <1>1, <1>2, PTL DEF Spec

\* Every variable keeps its type.
THEOREM TypeCorrect == Spec => []TypeOK
  BY TypedAndPlaced, PTL

----------------------------------------------------------------------------
(* The inductive invariant, one lemma per action that changes what it speaks about. *)

LEMMA InitEstablishes ==
    ASSUME Init, TypeOK, Places
    PROVE  IInv
  <1>1. Past = {} /\ ~Running
    BY AllWaves DEF Init, Past, Running
  <1> QED
    BY <1>1 DEF Init, IInv, LaterIdle, WaveInProgress, MetaFollows, FlagsAgree, Joined, Summarised,
         StartsAfterEarlierWaves, Spawned, Terminal

\* Skipping: the wave's tasks become past without having been spawned, which the flag of
\* success records and one of the flags that made it skip explains.
LEMMA SkipWaveKeeps ==
    ASSUME IInv, (TypeOK /\ Places)', SkipWave
    PROVE  IInv'
  <1> USE DEF IInv
  <1>1. /\ pc = "wave" /\ pc' = "wave" /\ wave' = wave + 1 /\ ~allOk' /\ (waveFailed \/ shutdown)
        /\ UNCHANGED <<plan, joinSet, reported, waveFailed, shutdown, worker, summary>>
        /\ \A t \in Task : meta'[t] = IF t \in Current THEN "cancelled" ELSE meta[t]
    BY DEF SkipWave, Skipping, command
  <1>2. /\ Current \subseteq Task /\ Current # {} /\ Current \cap Past = {}
        /\ Past' = Past \cup Current
    <2>1. UpTo(wave) = Past \cup Current
      BY CurrentFacts DEF SkipWave
    <2>2. Past' = UpTo(wave)
      BY <1>1 DEF Past, UpTo, TypeOK
    <2> QED
      BY <2>1, <2>2, CurrentFacts DEF SkipWave
  <1>3. ~Running /\ ~Running'
    BY <1>1 DEF Running
  <1> HIDE DEF IInv
  <1>4. \A t \in Current : worker[t] = "idle" /\ t \in Task \ Past
    BY <1>2, <1>3 DEF LaterIdle, IInv
  <1>5. LaterIdle' /\ WaveInProgress'
    BY <1>1, <1>2, <1>3 DEF LaterIdle, WaveInProgress, IInv
  <1>6. MetaFollows'
    BY <1>1, <1>2, <1>4, PastFacts DEF MetaFollows, Terminal, IInv
  <1>7. Joined = Past /\ Joined' = Past \cup Current
    BY <1>2, <1>3 DEF Joined
  <1>8. FlagsAgree'
    BY <1>1, <1>2, <1>4, <1>7 DEF FlagsAgree, IInv
  <1>9. StartsAfterEarlierWaves' /\ Summarised'
    BY <1>1 DEF StartsAfterEarlierWaves, Spawned, Before, Summarised, IInv
  <1> QED
    BY <1>5, <1>6, <1>8, <1>9 DEF IInv

\* Starting a wave: no flag is raised, so everything in the waves before it is done.
LEMMA StartWaveKeeps ==
    ASSUME IInv, (TypeOK /\ Places)', StartWave
    PROVE  IInv'
  <1> USE DEF IInv
  <1>1. /\ pc = "wave" /\ pc' = "join" /\ ~waveFailed /\ ~shutdown
        /\ joinSet' = Current /\ reported' = {}
        /\ UNCHANGED <<plan, wave, waveFailed, allOk, shutdown, meta, summary>>
        /\ \A t \in Task : worker'[t] = IF t \in Current THEN "spawned" ELSE worker[t]
    BY DEF StartWave, Skipping, command
  <1>2. /\ Current \subseteq Task /\ Current \cap Past = {} /\ wave <= Len(plan.waves)
        /\ \A t \in Current : Before(t) = Past
    BY CurrentFacts DEF StartWave
  <1>3. ~Running /\ Running' /\ Past' = Past /\ Current' = Current
    BY <1>1 DEF Running, Past, UpTo, Current
  <1> HIDE DEF IInv
  <1>4. \A t \in Current : worker[t] = "idle" /\ meta[t] = "pending" /\ t \in Task \ Past
    BY <1>2, <1>3 DEF LaterIdle, IInv
  <1>5. LaterIdle' /\ WaveInProgress'
    BY <1>1, <1>2, <1>3 DEF LaterIdle, WaveInProgress, IInv
  <1>6. MetaFollows'
    BY <1>1, <1>2, <1>3, <1>4, PastFacts DEF MetaFollows, Terminal, IInv
  <1>7. Joined = Past /\ Joined' = Past
    BY <1>1, <1>3 DEF Joined
  <1>8. \A t \in Past : worker[t] = "done" /\ worker'[t] = "done"
    BY <1>1, <1>2, <1>7, PastFacts DEF FlagsAgree, IInv
  <1>9. FlagsAgree'
    BY <1>1, <1>2, <1>7, <1>8 DEF FlagsAgree, IInv
  <1>10. StartsAfterEarlierWaves'
    <2>1. \A t \in Task : Before(t)' = Before(t)
      BY <1>1 DEF Before
    <2>2. ASSUME NEW t \in Task, worker'[t] # "idle", NEW u \in Before(t) PROVE worker'[u] = "done"
      <3>1. CASE t \in Current
        BY <1>2, <1>8, <2>2, <3>1
      <3>2. CASE t \notin Current
        <4>1. worker[u] = "done"
          BY <1>1, <2>2, <3>2 DEF StartsAfterEarlierWaves, Spawned, IInv
        <4>2. u \in Task /\ u \notin Current
          BY <1>4, <2>2, <4>1, BeforeInTask DEF IInv, TypeOK
        <4> QED
          BY <1>1, <4>1, <4>2
      <3> QED
        BY <3>1, <3>2
    <2> QED
      BY <2>1, <2>2 DEF StartsAfterEarlierWaves, Spawned
  <1>11. Summarised'
    BY <1>1 DEF Summarised
  <1> QED
    BY <1>5, <1>6, <1>9, <1>10, <1>11 DEF IInv

\* Joining: the flag of success remembers a bad end, and so does one of the other two.
LEMMA JoinNextKeeps ==
    ASSUME IInv, (TypeOK /\ Places)', JoinNext
    PROVE  IInv'
  <1> USE DEF IInv
  <1>1. PICK t \in joinSet : /\ worker[t] \in Outcome
                             /\ joinSet' = joinSet \ {t}
                             /\ allOk' = (allOk /\ JoinOk(t))
                             /\ waveFailed' = (waveFailed \/ worker[t] \in {"failed", "panicked"})
                             /\ reported' = IF worker[t] = "panicked" THEN reported
                                                                     ELSE reported \cup {t}
    BY DEF JoinNext
  <1>2. /\ pc = "join" /\ pc' = "join" /\ Running /\ Running'
        /\ UNCHANGED <<plan, wave, shutdown, worker, meta, summary>>
        /\ Past' = Past /\ Current' = Current
    BY DEF JoinNext, command, Running, Past, UpTo, Current
  <1>3. t \in Current /\ Current \subseteq Task /\ Current \cap Past = {}
    BY <1>2, CurrentFacts DEF WaveInProgress, Places
  <1> HIDE DEF IInv
  <1>4. LaterIdle' /\ MetaFollows' /\ StartsAfterEarlierWaves' /\ Summarised'
    BY <1>2 DEF LaterIdle, MetaFollows, StartsAfterEarlierWaves, Spawned, Before, Summarised, IInv
  <1>5. WaveInProgress'
    BY <1>1, <1>2, <1>3 DEF WaveInProgress, IInv
  <1>6. Joined' = Joined \cup {t}
    BY <1>1, <1>2, <1>3 DEF Joined
  <1>7. FlagsAgree'
    BY <1>1, <1>2, <1>3, <1>6 DEF FlagsAgree, JoinOk, Outcome, IInv
  <1> QED
    BY <1>4, <1>5, <1>7 DEF IInv

\* The fix-up writes the metas of exactly the tasks that panicked.
LEMMA FixUpKeeps ==
    ASSUME IInv, (TypeOK /\ Places)', FixUp
    PROVE  IInv'
  <1> USE DEF IInv
  <1>1. /\ pc = "fixup" /\ pc' = "wave" /\ wave' = wave + 1 /\ Running /\ ~Running'
        /\ UNCHANGED <<plan, joinSet, reported, shutdown, worker, summary>>
        /\ \A t \in Task : meta'[t] = IF t \in Unreported THEN "failed" ELSE meta[t]
        /\ waveFailed' = (waveFailed \/ Unreported # {})
        /\ allOk' = (allOk /\ Unreported = {})
    BY DEF FixUp, command, Running
  <1>2. /\ Current \subseteq Task /\ Current \cap Past = {} /\ UpTo(wave) = Past \cup Current
    BY <1>1, CurrentFacts DEF Places
  <1>3. Past' = Past \cup Current
    <2>1. Past' = UpTo(wave)
      BY <1>1 DEF Past, UpTo, TypeOK
    <2> QED
      BY <1>2, <2>1
  <1>4. /\ joinSet = {} /\ Unreported = {t \in Current : worker[t] = "panicked"}
        /\ \A t \in Current : worker[t] \in Outcome
    BY <1>1 DEF WaveInProgress, Unreported
  <1> HIDE DEF IInv
  <1>5. LaterIdle' /\ WaveInProgress'
    BY <1>1, <1>2, <1>3, <1>4 DEF LaterIdle, WaveInProgress, IInv
  <1>6. MetaFollows'
    BY <1>1, <1>2, <1>3, <1>4, PastFacts DEF MetaFollows, Outcome, Terminal, IInv
  <1>7. Joined = Past \cup Current /\ Joined' = Past \cup Current
    BY <1>1, <1>3, <1>4 DEF Joined
  <1>8. FlagsAgree'
    BY <1>1, <1>4, <1>7 DEF FlagsAgree, IInv
  <1>9. StartsAfterEarlierWaves' /\ Summarised'
    BY <1>1 DEF StartsAfterEarlierWaves, Spawned, Before, Summarised, IInv
  <1> QED
    BY <1>5, <1>6, <1>8, <1>9 DEF IInv

\* A task's own steps: it is one of the JoinSet until it has ended.
LEMMA TaskStepKeeps ==
    ASSUME IInv, (TypeOK /\ Places)', NEW t \in Task, TaskStart(t) \/ TaskEnd(t) \/ TaskPanic(t)
    PROVE  IInv'
  <1> USE DEF IInv
  <1>1. /\ worker[t] \in {"spawned", "started"}
        /\ worker'[t] \in {"started"} \cup Outcome
        /\ worker'[t] = "cancelled" => shutdown
        /\ worker'[t] = "started" => meta'[t] = "running"
        /\ worker'[t] \in Terminal => meta'[t] = worker'[t]
        /\ worker'[t] = "panicked" => worker[t] = "started" /\ meta'[t] = meta[t]
        /\ \A u \in Task \ {t} : worker'[u] = worker[u] /\ meta'[u] = meta[u]
        /\ UNCHANGED <<pc, plan, wave, joinSet, reported, waveFailed, allOk, shutdown, summary>>
    BY DEF TaskStart, TaskEnd, TaskPanic, TypeOK, Outcome, Terminal, command
  <1>2. Past' = Past /\ Current' = Current /\ Running' = Running /\ Joined' = Joined
    BY <1>1 DEF Past, UpTo, Current, Running, Joined
  <1> HIDE DEF IInv
  <1>3. t \notin Past
    BY <1>1 DEF MetaFollows, Terminal, IInv
  <1>4. Running /\ t \in joinSet /\ t \in Current /\ pc = "join"
    BY <1>1, <1>3 DEF LaterIdle, WaveInProgress, Outcome, IInv
  <1>5. /\ Current \subseteq Task /\ Past \subseteq Task /\ Current \cap Past = {}
        /\ t \notin Joined /\ Joined \subseteq Task
    BY <1>3, <1>4, CurrentFacts, PastFacts DEF Places, Joined, IInv
  <1>6. LaterIdle'
    BY <1>1, <1>2, <1>4 DEF LaterIdle, IInv
  <1>7. WaveInProgress'
    BY <1>1, <1>2, <1>4, <1>5 DEF WaveInProgress, Outcome, IInv
  <1>8. MetaFollows'
    BY <1>1, <1>2, <1>3, <1>5 DEF MetaFollows, Outcome, Terminal, IInv
  <1>9. FlagsAgree'
    BY <1>1, <1>2, <1>5 DEF FlagsAgree, IInv
  <1>10. StartsAfterEarlierWaves'
    <2>1. \A u \in Task : Before(u)' = Before(u) /\ Before(u) \subseteq Task
      BY <1>1, BeforeInTask DEF Before, IInv, TypeOK
    <2> QED
      BY <1>1, <2>1 DEF StartsAfterEarlierWaves, Spawned, IInv
  <1>11. Summarised'
    BY <1>1, <1>4 DEF Summarised
  <1> QED
    BY <1>6, <1>7, <1>8, <1>9, <1>10, <1>11 DEF IInv

\* The steps that touch neither the waves nor the tasks; the token may only be set.
LEMMA QuietStepKeeps ==
    ASSUME IInv, (TypeOK /\ Places)',
           UNCHANGED <<plan, wave, joinSet, reported, waveFailed, allOk, worker, meta>>,
           shutdown => shutdown',
           Summarised',
           Running' = Running, pc' # "join" => joinSet = {}
    PROVE  IInv'
  <1>1. /\ Past' = Past /\ Current' = Current /\ Joined' = Joined
        /\ \A t \in Task : Before(t)' = Before(t)
    BY DEF Past, UpTo, Current, Joined, Before
  <1>2. LaterIdle' /\ WaveInProgress' /\ MetaFollows' /\ FlagsAgree'
    BY <1>1 DEF IInv, LaterIdle, WaveInProgress, MetaFollows, FlagsAgree
  <1>3. StartsAfterEarlierWaves'
    BY <1>1 DEF IInv, StartsAfterEarlierWaves, Spawned
  <1> QED
    BY <1>2, <1>3 DEF IInv

\* The inductive invariant holds in every reachable state.
THEOREM Invariance == Spec => []IInv
  <1>1. Init /\ TypeOK /\ Places => IInv
    BY InitEstablishes
  <1>2. IInv /\ (TypeOK /\ Places)' /\ [Next]_vars => IInv'
    <2> SUFFICES ASSUME IInv, (TypeOK /\ Places)', [Next]_vars PROVE IInv'
      OBVIOUS
    <2>1. CASE SkipWave
      BY <2>1, SkipWaveKeeps
    <2>2. CASE StartWave
      BY <2>2, StartWaveKeeps
    <2>3. CASE JoinNext
      BY <2>3, JoinNextKeeps
    <2>4. CASE JoinDone \/ Return
      BY <2>4, QuietStepKeeps
         DEF JoinDone, Return, Running, Summarised, command, IInv, WaveInProgress
    <2>5. CASE FixUp
      BY <2>5, FixUpKeeps
    <2>6. ASSUME NEW t \in Task, TaskStart(t) \/ TaskEnd(t) \/ TaskPanic(t) PROVE IInv'
      BY <2>6, TaskStepKeeps
    <2>7. CASE CtrlC \/ StopDashboard \/ DashboardEnds \/ DashboardSeesEnd \/ Report
      <3>1. pc # "join" => joinSet = {}
        BY DEF IInv, WaveInProgress
      <3>2. CASE CtrlC
        BY <3>1, <3>2, QuietStepKeeps DEF CtrlC, Running, Summarised
      <3>3. CASE StopDashboard
        BY <3>1, <3>3, QuietStepKeeps DEF StopDashboard, Running, Summarised, command, IInv, TypeOK
      <3>4. CASE Report
        BY <3>1, <3>4, QuietStepKeeps DEF Report, Running, Summarised
      <3>5. CASE DashboardEnds \/ DashboardSeesEnd
        <4>1. Summarised'
          BY <3>5 DEF DashboardEnds, DashboardSeesEnd, IInv, Summarised
        <4> QED
          BY <3>1, <3>5, <4>1, QuietStepKeeps DEF DashboardEnds, DashboardSeesEnd, Running
      <3> QED
        BY <2>7, <3>2, <3>3, <3>4, <3>5
    <2>8. CASE UNCHANGED vars
      BY <2>8, QuietStepKeeps DEF vars, Running, Summarised, command, IInv, WaveInProgress
    <2> QED
      BY <2>1, <2>2, <2>3, <2>4, <2>5, <2>6, <2>7, <2>8 DEF Next, Executor, Command
  <1> QED
    BY <1>1, <1>2, TypedAndPlaced, PTL DEF Spec

----------------------------------------------------------------------------
(* What follows from it. *)

\* A task is spawned only when everything in the waves before its own is done.
THEOREM WaveOrder == Spec => []StartsAfterEarlierWaves
  <1>1. IInv => StartsAfterEarlierWaves
    BY DEF IInv
  <1> QED
    BY <1>1, Invariance, PTL

\* When all waves are past, every task has an end, and success is exactly that all are done.
LEMMA AllPast ==
    ASSUME IInv, pc \in {"returned", "stopped", "reported"} \/ (pc = "wave" /\ wave > Len(plan.waves))
    PROVE  /\ wave = Len(plan.waves) + 1 /\ ~Running
           /\ Past = Task /\ Joined = Task
           /\ \A t \in Task : /\ meta[t] \in Terminal /\ worker[t] \notin {"spawned", "started"}
                              /\ meta[t] = "done" <=> worker[t] = "done"
           /\ allOk <=> \A t \in Task : worker[t] = "done"
  <1>1. wave = Len(plan.waves) + 1 /\ ~Running
    BY AllWaves DEF IInv, Places, Running, TypeOK
  <1>2. Past = Task /\ Joined = Task
    BY <1>1, PastFacts DEF IInv, Joined
  <1>3. \A t \in Task : /\ meta[t] \in Terminal /\ worker[t] \notin {"spawned", "started"}
                        /\ meta[t] = "done" <=> worker[t] = "done"
    BY <1>2 DEF IInv, MetaFollows, Terminal
  <1> QED
    BY <1>1, <1>2, <1>3 DEF IInv, FlagsAgree

\* The exit status and the printed summary tell the same story.
THEOREM ReportIsTrue == Spec => []ReportIsTruthful
  <1>1. IInv => ReportIsTruthful
    BY AllPast DEF ReportIsTruthful, IInv, Summarised
  <1> QED
    BY <1>1, Invariance, PTL

\* A final meta, and every meta once the executor has returned, stays as it is.
THEOREM FinalMeta == Spec => FinalMetaStays
  <1>1. IInv /\ [Next]_vars =>
            [\A t \in Task : meta[t] \in Terminal \/ pc \in {"returned", "stopped"}
                               => meta'[t] = meta[t]]_vars
    <2> SUFFICES ASSUME IInv, [Next]_vars, NEW t \in Task,
                        meta[t] \in Terminal \/ pc \in {"returned", "stopped"}
                 PROVE  meta'[t] = meta[t]
      OBVIOUS
    <2>1. CASE SkipWave
      <3>1. \A u \in Current : meta[u] = "pending"
        BY <2>1, CurrentFacts DEF SkipWave, IInv, LaterIdle, Running
      <3> QED
        BY <2>1, <3>1 DEF SkipWave, Terminal
    <2>2. CASE FixUp
      <3>1. \A u \in Unreported : meta[u] = "running"
        BY <2>2, CurrentFacts
           DEF FixUp, Unreported, IInv, WaveInProgress, MetaFollows, Running, Places
      <3> QED
        BY <2>2, <3>1 DEF FixUp, Terminal
    <2>3. ASSUME NEW u \in Task, TaskStart(u) \/ TaskEnd(u) \/ TaskPanic(u)
          PROVE  meta'[t] = meta[t]
      <3>1. worker[u] \in {"spawned", "started"} /\ (u = t => meta'[t] = meta[t] \/ meta[t] \notin Terminal)
        BY <2>3 DEF TaskStart, TaskEnd, TaskPanic, IInv, MetaFollows, Terminal, TypeOK
      <3>2. pc \notin {"returned", "stopped"}
        BY <3>1, AllPast
      <3> QED
        BY <2>3, <3>1, <3>2 DEF TaskStart, TaskEnd, TaskPanic, IInv, TypeOK
    <2>4. CASE ~SkipWave /\ ~FixUp /\ (Executor \/ Command \/ CtrlC \/ UNCHANGED vars)
      BY <2>4 DEF Executor, StartWave, JoinNext, JoinDone, Return, Command, CtrlC, StopDashboard,
                  DashboardEnds, DashboardSeesEnd, Report, vars
    <2> QED
      BY <2>1, <2>2, <2>3, <2>4 DEF Next
  <1> QED
    BY <1>1, Invariance, PTL DEF Spec, FinalMetaStays

----------------------------------------------------------------------------
(* The executor implements the task graph. *)

\* The state of the task graph that a state of the executor stands for.
absStatus  == [t \in Task |-> Status(t)]
absAfter   == [t \in Task |-> plan.deps[t] \cup Before(t)]
absVerdict == IF pc \in {"wave", "join", "fixup"} THEN "open"
              ELSE IF allOk THEN "ok" ELSE "failed"

\* Every name of the plan is known from the start.
LEMMA AllKnown ==
    ASSUME TypeOK
    PROVE  TG!Known = Task
  BY DEF TG!Known, Status, TypeOK, Statuses, Terminal, Outcome

\* Status by status.
LEMMA StatusMeaning ==
    ASSUME IInv, NEW t \in Task
    PROVE  /\ worker[t] = "idle" /\ meta[t] = "pending" => Status(t) = "waiting"
           /\ worker[t] \in {"spawned", "started"} => Status(t) = "working"
           /\ worker[t] = "done" => Status(t) = "done"
           /\ worker[t] = "panicked" => Status(t) = "failed"
           /\ worker[t] \in Terminal => Status(t) = worker[t]
           /\ t \in Past => Status(t) = meta[t] /\ Status(t) \in TG!Ended
  <1>1. t \in Past => Status(t) = meta[t] /\ Status(t) \in TG!Ended
    BY DEF IInv, MetaFollows, Status, Terminal, TG!Ended
  <1> QED
    BY <1>1 DEF IInv, MetaFollows, Status, Terminal

\* Steps in which nothing the graph sees changes.
LEMMA QuietImplements ==
    ASSUME UNCHANGED <<plan, absStatus, absVerdict>>
    PROVE  UNCHANGED TG!vars
  BY DEF TG!vars, absStatus, absVerdict, Before

LEMMA InitImplements ==
    ASSUME Init, TypeOK
    PROVE  TG!Init
  <1>1. TG!Known = Task
    BY AllKnown
  <1>2. absStatus \in [Task -> {"unknown", "waiting"}] /\ absVerdict = "open"
    BY DEF absStatus, absVerdict, Status, Init
  <1>3. absAfter \in [Task -> SUBSET Task]
    BY BeforeInTask, WaveExecutorAssumption DEF absAfter, TypeOK, IsWavePlan
  <1> QED
    BY <1>1, <1>2, <1>3 DEF TG!Init, TG!Waiting, absStatus, absAfter, absVerdict

\* A skipped wave is given up.
LEMMA SkipImplements ==
    ASSUME IInv, SkipWave
    PROVE  [TG!Next]_(TG!vars)
  <1>1. /\ pc = "wave" /\ UNCHANGED <<pc, plan, worker>>
        /\ \A t \in Task : meta'[t] = IF t \in Current THEN "cancelled" ELSE meta[t]
    BY DEF SkipWave, command, IInv, TypeOK
  <1>2. PICK S \in SUBSET Task : S = Current
    BY CurrentFacts DEF SkipWave, IInv
  <1>3. S # {} /\ \A t \in S : worker[t] = "idle" /\ meta[t] = "pending"
    BY <1>1, <1>2, CurrentFacts DEF SkipWave, IInv, LaterIdle, Running
  <1>4. \A t \in S : Status(t) = "waiting"
    BY <1>3, StatusMeaning
  <1>5. \A t \in Task : Status(t)' = IF t \in S THEN "cancelled" ELSE Status(t)
    BY <1>1, <1>2, <1>3 DEF Status
  <1>6. UNCHANGED <<absAfter, absVerdict>> /\ absVerdict = "open"
    <2>1. allOk' \in BOOLEAN /\ pc' = pc
      BY <1>1 DEF SkipWave
    <2> QED
      BY <1>1, <2>1 DEF absAfter, absVerdict, Before
  <1>7. TG!GiveUp(S)
    BY <1>3, <1>4, <1>5, <1>6 DEF TG!GiveUp, TG!Waiting, absAfter
  <1> QED
    BY <1>6, <1>7 DEF TG!Next, TG!Schedule, absVerdict

\* A wave that is started: everything its tasks come after is in finished waves, and done.
LEMMA StartImplements ==
    ASSUME IInv, StartWave
    PROVE  [TG!Next]_(TG!vars)
  <1>1. /\ pc = "wave" /\ pc' = "join" /\ ~waveFailed /\ ~shutdown /\ UNCHANGED <<plan, meta>>
        /\ \A t \in Task : worker'[t] = IF t \in Current THEN "spawned" ELSE worker[t]
    BY DEF StartWave, Skipping, command, IInv, TypeOK
  <1>2. PICK S \in SUBSET Task : S = Current
    BY CurrentFacts DEF StartWave, IInv
  <1>3. /\ S # {} /\ \A t \in S : worker[t] = "idle" /\ meta[t] = "pending"
        /\ \A t \in S : plan.deps[t] \cup Before(t) \subseteq Past
    BY <1>1, <1>2, CurrentFacts DEF StartWave, IInv, LaterIdle, Running
  <1>4. \A u \in Past : u \in Task /\ Status(u) = "done"
    <2>1. Joined = Past /\ Past \subseteq Task
      BY <1>1, PastFacts DEF Joined, Running, IInv
    <2>2. \A u \in Past : worker[u] = "done"
      BY <1>1, <2>1 DEF IInv, FlagsAgree
    <2> QED
      BY <2>1, <2>2, StatusMeaning
  <1>5. \A t \in S : Status(t) = "waiting" /\ \A u \in plan.deps[t] \cup Before(t) : Status(u) = "done"
    BY <1>3, <1>4, StatusMeaning
  <1>6. \A t \in Task : Status(t)' = IF t \in S THEN "working" ELSE Status(t)
    BY <1>1, <1>2 DEF Status
  <1>7. UNCHANGED <<absAfter, absVerdict>> /\ absVerdict = "open"
    BY <1>1 DEF absAfter, absVerdict, Before
  <1>8. \A t \in S : \A u \in absAfter[t] : u \in Task /\ absStatus[u] = "done"
    BY <1>3, <1>4 DEF absAfter, absStatus
  <1>9. TG!Start(S)
    BY <1>3, <1>5, <1>6, <1>7, <1>8 DEF TG!Start, TG!Waiting, TG!Working, absAfter, absStatus
  <1> QED
    BY <1>7, <1>9 DEF TG!Next, TG!Schedule, absVerdict

\* A task works from its spawn to its end, a panic included.
LEMMA TaskStepImplements ==
    ASSUME IInv, NEW t \in Task, TaskStart(t) \/ TaskEnd(t) \/ TaskPanic(t)
    PROVE  [TG!Next]_(TG!vars)
  <1>1. /\ UNCHANGED <<pc, plan, allOk>> /\ worker[t] \in {"spawned", "started"}
        /\ worker'[t] \in {"started"} \cup Outcome
        /\ worker'[t] \in Terminal => meta'[t] = worker'[t]
        /\ \A u \in Task \ {t} : worker'[u] = worker[u] /\ meta'[u] = meta[u]
    BY DEF TaskStart, TaskEnd, TaskPanic, command, IInv, TypeOK, Outcome, Terminal
  <1>2. absVerdict = "open" /\ UNCHANGED <<absVerdict, absAfter>>
    BY <1>1, AllPast DEF absVerdict, absAfter, Before, IInv, TypeOK
  <1>3. \A u \in Task \ {t} : Status(u)' = Status(u)
    BY <1>1 DEF Status
  <1>4. Status(t) = "working"
    BY <1>1 DEF Status
  <1>5. CASE worker'[t] = "started"
    <2>1. Status(t)' = "working"
      BY <1>5 DEF Status
    <2>2. absStatus' = absStatus
      BY <1>3, <1>4, <2>1 DEF absStatus
    <2> QED
      BY <1>1, <1>2, <2>2, QuietImplements
  <1>6. CASE worker'[t] \in Outcome
    <2>1. Status(t)' \in TG!Ended
      BY <1>1, <1>6 DEF Status, Outcome, Terminal, TG!Ended
    <2>2. absStatus' = [absStatus EXCEPT ![t] = Status(t)']
      BY <1>3 DEF absStatus
    <2>3. TG!End(t)
      BY <1>2, <1>4, <2>1, <2>2 DEF TG!End, TG!Working, absStatus, absAfter
    <2> QED
      BY <1>2, <2>3 DEF TG!Next, TG!Schedule, absVerdict
  <1> QED
    BY <1>1, <1>5, <1>6

\* The fix-up gives panicked tasks on disk the status they had in the graph.
LEMMA FixUpImplements ==
    ASSUME IInv, FixUp
    PROVE  [TG!Next]_(TG!vars)
  <1>1. /\ pc = "fixup" /\ pc' = "wave" /\ UNCHANGED <<plan, worker>>
        /\ \A t \in Task : meta'[t] = IF t \in Unreported THEN "failed" ELSE meta[t]
    BY DEF FixUp, command, IInv, TypeOK
  <1>2. \A t \in Unreported : worker[t] = "panicked"
    BY <1>1 DEF Unreported, IInv, WaveInProgress, Running
  <1>3. \A t \in Task : Status(t)' = Status(t)
    BY <1>1, <1>2 DEF Status
  <1>4. absVerdict' = absVerdict /\ absStatus' = absStatus
    BY <1>1, <1>3 DEF absVerdict, absStatus
  <1> QED
    BY <1>1, <1>4, QuietImplements

\* The executor returns when every task has an end, and says ok only if all are done.
LEMMA ReturnImplements ==
    ASSUME IInv, Return
    PROVE  [TG!Next]_(TG!vars)
  <1>1. /\ pc = "wave" /\ wave > Len(plan.waves) /\ pc' = "returned"
        /\ UNCHANGED <<plan, worker, meta, allOk>>
    BY DEF Return
  <1>2. /\ \A t \in Task : t \in Past /\ (allOk => worker[t] = "done")
    BY <1>1, AllPast
  <1>3. \A t \in Task : Status(t) \in TG!Ended /\ (allOk => Status(t) = "done")
    BY <1>2, StatusMeaning
  <1>4. UNCHANGED <<absStatus, absAfter>>
    BY <1>1 DEF absStatus, absAfter, Status, Before
  <1>5. /\ absVerdict = "open" /\ absVerdict' \in {"ok", "failed"}
        /\ absVerdict' = "ok" => allOk
    BY <1>1 DEF absVerdict
  <1>6. TG!Close
    BY <1>3, <1>4, <1>5, AllKnown DEF TG!Close, absStatus, absAfter, absVerdict, IInv
  <1> QED
    BY <1>5, <1>6 DEF TG!Next, absVerdict

\* Whatever the executor, its tasks and the user do is allowed by the task graph.
THEOREM Refinement == Spec => ImplementsTaskGraph
  <1>1. Init /\ IInv => TG!Init
    BY InitImplements DEF IInv
  <1>2. IInv /\ [Next]_vars => [TG!Next]_(TG!vars)
    <2> SUFFICES ASSUME IInv, [Next]_vars PROVE [TG!Next]_(TG!vars)
      OBVIOUS
    <2>1. CASE SkipWave
      BY <2>1, SkipImplements
    <2>2. CASE StartWave
      BY <2>2, StartImplements
    <2>3. CASE FixUp
      BY <2>3, FixUpImplements
    <2>4. CASE Return
      BY <2>4, ReturnImplements
    <2>5. CASE JoinNext \/ JoinDone
      <3>1. /\ UNCHANGED <<plan, worker, meta>>
            /\ {pc, pc'} \subseteq {"join", "fixup"}
        BY <2>5 DEF JoinNext, JoinDone, command
      <3>2. UNCHANGED <<absStatus, absVerdict>>
        BY <3>1 DEF absStatus, absVerdict, Status
      <3> QED
        BY <3>1, <3>2, QuietImplements
    <2>6. ASSUME NEW t \in Task, TaskStart(t) \/ TaskEnd(t) \/ TaskPanic(t)
          PROVE  [TG!Next]_(TG!vars)
      BY <2>6, TaskStepImplements
    <2>7. CASE Command \/ CtrlC \/ UNCHANGED vars
      <3>1. /\ UNCHANGED <<plan, worker, meta, allOk>>
            /\ pc' = pc \/ {pc, pc'} \subseteq {"returned", "stopped", "reported"}
        BY <2>7 DEF Command, StopDashboard, DashboardEnds, DashboardSeesEnd, Report, CtrlC, vars,
                    command
      <3>2. UNCHANGED <<absStatus, absVerdict>>
        BY <3>1 DEF absStatus, absVerdict, Status
      <3> QED
        BY <3>1, <3>2, QuietImplements
    <2> QED
      BY <2>1, <2>2, <2>3, <2>4, <2>5, <2>6, <2>7 DEF Next, Executor
  <1> QED
    BY <1>1, <1>2, Invariance, PTL DEF Spec, ImplementsTaskGraph, TG!Spec
=============================================================================
