# A TLA+ model of codex-par

codex-par runs many Codex tasks at once, from the command line (`codex-par run`, waves of
tasks from a YAML file) or as an MCP server (`codex-par serve`, runs that accept new tasks
while they go).  This directory specifies its scheduling core, its registry of runs and the
files its parts share, checks them with TLC on small instances, and proves with TLAPS, for
instances of any size, every safety property the runs check, and that both schedulers
implement their common specification.

    tlasany Coordinator.tla                                     parse
    tlc -workers 2 -config coordinator_safety.cfg MCCoordinator model-check one run
    tlapm CoordinatorProofs.tla                                 check the proofs

`PROJECT.json` lists the runs, the theorems, the source lines of every definition, and for
each property a mutant of the model (a `Mut...` operator next to the definition it replaces)
that violates it.  Paths below are relative to the repository.

## The system

| component | state | operations | interacts with |
|---|---|---|---|
| run coordinator, `src/coordinator.rs` | `pending`, `accepted`, `running`, `completed`, `all_ok`, `sealed`, a `JoinSet` | one loop: spawn what is unblocked, exit test, `select!` over join, receive, cancelled | tasks (spawn, join), channel, token, metas |
| dispatch and cancel handlers, `src/commands/serve.rs` | `ActiveRun.accepted` under a mutex | `dispatch_task`, `dispatch_wave`, `seal_dispatch`, `cancel_run` | send on the channel, set the token |
| run registry, `src/commands/serve.rs` | `runs: Mutex<HashMap>`, `run.meta.json` | `start_run`, its background task, `get_status` | starts a coordinator, writes its verdict |
| wave planning, `src/config.rs` | locals of `into_waves` | validate, then Kahn's algorithm | `start_run`, `run_command`, batch validation |
| wave executor and command, `src/execution.rs`, `src/commands/run.rs` | `wave_failed`, `all_ok`, `reported`, a `JoinSet`, the token | skip or run each wave, fix up panics, Ctrl+C, dashboard, summary | tasks, metas, dashboard |
| task runner, `src/runner.rs` | the task's meta, a child process, a stderr drain task | `run_task`, `kill_and_wait`, `resume_task` | the codex process and its descendants |
| shared facts, `src/facts.rs` | `shared/facts.json` | `write_fact`, `read_all`, `build_preamble` | coordinator (preamble), handlers |
| mailbox, `src/message.rs` | `logs/messages/*.jsonl` | `append_jsonl`, `list_mailbox` | handlers |
| metas, `src/meta.rs` | `logs/*.meta.json` | save by rename, load | everyone |
| tail, status, dashboard, output reading | none | read the disk | metas, logs |
| configuration and event parsing, CLI, `artifact.rs` | none | sequential | - |

What is hard: the coordinator, its tasks, the handlers and the processes all run
concurrently and share a token, a channel and files; a `select!` polls its arms one after
the other while the world moves; the set of accepted names is kept twice; tasks fail, panic,
ignore SIGTERM and leave descendants behind; cancellation may come between any two steps.
A directory outlives its runs and the server: calls overlap on it under different locks, or
under none, and saves fail or are cut short.
The list of hazards, each at its line, is in `PROJECT.json`.

What makes each part correct: the coordinator starts nothing early, strands nothing, and its
verdict is truthful and last; the handlers and the coordinator agree on what was accepted;
planning accepts exactly the acyclic lists and loses no task; the executor's exit status,
summary and metas agree; a task's final meta is rewritten by a resume only, says done only of a
process that succeeded and whose events are all logged, and comes after that process is gone; a
directory has at most one run, what is read of it is that run's, and its verdict is true of how
the tasks ended, even where a meta is not; no fact, message or meta is lost or read
half-written as long as calls exclude each other, and where they do not, the model says what
can happen.

## The modules

    TaskGraph            what a run promises, whoever schedules it
      ^  ^
      |  +-- WaveExecutor   run_command + run_waves_quiet + tasks   (refines TaskGraph)
      +----- Coordinator    loop + channel + handlers + tasks       (refines TaskGraph)
    WavePlan             into_waves: the plans the other two start from
    TaskProcess          run_task and one codex process: what TaskStart..TaskEnd stand for
    RunRegistry          start_run, its background task, cancel, seal, status, a killed server;
                         a run inside it is TaskGraph's, without dependencies

    AtomicFile           write to one .tmp name, then rename: names, inodes, readers
      ^  ^
      |  +-- SharedFacts    write_fact, the facts lock, the preamble
      +----- TaskFiles      saves of a task's meta, resume_agent, a new run, tail
             Mailbox        send_message, list_mailbox
    RunFiles             SharedFacts, Mailbox and TaskFiles together

The theorems about a module are in one of its own: CoordinatorProofs, WavePlanProofs,
WaveExecutorProofs, TaskProcessProofs and RunRegistryProofs; RunFilesProofs has those about
Mailbox and TaskFiles, and rests on AtomicFileProofs and SharedFactsProofs.

**TaskGraph** is the abstract specification: a task becomes known, waits, works once and ends
once; it works only after everything it was promised to come after is done; the run closes
when nothing waits or works, and closes well only if every known task is done.  The promise
`after` is fixed when the task becomes known.

**Coordinator** has one action per step of `RunCoordinator::run`:

| code | action |
|---|---|
| `spawn_ready_tasks` and the exit test | `SpawnReady` |
| join arm, a report or a `JoinError` | `JoinNext` (`JoinReport`, `JoinError`); `JoinPending` if not ready |
| receive arm | `RecvDispatch`, `RecvSeal`; `RecvPending` if not ready or disabled |
| cancelled arm | `Drain`; `Park` if no arm was ready, `Wake` when one becomes so |
| end of `start_run`'s background task | `Finalize` |
| `run_task` as the coordinator sees it | `TaskStart`, `TaskEnd`, `TaskPanic` |
| `dispatch_task`, `dispatch_wave` | `BeginDispatch` (lookup and cancellation check), then under the `accepted` lock `DispatchTask`, `DispatchWave` or `DispatchRefused` |
| `seal_dispatch`, and the automatic seal of a static run | `SealDispatch` |
| `cancel_run` | `CancelRun` (the token), `CancelSeal` (the ignored `try_send`) |

The three polls of the `select!` are three steps, so a task may end, a request arrive or a
cancellation come between two of them.  A task's definition is its name and its
`depends_on`; prompts, facts and metadata other than the status are left out.  `before` is a
history variable: what had been accepted when a fenced task was, recorded to compare with
what its `barrier` achieves.  A name can be dispatched once (that is what the accepted set is
for), so `deps` is indexed by name and set when the request is sent.  `try_send` and the insert
into the server's set are one step, as nobody reads that set in between: the mutex is held.

**WavePlan** runs `into_waves` one loop iteration per step on every list of a set `Inputs`.
A wave is the set of the positions of its tasks.  `Synthetic` is the list that
`validate_dispatch_wave_defs` builds.

**WaveExecutor** models the CLI's run.  Its dashboard ends when the token is set or when it
sees every meta final; no fairness is assumed of the second, since the log directory may hold
an unfinished meta of an older run.

**TaskProcess** models `run_task` with its process.  The runner is a program counter through
spawn, pid, log, the `select!` (`read`, `poll`, `parked`), `kill_and_wait` (`kill`, `term`,
`termwait`, `killwait`), the wait for the drain and for the child.  The environment is a leader
that writes to two bounded pipes and exits when it likes, a descendant holding the same pipes,
signals (SIGTERM may be ignored, SIGKILL may not) and the kernel's end of file. `quirks`
selects what else may happen: a descendant that outlives its leader, lines that are not UTF-8,
disk errors.  The stderr drain (`DrainOpen`, `DrainLine`, `DrainBadLine`, `DrainEof`) is the
best effort it is in the code: it reads on without a log (`mute`), loses a line it cannot
write, and a bad line ends it and drops the pipe (`broken`), on which the process gets SIGPIPE,
or loses what it writes if it ignores that signal.  The environment's parts are external code
and are modelled from how the runner uses them.

**RunRegistry** models the calls of `start_run` for one directory, line by line under the
runs lock, and what each leaves behind:

| code | action |
|---|---|
| `start_run`: duplicate check, `clean`, stale artifacts, directories | `Enter`, `CleanLogs`, `CleanOuts`, `RejectStale`, `CreateDirs` |
| the saves of `run.meta.json` and of the pending metas | `SaveRunning`, `SavePending` |
| runner, coordinator and `tokio::spawn`; `runs.insert`; the automatic Seal | `Launch`, `Insert`, `SealStatic` |
| `run_task` of a task, and the join of its future | `TaskEnd` |
| the background task | `RunEnds`, `SaveVerdict`, `Remove` |
| `cancel_run`, `seal_dispatch` | `CancelRun`, `SealDispatch` |
| `get_status`, meta by meta | `PollRun`, `PollTask`, `PollAnswer` |
| disk errors, a server that is killed | the second disjunct of most of these, `Crash` |

The arguments `clean` and `dynamic` are choices made where they are read.  A meta is saved in
one step, or not at all: under the lock its writers exclude each other.  `ends` is how the
coordinator has seen a task end, `metas` what the disk says of it: a task that panics leaves its
meta as it was, and a failed save of the last meta is only warned about (the history variable
`lost` has both), while the verdict goes by the reports and panics alone.  A poll that a
`start_run` overlaps is not followed: it reads the files of two runs, as the code does.

**AtomicFile** is the way metas and facts are saved.  Opening the `.tmp` name truncates what is
there; a writer keeps the inode it opened, which another writer may have renamed meanwhile, and
two contents written to one inode may leave a mixture (`Torn`).

**SharedFacts** takes a `write_fact` through the lookup of the lock, the lock, `read_all`, open,
write and rename.  The lock belongs to a run in the registry, so calls before, after and across
runs use different ones or none; the history variable `clash` records that this has happened.
The preamble keeps the order and the size limit of `build_preamble`.

**Mailbox** writes a message in three pieces (two of the body, and the newline), as `serde_json`
does to an unbuffered file, with another sender's pieces or the end of a failed call between
them.  A listing reads one file per step and fails at a line that does not parse.  Messages
are numbered by `created_at`.

**TaskFiles** has one process per *attempt*, that is whoever works on the task: its run, calls
of `resume_agent`, and the task of a later run.  An attempt is a sequence of saves (pending,
running, pid, every 20 events, end) of three steps each, with the work between them.  `tail`
holds the inode of the log it opened.  The history variable `doubled` records that an attempt
began while a resume was at work, which no code prevents.

**RunFiles** puts the three together.  They have no state in common, so a behaviour is a
behaviour of one of them (`use`) while the others rest.

## What the runs check

| run | instance | shows |
|---|---|---|
| `coordinator_safety` | three tasks, of which one or two are in the initial plan, any dependencies for the dispatched ones, one dispatch in flight, channel of 2, panics; 939,000 states | `StartsAfterDone`, `DoneMeansAllDone`, `VerdictMeansSettled`, `AcceptedSetsAgree`, `DepsAcceptedFirst`, `NeverStuck`, `FinalMetaStays`, and `ImplementsTaskGraph` |
| `coordinator_liveness` | the same with two tasks, with fairness; 19,000 states | `Converges`, `QueuedIsTaken` |
| `coordinator_seal_race` | two tasks, no panics | a violation: `DoneCoversAccepted` |
| `coordinator_panic_meta` | two tasks | a violation: `PanicMarkedFailed` |
| `wave_plan` | 15,067 lists; 34,700 states | `PlannedIffWellFormed`, `WavesRespectDeps`, `WavesAreEarliest`, `NothingDropped`, `PlanningEnds` |
| `wave_executor` | a diamond and two chains of four tasks; 2,800 states | `StartsAfterEarlierWaves`, `ReportIsTruthful`, `FinalMetaStays`, `ImplementsTaskGraph`, `CommandEnds` |
| `task_process` | two lines per pipe, pipes of one line, all sets of quirks; 168,000 states | `DoneIsComplete`, `NothingLeftBehind`, `SignalsAreAimed`, `StderrNeverBlocks`, `TaskEnds` |
| `task_process_misclassified` | no quirks | a violation: `CompletedIsNotCancelled` |
| `task_process_helper` | a descendant that stays | a violation: `CancelConverges` |
| `run_registry` | two `start_run` calls, two tasks that may panic, one mishap (a disk error, a kill or a full channel); 440,000 states | `RunIsRegistered`, `RunningMeansOwned`, `StatusIsTruthful`, `StartedRunEnds` |
| `run_files` | three `write_fact` calls around one run, three messages on two threads, a task resumed once and run again; 641,000 states | `FactsReachWorkers`, `ListingIsWhole`, `PagesMissNothing`, `MetaSettles`, `TailEnds` |
| `meta_tmp_shared` | two resumes of one task | a violation: `ReadersSeeWholeMeta` |

Deadlock checking is off in all of them: runs, commands and tasks end.

The five violations are disagreements between the code and what the repository says of it:

 1. `docs/plans/2026-03-08-phase2-dynamic-scheduling-design.md:80` says that `seal_dispatch`
    closes the channel and that queued tasks are drained.  The handler only queues a Seal; a
    dispatch accepted between the two is answered "accepted", never received, has no meta, and
    the run is reported done.
 2. `docs/DESIGN.md:251` says that a panicked task's meta is set to failed.  The wave executor
    does it; the coordinator does not, and the meta stays running after the run is over.
 3. The comment at `src/runner.rs:270` says that the biased `select!` keeps a completed task
    from being classified as cancelled.  It may be: by the check after every line, or when the
    process ends between the two polls.
 4. `cancel_run` promises that tasks converge to cancelled.  A task whose process has exited
    while a descendant holds its stderr waits for the drain for ever.
 5. The comment at `src/meta.rs:129` says that readers never see partial JSON.  Two
    `resume_agent` calls for one task both find it final, and then write to one `.tmp` name: the
    second truncates the file that the first renames over the meta.  The same happens between a
    resume and a new run of the directory.

`StatusIsTruthful` says of an answer of `get_status` that a verdict in it is true of how the
tasks ended, and that a task shown without its end has panicked or could not save it: these two
the code does leave so (the first is violation 2).

Three properties hold under a condition on how calls overlap, which is part of the property and
recorded by a history variable, because nothing in the code ensures it:

 - `FactsReachWorkers`: overlapping `write_fact` calls use the same lock (`~clash`).  Otherwise
   one of them is lost, or fails.
 - `PagesMissNothing`: no send overlaps another send or a listing (`~overlap`).  Otherwise an
   older message may appear behind the offset a client has reached.
 - `MetaSettles`, `TailEnds`: no attempt begins while a resume is at work (`~doubled`).

Others name the cases they leave out, each of which does happen: the process of a task that
ended by an I/O error may run on (`~aborted` in `NothingLeftBehind`), the stderr log may lack
lines after a disk error or a bad line (`DoneIsComplete`), `run.meta.json` may say running for
good after an error of `start_run`, a kill or a failed save of the verdict (`error`, `dead` and
`unsaved` in `RunningMeansOwned`), and a static run whose Seal found the channel full goes on
until it is cancelled or sealed again (`full` in `StartedRunEnds`).  `AcceptedSetsAgree` is
about the moments when the server's mutex is free, and `FinalMetaStays` of Coordinator about
the scheduler with its dispatch, seal and cancel handlers: `resume_agent`, which rewrites a
final meta on purpose, is in TaskFiles.

### Bounds

 - Tasks: three are enough for a task running, one pending behind it and one dispatched behind
   both, and for a batch of two with a dependency inside it.  The proofs are for any set.
 - `Capacity` is 2 (256 in the code): the channel fills, refuses a dispatch and loses the Seal
   of `cancel_run`; with two slots a dispatch can stand behind a Seal and before it.
 - One dispatch call in flight (`Client`): sending is under a lock, so calls do not overlap
   there. A second call could only add a second request sent after the cancellation its check
   missed; the proofs cover any number.
 - `MaxWrites`, `PipeSize`: a second line makes a pipe of one line block.
 - Two `start_run` calls (`Run`) are a run and a restart of its directory, or two rivals; with
   two tasks metas can disagree.  `MaxMishaps` is one, at any place; panics are not counted, and
   the proofs cover any number.  (Two, 1.4 million states, show nothing else.)
 - `Writers`: two facts can clash, and a third can come after both; one run (`MaxRuns`) gives
   calls with and without a lock.  With three facts of one or two lines and a `Cap` of two the
   preamble is whole, cut, or empty.
 - Three messages with pages of one: a message can stand before, on and after a page.
 - Three attempts, two of them at once (`MaxAtWork`), and four in `meta_tmp_shared`. `Inode`
   has more than there are calls or attempts. `MaxUnread` is the lag of tail, not the length of
   the log.
 - Lists of three tasks contain every shape of cycle up to three, cycles behind a placed task,
   and duplicates; four names include one that is no file stem.

### Fairness

 - `WF(Loop)`, `WF(Executor)`, `WF(Runner)`, the drain, the dashboard: tokio polls a future that
   has been woken; these models give every future a thread when it needs one.  On a runtime with
   a single worker this is an assumption: whether the coordinator's loop gives way while it is
   cancelled is decided by tokio's cooperative budget, which is not in the repository.
 - `WF(TaskStart \/ TaskEnd)`: a codex process ends, or is killed when the run is cancelled.
   `task_process` checks the second half, and `task_process_helper` shows where it fails.
 - `WF(CancelSeal)`: nothing is awaited between the two halves of `cancel_run`.
 - Clients are not fair: nobody has to dispatch, seal or cancel.
 - In TaskProcess a write completes when the pipe has room, SIGKILL is delivered, and a
   descendant without `helper_stays` ends after its leader; the leader itself never has to exit
   or heed SIGTERM.

 - RunRegistry: a call of `start_run` that has the lock, the background task and the tasks go
   on; waiting for the lock is fair (tokio's is first come, first served). Clients never have
   to start, cancel, seal or poll.
 - RunFiles: `WF(Save)`, `SF(WorkEnds)` for each attempt (work is interrupted by the saves
   every 20 events, and a codex process has finitely many), `WF(Follow)` for tail, which sleeps
   200 ms.

## What is proved

Each theorem holds for every value of the constants that satisfies the module's assumptions,
which TLC evaluates in the runs.  They say that sets of names are finite or nonempty, that
bounds are natural numbers and a pipe, a page or a set of threads is not empty, that there are
two inodes (the name and its `.tmp`) and more than there are calls or attempts to use them, if
they are finitely many, and that a value which stands for nothing is none of the others
(`NoneIsNoFile`, `TornIsNoFacts`, `TornIsNoMeta`: a truncated file does not parse).

| module | theorem | states |
|---|---|---|
| CoordinatorProofs | `TypeCorrect`, `Invariance`, `OrderInvariance` | `Spec => []TypeOK`, `[]IInv`, `[]OInv` |
| | `StartOrder` | `StartsAfterDone` |
| | `DoneIsTruthful` | `DoneMeansAllDone` |
| | `VerdictIsLast` | `VerdictMeansSettled` |
| | `AcceptedSets` | `AcceptedSetsAgree` |
| | `FinalMeta` | `FinalMetaStays` |
| | `RequestsInOrder` | `DepsAcceptedFirst` |
| | `NoLostWakeup` | `NeverStuck` |
| | `Refinement` | `ImplementsTaskGraph` |
| WavePlanProofs | `TypeCorrect`, `Invariance` | `TypeOK`, `IInv` |
| | `DepsFirst`, `Earliest`, `AllPlanned` | `WavesRespectDeps`, `WavesAreEarliest`, `NothingDropped` |
| | `SoundAndComplete` | `PlannedIffWellFormed` |
| WaveExecutorProofs | `TypeCorrect`, `Invariance` | `TypeOK`, `IInv` |
| | `WaveOrder`, `ReportIsTrue` | `StartsAfterEarlierWaves`, `ReportIsTruthful` |
| | `FinalMeta`, `Refinement` | `FinalMetaStays`, `ImplementsTaskGraph` |
| TaskProcessProofs | `TypeCorrect`, `Invariance` | `TypeOK`, `IInv` |
| | `DoneHasAll`, `NothingLeft`, `SignalsHit` | `DoneIsComplete`, `NothingLeftBehind`, `SignalsAreAimed` |
| RunRegistryProofs | `TypeCorrect`, `Invariance` | `TypeOK`, `IInv` |
| | `Registered`, `RunningIsOwned`, `StatusIsTrue` | `RunIsRegistered`, `RunningMeansOwned`, `StatusIsTruthful` |
| SharedFactsProofs | `FactsInvariance` | `FactsSpec => []FactsInv` |
| RunFilesProofs | `Invariance` | `FactsInv`, `MailInv` and `TaskInv` together |
| | `TypeCorrect` | `TypeOK` |
| | `FactsReach`, `MetaIsFinal` | `FactsReachWorkers`, `MetaSettles` |
| | `ListingHasAll`, `PagesAreWhole` | `ListingIsWhole`, `PagesMissNothing` |

Hardly any of these properties is inductive.  The invariants that are stand at the end of the
module they are about, in parts that are named; TLC has checked each on the run of its module.
The theorem `Invariance` has one lemma for each action, or group of actions alike, and in it
one step for each part the action can disturb.

**Coordinator.**  `StartsAfterDone` needs to know why a completed task is done, that is, that
nothing has gone wrong without setting the token, and that a barrier still covers what it was
built to cover.  `IInv` adds to the type and the two accepted sets:

 - `Ledger`: an accepted task is pending, or spawned and then in running or completed, or was
   given up and is cancelled on disk; what left the JoinSet has ended.
 - `FailFast`: as long as the token is not set, every accepted task is pending or spawned, every
   completed one is done, and running is the JoinSet.  This is where the order "join, cancel,
   then spawn" within one iteration matters.
 - `BarrierCovers`: as long as the token is not set, a pending task's barrier, with what is
   completed, contains all that was accepted before it.
 - `Accounted`: as long as `allOk`, a task that is neither pending nor in the JoinSet is done.
 - `MetaFollowsWorker`: the status on disk is the one the task's life implies.
 - `Verdict`: what holds from the exit of the loop on.

`AcceptRequest` and the channel are the long cases, where `NamesDisjoint` says that a name
travels once.  `NoLostWakeup` needs more: a loop that parks with tasks pending and none in
flight waits for ever.  `OInv` says that the requests in the channel are acyclic each and
depend on nothing behind them (`QueueOrdered`), so that any set of accepted tasks has one that
waits for none of the others (`Layered`).  Of the pending tasks that one can be spawned unless
something runs, so from the exit test on, something runs or the token is set (`SomethingRuns`).

**Refinement.**  For both schedulers every action has a lemma that says which step of TaskGraph
it is, or that it is a stutter.  The promise `after` is what a task was accepted behind in the
one, the earlier waves in the other, and the abstract guards are the invariants above: a start
needs `StartsAfterDone` or `StartsAfterEarlierWaves`, a verdict needs `Accounted` or
`FlagsAgree`.

**WavePlan.**  A list is circular if some set of tasks is `Tangled`: each depends on one of the
set.  `KnotsRemain` says that no member of such a set is ever placed: what a ready task depends
on has been placed, and of the set nothing has; so the plan of a circular list does not end
well.  The other way round, when nothing is ready what remains is tangled
itself.  No induction on the length of the list is needed.  `Blocked` gives
`WavesAreEarliest`: what was left by a wave had a dependency outside the waves before.

**WaveExecutor.**  `FlagsAgree` relates `allOk`, `waveFailed` and the token to the tasks that
have been joined; `WaveInProgress` says that `reported` is everyone joined who did not panic,
so that the fix-up finds exactly the metas still running (`MetaFollows`).

**TaskProcess.**  `StdoutEnded` and `DrainStages` say what the end of a loop over a pipe means:
nobody holds its other end, and it is empty, or a bad line broke it.  With `LinesKept` (what was
written is logged, in the pipe, or lost for one of the reasons named there) that is
`DoneIsComplete`.  `Stages` ties the program counter to the life of the
child: a signal is sent only where the child has not been reaped, so its pid is still its own.

**RunRegistry.**  From the check that the directory has no active run to `runs.insert` the lock
is held (`LockClears`).  `LostEnds` and `Shown` relate what a meta says to how its task ended.
`Claimed` says what the directory holds meanwhile, call by call, `Started` and `LastIsLive`
what it holds afterwards, a verdict in hand included, and `PollSees` that what a poll has read
by the time it answers was true of the run it answers about.

**SharedFacts.**  As long as `~clash`, one call is past the lock (`OneInside`), what it has read
is still what the file holds when it renames (`FileInOrder`), and no value in the file was
there before an answered call for the same key began (`LastWord`).  AtomicFileProofs has the
facts about inodes that this and TaskFiles use.

**Mailbox.**  `ListingIsWhole` has no condition on overlaps.  A body that was written stays in
its file whatever other calls do to the line (`BodiesStay`), so a file that parses yields it;
what a listing was asked for is in a file it has yet to read, or found (`ListingOnItsWay`).
`PagesMissNothing` needs more, as long as `~overlap`.  Every composed message has begun a line
(`LinesBegun`), and one that was given up in the middle makes the listing fail; so a listing
that succeeds has found 1 to `composed` without a gap (`AllFound`).  `SortedWhole` says that
these, sorted, are in place, by counting how many are below and above each; then a page is the
next piece of the same sequence (`PageGrows`).

**TaskFiles.**  As long as `~doubled`, one attempt is at work, the latest (`OneAtWork`), the
`.tmp` name is its own from open to rename (`MetaInOrder`), and it does not end before its
final save is in place (`EndIsSaved`).

**Types.**  `TypeOK` of RunFiles holds where calls clash, too.  The one hard case is that a
writer which opens the `.tmp` name finds an inode nobody has open: it has none open itself
(`FactsClosed`, `MetaClosed`), and the others and the file use fewer than there are
(`OneIsFree`).

Model-checked only: the liveness properties `Converges`, `QueuedIsTaken`, `PlanningEnds`,
`CommandEnds`, `StderrNeverBlocks`, `TaskEnds`, `StartedRunEnds` and `TailEnds`, because proofs
under fairness need ENABLED; and the five violations, which are counterexamples.

## What is left out

 - In Coordinator and WaveExecutor: failures to save or load a meta where the code ignores
   them. RunRegistry has the disk errors of `start_run`, of a task's last meta and of the
   verdict; SharedFacts, Mailbox and TaskFiles have the errors that concurrent calls cause each
   other.
 - `dispatch_wave` with an empty list: it is sent and changes nothing.
 - A panic of the coordinator itself or of a handler.
 - `bump_run_task_count`: the number of tasks in `run.meta.json`, saved by the coordinator
   before the verdict and by nobody else meanwhile.
 - In TaskProcess: an error of `Child::wait`, a leader that closes its stdout and runs on, a
   descendant that leaves the process group, and the buffer inside `tokio::fs::File`,
   which is dropped without a flush: "logged" is what was handed to it.
 - The data of facts and messages: the truncation of a value, artifact paths, attribution of a
   message to a run and a task (a dispatched task has no `run_id`).
 - The lines tail does not show because they were written after the end of file it saw and
   before the final meta.

Not modelled at all, as `PROJECT.json` lists them: reading outputs in chunks, parsing of the
configuration and of events, the command line and `clean`, and `artifact.rs`, which nothing
uses.  They are sequential computations on one input and keep no state.

## Plan

In this order; all are done.

 1. TaskGraph, Coordinator and its proofs.
 2. WavePlan.
 3. WaveExecutor.
 4. TaskProcess.
 5. RunRegistry.
 6. SharedFacts, Mailbox, TaskFiles and RunFiles.
 7. Proofs: the invariants and action properties of every module, the refinements of TaskGraph
    by Coordinator and by WaveExecutor.

A module of the runtime's worker threads was planned and given up: what it would have to say
is in tokio, not in this repository.
