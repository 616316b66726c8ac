---------------------------- MODULE RunRegistry ----------------------------
(***************************************************************************)
(* The runs of one directory as src/commands/serve.rs keeps them: calls of *)
(* start_run, the background task each leaves behind, cancel_run,          *)
(* seal_dispatch and a client polling get_status, over the registry of     *)
(* active runs (under the runs lock) and the files that survive the        *)
(* server: run.meta.json, logs/ and outputs/.  The coordinator of a run is *)
(* the abstract one of TaskGraph, without dependencies; Coordinator        *)
(* models it in detail.                                                    *)
(***************************************************************************)
EXTENDS Naturals

CONSTANTS Run,         \* calls of start_run, each the run it would start
          Task,        \* the tasks of a run
          None,        \* no run, no file
          MaxMishaps   \* disk errors, full channels and kills of the server, together (a bound)

ASSUME RunRegistryAssumption == None \notin Run /\ MaxMishaps \in Nat

VARIABLES
    lock,      \* the start_run call that holds the runs lock, or None
    entry,     \* the run registered for the directory, or None
    pc,        \* where each start_run call is
    bg,        \* the background task of each run
    draft,     \* what it is about to save to run.meta.json
    token,     \* runs whose CancellationToken is set
    sealed,    \* runs whose coordinator has been sent a Seal
    ends,      \* how each task of each run has ended, as its report or its panic says
    runMeta,   \* run.meta.json
    metas,     \* logs/*.meta.json
    logs,      \* logs/ has entries
    outs,      \* outputs/ has entries
    poll,      \* the get_status call of a polling client
    current,   \* history: the last start_run that got past its checks
    unsaved,   \* history: runs whose verdict could not be saved
    lost,      \* history: tasks whose end did not reach their meta
    full,      \* history: static runs whose Seal found the channel full
    mishaps

calls   == <<lock, entry, pc>>
runs    == <<bg, draft, token, sealed, ends>>
disk    == <<runMeta, metas, logs, outs>>
history == <<current, unsaved, lost, full, mishaps>>
vars    == <<calls, runs, disk, poll, history>>

Preflight == {"clean", "stale", "outs", "dirs", "running", "metas", "insert"}
Settled   == {"done", "failed", "cancelled"}
End       == Settled \cup {"panicked"}
RunFile   == [run : Run, st : {"running", "done", "failed"}]
TaskFile  == [run : Run, st : {"open"} \cup Settled]

ASSUME NoneIsNoFile == None \notin RunFile \cup TaskFile

TypeOK ==
    /\ {lock, entry, current} \subseteq Run \cup {None}
    /\ \A r \in Run : lock = r <=> pc[r] \in Preflight
    /\ pc \in [Run -> Preflight \cup {"idle", "seal", "ok", "refused", "error", "dead"}]
    /\ bg \in [Run -> {"none", "live", "save", "remove", "over", "dead"}]
    /\ draft \in [Run -> RunFile \cup {None}]
    /\ token \subseteq Run /\ sealed \subseteq Run /\ unsaved \subseteq Run /\ full \subseteq Run
    /\ ends \in [Run -> [Task -> {"open"} \cup End]] /\ lost \subseteq Run \X Task
    /\ runMeta \in RunFile \cup {None}
    /\ metas \in [Task -> TaskFile \cup {None}]
    /\ {logs, outs} \subseteq BOOLEAN
    /\ poll \in [pc : {"idle", "reading"}, run : RunFile \cup {None}, todo : SUBSET Task,
                 seen : [Task -> TaskFile \cup {None}]]
    /\ mishaps \in 0 .. MaxMishaps

NoPoll == [pc |-> "idle", run |-> None, todo |-> {}, seen |-> [t \in Task |-> None]]

Init == /\ lock = None /\ entry = None /\ current = None
        /\ pc = [r \in Run |-> "idle"]
        /\ bg = [r \in Run |-> "none"] /\ draft = [r \in Run |-> None]
        /\ token = {} /\ sealed = {} /\ unsaved = {} /\ lost = {} /\ full = {}
        /\ ends = [r \in Run |-> [t \in Task |-> "open"]]
        /\ runMeta = None /\ metas = [t \in Task |-> None] /\ logs = FALSE /\ outs = FALSE
        /\ poll = NoPoll
        /\ mishaps = 0

----------------------------------------------------------------------------
(* start_run. *)

Goto(r, l) == pc' = [pc EXCEPT ![r] = l]

\* A return while the guard of the runs lock is alive drops it.
Leave(r, l) == Goto(r, l) /\ lock' = None

Mishap == mishaps < MaxMishaps /\ mishaps' = mishaps + 1

\* The background task of the run has not ended.
Unfinished(r) == bg[r] \in {"live", "save", "remove"}

\* handle.is_finished() of the registered run.
Finished == bg[entry] = "over"

\* Mutant: the handle of the registered run is not looked at.
MutEnter(r) ==
    /\ pc[r] = "idle" /\ lock = None
    /\ \E l \in {"clean", "stale"} : Goto(r, l)
    /\ lock' = r /\ entry' = None
    /\ UNCHANGED <<runs, disk, poll, history>>

\* The lock is taken and held for the whole preflight, unless a run is active.  What comes
\* next is the argument clean.
Enter(r) ==
    /\ pc[r] = "idle" /\ lock = None
    /\ IF entry # None /\ ~Finished
         THEN Goto(r, "refused") /\ UNCHANGED <<lock, entry>>
         ELSE /\ \E l \in {"clean", "stale"} : Goto(r, l)
              /\ lock' = r /\ entry' = None
    /\ UNCHANGED <<runs, disk, poll, history>>

\* From here on the disk is this run's.  A poll that overlaps it may see something of both
\* runs, and is not followed; how the tasks of a run that is over ended is forgotten.
Claim(r) ==
    /\ current' = r /\ poll' = NoPoll
    /\ ends' = [x \in Run |-> IF Unfinished(x) THEN ends[x] ELSE [t \in Task |-> "open"]]
    /\ lost' = {p \in lost : Unfinished(p[1])}
    /\ UNCHANGED <<bg, draft, token, sealed>>

\* remove_dir_all stops at its first error, with any part of the metas gone.
CleanLogs(r) ==
    /\ pc[r] = "clean"
    /\ Claim(r)
    /\ \/ /\ Goto(r, "outs")
          /\ logs' = FALSE /\ metas' = [t \in Task |-> None]
          /\ UNCHANGED <<lock, mishaps>>
       \/ /\ logs /\ Mishap /\ Leave(r, "error")
          /\ \E kept \in SUBSET Task :
                metas' = [t \in Task |-> IF t \in kept THEN metas[t] ELSE None]
          /\ UNCHANGED logs
    /\ UNCHANGED <<entry, runMeta, outs, unsaved, full>>

CleanOuts(r) ==
    /\ pc[r] = "outs"
    /\ \/ Goto(r, "dirs") /\ outs' = FALSE /\ UNCHANGED <<lock, mishaps>>
       \/ outs /\ Mishap /\ Leave(r, "error") /\ UNCHANGED outs
    /\ UNCHANGED <<entry, runs, runMeta, metas, logs, poll, current, unsaved, lost, full>>

\* Mutant: run.meta.json is written before the directory is found to be stale.
MutRejectStale(r) ==
    /\ pc[r] = "stale"
    /\ runMeta' = [run |-> r, st |-> "running"]
    /\ IF logs \/ outs
         THEN Leave(r, "refused") /\ UNCHANGED <<poll, current, lost, runs>>
         ELSE Goto(r, "dirs") /\ Claim(r) /\ UNCHANGED lock
    /\ UNCHANGED <<entry, metas, logs, outs, unsaved, full, mishaps>>

RejectStale(r) ==
    /\ pc[r] = "stale"
    /\ IF logs \/ outs
         THEN Leave(r, "refused") /\ UNCHANGED <<poll, current, lost, runs>>
         ELSE Goto(r, "dirs") /\ Claim(r) /\ UNCHANGED lock
    /\ UNCHANGED <<entry, disk, unsaved, full, mishaps>>

\* logs/messages makes logs/ non-empty; an error may come before or after it.
CreateDirs(r) ==
    /\ pc[r] = "dirs"
    /\ \/ Goto(r, "running") /\ logs' = TRUE /\ UNCHANGED <<lock, mishaps>>
       \/ Mishap /\ Leave(r, "error") /\ logs' \in {logs, TRUE}
    /\ UNCHANGED <<entry, runs, runMeta, metas, outs, poll, current, unsaved, lost, full>>

SaveRunning(r) ==
    /\ pc[r] = "running"
    /\ \/ /\ Goto(r, "metas") /\ runMeta' = [run |-> r, st |-> "running"]
          /\ UNCHANGED <<lock, mishaps>>
       \/ Mishap /\ Leave(r, "error") /\ UNCHANGED runMeta
    /\ UNCHANGED <<entry, runs, metas, logs, outs, poll, current, unsaved, lost, full>>

SavePending(r, t) ==
    /\ pc[r] = "metas" /\ metas[t] = None
    /\ \/ /\ metas' = [metas EXCEPT ![t] = [run |-> r, st |-> "open"]]
          /\ UNCHANGED <<lock, pc, mishaps>>
       \/ Mishap /\ Leave(r, "error") /\ UNCHANGED metas
    /\ UNCHANGED <<entry, runs, runMeta, logs, outs, poll, current, unsaved, lost, full>>

\* Mutant: the lock is dropped before the run is registered.
MutLaunch(r) ==
    /\ pc[r] = "metas" /\ \A t \in Task : metas[t] # None
    /\ \/ /\ Leave(r, "insert") /\ bg' = [bg EXCEPT ![r] = "live"]
          /\ UNCHANGED mishaps
       \/ Mishap /\ Leave(r, "error") /\ UNCHANGED bg
    /\ UNCHANGED <<entry, draft, token, sealed, ends, disk, poll, current, unsaved, lost, full>>

\* TaskRunner::new may fail; RunCoordinator::start and tokio::spawn do not.
Launch(r) ==
    /\ pc[r] = "metas" /\ \A t \in Task : metas[t] # None
    /\ \/ /\ Goto(r, "insert") /\ bg' = [bg EXCEPT ![r] = "live"]
          /\ UNCHANGED <<lock, mishaps>>
       \/ Mishap /\ Leave(r, "error") /\ UNCHANGED bg
    /\ UNCHANGED <<entry, draft, token, sealed, ends, disk, poll, current, unsaved, lost, full>>

\* The run is registered and the lock dropped; then a static run is sealed, a dynamic one not.
Insert(r) ==
    /\ pc[r] = "insert"
    /\ entry' = r
    /\ \E l \in {"seal", "ok"} : Leave(r, l)
    /\ UNCHANGED <<runs, disk, poll, history>>

\* Mutant: a static run is left open.
MutSealStatic(r) ==
    /\ pc[r] = "seal"
    /\ Goto(r, "ok")
    /\ UNCHANGED <<lock, entry, runs, disk, poll, history>>

\* try_send, its result ignored: with the lock dropped, dispatches may have filled the channel.
SealStatic(r) ==
    /\ pc[r] = "seal"
    /\ Goto(r, "ok")
    /\ \/ sealed' = sealed \cup {r} /\ UNCHANGED <<full, mishaps>>
       \/ Mishap /\ full' = full \cup {r} /\ UNCHANGED sealed
    /\ UNCHANGED <<lock, entry, bg, draft, token, ends, disk, poll, current, unsaved, lost>>

Start(r) == \/ CleanLogs(r) \/ CleanOuts(r) \/ RejectStale(r) \/ CreateDirs(r)
            \/ SaveRunning(r) \/ (\E t \in Task : SavePending(r, t)) \/ Launch(r) \/ Insert(r)
            \/ SealStatic(r)

----------------------------------------------------------------------------
(* The background task of a run, and its tasks. *)

SaveTask(r, t, s) == metas' = [metas EXCEPT ![t] = [run |-> r, st |-> s]]

\* The process may leave its output, whatever its end; a failure or a panic cancels the run,
\* and a task of a cancelled run is cancelled unless it ends first.  A panic touches no meta,
\* and an error of the last save is only warned about: the report counts all the same.
TaskEnd(r, t) ==
    /\ bg[r] = "live" /\ ends[r][t] = "open"
    /\ \E e \in End :
          /\ e = "cancelled" => r \in token
          /\ ends' = [ends EXCEPT ![r][t] = e]
          /\ token' = IF e \in {"failed", "panicked"} THEN token \cup {r} ELSE token
          /\ outs' \in {outs, TRUE}
          /\ \/ e # "panicked" /\ SaveTask(r, t, e) /\ UNCHANGED <<lost, mishaps>>
             \/ /\ lost' = lost \cup {<<r, t>>} /\ UNCHANGED metas
                /\ IF e = "panicked" THEN UNCHANGED mishaps ELSE Mishap
    /\ UNCHANGED <<calls, bg, draft, sealed, runMeta, logs, poll, current, unsaved, full>>

\* Mutant: a panicked task does not count against the run.
MutAllDone(r) == \A t \in Task : ends[r][t] \in {"done", "panicked"}

AllEnded(r) == \A t \in Task : ends[r][t] # "open"
AllDone(r)  == \A t \in Task : ends[r][t] = "done"

\* coord.run returns, by the reports alone, and run.meta.json is loaded.  A run cancelled when
\* its tasks were already done may get either verdict.
RunEnds(r) ==
    /\ bg[r] = "live" /\ AllEnded(r) /\ r \in sealed \cup token
    /\ \E ok \in IF ~AllDone(r) THEN {FALSE} ELSE IF r \in token THEN BOOLEAN ELSE {TRUE} :
          draft' = [draft EXCEPT ![r] =
                      IF runMeta = None THEN None
                      ELSE [runMeta EXCEPT !.st = IF ok THEN "done" ELSE "failed"]]
    /\ bg' = [bg EXCEPT ![r] = "save"]
    /\ UNCHANGED <<calls, token, sealed, ends, disk, poll, history>>

\* An error of the save is ignored.
SaveVerdict(r) ==
    /\ bg[r] = "save"
    /\ bg' = [bg EXCEPT ![r] = "remove"] /\ draft' = [draft EXCEPT ![r] = None]
    /\ \/ /\ runMeta' = IF draft[r] = None THEN runMeta ELSE draft[r]
          /\ UNCHANGED <<unsaved, mishaps>>
       \/ Mishap /\ unsaved' = unsaved \cup {r} /\ UNCHANGED runMeta
    /\ UNCHANGED <<calls, token, sealed, ends, metas, logs, outs, poll, current, lost, full>>

\* runs.lock().await.remove(&run_dir), whichever run is registered.
Remove(r) ==
    /\ bg[r] = "remove" /\ lock = None
    /\ entry' = None
    /\ bg' = [bg EXCEPT ![r] = "over"]
    /\ token' = token \ {r} /\ sealed' = sealed \ {r}
    /\ UNCHANGED <<lock, pc, draft, ends, disk, poll, history>>

Background(r) == RunEnds(r) \/ SaveVerdict(r) \/ Remove(r)

----------------------------------------------------------------------------
(* cancel_run, seal_dispatch, get_status, and the end of the server. *)

CancelRun ==
    /\ lock = None /\ entry # None
    /\ IF Finished
         THEN entry' = None /\ UNCHANGED token
         ELSE token' = token \cup {entry} /\ UNCHANGED entry
    /\ UNCHANGED <<lock, pc, bg, draft, sealed, ends, disk, poll, history>>

\* active_dispatch_state, then the request.
SealDispatch ==
    /\ lock = None /\ entry # None
    /\ IF Finished
         THEN entry' = None /\ UNCHANGED sealed
         ELSE sealed' = sealed \cup {entry} /\ UNCHANGED entry
    /\ UNCHANGED <<lock, pc, bg, draft, token, ends, disk, poll, history>>

\* run.meta.json is read and the log directory opened; the metas are read one by one.
PollRun ==
    /\ poll.pc = "idle" /\ \A r \in Run : pc[r] \notin Preflight
    /\ poll' = [pc |-> "reading", run |-> runMeta, seen |-> [t \in Task |-> None],
                todo |-> IF runMeta = None THEN {} ELSE {t \in Task : metas[t] # None}]
    /\ UNCHANGED <<calls, runs, disk, history>>

\* Mutant: run.meta.json is read after the metas.
MutPollTask(t) ==
    /\ poll.pc = "reading" /\ t \in poll.todo
    /\ poll' = [poll EXCEPT !.run = runMeta, !.seen[t] = metas[t], !.todo = @ \ {t}]
    /\ UNCHANGED <<calls, runs, disk, history>>

PollTask(t) ==
    /\ poll.pc = "reading" /\ t \in poll.todo
    /\ poll' = [poll EXCEPT !.seen[t] = metas[t], !.todo = @ \ {t}]
    /\ UNCHANGED <<calls, runs, disk, history>>

\* The answer is poll.run and poll.seen.
Answering == poll.pc = "reading" /\ poll.todo = {}

PollAnswer ==
    /\ Answering
    /\ poll' = NoPoll
    /\ UNCHANGED <<calls, runs, disk, history>>

\* The server is killed and started again: the files are all that is left.
Crash ==
    /\ Mishap
    /\ lock' = None /\ entry' = None
    /\ pc' = [r \in Run |-> IF pc[r] \in Preflight \cup {"seal"} THEN "dead" ELSE pc[r]]
    /\ bg' = [r \in Run |-> IF bg[r] \in {"live", "save", "remove"} THEN "dead" ELSE bg[r]]
    /\ poll' = NoPoll
    /\ token' = {} /\ sealed' = {}
    /\ UNCHANGED <<draft, ends, disk, current, unsaved, lost, full>>

Next == \/ \E r \in Run : Enter(r) \/ Start(r) \/ Background(r)
        \/ \E r \in Run, t \in Task : TaskEnd(r, t)
        \/ CancelRun \/ SealDispatch
        \/ PollRun \/ (\E t \in Task : PollTask(t)) \/ PollAnswer
        \/ Crash

Spec == Init /\ [][Next]_vars

\* Handlers and background tasks are polled when woken, tokio's lock is fair, and a codex
\* process ends.
FairSpec == /\ Spec
            /\ \A r \in Run : WF_vars(Start(r)) /\ WF_vars(Background(r))
            /\ \A r \in Run, t \in Task : WF_vars(TaskEnd(r, t))

----------------------------------------------------------------------------
(* Properties. *)

\* A run that is not over is the registered one, or about to be with the lock held: it can
\* always be cancelled, no second run of the directory writes the same files, and the
\* background task that removes "the" entry removes its own.  And an entry is always of a run
\* that is not over: no error, panic or kill leaves one behind that would have every later
\* start_run refused.
RunIsRegistered ==
    /\ \A r \in Run : Unfinished(r) => \/ entry = r
                                       \/ lock = r /\ pc[r] = "insert"
    /\ entry # None => Unfinished(entry)

\* run.meta.json says "running" only if somebody will change it, or its client got an error
\* instead of a run, or the server was killed, or the disk refused the verdict: a refused
\* start_run never takes over the file of another run.
RunningMeansOwned ==
    runMeta # None /\ runMeta.st = "running" =>
        LET r == runMeta.run
        IN  \/ pc[r] \in Preflight \cup {"error", "dead"}
            \/ bg[r] \in {"live", "save", "dead"}
            \/ r \in unsaved

\* What the meta of task t of run r says once nobody will write it any more: how the task
\* ended, or still pending or running if it panicked or the disk refused its last meta.
Shown(r, t) == [run |-> r, st |-> IF <<r, t>> \in lost THEN "open" ELSE ends[r][t]]

\* A verdict is given when every task has ended, and is done only if all are done.
Tells(r, st) == /\ st # "running" => \A t \in Task : ends[r][t] # "open"
                /\ st = "done" => \A t \in Task : ends[r][t] = "done"

\* get_status is not atomic, and run.meta.json survives a restart of the directory.  Still,
\* an answer that no start_run overlaps, after one that succeeded, is about that run; a
\* verdict in it is true of how the tasks ended, and comes with every task's own last meta.
\* (It may say "running" of a task that panicked or whose last save failed, and no other.)
StatusIsTruthful ==
    Answering /\ current # None /\ pc[current] \in {"seal", "ok"} =>
        /\ poll.run # None /\ poll.run.run = current
        /\ Tells(current, poll.run.st)
        /\ poll.run.st # "running" => \A t \in Task : poll.seen[t] = Shown(current, t)

\* A run that start_run started and that is static, sealed or cancelled gets its verdict on
\* disk and leaves the registry, whatever its tasks do, unless the server is killed or the
\* disk refuses.  The Seal of a static run may be lost: then only a cancel or another Seal
\* ends it.
StartedRunEnds ==
    \A r \in Run :
       (pc[r] = "seal" \/ r \in sealed \cup token) ~>
          \/ bg[r] = "over" /\ (runMeta.st # "running" \/ runMeta.run # r \/ r \in unsaved)
          \/ bg[r] = "dead"
          \/ r \in full \ (sealed \cup token)

----------------------------------------------------------------------------
(* The inductive invariant behind the proofs of RunRegistryProofs. *)

\* Whoever holds the lock has found no active run.
LockClears == lock # None => entry = None

\* A call that has not saved run.meta.json has left no trace of its run.
Untouched == {"idle", "clean", "stale", "outs", "dirs", "running", "refused"}
Fresh ==
    \A r \in Run :
        /\ pc[r] \in Untouched => bg[r] = "none" /\ (runMeta # None => runMeta.run # r)
        /\ pc[r] = "metas" => bg[r] = "none"
        /\ pc[r] = "insert" => Unfinished(r)
        /\ pc[r] \in {"insert", "seal", "ok"} => bg[r] # "none"
        /\ bg[r] = "none" => \A t \in Task : ends[r][t] = "open"

\* What is lost is how a task ended, and a panic always is.
LostEnds ==
    \A r \in Run, t \in Task :
        /\ <<r, t>> \in lost => ends[r][t] # "open"
        /\ ends[r][t] = "panicked" => <<r, t>> \in lost

\* From its claim on, the directory holds the call's own files only.
Claimed ==
    \A r \in Run :
        /\ pc[r] \in {"outs", "dirs", "running", "metas", "insert"} => current = r
        /\ pc[r] \in {"outs", "dirs", "running"} => \A t \in Task : metas[t] = None
        /\ pc[r] \in {"running", "metas"} => logs
        /\ pc[r] = "metas" =>
              /\ runMeta = [run |-> r, st |-> "running"]
              /\ \A t \in Task : metas[t] # None => metas[t] = [run |-> r, st |-> "open"]

LogsHoldMetas == logs \/ \A t \in Task : metas[t] = None

\* The directory tells of the run that was started in it, and a verdict there is true.
IsCurrent(r) == current = r /\ pc[r] \in {"insert", "seal", "ok"}
Started ==
    \A r \in Run : IsCurrent(r) =>
        /\ runMeta # None /\ runMeta.run = r /\ Tells(r, runMeta.st)
        /\ \A t \in Task : metas[t] = Shown(r, t)

\* Only the run started last may still be going on, with a true verdict in hand.
LastIsLive ==
    \A r \in Run :
        /\ Unfinished(r) => IsCurrent(r)
        /\ bg[r] = "save" => /\ draft[r] # None /\ draft[r].run = r
                             /\ draft[r].st # "running" /\ Tells(r, draft[r].st)

\* The background task is past the save only if it has saved, or could not.
SavedOrNot ==
    \A r \in Run :
        bg[r] \in {"remove", "over"} /\ runMeta = [run |-> r, st |-> "running"] => r \in unsaved

\* A poll is dropped by the claim, so what it has read is of the run started last.
PollSees ==
    poll.pc = "reading" =>
        /\ \A r \in Run : pc[r] \in Preflight => pc[r] \in {"clean", "stale"}
        /\ \A r \in Run : IsCurrent(r) =>
              /\ poll.run # None /\ poll.run.run = r /\ Tells(r, poll.run.st)
              /\ poll.run.st # "running" =>
                    \A t \in Task : t \in poll.todo \/ poll.seen[t] = Shown(r, t)

IInv == /\ TypeOK /\ LockClears /\ RunIsRegistered
        /\ Fresh /\ LostEnds /\ Claimed /\ LogsHoldMetas
        /\ Started /\ LastIsLive /\ SavedOrNot /\ PollSees
=============================================================================
