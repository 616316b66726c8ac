---------------------------- MODULE Coordinator ----------------------------
(***************************************************************************)
(* One run of the server: the coordinator loop of src/coordinator.rs, the  *)
(* dispatch channel, the tasks in its JoinSet, and the MCP handlers of     *)
(* src/commands/serve.rs that reach it (dispatch_task, dispatch_wave,      *)
(* seal_dispatch, cancel_run).  The loop, every task and every handler run *)
(* concurrently on tokio's worker threads.                                 *)
(*                                                                         *)
(* The select! of the loop polls its three arms one after the other, so a  *)
(* poll is three steps here ("join", "recv", "cancel"): a task may end, or *)
(* a request arrive, between two of them.  The VecDeque of pending tasks   *)
(* is a set: spawn_ready_tasks and the cancel arm take all of it at once,  *)
(* and nothing observes its order.  The definition carried by a request is *)
(* in deps, indexed by the task's name: a name is accepted only once.      *)
(***************************************************************************)
EXTENDS Naturals, Sequences, FiniteSets

CONSTANTS Task,       \* the names a client may use
          Client,     \* the dispatch calls that may be in progress at once
          Plans,      \* the task graphs start_run may be given: [names, deps]
          Capacity,   \* of the dispatch channel (256 in the code)
          Panics      \* whether a task's future may panic

\* Every nonempty set of names has a member that depends on none of the others.
Acyclic(S, d) == \A X \in SUBSET S : X # {} => \E x \in X : d[x] \cap X = {}

\* What into_waves lets through: known and acyclic dependencies.
IsPlan(p) == /\ p.names \subseteq Task
             /\ p.deps \in [Task -> SUBSET p.names]
             /\ \A t \in Task \ p.names : p.deps[t] = {}
             /\ Acyclic(p.names, p.deps)

ASSUME CoordinatorAssumption ==
    /\ IsFiniteSet(Task)
    /\ Capacity \in Nat \ {0}
    /\ Panics \in BOOLEAN
    /\ \A p \in Plans : IsPlan(p)

VARIABLES
    pc,         \* where the coordinator's loop is
    pending, accepted, running, completed, allOk, sealed,   \* locals of run
    joinSet,    \* tasks in the JoinSet, not joined yet
    deps, barrier,      \* depends_on and barrier of each accepted task
    queue, closed,      \* the dispatch channel
    cancel,     \* the run's CancellationToken
    worker,     \* each task's future: not spawned, spawned, started or how it ended
    meta,       \* the status in <task>.meta.json
    runStatus, taskCount,   \* run.meta.json
    srvAccepted,    \* the server's accepted set (ActiveRun.accepted)
    passed,     \* dispatch calls past the cancellation check, waiting for accepted's lock
    cancelling, \* cancel_run has set the token and is about to send Seal
    before      \* history: what was accepted before a task dispatched behind a barrier

locals == <<pending, accepted, running, completed, allOk, sealed, joinSet>>
disk   == <<meta, runStatus, taskCount>>
server == <<srvAccepted, passed, cancelling>>
vars   == <<pc, locals, deps, barrier, queue, closed, cancel, worker, disk, server, before>>

Outcome  == {"done", "failed", "cancelled", "panicked"}
Terminal == {"done", "failed", "cancelled"}
Seal     == [kind |-> "seal", names |-> {}]
Request  == [kind : {"task", "wave"}, names : SUBSET Task] \cup {Seal}

TypeOK ==
    /\ pc \in {"spawn", "join", "recv", "cancel", "parked", "exit", "over"}
    /\ pending \subseteq Task /\ accepted \subseteq Task
    /\ running \subseteq Task /\ completed \subseteq Task /\ joinSet \subseteq Task
    /\ allOk \in BOOLEAN /\ sealed \in BOOLEAN /\ closed \in BOOLEAN /\ cancel \in BOOLEAN
    /\ deps \in [Task -> SUBSET Task] /\ barrier \in [Task -> SUBSET Task]
    /\ before \in [Task -> SUBSET Task]
    /\ queue \in Seq(Request) /\ Len(queue) <= Capacity
    /\ worker \in [Task -> {"idle", "spawned", "started"} \cup Outcome]
    /\ meta \in [Task -> {"none", "pending", "running"} \cup Terminal]
    /\ runStatus \in {"running", "done", "failed"}
    /\ taskCount \in Nat
    /\ srvAccepted \subseteq Task /\ passed \subseteq Client /\ cancelling \in BOOLEAN

\* start_run: the metas are on disk, the channel is open, the coordinator is spawned.
Init ==
    \E p \in Plans :
        /\ pc = "spawn"
        /\ pending = p.names /\ accepted = p.names /\ srvAccepted = p.names
        /\ deps = p.deps
        /\ running = {} /\ completed = {} /\ joinSet = {}
        /\ allOk = TRUE /\ sealed = FALSE
        /\ barrier = [t \in Task |-> {}] /\ before = [t \in Task |-> {}]
        /\ queue = <<>> /\ closed = FALSE /\ cancel = FALSE
        /\ worker = [t \in Task |-> "idle"]
        /\ meta = [t \in Task |-> IF t \in p.names THEN "pending" ELSE "none"]
        /\ runStatus = "running" /\ taskCount = Cardinality(p.names)
        /\ passed = {} /\ cancelling = FALSE

----------------------------------------------------------------------------
(* The coordinator's loop. *)

\* Mutant: the barrier is forgotten.
MutIsUnblocked(t) == deps[t] \subseteq completed

IsUnblocked(t) == barrier[t] \cup deps[t] \subseteq completed

Ready == IF cancel THEN {} ELSE {t \in pending : IsUnblocked(t)}

\* Mutants: tasks still in the JoinSet, or requests still in the channel, are mistaken.
MutMayExitEarly(js, pend) == pend = {} /\ (sealed \/ closed)
MutMayExitDrained(js, pend) == js = {} /\ pend = {} /\ sealed /\ queue = <<>>

MayExit(js, pend) == js = {} /\ pend = {} /\ (sealed \/ closed)

\* spawn_ready_tasks, then the exit test.
SpawnReady ==
    /\ pc = "spawn"
    /\ pending' = pending \ Ready
    /\ running' = running \cup Ready
    /\ joinSet' = joinSet \cup Ready
    /\ worker' = [t \in Task |-> IF t \in Ready THEN "spawned" ELSE worker[t]]
    /\ pc' = IF MayExit(joinSet', pending') THEN "exit" ELSE "join"
    /\ UNCHANGED <<accepted, completed, allOk, sealed, deps, barrier, queue, closed, cancel,
                   disk, server, before>>

Exited == {t \in joinSet : worker[t] \in Outcome}

\* Mutants: a failure does not cancel the run; a cancelled task counts as a success.
MutJoinReportNoCancel(t) ==
    /\ worker[t] # "panicked"
    /\ running' = running \ {t} /\ completed' = completed \cup {t}
    /\ allOk' = (allOk /\ worker[t] = "done")
    /\ UNCHANGED cancel

MutJoinReportCancelledOk(t) ==
    /\ worker[t] # "panicked"
    /\ running' = running \ {t} /\ completed' = completed \cup {t}
    /\ allOk' = (allOk /\ worker[t] # "failed")
    /\ cancel' = (cancel \/ worker[t] = "failed")

\* A report: the task leaves running, whatever it says; a failure cancels the run.
JoinReport(t) ==
    /\ worker[t] # "panicked"
    /\ running' = running \ {t}
    /\ completed' = completed \cup {t}
    /\ allOk' = (allOk /\ worker[t] = "done")
    /\ cancel' = (cancel \/ worker[t] = "failed")

\* Mutant: a panic fails the run without cancelling it.
MutJoinErrorNoCancel(t) == /\ worker[t] = "panicked"
                           /\ allOk' = FALSE
                           /\ UNCHANGED <<running, completed, cancel>>

\* A JoinError carries no name: neither running nor completed nor the meta changes.
JoinError(t) ==
    /\ worker[t] = "panicked"
    /\ allOk' = FALSE
    /\ cancel' = TRUE
    /\ UNCHANGED <<running, completed>>

JoinNext ==
    /\ pc = "join"
    /\ \E t \in Exited : /\ joinSet' = joinSet \ {t}
                         /\ JoinReport(t) \/ JoinError(t)
    /\ pc' = "spawn"
    /\ UNCHANGED <<pending, accepted, sealed, deps, barrier, queue, closed, worker, disk,
                   server, before>>

JoinPending == /\ pc = "join" /\ Exited = {}
               /\ pc' = "recv"
               /\ UNCHANGED <<locals, deps, barrier, queue, closed, cancel, worker, disk,
                              server, before>>

BuildBarrier == running \cup pending

\* A wave always waits for what came before it, a task only if it names no dependency.
Fenced(m, t) == m.kind = "wave" \/ deps[t] = {}

\* accept_pending_task for each task of the request, and bump_run_task_count.
AcceptRequest(m) ==
    LET new == m.names \ accepted IN
    /\ accepted' = accepted \cup new
    /\ pending' = pending \cup new
    /\ barrier' = [t \in Task |-> IF t \in new
                                  THEN IF Fenced(m, t) THEN BuildBarrier ELSE {}
                                  ELSE barrier[t]]
    /\ before' = [t \in Task |-> IF t \in new
                                 THEN IF Fenced(m, t) THEN accepted ELSE {}
                                 ELSE before[t]]
    /\ meta' = [t \in Task |-> IF t \in new THEN "pending" ELSE meta[t]]
    /\ taskCount' = taskCount + Cardinality(new)

RecvDispatch ==
    /\ pc = "recv" /\ ~sealed /\ queue # <<>> /\ Head(queue).kind # "seal"
    /\ AcceptRequest(Head(queue))
    /\ queue' = Tail(queue)
    /\ pc' = "spawn"
    /\ UNCHANGED <<running, completed, allOk, sealed, joinSet, deps, closed, cancel, worker,
                   runStatus, server>>

RecvSeal ==
    /\ pc = "recv" /\ ~sealed /\ queue # <<>> /\ Head(queue).kind = "seal"
    /\ queue' = Tail(queue)
    /\ closed' = TRUE /\ sealed' = TRUE
    /\ pc' = "spawn"
    /\ UNCHANGED <<pending, accepted, running, completed, allOk, joinSet, deps, barrier, cancel,
                   worker, disk, server, before>>

RecvPending == /\ pc = "recv" /\ (sealed \/ queue = <<>>)
               /\ pc' = "cancel"
               /\ UNCHANGED <<locals, deps, barrier, queue, closed, cancel, worker, disk,
                              server, before>>

\* Mutant: the arm gives up every accepted task that is not running.
MutGivenUp == accepted \ running

GivenUp == pending

\* The cancel arm: close the channel, give up every pending task.
Drain ==
    /\ pc = "cancel" /\ cancel
    /\ closed' = TRUE /\ sealed' = TRUE /\ allOk' = FALSE
    /\ pending' = {}
    /\ meta' = [t \in Task |-> IF t \in GivenUp THEN "cancelled" ELSE meta[t]]
    /\ pc' = "spawn"
    /\ UNCHANGED <<accepted, running, completed, joinSet, deps, barrier, queue, cancel, worker,
                   runStatus, taskCount, server, before>>

\* Mutant: a request does not wake the loop.
MutArmReady == Exited # {} \/ cancel

ArmReady == Exited # {} \/ (~sealed /\ queue # <<>>) \/ cancel

\* No arm is ready: the loop sleeps until one of them is.
Park == /\ pc = "cancel" /\ ~cancel
        /\ pc' = "parked"
        /\ UNCHANGED <<locals, deps, barrier, queue, closed, cancel, worker, disk, server, before>>

Wake == /\ pc = "parked"
        /\ ArmReady
        /\ pc' = "join"
        /\ UNCHANGED <<locals, deps, barrier, queue, closed, cancel, worker, disk, server, before>>

\* run has returned: the background task of start_run writes the verdict.
Finalize == /\ pc = "exit"
            /\ pc' = "over"
            /\ runStatus' = IF allOk THEN "done" ELSE "failed"
            /\ UNCHANGED <<locals, deps, barrier, queue, closed, cancel, worker, meta, taskCount,
                           server, before>>

Loop == \/ SpawnReady \/ JoinNext \/ JoinPending \/ RecvDispatch \/ RecvSeal \/ RecvPending
        \/ Drain \/ Park \/ Wake \/ Finalize

----------------------------------------------------------------------------
(* The tasks: run_task as the coordinator sees it. *)

TaskStart(t) ==
    /\ worker[t] = "spawned"
    /\ worker' = [worker EXCEPT ![t] = "started"]
    /\ meta' = [meta EXCEPT ![t] = "running"]
    /\ UNCHANGED <<pc, locals, deps, barrier, queue, closed, cancel, runStatus, taskCount,
                   server, before>>

\* The final meta is written before the report is returned; only a cancelled run cancels.
TaskEnd(t) ==
    /\ worker[t] = "started"
    /\ \E o \in Terminal : /\ o = "cancelled" => cancel
                           /\ worker' = [worker EXCEPT ![t] = o]
                           /\ meta' = [meta EXCEPT ![t] = o]
    /\ UNCHANGED <<pc, locals, deps, barrier, queue, closed, cancel, runStatus, taskCount,
                   server, before>>

TaskPanic(t) ==
    /\ Panics
    /\ worker[t] = "started"
    /\ worker' = [worker EXCEPT ![t] = "panicked"]
    /\ UNCHANGED <<pc, locals, deps, barrier, queue, closed, cancel, disk, server, before>>

----------------------------------------------------------------------------
(* The MCP handlers. *)

\* Mutant: an unbounded channel.
MutCanSend == ~closed

CanSend == ~closed /\ Len(queue) < Capacity

\* handle.is_finished() is false until the background task has ended.
Active == pc # "over"

\* dispatch_task and dispatch_wave up to accepted.lock().await.
BeginDispatch(c) ==
    /\ c \notin passed
    /\ Active /\ ~cancel
    /\ passed' = passed \cup {c}
    /\ UNCHANGED <<pc, locals, deps, barrier, queue, closed, cancel, worker, disk, srvAccepted,
                   cancelling, before>>

\* Under accepted's lock: the request is sent, then its names are recorded.
SendDispatch(c, kind, names, d) ==
    /\ c \in passed
    /\ CanSend
    /\ queue' = Append(queue, [kind |-> kind, names |-> names])
    /\ srvAccepted' = srvAccepted \cup names
    /\ deps' = [t \in Task |-> IF t \in names THEN d[t] ELSE deps[t]]
    /\ passed' = passed \ {c}
    /\ UNCHANGED <<pc, locals, barrier, closed, cancel, worker, disk, cancelling, before>>

\* Mutants: the name, or the dependencies, are not validated.
MutDispatchTaskAnyName(c) ==
    \E t \in Task : \E D \in SUBSET srvAccepted :
        SendDispatch(c, "task", {t}, [u \in {t} |-> D])

MutDispatchTaskAnyDeps(c) ==
    \E t \in Task \ srvAccepted : \E D \in SUBSET (Task \ {t}) :
        SendDispatch(c, "task", {t}, [u \in {t} |-> D])

\* validate_dispatch_name and validate_dispatch_deps.
DispatchTask(c) ==
    \E t \in Task \ srvAccepted : \E D \in SUBSET srvAccepted :
        SendDispatch(c, "task", {t}, [u \in {t} |-> D])

\* validate_dispatch_wave_defs: new names, known and acyclic dependencies.
DispatchWave(c) ==
    \E W \in (SUBSET (Task \ srvAccepted)) \ {{}} : \E d \in [W -> SUBSET (srvAccepted \cup W)] :
        /\ Acyclic(W, d)
        /\ SendDispatch(c, "wave", W, d)

\* A call that ends in an error: invalid, closed or full.
DispatchRefused(c) ==
    /\ c \in passed
    /\ passed' = passed \ {c}
    /\ UNCHANGED <<pc, locals, deps, barrier, queue, closed, cancel, worker, disk, srvAccepted,
                   cancelling, before>>

\* seal_dispatch, and start_run for a run that is not dynamic.
SealDispatch ==
    /\ Active /\ CanSend
    /\ queue' = Append(queue, Seal)
    /\ UNCHANGED <<pc, locals, deps, barrier, closed, cancel, worker, disk, server, before>>

\* cancel_run: the token first, then a Seal that may find the channel full or closed.
CancelRun ==
    /\ Active /\ ~cancelling
    /\ cancel' = TRUE
    /\ cancelling' = TRUE
    /\ UNCHANGED <<pc, locals, deps, barrier, queue, closed, worker, disk, srvAccepted, passed,
                   before>>

CancelSeal ==
    /\ cancelling
    /\ cancelling' = FALSE
    /\ queue' = IF CanSend THEN Append(queue, Seal) ELSE queue
    /\ UNCHANGED <<pc, locals, deps, barrier, closed, cancel, worker, disk, srvAccepted, passed,
                   before>>

----------------------------------------------------------------------------
TaskStep(t) == TaskStart(t) \/ TaskEnd(t) \/ TaskPanic(t)

ClientStep ==
    \/ \E c \in Client : \/ BeginDispatch(c) \/ DispatchTask(c) \/ DispatchWave(c)
                         \/ DispatchRefused(c)
    \/ SealDispatch \/ CancelRun \/ CancelSeal

Next == Loop \/ (\E t \in Task : TaskStep(t)) \/ ClientStep

Spec == Init /\ [][Next]_vars

\* tokio polls a woken task, and a codex process ends or is killed; clients may stop calling.
Fairness == /\ WF_vars(Loop) /\ WF_vars(CancelSeal)
            /\ \A t \in Task : WF_vars(TaskStart(t) \/ TaskEnd(t))

FairSpec == Spec /\ Fairness

----------------------------------------------------------------------------
(* Properties. *)

Spawned == {t \in Task : worker[t] # "idle"}

\* A task is spawned only when every task it depends on, and everything accepted before it
\* if it was dispatched behind a barrier, has ended well: a failed or panicked task cancels
\* the run in the step that joins it, so nothing waiting for it is ever spawned.
StartsAfterDone == \A t \in Spawned : \A u \in deps[t] \cup before[t] : worker[u] = "done"

\* A run is reported done only if every task the coordinator accepted is done, on disk too.
DoneMeansAllDone ==
    runStatus = "done" => \A t \in accepted : worker[t] = "done" /\ meta[t] = "done"

\* Once the run has a verdict nothing of it is left: no future in the JoinSet, nothing
\* pending, and a final meta for every accepted task whose future did not panic.
VerdictMeansSettled ==
    runStatus # "running" =>
        /\ joinSet = {} /\ pending = {}
        /\ \A t \in accepted : worker[t] # "panicked" => meta[t] \in Terminal

NamesIn(q) == UNION {q[i].names : i \in DOMAIN q}

\* The server's accepted set and the coordinator's agree up to the requests still in the
\* channel, and no name is in both: the two sets are kept by different tasks under
\* different locks and never compared by the code.  (DispatchTask sends and records in one
\* step.  In the code the coordinator may receive between the two, but the mutex over the
\* server's set is held across both: no handler reads the set meanwhile, and this is what
\* holds whenever it is free.)
AcceptedSetsAgree == /\ srvAccepted = accepted \cup NamesIn(queue)
                     /\ accepted \cap NamesIn(queue) = {}

\* Requests reach the coordinator after the ones they depend on.
DepsAcceptedFirst == \A t \in accepted : deps[t] \subseteq accepted

\* The loop never sleeps with pending tasks and none in the JoinSet: a barrier or a
\* dependency that nothing will ever complete cannot arise.
NeverStuck == pc = "parked" /\ pending # {} => joinSet # {}

\* A final meta is final: neither the dispatch, seal and cancel handlers, nor the drain, nor a
\* late task overwrites it.  (resume_agent does so on purpose: see TaskFiles.)
FinalMetaStays == [][\A t \in Task : meta[t] \in Terminal => meta'[t] = meta[t]]_vars

Status(t) == IF t \notin accepted THEN "unknown"
             ELSE IF t \in pending THEN "waiting"
             ELSE CASE worker[t] = "idle" -> "cancelled"
                    [] worker[t] \in {"spawned", "started"} -> "working"
                    [] worker[t] = "panicked" -> "failed"
                    [] OTHER -> worker[t]

TG == INSTANCE TaskGraph WITH
        status  <- [t \in Task |-> Status(t)],
        after   <- [t \in Task |-> IF t \in accepted THEN deps[t] \cup before[t] ELSE {}],
        verdict <- IF runStatus = "running" THEN "open"
                   ELSE IF runStatus = "done" THEN "ok" ELSE "failed"

\* The coordinator is a scheduler of the abstract task graph.
ImplementsTaskGraph == TG!Spec

\* A cancelled run comes to an end whatever its tasks do, and so does a sealed run: nothing
\* pending waits for ever.
SealQueued == \E i \in DOMAIN queue : queue[i].kind = "seal"
Converges  == (cancel \/ SealQueued) ~> runStatus # "running"

\* A request with no Seal ahead of it is taken, unless the run is cancelled meanwhile.
AheadOfSeal(t) == /\ ~sealed
                  /\ \E i \in DOMAIN queue : /\ t \in queue[i].names
                                             /\ \A j \in 1 .. i : queue[j].kind # "seal"
QueuedIsTaken == \A t \in Task : AheadOfSeal(t) ~> (t \in accepted \/ cancel)

\* docs/plans/2026-03-08-phase2-dynamic-scheduling-design.md says that seal_dispatch closes
\* the channel and that the coordinator drains the queued tasks before it exits: a run that
\* is done has done every task whose dispatch was answered "accepted".
DoneCoversAccepted ==
    runStatus = "done" => \A t \in srvAccepted : meta[t] = "done"

\* What docs/DESIGN.md promises of a panic: the meta says failed once the run is over.
PanicMarkedFailed ==
    runStatus # "running" => \A t \in Task : worker[t] = "panicked" => meta[t] = "failed"

----------------------------------------------------------------------------
(* The inductive invariant behind the proofs of CoordinatorProofs. *)

\* Where an accepted task is: pending, in running (until joined; for ever after a panic),
\* completed, or given up by the cancel arm with a cancelled meta.
Ledger ==
    /\ pending \cup Spawned \subseteq accepted /\ pending \cap Spawned = {}
    /\ Spawned = running \cup completed
    /\ joinSet \subseteq running \ completed
    /\ \A t \in Spawned \ joinSet : worker[t] \in Outcome
    /\ \A t \in accepted : t \in pending \cup Spawned \/ meta[t] = "cancelled"

\* What went wrong has cancelled the run: without the token, everything accepted is still
\* accounted for and every completed task is done.
FailFast ==
    /\ (\E t \in Task : worker[t] = "cancelled") => cancel
    /\ ~cancel => /\ accepted = pending \cup Spawned
                  /\ \A t \in completed : worker[t] = "done"
                  /\ running = joinSet

\* A barrier, with what is completed, covers all that was accepted before the task.
BarrierCovers == ~cancel => \A t \in pending : before[t] \subseteq barrier[t] \cup completed

\* As long as nothing has gone wrong, a task that left pending and the JoinSet is done.
Accounted == allOk => \A t \in accepted \ pending : t \in joinSet \/ worker[t] = "done"

\* The meta on disk follows the task through its life.
MetaFollowsWorker ==
    \A t \in Task :
        /\ t \notin accepted => meta[t] = "none"
        /\ t \in pending \/ worker[t] = "spawned" => meta[t] = "pending"
        /\ worker[t] = "started" => meta[t] = "running"
        /\ worker[t] \in Terminal => meta[t] = worker[t]

Verdict == /\ pc \in {"exit", "over"} => joinSet = {} /\ pending = {}
           /\ (pc = "over") <=> (runStatus # "running")
           /\ runStatus = "done" => allOk

\* A name travels through the channel once.
NamesDisjoint(q) == \A i, j \in DOMAIN q : i # j => q[i].names \cap q[j].names = {}

IInv == /\ TypeOK
        /\ AcceptedSetsAgree /\ NamesDisjoint(queue)
        /\ Ledger /\ FailFast /\ BarrierCovers /\ Accounted /\ MetaFollowsWorker /\ Verdict
        /\ StartsAfterDone

(* What the refinement and NeverStuck need besides: the order of the requests. *)

\* Accepted tasks wait for accepted tasks only.
WaitsKnown == \A t \in accepted : deps[t] \cup barrier[t] \cup before[t] \subseteq accepted

\* Whatever set of accepted tasks is left, one of them waits for none of the others.
Layered == Acyclic(accepted, [t \in Task |-> deps[t] \cup barrier[t]])

NamesUpTo(q, i) == UNION {q[j].names : j \in 1 .. i}

\* What a request in the channel depends on is accepted, ahead of it, or acyclic within it.
QueueOrdered ==
    \A i \in DOMAIN queue :
        /\ Acyclic(queue[i].names, deps)
        /\ \A t \in queue[i].names : deps[t] \subseteq accepted \cup NamesUpTo(queue, i)

\* From the exit test to the next, pending tasks have one to wait for, or the token, which
\* was then set before the loop could park.
SomethingRuns ==
    pending # {} /\ pc \in {"join", "recv", "cancel", "parked"} =>
        joinSet # {} \/ (cancel /\ pc # "parked")

OInv == WaitsKnown /\ Layered /\ QueueOrdered /\ SomethingRuns
=============================================================================
