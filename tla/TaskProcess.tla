---------------------------- MODULE TaskProcess ----------------------------
(***************************************************************************)
(* One task and its codex process: TaskRunner::run_task, run_task_inner,   *)
(* spawn_stderr_drain and kill_and_wait of src/runner.rs, against a leader *)
(* process that writes to two pipes of bounded size, a descendant of it    *)
(* that may hold the same pipes open, and a cancellation at any moment.    *)
(* The runner, the drain task and the processes are concurrent.            *)
(***************************************************************************)
EXTENDS Naturals, Sequences

CONSTANTS MaxWrites,  \* lines the leader may write to each pipe (a bound)
          PipeSize,   \* lines a pipe holds
          Quirks      \* what the environment may do: subsets of QuirkKinds

\* A descendant that outlives the leader; lines that are not UTF-8; disk errors.
QuirkKinds == {"helper_stays", "bad_line", "disk_error"}

ASSUME TaskProcessAssumption == /\ MaxWrites \in Nat /\ PipeSize \in Nat \ {0}
                                /\ Quirks \subseteq SUBSET QuirkKinds

VARIABLES
    pc,         \* where run_task is
    status, error, aborted,   \* meta.status, a stdout read error, an early return by ?
    cancel,     \* the CancellationToken
    drain,      \* the stderr drain task: "mute" without its log, "broken" by a bad line
    leader, code,   \* the codex process, and how it exited
    helper,     \* its descendant
    want,       \* the pipe the leader is writing to
    out, err,   \* lines in the two pipes
    written, errWritten, logged, errLogged,   \* lines written and lines saved
    sig,        \* the last signal sent to the process group
    quirks,     \* what this environment does
    okFirst     \* history: the process had exited with 0, and its pipes were closed, before cancel

report  == <<status, error, aborted>>
process == <<leader, code, helper, want>>
pipes   == <<out, err, written, errWritten, logged, errLogged>>
vars    == <<pc, report, cancel, drain, process, pipes, sig, quirks, okFirst>>

TypeOK ==
    /\ pc \in {"spawn", "pid", "log", "read", "poll", "parked", "kill", "term", "termwait",
               "killwait", "drain", "wait", "end"}
    /\ status \in {"running", "done", "failed", "cancelled"}
    /\ error \in BOOLEAN /\ aborted \in BOOLEAN /\ cancel \in BOOLEAN /\ okFirst \in BOOLEAN
    /\ drain \in {"off", "open", "reading", "mute", "done", "broken"}
    /\ leader \in {"none", "live", "zombie", "reaped"} /\ code \in {"none", "ok", "fail", "signal"}
    /\ helper \in {"none", "live", "gone"} /\ want \in {"none", "out", "err"}
    /\ out \in Seq({"line", "bad"}) /\ Len(out) <= PipeSize /\ err \in 0 .. PipeSize
    /\ written \in 0 .. MaxWrites /\ errWritten \in 0 .. MaxWrites
    /\ logged \in 0 .. MaxWrites /\ errLogged \in 0 .. MaxWrites
    /\ sig \in {"none", "term", "kill"}
    /\ quirks \in Quirks

Init == /\ pc = "spawn" /\ status = "running" /\ error = FALSE /\ aborted = FALSE
        /\ cancel = FALSE /\ drain = "off"
        /\ leader = "none" /\ code = "none" /\ helper = "none" /\ want = "none"
        /\ out = <<>> /\ err = 0 /\ written = 0 /\ errWritten = 0 /\ logged = 0 /\ errLogged = 0
        /\ sig = "none" /\ quirks \in Quirks /\ okFirst = FALSE

\* Somebody still holds the write ends.
PipesHeld == leader = "live" \/ helper = "live"

----------------------------------------------------------------------------
(* The runner. *)

\* An error returned by ?: run_task makes it the end of the task, and drops the child.
Abort == /\ status' = IF cancel THEN "cancelled" ELSE "failed"
         /\ aborted' = TRUE
         /\ pc' = "end"
         /\ UNCHANGED error

Spawn ==
    /\ pc = "spawn"
    /\ \/ /\ leader' = "live" /\ pc' = "pid" /\ UNCHANGED report
       \/ "disk_error" \in quirks /\ Abort /\ UNCHANGED leader
    /\ UNCHANGED <<cancel, drain, code, helper, want, pipes, sig, quirks, okFirst>>

\* Mutant: stderr is drained only once stdout has ended.
MutDrainStart == "off"

DrainStart == "open"

PersistPid ==
    /\ pc = "pid"
    /\ \/ pc' = "log" /\ drain' = DrainStart /\ UNCHANGED report
       \/ "disk_error" \in quirks /\ Abort /\ UNCHANGED drain
    /\ UNCHANGED <<cancel, process, pipes, sig, quirks, okFirst>>

OpenLog ==
    /\ pc = "log"
    /\ \/ pc' = "read" /\ UNCHANGED report
       \/ "disk_error" \in quirks /\ Abort
    /\ UNCHANGED <<cancel, drain, process, pipes, sig, quirks, okFirst>>

\* A line is logged, then the token is looked at: chatty tasks must respond to Ctrl+C.
ReadLine ==
    /\ pc = "read" /\ out # <<>> /\ Head(out) = "line"
    /\ out' = Tail(out)
    /\ \/ /\ logged' = logged + 1
          /\ pc' = IF cancel THEN "kill" ELSE "read"
          /\ UNCHANGED report
       \/ "disk_error" \in quirks /\ Abort /\ UNCHANGED logged
    /\ UNCHANGED <<cancel, drain, process, err, written, errWritten, errLogged, sig, quirks,
                   okFirst>>

\* The loop is left, but the reader, and so the pipe, stays open.
ReadError ==
    /\ pc = "read" /\ out # <<>> /\ Head(out) = "bad"
    /\ out' = Tail(out)
    /\ error' = TRUE
    /\ pc' = "drain"
    /\ UNCHANGED <<status, aborted, cancel, drain, process, err, written, errWritten, logged,
                   errLogged, sig, quirks, okFirst>>

\* Mutant: an empty pipe is taken for its end.
MutAtEof == out = <<>>

AtEof == out = <<>> /\ ~PipesHeld

ReadEof == /\ pc = "read" /\ AtEof
           /\ pc' = "drain"
           /\ UNCHANGED <<report, cancel, drain, process, pipes, sig, quirks, okFirst>>

\* The biased select!: stdout has been polled and is not ready, the token is next.
ReadPending == /\ pc = "read" /\ out = <<>> /\ PipesHeld
               /\ pc' = "poll"
               /\ UNCHANGED <<report, cancel, drain, process, pipes, sig, quirks, okFirst>>

\* Mutant: the token is looked at only after a line.
MutPollCancel == /\ pc = "poll"
                 /\ pc' = "parked"
                 /\ UNCHANGED <<report, cancel, drain, process, pipes, sig, quirks, okFirst>>

PollCancel == /\ pc = "poll"
              /\ pc' = IF cancel THEN "kill" ELSE "parked"
              /\ UNCHANGED <<report, cancel, drain, process, pipes, sig, quirks, okFirst>>

Wake == /\ pc = "parked" /\ (out # <<>> \/ ~PipesHeld \/ cancel)
        /\ pc' = "read"
        /\ UNCHANGED <<report, cancel, drain, process, pipes, sig, quirks, okFirst>>

----------------------------------------------------------------------------
(* kill_and_wait. *)

Reap == leader = "zombie" /\ leader' = "reaped"

Cancelled == status' = "cancelled" /\ pc' = "drain" /\ UNCHANGED <<error, aborted>>

\* try_wait: a process that has exited is reaped and nothing is signalled.
TryWait ==
    /\ pc = "kill"
    /\ \/ Reap /\ Cancelled
       \/ leader = "live" /\ pc' = "term" /\ UNCHANGED <<leader, report>>
    /\ UNCHANGED <<cancel, drain, code, helper, want, pipes, sig, quirks, okFirst>>

SendTerm == /\ pc = "term"
            /\ sig' = "term" /\ pc' = "termwait"
            /\ UNCHANGED <<report, cancel, drain, process, pipes, quirks, okFirst>>

TermReap == /\ pc = "termwait" /\ Reap /\ Cancelled
            /\ UNCHANGED <<cancel, drain, code, helper, want, pipes, sig, quirks, okFirst>>

\* Mutant: SIGKILL goes to the group even if the leader has been reaped meanwhile.
MutTermTimeout == /\ \/ pc = "termwait"
                     \/ pc = "drain" /\ sig = "term"
                  /\ sig' = "kill" /\ pc' = "killwait"
                  /\ UNCHANGED <<report, cancel, drain, process, pipes, quirks, okFirst>>

\* SIGKILL_TIMEOUT elapses before the leader is reaped.
TermTimeout == /\ pc = "termwait"
               /\ sig' = "kill" /\ pc' = "killwait"
               /\ UNCHANGED <<report, cancel, drain, process, pipes, quirks, okFirst>>

KillReap == /\ pc = "killwait" /\ Reap /\ Cancelled
            /\ UNCHANGED <<cancel, drain, code, helper, want, pipes, sig, quirks, okFirst>>

----------------------------------------------------------------------------
(* After the loop. *)

\* Mutant: a cancelled task does not wait for its stderr.
MutDrained == drain \in {"done", "broken"} \/ status = "cancelled"

Drained == drain \in {"done", "broken"}

JoinDrain == /\ pc = "drain" /\ Drained
             /\ pc' = IF status = "cancelled" THEN "end" ELSE "wait"
             /\ UNCHANGED <<report, cancel, drain, process, pipes, sig, quirks, okFirst>>

\* Mutant: the exit code alone decides.
MutVerdict == IF code = "ok" THEN "done" ELSE "failed"

Verdict == IF code = "ok" /\ ~error THEN "done" ELSE "failed"

WaitChild == /\ pc = "wait" /\ Reap
             /\ status' = Verdict
             /\ pc' = "end"
             /\ UNCHANGED <<error, aborted, cancel, drain, code, helper, want, pipes, sig, quirks,
                            okFirst>>

Runner == \/ Spawn \/ PersistPid \/ OpenLog
          \/ ReadLine \/ ReadError \/ ReadEof \/ ReadPending \/ PollCancel \/ Wake
          \/ TryWait \/ SendTerm \/ TermReap \/ TermTimeout \/ KillReap
          \/ JoinDrain \/ WaitChild

----------------------------------------------------------------------------
(* The drain task: best effort, so that no error of it is told to anybody. *)

\* If the log cannot be opened the lines are read all the same.
DrainOpen == /\ drain = "open"
             /\ \/ drain' = "reading"
                \/ "disk_error" \in quirks /\ drain' = "mute"
             /\ UNCHANGED <<pc, report, cancel, process, pipes, sig, quirks, okFirst>>

Draining == drain \in {"reading", "mute"}

\* Mutant: a line is saved and not consumed.
MutDrainLine == /\ Draining /\ err > 0
                /\ errLogged' = errLogged + 1
                /\ UNCHANGED <<pc, report, cancel, drain, process, out, err, written, errWritten,
                               logged, sig, quirks, okFirst>>

\* A line whose write fails is lost, and the drain goes on.
DrainLine == /\ Draining /\ err > 0
             /\ err' = err - 1
             /\ \/ drain = "reading" /\ errLogged' = errLogged + 1
                \/ "disk_error" \in quirks /\ UNCHANGED errLogged
             /\ UNCHANGED <<pc, report, cancel, drain, process, out, written, errWritten, logged,
                            sig, quirks, okFirst>>

\* Any error of the reader ends the drain, and drops the pipe with what is in it.
DrainBadLine == /\ Draining /\ err > 0 /\ "bad_line" \in quirks
                /\ drain' = "broken" /\ err' = 0
                /\ UNCHANGED <<pc, report, cancel, process, out, written, errWritten, logged,
                               errLogged, sig, quirks, okFirst>>

DrainEof == /\ Draining /\ err = 0 /\ ~PipesHeld
            /\ drain' = "done"
            /\ UNCHANGED <<pc, report, cancel, process, pipes, sig, quirks, okFirst>>

Drain == DrainOpen \/ DrainLine \/ DrainBadLine \/ DrainEof

\* The read ends: both are dropped with the child, stderr's unless the drain task has it.
StdoutRead == pc # "end"
StderrRead == IF drain = "off" THEN pc # "end" ELSE ~Drained

----------------------------------------------------------------------------
(* The processes. *)

LeaderWants ==
    /\ leader = "live" /\ want = "none"
    /\ \/ written < MaxWrites /\ want' = "out"
       \/ errWritten < MaxWrites /\ want' = "err"
    /\ UNCHANGED <<pc, report, cancel, drain, leader, code, helper, pipes, sig, quirks, okFirst>>

\* A write blocks while the pipe is full.
LeaderWrites ==
    /\ leader = "live"
    /\ \/ /\ want = "out" /\ StdoutRead /\ Len(out) < PipeSize
          /\ \E l \in {"line"} \cup (IF "bad_line" \in quirks THEN {"bad"} ELSE {}) :
                out' = Append(out, l)
          /\ written' = written + 1
          /\ UNCHANGED <<err, errWritten>>
       \/ /\ want = "err" /\ StderrRead /\ err < PipeSize
          /\ err' = err + 1 /\ errWritten' = errWritten + 1
          /\ UNCHANGED <<out, written>>
    /\ want' = "none"
    /\ UNCHANGED <<pc, report, cancel, drain, leader, code, helper, logged, errLogged, sig, quirks,
                   okFirst>>

\* The leader exits with code c, whatever it was doing.
Exit(c) == /\ leader = "live"
           /\ leader' = "zombie" /\ code' = c /\ want' = "none"
           /\ okFirst' = (okFirst \/ (c = "ok" /\ helper # "live" /\ ~cancel))
           /\ UNCHANGED <<pc, report, cancel, drain, helper, pipes, sig, quirks>>

LeaderExits == want = "none" /\ \E c \in {"ok", "fail"} : Exit(c)

\* Writing to a pipe whose read end has been dropped: SIGPIPE ends the leader, or it ignores
\* that signal and the line is lost.
BrokenPipe ==
    /\ leader = "live"
    /\ (want = "out" /\ ~StdoutRead) \/ (want = "err" /\ ~StderrRead)
    /\ \/ Exit("signal")
       \/ /\ want' = "none"
          /\ UNCHANGED <<pc, report, cancel, drain, leader, code, helper, pipes, sig, quirks,
                         okFirst>>

\* SIGTERM may be ignored, SIGKILL may not.
LeaderTermed == sig = "term" /\ Exit("signal")
LeaderKilled == sig = "kill" /\ Exit("signal")

LeaderForks == /\ leader = "live" /\ want = "none" /\ helper = "none"
               /\ helper' = "live"
               /\ UNCHANGED <<pc, report, cancel, drain, leader, code, want, pipes, sig, quirks,
                              okFirst>>

HelperGone == /\ helper = "live"
              /\ helper' = "gone"
              /\ UNCHANGED <<pc, report, cancel, drain, leader, code, want, pipes, sig, quirks,
                             okFirst>>

\* A descendant follows its leader unless it is the kind that stays.
HelperFollows == leader # "live" /\ "helper_stays" \notin quirks /\ HelperGone
HelperKilled  == sig = "kill" /\ HelperGone

Cancel == /\ ~cancel /\ pc # "end"
          /\ cancel' = TRUE
          /\ UNCHANGED <<pc, report, drain, process, pipes, sig, quirks, okFirst>>

Environment == \/ LeaderWants \/ LeaderWrites \/ LeaderExits \/ BrokenPipe \/ LeaderTermed
               \/ LeaderKilled \/ LeaderForks \/ HelperGone \/ Cancel

Next == Runner \/ Drain \/ Environment

\* The runner and the drain task are polled when woken, a write with room completes and
\* SIGKILL is delivered; the leader itself may never exit.
Spec == /\ Init /\ [][Next]_vars
        /\ WF_vars(Runner) /\ WF_vars(Drain)
        /\ WF_vars(LeaderWrites) /\ WF_vars(BrokenPipe) /\ WF_vars(LeaderKilled)
        /\ WF_vars(HelperKilled) /\ WF_vars(HelperFollows)

----------------------------------------------------------------------------
(* Properties. *)

\* A task is done only if its process exited with 0 and was reaped, and the event log holds
\* all of its stdout, whatever errors there were.  The stderr log holds all of its stderr
\* too, unless the disk failed or a line was not UTF-8: the drain is best effort, and a task
\* can be done without.
DoneIsComplete ==
    status = "done" =>
        /\ code = "ok" /\ leader = "reaped" /\ ~error
        /\ logged = written
        /\ errLogged = errWritten \/ drain = "broken" \/ "disk_error" \in quirks

\* Unless run_task_inner returned early, the report is made after the process was reaped and
\* the drain task has ended: no zombie and no log still growing behind a final meta.
NothingLeftBehind ==
    pc = "end" /\ ~aborted => leader = "reaped" /\ Drained /\ err = 0

\* Signals go to the group only while the leader's pid is still its own, SIGTERM before
\* SIGKILL, and only for a cancelled run.
SignalsAreAimed ==
    [][sig' # sig => /\ leader \in {"live", "zombie"} /\ cancel
                     /\ <<sig, sig'>> \in {<<"none", "term">>, <<"term", "kill">>}]_vars

\* The leader is never blocked for good on stderr, whatever stdout does.
StderrNeverBlocks == want = "err" ~> want # "err"

\* In an environment without quirks a cancelled task ends, and so does one whose process exits.
TaskEnds == (quirks = {} /\ (cancel \/ leader = "zombie")) ~> pc = "end"

\* The comment on the biased select!: draining stdout first, a completed task is not
\* misclassified as cancelled.
CompletedIsNotCancelled == pc = "end" /\ okFirst => status # "cancelled"

\* cancel_run: "tasks converge to cancelled state", whatever their processes left behind.
CancelConverges == cancel ~> pc = "end"

----------------------------------------------------------------------------
(* The inductive invariant of TaskProcessProofs, checked by TLC on task_process.cfg. *)

\* Nobody can write to either pipe, or to a new one, any more.
Silent == leader \in {"zombie", "reaped"} /\ helper # "live"

\* Where the runner is says whether it has a child, whether it has reaped it and what it has
\* concluded.
Stages ==
    /\ pc = "spawn" => leader = "none"
    /\ pc \in {"pid", "log", "read", "poll", "parked", "kill", "wait"} => leader \in {"live", "zombie"}
    /\ pc \in {"term", "termwait", "killwait"} => leader \in {"live", "zombie"} /\ cancel
    /\ pc = "kill" => cancel
    /\ pc = "drain" => /\ status = "running" => leader \in {"live", "zombie"}
                       /\ status # "running" => status = "cancelled" /\ leader = "reaped"
    /\ pc \notin {"drain", "end"} => status = "running"
    /\ pc = "end" /\ ~aborted => leader = "reaped"
    /\ aborted => pc = "end" /\ status \in {"failed", "cancelled"}

\* Stderr is drained from the second step to the end; drained means empty, and silent unless
\* a bad line broke the pipe.
DrainStages ==
    /\ pc \in {"spawn", "pid"} => drain = "off"
    /\ drain # "off" => leader # "none"
    /\ Drained => err = 0
    /\ drain = "done" => Silent
    /\ pc = "wait" \/ (pc = "end" /\ ~aborted) => Drained

\* The read loop ends with stdout at its end, unless by a cancel, a bad line or an error.
StdoutEnded ==
    pc \in {"drain", "wait", "end"} /\ status # "cancelled" /\ ~error /\ ~aborted
        => Silent /\ out = <<>>

\* No line is made up.  On stdout one is lost only with a bad line or an early return, on
\* stderr only with a bad line or a disk error.
LinesKept ==
    /\ logged + Len(out) <= written
    /\ ~error /\ ~aborted => logged + Len(out) = written
    /\ errLogged + err <= errWritten
    /\ drain # "broken" /\ "disk_error" \notin quirks => errLogged + err = errWritten

\* The verdict of a task that is done.
DoneIsTold == status = "done" => pc = "end" /\ ~aborted /\ ~error /\ code = "ok"

\* The signals sent so far, and for whom.
Signalled ==
    /\ pc \in {"spawn", "pid", "log", "read", "poll", "parked", "kill", "term"} => sig = "none"
    /\ pc = "termwait" => sig = "term"
    /\ pc = "killwait" => sig = "kill"

\* The bound on what is written holds from the moment a line is begun.
Begun == /\ want = "out" => written < MaxWrites
         /\ want = "err" => errWritten < MaxWrites

IInv == /\ TypeOK /\ Stages /\ DrainStages /\ StdoutEnded /\ LinesKept /\ DoneIsTold
        /\ Signalled /\ Begun
=============================================================================
