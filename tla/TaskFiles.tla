----------------------------- MODULE TaskFiles -----------------------------
(***************************************************************************)
(* The files of one task after its first run: its meta, saved through one  *)
(* .tmp name by whoever works on the task, and its log, followed by        *)
(* codex-par tail.  Whoever works on the task is an attempt: the task of   *)
(* the run, a detached resume_task of a resume_agent call (src/commands/   *)
(* serve.rs, src/runner.rs), or the task of a later run of the directory   *)
(* (start_run with clean).                                                 *)
(***************************************************************************)
EXTENDS AtomicFile, Naturals, FiniteSets

CONSTANTS Resumes,     \* how many times the task is resumed (a bound)
          MaxAtWork,   \* how many attempts work on the task at once (a bound)
          MaxUnread    \* how far tail lags behind the log, in lines (a bound)

ASSUME TaskFilesAssumption ==
    /\ Resumes \in Nat /\ MaxAtWork \in Nat /\ MaxUnread \in Nat
    /\ IsFiniteSet(Inode) => Cardinality(Inode) > Resumes + 2

\* The task of the run, the calls of resume_agent in the order in which they begin, and the
\* task of the next run.
First   == 0
Resume  == 1 .. Resumes
Again   == Resumes + 1
Attempt == 0 .. Resumes + 1

VARIABLES
    meta,      \* <task>.meta.json
    phase,     \* what each attempt is doing: a save by its purpose, or its work
    step,      \* of a save: "open", "write", "rename"
    fdesc,     \* the inode it writes to
    loggers,   \* the attempts that write to the <task>.jsonl that tail has open
    unread,    \* its lines after those that tail has read
    tpc,       \* where tail is; "stopped" also if nobody follows the task
    latest,    \* history: the attempt that began last
    doubled    \* history: an attempt began during a resume

taskVars == <<meta, phase, step, fdesc, loggers, unread, tpc, latest, doubled>>

\* The saves of an attempt: the meta of a new run, Running, the pid, every 20 events, the end.
Saves  == {"pending", "running", "pid", "tick", "end"}
Status == {"pending", "running", "ended"}

StatusOf(s) == CASE s = "pending" -> "pending"
                 [] s \in {"running", "pid", "tick"} -> "running"
                 [] s = "end" -> "ended"

Active == {a \in Attempt : phase[a] \notin {"idle", "over"}}
Opened == {fdesc[a] : a \in Active}

Meta == [by : Attempt, st : Status]

\* What does not parse is no meta.
ASSUME TornIsNoMeta == {Empty, Torn} \cap Meta = {}

MetaTypeOK ==
    /\ meta \in [file : Inode \cup {NoFile}, tmp : Inode \cup {NoFile},
                 node : [Inode -> Meta \cup {Empty, Torn}]]
    /\ phase \in [Attempt -> Saves \cup {"idle", "work", "over"}]
    /\ step \in [Attempt -> {"open", "write", "rename"}]
    /\ fdesc \in [Attempt -> Inode \cup {NoFile}]
    /\ latest \in Attempt

TaskTypeOK ==
    /\ MetaTypeOK
    /\ unread \in 0 .. MaxUnread /\ loggers \subseteq Active
    /\ tpc \in {"read", "check", "stopped"}
    /\ doubled \in BOOLEAN

\* The task of the run is at work: run_task has saved Running and its pid; tail is started,
\* or is not.
TaskInit ==
    /\ meta = LET i == CHOOSE j \in Inode : TRUE
              IN  [Fresh EXCEPT !.file = i, !.node[i] = [by |-> First, st |-> "running"]]
    /\ phase = [a \in Attempt |-> IF a = First THEN "work" ELSE "idle"]
    /\ step = [a \in Attempt |-> "open"] /\ fdesc = [a \in Attempt |-> NoFile]
    /\ loggers = {First} /\ unread = 0 /\ tpc \in {"read", "stopped"}
    /\ latest = First /\ doubled = FALSE

Terminal(f) == Exists(f) /\ Whole(f) /\ Contents(f).st = "ended"

----------------------------------------------------------------------------
(* The attempts. *)

Begin(a, p) == phase' = [phase EXCEPT ![a] = p] /\ step' = [step EXCEPT ![a] = "open"]

Began(a) == /\ Cardinality(Active) < MaxAtWork
            /\ latest' = a /\ doubled' = (doubled \/ Active \cap Resume # {})

\* Mutant: whether the task has ended is not asked.
MutResumeAgent(a) ==
    /\ phase[a] = "idle" /\ \A b \in 1 .. a - 1 : phase[b] # "idle"
    /\ Exists(meta) /\ Whole(meta)
    /\ Begin(a, "running") /\ Began(a)
    /\ UNCHANGED <<meta, fdesc, loggers, unread, tpc>>

\* The meta is loaded and must be final, or the call is refused; the rest is a detached task.
ResumeAgent(a) ==
    /\ phase[a] = "idle" /\ \A b \in 1 .. a - 1 : phase[b] # "idle"
    /\ Terminal(meta)
    /\ Begin(a, "running") /\ Began(a)
    /\ UNCHANGED <<meta, fdesc, loggers, unread, tpc>>

\* The registry lets a run of the directory start when the last one is over; it knows of no
\* resume.  Logs are removed, and the task is saved as pending.  What has the old log open
\* keeps it.
StartAgain ==
    /\ phase[Again] = "idle" /\ phase[First] = "over"
    /\ Begin(Again, "pending") /\ Began(Again)
    /\ meta' = Forget([meta EXCEPT !.file = NoFile, !.tmp = NoFile], Opened)
    /\ UNCHANGED <<fdesc, loggers, unread, tpc>>

\* A task may be given up before it is spawned, its process not start, and its log not open.
AfterSave(p) ==
    CASE p = "pending" -> {"running", "end"}
      [] p = "running" -> {"pid", "end"}
      [] p = "pid"     -> {"work", "end"}
      [] p = "tick"    -> {"work"}
      [] p = "end"     -> {"over"}

\* A failed save ends resume_task, or start_run, except for the pid, where the attempt is
\* saved as failed; run_task goes on if Running cannot be saved, and both do between events.
AfterError(a, p) ==
    CASE p = "pid"  -> {"end"}
      [] p = "tick" -> {"work"}
      [] p = "running" /\ a \notin Resume -> {"pid", "end"}
      [] OTHER -> {"over"}

OpenMeta(a) ==
    /\ phase[a] \in Saves /\ step[a] = "open"
    /\ meta' = OpenTmp(meta, Opened)
    /\ fdesc' = [fdesc EXCEPT ![a] = meta'.tmp]
    /\ step' = [step EXCEPT ![a] = "write"]
    /\ UNCHANGED <<phase, loggers, unread, tpc, latest, doubled>>

WriteMeta(a) ==
    /\ phase[a] \in Saves /\ step[a] = "write"
    /\ meta' \in Written(meta, fdesc[a], [by |-> a, st |-> StatusOf(phase[a])])
    /\ step' = [step EXCEPT ![a] = "rename"]
    /\ UNCHANGED <<phase, fdesc, loggers, unread, tpc, latest, doubled>>

RenameMeta(a) ==
    /\ phase[a] \in Saves /\ step[a] = "rename"
    /\ IF CanRename(meta)
         THEN /\ meta' = Renamed(meta, Opened \ {fdesc[a]})
              /\ \E p \in AfterSave(phase[a]) : Begin(a, p)
         ELSE /\ \E p \in AfterError(a, phase[a]) : Begin(a, p)
              /\ UNCHANGED meta
    \* The log is opened by its name.
    /\ loggers' = IF phase[a] = "pid" /\ phase'[a] = "work" /\ phase[Again] = "idle"
                    THEN loggers \cup {a} ELSE loggers
    /\ fdesc' = [fdesc EXCEPT ![a] = NoFile]
    /\ UNCHANGED <<unread, tpc, latest, doubled>>

LogLine(a) ==
    /\ phase[a] = "work" /\ a \in loggers /\ unread < MaxUnread
    /\ unread' = unread + 1
    /\ UNCHANGED <<meta, phase, step, fdesc, loggers, tpc, latest, doubled>>

\* Every META_UPDATE_INTERVAL events.
Tick(a) ==
    /\ phase[a] = "work"
    /\ Begin(a, "tick")
    /\ UNCHANGED <<meta, fdesc, loggers, unread, tpc, latest, doubled>>

\* The process has ended, one way or another.
WorkEnds(a) ==
    /\ phase[a] = "work"
    /\ Begin(a, "end")
    /\ loggers' = loggers \ {a}
    /\ UNCHANGED <<meta, fdesc, unread, tpc, latest, doubled>>

Save(a) == OpenMeta(a) \/ WriteMeta(a) \/ RenameMeta(a)

----------------------------------------------------------------------------
(* tail_follow. *)

\* Mutant: at the end of the file the meta is not looked at.
MutTailRead ==
    /\ tpc = "read"
    /\ unread' = IF unread > 0 THEN unread - 1 ELSE 0
    /\ UNCHANGED <<meta, phase, step, fdesc, loggers, tpc, latest, doubled>>

TailRead ==
    /\ tpc = "read"
    /\ IF unread > 0 THEN unread' = unread - 1 /\ UNCHANGED tpc
                     ELSE tpc' = "check" /\ UNCHANGED unread
    /\ UNCHANGED <<meta, phase, step, fdesc, loggers, latest, doubled>>

\* A meta that is missing or does not parse is a task that has not ended: tail sleeps, and
\* reads on.
TailCheck ==
    /\ tpc = "check"
    /\ tpc' = IF Terminal(meta) THEN "stopped" ELSE "read"
    /\ UNCHANGED <<meta, phase, step, fdesc, loggers, unread, latest, doubled>>

Follow == TailRead \/ TailCheck

TaskNext == \/ \E a \in Resume : ResumeAgent(a)
            \/ \E a \in Attempt : Save(a) \/ LogLine(a) \/ Tick(a) \/ WorkEnds(a)
            \/ StartAgain \/ Follow

TaskSpec == TaskInit /\ [][TaskNext]_taskVars

----------------------------------------------------------------------------
(* Properties. *)

\* The comment on TaskMeta::save: "so readers never see partial JSON".
ReadersSeeWholeMeta == Whole(meta)

\* As long as nobody begins while a resume is at work, the .tmp name has one writer at a time,
\* though a resume is not registered anywhere: the meta always parses, and when nobody is at
\* work any more it is the final one of the last attempt.
MetaSettles ==
    ~doubled => /\ Whole(meta)
                /\ Active = {} => Terminal(meta) /\ Contents(meta).by = latest

\* Under the same condition tail stops, even if its log is replaced under it by a new run.
TailEnds == (tpc = "read") ~> (tpc = "stopped" \/ doubled)

----------------------------------------------------------------------------
(* The inductive invariant behind MetaSettles, for RunFilesProofs. *)

\* At most one attempt is at work, the last; no resume can begin while a run's is.
OneAtWork == /\ Active \subseteq {latest} /\ phase[latest] # "idle"
             /\ latest \in Active \ Resume => ~Terminal(meta)

\* The .tmp name is the latest attempt's, from its open to its rename.
MetaInOrder ==
    /\ Whole(meta)
    /\ \A a \in Attempt : \/ a = latest /\ phase[a] \in Saves /\ step[a] # "open"
                         \/ fdesc[a] = NoFile
    /\ IF phase[latest] \in Saves /\ step[latest] # "open"
         THEN /\ fdesc[latest] = meta.tmp /\ meta.tmp \in Inode /\ meta.tmp # meta.file
              /\ meta.node[meta.tmp] =
                    IF step[latest] = "write" THEN Empty
                    ELSE [by |-> latest, st |-> StatusOf(phase[latest])]
         ELSE meta.tmp = NoFile

\* What is over has left its end.
EndIsSaved == phase[latest] = "over" => Terminal(meta) /\ Contents(meta).by = latest

TaskInOrder == MetaTypeOK /\ OneAtWork /\ MetaInOrder /\ EndIsSaved

TaskInv == ~doubled => TaskInOrder

(* What TaskTypeOK needs when attempts are doubled. *)

\* An attempt that opens has nothing open; one that logs is at work, or between two events.
MetaClosed == \A a \in Attempt : (phase[a] \in Saves /\ step[a] # "open") \/ fdesc[a] = NoFile
LogsAtWork == \A a \in loggers : phase[a] \in {"work", "tick"}

TaskShape == TaskTypeOK /\ MetaClosed /\ LogsAtWork
=============================================================================
