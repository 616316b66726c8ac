-------------------------- MODULE TaskProcessProofs --------------------------
(***************************************************************************)
(* A task and its process, for any bounds on the pipes and on what is      *)
(* written, and for every mix of quirks: what the meta says is what        *)
(* happened, nothing is left behind it, and signals hit the right process. *)
(***************************************************************************)
EXTENDS TaskProcess, TLAPS

\* A pipe keeps its lines, one more or one fewer.
LEMMA PipeFacts ==
    ASSUME NEW S, NEW q \in Seq(S), NEW x \in S
    PROVE  /\ Append(q, x) \in Seq(S) /\ Len(Append(q, x)) = Len(q) + 1
           /\ q # <<>> => Tail(q) \in Seq(S) /\ Len(Tail(q)) = Len(q) - 1
OBVIOUS

\* The three parts of the report one by one.
LEMMA SameReport ==
    ASSUME UNCHANGED report
    PROVE  status' = status /\ error' = error /\ aborted' = aborted
BY DEF report

\* Before the task is spawned there is nothing to account for.
LEMMA InitHolds == Init => IInv
<1>. SUFFICES ASSUME Init PROVE IInv
  OBVIOUS
<1>1. out \in Seq({"line", "bad"}) /\ Len(out) = 0
  BY DEF Init
<1>2. TypeOK
  <2>1. error \in BOOLEAN /\ aborted \in BOOLEAN /\ cancel \in BOOLEAN /\ okFirst \in BOOLEAN
    BY DEF Init
  <2>2. /\ out \in Seq({"line", "bad"}) /\ Len(out) <= PipeSize /\ err \in 0 .. PipeSize
        /\ written \in 0 .. MaxWrites /\ errWritten \in 0 .. MaxWrites
        /\ logged \in 0 .. MaxWrites /\ errLogged \in 0 .. MaxWrites
    BY <1>1, TaskProcessAssumption DEF Init
  <2>. QED
    BY <2>1, <2>2 DEF Init, TypeOK
<1>3. Stages /\ DrainStages /\ StdoutEnded /\ LinesKept /\ DoneIsTold /\ Signalled /\ Begun
  BY <1>1 DEF Init, Stages, DrainStages, StdoutEnded, LinesKept, DoneIsTold, Signalled, Begun
<1>. QED
  BY <1>2, <1>3 DEF IInv

\* Each step of the runner, of the drain task and of the processes keeps the invariant.
LEMMA StepHolds ==
    ASSUME IInv, [Next]_vars
    PROVE  IInv'
<1>. USE TaskProcessAssumption
     DEF IInv, TypeOK, Stages, DrainStages, StdoutEnded, LinesKept, DoneIsTold, Signalled, Begun,
         Silent, Drained
<1>1. CASE Spawn
  <2>1. CASE leader' = "live" /\ pc' = "pid" /\ UNCHANGED report
    BY <1>1, <2>1, SameReport DEF process, pipes, Spawn
  <2>2. CASE Abort
    BY <1>1, <2>2 DEF report, process, pipes, Spawn, Abort
  <2>. QED
    BY <1>1, <2>1, <2>2 DEF Spawn
<1>2. CASE PersistPid
  <2>1. CASE pc' = "log" /\ drain' = DrainStart /\ UNCHANGED report
    BY <1>2, <2>1, SameReport DEF process, pipes, PersistPid, DrainStart
  <2>2. CASE Abort
    BY <1>2, <2>2 DEF report, process, pipes, PersistPid, Abort
  <2>. QED
    BY <1>2, <2>1, <2>2 DEF PersistPid
<1>3. CASE OpenLog
  <2>1. CASE pc' = "read" /\ UNCHANGED report
    BY <1>3, <2>1, SameReport DEF process, pipes, OpenLog
  <2>2. CASE Abort
    BY <1>3, <2>2 DEF report, process, pipes, OpenLog, Abort
  <2>. QED
    BY <1>3, <2>1, <2>2 DEF OpenLog
<1>4. CASE ReadLine
  <2>1. /\ out \in Seq({"line", "bad"}) /\ Len(out) \in Nat
        /\ out' \in Seq({"line", "bad"}) /\ Len(out') = Len(out) - 1
    BY <1>4, PipeFacts DEF ReadLine
  <2>2. CASE /\ logged' = logged + 1 /\ pc' = (IF cancel THEN "kill" ELSE "read")
             /\ UNCHANGED report
    BY <1>4, <2>1, <2>2, SameReport DEF process, ReadLine
  <2>3. CASE Abort /\ UNCHANGED logged
    <3>1. /\ status' = (IF cancel THEN "cancelled" ELSE "failed")
          /\ aborted' = TRUE /\ pc' = "end"
          /\ UNCHANGED <<error, logged, cancel, drain, leader, code, helper, want, err, written,
                         errWritten, errLogged, sig, quirks, okFirst>>
      BY <1>4, <2>3 DEF ReadLine, Abort, process
    <3>2. TypeOK'
      BY <2>1, <3>1
    <3>3. LinesKept'
      BY <2>1, <3>1
    <3>4. (Stages /\ DrainStages /\ StdoutEnded /\ DoneIsTold /\ Signalled /\ Begun)'
      BY <1>4, <3>1 DEF ReadLine
    <3>. QED
      BY <3>2, <3>3, <3>4
  <2>. QED
    BY <1>4, <2>2, <2>3 DEF ReadLine
<1>5. CASE ReadError
  BY <1>5, PipeFacts DEF report, process, pipes, ReadError
<1>6. CASE ReadEof
  BY <1>6 DEF report, process, pipes, ReadEof, AtEof, PipesHeld
<1>7. CASE ReadPending
  BY <1>7 DEF report, process, pipes, ReadPending, PipesHeld
<1>8. CASE PollCancel
  BY <1>8 DEF report, process, pipes, PollCancel
<1>9. CASE Wake
  BY <1>9 DEF report, process, pipes, Wake, PipesHeld
<1>10. CASE TryWait
  BY <1>10 DEF report, process, pipes, TryWait, Reap, Cancelled
<1>11. CASE SendTerm
  BY <1>11 DEF report, process, pipes, SendTerm
<1>12. CASE TermReap
  BY <1>12 DEF report, process, pipes, TermReap, Reap, Cancelled
<1>13. CASE TermTimeout
  BY <1>13 DEF report, process, pipes, TermTimeout
<1>14. CASE KillReap
  BY <1>14 DEF report, process, pipes, KillReap, Reap, Cancelled
<1>15. CASE JoinDrain
  BY <1>15 DEF report, process, pipes, JoinDrain
<1>16. CASE WaitChild
  BY <1>16 DEF report, process, pipes, WaitChild, Reap, Verdict
<1>17. CASE DrainOpen
  BY <1>17 DEF report, process, pipes, DrainOpen
<1>18. CASE DrainLine
  <2>1. /\ drain \in {"reading", "mute"} /\ err > 0 /\ err' = err - 1
        /\ \/ errLogged' = errLogged + 1
           \/ "disk_error" \in quirks /\ UNCHANGED errLogged
        /\ UNCHANGED <<pc, report, cancel, drain, process, out, written, errWritten, logged, sig,
                       quirks, okFirst>>
    BY <1>18 DEF DrainLine, Draining
  <2>. QED
    BY <2>1 DEF report, process
<1>19. CASE DrainBadLine
  BY <1>19 DEF report, process, DrainBadLine, Draining
<1>20. CASE DrainEof
  BY <1>20 DEF report, process, pipes, DrainEof, Draining, PipesHeld
<1>21. CASE LeaderWants
  BY <1>21 DEF report, process, pipes, LeaderWants
<1>22. CASE LeaderWrites
  <2>1. /\ leader = "live" /\ want' = "none"
        /\ UNCHANGED <<pc, report, cancel, drain, leader, code, helper, logged, errLogged, sig,
                       quirks, okFirst>>
    BY <1>22 DEF LeaderWrites
  <2>2. CASE /\ want = "out" /\ pc # "end" /\ Len(out) < PipeSize
             /\ written' = written + 1 /\ UNCHANGED <<err, errWritten>>
             /\ \E l \in {"line", "bad"} : out' = Append(out, l)
    <3>1. out' \in Seq({"line", "bad"}) /\ Len(out') = Len(out) + 1 /\ Len(out) \in Nat
      BY <2>2, PipeFacts
    <3>2. TypeOK'
      BY <2>1, <2>2, <3>1 DEF report
    <3>3. LinesKept'
      BY <2>1, <2>2, <3>1 DEF report
    <3>4. (Stages /\ DrainStages /\ StdoutEnded /\ DoneIsTold /\ Signalled /\ Begun)'
      BY <2>1, <2>2 DEF report
    <3>. QED
      BY <3>2, <3>3, <3>4
  <2>3. CASE /\ want = "err" /\ StderrRead /\ err < PipeSize
             /\ err' = err + 1 /\ errWritten' = errWritten + 1
             /\ UNCHANGED <<out, written>>
    <3>1. ~Drained
      BY <2>3 DEF StderrRead
    <3>2. TypeOK'
      BY <2>1, <2>3 DEF report
    <3>3. LinesKept'
      BY <2>1, <2>3 DEF report
    <3>4. (Stages /\ DrainStages /\ StdoutEnded /\ DoneIsTold /\ Signalled /\ Begun)'
      BY <2>1, <2>3, <3>1 DEF report
    <3>. QED
      BY <3>2, <3>3, <3>4
  <2>. QED
    BY <1>22, <2>2, <2>3 DEF LeaderWrites, StdoutRead
<1>23. CASE LeaderExits
  BY <1>23 DEF report, process, pipes, LeaderExits, Exit
<1>24. CASE BrokenPipe
  <2>1. CASE Exit("signal")
    BY <2>1 DEF report, process, pipes, Exit
  <2>2. CASE /\ want' = "none"
             /\ UNCHANGED <<pc, report, cancel, drain, leader, code, helper, pipes, sig, quirks,
                            okFirst>>
    BY <2>2 DEF report, pipes
  <2>. QED
    BY <1>24, <2>1, <2>2 DEF BrokenPipe
<1>25. CASE LeaderTermed
  BY <1>25 DEF report, process, pipes, LeaderTermed, Exit
<1>26. CASE LeaderKilled
  BY <1>26 DEF report, process, pipes, LeaderKilled, Exit
<1>27. CASE LeaderForks
  BY <1>27 DEF report, process, pipes, LeaderForks
<1>28. CASE HelperGone
  BY <1>28 DEF report, process, pipes, HelperGone
<1>29. CASE Cancel
  BY <1>29 DEF report, process, pipes, Cancel
<1>30. CASE UNCHANGED vars
  BY <1>30 DEF report, process, pipes, vars
<1>. QED
  BY <1>1, <1>2, <1>3, <1>4, <1>5, <1>6, <1>7, <1>8, <1>9, <1>10, <1>11, <1>12, <1>13, <1>14,
     <1>15, <1>16, <1>17, <1>18, <1>19, <1>20, <1>21, <1>22, <1>23, <1>24, <1>25, <1>26, <1>27,
     <1>28, <1>29, <1>30
     DEF Next, Runner, Drain, Environment

\* The invariant holds of every behaviour: the runner's stage agrees with the process, the drain
\* task and the logs.
THEOREM Invariance == Spec => []IInv
<1>1. Init => IInv
  BY InitHolds
<1>2. IInv /\ [Next]_vars => IInv'
  BY StepHolds
<1>. QED
  BY <1>1, <1>2, PTL DEF Spec

\* The types, the capacity of the pipes and the bounds on what is written.
THEOREM TypeCorrect == Spec => []TypeOK
<1>1. IInv => TypeOK
  BY DEF IInv
<1>. QED
  BY <1>1, Invariance, PTL

\* A task reported done has exited with 0 and been reaped, and its event log holds every line,
\* whatever the quirks; its stderr log does too, but for disk errors and lines not UTF-8.
THEOREM DoneHasAll == Spec => []DoneIsComplete
<1>1. IInv => DoneIsComplete
  <2>. SUFFICES ASSUME IInv, status = "done"
                PROVE  /\ code = "ok" /\ leader = "reaped" /\ ~error
                       /\ logged = written
                       /\ errLogged = errWritten \/ drain = "broken" \/ "disk_error" \in quirks
    BY DEF DoneIsComplete
  <2>1. pc = "end" /\ ~aborted /\ ~error /\ code = "ok"
    BY DEF IInv, DoneIsTold
  <2>2. leader = "reaped" /\ err = 0 /\ out = <<>>
    BY <2>1 DEF IInv, Stages, DrainStages, StdoutEnded
  <2>. QED
    BY <2>1, <2>2 DEF IInv, TypeOK, LinesKept
<1>. QED
  BY <1>1, Invariance, PTL

\* Behind a report that is no early return there is neither a zombie nor a log still growing.
THEOREM NothingLeft == Spec => []NothingLeftBehind
<1>1. IInv => NothingLeftBehind
  BY DEF IInv, Stages, DrainStages, NothingLeftBehind, Drained
<1>. QED
  BY <1>1, Invariance, PTL

\* SIGTERM and then SIGKILL, only for a cancelled run, and only while the pid is the leader's.
THEOREM SignalsHit == Spec => SignalsAreAimed
<1>1. IInv /\ [Next]_vars => [sig' # sig => /\ leader \in {"live", "zombie"} /\ cancel
                                            /\ <<sig, sig'>> \in {<<"none", "term">>,
                                                                  <<"term", "kill">>}]_vars
  <2>. SUFFICES ASSUME IInv, Next, sig' # sig
                PROVE  /\ leader \in {"live", "zombie"} /\ cancel
                       /\ <<sig, sig'>> \in {<<"none", "term">>, <<"term", "kill">>}
    BY DEF vars
  <2>1. SendTerm \/ TermTimeout
    BY DEF Next, Runner, Environment, Spawn, PersistPid, OpenLog, ReadLine, ReadError, ReadEof,
           ReadPending, PollCancel, Wake, TryWait, TermReap, KillReap, JoinDrain, WaitChild,
           Drain, DrainOpen, DrainLine, DrainBadLine, DrainEof, LeaderWants, LeaderWrites,
           LeaderExits, BrokenPipe, LeaderTermed, LeaderKilled, Exit, LeaderForks, HelperGone, Cancel
  <2>. QED
    BY <2>1 DEF SendTerm, TermTimeout, IInv, Stages, Signalled
<1>. QED
  BY <1>1, Invariance, PTL DEF Spec, SignalsAreAimed
=============================================================================
