-------------------------- MODULE RunRegistryProofs --------------------------
(***************************************************************************)
(* Proofs about RunRegistry, for any number of start_run calls, any tasks, *)
(* and any number of disk errors, full channels and kills of the server.   *)
(***************************************************************************)
EXTENDS RunRegistry, TLAPS

\* What a step of one start_run call does to the program counters.
LEMMA GotoMoves ==
    ASSUME TypeOK, NEW r \in Run, NEW l, Goto(r, l)
    PROVE  pc'[r] = l /\ \A x \in Run \ {r} : pc'[x] = pc[x]
  BY DEF TypeOK, Goto

\* Leaving with a label outside the preflight gives the lock back; so nobody is inside.
LEMMA LeaveFrees ==
    ASSUME TypeOK, NEW r \in Run, NEW l \in {"seal", "ok", "refused", "error"},
           pc[r] \in Preflight, Leave(r, l)
    PROVE  /\ pc'[r] = l /\ \A x \in Run \ {r} : pc'[x] = pc[x]
           /\ lock' = None /\ \A x \in Run : pc'[x] \notin Preflight
           /\ pc' \in [Run -> Preflight \cup {"idle", "seal", "ok", "refused", "error", "dead"}]
  BY RunRegistryAssumption DEF TypeOK, Leave, Goto, Preflight

\* Every variable keeps its type, and the lock is held exactly during a preflight.
THEOREM TypeCorrect == Spec => []TypeOK
  <1>1. Init => TypeOK
    <2> SUFFICES ASSUME Init PROVE TypeOK
      OBVIOUS
    <2>1. \A r \in Run : lock # r /\ pc[r] \notin Preflight
      BY RunRegistryAssumption DEF Init, Preflight
    <2>2. metas \in [Task -> TaskFile \cup {None}] /\ NoPoll.todo \subseteq Task
      BY DEF Init, NoPoll
    <2>3. mishaps \in 0 .. MaxMishaps /\ ends \in [Run -> [Task -> {"open"} \cup End]]
      BY RunRegistryAssumption DEF Init
    <2> QED
      BY <2>1, <2>2, <2>3 DEF Init, TypeOK, NoPoll
  <1>2. TypeOK /\ [Next]_vars => TypeOK'
    <2> SUFFICES ASSUME TypeOK, [Next]_vars PROVE TypeOK'
      OBVIOUS
    <2> DEFINE Tasks == TaskFile \cup {None}
    <2>1. NoPoll \in [pc : {"idle", "reading"}, run : RunFile \cup {None}, todo : SUBSET Task,
                      seen : [Task -> TaskFile \cup {None}]]
      BY DEF NoPoll
    <2>2. Mishap => mishaps' \in 0 .. MaxMishaps
      BY RunRegistryAssumption DEF Mishap, TypeOK
    <2>3. ASSUME NEW r \in Run, Enter(r) PROVE TypeOK'
      BY <2>3, RunRegistryAssumption
         DEF Enter, Goto, Finished, TypeOK, Preflight, runs, disk, history
    <2>4. ASSUME NEW r \in Run, CleanLogs(r) \/ CleanOuts(r) \/ RejectStale(r) \/ CreateDirs(r)
          PROVE  TypeOK'
      <3>1. /\ UNCHANGED <<entry, bg, draft, token, sealed, runMeta, unsaved, full>>
            /\ current' \in {current, r} /\ poll' \in {poll, NoPoll}
            /\ {logs', outs'} \subseteq BOOLEAN
            /\ mishaps' = mishaps \/ Mishap
        BY <2>4 DEF CleanLogs, CleanOuts, RejectStale, CreateDirs, Claim, runs, disk, TypeOK
      <3>2. metas' \in [Task -> TaskFile \cup {None}]
        BY <2>4 DEF CleanLogs, CleanOuts, RejectStale, CreateDirs, disk, TypeOK
      <3>3. pc[r] \in Preflight
        BY <2>4 DEF CleanLogs, CleanOuts, RejectStale, CreateDirs, Preflight
      <3>4. \/ \E l \in {"refused", "error"} : Leave(r, l)
            \/ \E l \in Preflight : Goto(r, l) /\ lock' = lock
        BY <2>4 DEF CleanLogs, CleanOuts, RejectStale, CreateDirs, Preflight
      <3>5. /\ pc' \in [Run -> Preflight \cup {"idle", "seal", "ok", "refused", "error", "dead"}]
            /\ \A x \in Run : lock' = x <=> pc'[x] \in Preflight
            /\ lock' \in Run \cup {None}
        BY <3>3, <3>4, LeaveFrees, RunRegistryAssumption DEF Goto, TypeOK
      <3>6. ends' \in [Run -> [Task -> {"open"} \cup End]] /\ lost' \subseteq Run \X Task
        <4>1. CASE Claim(r)
          BY <4>1 DEF Claim, TypeOK
        <4>2. CASE UNCHANGED <<ends, lost>>
          BY <4>2 DEF TypeOK
        <4> QED
          BY <2>4, <4>1, <4>2 DEF CleanLogs, CleanOuts, RejectStale, CreateDirs, runs
      <3> QED
        BY <2>1, <2>2, <3>1, <3>2, <3>5, <3>6 DEF TypeOK
    <2>5. ASSUME NEW r \in Run,
                 SaveRunning(r) \/ (\E t \in Task : SavePending(r, t)) \/ Launch(r) \/ Insert(r)
          PROVE  TypeOK'
      <3>1. /\ UNCHANGED <<draft, token, sealed, ends, logs, outs, poll, current>>
            /\ UNCHANGED <<unsaved, lost, full>>
            /\ entry' \in {entry, r}
            /\ bg' \in [Run -> {"none", "live", "save", "remove", "over", "dead"}]
            /\ mishaps' = mishaps \/ Mishap
        BY <2>5 DEF SaveRunning, SavePending, Launch, Insert, runs, disk, history, TypeOK
      <3>2. runMeta' \in RunFile \cup {None} /\ metas' \in [Task -> TaskFile \cup {None}]
        BY <2>5 DEF SaveRunning, SavePending, Launch, Insert, disk, TypeOK, RunFile, TaskFile
      <3>3. pc[r] \in Preflight
        BY <2>5 DEF SaveRunning, SavePending, Launch, Insert, Preflight
      <3>4. \/ \E l \in {"error", "seal", "ok"} : Leave(r, l)
            \/ \E l \in Preflight : Goto(r, l) /\ lock' = lock
            \/ UNCHANGED <<pc, lock>>
        BY <2>5 DEF SaveRunning, SavePending, Launch, Insert, Preflight
      <3>5. /\ pc' \in [Run -> Preflight \cup {"idle", "seal", "ok", "refused", "error", "dead"}]
            /\ \A x \in Run : lock' = x <=> pc'[x] \in Preflight
            /\ lock' \in Run \cup {None}
        BY <3>3, <3>4, LeaveFrees, RunRegistryAssumption DEF Goto, TypeOK
      <3> QED
        BY <2>2, <3>1, <3>2, <3>5 DEF TypeOK
    <2>6. ASSUME NEW r \in Run, SealStatic(r) PROVE TypeOK'
      BY <2>2, <2>6 DEF SealStatic, Goto, TypeOK, Preflight, disk
    <2>7. ASSUME NEW r \in Run, NEW t \in Task, TaskEnd(r, t) PROVE TypeOK'
      <3>1. metas' \in [Task -> TaskFile \cup {None}]
        <4>1. \A st \in Settled : [run |-> r, st |-> st] \in TaskFile
          BY DEF TaskFile
        <4>2. metas' = metas \/ \E st \in Settled : SaveTask(r, t, st)
          BY <2>7 DEF TaskEnd, End
        <4> QED
          BY <4>1, <4>2 DEF SaveTask, TypeOK
      <3>2. /\ token' \in {token, token \cup {r}} /\ outs' \in {outs, TRUE}
            /\ lost' \in {lost, lost \cup {<<r, t>>}}
            /\ mishaps' = mishaps \/ Mishap
        BY <2>7 DEF TaskEnd
      <3>3. ends' \in [Run -> [Task -> {"open"} \cup End]]
        BY <2>7 DEF TaskEnd, TypeOK
      <3>4. token' \subseteq Run /\ outs' \in BOOLEAN /\ lost' \subseteq Run \X Task
        <4>1. token \subseteq Run /\ outs \in BOOLEAN /\ lost \subseteq Run \X Task
          BY DEF TypeOK
        <4>2. {<<r, t>>} \subseteq Run \X Task
          OBVIOUS
        <4> QED
          BY <3>2, <4>1, <4>2
      <3> QED
        BY <2>2, <2>7, <3>1, <3>2, <3>3, <3>4 DEF TaskEnd, TypeOK, calls
    <2>8. ASSUME NEW r \in Run, RunEnds(r) PROVE TypeOK'
      <3>1. draft' \in [Run -> RunFile \cup {None}]
        <4>1. \A st \in {"done", "failed"} :
                 runMeta # None => [runMeta EXCEPT !.st = st] \in RunFile
          BY DEF TypeOK, RunFile
        <4> QED
          BY <2>8, <4>1 DEF RunEnds, TypeOK
      <3> QED
        BY <2>8, <3>1 DEF RunEnds, TypeOK, calls, disk, history
    <2>9. ASSUME NEW r \in Run, SaveVerdict(r) PROVE TypeOK'
      BY <2>2, <2>9 DEF SaveVerdict, TypeOK, calls
    <2>10. ASSUME NEW r \in Run, Remove(r) PROVE TypeOK'
      BY <2>10 DEF Remove, TypeOK, disk, history
    <2>11. CASE CancelRun \/ SealDispatch
      BY <2>11 DEF CancelRun, SealDispatch, TypeOK, disk, history
    <2>12. CASE PollRun
      BY <2>12 DEF PollRun, TypeOK, calls, runs, disk, history
    <2>13. ASSUME NEW t \in Task, PollTask(t) PROVE TypeOK'
      BY <2>13 DEF PollTask, TypeOK, calls, runs, disk, history
    <2>14. CASE PollAnswer
      BY <2>1, <2>14 DEF PollAnswer, TypeOK, calls, runs, disk, history
    <2>15. CASE Crash
      <3>1. /\ \A x \in Run : pc'[x] \notin Preflight
            /\ pc' \in [Run -> Preflight \cup {"idle", "seal", "ok", "refused", "error", "dead"}]
        BY <2>15 DEF Crash, TypeOK, Preflight
      <3>2. bg' \in [Run -> {"none", "live", "save", "remove", "over", "dead"}]
        BY <2>15 DEF Crash, TypeOK
      <3> QED
        BY <2>1, <2>2, <2>15, <3>1, <3>2, RunRegistryAssumption DEF Crash, TypeOK, disk
    <2>16. CASE UNCHANGED vars
      BY <2>16 DEF TypeOK, vars, calls, runs, disk, history
    <2> QED
      BY <2>3, <2>4, <2>5, <2>6, <2>7, <2>8, <2>9, <2>10, <2>11, <2>12, <2>13, <2>14, <2>15,
         <2>16 DEF Next, Start, Background
  <1> QED
    BY <1>1, <1>2, PTL DEF Spec

----------------------------------------------------------------------------
(* The inductive invariant, one lemma per kind of step. *)

\* Inside a preflight nobody else is, and no run is going on but the one being registered.
LEMMA HolderAlone ==
    ASSUME TypeOK, LockClears, RunIsRegistered, NEW r \in Run, pc[r] \in Preflight
    PROVE  /\ lock = r /\ entry = None
           /\ \A x \in Run \ {r} : pc[x] \notin Preflight
           /\ \A x \in Run : Unfinished(x) => x = r /\ pc[r] = "insert"
  BY RunRegistryAssumption DEF TypeOK, LockClears, RunIsRegistered

\* At most one run of the directory is going on.
LEMMA OneUnfinished ==
    ASSUME IInv, NEW r \in Run, NEW x \in Run, Unfinished(r), Unfinished(x)
    PROVE  x = r
  BY DEF IInv, LastIsLive, IsCurrent

LEMMA InitEstablishes ==
    ASSUME Init, TypeOK
    PROVE  IInv
  BY RunRegistryAssumption
     DEF Init, IInv, LockClears, RunIsRegistered, Fresh, LostEnds, Claimed, LogsHoldMetas, Started,
         LastIsLive, SavedOrNot, PollSees, IsCurrent, Unfinished, NoPoll, Preflight

\* Entering: only an entry whose run is over is dropped, so every run going on stays registered.
LEMMA EnterKeeps ==
    ASSUME IInv, TypeOK', NEW r \in Run, Enter(r)
    PROVE  IInv'
  <1> USE DEF IInv
  <1>1. /\ pc[r] = "idle" /\ pc'[r] \in {"clean", "stale", "refused"}
        /\ \A x \in Run \ {r} : pc'[x] = pc[x]
        /\ lock = None /\ (lock' # None => entry' = None)
        /\ entry' = entry \/ (entry' = None /\ (entry = None \/ bg[entry] = "over"))
        /\ UNCHANGED <<bg, draft, ends, runMeta, metas, logs, poll, current, unsaved, lost>>
    BY DEF Enter, TypeOK, Goto, Finished, runs, disk, history
  <1>2. LockClears'
    BY <1>1 DEF LockClears
  <1>3. RunIsRegistered'
    BY <1>1, RunRegistryAssumption DEF RunIsRegistered, Unfinished
  <1>4. Fresh' /\ Claimed'
    BY <1>1 DEF Fresh, Claimed, Untouched, Unfinished
  <1>5. LostEnds'
    BY <1>1 DEF LostEnds
  <1>6. LogsHoldMetas' /\ SavedOrNot'
    BY <1>1 DEF LogsHoldMetas, SavedOrNot
  <1>7. \A x \in Run : IsCurrent(x)' <=> IsCurrent(x)
    BY <1>1 DEF IsCurrent
  <1>8. Started' /\ LastIsLive' /\ PollSees'
    BY <1>1, <1>7 DEF Started, LastIsLive, PollSees, Tells, Shown, Unfinished, Preflight
  <1> QED
    BY <1>2, <1>3, <1>4, <1>5, <1>6, <1>8

\* The steps of a preflight up to the pending metas: the run is current from its claim on, no
\* run is going on, and no poll is followed across the claim.
LEMMA PreflightKeeps ==
    ASSUME IInv, TypeOK', NEW r \in Run,
           \/ CleanLogs(r) \/ CleanOuts(r) \/ RejectStale(r) \/ CreateDirs(r)
           \/ SaveRunning(r) \/ (\E t \in Task : SavePending(r, t))
    PROVE  IInv'
  <1> DEFINE early == {"clean", "stale", "outs", "dirs", "running", "metas"}
  <1> USE DEF IInv
  <1>1. pc[r] \in early
    BY DEF CleanLogs, CleanOuts, RejectStale, CreateDirs, SaveRunning, SavePending
  <1>2. /\ lock = r /\ entry = None /\ \A x \in Run \ {r} : pc[x] \notin Preflight
        /\ \A x \in Run : ~Unfinished(x)
    BY <1>1, HolderAlone DEF Preflight
  <1>3. UNCHANGED <<entry, bg, draft, unsaved>>
    BY DEF CleanLogs, CleanOuts, RejectStale, CreateDirs, SaveRunning, SavePending, Claim, runs
  <1>4. /\ \A x \in Run \ {r} : pc'[x] = pc[x]
        /\ pc'[r] \in {"outs", "dirs", "running", "metas", "error", "refused"}
        /\ pc'[r] = "refused" => pc[r] = "stale"
    <2>1. CASE CleanLogs(r) \/ CleanOuts(r)
      BY <2>1, GotoMoves DEF CleanLogs, CleanOuts, Leave
    <2>2. CASE RejectStale(r)
      <3>1. pc[r] = "stale" /\ (Goto(r, "refused") \/ Goto(r, "dirs"))
        BY <2>2 DEF RejectStale, Leave
      <3> QED
        BY <3>1, GotoMoves
    <2>3. CASE CreateDirs(r)
      <3>1. Goto(r, "running") \/ Goto(r, "error")
        BY <2>3 DEF CreateDirs, Leave
      <3> QED
        BY <3>1, GotoMoves
    <2>4. CASE SaveRunning(r) \/ \E t \in Task : SavePending(r, t)
      <3>1. \/ pc' = pc /\ pc[r] = "metas"
            \/ Goto(r, "metas") \/ Goto(r, "error")
        BY <2>4 DEF SaveRunning, SavePending, Leave
      <3> QED
        BY <3>1, GotoMoves
    <2> QED
      BY <2>1, <2>2, <2>3, <2>4
  <1>5. \/ runMeta' = runMeta
        \/ /\ pc[r] = "running" /\ pc'[r] = "metas"
           /\ runMeta' = [run |-> r, st |-> "running"] /\ runMeta'.run = r
    <2>1. CASE SaveRunning(r)
      BY <2>1 DEF SaveRunning, Goto, TypeOK
    <2>2. CASE CleanLogs(r) \/ CleanOuts(r) \/ RejectStale(r) \/ CreateDirs(r)
               \/ \E t \in Task : SavePending(r, t)
      BY <2>2 DEF CleanLogs, CleanOuts, RejectStale, CreateDirs, SavePending, disk
    <2> QED
      BY <2>1, <2>2
  <1>6. \/ \A t \in Task : metas'[t] = None
        \/ metas' = metas /\ (logs => logs')
        \/ logs' /\ pc'[r] \in {"error", "metas"}
    <2>1. logs \in BOOLEAN /\ logs' \in BOOLEAN
      BY DEF TypeOK
    <2>2. CASE CleanLogs(r)
      BY <2>1, <2>2, GotoMoves DEF CleanLogs, Leave
    <2>3. CASE \E t \in Task : SavePending(r, t)
      <3>1. logs /\ logs' = logs /\ pc'[r] \in {"error", "metas"}
        BY <2>3, GotoMoves DEF SavePending, Claimed, Leave
      <3> QED
        BY <2>1, <3>1
    <2>4. CASE CleanOuts(r) \/ RejectStale(r) \/ CreateDirs(r) \/ SaveRunning(r)
      <3>1. metas' = metas /\ (logs' = logs \/ logs' = TRUE)
        BY <2>1, <2>4 DEF CleanOuts, RejectStale, CreateDirs, SaveRunning, disk
      <3> QED
        BY <2>1, <3>1
    <2> QED
      BY <2>2, <2>3, <2>4
  <1>7. LockClears' /\ RunIsRegistered' /\ LastIsLive'
    BY <1>2, <1>3 DEF LockClears, RunIsRegistered, LastIsLive, Unfinished
  <1>8. \A x \in Run, t \in Task :
            \/ ends'[x][t] = ends[x][t] /\ (<<x, t>> \in lost' <=> <<x, t>> \in lost)
            \/ ends'[x][t] = "open" /\ <<x, t>> \notin lost'
    <2>1. CASE CleanLogs(r) \/ RejectStale(r)
      BY <2>1 DEF CleanLogs, RejectStale, Claim, runs
    <2>2. CASE CleanOuts(r) \/ CreateDirs(r) \/ SaveRunning(r) \/ \E t \in Task : SavePending(r, t)
      BY <2>2 DEF CleanOuts, CreateDirs, SaveRunning, SavePending, runs
    <2> QED
      BY <2>1, <2>2
  <1>9. LostEnds'
    BY <1>8 DEF LostEnds
  <1>10. Fresh'
    <2>1. runMeta' = runMeta \/ (pc[r] = "running" /\ pc'[r] = "metas" /\ runMeta'.run = r)
      BY <1>5
    <2>2. pc'[r] \in Untouched => pc[r] \in Untouched /\ runMeta' = runMeta
      BY <1>1, <1>4, <2>1 DEF Untouched, CleanLogs, CleanOuts, RejectStale, CreateDirs,
         SaveRunning, SavePending, Leave, Goto, TypeOK
    <2>3. pc'[r] = "metas" => bg[r] = "none"
      BY <1>1, <1>4 DEF Fresh, Untouched
    <2>4. \A x \in Run : bg[x] = "none" => \A t \in Task : ends'[x][t] = "open"
      <3> SUFFICES ASSUME NEW x \in Run, bg[x] = "none", NEW t \in Task PROVE ends'[x][t] = "open"
        OBVIOUS
      <3>1. ends[x][t] = "open"
        BY DEF Fresh
      <3> QED
        BY <1>8, <3>1
    <2> QED
      BY <1>3, <1>4, <2>1, <2>2, <2>3, <2>4 DEF Fresh, Untouched, Unfinished
  <1>11. current' = r \/ (pc'[r] = "refused" /\ UNCHANGED <<poll, current, disk, ends, lost>>)
    BY DEF CleanLogs, CleanOuts, RejectStale, CreateDirs, SaveRunning, SavePending, Leave, Goto,
           TypeOK, Claim, Claimed, runs
  <1>12. Claimed'
    <2>1. ASSUME pc'[r] \in {"outs", "dirs", "running"}
          PROVE  (\A t \in Task : metas'[t] = None) /\ (pc'[r] = "running" => logs')
      <3>1. CASE CleanLogs(r) \/ CleanOuts(r)
        BY <2>1, <3>1 DEF CleanLogs, CleanOuts, Leave, Goto, TypeOK, Claimed
      <3>2. CASE RejectStale(r)
        <4>1. metas' = metas /\ pc'[r] # "running"
          BY <3>2 DEF RejectStale, Leave, Goto, TypeOK, disk
        <4>2. ~logs
          BY <2>1, <3>2 DEF RejectStale, Leave, Goto, TypeOK
        <4> QED
          BY <4>1, <4>2 DEF LogsHoldMetas
      <3>3. CASE CreateDirs(r)
        BY <2>1, <3>3 DEF CreateDirs, Leave, Goto, TypeOK, Claimed
      <3>4. CASE SaveRunning(r) \/ \E t \in Task : SavePending(r, t)
        BY <2>1, <3>4 DEF SaveRunning, SavePending, Leave, Goto, TypeOK
      <3> QED
        BY <3>1, <3>2, <3>3, <3>4
    <2>2. ASSUME pc'[r] = "metas"
          PROVE  /\ logs' /\ runMeta' = [run |-> r, st |-> "running"]
                 /\ \A t \in Task : metas'[t] # None => metas'[t] = [run |-> r, st |-> "open"]
      BY <2>2 DEF CleanLogs, CleanOuts, RejectStale, CreateDirs, SaveRunning, SavePending, Leave,
             Goto, TypeOK, Claimed
    <2>3. \A x \in Run \ {r} : pc'[x] \notin Preflight
      BY <1>2, <1>4
    <2> QED
      BY <1>4, <1>11, <2>1, <2>2, <2>3 DEF Claimed, Preflight
  <1>13. LogsHoldMetas'
    BY <1>6 DEF LogsHoldMetas
  <1>14. \A x \in Run : IsCurrent(x)' => IsCurrent(x) /\ UNCHANGED <<poll, disk, ends, lost>>
    BY <1>4, <1>11 DEF IsCurrent
  <1>15. Started'
    BY <1>14 DEF Started, Tells, Shown, disk
  <1>16. SavedOrNot'
    <2>1. runMeta' = runMeta \/ (runMeta'.run = r /\ bg[r] = "none")
      BY <1>5 DEF Fresh, Untouched
    <2> QED
      BY <1>3, <2>1 DEF SavedOrNot
  <1>17. PollSees'
    <2>1. poll.pc = "reading" => pc[r] \in {"clean", "stale"}
      BY <1>1 DEF PollSees, Preflight
    <2>2. poll' = NoPoll \/ (poll' = poll /\ (pc[r] \in {"clean", "stale"} => pc'[r] = "refused"))
      <3>1. CASE CleanLogs(r) \/ RejectStale(r)
        BY <3>1 DEF CleanLogs, RejectStale, Claim, Leave, Goto, TypeOK
      <3>2. CASE CleanOuts(r) \/ CreateDirs(r) \/ SaveRunning(r) \/ \E t \in Task : SavePending(r, t)
        BY <3>2 DEF CleanOuts, CreateDirs, SaveRunning, SavePending
      <3> QED
        BY <3>1, <3>2
    <2>3. poll'.pc = "reading" => poll' = poll /\ pc'[r] = "refused"
      BY <2>1, <2>2 DEF NoPoll
    <2> QED
      BY <1>4, <1>14, <2>3
         DEF PollSees, Tells, Shown, disk, Preflight
  <1> QED
    BY <1>7, <1>9, <1>10, <1>12, <1>13, <1>15, <1>16, <1>17

\* The run is going on from its launch, registered or about to be; all it has is pending.
LEMMA LaunchKeeps ==
    ASSUME IInv, TypeOK', NEW r \in Run, Launch(r)
    PROVE  IInv'
  <1> USE DEF IInv
  <1>1. pc[r] = "metas" /\ \A t \in Task : metas[t] # None
    BY DEF Launch
  <1>2. /\ lock = r /\ entry = None /\ \A x \in Run \ {r} : pc[x] \notin Preflight
        /\ \A x \in Run : ~Unfinished(x)
    BY <1>1, HolderAlone DEF Preflight
  <1>3. /\ UNCHANGED <<entry, draft, ends, runMeta, metas, logs, poll, current, unsaved, lost>>
        /\ \A x \in Run \ {r} : pc'[x] = pc[x] /\ bg'[x] = bg[x]
        /\ \/ pc'[r] = "insert" /\ bg'[r] = "live" /\ lock' = lock
           \/ pc'[r] = "error" /\ bg'[r] = bg[r] /\ lock' = None
    BY DEF Launch, Leave, Goto, TypeOK, disk
  <1>4. LockClears'
    BY <1>2, <1>3 DEF LockClears
  <1>5. RunIsRegistered'
    BY <1>2, <1>3 DEF RunIsRegistered, Unfinished
  <1>6. Fresh'
    BY <1>1, <1>3 DEF Fresh, Untouched, Unfinished
  <1>7. LostEnds'
    BY <1>3 DEF LostEnds
  <1>8. Claimed' /\ LogsHoldMetas'
    BY <1>1, <1>3 DEF Claimed, LogsHoldMetas
  <1>9. SavedOrNot'
    BY <1>3 DEF SavedOrNot
  <1>10. \A x \in Run \ {r} : ~IsCurrent(x) /\ ~IsCurrent(x)'
    BY <1>1, <1>3 DEF IsCurrent, Claimed
  <1>11. Started'
    <2>1. /\ runMeta = [run |-> r, st |-> "running"]
          /\ \A t \in Task : metas[t] = [run |-> r, st |-> "open"] /\ ends[r][t] = "open"
      BY <1>1 DEF Claimed, Fresh
    <2>2. runMeta # None /\ runMeta.run = r /\ runMeta.st = "running"
      BY <2>1, NoneIsNoFile DEF RunFile
    <2> QED
      BY <1>1, <1>3, <1>10, <2>1, <2>2 DEF Started, Tells, Shown
  <1>12. LastIsLive'
    BY <1>1, <1>2, <1>3 DEF LastIsLive, Unfinished, IsCurrent, Claimed
  <1>13. PollSees'
    <2>1. poll.pc # "reading"
      BY <1>1 DEF PollSees, Preflight
    <2> QED
      BY <1>3, <2>1 DEF PollSees
  <1> QED
    BY <1>4, <1>5, <1>6, <1>7, <1>8, <1>9, <1>11, <1>12, <1>13

\* Registering and sealing: the run goes on, or its background task waits for the lock.
LEMMA InsertKeeps ==
    ASSUME IInv, TypeOK', NEW r \in Run, Insert(r) \/ SealStatic(r)
    PROVE  IInv'
  <1> USE DEF IInv
  <1>1. /\ UNCHANGED <<bg, draft, ends, runMeta, metas, logs, poll, current, unsaved, lost>>
        /\ \A x \in Run \ {r} : pc'[x] = pc[x]
        /\ \/ pc[r] = "insert" /\ pc'[r] \in {"seal", "ok"} /\ lock' = None /\ entry' = r
           \/ pc[r] = "seal" /\ pc'[r] = "ok" /\ UNCHANGED <<lock, entry>>
    BY DEF Insert, SealStatic, Leave, Goto, TypeOK, runs, disk, history
  <1>2. pc[r] = "insert" => \A x \in Run : Unfinished(x) => x = r
    BY HolderAlone DEF Preflight
  <1>3. LockClears' /\ RunIsRegistered'
    BY <1>1, <1>2 DEF LockClears, RunIsRegistered, Fresh, Unfinished
  <1>4. Fresh' /\ LostEnds' /\ Claimed' /\ LogsHoldMetas' /\ SavedOrNot'
    BY <1>1 DEF Fresh, LostEnds, Untouched, Unfinished, Claimed, LogsHoldMetas, SavedOrNot
  <1>5. \A x \in Run : IsCurrent(x)' <=> IsCurrent(x)
    BY <1>1 DEF IsCurrent
  <1>6. Started' /\ LastIsLive'
    BY <1>1, <1>5 DEF Started, LastIsLive, Tells, Shown, Unfinished
  <1>7. PollSees'
    BY <1>1, <1>5 DEF PollSees, Tells, Shown, Preflight
  <1> QED
    BY <1>3, <1>4, <1>6, <1>7

\* A task ends: only of the run going on, and its meta tells how, unless that is lost.
LEMMA TaskEndKeeps ==
    ASSUME IInv, TypeOK', NEW r \in Run, NEW t \in Task, TaskEnd(r, t)
    PROVE  IInv'
  <1> USE DEF IInv
  <1>1. /\ bg[r] = "live" /\ ends[r][t] = "open"
        /\ UNCHANGED <<lock, entry, pc, bg, draft, runMeta, logs, poll, current, unsaved>>
    BY DEF TaskEnd, calls
  <1>2. IsCurrent(r) /\ \A x \in Run : IsCurrent(x)' <=> IsCurrent(x)
    BY <1>1 DEF LastIsLive, Unfinished, IsCurrent
  <1>3. /\ <<r, t>> \notin lost
        /\ metas[t] = [run |-> r, st |-> "open"] /\ metas[t] # None
    <2>1. <<r, t>> \notin lost /\ metas[t] = Shown(r, t)
      BY <1>1, <1>2 DEF LostEnds, Started
    <2>2. [run |-> r, st |-> "open"] # None
      BY NoneIsNoFile DEF TaskFile
    <2> QED
      BY <1>1, <2>1, <2>2 DEF Shown
  <1>4. /\ ends'[r][t] # "open" /\ metas'[t] = Shown(r, t)'
        /\ \A x \in Run, u \in Task : x # r \/ u # t =>
              ends'[x][u] = ends[x][u] /\ (<<x, u>> \in lost' <=> <<x, u>> \in lost)
        /\ \A u \in Task \ {t} : metas'[u] = metas[u]
        /\ ends'[r][t] = "panicked" => <<r, t>> \in lost'
    <2>1. PICK e \in End :
              /\ ends' = [ends EXCEPT ![r][t] = e]
              /\ e = "panicked" => lost' = lost \cup {<<r, t>>}
              /\ \/ SaveTask(r, t, e) /\ lost' = lost
                 \/ lost' = lost \cup {<<r, t>>} /\ metas' = metas
      BY DEF TaskEnd
    <2>2. /\ ends'[r][t] = e /\ e # "open"
          /\ \A x \in Run, u \in Task : x # r \/ u # t => ends'[x][u] = ends[x][u]
      BY <2>1 DEF TypeOK, End, Settled
    <2>3. CASE SaveTask(r, t, e) /\ lost' = lost
      <3>1. /\ metas'[t] = [run |-> r, st |-> e]
            /\ \A u \in Task \ {t} : metas'[u] = metas[u]
        BY <2>3 DEF SaveTask, TypeOK
      <3>2. metas'[t] = Shown(r, t)'
        BY <1>3, <2>2, <2>3, <3>1 DEF Shown
      <3> QED
        BY <2>1, <2>2, <2>3, <3>1, <3>2
    <2>4. CASE lost' = lost \cup {<<r, t>>} /\ metas' = metas
      BY <1>3, <2>2, <2>4 DEF Shown
    <2> QED
      BY <2>1, <2>3, <2>4
  <1>5. LockClears' /\ RunIsRegistered' /\ SavedOrNot'
    BY <1>1 DEF LockClears, RunIsRegistered, Unfinished, SavedOrNot
  <1>6. Fresh'
    <2>1. ASSUME NEW x \in Run, bg[x] = "none", NEW u \in Task PROVE ends'[x][u] = "open"
      <3>1. x # r /\ ends[x][u] = "open"
        BY <1>1, <2>1 DEF Fresh
      <3> QED
        BY <1>4, <3>1
    <2> QED
      BY <1>1, <2>1 DEF Fresh, Unfinished
  <1>7. LostEnds'
    BY <1>4 DEF LostEnds
  <1>8. Claimed' /\ LogsHoldMetas'
    BY <1>1, <1>2, <1>3, <1>4 DEF Claimed, LogsHoldMetas, IsCurrent
  <1>9. Started'
    BY <1>1, <1>2, <1>4 DEF Started, IsCurrent, Tells, Shown
  <1>10. LastIsLive'
    BY <1>1, <1>2, OneUnfinished DEF LastIsLive, Unfinished
  <1>11. PollSees'
    BY <1>1, <1>2 DEF PollSees, Tells, IsCurrent
  <1> QED
    BY <1>5, <1>6, <1>7, <1>8, <1>9, <1>10, <1>11

\* The run returns when all its tasks have ended: its verdict is true, and about the file's run.
LEMMA RunEndsKeeps ==
    ASSUME IInv, TypeOK', NEW r \in Run, RunEnds(r)
    PROVE  IInv'
  <1> USE DEF IInv
  <1>1. /\ bg[r] = "live" /\ bg'[r] = "save" /\ AllEnded(r)
        /\ \A x \in Run \ {r} : bg'[x] = bg[x] /\ draft'[x] = draft[x]
        /\ UNCHANGED <<lock, entry, pc, ends, runMeta, metas, logs, poll, current, unsaved, lost>>
    BY DEF RunEnds, TypeOK, calls, disk, history
  <1>2. IsCurrent(r) /\ \A x \in Run : IsCurrent(x)' <=> IsCurrent(x)
    BY <1>1 DEF LastIsLive, Unfinished, IsCurrent
  <1>3. runMeta # None /\ runMeta.run = r /\ runMeta \in RunFile
    BY <1>2 DEF Started, TypeOK
  <1>4. /\ draft'[r].run = r /\ draft'[r].st \in {"done", "failed"}
        /\ draft'[r].st = "done" => AllDone(r)
        /\ draft'[r] \in RunFile
    <2>1. \A st : [runMeta EXCEPT !.st = st] = [run |-> r, st |-> st]
      BY <1>3 DEF RunFile
    <2>2. PICK ok \in BOOLEAN :
              /\ draft' = [draft EXCEPT ![r] = [run |-> r, st |-> IF ok THEN "done" ELSE "failed"]]
              /\ ok => AllDone(r)
      BY <1>3, <2>1 DEF RunEnds
    <2>3. draft'[r] = [run |-> r, st |-> IF ok THEN "done" ELSE "failed"]
      BY <2>2 DEF TypeOK
    <2> QED
      BY <2>2, <2>3 DEF RunFile
  <1>5. draft'[r] # None
    BY <1>4, NoneIsNoFile
  <1>6. LockClears' /\ Fresh' /\ LostEnds' /\ Claimed' /\ LogsHoldMetas' /\ SavedOrNot'
    BY <1>1 DEF LockClears, Unfinished, Fresh, LostEnds, Claimed, LogsHoldMetas, SavedOrNot
  <1>7. RunIsRegistered'
    BY <1>1 DEF RunIsRegistered, Unfinished, TypeOK
  <1>8. Started' /\ PollSees'
    BY <1>1, <1>2 DEF Started, PollSees, Tells, Shown
  <1>9. LastIsLive'
    BY <1>1, <1>2, <1>4, <1>5 DEF LastIsLive, Unfinished, Tells, AllEnded, AllDone
  <1> QED
    BY <1>6, <1>7, <1>8, <1>9

\* The verdict is saved, or the error ignored.
LEMMA SaveVerdictKeeps ==
    ASSUME IInv, TypeOK', NEW r \in Run, SaveVerdict(r)
    PROVE  IInv'
  <1> USE DEF IInv
  <1>1. /\ bg[r] = "save" /\ bg'[r] = "remove"
        /\ \A x \in Run \ {r} : bg'[x] = bg[x] /\ draft'[x] = draft[x]
        /\ UNCHANGED <<lock, entry, pc, ends, metas, logs, poll, current, lost>>
        /\ \/ runMeta' = draft[r] /\ unsaved' = unsaved
           \/ runMeta' = runMeta /\ unsaved' = unsaved \cup {r}
    BY DEF SaveVerdict, TypeOK, calls, LastIsLive
  <1>2. IsCurrent(r) /\ \A x \in Run : IsCurrent(x)' <=> IsCurrent(x)
    BY <1>1 DEF LastIsLive, Unfinished, IsCurrent
  <1>3. /\ draft[r] # None /\ draft[r].run = r /\ draft[r].st # "running" /\ Tells(r, draft[r].st)
        /\ runMeta # None /\ runMeta.run = r
    BY <1>1, <1>2 DEF LastIsLive, Started
  <1>4. LockClears' /\ RunIsRegistered' /\ LogsHoldMetas'
    BY <1>1 DEF LockClears, RunIsRegistered, Unfinished, LogsHoldMetas, TypeOK
  <1>5. Fresh' /\ LostEnds'
    BY <1>1, <1>2, <1>3 DEF Fresh, LostEnds, Untouched, Unfinished, IsCurrent
  <1>6. Claimed'
    BY <1>1, <1>2 DEF Claimed, IsCurrent
  <1>7. Started'
    BY <1>1, <1>2, <1>3 DEF Started, Tells, Shown, IsCurrent
  <1>8. LastIsLive'
    BY <1>1, <1>2, OneUnfinished DEF LastIsLive, Unfinished, Tells
  <1>9. SavedOrNot'
    BY <1>1, <1>3 DEF SavedOrNot
  <1>10. PollSees'
    BY <1>1, <1>2 DEF PollSees, Tells, Shown
  <1> QED
    BY <1>4, <1>5, <1>6, <1>7, <1>8, <1>9, <1>10

\* The entry that is removed is the run's own.
LEMMA RemoveKeeps ==
    ASSUME IInv, TypeOK', NEW r \in Run, Remove(r)
    PROVE  IInv'
  <1> USE DEF IInv
  <1>1. /\ bg[r] = "remove" /\ bg'[r] = "over" /\ lock = None /\ entry' = None
        /\ \A x \in Run \ {r} : bg'[x] = bg[x]
        /\ UNCHANGED <<lock, pc, draft, ends, runMeta, metas, logs, poll, current, unsaved, lost>>
        /\ \A x \in Run : pc[x] # "insert"
    BY RunRegistryAssumption DEF Remove, Preflight, TypeOK, disk, history
  <1>2. \A x \in Run : Unfinished(x) => x = r
    BY <1>1, OneUnfinished DEF Unfinished
  <1>3. LockClears' /\ RunIsRegistered'
    BY <1>1, <1>2 DEF LockClears, RunIsRegistered, Unfinished
  <1>4. Fresh' /\ LostEnds' /\ Claimed' /\ LogsHoldMetas' /\ SavedOrNot'
    BY <1>1 DEF Fresh, LostEnds, Unfinished, Claimed, LogsHoldMetas, SavedOrNot
  <1>5. \A x \in Run : IsCurrent(x)' <=> IsCurrent(x)
    BY <1>1 DEF IsCurrent
  <1>6. Started' /\ PollSees' /\ LastIsLive'
    BY <1>1, <1>5
       DEF Started, PollSees, LastIsLive, Tells, Shown, Unfinished
  <1> QED
    BY <1>3, <1>4, <1>6

\* cancel_run and seal_dispatch drop no entry: no run that is over has one.
LEMMA HandlersKeep ==
    ASSUME IInv, TypeOK', CancelRun \/ SealDispatch
    PROVE  IInv'
  <1> USE DEF IInv
  <1>1. /\ UNCHANGED <<lock, entry, pc, bg, draft, ends, runMeta, metas, logs, poll, current>>
        /\ UNCHANGED <<unsaved, lost>>
    BY DEF CancelRun, SealDispatch, RunIsRegistered, Unfinished, Finished, disk, history
  <1>2. LockClears' /\ RunIsRegistered'
    BY <1>1 DEF LockClears, RunIsRegistered, Unfinished
  <1>3. \A x \in Run : IsCurrent(x)' <=> IsCurrent(x)
    BY <1>1 DEF IsCurrent
  <1> QED
    BY <1>1, <1>2, <1>3
       DEF Fresh, LostEnds, Claimed, LogsHoldMetas, SavedOrNot, Started, PollSees, LastIsLive,
           Tells, Shown, Unfinished

\* A poll begins when nobody is inside a preflight, and reads metas that a verdict has settled.
LEMMA PollKeeps ==
    ASSUME IInv, TypeOK', PollRun \/ (\E t \in Task : PollTask(t)) \/ PollAnswer
    PROVE  IInv'
  <1> USE DEF IInv
  <1>1. UNCHANGED <<calls, runs, disk, history>>
    BY DEF PollRun, PollTask, PollAnswer
  <1>2. \A x \in Run : IsCurrent(x)' <=> IsCurrent(x)
    BY <1>1 DEF IsCurrent, calls, history
  <1>3. /\ LockClears' /\ RunIsRegistered' /\ Fresh' /\ LostEnds' /\ Claimed'
        /\ LogsHoldMetas' /\ SavedOrNot'
        /\ Started' /\ LastIsLive'
    BY <1>1, <1>2
       DEF LockClears, RunIsRegistered, Fresh, LostEnds, Claimed, LogsHoldMetas, SavedOrNot, Started,
           LastIsLive, Tells, Shown, Unfinished, calls, runs, disk, history
  <1>4. PollSees'
    <2>1. CASE PollRun
      <3>1. /\ poll'.run = runMeta
            /\ runMeta # None => poll'.todo = {t \in Task : metas[t] # None}
            /\ \A x \in Run : pc[x] \notin Preflight
        BY <2>1 DEF PollRun
      <3>2. \A x \in Run : /\ pc'[x] = pc[x] /\ ends' = ends
                           /\ IsCurrent(x)' <=> IsCurrent(x)
        BY <1>1, <1>2 DEF calls, runs
      <3>3. ASSUME NEW x \in Run, IsCurrent(x), NEW t \in Task, ends[x][t] # "open"
            PROVE  metas[t] # None
        <4>1. metas[t] = Shown(x, t)
          BY <3>3 DEF Started
        <4>2. Shown(x, t) \in TaskFile
          BY <3>3 DEF Shown, TaskFile, LostEnds, TypeOK, End
        <4> QED
          BY <4>1, <4>2, NoneIsNoFile
      <3> QED
        BY <3>1, <3>2, <3>3 DEF PollSees, Started, Tells
    <2>2. ASSUME NEW t \in Task, PollTask(t) PROVE PollSees'
      <3>1. /\ poll.pc = "reading" /\ poll'.run = poll.run /\ poll'.todo = poll.todo \ {t}
            /\ poll'.seen[t] = metas[t]
            /\ \A u \in Task \ {t} : poll'.seen[u] = poll.seen[u]
        BY <2>2 DEF PollTask, TypeOK
      <3>2. ASSUME NEW x \in Run, IsCurrent(x) PROVE metas[t] = Shown(x, t)
        BY <3>2 DEF Started
      <3> QED
        BY <1>1, <1>2, <3>1, <3>2 DEF PollSees, Tells, Shown, calls, runs, history
    <2>3. CASE PollAnswer
      BY <2>3 DEF PollAnswer, NoPoll, PollSees
    <2> QED
      BY <2>1, <2>2, <2>3
  <1> QED
    BY <1>3, <1>4

\* After a kill nothing goes on; the files stay as they are.
LEMMA CrashKeeps ==
    ASSUME IInv, TypeOK', Crash
    PROVE  IInv'
  <1> USE DEF IInv
  <1>1. /\ lock' = None /\ entry' = None /\ poll' = NoPoll
        /\ UNCHANGED <<draft, ends, runMeta, metas, logs, current, unsaved, lost>>
        /\ \A x \in Run : /\ pc'[x] = IF pc[x] \in Preflight \cup {"seal"} THEN "dead" ELSE pc[x]
                          /\ bg'[x] = IF Unfinished(x) THEN "dead" ELSE bg[x]
    BY DEF Crash, Unfinished, disk
  <1>2. LockClears' /\ RunIsRegistered' /\ LogsHoldMetas' /\ PollSees'
    BY <1>1 DEF LockClears, RunIsRegistered, LogsHoldMetas, PollSees, NoPoll, Unfinished
  <1>3. Fresh' /\ LostEnds' /\ Claimed'
    BY <1>1 DEF Fresh, LostEnds, Claimed, Untouched, Preflight, Unfinished
  <1>4. \A x \in Run : IsCurrent(x)' => IsCurrent(x)
    BY <1>1 DEF IsCurrent, Preflight
  <1>5. Started'
    BY <1>1, <1>4 DEF Started, Tells, Shown
  <1>6. LastIsLive' /\ SavedOrNot'
    BY <1>1 DEF LastIsLive, SavedOrNot, Unfinished
  <1> QED
    BY <1>2, <1>3, <1>5, <1>6

\* The inductive invariant holds in every reachable state.
THEOREM Invariance == Spec => []IInv
  <1>1. Init /\ TypeOK => IInv
    BY InitEstablishes
  <1>2. IInv /\ TypeOK' /\ [Next]_vars => IInv'
    <2> SUFFICES ASSUME IInv, TypeOK', [Next]_vars PROVE IInv'
      OBVIOUS
    <2>1. ASSUME NEW r \in Run, Enter(r) PROVE IInv'
      BY <2>1, EnterKeeps
    <2>2. ASSUME NEW r \in Run, Start(r) PROVE IInv'
      BY <2>2, PreflightKeeps, LaunchKeeps, InsertKeeps DEF Start
    <2>3. ASSUME NEW r \in Run, Background(r) PROVE IInv'
      BY <2>3, RunEndsKeeps, SaveVerdictKeeps, RemoveKeeps DEF Background
    <2>4. ASSUME NEW r \in Run, NEW t \in Task, TaskEnd(r, t) PROVE IInv'
      BY <2>4, TaskEndKeeps
    <2>5. CASE CancelRun \/ SealDispatch
      BY <2>5, HandlersKeep
    <2>6. CASE PollRun \/ (\E t \in Task : PollTask(t)) \/ PollAnswer
      BY <2>6, PollKeeps
    <2>7. CASE Crash
      BY <2>7, CrashKeeps
    <2>8. CASE UNCHANGED vars
      BY <2>8 DEF vars, calls, runs, disk, history, IInv, LockClears, RunIsRegistered, Fresh, LostEnds,
         Claimed, LogsHoldMetas, SavedOrNot, Started, PollSees, LastIsLive, Tells,
         Shown, Unfinished, IsCurrent
    <2> QED
      BY <2>1, <2>2, <2>3, <2>4, <2>5, <2>6, <2>7, <2>8 DEF Next
  <1> QED
    BY <1>1, <1>2, TypeCorrect, PTL DEF Spec

----------------------------------------------------------------------------
(* What follows from it. *)

\* Every run going on is the registered one, or is being registered under the lock; and the
\* registered one is going on.
THEOREM Registered == Spec => []RunIsRegistered
  <1>1. IInv => RunIsRegistered
    BY DEF IInv
  <1> QED
    BY <1>1, Invariance, PTL

\* "running" on disk has an owner that will change it, or a recorded reason why nobody will.
THEOREM RunningIsOwned == Spec => []RunningMeansOwned
  <1>1. IInv => RunningMeansOwned
    <2> SUFFICES ASSUME IInv, runMeta # None, runMeta.st = "running", NEW r, r = runMeta.run
                 PROVE  \/ pc[r] \in Preflight \cup {"error", "dead"}
                        \/ bg[r] \in {"live", "save", "dead"}
                        \/ r \in unsaved
      BY DEF RunningMeansOwned
    <2>1. r \in Run /\ runMeta = [run |-> r, st |-> "running"]
      BY DEF IInv, TypeOK, RunFile
    <2>2. pc[r] \in {"metas", "insert", "seal", "ok", "error", "dead"}
      BY <2>1 DEF IInv, Fresh, Untouched, TypeOK, Preflight
    <2>3. pc[r] \in {"seal", "ok"} => bg[r] \in {"live", "save", "remove", "over", "dead"}
      BY <2>1 DEF IInv, Fresh, TypeOK
    <2> QED
      BY <2>1, <2>2, <2>3 DEF IInv, SavedOrNot, Preflight
  <1> QED
    BY <1>1, Invariance, PTL

\* What get_status answers after a start_run is about that run; its verdict is true of how the
\* tasks ended, panics and unsaved metas included, and comes with the last meta of each.
THEOREM StatusIsTrue == Spec => []StatusIsTruthful
  <1>1. IInv => StatusIsTruthful
    BY DEF IInv, StatusIsTruthful, Answering, PollSees, IsCurrent, TypeOK
  <1> QED
    BY <1>1, Invariance, PTL
=============================================================================
