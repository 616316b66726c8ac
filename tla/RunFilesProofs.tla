--------------------------- MODULE RunFilesProofs ---------------------------
(***************************************************************************)
(* The files that are changed without the registry's lock: the metas and   *)
(* the mailbox, and with SharedFactsProofs all three, for any number of    *)
(* attempts, messages, threads, calls and runs.                            *)
(***************************************************************************)
EXTENDS RunFiles, SharedFactsProofs, SequenceTheorems

----------------------------------------------------------------------------
(* The meta of a task. *)

\* The parts of a state are typed, whatever the attempt.
LEMMA TaskTyped ==
    ASSUME MetaTypeOK
    PROVE  /\ meta \in FileOf(Meta) /\ phase \in [Attempt -> Saves \cup {"idle", "work", "over"}]
           /\ step \in [Attempt -> {"open", "write", "rename"}]
           /\ fdesc \in [Attempt -> Inode \cup {NoFile}] /\ latest \in Attempt
BY DEF MetaTypeOK, FileOf

\* The attempts are the task of the run, its resumes and the task of the next run.
LEMMA Attempts ==
    /\ First \in Attempt /\ Again \in Attempt /\ Resume \subseteq Attempt
    /\ First \notin Resume /\ Again \notin Resume
    /\ \A a \in Attempt : a = First \/ a = Again \/ a \in Resume
BY TaskFilesAssumption DEF First, Again, Resume, Attempt

\* Whoever is at work is the latest.
LEMMA AtWorkIsLatest ==
    ASSUME TaskInOrder, NEW a \in Attempt, phase[a] \notin {"idle", "over"}
    PROVE  a = latest
BY DEF TaskInOrder, OneAtWork, Active

\* When nobody is at work, nothing is open and there is no .tmp name.
LEMMA NobodyWrites ==
    ASSUME TaskInOrder, Active = {}
    PROVE  phase[latest] = "over" /\ meta.tmp = NoFile /\ \A b \in Attempt : fdesc[b] = NoFile
<1>1. latest \in Attempt
  BY DEF TaskInOrder, MetaTypeOK
<1>2. phase[latest] = "over"
  BY <1>1 DEF Active, TaskInOrder, OneAtWork
<1>3. phase[latest] \notin Saves
  BY <1>2 DEF Saves
<1>. QED
  BY <1>2, <1>3 DEF TaskInOrder, MetaInOrder

LEMMA TaskInitHolds == TaskInit => TaskInv
<1>. SUFFICES ASSUME TaskInit PROVE TaskInOrder
  BY DEF TaskInv
<1>. DEFINE i == CHOOSE j \in Inode : TRUE
            running == [by |-> First, st |-> "running"]
<1>1. i \in Inode
  BY AtomicFileAssumption
<1>2. meta = [Fresh EXCEPT !.file = i, !.node[i] = running]
  BY DEF TaskInit
<1>3. running \in Meta
  BY Attempts DEF Meta, Status
<1>. HIDE DEF i, running
<1>4. meta = [file |-> i, tmp |-> NoFile, node |-> [[j \in Inode |-> Empty] EXCEPT ![i] = running]]
  BY <1>2 DEF Fresh
<1>5. /\ phase = [a \in Attempt |-> IF a = First THEN "work" ELSE "idle"]
      /\ step = [a \in Attempt |-> "open"] /\ fdesc = [a \in Attempt |-> NoFile]
      /\ latest = First
  BY DEF TaskInit
<1>6. MetaTypeOK
  <2>1. meta \in [file : Inode \cup {NoFile}, tmp : Inode \cup {NoFile},
                 node : [Inode -> Meta \cup {Empty, Torn}]]
    BY <1>1, <1>3, <1>4
  <2>. QED
    BY <2>1, <1>5, Attempts DEF MetaTypeOK, Saves
<1>7. meta.file = i /\ meta.tmp = NoFile /\ meta.node[i] = running
  BY <1>1, <1>4
<1>8. OneAtWork
  <2>1. ~Terminal(meta)
    BY <1>7 DEF Terminal, Contents, running
  <2>. QED
    BY <1>5, <2>1, Attempts DEF OneAtWork, Active
<1>9. MetaInOrder
  <2>1. Whole(meta)
    BY <1>3, <1>7, TornIsNoMeta DEF Whole, Contents
  <2>. QED
    BY <1>5, <1>7, <2>1, Attempts DEF MetaInOrder
<1>10. EndIsSaved
  BY <1>5, Attempts DEF EndIsSaved
<1>. QED
  BY <1>6, <1>8, <1>9, <1>10 DEF TaskInOrder

\* An attempt begins when nobody is at work: a resume after a final meta, a new run without one.
LEMMA BeginHolds ==
    ASSUME TaskInOrder, NEW a \in Attempt, ~doubled',
           (a \in Resume /\ ResumeAgent(a)) \/ (a = Again /\ StartAgain)
    PROVE  TaskInOrder'
<1>1. PICK p \in {"running", "pending"} :
        /\ phase[a] = "idle" /\ phase' = [phase EXCEPT ![a] = p]
        /\ step' = [step EXCEPT ![a] = "open"] /\ latest' = a /\ UNCHANGED fdesc
        /\ Active \cap Resume = {}
  BY DEF ResumeAgent, StartAgain, Begin, Began
<1>2. Active = {}
  <2>1. SUFFICES ASSUME latest \in Active, latest \notin Resume PROVE FALSE
    BY <1>1 DEF TaskInOrder, OneAtWork
  <2>2. ~Terminal(meta) /\ phase[latest] \notin {"idle", "over"} /\ latest \in Attempt
    BY <2>1 DEF TaskInOrder, OneAtWork, Active
  <2>3. CASE ResumeAgent(a)
    BY <2>2, <2>3 DEF ResumeAgent
  <2>4. CASE StartAgain
    BY <2>1, <2>2, <2>4, Attempts DEF StartAgain
  <2>. QED
    BY <2>3, <2>4
<1>3. meta.tmp = NoFile /\ \A b \in Attempt : fdesc[b] = NoFile
  BY <1>2, NobodyWrites
<1>4. /\ meta' \in FileOf(Meta) /\ meta'.tmp = NoFile /\ Whole(meta)'
      /\ a = Again => ~Terminal(meta)'
  <2>1. CASE ResumeAgent(a) /\ a \in Resume
    BY <1>3, <2>1, TaskTyped, Attempts
       DEF ResumeAgent, TaskInOrder, MetaInOrder, Whole, Exists, Contents
  <2>2. CASE StartAgain
    <3>1. meta' = Forget([meta EXCEPT !.file = NoFile, !.tmp = NoFile], Opened)
      BY <2>2 DEF StartAgain
    <3>2. meta \in FileOf(Meta)
      BY TaskTyped DEF TaskInOrder
    <3>3. meta'.file = NoFile /\ meta'.tmp = NoFile /\ meta' \in FileOf(Meta)
      BY <3>1, <3>2, RemovesIt
    <3>. QED
      BY <3>3 DEF Whole, Terminal, Exists
  <2>. QED
    BY <2>1, <2>2
<1>5. /\ \A b \in Attempt : b # a => phase'[b] = phase[b] /\ phase[b] \in {"idle", "over"}
      /\ phase'[a] = p /\ step'[a] = "open" /\ \A b \in Attempt : fdesc'[b] = NoFile
  BY <1>1, <1>2, <1>3, TaskTyped DEF TaskInOrder, Active
<1>6. MetaTypeOK'
  <2>1. /\ phase' \in [Attempt -> Saves \cup {"idle", "work", "over"}]
        /\ step' \in [Attempt -> {"open", "write", "rename"}]
    BY <1>1, TaskTyped DEF TaskInOrder, Saves
  <2>. QED
    BY <1>1, <1>4, <2>1, TaskTyped DEF TaskInOrder, MetaTypeOK, FileOf
<1>7. OneAtWork'
  <2>1. Active' \subseteq {a} /\ phase'[a] # "idle"
    BY <1>5 DEF Active
  <2>2. a \in Resume \/ a = Again
    OBVIOUS
  <2>. QED
    BY <1>1, <1>4, <2>1, <2>2 DEF OneAtWork
<1>8. MetaInOrder'
  BY <1>1, <1>4, <1>5 DEF MetaInOrder
<1>9. EndIsSaved'
  BY <1>1, <1>5 DEF EndIsSaved
<1>. QED
  BY <1>6, <1>7, <1>8, <1>9 DEF TaskInOrder

\* The open and the write of a save: the reader's file is not touched.
LEMMA OpenWriteMetaHolds ==
    ASSUME TaskInOrder, NEW a \in Attempt, OpenMeta(a) \/ WriteMeta(a)
    PROVE  TaskInOrder'
<1>. DEFINE opens == step[a] = "open"
            said == [by |-> a, st |-> StatusOf(phase[a])]
<1>1. /\ phase[a] \in Saves /\ a = latest /\ step[a] \in {"open", "write"}
      /\ step' = [step EXCEPT ![a] = IF opens THEN "write" ELSE "rename"]
      /\ fdesc' = IF opens THEN [fdesc EXCEPT ![a] = meta'.tmp] ELSE fdesc
      /\ UNCHANGED <<phase, latest>>
  <2>1. phase[a] \in Saves
    BY DEF OpenMeta, WriteMeta
  <2>2. a = latest
    BY <2>1, AtWorkIsLatest DEF Saves
  <2>. QED
    BY <2>1, <2>2 DEF OpenMeta, WriteMeta
<1>2. said \in Meta /\ meta \in FileOf(Meta)
  BY <1>1, TaskTyped DEF Meta, Saves, Status, StatusOf, TaskInOrder
<1>3. \A b \in Attempt : b # a => fdesc[b] = NoFile
  BY <1>1 DEF TaskInOrder, MetaInOrder
<1>. HIDE DEF said
<1>4. /\ meta' \in FileOf(Meta) /\ meta'.file = meta.file
      /\ meta'.tmp \in Inode /\ meta'.tmp # meta.file
      /\ meta'.node[meta'.tmp] = IF opens THEN Empty ELSE said
      /\ ~opens => meta'.tmp = fdesc[a]
      /\ \A i \in Inode : i # meta'.tmp => meta'.node[i] = meta.node[i]
  <2>1. CASE opens
    <3>1. meta.tmp = NoFile /\ fdesc[a] = NoFile
      BY <1>1, <2>1 DEF TaskInOrder, MetaInOrder
    <3>2. Opened \subseteq {NoFile}
      BY <1>3, <3>1 DEF Opened, Active
    <3>3. meta' = OpenTmp(meta, Opened)
      BY <2>1 DEF OpenMeta, WriteMeta
    <3>. QED
      BY <1>2, <2>1, <3>1, <3>2, <3>3, OpensItsOwn
  <2>2. CASE step[a] = "write"
    <3>1. /\ fdesc[a] = meta.tmp /\ meta.tmp \in Inode /\ meta.tmp # meta.file
          /\ meta.node[fdesc[a]] = Empty
      BY <1>1, <2>2 DEF TaskInOrder, MetaInOrder
    <3>2. meta' \in Written(meta, fdesc[a], said)
      BY <2>2 DEF OpenMeta, WriteMeta, said
    <3>3. /\ meta' \in FileOf(Meta) /\ meta'.file = meta.file /\ meta'.tmp = meta.tmp
          /\ meta'.node[fdesc[a]] = said
          /\ \A j \in Inode : j # fdesc[a] => meta'.node[j] = meta.node[j]
      BY <1>2, <3>1, <3>2, WritesItAll
    <3>. QED
      BY <2>2, <3>1, <3>3
  <2>. QED
    BY <1>1, <2>1, <2>2
<1>5. /\ \A b \in Attempt : b # a => fdesc'[b] = NoFile
      /\ fdesc'[a] = meta'.tmp /\ step'[a] = (IF opens THEN "write" ELSE "rename")
  BY <1>1, <1>3, <1>4, TaskTyped DEF TaskInOrder
<1>6. Whole(meta)' /\ (Terminal(meta)' <=> Terminal(meta))
  <2>1. meta.file # NoFile => meta'.node[meta.file] = meta.node[meta.file]
    BY <1>2, <1>4 DEF FileOf
  <2>2. CASE meta.file = NoFile
    BY <1>4, <2>2 DEF Whole, Terminal, Exists
  <2>3. CASE meta.file # NoFile
    <3>1. Contents(meta)' = Contents(meta) /\ Exists(meta)' = Exists(meta)
      BY <1>4, <2>1, <2>3 DEF Exists, Contents
    <3>2. Whole(meta)
      BY DEF TaskInOrder, MetaInOrder
    <3>. QED
      BY <3>1, <3>2 DEF Whole, Terminal
  <2>. QED
    BY <2>2, <2>3
<1>7. MetaTypeOK'
  <2>1. /\ step' \in [Attempt -> {"open", "write", "rename"}]
        /\ fdesc' \in [Attempt -> Inode \cup {NoFile}]
    BY <1>1, <1>4, TaskTyped DEF TaskInOrder
  <2>. QED
    BY <1>1, <1>4, <2>1, TaskTyped DEF TaskInOrder, MetaTypeOK, FileOf
<1>8. OneAtWork'
  BY <1>1, <1>6 DEF TaskInOrder, OneAtWork, Active
<1>9. MetaInOrder'
  <2>1. meta'.node[meta'.tmp] = IF step'[a] = "write" THEN Empty ELSE said
    BY <1>4, <1>5
  <2>. QED
    BY <1>1, <1>4, <1>5, <1>6, <2>1 DEF MetaInOrder, said
<1>10. EndIsSaved'
  BY <1>1 DEF EndIsSaved, Saves
<1>. QED
  BY <1>7, <1>8, <1>9, <1>10 DEF TaskInOrder

\* The rename never fails here; the last of them is the end.
LEMMA RenameMetaHolds ==
    ASSUME TaskInOrder, NEW a \in Attempt, RenameMeta(a)
    PROVE  TaskInOrder'
<1>1. phase[a] \in Saves /\ step[a] = "rename" /\ a = latest
  <2>1. phase[a] \in Saves /\ step[a] = "rename"
    BY DEF RenameMeta
  <2>. QED
    BY <2>1, AtWorkIsLatest DEF Saves
<1>2. /\ fdesc[a] = meta.tmp /\ meta.tmp \in Inode
      /\ meta.node[meta.tmp] = [by |-> a, st |-> StatusOf(phase[a])]
      /\ \A b \in Attempt : b # a => fdesc[b] = NoFile
  BY <1>1 DEF TaskInOrder, MetaInOrder
<1>3. PICK p \in AfterSave(phase[a]) :
        /\ phase' = [phase EXCEPT ![a] = p] /\ step' = [step EXCEPT ![a] = "open"]
        /\ meta' = Renamed(meta, Opened \ {fdesc[a]})
        /\ fdesc' = [fdesc EXCEPT ![a] = NoFile] /\ UNCHANGED latest
  BY <1>2, AtomicFileAssumption DEF RenameMeta, CanRename, Begin
<1>4. /\ p \in (Saves \cup {"work", "over"}) /\ p \notin {"idle", "pending"}
      /\ p = "over" <=> phase[a] = "end"
      /\ StatusOf(phase[a]) = "ended" <=> phase[a] = "end"
  BY <1>1, <1>3 DEF Saves, AfterSave, StatusOf
<1>5. /\ meta' \in FileOf(Meta) /\ meta'.file = meta.tmp /\ meta'.tmp = NoFile
      /\ meta'.node[meta'.file] = [by |-> a, st |-> StatusOf(phase[a])]
  BY <1>2, <1>3, TaskTyped, RenamesOverIt DEF TaskInOrder
<1>6. [by |-> a, st |-> StatusOf(phase[a])] \in Meta
  BY <1>1 DEF Meta, Saves, Status, StatusOf
<1>7. /\ Whole(meta)' /\ Contents(meta)'.by = a
      /\ Terminal(meta)' <=> phase[a] = "end"
  BY <1>2, <1>4, <1>5, <1>6, AtomicFileAssumption, TornIsNoMeta
     DEF Whole, Terminal, Exists, Contents
<1>8. /\ \A b \in Attempt : b # a => phase'[b] = phase[b]
      /\ phase'[a] = p /\ step'[a] = "open" /\ \A b \in Attempt : fdesc'[b] = NoFile
  BY <1>2, <1>3, TaskTyped DEF TaskInOrder
<1>9. MetaTypeOK'
  <2>1. /\ phase' \in [Attempt -> Saves \cup {"idle", "work", "over"}]
        /\ step' \in [Attempt -> {"open", "write", "rename"}]
        /\ fdesc' \in [Attempt -> Inode \cup {NoFile}]
    BY <1>3, <1>4, TaskTyped DEF TaskInOrder
  <2>. QED
    BY <1>3, <1>5, <2>1, TaskTyped DEF TaskInOrder, MetaTypeOK, FileOf
<1>10. OneAtWork'
  <2>1. Active' \subseteq {a}
    BY <1>1, <1>8 DEF TaskInOrder, OneAtWork, Active
  <2>2. a \in Active' => ~Terminal(meta)'
    BY <1>4, <1>7, <1>8 DEF Active
  <2>. QED
    BY <1>1, <1>3, <1>4, <1>8, <2>1, <2>2 DEF OneAtWork
<1>11. MetaInOrder'
  BY <1>1, <1>3, <1>5, <1>7, <1>8 DEF MetaInOrder
<1>12. EndIsSaved'
  BY <1>1, <1>3, <1>4, <1>7, <1>8 DEF EndIsSaved
<1>. QED
  BY <1>9, <1>10, <1>11, <1>12 DEF TaskInOrder

\* Events are counted and the process ends: a save begins.
LEMMA WorkHolds ==
    ASSUME TaskInOrder, NEW a \in Attempt, Tick(a) \/ WorkEnds(a)
    PROVE  TaskInOrder'
<1>1. PICK p \in {"tick", "end"} :
        /\ phase[a] = "work"
        /\ phase' = [phase EXCEPT ![a] = p] /\ step' = [step EXCEPT ![a] = "open"]
        /\ UNCHANGED <<meta, fdesc, latest>>
  BY DEF Tick, WorkEnds, Begin
<1>2. a = latest
  BY <1>1, AtWorkIsLatest
<1>3. /\ \A b \in Attempt : b # a => phase'[b] = phase[b]
      /\ phase'[a] = p /\ step'[a] = "open"
  BY <1>1, TaskTyped DEF TaskInOrder
<1>4. meta.tmp = NoFile /\ \A b \in Attempt : fdesc[b] = NoFile
  BY <1>1, <1>2 DEF TaskInOrder, MetaInOrder, Saves
<1>5. MetaTypeOK'
  <2>1. /\ phase' \in [Attempt -> Saves \cup {"idle", "work", "over"}]
        /\ step' \in [Attempt -> {"open", "write", "rename"}]
    BY <1>1, TaskTyped DEF TaskInOrder, Saves
  <2>. QED
    BY <1>1, <2>1 DEF TaskInOrder, MetaTypeOK
<1>6. OneAtWork'
  <2>1. Active' = Active /\ a \in Active
    BY <1>1, <1>3 DEF Active
  <2>. QED
    BY <1>1, <1>2, <1>3, <2>1 DEF TaskInOrder, OneAtWork, Terminal, Whole, Exists, Contents
<1>7. MetaInOrder'
  BY <1>1, <1>2, <1>3, <1>4 DEF TaskInOrder, MetaInOrder, Whole, Exists, Contents
<1>8. EndIsSaved'
  BY <1>1, <1>2, <1>3 DEF EndIsSaved
<1>. QED
  BY <1>5, <1>6, <1>7, <1>8 DEF TaskInOrder

\* What reads, or writes only to the log, does not matter to the meta.
LEMMA TaskQuietHolds ==
    ASSUME TaskInOrder, UNCHANGED <<meta, phase, step, fdesc, latest>>
    PROVE  TaskInOrder'
<1>1. MetaTypeOK'
  BY DEF TaskInOrder, MetaTypeOK
<1>2. OneAtWork' /\ EndIsSaved'
  BY DEF TaskInOrder, OneAtWork, EndIsSaved, Active, Terminal, Whole, Exists, Contents
<1>3. MetaInOrder'
  BY DEF TaskInOrder, MetaInOrder, Whole, Exists, Contents
<1>. QED
  BY <1>1, <1>2, <1>3 DEF TaskInOrder

\* Each step of the attempts and of tail keeps the invariant.
LEMMA TaskStepHolds ==
    ASSUME TaskInv, [TaskNext]_taskVars
    PROVE  TaskInv'
<1>. SUFFICES ASSUME ~doubled' PROVE TaskInOrder'
  BY DEF TaskInv
<1>1. TaskInOrder
  <2>1. ~doubled
    BY DEF TaskNext, taskVars, ResumeAgent, StartAgain, Began, Save, OpenMeta, WriteMeta,
           RenameMeta, LogLine, Tick, WorkEnds, Follow, TailRead, TailCheck
  <2>. QED
    BY <2>1 DEF TaskInv
<1>2. ASSUME NEW a \in Resume, ResumeAgent(a) PROVE TaskInOrder'
  <2>1. a \in Attempt
    BY Attempts
  <2>. QED
    BY <1>1, <1>2, <2>1, BeginHolds
<1>3. CASE StartAgain
  BY <1>1, <1>3, BeginHolds, Attempts
<1>4. ASSUME NEW a \in Attempt, Save(a) PROVE TaskInOrder'
  BY <1>1, <1>4, OpenWriteMetaHolds, RenameMetaHolds DEF Save
<1>5. ASSUME NEW a \in Attempt, Tick(a) \/ WorkEnds(a) PROVE TaskInOrder'
  BY <1>1, <1>5, WorkHolds
<1>6. ASSUME NEW a \in Attempt, LogLine(a) PROVE TaskInOrder'
  BY <1>1, <1>6, TaskQuietHolds DEF LogLine
<1>7. CASE Follow \/ UNCHANGED taskVars
  BY <1>1, <1>7, TaskQuietHolds DEF Follow, TailRead, TailCheck, taskVars
<1>. QED
  BY <1>2, <1>3, <1>4, <1>5, <1>6, <1>7 DEF TaskNext

----------------------------------------------------------------------------
(* Its types, however many attempts write at once. *)

LEMMA TaskInitTyped == TaskInit => TaskShape
<1>. SUFFICES ASSUME TaskInit PROVE TaskShape
  OBVIOUS
<1>1. doubled = FALSE /\ unread = 0 /\ loggers = {First} /\ tpc \in {"read", "stopped"}
  BY DEF TaskInit
<1>2. MetaTypeOK
  BY <1>1, TaskInitHolds DEF TaskInv, TaskInOrder
<1>3. phase[First] = "work" /\ First \in Attempt
  BY Attempts DEF TaskInit
<1>4. 0 \in 0 .. MaxUnread
  BY TaskFilesAssumption
<1>5. loggers \subseteq Active
  BY <1>1, <1>3 DEF Active
<1>6. TaskTypeOK
  BY <1>1, <1>2, <1>4, <1>5 DEF TaskTypeOK
<1>7. MetaClosed /\ LogsAtWork
  BY <1>1, <1>3 DEF MetaClosed, LogsAtWork, TaskInit
<1>. QED
  BY <1>6, <1>7 DEF TaskShape

\* An attempt that opens the .tmp name finds an inode that is not in use.
LEMMA OpenMetaTyped ==
    ASSUME TaskShape, NEW a \in Attempt, OpenMeta(a)
    PROVE  meta' \in FileOf(Meta) /\ meta'.tmp \in Inode
<1>1. fdesc[a] = NoFile
  BY DEF OpenMeta, TaskShape, MetaClosed
<1>2. IsFiniteSet(Attempt) /\ (IsFiniteSet(Inode) => Cardinality(Inode) > Cardinality(Attempt))
  <2>1. Resumes \in Nat /\ 0 \in Int /\ Resumes + 1 \in Int /\ ~ (0 > Resumes + 1)
    BY TaskFilesAssumption
  <2>2. IsFiniteSet(Attempt) /\ Cardinality(Attempt) = Resumes + 1 - 0 + 1
    BY <2>1, FS_Interval DEF Attempt
  <2>. QED
    BY <2>1, <2>2, TaskFilesAssumption
<1>3. PICK j \in Inode : j # meta.file /\ \A u \in Attempt \ {a} : fdesc[u] # j
  BY <1>2, OneIsFree
<1>4. j \notin Opened
  BY <1>1, <1>3, AtomicFileAssumption DEF Opened, Active
<1>5. meta \in FileOf(Meta)
  BY TaskTyped DEF TaskShape, TaskTypeOK
<1>. QED
  BY <1>3, <1>4, <1>5, OpenKeepsFile DEF OpenMeta

\* An attempt that begins a save or ends has its descriptor closed.
LEMMA BeginTyped ==
    ASSUME TaskShape, NEW a \in Attempt, NEW p \in Saves \cup {"work", "over"}, Begin(a, p),
           UNCHANGED fdesc \/ fdesc' = [fdesc EXCEPT ![a] = NoFile],
           fdesc'[a] = NoFile
    PROVE  /\ phase' \in [Attempt -> Saves \cup {"idle", "work", "over"}]
           /\ step' \in [Attempt -> {"open", "write", "rename"}]
           /\ fdesc' \in [Attempt -> Inode \cup {NoFile}]
           /\ MetaClosed' /\ phase'[a] = p
           /\ \A b \in Attempt : b # a => phase'[b] = phase[b]
<1>1. /\ phase \in [Attempt -> Saves \cup {"idle", "work", "over"}]
      /\ step \in [Attempt -> {"open", "write", "rename"}]
      /\ fdesc \in [Attempt -> Inode \cup {NoFile}]
  BY TaskTyped DEF TaskShape, TaskTypeOK
<1>2. phase' = [phase EXCEPT ![a] = p] /\ step' = [step EXCEPT ![a] = "open"]
  BY DEF Begin
<1>3. MetaClosed'
  BY <1>1, <1>2 DEF TaskShape, MetaClosed
<1>. QED
  BY <1>1, <1>2, <1>3

\* Each step keeps the types, whoever else works on the task.
LEMMA TaskStepTyped ==
    ASSUME TaskShape, [TaskNext]_taskVars
    PROVE  TaskShape'
<1>1. /\ meta \in FileOf(Meta) /\ phase \in [Attempt -> Saves \cup {"idle", "work", "over"}]
      /\ step \in [Attempt -> {"open", "write", "rename"}]
      /\ fdesc \in [Attempt -> Inode \cup {NoFile}] /\ latest \in Attempt
      /\ unread \in 0 .. MaxUnread /\ loggers \subseteq Active /\ loggers \subseteq Attempt
      /\ tpc \in {"read", "check", "stopped"} /\ doubled \in BOOLEAN
  BY TaskTyped DEF TaskShape, TaskTypeOK, Active
<1>2. ASSUME meta' \in FileOf(Meta), phase' \in [Attempt -> Saves \cup {"idle", "work", "over"}],
             step' \in [Attempt -> {"open", "write", "rename"}],
             fdesc' \in [Attempt -> Inode \cup {NoFile}], latest' \in Attempt,
             doubled' \in BOOLEAN, unread' \in 0 .. MaxUnread,
             tpc' \in {"read", "check", "stopped"}, MetaClosed', loggers' \subseteq Attempt,
             LogsAtWork'
      PROVE  TaskShape'
  <2>1. loggers' \subseteq Active'
    BY <1>2 DEF LogsAtWork, Active
  <2>. QED
    BY <1>2, <2>1 DEF TaskShape, TaskTypeOK, MetaTypeOK, FileOf
<1>3. CASE UNCHANGED taskVars
  BY <1>3 DEF taskVars, TaskShape, TaskTypeOK, MetaTypeOK, MetaClosed, LogsAtWork, Active
<1>4. ASSUME NEW a \in Attempt, phase[a] = "idle", NEW p \in {"running", "pending"}, Begin(a, p),
             Began(a), UNCHANGED <<fdesc, loggers, unread, tpc>>, meta' \in FileOf(Meta)
      PROVE  TaskShape'
  <2>1. fdesc[a] = NoFile
    BY <1>4 DEF TaskShape, MetaClosed, Saves
  <2>2. /\ phase' \in [Attempt -> Saves \cup {"idle", "work", "over"}]
        /\ step' \in [Attempt -> {"open", "write", "rename"}]
        /\ fdesc' \in [Attempt -> Inode \cup {NoFile}]
        /\ MetaClosed' /\ \A b \in Attempt : b # a => phase'[b] = phase[b]
    BY <1>4, <2>1, BeginTyped DEF Saves
  <2>3. LogsAtWork'
    BY <1>1, <1>4, <2>2 DEF TaskShape, LogsAtWork
  <2>4. latest' \in Attempt /\ doubled' \in BOOLEAN
    BY <1>4 DEF Began
  <2>. QED
    BY <1>1, <1>2, <1>4, <2>2, <2>3, <2>4
<1>5. ASSUME NEW a \in Resume, ResumeAgent(a) PROVE TaskShape'
  BY <1>1, <1>4, <1>5, Attempts DEF ResumeAgent
<1>6. CASE StartAgain
  <2>1. meta' \in FileOf(Meta)
    BY <1>1, <1>6, RemovesIt DEF StartAgain
  <2>. QED
    BY <1>4, <1>6, <2>1, Attempts DEF StartAgain
<1>7. ASSUME NEW a \in Attempt, OpenMeta(a) PROVE TaskShape'
  <2>1. /\ phase[a] \in Saves /\ fdesc' = [fdesc EXCEPT ![a] = meta'.tmp]
        /\ step' = [step EXCEPT ![a] = "write"]
        /\ UNCHANGED <<phase, loggers, unread, tpc, latest, doubled>>
    BY <1>7 DEF OpenMeta
  <2>2. meta' \in FileOf(Meta) /\ meta'.tmp \in Inode
    BY <1>7, OpenMetaTyped
  <2>3. MetaClosed' /\ LogsAtWork'
    BY <1>1, <2>1 DEF TaskShape, MetaClosed, LogsAtWork
  <2>. QED
    BY <1>1, <1>2, <2>1, <2>2, <2>3
<1>8. ASSUME NEW a \in Attempt, WriteMeta(a) PROVE TaskShape'
  <2>1. /\ phase[a] \in Saves /\ step[a] = "write" /\ step' = [step EXCEPT ![a] = "rename"]
        /\ UNCHANGED <<phase, fdesc, loggers, unread, tpc, latest, doubled>>
        /\ meta' \in Written(meta, fdesc[a], [by |-> a, st |-> StatusOf(phase[a])])
    BY <1>8 DEF WriteMeta
  <2>2. [by |-> a, st |-> StatusOf(phase[a])] \in Meta
    BY <2>1 DEF StatusOf, Saves, Status, Meta
  <2>3. meta' \in FileOf(Meta)
    BY <1>1, <2>1, <2>2, WriteKeepsFile
  <2>4. MetaClosed' /\ LogsAtWork'
    BY <1>1, <2>1 DEF TaskShape, MetaClosed, LogsAtWork
  <2>. QED
    BY <1>1, <1>2, <2>1, <2>3, <2>4
<1>9. ASSUME NEW a \in Attempt, RenameMeta(a) PROVE TaskShape'
  <2>1. /\ phase[a] \in Saves /\ fdesc' = [fdesc EXCEPT ![a] = NoFile]
        /\ UNCHANGED <<unread, tpc, latest, doubled>>
        /\ loggers' = IF phase[a] = "pid" /\ phase'[a] = "work" /\ phase[Again] = "idle"
                        THEN loggers \cup {a} ELSE loggers
    BY <1>9 DEF RenameMeta
  <2>2. meta' \in FileOf(Meta)
    BY <1>1, <1>9, RenameKeepsFile DEF RenameMeta
  <2>3. PICK p \in Saves \cup {"work", "over"} : Begin(a, p) /\ (phase[a] = "tick" => p = "work")
    <3>1. CASE CanRename(meta)
      BY <1>9, <2>1, <3>1 DEF RenameMeta, AfterSave, Saves
    <3>2. CASE ~CanRename(meta)
      BY <1>9, <2>1, <3>2 DEF RenameMeta, AfterError, Saves
    <3>. QED
      BY <3>1, <3>2
  <2>4. /\ phase' \in [Attempt -> Saves \cup {"idle", "work", "over"}]
        /\ step' \in [Attempt -> {"open", "write", "rename"}]
        /\ fdesc' \in [Attempt -> Inode \cup {NoFile}]
        /\ MetaClosed' /\ phase'[a] = p /\ \A b \in Attempt : b # a => phase'[b] = phase[b]
    BY <1>1, <2>1, <2>3, BeginTyped
  <2>5. LogsAtWork' /\ loggers' \subseteq Attempt
    <3>1. ASSUME NEW b \in loggers' PROVE b \in Attempt /\ phase'[b] \in {"work", "tick"}
      <4>1. b \in loggers \/ (b = a /\ phase'[a] = "work")
        BY <2>1
      <4>2. b \in loggers => b \in Attempt /\ phase[b] \in {"work", "tick"}
        BY <1>1 DEF TaskShape, LogsAtWork
      <4>3. CASE b = a
        BY <2>1, <2>3, <2>4, <4>1, <4>2, <4>3 DEF Saves
      <4>4. CASE b # a
        BY <2>4, <4>1, <4>2, <4>4
      <4>. QED
        BY <4>3, <4>4
    <3>. QED
      BY <3>1 DEF LogsAtWork
  <2>. QED
    BY <1>1, <1>2, <2>1, <2>2, <2>4, <2>5
<1>10. ASSUME NEW a \in Attempt, Tick(a) \/ WorkEnds(a) PROVE TaskShape'
  <2>1. /\ phase[a] = "work" /\ UNCHANGED <<meta, fdesc, unread, tpc, latest, doubled>>
        /\ \/ Begin(a, "tick") /\ UNCHANGED loggers
           \/ Begin(a, "end") /\ loggers' = loggers \ {a}
    BY <1>10 DEF Tick, WorkEnds
  <2>2. fdesc[a] = NoFile
    BY <2>1 DEF TaskShape, MetaClosed, Saves
  <2>3. /\ phase' \in [Attempt -> Saves \cup {"idle", "work", "over"}]
        /\ step' \in [Attempt -> {"open", "write", "rename"}]
        /\ fdesc' \in [Attempt -> Inode \cup {NoFile}]
        /\ MetaClosed' /\ \A b \in Attempt : b # a => phase'[b] = phase[b]
        /\ phase'[a] = "tick" \/ a \notin loggers'
    BY <2>1, <2>2, BeginTyped DEF Saves
  <2>4. LogsAtWork' /\ loggers' \subseteq Attempt
    BY <1>1, <2>1, <2>3 DEF TaskShape, LogsAtWork
  <2>. QED
    BY <1>1, <1>2, <2>1, <2>3, <2>4
<1>11. ASSUME NEW a \in Attempt, LogLine(a) \/ Follow PROVE TaskShape'
  <2>1. UNCHANGED <<meta, phase, step, fdesc, loggers, latest, doubled>>
    BY <1>11 DEF LogLine, Follow, TailRead, TailCheck
  <2>2. unread' \in 0 .. MaxUnread /\ tpc' \in {"read", "check", "stopped"}
    <3>1. MaxUnread \in Nat
      BY TaskFilesAssumption
    <3>2. CASE LogLine(a)
      BY <1>1, <3>1, <3>2 DEF LogLine
    <3>3. CASE TailRead
      BY <1>1, <3>1, <3>3 DEF TailRead
    <3>4. CASE TailCheck
      BY <1>1, <3>4 DEF TailCheck
    <3>. QED
      BY <1>11, <3>2, <3>3, <3>4 DEF Follow
  <2>3. MetaClosed' /\ LogsAtWork'
    BY <2>1 DEF TaskShape, MetaClosed, LogsAtWork
  <2>. QED
    BY <1>1, <1>2, <2>1, <2>2, <2>3
<1>. QED
  BY <1>3, <1>5, <1>6, <1>7, <1>8, <1>9, <1>10, <1>11, Attempts DEF TaskNext, Save

----------------------------------------------------------------------------
(* The mailbox. *)

LEMMA MailInitHolds == MailInit => MailInv
<1>. SUFFICES ASSUME MailInit PROVE MailInv
  OBVIOUS
<1>1. SendTypeOK
  <2>1. 1 \in Thread /\ 0 \in 0 .. Messages
    BY MailboxAssumption DEF Thread
  <2>2. box \in [Thread -> Seq(Message \X Part)]
    BY DEF MailInit
  <2>. QED
    BY <2>1, <2>2 DEF MailInit, SendTypeOK
<1>2. BodiesStay /\ NotYetComposed
  BY DEF MailInit, BodiesStay, NotYetComposed
<1>3. ListingOnItsWay /\ ListingIsWhole
  BY DEF MailInit, ListingOnItsWay, ListingIsWhole
<1>. QED
  BY <1>1, <1>2, <1>3 DEF MailInv

\* A message is composed, or one more piece of it appended to the file of its thread.
LEMMA SendHolds ==
    ASSUME MailInv, NEW m \in Message, Compose(m) \/ AppendPart(m) \/ WriteFails(m)
    PROVE  MailInv'
<1>1. /\ UNCHANGED <<lpc, todo, found, asked, missed>>
      /\ spc \in [Message -> Part \cup {"idle", "sent", "error"}] /\ thread \in [Message -> Thread]
      /\ box \in [Thread -> Seq(Message \X Part)] /\ composed \in 0 .. Messages
  BY DEF Compose, AppendPart, WriteFails, MailInv, SendTypeOK
<1>2. CASE Compose(m)
  <2>1. PICK t \in Thread : thread' = [thread EXCEPT ![m] = t]
    BY <1>2 DEF Compose
  <2>2. /\ m = composed + 1 /\ composed' = m /\ spc' = [spc EXCEPT ![m] = "head"]
        /\ UNCHANGED box /\ spc[m] = "idle"
    BY <1>1, <1>2, MailboxAssumption DEF Compose, Send, MailInv, NotYetComposed, Message
  <2>3. SendTypeOK'
    BY <1>1, <2>1, <2>2 DEF SendTypeOK, Part, Message
  <2>4. /\ \A n \in Message : n # m => spc'[n] = spc[n] /\ thread'[n] = thread[n]
        /\ spc'[m] = "head"
    BY <1>1, <2>1, <2>2
  <2>5. BodiesStay'
    <3>1. SUFFICES ASSUME NEW n \in Message, spc'[n] \in {"newline", "sent"}
                   PROVE  \E i \in DOMAIN box[thread'[n]] : box[thread'[n]][i] = <<n, "tail">>
      BY <2>2 DEF BodiesStay
    <3>2. n # m
      BY <2>4, <3>1
    <3>3. spc[n] \in {"newline", "sent"} /\ thread'[n] = thread[n]
      BY <2>4, <3>1, <3>2
    <3>. QED
      BY <3>3 DEF MailInv, BodiesStay
  <2>6. NotYetComposed'
    BY <1>1, <2>2, <2>4 DEF MailInv, NotYetComposed, Message
  <2>7. ListingOnItsWay' /\ ListingIsWhole'
    BY <1>1, <2>2, <2>4 DEF MailInv, ListingOnItsWay, ListingIsWhole, Sent
  <2>. QED
    BY <2>3, <2>5, <2>6, <2>7 DEF MailInv
<1>3. CASE AppendPart(m)
  <2>1. /\ spc[m] \in Part /\ spc' = [spc EXCEPT ![m] = After(spc[m])]
        /\ box' = [box EXCEPT ![thread[m]] = Append(box[thread[m]], <<m, spc[m]>>)]
        /\ UNCHANGED <<thread, composed>>
    BY <1>1, <1>3 DEF AppendPart, Sending, Send
  <2>2. /\ After(spc[m]) \in {"tail", "newline", "sent"}
        /\ After(spc[m]) = "newline" => spc[m] = "tail"
        /\ After(spc[m]) = "sent" => spc[m] = "newline"
    BY <2>1 DEF After, Part
  <2>3. /\ \A n \in Message : n # m => spc'[n] = spc[n]
        /\ spc'[m] = After(spc[m])
    BY <1>1, <2>1
  <2>4. thread[m] \in Thread /\ <<m, spc[m]>> \in Message \X Part
    BY <1>1, <2>1
  <2>5. /\ box' \in [Thread -> Seq(Message \X Part)]
        /\ \A t \in Thread : \A i \in DOMAIN box[t] : i \in DOMAIN box'[t] /\ box'[t][i] = box[t][i]
        /\ \E i \in DOMAIN box'[thread[m]] : box'[thread[m]][i] = <<m, spc[m]>>
    <3>1. box[thread[m]] \in Seq(Message \X Part)
      BY <1>1, <2>4
    <3>2. PICK q : q = Append(box[thread[m]], <<m, spc[m]>>)
      OBVIOUS
    <3>3. /\ q \in Seq(Message \X Part)
          /\ \A i \in DOMAIN box[thread[m]] : i \in DOMAIN q /\ q[i] = box[thread[m]][i]
          /\ \E i \in DOMAIN q : q[i] = <<m, spc[m]>>
      <4>1. /\ q \in Seq(Message \X Part) /\ Len(q) = Len(box[thread[m]]) + 1
            /\ \A i \in 1 .. Len(box[thread[m]]) : q[i] = box[thread[m]][i]
            /\ q[Len(box[thread[m]]) + 1] = <<m, spc[m]>>
            /\ Len(box[thread[m]]) \in Nat
        BY <2>4, <3>1, <3>2
      <4>2. DOMAIN q = 1 .. Len(q) /\ DOMAIN box[thread[m]] = 1 .. Len(box[thread[m]])
        BY <3>1, <4>1
      <4>3. Len(q) \in DOMAIN q /\ q[Len(q)] = <<m, spc[m]>>
        BY <4>1, <4>2
      <4>4. \A i \in DOMAIN box[thread[m]] : i \in DOMAIN q
        BY <4>1, <4>2
      <4>. QED
        BY <4>1, <4>2, <4>3, <4>4
    <3>4. box' = [box EXCEPT ![thread[m]] = q]
      BY <2>1, <3>2
    <3>5. box'[thread[m]] = q /\ \A t \in Thread : t # thread[m] => box'[t] = box[t]
      BY <1>1, <2>4, <3>4
    <3>. QED
      BY <1>1, <2>4, <3>3, <3>4, <3>5
  <2>6. SendTypeOK'
    BY <1>1, <2>1, <2>2, <2>5 DEF SendTypeOK, Part
  <2>7. BodiesStay'
    <3>1. SUFFICES ASSUME NEW n \in Message, spc'[n] \in {"newline", "sent"}
                   PROVE  \E i \in DOMAIN box'[thread[n]] : box'[thread[n]][i] = <<n, "tail">>
      BY <2>1 DEF BodiesStay
    <3>2. thread[n] \in Thread
      BY <1>1
    <3>3. CASE spc[n] \in {"newline", "sent"}
      <4>1. PICK i \in DOMAIN box[thread[n]] : box[thread[n]][i] = <<n, "tail">>
        BY <3>3 DEF MailInv, BodiesStay
      <4>. QED
        BY <2>5, <3>2, <4>1
    <3>4. CASE spc[n] \notin {"newline", "sent"}
      BY <2>2, <2>3, <2>5, <3>1, <3>4
    <3>. QED
      BY <3>3, <3>4
  <2>8. NotYetComposed'
    BY <2>1, <2>3 DEF MailInv, NotYetComposed, Part
  <2>9. ListingOnItsWay' /\ ListingIsWhole'
    BY <1>1, <2>1, <2>2, <2>3 DEF MailInv, ListingOnItsWay, ListingIsWhole, Sent, Part
  <2>. QED
    BY <2>6, <2>7, <2>8, <2>9 DEF MailInv
<1>4. CASE WriteFails(m)
  <2>1. /\ spc[m] \in {"tail", "newline"} /\ spc' = [spc EXCEPT ![m] = "error"]
        /\ UNCHANGED <<thread, composed, box>>
    BY <1>4 DEF WriteFails, Send
  <2>2. (\A n \in Message : n # m => spc'[n] = spc[n]) /\ spc'[m] = "error"
    BY <1>1, <2>1
  <2>3. SendTypeOK'
    BY <1>1, <2>1 DEF SendTypeOK
  <2>4. BodiesStay' /\ NotYetComposed'
    BY <2>1, <2>2 DEF MailInv, BodiesStay, NotYetComposed
  <2>5. ListingOnItsWay' /\ ListingIsWhole'
    BY <1>1, <2>1, <2>2 DEF MailInv, ListingOnItsWay, ListingIsWhole, Sent
  <2>. QED
    BY <2>3, <2>4, <2>5 DEF MailInv
<1>. QED
  BY <1>2, <1>3, <1>4

\* What is in the file that is read is found, or the whole listing fails.
LEMMA ListHolds ==
    ASSUME MailInv, BeginList \/ ReadThread \/ EndList
    PROVE  MailInv'
<1>1. UNCHANGED <<spc, thread, composed, box>>
  BY DEF BeginList, ReadThread, EndList
<1>2. SendTypeOK' /\ BodiesStay' /\ NotYetComposed' /\ Sent' = Sent
  BY <1>1 DEF MailInv, SendTypeOK, BodiesStay, NotYetComposed, Sent
<1>3. CASE BeginList
  BY <1>1, <1>2, <1>3 DEF MailInv, SendTypeOK, BeginList, ListingOnItsWay, ListingIsWhole, Sent
<1>4. CASE ReadThread
  <2>1. PICK t : t = Min(todo)
    OBVIOUS
  <2>2. /\ lpc = "reading" /\ UNCHANGED <<asked, missed>>
        /\ \/ found' = found \cup Bodies(box[t]) /\ todo' = todo \ {t}
           \/ lpc' = "idle"
    BY <1>4, <2>1 DEF ReadThread
  <2>3. ASSUME NEW m \in asked, thread[m] = t PROVE m \in Bodies(box[t])
    <3>1. m \in Message /\ spc[m] = "sent"
      BY DEF MailInv, ListingOnItsWay, Sent
    <3>2. PICK i \in DOMAIN box[t] : box[t][i] = <<m, "tail">>
      BY <2>3, <3>1 DEF MailInv, BodiesStay
    <3>. QED
      BY <3>2 DEF Bodies
  <2>4. ListingOnItsWay' /\ ListingIsWhole'
    BY <1>1, <1>2, <2>2, <2>3 DEF MailInv, ListingOnItsWay, ListingIsWhole
  <2>. QED
    BY <1>2, <2>4 DEF MailInv
<1>5. CASE EndList
  <2>1. /\ lpc = "reading" /\ todo = {} /\ lpc' = "idle" /\ asked' = {}
        /\ missed' = (missed \/ ~(asked \subseteq found))
    BY <1>5 DEF EndList
  <2>2. asked \subseteq found
    BY <2>1 DEF MailInv, ListingOnItsWay
  <2>. QED
    BY <1>2, <2>1, <2>2 DEF MailInv, ListingOnItsWay, ListingIsWhole
<1>. QED
  BY <1>3, <1>4, <1>5

\* Each step of the sends and of the listing keeps the invariant.
LEMMA MailStepHolds ==
    ASSUME MailInv, [MailNext]_mailVars
    PROVE  MailInv'
<1>1. CASE UNCHANGED mailVars
  BY <1>1 DEF mailVars, MailInv, SendTypeOK, BodiesStay, NotYetComposed, ListingOnItsWay,
              ListingIsWhole, Sent
<1>. QED
  BY <1>1, SendHolds, ListHolds DEF MailNext

----------------------------------------------------------------------------
(* The pages of a listing, and its types. *)

\* Sorted lists what it is given in ascending order, whatever that is.
LEMMA SortedAscends ==
    ASSUME NEW S \in SUBSET Nat, IsFiniteSet(S)
    PROVE  /\ Sorted(S) \in [1 .. Cardinality(S) -> S]
           /\ \A i, j \in 1 .. Cardinality(S) : i < j => Sorted(S)[i] < Sorted(S)[j]
<1>. DEFINE n == Cardinality(S)
            UpTo(x) == {y \in S : y <= x}
            rank == [x \in S |-> Cardinality(UpTo(x))]
            list == [i \in 1 .. n |-> CHOOSE x \in S : rank[x] = i]
<1>1. n \in Nat /\ \A x \in S : IsFiniteSet(UpTo(x)) /\ rank[x] \in 1 .. n
  <2>1. n \in Nat
    BY FS_CardinalityType
  <2>2. ASSUME NEW x \in S PROVE IsFiniteSet(UpTo(x)) /\ rank[x] \in 1 .. n
    <3>1. UpTo(x) \in SUBSET S /\ x \in UpTo(x)
      OBVIOUS
    <3>2. IsFiniteSet(UpTo(x)) /\ Cardinality(UpTo(x)) <= n
      BY <3>1, FS_Subset
    <3>3. Cardinality(UpTo(x)) \in Nat /\ Cardinality(UpTo(x)) # 0
      BY <3>1, <3>2, FS_CardinalityType, FS_EmptySet
    <3>. QED
      BY <2>1, <3>2, <3>3
  <2>. QED
    BY <2>1, <2>2
<1>2. ASSUME NEW x \in S, NEW z \in S, x < z PROVE rank[x] < rank[z]
  <2>1. UpTo(x) \in SUBSET UpTo(z) /\ z \in UpTo(z) /\ z \notin UpTo(x)
    <3>1. \A y \in S : y \in Nat
      OBVIOUS
    <3>2. x \in Nat /\ z \in Nat /\ ~ (z <= x) /\ z <= z
      BY <1>2, <3>1
    <3>3. \A y \in S : y <= x => y <= z
      BY <1>2, <3>1, <3>2
    <3>. QED
      BY <3>2, <3>3
  <2>2. Cardinality(UpTo(x)) <= Cardinality(UpTo(z)) /\ Cardinality(UpTo(x)) # Cardinality(UpTo(z))
    BY <1>1, <2>1, FS_Subset
  <2>. QED
    BY <1>1, <2>2
<1>3. \A i \in 1 .. n : \E x \in S : rank[x] = i
  <2>1. rank \in [S -> 1 .. n]
    BY <1>1
  <2>2. ASSUME NEW x \in S, NEW z \in S, rank[x] = rank[z] PROVE x = z
    <3>1. x \in Nat /\ z \in Nat /\ rank[x] \in Nat
      BY <1>1
    <3>. HIDE DEF rank
    <3>2. ~ (x < z) /\ ~ (z < x)
      BY <1>2, <2>2, <3>1
    <3>. QED
      BY <3>1, <3>2
  <2>. HIDE DEF rank, n
  <2>3. rank \in Injection(S, 1 .. n)
    BY <2>1, <2>2 DEF Injection, IsInjective
  <2>4. IsFiniteSet(1 .. n) /\ Cardinality(1 .. n) = n
    BY <1>1, FS_Interval
  <2>5. rank \in Surjection(S, 1 .. n)
    BY <2>3, <2>4, FS_Injection DEF n
  <2>. QED
    BY <2>5 DEF Surjection
<1>. HIDE DEF rank
<1>4. \A i \in 1 .. n : list[i] \in S /\ rank[list[i]] = i
  BY <1>3
<1>5. ASSUME NEW i \in 1 .. n, NEW j \in 1 .. n, i < j PROVE list[i] < list[j]
  <2>1. list[i] \in S /\ list[j] \in S /\ rank[list[i]] < rank[list[j]]
    BY <1>1, <1>4, <1>5
  <2>2. /\ list[i] \in Nat /\ list[j] \in Nat
        /\ rank[list[i]] \in Nat /\ rank[list[j]] \in Nat
    <3>1. \A x \in S : x \in Nat
      OBVIOUS
    <3>2. ASSUME NEW k \in 1 .. n PROVE k \in Nat
      BY <1>1
    <3>. QED
      BY <1>1, <2>1, <3>1, <3>2
  <2>. HIDE DEF list, n
  <2>3. list[i] # list[j] /\ ~ (list[j] < list[i])
    BY <1>2, <2>1, <2>2
  <2>. QED
    BY <2>2, <2>3
<1>6. list \in [1 .. n -> S]
  BY <1>4
<1>. QED
  <2>. HIDE DEF list, n
  <2>1. \E s \in [1 .. n -> S] : \A i, j \in DOMAIN s : i < j => s[i] < s[j]
    BY <1>5, <1>6
  <2>2. /\ Sorted(S) \in [1 .. n -> S]
        /\ \A i, j \in DOMAIN Sorted(S) : i < j => Sorted(S)[i] < Sorted(S)[j]
    BY <2>1 DEF Sorted, n
  <2>. QED
    BY <2>2 DEF n

\* The numbers up to n, sorted, are 1 to n: i of them are not above the i-th, and the n - i
\* others are not below it.
LEMMA SortedWhole ==
    ASSUME NEW n \in Nat
    PROVE  Sorted(1 .. n) = [i \in 1 .. n |-> i]
<1>. DEFINE s == Sorted(1 .. n)
<1>1. /\ s \in [1 .. n -> 1 .. n]
      /\ \A i, j \in 1 .. n : i < j => s[i] < s[j]
  <2>1. IsFiniteSet(1 .. n) /\ Cardinality(1 .. n) = n /\ 1 .. n \in SUBSET Nat
    BY FS_Interval
  <2>. QED
    BY <2>1, SortedAscends
<1>. HIDE DEF s
<1>2. ASSUME NEW i \in 1 .. n, NEW j \in 1 .. n, s[i] = s[j] PROVE i = j
  <2>1. s[i] \in Nat /\ s[j] \in Nat /\ ~ (i < j) /\ ~ (j < i)
    BY <1>1, <1>2
  <2>. QED
    BY <2>1
<1>3. ASSUME NEW i \in 1 .. n PROVE s[i] = i
  <2>1. s[i] \in 1 .. n
    BY <1>1
  <2>2. i <= s[i]
    <3>. DEFINE f == [j \in 1 .. i |-> s[j]]
    <3>1. f \in [1 .. i -> 1 .. s[i]]
      <4>1. ASSUME NEW j \in 1 .. i PROVE s[j] \in 1 .. s[i]
        <5>1. s[j] \in 1 .. n /\ (j < i => s[j] < s[i])
          BY <1>1
        <5>. QED
          BY <2>1, <5>1
      <4>. QED
        BY <4>1
    <3>2. \A j, k \in 1 .. i : f[j] = f[k] => j = k
      <4>1. \A j \in 1 .. i : j \in 1 .. n
        OBVIOUS
      <4>. QED
        BY <1>2, <4>1
    <3>3. f \in Injection(1 .. i, 1 .. s[i])
      <4>. HIDE DEF f
      <4>. QED
        BY <3>1, <3>2 DEF Injection, IsInjective
    <3>4. Cardinality(1 .. i) = i /\ Cardinality(1 .. s[i]) = s[i] /\ IsFiniteSet(1 .. s[i])
      BY <2>1, FS_Interval
    <3>5. Cardinality(1 .. i) <= Cardinality(1 .. s[i])
      BY <3>3, <3>4, FS_Injection
    <3>. QED
      BY <3>4, <3>5
  <2>3. s[i] <= i
    <3>. DEFINE f == [j \in i .. n |-> s[j]]
    <3>1. f \in [i .. n -> s[i] .. n]
      <4>1. ASSUME NEW j \in i .. n PROVE s[j] \in s[i] .. n
        <5>1. j \in 1 .. n /\ s[j] \in 1 .. n /\ (i < j => s[i] < s[j])
          BY <1>1
        <5>. QED
          BY <2>1, <5>1
      <4>. QED
        BY <4>1
    <3>2. \A j, k \in i .. n : f[j] = f[k] => j = k
      <4>1. \A j \in i .. n : j \in 1 .. n
        OBVIOUS
      <4>. QED
        BY <1>2, <4>1
    <3>3. f \in Injection(i .. n, s[i] .. n)
      <4>. HIDE DEF f
      <4>. QED
        BY <3>1, <3>2 DEF Injection, IsInjective
    <3>4. /\ Cardinality(i .. n) = n - i + 1 /\ Cardinality(s[i] .. n) = n - s[i] + 1
          /\ IsFiniteSet(s[i] .. n)
      BY <2>1, FS_Interval
    <3>5. Cardinality(i .. n) <= Cardinality(s[i] .. n)
      BY <3>3, <3>4, FS_Injection
    <3>. QED
      BY <2>1, <3>4, <3>5
  <2>. QED
    BY <2>1, <2>2, <2>3
<1>. QED
  BY <1>1, <1>3 DEF s

\* The library's Min is what it says.
LEMMA MinIsLeast ==
    ASSUME NEW S \in SUBSET Nat, S # {}
    PROVE  Min(S) \in S /\ \A i \in S : Min(S) <= i
<1>1. PICK i \in S : \A j \in S : <<j, i>> \notin OpToRel(<, Nat)
  BY NatLessThanWellFounded, WFMin
<1>2. \A j \in S : j \in Nat /\ (<<j, i>> \notin OpToRel(<, Nat) => i <= j)
  BY DEF OpToRel
<1>. QED
  BY <1>1, <1>2 DEF Min

\* The next page is what the limit lets through of the messages from the offset on.
LEMMA PageIsBounded ==
    ASSUME NEW n \in Nat, offset \in Nat
    PROVE  LET k == Min({offset + Limit, n})
           IN  k \in Nat /\ k <= n /\ (offset <= n => offset <= k)
<1>1. offset + Limit \in Nat /\ offset <= offset + Limit
  BY MailboxAssumption
<1>2. {offset + Limit, n} \in SUBSET Nat
  BY <1>1
<1>. QED
  BY <1>1, <1>2, MinIsLeast

LEMMA PageGrows ==
    ASSUME EndList, found = 1 .. composed, composed \in Nat, offset \in 0 .. composed,
           page = [i \in 1 .. offset |-> i]
    PROVE  offset' \in 0 .. composed /\ page' = [i \in 1 .. offset' |-> i]
<1>. DEFINE k == Min({offset + Limit, composed})
            all == Sorted(found)
            new == SubSeq(all, offset + 1, k)
<1>1. k \in offset .. composed
  BY PageIsBounded
<1>2. all = [i \in 1 .. composed |-> i]
  BY SortedWhole
<1>3. all \in Seq(Nat) /\ Len(all) = composed
  BY <1>2
<1>4. page' = page \o new /\ offset' = offset + Len(new)
  BY <1>3 DEF EndList
<1>. HIDE DEF k
<1>5. /\ new \in Seq(Nat) /\ Len(new) = k - offset
      /\ \A i \in 1 .. k - offset : new[i] = offset + i
  <2>1. \A i \in offset + 1 .. k : all[i] \in Nat /\ all[i] = i
    BY <1>1, <1>2
  <2>. HIDE DEF all
  <2>2. /\ new \in Seq(Nat)
        /\ Len(new) = IF offset + 1 <= k THEN k - (offset + 1) + 1 ELSE 0
        /\ \A i \in 1 .. k - (offset + 1) + 1 : new[i] = all[offset + 1 + i - 1]
    BY <1>1, <2>1, SubSeqProperties
  <2>. HIDE DEF new
  <2>. QED
    BY <1>1, <2>1, <2>2
<1>. HIDE DEF new
<1>6. offset' = k
  BY <1>1, <1>4, <1>5
<1>7. page \in Seq(Nat) /\ Len(page) = offset
  OBVIOUS
<1>8. /\ page' \in Seq(Nat) /\ Len(page') = k
      /\ \A i \in 1 .. k : page'[i] = i
  <2>1. /\ page \o new \in Seq(Nat) /\ Len(page \o new) = Len(page) + Len(new)
        /\ \A i \in 1 .. Len(page) + Len(new) :
              (page \o new)[i] = IF i <= Len(page) THEN page[i] ELSE new[i - Len(page)]
    BY <1>5, <1>7, ConcatProperties
  <2>2. \A i \in 1 .. k : i > offset => i - offset \in 1 .. k - offset
    BY <1>1
  <2>. QED
    BY <1>1, <1>4, <1>5, <2>1, <2>2
<1>9. page' = [i \in 1 .. k |-> i]
  BY <1>1, <1>8
<1>. QED
  BY <1>1, <1>6, <1>9

LEMMA MailInitTyped == MailInit => MailTypeOK
<1>. SUFFICES ASSUME MailInit PROVE MailTypeOK
  OBVIOUS
<1>1. SendTypeOK
  BY MailInitHolds DEF MailInv
<1>2. page = <<>> /\ offset = 0 /\ page \in Seq(Message) /\ Len(page) = 0
  BY DEF MailInit
<1>3. {missed, overlap} \subseteq BOOLEAN
  BY DEF MailInit
<1>4. /\ lpc \in {"idle", "reading"} /\ todo \subseteq Thread
      /\ found \subseteq Message /\ asked \subseteq Message
  BY DEF MailInit
<1>. QED
  BY <1>1, <1>2, <1>3, <1>4 DEF MailTypeOK

\* Whatever a listing has found, the client is given some of it.
LEMMA PageTyped ==
    ASSUME MailTypeOK, EndList
    PROVE  page' \in Seq(Message) /\ offset' = Len(page')
<1>1. found \in SUBSET Nat /\ IsFiniteSet(found)
  <2>1. found \in SUBSET (1 .. Messages) /\ Messages \in Nat
    BY MailboxAssumption DEF MailTypeOK, Message
  <2>2. IsFiniteSet(1 .. Messages)
    BY <2>1, FS_Interval
  <2>3. 1 .. Messages \subseteq Nat
    BY <2>1
  <2>. QED
    BY <2>1, <2>2, <2>3, FS_Subset
<1>. DEFINE all == Sorted(found)
            k == Min({offset + Limit, Len(all)})
            new == SubSeq(all, offset + 1, k)
<1>2. Cardinality(found) \in Nat /\ all \in [1 .. Cardinality(found) -> found]
  BY <1>1, FS_CardinalityType, SortedAscends
<1>3. Len(all) \in Nat /\ \A i \in 1 .. Len(all) : all[i] \in Message
  <2>. HIDE DEF all
  <2>1. all \in Seq(found) /\ Len(all) = Cardinality(found)
    BY <1>2
  <2>. QED
    BY <1>2, <2>1 DEF MailTypeOK
<1>4. page \in Seq(Message) /\ offset = Len(page) /\ offset \in Nat
  BY DEF MailTypeOK
<1>5. k \in Nat /\ k <= Len(all)
  BY <1>3, <1>4, PageIsBounded
<1>6. page' = page \o new /\ offset' = offset + Len(new)
  BY DEF EndList
<1>. HIDE DEF k, all
<1>7. new \in Seq(Message)
  <2>1. \A i \in offset + 1 .. k : all[i] \in Message
    BY <1>3, <1>4, <1>5
  <2>. QED
    BY <1>4, <1>5, <2>1, SubSeqProperties
<1>. HIDE DEF new
<1>. QED
  BY <1>4, <1>6, <1>7, ConcatProperties

LEMMA MailStepTyped ==
    ASSUME MailTypeOK, SendTypeOK', [MailNext]_mailVars
    PROVE  MailTypeOK'
<1>1. CASE UNCHANGED mailVars
  BY <1>1 DEF mailVars, MailTypeOK
<1>2. ASSUME NEW m \in Message, Compose(m) \/ AppendPart(m) \/ WriteFails(m) PROVE MailTypeOK'
  BY <1>2 DEF Compose, AppendPart, WriteFails, MailTypeOK
<1>3. CASE BeginList
  BY <1>3 DEF BeginList, MailTypeOK, Sent
<1>4. CASE ReadThread
  <2>1. PICK t : t = Min(todo)
    OBVIOUS
  <2>2. /\ lpc = "reading" /\ todo # {} /\ UNCHANGED <<offset, page, asked, missed, overlap>>
        /\ \/ found' = found \cup Bodies(box[t]) /\ todo' = todo \ {t} /\ lpc' = lpc
           \/ found' = {} /\ todo' = {} /\ lpc' = "idle"
    BY <1>4, <2>1 DEF ReadThread
  <2>3. t \in Thread
    <3>1. todo \in SUBSET Nat
      BY DEF MailTypeOK, Thread
    <3>. QED
      BY <2>1, <2>2, <3>1, MinIsLeast DEF MailTypeOK
  <2>4. box[t] \in Seq(Message \X Part)
    BY <2>3 DEF MailTypeOK, SendTypeOK
  <2>5. Bodies(box[t]) \subseteq Message
    <3>1. ASSUME NEW i \in DOMAIN box[t] PROVE box[t][i][1] \in Message
      <4>1. box[t][i] \in Message \X Part
        BY <2>4
      <4>. QED
        BY <4>1
    <3>. QED
      BY <3>1 DEF Bodies
  <2>. QED
    BY <2>2, <2>5 DEF MailTypeOK
<1>5. CASE EndList
  <2>1. /\ todo = {} /\ lpc' = "idle" /\ found' = {} /\ asked' = {} /\ UNCHANGED <<todo, overlap>>
        /\ missed' = (missed \/ ~(asked \subseteq found))
    BY <1>5 DEF EndList
  <2>. QED
    BY <1>5, <2>1, PageTyped DEF MailTypeOK
<1>. QED
  BY <1>1, <1>2, <1>3, <1>4, <1>5 DEF MailNext

LEMMA PagesInitHold == MailInit => PagesInv
<1>. SUFFICES ASSUME MailInit PROVE Serial
  BY DEF PagesInv
<1>1. composed = 0 /\ offset = 0 /\ page = <<>> /\ found = {} /\ lpc = "idle"
  BY DEF MailInit
<1>2. OneSends
  BY DEF MailInit, OneSends, Sending, Part
<1>3. LinesBegun /\ AllFound
  BY <1>1 DEF MailInit, LinesBegun, AllFound
<1>4. PagesMissNothing
  BY <1>1 DEF PagesMissNothing
<1>. QED
  BY <1>2, <1>3, <1>4 DEF Serial

\* A message may be composed when no other is sent and nothing is listed.
LEMMA ComposeSerial ==
    ASSUME MailInv, NEW m \in Message, Compose(m), Serial, ~overlap'
    PROVE  Serial'
<1>1. /\ spc \in [Message -> Part \cup {"idle", "sent", "error"}] /\ thread \in [Message -> Thread]
      /\ box \in [Thread -> Seq(Message \X Part)]
      /\ composed \in Nat /\ Messages \in Nat /\ composed <= Messages
  BY MailboxAssumption DEF MailInv, SendTypeOK
<1>2. PICK t \in Thread : thread' = [thread EXCEPT ![m] = t]
  BY DEF Compose
<1>3. /\ m = composed + 1 /\ composed' = m /\ spc' = [spc EXCEPT ![m] = "head"]
      /\ Sending = {} /\ lpc # "reading"
      /\ UNCHANGED <<box, lpc, todo, found, offset, page>>
  BY DEF Compose, Send
<1>4. /\ \A n \in Message : n # m => spc'[n] = spc[n] /\ thread'[n] = thread[n]
      /\ spc'[m] = "head"
  BY <1>1, <1>2, <1>3
<1>5. OneSends'
  BY <1>3, <1>4 DEF OneSends, Sending
<1>6. LinesBegun'
  <2>1. ASSUME NEW n \in 1 .. composed', spc'[n] # "head"
        PROVE  \E i \in DOMAIN box'[thread'[n]] : box'[thread'[n]][i] = <<n, "head">>
    <3>1. n # m /\ n \in 1 .. composed /\ n \in 1 .. Messages
      BY <1>1, <1>3, <1>4, <2>1
    <3>2. n \in Message
      BY <3>1 DEF Message
    <3>. QED
      BY <1>3, <1>4, <2>1, <3>1, <3>2 DEF Serial, LinesBegun
  <2>2. ASSUME NEW t2 \in Thread, NEW i \in DOMAIN box'[t2] PROVE box'[t2][i][1] <= composed'
    <3>1. i \in DOMAIN box[t2] /\ box[t2] \in Seq(Message \X Part)
      BY <1>1, <1>3
    <3>2. box[t2][i] \in Message \X Part
      BY <3>1
    <3>3. box[t2][i][1] \in Nat /\ box[t2][i][1] <= composed
      BY <3>1, <3>2 DEF Serial, LinesBegun, Message
    <3>. QED
      BY <1>1, <1>3, <3>3
  <2>. QED
    BY <2>1, <2>2 DEF LinesBegun
<1>7. AllFound'
  <2>1. /\ composed' \in Nat /\ 0 .. composed \subseteq 0 .. composed'
        /\ 1 .. composed \subseteq 1 .. composed'
    BY <1>1, <1>3
  <2>. QED
    BY <1>3, <2>1 DEF Serial, AllFound
<1>8. PagesMissNothing'
  <2>1. page = [i \in 1 .. offset |-> i]
    BY DEF Serial, PagesMissNothing, Compose
  <2>. QED
    BY <1>3, <2>1 DEF PagesMissNothing
<1>. QED
  BY <1>5, <1>6, <1>7, <1>8 DEF Serial

\* Each piece goes behind what is there.
LEMMA AppendSerial ==
    ASSUME MailInv, NEW m \in Message, AppendPart(m) \/ WriteFails(m), Serial
    PROVE  Serial'
<1>1. /\ spc \in [Message -> Part \cup {"idle", "sent", "error"}] /\ thread \in [Message -> Thread]
      /\ box \in [Thread -> Seq(Message \X Part)]
      /\ composed \in Nat /\ Messages \in Nat /\ composed <= Messages
  BY MailboxAssumption DEF MailInv, SendTypeOK
<1>2. /\ UNCHANGED <<thread, composed, lpc, todo, found, offset, page, overlap>>
      /\ \A n \in Message : n # m => spc'[n] = spc[n]
      /\ spc[m] \in Part /\ m \in Sending
      /\ spc'[m] # "head"
  <2>1. CASE AppendPart(m)
    BY <1>1, <2>1 DEF AppendPart, Send, After, Sending, Part
  <2>2. CASE WriteFails(m)
    BY <1>1, <2>2 DEF WriteFails, Send, Sending, Part
  <2>. QED
    BY <2>1, <2>2
<1>3. OneSends'
  BY <1>2 DEF Serial, OneSends, Sending
<1>4. m <= composed
  BY <1>1, <1>2 DEF MailInv, NotYetComposed, Part, Message
<1>5. AllFound' /\ PagesMissNothing'
  BY <1>2 DEF Serial, AllFound, PagesMissNothing
<1>6. CASE AppendPart(m)
  <2>1. box' = [box EXCEPT ![thread[m]] = Append(box[thread[m]], <<m, spc[m]>>)]
    BY <1>6 DEF AppendPart
  <2>2. thread[m] \in Thread /\ <<m, spc[m]>> \in Message \X Part
    BY <1>1, <1>2
  <2>3. PICK q : q = Append(box[thread[m]], <<m, spc[m]>>)
    OBVIOUS
  <2>4. /\ box'[thread[m]] = q /\ \A t \in Thread : t # thread[m] => box'[t] = box[t]
    BY <1>1, <2>1, <2>2, <2>3
  <2>5. /\ DOMAIN q = 1 .. Len(box[thread[m]]) + 1 /\ Len(box[thread[m]]) \in Nat
        /\ DOMAIN box[thread[m]] = 1 .. Len(box[thread[m]])
        /\ \A i \in DOMAIN box[thread[m]] : q[i] = box[thread[m]][i]
        /\ q[Len(box[thread[m]]) + 1] = <<m, spc[m]>>
    <3>1. box[thread[m]] \in Seq(Message \X Part)
      BY <1>1, <2>2
    <3>. QED
      BY <2>2, <2>3, <3>1
  <2>6. ASSUME NEW n \in 1 .. composed, spc'[n] # "head"
        PROVE  \E i \in DOMAIN box'[thread[n]] : box'[thread[n]][i] = <<n, "head">>
    <3>1. n \in Message /\ thread[n] \in Thread
      BY <1>1 DEF Message
    <3>2. CASE spc[n] # "head"
      <4>1. PICK i \in DOMAIN box[thread[n]] : box[thread[n]][i] = <<n, "head">>
        BY <3>2 DEF Serial, LinesBegun
      <4>2. i \in DOMAIN box'[thread[n]] /\ box'[thread[n]][i] = box[thread[n]][i]
        BY <2>4, <2>5, <3>1, <4>1
      <4>. QED
        BY <4>1, <4>2
    <3>3. CASE spc[n] = "head"
      <4>1. n = m
        BY <1>2, <2>6, <3>1, <3>3
      <4>2. Len(box[thread[m]]) + 1 \in DOMAIN q
        BY <2>5
      <4>. QED
        BY <2>4, <2>5, <3>3, <4>1, <4>2
    <3>. QED
      BY <3>2, <3>3
  <2>7. ASSUME NEW t \in Thread, NEW i \in DOMAIN box'[t] PROVE box'[t][i][1] <= composed
    <3>1. CASE t # thread[m]
      BY <2>4, <3>1 DEF Serial, LinesBegun
    <3>2. CASE t = thread[m]
      <4>1. i \in DOMAIN q /\ box'[t][i] = q[i]
        BY <2>4, <3>2
      <4>2. i \in DOMAIN box[thread[m]] \/ i = Len(box[thread[m]]) + 1
        BY <2>5, <4>1
      <4>. QED
        BY <1>4, <2>2, <2>5, <4>1, <4>2 DEF Serial, LinesBegun
    <3>. QED
      BY <3>1, <3>2
  <2>8. LinesBegun'
    BY <1>2, <2>6, <2>7 DEF LinesBegun
  <2>. QED
    BY <1>3, <1>5, <2>8 DEF Serial
<1>7. CASE WriteFails(m)
  <2>1. UNCHANGED box /\ spc[m] # "head"
    BY <1>7 DEF WriteFails
  <2>2. LinesBegun'
    <3>1. ASSUME NEW n \in 1 .. composed, spc'[n] # "head" PROVE spc[n] # "head"
      <4>1. n \in Message
        BY <1>1 DEF Message
      <4>. QED
        BY <1>2, <2>1, <3>1, <4>1
    <3>. QED
      BY <1>2, <2>1, <3>1 DEF Serial, LinesBegun
  <2>. QED
    BY <1>3, <1>5, <2>2 DEF Serial
<1>. QED
  BY <1>6, <1>7

\* A file that parses has the message of every line that was begun in it.
LEMMA BegunIsWhole ==
    ASSUME NEW f, NEW m, Parses(f), \E i \in DOMAIN f : f[i] = <<m, "head">>,
           f \in Seq(Message \X Part)
    PROVE  m \in Bodies(f)
<1>1. PICK i \in DOMAIN f : f[i] = <<m, "head">>
  OBVIOUS
<1>2. i < Len(f) /\ f[i + 1] = <<m, "tail">>
  BY <1>1 DEF Parses
<1>3. i + 1 \in DOMAIN f
  BY <1>1, <1>2
<1>. QED
  BY <1>2, <1>3 DEF Bodies

LEMMA ListSerial ==
    ASSUME MailInv, todo \subseteq Thread, BeginList \/ ReadThread \/ EndList, Serial, ~overlap'
    PROVE  Serial'
<1>1. UNCHANGED <<spc, thread, composed, box>>
  BY DEF BeginList, ReadThread, EndList
<1>2. LinesBegun' /\ Sending' = Sending
  BY <1>1 DEF Serial, LinesBegun, Sending
<1>3. /\ composed \in Nat /\ box \in [Thread -> Seq(Message \X Part)]
      /\ thread \in [Message -> Thread] /\ 1 .. composed \subseteq Message
  BY MailboxAssumption DEF MailInv, SendTypeOK, Message
<1>4. ~overlap
  BY DEF BeginList, ReadThread, EndList
<1>5. page = [i \in 1 .. offset |-> i]
  BY <1>4 DEF Serial, PagesMissNothing
<1>6. CASE BeginList
  <2>1. /\ Sending = {} /\ lpc' = "reading" /\ todo' = Thread /\ found' = {}
        /\ UNCHANGED <<offset, page>>
    BY <1>6 DEF BeginList
  <2>2. OneSends' /\ AllFound'
    BY <1>1, <1>2, <1>3, <2>1 DEF Serial, OneSends, AllFound
  <2>. QED
    BY <1>2, <1>5, <2>1, <2>2 DEF Serial, PagesMissNothing
<1>7. CASE ReadThread
  <2>1. PICK t : t = Min(todo)
    OBVIOUS
  <2>2. /\ lpc = "reading" /\ todo # {} /\ UNCHANGED <<offset, page>>
        /\ \/ /\ Parses(box[t]) /\ found' = found \cup Bodies(box[t]) /\ todo' = todo \ {t}
              /\ lpc' = lpc
           \/ found' = {} /\ todo' = {} /\ lpc' = "idle"
    BY <1>7, <2>1 DEF ReadThread
  <2>3. t \in Thread
    <3>1. todo \in SUBSET Nat
      BY DEF Thread
    <3>. QED
      BY <2>1, <2>2, <3>1, MinIsLeast
  <2>4. box[t] \in Seq(Message \X Part) /\ Sending = {}
    BY <1>3, <2>2, <2>3 DEF Serial, OneSends
  <2>5. ASSUME NEW m \in Bodies(box[t]) PROVE m \in 1 .. composed
    <3>1. PICK i \in DOMAIN box[t] : box[t][i][1] = m
      BY DEF Bodies
    <3>2. m \in Message /\ m <= composed
      <4>1. box[t][i] \in Message \X Part
        BY <2>4, <3>1
      <4>. QED
        BY <2>3, <3>1, <4>1 DEF Serial, LinesBegun
    <3>. QED
      BY <1>3, <3>2 DEF Message
  <2>6. ASSUME NEW m \in 1 .. composed, thread[m] = t, Parses(box[t]) PROVE m \in Bodies(box[t])
    <3>1. spc[m] # "head"
      BY <1>3, <2>4 DEF Sending, Part
    <3>. QED
      BY <2>4, <2>6, <3>1, BegunIsWhole DEF Serial, LinesBegun
  <2>7. AllFound'
    BY <1>1, <2>2, <2>5, <2>6 DEF Serial, AllFound
  <2>8. OneSends'
    BY <1>1, <1>2, <2>2 DEF Serial, OneSends
  <2>. QED
    BY <1>2, <1>5, <2>2, <2>7, <2>8 DEF Serial, PagesMissNothing
<1>8. CASE EndList
  <2>1. lpc = "reading" /\ todo = {} /\ lpc' = "idle" /\ found' = {} /\ UNCHANGED todo
    BY <1>8 DEF EndList
  <2>2. OneSends'
    BY <1>2, <2>1 DEF Serial, OneSends
  <2>3. found = 1 .. composed
    BY <2>1 DEF Serial, AllFound
  <2>4. offset \in 0 .. composed
    BY <1>3 DEF Serial, AllFound
  <2>5. offset' \in 0 .. composed /\ page' = [i \in 1 .. offset' |-> i]
    BY <1>3, <1>5, <1>8, <2>3, <2>4, PageGrows
  <2>6. AllFound' /\ PagesMissNothing'
    BY <1>1, <2>1, <2>5 DEF AllFound, PagesMissNothing
  <2>. QED
    BY <1>2, <2>2, <2>6 DEF Serial
<1>. QED
  BY <1>6, <1>7, <1>8

LEMMA MailStepSerial ==
    ASSUME MailInv, MailTypeOK, PagesInv, [MailNext]_mailVars
    PROVE  PagesInv'
<1>. SUFFICES ASSUME ~overlap' PROVE Serial'
  BY DEF PagesInv
<1>1. Serial
  <2>1. ~overlap
    BY DEF MailNext, mailVars, Compose, AppendPart, WriteFails, BeginList, ReadThread, EndList
  <2>. QED
    BY <2>1 DEF PagesInv
<1>2. CASE UNCHANGED mailVars
  BY <1>1, <1>2 DEF mailVars, Serial, OneSends, LinesBegun, AllFound, PagesMissNothing, Sending
<1>3. CASE BeginList \/ ReadThread \/ EndList
  BY <1>1, <1>3, ListSerial DEF MailTypeOK
<1>. QED
  BY <1>1, <1>2, <1>3, ComposeSerial, AppendSerial DEF MailNext

----------------------------------------------------------------------------
(* The three together. *)

\* A step of one of them is a step or a stutter of each.
THEOREM Invariance == Spec => [](FactsInv /\ MailInv /\ TaskInv)
<1>1. Init => FactsInv /\ MailInv /\ TaskInv
  BY FactsInitHolds, MailInitHolds, TaskInitHolds DEF Init
<1>2. [Next]_vars => [FactsNext]_factsVars /\ [MailNext]_mailVars /\ [TaskNext]_taskVars
  BY DEF Next, vars, FactsStep, MailStep, TaskStep
<1>3. FactsInv /\ MailInv /\ TaskInv /\ [Next]_vars => (FactsInv /\ MailInv /\ TaskInv)'
  BY <1>2, FactsStepHolds, MailStepHolds, TaskStepHolds
<1>. QED
  BY <1>1, <1>3, PTL DEF Spec

\* As long as overlapping calls use the same lock, no written fact is lost: a worker gets the
\* last word for every key written before it was spawned.
THEOREM FactsReach == Spec => []FactsReachWorkers
<1>1. FactsInv => FactsReachWorkers
  BY DEF FactsInv, FactsInOrder, FactsReachWorkers
<1>. QED
  BY <1>1, Invariance, PTL

\* A listing that succeeds has every message sent before it began.
THEOREM ListingHasAll == Spec => []ListingIsWhole
<1>1. MailInv => ListingIsWhole
  BY DEF MailInv
<1>. QED
  BY <1>1, Invariance, PTL

\* As long as nobody begins during a resume, the meta always parses, and is the final one of
\* the last attempt when nobody is at work.
THEOREM MetaIsFinal == Spec => []MetaSettles
<1>1. ASSUME TaskInv PROVE MetaSettles
  <2>. SUFFICES ASSUME ~doubled
                PROVE  /\ Whole(meta)
                       /\ Active = {} => Terminal(meta) /\ Contents(meta).by = latest
    BY DEF MetaSettles
  <2>1. TaskInOrder
    BY <1>1 DEF TaskInv
  <2>. QED
    BY <2>1, NobodyWrites DEF TaskInOrder, MetaInOrder, EndIsSaved
<1>. QED
  BY <1>1, Invariance, PTL

\* Facts, messages and metas keep their types, wherever calls clash, overlap or are doubled.
THEOREM TypeCorrect == Spec => []TypeOK
<1>. DEFINE Typed == FactsTypeOK /\ FactsClosed /\ MailTypeOK /\ TaskShape /\ use \in Uses
<1>1. Init => Typed
  BY FactsInitTyped, MailInitTyped, TaskInitTyped DEF Init
<1>2. ASSUME MailInv', Typed, [Next]_vars PROVE Typed'
  <2>1. [FactsNext]_factsVars /\ [MailNext]_mailVars /\ [TaskNext]_taskVars /\ UNCHANGED use
    BY <1>2 DEF Next, vars, FactsStep, MailStep, TaskStep
  <2>2. SendTypeOK'
    BY <1>2 DEF MailInv
  <2>. QED
    BY <1>2, <2>1, <2>2, FactsStepTyped, MailStepTyped, TaskStepTyped
<1>3. Typed => TypeOK
  BY DEF TypeOK, TaskShape
<1>4. Spec => []Typed
  <2>. HIDE DEF Typed
  <2>. QED
    BY <1>1, <1>2, Invariance, PTL DEF Spec
<1>. QED
  BY <1>3, <1>4, PTL

\* As long as sends and listings do not overlap, the pages are the messages in their order.
THEOREM PagesAreWhole == Spec => []PagesMissNothing
<1>1. Init => PagesInv
  BY PagesInitHold DEF Init
<1>2. ASSUME MailInv, TypeOK, PagesInv, [Next]_vars PROVE PagesInv'
  <2>1. [MailNext]_mailVars
    BY <1>2 DEF Next, vars, FactsStep, MailStep, TaskStep
  <2>. QED
    BY <1>2, <2>1, MailStepSerial DEF TypeOK
<1>3. PagesInv => PagesMissNothing
  BY DEF PagesInv, Serial, PagesMissNothing
<1>. QED
  BY <1>1, <1>2, <1>3, Invariance, TypeCorrect, PTL DEF Spec
=============================================================================
