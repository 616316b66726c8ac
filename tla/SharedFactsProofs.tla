------------------------- MODULE SharedFactsProofs -------------------------
(***************************************************************************)
(* No update of the shared facts is lost, and every worker gets the last   *)
(* word of the calls answered before it was spawned, as long as calls that *)
(* overlap use the same lock: for any number of calls, keys and runs.      *)
(***************************************************************************)
EXTENDS SharedFacts, AtomicFileProofs

\* The parts of a state are typed, whatever the call.
LEMMA FactsTyped ==
    ASSUME FactsTypeOK
    PROVE  /\ facts \in FileOf(Facts) /\ fpc \in [Writer -> {"idle", "wait", "read", "open",
                                                   "write", "rename", "written", "error"}]
           /\ holder \in [1 .. MaxRuns -> Writer \cup {None}]
           /\ fkey \in [Writer -> Key \cup {None}] /\ flock \in [Writer -> 0 .. MaxRuns]
           /\ fd \in [Writer -> Inode \cup {NoFile}] /\ map \in [Writer -> Facts]
           /\ before \in [Writer -> SUBSET Writer] /\ MaxRuns \in Nat
           /\ run \in 0 .. MaxRuns /\ on \in BOOLEAN /\ (on => run > 0)
           /\ worker \in [lines : Facts, more : BOOLEAN, after : SUBSET Writer]
BY SharedFactsAssumption DEF FactsTypeOK, FileOf

\* A call that is past the lock is alone there.
LEMMA Alone ==
    ASSUME FactsInOrder, NEW w \in Inside, NEW u \in Inside
    PROVE  w = u
<1>. SUFFICES ASSUME w # u PROVE FALSE
  OBVIOUS
<1>1. w \in Busy /\ u \in Busy
  BY DEF Inside, Busy
<1>2. flock[w] = flock[u] /\ flock[w] # 0
  BY <1>1 DEF FactsInOrder, OneInside
<1>. QED
  BY <1>2 DEF FactsInOrder, OneInside

\* What a reader finds are facts.
LEMMA CurrentIsFacts ==
    ASSUME FactsInOrder
    PROVE  Current \in Facts /\ NoFacts \in Facts
<1>1. NoFacts \in Facts
  BY DEF NoFacts, Facts
<1>2. ASSUME Exists(facts) PROVE Contents(facts) \in Facts
  BY <1>2, FactsTyped DEF FactsInOrder, FileInOrder, Whole, Exists, Contents, FileOf
<1>. QED
  BY <1>1, <1>2 DEF Current

\* Nobody is at work at first, and nobody has been answered.
LEMMA FactsInitHolds == FactsInit => FactsInv
<1>. SUFFICES ASSUME FactsInit PROVE FactsInOrder
  BY DEF FactsInv
<1>1. /\ \A w \in Writer : fpc[w] = "idle" /\ fd[w] = NoFile /\ before[w] = {}
      /\ worker.after = {} /\ facts.file = NoFile /\ facts.tmp = NoFile
  BY DEF FactsInit, Fresh
<1>2. NoFacts \in Facts
  BY DEF NoFacts, Facts
<1>3. FactsTypeOK
  <2>1. facts \in [file : Inode \cup {NoFile}, tmp : Inode \cup {NoFile},
                    node : [Inode -> Facts \cup {Empty, Torn}]]
    BY DEF FactsInit, Fresh
  <2>2. worker \in [lines : Facts, more : BOOLEAN, after : SUBSET Writer]
    BY <1>2 DEF FactsInit
  <2>3. run \in 0 .. MaxRuns /\ on \in BOOLEAN /\ (on => run > 0) /\ clash \in BOOLEAN
    <3>1. run = 0 /\ on = FALSE /\ clash = FALSE /\ MaxRuns \in Nat
      BY SharedFactsAssumption DEF FactsInit
    <3>2. run \in 0 .. MaxRuns
      BY <3>1
    <3>. QED
      BY <3>1, <3>2
  <2>4. flock \in [Writer -> 0 .. MaxRuns] /\ map \in [Writer -> Facts]
    BY <1>2, SharedFactsAssumption DEF FactsInit
  <2>. QED
    BY <2>1, <2>2, <2>3, <2>4 DEF FactsInit, FactsTypeOK
<1>4. OneInside
  BY <1>1 DEF OneInside, Busy, Inside
<1>5. FileInOrder
  BY <1>1 DEF FileInOrder, Whole, Exists
<1>6. LastWord /\ FactsReachWorkers /\ worker.after \subseteq Answered
  BY <1>1 DEF LastWord, Answered, FactsReachWorkers
<1>. QED
  BY <1>3, <1>4, <1>5, <1>6 DEF FactsInOrder

----------------------------------------------------------------------------

\* Runs come and go without touching the calls and the file.
LEMMA RunsHold ==
    ASSUME FactsInOrder, RunInserted \/ RunRemoved
    PROVE  FactsInOrder'
<1>1. UNCHANGED <<facts, holder, fpc, fkey, flock, fd, map, before, worker, clash>>
  BY DEF RunInserted, RunRemoved
<1>2. FactsTypeOK'
  <2>1. run' \in 0 .. MaxRuns /\ on' \in BOOLEAN /\ (on' => run' > 0)
    <3>1. run \in 0 .. MaxRuns /\ MaxRuns \in Nat
      BY FactsTyped DEF FactsInOrder
    <3>2. CASE RunInserted
      <4>1. on' = TRUE /\ run' = run + 1 /\ run < MaxRuns
        BY <3>2 DEF RunInserted
      <4>2. run' \in 0 .. MaxRuns /\ run' > 0
        BY <3>1, <4>1
      <4>. QED
        BY <4>1, <4>2
    <3>3. CASE RunRemoved
      BY <3>1, <3>3 DEF RunRemoved
    <3>. QED
      BY <3>2, <3>3
  <2>. QED
    BY <1>1, <2>1 DEF FactsInOrder, FactsTypeOK
<1>3. OneInside'
  BY <1>1 DEF FactsInOrder, OneInside, Busy, Inside
<1>4. FileInOrder'
  BY <1>1 DEF FactsInOrder, FileInOrder, Whole, Exists, Contents, Current
<1>5. LastWord' /\ FactsReachWorkers' /\ (worker.after \subseteq Answered)'
  BY <1>1 DEF FactsInOrder, LastWord, Answered, Current, Exists, Contents, FactsReachWorkers
<1>. QED
  BY <1>2, <1>3, <1>4, <1>5 DEF FactsInOrder

\* The preamble shows the last word for a key, or says that there is more.
LEMMA SpawnHolds ==
    ASSUME FactsInOrder, SpawnWorker
    PROVE  FactsInOrder'
<1>1. UNCHANGED <<facts, run, on, holder, fpc, fkey, flock, fd, map, before, clash>>
  BY DEF SpawnWorker
<1>2. worker' = [lines |-> Preamble(Current), more |-> Truncated(Current), after |-> Answered]
  BY DEF SpawnWorker, Current, FactsInOrder, FileInOrder
<1>3. /\ Preamble(Current) \in Facts /\ Truncated(Current) \in BOOLEAN
      /\ Answered \in SUBSET Writer
  BY CurrentIsFacts DEF Preamble, Truncated, Answered, Facts
<1>4. FactsTypeOK'
  BY <1>1, <1>2, <1>3 DEF FactsInOrder, FactsTypeOK
<1>5. OneInside'
  BY <1>1 DEF FactsInOrder, OneInside, Busy, Inside
<1>6. FileInOrder'
  BY <1>1 DEF FactsInOrder, FileInOrder, Whole, Exists, Contents, Current
<1>7. LastWord' /\ Answered' = Answered
  BY <1>1 DEF FactsInOrder, LastWord, Answered, Current, Exists, Contents
<1>8. FactsReachWorkers'
  <2>1. ASSUME NEW w \in Answered
        PROVE  \/ /\ Preamble(Current)[fkey[w]] # None
                  /\ \A u \in Answered : fkey[u] = fkey[w]
                                            => Preamble(Current)[fkey[w]] \notin before[u]
               \/ Preamble(Current)[fkey[w]] = None /\ Truncated(Current)
    <3>1. fkey[w] \in Key /\ Current[fkey[w]] # None
      BY DEF FactsInOrder, FileInOrder, LastWord, Answered
    <3>2. CASE Fits(Current, fkey[w])
      BY <3>1, <3>2 DEF Preamble, FactsInOrder, LastWord
    <3>3. CASE ~Fits(Current, fkey[w])
      BY <3>1, <3>3 DEF Preamble, Truncated
    <3>. QED
      BY <3>2, <3>3
  <2>. QED
    BY <1>1, <1>2, <2>1 DEF FactsReachWorkers
<1>. QED
  BY <1>2, <1>4, <1>5, <1>6, <1>7, <1>8 DEF FactsInOrder

----------------------------------------------------------------------------

\* A call begins: under the lock of the calls it overlaps, and knowing those answered before.
LEMMA LookupHolds ==
    ASSUME FactsInOrder, NEW w \in Writer, LookupLock(w), ~clash'
    PROVE  FactsInOrder'
<1>1. PICK k \in Key :
        /\ fpc[w] = "idle" /\ fpc' = [fpc EXCEPT ![w] = "wait"]
        /\ fkey' = [fkey EXCEPT ![w] = k] /\ before' = [before EXCEPT ![w] = Answered]
        /\ flock' = [flock EXCEPT ![w] = IF on THEN run ELSE 0]
        /\ \A u \in Busy : flock[u] = flock'[w] /\ flock[u] # 0
        /\ UNCHANGED <<facts, run, on, holder, fd, map, worker>>
  BY DEF LookupLock, Go
<1>2. /\ \A u \in Writer : u # w => /\ fpc'[u] = fpc[u] /\ fkey'[u] = fkey[u]
                                     /\ before'[u] = before[u] /\ flock'[u] = flock[u]
      /\ fpc'[w] = "wait" /\ fkey'[w] = k /\ before'[w] = Answered
  BY <1>1, FactsTyped DEF FactsInOrder
<1>3. Answered' = Answered /\ Inside' = Inside /\ w \notin Busy /\ Busy' = Busy \cup {w}
  BY <1>1, <1>2 DEF Answered, Inside, Busy
<1>4. w \notin Answered /\ w \notin Inside /\ Answered \subseteq Writer /\ Inside \subseteq Writer
  BY <1>1 DEF Answered, Inside
<1>5. Current' = Current
  BY <1>1 DEF Current, Exists, Contents
<1>6. FactsTypeOK'
  <2>1. /\ fpc' \in [Writer -> {"idle", "wait", "read", "open", "write", "rename", "written",
                                "error"}]
        /\ fkey' \in [Writer -> Key \cup {None}] /\ flock' \in [Writer -> 0 .. MaxRuns]
        /\ before' \in [Writer -> SUBSET Writer]
    BY <1>1, <1>4, FactsTyped DEF FactsInOrder
  <2>2. clash' \in BOOLEAN
    BY DEF LookupLock
  <2>. QED
    BY <1>1, <2>1, <2>2 DEF FactsInOrder, FactsTypeOK
<1>7. OneInside'
  <2>1. ASSUME NEW u \in Busy', NEW v \in Busy', u # v
        PROVE  flock'[u] = flock'[v] /\ flock'[u] # 0
    BY <1>1, <1>2, <1>3, <2>1 DEF FactsInOrder, OneInside, Busy
  <2>2. ASSUME NEW u \in Inside', flock'[u] # 0 PROVE holder'[flock'[u]] = u
    BY <1>1, <1>2, <1>3, <1>4, <2>2 DEF FactsInOrder, OneInside
  <2>. QED
    BY <2>1, <2>2 DEF OneInside
<1>8. FileInOrder'
  <2>1. Whole(facts)'
    BY <1>1 DEF FactsInOrder, FileInOrder, Whole, Exists, Contents
  <2>2. ASSUME NEW u \in Writer
        PROVE  /\ fpc'[u] # "idle" => fkey'[u] \in Key
               /\ fpc'[u] \notin {"write", "rename"} => fd'[u] = NoFile
    <3>1. CASE u = w
      <4>1. fkey'[w] \in Key
        BY <1>2
      <4>2. fd'[w] = NoFile
        BY <1>1 DEF FactsInOrder, FileInOrder
      <4>. QED
        BY <3>1, <4>1, <4>2
    <3>2. CASE u # w
      BY <1>1, <1>2, <3>2 DEF FactsInOrder, FileInOrder
    <3>. QED
      BY <3>1, <3>2
  <2>3. ASSUME NEW u \in Writer, fpc'[u] \in {"open", "write", "rename"}
        PROVE  /\ u # w /\ fpc'[u] = fpc[u] /\ fkey'[u] = fkey[u]
               /\ map'[u] = [Current' EXCEPT ![fkey'[u]] = u]
    BY <1>1, <1>2, <1>5, <2>3 DEF FactsInOrder, FileInOrder
  <2>4. ASSUME NEW u \in Writer, fpc'[u] \in {"write", "rename"}
        PROVE  /\ fd'[u] = facts'.tmp /\ facts'.tmp \in Inode /\ facts'.tmp # facts'.file
               /\ facts'.node[fd'[u]] = IF fpc'[u] = "write" THEN Empty ELSE map'[u]
    BY <1>1, <2>3, <2>4 DEF FactsInOrder, FileInOrder
  <2>5. facts'.tmp # NoFile => \E u \in Writer : fpc'[u] \in {"write", "rename"}
    BY <1>1, <1>2 DEF FactsInOrder, FileInOrder
  <2>. QED
    BY <2>1, <2>2, <2>3, <2>4, <2>5 DEF FileInOrder
<1>9. LastWord'
  BY <1>2, <1>3, <1>4, <1>5 DEF FactsInOrder, LastWord
<1>10. FactsReachWorkers' /\ (worker.after \subseteq Answered)'
  <2>1. worker' = worker /\ worker.after \subseteq Answered /\ ~clash
    BY <1>1 DEF FactsInOrder, LookupLock
  <2>2. \A u \in worker.after : fkey'[u] = fkey[u] /\ before'[u] = before[u]
    BY <1>2, <1>4, <2>1
  <2>. QED
    BY <1>3, <2>1, <2>2 DEF FactsInOrder, FactsReachWorkers
<1>. QED
  BY <1>6, <1>7, <1>8, <1>9, <1>10 DEF FactsInOrder

\* The lock is taken, if there is one: whoever is past it is alone.
LEMMA AcquireHolds ==
    ASSUME FactsInOrder, NEW w \in Writer, Acquire(w)
    PROVE  FactsInOrder'
<1>1. /\ fpc[w] = "wait" /\ fpc' = [fpc EXCEPT ![w] = "read"]
      /\ flock[w] # 0 => holder[flock[w]] = None
      /\ holder' = IF flock[w] = 0 THEN holder ELSE [holder EXCEPT ![flock[w]] = w]
      /\ UNCHANGED <<facts, run, on, fkey, flock, fd, map, before, worker, clash>>
  BY DEF Acquire, Go
<1>2. (\A u \in Writer : u # w => fpc'[u] = fpc[u]) /\ fpc'[w] = "read"
  BY <1>1, FactsTyped DEF FactsInOrder
<1>3. Answered' = Answered /\ Inside' = Inside \cup {w} /\ Busy' = Busy /\ w \in Busy
  BY <1>1, <1>2 DEF Answered, Inside, Busy
<1>4. Current' = Current
  BY <1>1 DEF Current, Exists, Contents
<1>5. FactsTypeOK'
  <2>1. /\ fpc' \in [Writer -> {"idle", "wait", "read", "open", "write", "rename", "written",
                                "error"}]
        /\ holder' \in [1 .. MaxRuns -> Writer \cup {None}]
    BY <1>1, FactsTyped DEF FactsInOrder
  <2>. QED
    BY <1>1, <2>1, FactsTyped DEF FactsInOrder, FactsTypeOK
<1>6. Inside \subseteq Writer /\ Inside \subseteq Busy /\ None \notin Writer
  BY SharedFactsAssumption DEF Inside, Busy, Writer
<1>7. \A u \in Inside : u # w /\ flock[u] = flock[w] /\ flock[u] # 0 /\ holder[flock[u]] = u
  BY <1>1, <1>3, <1>6 DEF FactsInOrder, OneInside, Inside
<1>8. OneInside'
  <2>1. Inside = {}
    BY <1>1, <1>6, <1>7
  <2>2. flock[w] # 0 => holder'[flock[w]] = w
    BY <1>1, FactsTyped DEF FactsInOrder
  <2>. QED
    BY <1>1, <1>3, <2>1, <2>2 DEF FactsInOrder, OneInside
<1>9. FileInOrder'
  BY <1>1, <1>2, <1>4 DEF FactsInOrder, FileInOrder, Whole, Exists, Contents
<1>10. LastWord' /\ FactsReachWorkers' /\ (worker.after \subseteq Answered)'
  BY <1>1, <1>3, <1>4 DEF FactsInOrder, LastWord, FactsReachWorkers
<1>. QED
  BY <1>5, <1>8, <1>9, <1>10 DEF FactsInOrder

\* The file is read whole, and the value put in.
LEMMA ReadHolds ==
    ASSUME FactsInOrder, NEW w \in Writer, ReadAll(w)
    PROVE  FactsInOrder'
<1>1. /\ fpc[w] = "read" /\ fpc' = [fpc EXCEPT ![w] = "open"]
      /\ map' = [map EXCEPT ![w] = [Current EXCEPT ![fkey[w]] = w]]
      /\ UNCHANGED <<facts, run, on, holder, fkey, flock, fd, before, worker, clash>>
  BY DEF FactsInOrder, FileInOrder, ReadAll, Go, Current
<1>2. /\ \A u \in Writer : u # w => fpc'[u] = fpc[u] /\ map'[u] = map[u]
      /\ fpc'[w] = "open" /\ map'[w] = [Current EXCEPT ![fkey[w]] = w]
  BY <1>1, FactsTyped DEF FactsInOrder
<1>3. Answered' = Answered /\ Inside' = Inside /\ Busy' = Busy /\ Answered \subseteq Writer
  BY <1>1, <1>2 DEF Answered, Inside, Busy
<1>4. Current' = Current
  BY <1>1 DEF Current, Exists, Contents
<1>5. FactsTypeOK'
  <2>1. [Current EXCEPT ![fkey[w]] = w] \in Facts
    BY CurrentIsFacts DEF Facts
  <2>2. /\ fpc' \in [Writer -> {"idle", "wait", "read", "open", "write", "rename", "written",
                                "error"}]
        /\ map' \in [Writer -> Facts]
    BY <1>1, <2>1, FactsTyped DEF FactsInOrder
  <2>. QED
    BY <1>1, <2>2 DEF FactsInOrder, FactsTypeOK
<1>6. OneInside'
  BY <1>1, <1>3 DEF FactsInOrder, OneInside
<1>7. FileInOrder'
  <2>1. Whole(facts)'
    BY <1>1 DEF FactsInOrder, FileInOrder, Whole, Exists, Contents
  <2>2. ASSUME NEW u \in Writer
        PROVE  /\ fpc'[u] # "idle" => fkey'[u] \in Key
               /\ fpc'[u] \notin {"write", "rename"} => fd'[u] = NoFile
    <3>1. CASE u = w
      BY <1>1, <1>2, <3>1 DEF FactsInOrder, FileInOrder
    <3>2. CASE u # w
      BY <1>1, <1>2, <3>2 DEF FactsInOrder, FileInOrder
    <3>. QED
      BY <3>1, <3>2
  <2>3. ASSUME NEW u \in Writer, fpc'[u] \in {"open", "write", "rename"}
        PROVE  map'[u] = [Current' EXCEPT ![fkey'[u]] = u]
    BY <1>1, <1>2, <1>4, <2>3 DEF FactsInOrder, FileInOrder
  <2>4. ASSUME NEW u \in Writer, fpc'[u] \in {"write", "rename"}
        PROVE  /\ fd'[u] = facts'.tmp /\ facts'.tmp \in Inode /\ facts'.tmp # facts'.file
               /\ facts'.node[fd'[u]] = IF fpc'[u] = "write" THEN Empty ELSE map'[u]
    BY <1>1, <1>2, <2>4 DEF FactsInOrder, FileInOrder
  <2>5. facts'.tmp # NoFile => \E u \in Writer : fpc'[u] \in {"write", "rename"}
    BY <1>1, <1>2 DEF FactsInOrder, FileInOrder
  <2>. QED
    BY <2>1, <2>2, <2>3, <2>4, <2>5 DEF FileInOrder
<1>8. LastWord' /\ FactsReachWorkers' /\ (worker.after \subseteq Answered)'
  BY <1>1, <1>3, <1>4 DEF FactsInOrder, LastWord, FactsReachWorkers
<1>. QED
  BY <1>5, <1>6, <1>7, <1>8 DEF FactsInOrder

\* The call past the lock gets a .tmp file of its own, and writes all it has to say to it.
LEMMA OpenWriteHolds ==
    ASSUME FactsInOrder, NEW w \in Writer, OpenFacts(w) \/ WriteFacts(w)
    PROVE  FactsInOrder'
<1>. DEFINE opens == fpc[w] = "open"
<1>1. /\ fpc[w] \in {"open", "write"} /\ w \in Inside
      /\ fpc' = [fpc EXCEPT ![w] = IF opens THEN "write" ELSE "rename"]
      /\ fd' = IF opens THEN [fd EXCEPT ![w] = facts'.tmp] ELSE fd
      /\ UNCHANGED <<run, on, holder, fkey, flock, map, before, worker, clash>>
  BY DEF OpenFacts, WriteFacts, Go, Inside
<1>2. \A u \in Writer : u # w => fpc[u] \notin {"read", "open", "write", "rename"}
  BY <1>1, Alone DEF Inside
<1>3. /\ facts' \in FileOf(Facts) /\ facts'.file = facts.file
      /\ facts'.tmp \in Inode /\ facts'.tmp # facts.file
      /\ facts'.node[facts'.tmp] = IF opens THEN Empty ELSE map[w]
      /\ ~opens => facts'.tmp = fd[w]
      /\ \A i \in Inode : i # facts'.tmp => facts'.node[i] = facts.node[i]
  <2>0. facts \in FileOf(Facts) /\ map[w] \in Facts
    BY FactsTyped DEF FactsInOrder
  <2>1. CASE opens
    <3>1. \A u \in Writer : fpc[u] \notin {"write", "rename"}
      BY <1>2, <2>1
    <3>2. facts.tmp = NoFile /\ \A u \in Writer : fd[u] = NoFile
      BY <3>1 DEF FactsInOrder, FileInOrder
    <3>3. Open \subseteq {NoFile}
      BY <3>2 DEF Open, Busy
    <3>4. facts' = OpenTmp(facts, Open)
      BY <2>1 DEF OpenFacts, WriteFacts
    <3>. QED
      BY <2>0, <2>1, <3>2, <3>3, <3>4, OpensItsOwn
  <2>2. CASE fpc[w] = "write"
    <3>1. /\ fd[w] = facts.tmp /\ facts.tmp \in Inode /\ facts.tmp # facts.file
          /\ facts.node[fd[w]] = Empty
      BY <2>2 DEF FactsInOrder, FileInOrder
    <3>2. facts' \in Written(facts, fd[w], map[w])
      BY <2>2 DEF OpenFacts, WriteFacts
    <3>3. /\ facts' \in FileOf(Facts) /\ facts'.file = facts.file /\ facts'.tmp = facts.tmp
          /\ facts'.node[fd[w]] = map[w]
          /\ \A j \in Inode : j # fd[w] => facts'.node[j] = facts.node[j]
      BY <2>0, <3>1, <3>2, WritesItAll
    <3>. QED
      BY <2>2, <3>1, <3>3
  <2>. QED
    BY <1>1, <2>1, <2>2
<1>4. /\ \A u \in Writer : u # w => fpc'[u] = fpc[u] /\ fd'[u] = fd[u]
      /\ fpc'[w] = (IF opens THEN "write" ELSE "rename") /\ fd'[w] = facts'.tmp
  BY <1>1, <1>3, FactsTyped DEF FactsInOrder
<1>5. Answered' = Answered /\ Inside' = Inside /\ Busy' = Busy /\ Answered \subseteq Writer
  BY <1>1, <1>4 DEF Answered, Inside, Busy
<1>6. Current' = Current /\ Whole(facts)'
  <2>1. facts.file # NoFile => facts'.node[facts.file] = facts.node[facts.file]
    BY <1>3, FactsTyped DEF FactsInOrder, FileOf
  <2>. QED
    BY <1>3, <2>1 DEF FactsInOrder, FileInOrder, Whole, Current, Exists, Contents
<1>7. FactsTypeOK'
  <2>1. /\ fpc' \in [Writer -> {"idle", "wait", "read", "open", "write", "rename", "written",
                                "error"}]
        /\ fd' \in [Writer -> Inode \cup {NoFile}]
    BY <1>1, <1>3, FactsTyped DEF FactsInOrder
  <2>. QED
    BY <1>1, <1>3, <2>1 DEF FactsInOrder, FactsTypeOK, FileOf
<1>8. OneInside'
  BY <1>1, <1>5 DEF FactsInOrder, OneInside
<1>9. FileInOrder'
  <2>1. ASSUME NEW u \in Writer
        PROVE  /\ fpc'[u] # "idle" => fkey'[u] \in Key
               /\ fpc'[u] \notin {"write", "rename"} => fd'[u] = NoFile
    <3>1. CASE u = w
      BY <1>1, <1>4, <3>1 DEF FactsInOrder, FileInOrder
    <3>2. CASE u # w
      BY <1>1, <1>4, <3>2 DEF FactsInOrder, FileInOrder
    <3>. QED
      BY <3>1, <3>2
  <2>2. ASSUME NEW u \in Writer, fpc'[u] \in {"open", "write", "rename"}
        PROVE  u = w /\ map'[u] = [Current' EXCEPT ![fkey'[u]] = u]
    BY <1>1, <1>2, <1>4, <1>6, <2>2 DEF FactsInOrder, FileInOrder
  <2>3. ASSUME NEW u \in Writer, fpc'[u] \in {"write", "rename"}
        PROVE  /\ fd'[u] = facts'.tmp /\ facts'.tmp \in Inode /\ facts'.tmp # facts'.file
               /\ facts'.node[fd'[u]] = IF fpc'[u] = "write" THEN Empty ELSE map'[u]
    <3>1. u = w /\ map' = map
      BY <1>1, <2>2, <2>3
    <3>2. facts'.node[facts'.tmp] = IF fpc'[w] = "write" THEN Empty ELSE map[w]
      BY <1>3, <1>4
    <3>. QED
      BY <1>3, <1>4, <3>1, <3>2
  <2>4. \E u \in Writer : fpc'[u] \in {"write", "rename"}
    BY <1>4
  <2>. QED
    BY <1>6, <2>1, <2>2, <2>3, <2>4 DEF FileInOrder
<1>10. LastWord' /\ FactsReachWorkers' /\ (worker.after \subseteq Answered)'
  BY <1>1, <1>5, <1>6 DEF FactsInOrder, LastWord, FactsReachWorkers
<1>. QED
  BY <1>7, <1>8, <1>9, <1>10 DEF FactsInOrder

\* The rename answers the call, and its value is the last word.
LEMMA RenameHolds ==
    ASSUME FactsInOrder, NEW w \in Writer, RenameFacts(w)
    PROVE  FactsInOrder'
<1>1. /\ fpc[w] = "rename" /\ w \in Inside
      /\ fd[w] = facts.tmp /\ facts.tmp \in Inode /\ facts.node[facts.tmp] = map[w]
      /\ map[w] = [Current EXCEPT ![fkey[w]] = w] /\ fkey[w] \in Key
  BY DEF RenameFacts, FactsInOrder, FileInOrder, Inside
<1>2. /\ facts' = Renamed(facts, Open \ {fd[w]})
      /\ fpc' = [fpc EXCEPT ![w] = "written"]
      /\ holder' = IF flock[w] = 0 THEN holder ELSE [holder EXCEPT ![flock[w]] = None]
      /\ fd' = [fd EXCEPT ![w] = NoFile] /\ map' = [map EXCEPT ![w] = NoFacts]
      /\ UNCHANGED <<run, on, fkey, flock, before, worker, clash>>
  BY <1>1, AtomicFileAssumption DEF RenameFacts, CanRename, Answer, Go
<1>3. \A u \in Writer : u # w => fpc[u] \notin {"read", "open", "write", "rename"}
  BY <1>1, Alone DEF Inside
<1>4. facts \in FileOf(Facts) /\ map[w] \in Facts
  BY FactsTyped DEF FactsInOrder
<1>5. /\ facts' \in FileOf(Facts) /\ facts'.file = facts.tmp /\ facts'.tmp = NoFile
      /\ facts'.node[facts'.file] = map[w]
  BY <1>1, <1>2, <1>4, RenamesOverIt
<1>6. /\ \A u \in Writer : u # w => fpc'[u] = fpc[u] /\ fd'[u] = fd[u] /\ map'[u] = map[u]
      /\ fpc'[w] = "written" /\ fd'[w] = NoFile
  BY <1>2, FactsTyped DEF FactsInOrder
<1>7. /\ Answered' = Answered \cup {w} /\ w \notin Answered /\ Answered \subseteq Writer
      /\ Inside' = {} /\ Busy' \subseteq Busy
  BY <1>1, <1>3, <1>6 DEF Answered, Inside, Busy
<1>8. Current' = map[w] /\ Whole(facts)'
  BY <1>1, <1>4, <1>5, AtomicFileAssumption, TornIsNoFacts
     DEF Current, Exists, Contents, Whole
<1>9. FactsTypeOK'
  <2>1. /\ fpc' \in [Writer -> {"idle", "wait", "read", "open", "write", "rename", "written",
                                "error"}]
        /\ fd' \in [Writer -> Inode \cup {NoFile}] /\ map' \in [Writer -> Facts]
        /\ holder' \in [1 .. MaxRuns -> Writer \cup {None}]
    BY <1>2, FactsTyped, CurrentIsFacts DEF FactsInOrder
  <2>. QED
    BY <1>2, <1>5, <2>1 DEF FactsInOrder, FactsTypeOK, FileOf
<1>10. OneInside'
  BY <1>2, <1>7 DEF FactsInOrder, OneInside
<1>11. FileInOrder'
  <2>1. ASSUME NEW u \in Writer
        PROVE  /\ fpc'[u] # "idle" => fkey'[u] \in Key
               /\ fd'[u] = NoFile
               /\ fpc'[u] \notin {"open", "write", "rename"}
    <3>1. CASE u = w
      BY <1>1, <1>2, <1>6, <3>1
    <3>2. CASE u # w
      BY <1>2, <1>3, <1>6, <3>2 DEF FactsInOrder, FileInOrder
    <3>. QED
      BY <3>1, <3>2
  <2>. QED
    BY <1>5, <1>8, <2>1 DEF FileInOrder
<1>12. LastWord'
  <2>1. \A u \in Writer : before'[u] \subseteq Answered /\ w \notin before'[u]
    BY <1>2, <1>7 DEF FactsInOrder, LastWord
  <2>2. Current'[fkey[w]] = w /\ \A k \in Key : k # fkey[w] => Current'[k] = Current[k]
    BY <1>1, <1>8, CurrentIsFacts DEF Facts
  <2>3. ASSUME NEW x \in Answered', fkey'[x] = fkey[w]
        PROVE  /\ Current'[fkey'[x]] # None
               /\ \A u \in Answered' : Current'[fkey'[x]] \notin before'[u]
    BY <1>7, <2>1, <2>2, <2>3, SharedFactsAssumption DEF Writer
  <2>4. ASSUME NEW x \in Answered', fkey'[x] # fkey[w]
        PROVE  /\ Current'[fkey'[x]] # None
               /\ \A u \in Answered' : fkey'[u] = fkey'[x] => Current'[fkey'[x]] \notin before'[u]
    <3>1. x \in Answered /\ fkey[x] \in Key /\ fkey[x] # fkey[w]
      BY <1>2, <1>7, <2>4 DEF FactsInOrder, FileInOrder, Answered
    <3>2. Current'[fkey'[x]] = Current[fkey[x]]
      BY <1>2, <2>2, <3>1
    <3>. QED
      BY <1>2, <1>7, <3>1, <3>2 DEF FactsInOrder, LastWord
  <2>. QED
    BY <1>7, <2>1, <2>3, <2>4 DEF LastWord
<1>13. FactsReachWorkers' /\ (worker.after \subseteq Answered)'
  BY <1>2, <1>7 DEF FactsInOrder, FactsReachWorkers
<1>. QED
  BY <1>9, <1>10, <1>11, <1>12, <1>13 DEF FactsInOrder

----------------------------------------------------------------------------

\* Each step of the calls, the runs and the workers keeps the invariant.
LEMMA FactsStepHolds ==
    ASSUME FactsInv, [FactsNext]_factsVars
    PROVE  FactsInv'
<1>. SUFFICES ASSUME ~clash' PROVE FactsInOrder'
  BY DEF FactsInv
<1>1. FactsInOrder
  <2>1. ~clash
    BY DEF FactsNext, factsVars, RunInserted, RunRemoved, SpawnWorker, WriteFact, LookupLock,
           Acquire, ReadAll, OpenFacts, WriteFacts, RenameFacts
  <2>. QED
    BY <2>1 DEF FactsInv
<1>2. CASE UNCHANGED factsVars
  <2>1. UNCHANGED <<facts, run, on, holder, fpc, fkey, flock, fd, map, before, worker, clash>>
    BY <1>2 DEF factsVars
  <2>2. FactsTypeOK' /\ OneInside'
    BY <1>1, <2>1 DEF FactsInOrder, FactsTypeOK, OneInside, Busy, Inside
  <2>3. FileInOrder'
    BY <1>1, <2>1 DEF FactsInOrder, FileInOrder, Whole, Exists, Contents, Current
  <2>4. LastWord' /\ FactsReachWorkers' /\ (worker.after \subseteq Answered)'
    BY <1>1, <2>1 DEF FactsInOrder, LastWord, Answered, Current, Exists, Contents,
                      FactsReachWorkers
  <2>. QED
    BY <2>2, <2>3, <2>4 DEF FactsInOrder
<1>3. CASE FactsNext
  BY <1>1, <1>3, RunsHold, SpawnHolds, LookupHolds, AcquireHolds, ReadHolds, OpenWriteHolds,
     RenameHolds DEF FactsNext, WriteFact
<1>. QED
  BY <1>2, <1>3

\* The invariant of the shared facts on their own.
THEOREM FactsInvariance == FactsSpec => []FactsInv
BY FactsInitHolds, FactsStepHolds, PTL DEF FactsSpec

----------------------------------------------------------------------------
(* The types, however the calls clash. *)

\* A call that opens the .tmp name finds an inode that is not in use.
LEMMA OpenFactsTyped ==
    ASSUME FactsTypeOK, FactsClosed, NEW w \in Writer, OpenFacts(w)
    PROVE  facts' \in FileOf(Facts) /\ facts'.tmp \in Inode
<1>1. fpc[w] = "open" /\ fd[w] = NoFile
  BY DEF OpenFacts, FactsClosed
<1>2. IsFiniteSet(Writer) /\ (IsFiniteSet(Inode) => Cardinality(Inode) > Cardinality(Writer))
  BY SharedFactsAssumption, FS_Interval DEF Writer
<1>3. PICK j \in Inode : j # facts.file /\ \A u \in Writer \ {w} : fd[u] # j
  BY <1>2, OneIsFree
<1>4. j \notin Open
  BY <1>1, <1>3, AtomicFileAssumption DEF Open, Busy
<1>. QED
  BY <1>3, <1>4, FactsTyped, OpenKeepsFile DEF OpenFacts

\* Each step keeps the types, however the calls clash.
LEMMA WriteFactTyped ==
    ASSUME FactsTypeOK, FactsClosed, NEW w \in Writer, WriteFact(w)
    PROVE  (FactsTypeOK /\ FactsClosed)'
<1>1. /\ UNCHANGED <<run, on, worker>> /\ facts \in FileOf(Facts)
      /\ fpc \in [Writer -> {"idle", "wait", "read", "open", "write", "rename", "written", "error"}]
      /\ holder \in [1 .. MaxRuns -> Writer \cup {None}]
      /\ fkey \in [Writer -> Key \cup {None}] /\ flock \in [Writer -> 0 .. MaxRuns]
      /\ fd \in [Writer -> Inode \cup {NoFile}] /\ map \in [Writer -> Facts]
      /\ before \in [Writer -> SUBSET Writer] /\ run \in 0 .. MaxRuns /\ MaxRuns \in Nat
      /\ clash \in BOOLEAN
  BY FactsTyped DEF FactsTypeOK, WriteFact, LookupLock, Acquire, ReadAll, OpenFacts, WriteFacts,
                    RenameFacts
<1>2. NoFacts \in Facts
  BY DEF NoFacts, Facts
<1>3. SUFFICES /\ facts' \in FileOf(Facts) /\ holder' \in [1 .. MaxRuns -> Writer \cup {None}]
               /\ fpc' \in [Writer -> {"idle", "wait", "read", "open", "write", "rename",
                                       "written", "error"}]
               /\ fkey' \in [Writer -> Key \cup {None}] /\ flock' \in [Writer -> 0 .. MaxRuns]
               /\ fd' \in [Writer -> Inode \cup {NoFile}] /\ map' \in [Writer -> Facts]
               /\ before' \in [Writer -> SUBSET Writer] /\ clash' \in BOOLEAN
               /\ FactsClosed'
  BY <1>1 DEF FactsTypeOK, FileOf
<1>4. CASE LookupLock(w)
  <2>1. PICK k \in Key : fkey' = [fkey EXCEPT ![w] = k]
    BY <1>4 DEF LookupLock
  <2>2. /\ fpc' = [fpc EXCEPT ![w] = "wait"] /\ flock' = [flock EXCEPT ![w] = IF on THEN run ELSE 0]
        /\ before' = [before EXCEPT ![w] = Answered]
        /\ UNCHANGED <<facts, holder, fd, map>> /\ fpc[w] = "idle"
    BY <1>4 DEF LookupLock, Go
  <2>3. clash' \in BOOLEAN
    BY <1>4 DEF LookupLock
  <2>4. Answered \in SUBSET Writer /\ (IF on THEN run ELSE 0) \in 0 .. MaxRuns
    BY <1>1 DEF Answered
  <2>5. FactsClosed'
    BY <1>1, <2>2 DEF FactsClosed
  <2>. QED
    BY <1>1, <2>1, <2>2, <2>3, <2>4, <2>5
<1>5. CASE Acquire(w)
  <2>1. /\ fpc[w] = "wait" /\ fpc' = [fpc EXCEPT ![w] = "read"]
        /\ holder' = IF flock[w] = 0 THEN holder ELSE [holder EXCEPT ![flock[w]] = w]
        /\ UNCHANGED <<facts, fkey, flock, fd, map, before, clash>>
    BY <1>5 DEF Acquire, Go
  <2>2. FactsClosed'
    BY <1>1, <2>1 DEF FactsClosed
  <2>. QED
    BY <1>1, <2>1, <2>2
<1>6. ASSUME NEW l \in {"written", "error"}, Answer(w, l)
      PROVE  /\ holder' \in [1 .. MaxRuns -> Writer \cup {None}]
             /\ fpc' \in [Writer -> {"idle", "wait", "read", "open", "write", "rename",
                                     "written", "error"}]
             /\ fd' \in [Writer -> Inode \cup {NoFile}] /\ map' \in [Writer -> Facts]
             /\ FactsClosed'
  <2>1. /\ fpc' = [fpc EXCEPT ![w] = l] /\ fd' = [fd EXCEPT ![w] = NoFile]
        /\ map' = [map EXCEPT ![w] = NoFacts]
        /\ holder' = IF flock[w] = 0 THEN holder ELSE [holder EXCEPT ![flock[w]] = None]
    BY <1>6 DEF Answer, Go
  <2>2. FactsClosed'
    BY <1>1, <2>1 DEF FactsClosed
  <2>. QED
    BY <1>1, <1>2, <2>1, <2>2
<1>7. CASE ReadAll(w)
  <2>1. UNCHANGED <<facts, fkey, flock, before, clash>> /\ fpc[w] = "read"
    BY <1>7 DEF ReadAll
  <2>2. CASE Whole(facts)
    <3>1. PICK m : m = IF Exists(facts) THEN Contents(facts) ELSE NoFacts
      OBVIOUS
    <3>2. m \in Facts
      BY <1>1, <1>2, <2>2, <3>1 DEF Whole, Exists, Contents, FileOf
    <3>3. /\ map' = [map EXCEPT ![w] = [m EXCEPT ![fkey[w]] = w]]
          /\ fpc' = [fpc EXCEPT ![w] = "open"] /\ UNCHANGED <<holder, fd>>
      BY <1>7, <2>2, <3>1 DEF ReadAll, Go
    <3>4. [m EXCEPT ![fkey[w]] = w] \in Facts
      BY <3>2 DEF Facts
    <3>5. FactsClosed'
      BY <1>1, <2>1, <3>3 DEF FactsClosed
    <3>. QED
      BY <1>1, <2>1, <3>3, <3>4, <3>5
  <2>3. CASE ~Whole(facts)
    <3>1. Answer(w, "error")
      BY <1>7, <2>3 DEF ReadAll
    <3>. QED
      BY <1>1, <1>6, <2>1, <3>1
  <2>. QED
    BY <2>2, <2>3
<1>8. CASE OpenFacts(w)
  <2>1. /\ fpc' = [fpc EXCEPT ![w] = "write"] /\ fd' = [fd EXCEPT ![w] = facts'.tmp]
        /\ UNCHANGED <<holder, fkey, flock, map, before, clash>>
    BY <1>8 DEF OpenFacts, Go
  <2>2. facts' \in FileOf(Facts) /\ facts'.tmp \in Inode
    BY <1>8, OpenFactsTyped
  <2>3. FactsClosed'
    BY <1>1, <2>1 DEF FactsClosed
  <2>. QED
    BY <1>1, <2>1, <2>2, <2>3
<1>9. CASE WriteFacts(w)
  <2>1. /\ fpc[w] = "write" /\ fpc' = [fpc EXCEPT ![w] = "rename"]
        /\ UNCHANGED <<holder, fkey, flock, fd, map, before, clash>>
    BY <1>9 DEF WriteFacts, Go
  <2>2. map[w] \in Facts /\ facts' \in Written(facts, fd[w], map[w])
    BY <1>1, <1>9 DEF WriteFacts
  <2>3. facts' \in FileOf(Facts)
    BY <1>1, <2>2, WriteKeepsFile
  <2>4. FactsClosed'
    BY <1>1, <2>1 DEF FactsClosed
  <2>. QED
    BY <1>1, <2>1, <2>3, <2>4
<1>10. CASE RenameFacts(w)
  <2>1. /\ UNCHANGED <<fkey, flock, before, clash>>
        /\ \/ facts' = Renamed(facts, Open \ {fd[w]}) /\ Answer(w, "written")
           \/ UNCHANGED facts /\ Answer(w, "error")
    BY <1>10 DEF RenameFacts
  <2>2. facts' \in FileOf(Facts)
    BY <1>1, <2>1, RenameKeepsFile
  <2>. QED
    BY <1>1, <1>6, <2>1, <2>2
<1>. QED
  BY <1>4, <1>5, <1>7, <1>8, <1>9, <1>10 DEF WriteFact

LEMMA FactsInitTyped == FactsInit => FactsTypeOK /\ FactsClosed
BY FactsInitHolds DEF FactsInit, FactsInv, FactsInOrder, FactsClosed

LEMMA FactsStepTyped ==
    ASSUME FactsTypeOK, FactsClosed, [FactsNext]_factsVars
    PROVE  (FactsTypeOK /\ FactsClosed)'
<1>1. CASE UNCHANGED factsVars
  BY <1>1 DEF factsVars, FactsTypeOK, FactsClosed, Facts
<1>2. CASE RunInserted \/ RunRemoved
  <2>1. run' \in 0 .. MaxRuns /\ on' \in BOOLEAN /\ (on' => run' > 0)
    <3>1. run \in 0 .. MaxRuns /\ MaxRuns \in Nat
      BY FactsTyped
    <3>2. CASE RunInserted
      BY <3>1, <3>2 DEF RunInserted
    <3>3. CASE RunRemoved
      BY <3>1, <3>3 DEF RunRemoved
    <3>. QED
      BY <1>2, <3>2, <3>3
  <2>2. UNCHANGED <<facts, holder, fpc, fkey, flock, fd, map, before, worker, clash>>
    BY <1>2 DEF RunInserted, RunRemoved
  <2>. QED
    BY <2>1, <2>2 DEF FactsTypeOK, FactsClosed
<1>3. CASE SpawnWorker
  <2>1. PICK m : m = IF Exists(facts) /\ Whole(facts) THEN Contents(facts) ELSE NoFacts
    OBVIOUS
  <2>2. m \in Facts
    BY <2>1, FactsTyped DEF Whole, Exists, Contents, FileOf, NoFacts, Facts
  <2>3. /\ worker' = [lines |-> Preamble(m), more |-> Truncated(m), after |-> Answered]
        /\ UNCHANGED <<facts, run, on, holder, fpc, fkey, flock, fd, map, before, clash>>
    BY <1>3, <2>1 DEF SpawnWorker
  <2>4. Preamble(m) \in Facts
    BY <2>2 DEF Preamble, Facts
  <2>5. Truncated(m) \in BOOLEAN /\ Answered \in SUBSET Writer
    BY DEF Truncated, Answered
  <2>6. worker' \in [lines : Facts, more : BOOLEAN, after : SUBSET Writer]
    BY <2>3, <2>4, <2>5
  <2>. QED
    BY <2>3, <2>6 DEF FactsTypeOK, FactsClosed
<1>. QED
  BY <1>1, <1>2, <1>3, WriteFactTyped DEF FactsNext
=============================================================================
