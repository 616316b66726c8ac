---------------------------- MODULE SharedFacts ----------------------------
(***************************************************************************)
(* The shared facts of a directory: calls of write_fact (src/commands/     *)
(* serve.rs and FactsStore::write_fact), which take the facts lock of the  *)
(* registered run if there is one, and the preamble a worker gets of them  *)
(* when it is spawned (build_preamble of src/facts.rs, called by           *)
(* spawn_ready_tasks).  Runs come and go; the file stays.                  *)
(***************************************************************************)
EXTENDS AtomicFile, Naturals, FiniteSetsExt

CONSTANTS Writers,    \* how many calls of write_fact there are (a bound)
          Key,        \* a set of numbers, in the order of the BTreeMap
          LineSize,   \* the size of a preamble line for each key
          Cap,        \* MAX_PREAMBLE_BYTES
          MaxRuns,    \* runs of the directory (a bound)
          None        \* no call, no value, no key

ASSUME SharedFactsAssumption ==
    /\ Key \subseteq Nat /\ LineSize \in [Key -> Nat] /\ Cap \in Nat /\ MaxRuns \in Nat
    /\ Writers \in Nat /\ None \notin Nat
    /\ IsFiniteSet(Inode) => Cardinality(Inode) > Writers

\* The calls, in the order in which they begin, and the values they write.
Writer == 1 .. Writers

VARIABLES
    facts,      \* shared/facts.json
    run, on,    \* how many runs there have been, and whether the last is registered
    holder,     \* who holds the facts lock of each run
    fpc, fkey,  \* where each call is, and the key it writes
    flock,      \* the run whose lock it uses, 0 for none
    fd, map,    \* the inode it writes to, and what it is going to write
    before,     \* history: the calls answered "written" before it began
    worker,     \* the preamble of the last worker spawned, and what had been written then
    clash       \* history: two calls overlapped under different locks, or none

factsVars == <<facts, run, on, holder, fpc, fkey, flock, fd, map, before, worker, clash>>

Facts   == [Key -> Writer \cup {None}]
NoFacts == [k \in Key |-> None]
Busy    == {w \in Writer : fpc[w] \in {"wait", "read", "open", "write", "rename"}}
Open     == {fd[w] : w \in Busy}
Answered == {w \in Writer : fpc[w] = "written"}

\* What does not parse is no facts.
ASSUME TornIsNoFacts == {Empty, Torn} \cap Facts = {}

FactsTypeOK ==
    /\ facts \in [file : Inode \cup {NoFile}, tmp : Inode \cup {NoFile},
                  node : [Inode -> Facts \cup {Empty, Torn}]]
    /\ run \in 0 .. MaxRuns /\ on \in BOOLEAN /\ (on => run > 0)
    /\ holder \in [1 .. MaxRuns -> Writer \cup {None}]
    /\ fpc \in [Writer -> {"idle", "wait", "read", "open", "write", "rename", "written", "error"}]
    /\ fkey \in [Writer -> Key \cup {None}] /\ flock \in [Writer -> 0 .. MaxRuns]
    /\ fd \in [Writer -> Inode \cup {NoFile}] /\ map \in [Writer -> Facts]
    /\ before \in [Writer -> SUBSET Writer]
    /\ worker \in [lines : Facts, more : BOOLEAN, after : SUBSET Writer]
    /\ clash \in BOOLEAN

FactsInit ==
    /\ facts = Fresh /\ run = 0 /\ on = FALSE
    /\ holder = [g \in 1 .. MaxRuns |-> None]
    /\ fpc = [w \in Writer |-> "idle"] /\ fkey = [w \in Writer |-> None]
    /\ flock = [w \in Writer |-> 0] /\ fd = [w \in Writer |-> NoFile]
    /\ map = [w \in Writer |-> NoFacts] /\ before = [w \in Writer |-> {}]
    /\ worker = [lines |-> NoFacts, more |-> FALSE, after |-> {}]
    /\ clash = FALSE

----------------------------------------------------------------------------
(* The runs, as far as the facts see them: RunRegistry's Insert and Remove. *)

RunInserted ==
    /\ ~on /\ run < MaxRuns
    /\ on' = TRUE /\ run' = run + 1
    /\ UNCHANGED <<facts, holder, fpc, fkey, flock, fd, map, before, worker, clash>>

RunRemoved ==
    /\ on
    /\ on' = FALSE
    /\ UNCHANGED <<facts, run, holder, fpc, fkey, flock, fd, map, before, worker, clash>>

----------------------------------------------------------------------------
(* write_fact. *)

Go(w, l) == fpc' = [fpc EXCEPT ![w] = l]

\* The lock is looked up under the runs lock and awaited after it.
LookupLock(w) ==
    /\ fpc[w] = "idle" /\ \A u \in 1 .. w - 1 : fpc[u] # "idle"
    /\ Go(w, "wait")
    /\ \E k \in Key : fkey' = [fkey EXCEPT ![w] = k]
    /\ flock' = [flock EXCEPT ![w] = IF on THEN run ELSE 0]
    /\ before' = [before EXCEPT ![w] = Answered]
    /\ clash' = (clash \/ \E u \in Busy : flock[u] # flock'[w] \/ flock[u] = 0)
    /\ UNCHANGED <<facts, run, on, holder, fd, map, worker>>

\* Mutant: the guard is not kept.
MutAcquire(w) ==
    /\ fpc[w] = "wait"
    /\ flock[w] # 0 => holder[flock[w]] = None
    /\ Go(w, "read")
    /\ UNCHANGED <<facts, run, on, holder, fkey, flock, fd, map, before, worker, clash>>

Acquire(w) ==
    /\ fpc[w] = "wait"
    /\ flock[w] # 0 => holder[flock[w]] = None
    /\ Go(w, "read")
    /\ holder' = IF flock[w] = 0 THEN holder ELSE [holder EXCEPT ![flock[w]] = w]
    /\ UNCHANGED <<facts, run, on, fkey, flock, fd, map, before, worker, clash>>

\* The end of the call releases the lock.
Answer(w, l) ==
    /\ Go(w, l)
    /\ holder' = IF flock[w] = 0 THEN holder ELSE [holder EXCEPT ![flock[w]] = None]
    /\ fd' = [fd EXCEPT ![w] = NoFile] /\ map' = [map EXCEPT ![w] = NoFacts]

\* read_all, and the insertion of the new value.
ReadAll(w) ==
    /\ fpc[w] = "read"
    /\ IF Whole(facts)
         THEN /\ map' = [map EXCEPT ![w] = [(IF Exists(facts) THEN Contents(facts) ELSE NoFacts)
                                              EXCEPT ![fkey[w]] = w]]
              /\ Go(w, "open")
              /\ UNCHANGED <<holder, fd>>
         ELSE Answer(w, "error")
    /\ UNCHANGED <<facts, run, on, fkey, flock, before, worker, clash>>

OpenFacts(w) ==
    /\ fpc[w] = "open"
    /\ facts' = OpenTmp(facts, Open)
    /\ fd' = [fd EXCEPT ![w] = facts'.tmp]
    /\ Go(w, "write")
    /\ UNCHANGED <<run, on, holder, fkey, flock, map, before, worker, clash>>

WriteFacts(w) ==
    /\ fpc[w] = "write"
    /\ facts' \in Written(facts, fd[w], map[w])
    /\ Go(w, "rename")
    /\ UNCHANGED <<run, on, holder, fkey, flock, fd, map, before, worker, clash>>

RenameFacts(w) ==
    /\ fpc[w] = "rename"
    /\ IF CanRename(facts)
         THEN facts' = Renamed(facts, Open \ {fd[w]}) /\ Answer(w, "written")
         ELSE Answer(w, "error") /\ UNCHANGED facts
    /\ UNCHANGED <<run, on, fkey, flock, before, worker, clash>>

WriteFact(w) == \/ LookupLock(w) \/ Acquire(w) \/ ReadAll(w) \/ OpenFacts(w) \/ WriteFacts(w)
                \/ RenameFacts(w)

----------------------------------------------------------------------------
(* build_preamble. *)

\* The lines of m in the order of the keys, up to the first that would not fit.
Fits(m, k)     == MapThenSumSet(LAMBDA j : LineSize[j], {j \in Key : j <= k /\ m[j] # None}) <= Cap
Preamble(m)    == [k \in Key |-> IF Fits(m, k) THEN m[k] ELSE None]
Truncated(m)   == \E k \in Key : m[k] # None /\ ~Fits(m, k)

\* A worker is spawned, of the registered run or of one about to be registered; facts that
\* cannot be read are no preamble, and no error.
SpawnWorker ==
    /\ on \/ run < MaxRuns
    /\ worker' = LET m == IF Exists(facts) /\ Whole(facts) THEN Contents(facts) ELSE NoFacts
                 IN  [lines |-> Preamble(m), more |-> Truncated(m), after |-> Answered]
    /\ UNCHANGED <<facts, run, on, holder, fpc, fkey, flock, fd, map, before, clash>>

FactsNext == RunInserted \/ RunRemoved \/ SpawnWorker \/ \E w \in Writer : WriteFact(w)
FactsSpec == FactsInit /\ [][FactsNext]_factsVars

----------------------------------------------------------------------------
(* Properties. *)

\* README: a fact is "auto-prepended to subsequently spawned worker prompts".  As long as
\* overlapping calls use the same lock, a worker spawned after a write was answered gets that
\* value or one no older, in the preamble or by the line that says there is more: no update
\* is lost, and no worker meets a half-written file.
FactsReachWorkers ==
    ~clash =>
        \A w \in worker.after :
           LET v == worker.lines[fkey[w]]
           IN  \/ v # None /\ \A u \in worker.after : fkey[u] = fkey[w] => v \notin before[u]
               \/ v = None /\ worker.more

----------------------------------------------------------------------------
(* The inductive invariant behind FactsReachWorkers, for RunFilesProofs. *)

\* The calls past the lock, and what a reader of the file finds.
Inside  == {w \in Writer : fpc[w] \in {"read", "open", "write", "rename"}}
Current == IF Exists(facts) THEN Contents(facts) ELSE NoFacts

\* Calls that overlap use one lock, and one of them is past it.
OneInside ==
    /\ \A w, u \in Busy : w # u => flock[w] = flock[u] /\ flock[w] # 0
    /\ \A w \in Inside : flock[w] # 0 => holder[flock[w]] = w

\* What the call past the lock has read is still there when it renames, and the .tmp name is
\* its own.
FileInOrder ==
    /\ Whole(facts)
    /\ \A w \in Writer :
         /\ fpc[w] # "idle" => fkey[w] \in Key
         /\ fpc[w] \notin {"write", "rename"} => fd[w] = NoFile
         /\ fpc[w] \in {"open", "write", "rename"} => map[w] = [Current EXCEPT ![fkey[w]] = w]
         /\ fpc[w] \in {"write", "rename"} =>
               /\ fd[w] = facts.tmp /\ facts.tmp \in Inode /\ facts.tmp # facts.file
               /\ facts.node[fd[w]] = IF fpc[w] = "write" THEN Empty ELSE map[w]
    /\ facts.tmp # NoFile => \E w \in Writer : fpc[w] \in {"write", "rename"}

\* The file holds the last word of all calls that were answered.
LastWord ==
    /\ \A u \in Writer : before[u] \subseteq Answered
    /\ \A w \in Answered : /\ Current[fkey[w]] # None
                           /\ \A u \in Answered : fkey[u] = fkey[w]
                                                     => Current[fkey[w]] \notin before[u]

FactsInOrder == /\ FactsTypeOK /\ OneInside /\ FileInOrder /\ LastWord
                /\ worker.after \subseteq Answered /\ FactsReachWorkers

FactsInv == ~clash => FactsInOrder

(* What FactsTypeOK needs where they clash: a call that opens has nothing open. *)

FactsClosed == \A w \in Writer : fpc[w] \notin {"write", "rename"} => fd[w] = NoFile
=============================================================================
