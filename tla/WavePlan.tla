----------------------------- MODULE WavePlan -----------------------------
(***************************************************************************)
(* TasksConfig::into_waves of src/config.rs: the validation of a task list *)
(* and Kahn's algorithm, one step per iteration of its loop.  start_run    *)
(* and run_command call it on the tasks of a YAML file; dispatch_wave on   *)
(* the batch preceded by a placeholder for each accepted task.             *)
(* A wave is the set of the positions of its tasks in the list.            *)
(***************************************************************************)
EXTENDS Naturals, Sequences

CONSTANTS Name,      \* task names and the names a depends_on may mention
          FileStem,  \* the names with only [A-Za-z0-9._-], not "." or ".."
          Inputs     \* the lists into_waves is called on

TaskDef == [name : Name, deps : SUBSET Name]

ASSUME WavePlanAssumption == FileStem \subseteq Name /\ Inputs \subseteq Seq(TaskDef)

VARIABLES tasks,      \* the list
          remaining,  \* positions not placed in a wave yet
          placed,     \* names placed in a wave
          waves,      \* the waves built so far
          result      \* "validate", "plan", "ok" or why the list is refused

vars == <<tasks, remaining, placed, waves, result>>

Refusals == {"duplicate", "not a file stem", "unknown dependency", "circular"}

TypeOK == /\ tasks \in Seq(TaskDef)
          /\ remaining \subseteq DOMAIN tasks
          /\ placed \subseteq Name
          /\ waves \in Seq(SUBSET DOMAIN tasks)
          /\ result \in {"validate", "plan", "ok"} \cup Refusals

\* validate_dispatch_wave_defs: accepted, in some order, without dependencies, then the batch.
Synthetic(accepted, batch) == [i \in DOMAIN accepted |-> [name |-> accepted[i], deps |-> {}]]
                              \o batch

Init == /\ tasks \in Inputs
        /\ remaining = DOMAIN tasks
        /\ placed = {} /\ waves = <<>>
        /\ result = "validate"

Names == {tasks[i].name : i \in DOMAIN tasks}

Duplicate  == \E i, j \in DOMAIN tasks : i # j /\ tasks[i].name = tasks[j].name
NotAStem   == ~ Names \subseteq FileStem
UnknownDep == \E i \in DOMAIN tasks : ~ tasks[i].deps \subseteq Names

\* Mutant: a name used twice is let through.
MutValidate == /\ result = "validate"
               /\ result' = IF NotAStem THEN "not a file stem"
                            ELSE IF UnknownDep THEN "unknown dependency" ELSE "plan"
               /\ UNCHANGED <<tasks, remaining, placed, waves>>

Validate == /\ result = "validate"
            /\ result' = CASE Duplicate -> "duplicate"
                           [] ~Duplicate /\ NotAStem -> "not a file stem"
                           [] ~Duplicate /\ ~NotAStem /\ UnknownDep -> "unknown dependency"
                           [] OTHER -> "plan"
            /\ UNCHANGED <<tasks, remaining, placed, waves>>

\* Mutant: one satisfied dependency is enough.
MutReady == {i \in remaining : tasks[i].deps = {} \/ tasks[i].deps \cap placed # {}}

\* Mutant: a wave is the first ready task only.
MutReadyLate == {i \in remaining : /\ tasks[i].deps \subseteq placed
                                   /\ \A j \in remaining : tasks[j].deps \subseteq placed => i <= j}

Ready == {i \in remaining : tasks[i].deps \subseteq placed}

\* Mutant: a wave is recorded by the names of its tasks.
MutPlaceWave == /\ result = "plan" /\ Ready # {}
                /\ remaining' = remaining \ Ready
                /\ placed' = placed \cup {tasks[i].name : i \in Ready}
                /\ waves' = Append(waves, {tasks[i].name : i \in Ready})
                /\ UNCHANGED <<tasks, result>>

\* One iteration: every task whose dependencies are placed makes the next wave.
PlaceWave == /\ result = "plan" /\ Ready # {}
             /\ remaining' = remaining \ Ready
             /\ placed' = placed \cup {tasks[i].name : i \in Ready}
             /\ waves' = Append(waves, Ready)
             /\ UNCHANGED <<tasks, result>>

\* Mutant: once there is a wave, a round with nothing ready ends the loop.
MutFinishEarly == /\ result = "plan" /\ Ready = {}
                  /\ result' = IF remaining = {} \/ waves # <<>> THEN "ok" ELSE "circular"
                  /\ UNCHANGED <<tasks, remaining, placed, waves>>

\* Mutant: the loop is left only when nothing remains.
MutFinishNever == /\ result = "plan" /\ remaining = {}
                  /\ result' = "ok"
                  /\ UNCHANGED <<tasks, remaining, placed, waves>>

\* The loop ends, or finds that nothing is ready.
Finish == /\ result = "plan" /\ Ready = {}
          /\ result' = IF remaining = {} THEN "ok" ELSE "circular"
          /\ UNCHANGED <<tasks, remaining, placed, waves>>

Next == Validate \/ PlaceWave \/ Finish

Spec == Init /\ [][Next]_vars /\ WF_vars(Next)

----------------------------------------------------------------------------
(* Properties. *)

\* The names of a set of positions, and a set of positions that could never be ordered:
\* each of its tasks depends on another of them.
NamesOf(S)   == {tasks[i].name : i \in S}
Tangled(S)   == S # {} /\ \A i \in S : tasks[i].deps \cap NamesOf(S) # {}
WellFormed   == /\ ~Duplicate /\ ~NotAStem /\ ~UnknownDep
                /\ \A S \in SUBSET DOMAIN tasks : ~Tangled(S)

\* The tasks of the first n waves.
First(n) == UNION {waves[l] : l \in 1 .. n}

\* A list is planned exactly when it is well formed; a cycle anywhere in it is found and is
\* the only reason to call it circular.
PlannedIffWellFormed ==
    /\ result = "ok" => WellFormed
    /\ result \in Refusals => ~WellFormed

\* Whatever has been built is a plan: waves are nonempty and disjoint, and a task comes
\* strictly after all it depends on.
WavesRespectDeps ==
    \A k \in DOMAIN waves :
        /\ waves[k] # {}
        /\ \A l \in DOMAIN waves : l # k => waves[k] \cap waves[l] = {}
        /\ \A i \in waves[k] :
              tasks[i].deps \subseteq NamesOf(First(k - 1))

\* No task waits longer than it must: each depends on a task of the wave just before.
WavesAreEarliest ==
    \A k \in DOMAIN waves : k > 1 =>
        \A i \in waves[k] : tasks[i].deps \cap NamesOf(waves[k - 1]) # {}

\* A planned list is planned whole.
NothingDropped == result = "ok" => First(Len(waves)) = DOMAIN tasks

\* The loop ends on every list, cycles included.
PlanningEnds == <>(result \in {"ok"} \cup Refusals)

----------------------------------------------------------------------------
(* The inductive invariant of WavePlanProofs, checked by TLC on wave_plan.cfg. *)

\* What is placed is what the waves hold, by position and by name.
Bookkeeping == /\ First(Len(waves)) = DOMAIN tasks \ remaining
               /\ placed = NamesOf(DOMAIN tasks \ remaining)
               /\ result = "validate" => waves = <<>> /\ remaining = DOMAIN tasks

\* The plan is begun only on a list that passed the three checks.
Validated == result \in {"plan", "ok", "circular"} => ~Duplicate /\ ~NotAStem /\ ~UnknownDep

\* A task that could never be ordered is never placed.
KnotsRemain == \A S \in SUBSET DOMAIN tasks : Tangled(S) => S \subseteq remaining

\* What is left could not have gone into a wave before the next.
Blocked == waves # <<>> =>
    \A i \in remaining : ~ tasks[i].deps \subseteq NamesOf(First(Len(waves) - 1))

\* Each verdict has its reason.
Reasons == /\ result = "duplicate" => Duplicate
           /\ result = "not a file stem" => NotAStem
           /\ result = "unknown dependency" => UnknownDep
           /\ result = "circular" => remaining # {} /\ Ready = {}
           /\ result = "ok" => remaining = {}

IInv == /\ TypeOK /\ Bookkeeping /\ Validated /\ KnotsRemain /\ Blocked /\ Reasons
        /\ WavesRespectDeps /\ WavesAreEarliest
=============================================================================
