----------------------------- MODULE TaskGraph -----------------------------
(***************************************************************************)
(* What a run promises its clients, whoever schedules it: the dynamic      *)
(* coordinator (src/coordinator.rs) or the wave executor                   *)
(* (src/execution.rs).  A task becomes known, waits, works once and ends   *)
(* once.  It works only after everything it was told to wait for is done,  *)
(* and a run is declared successful only if every known task is done.      *)
(***************************************************************************)
EXTENDS FiniteSets

CONSTANT Task

VARIABLES status,   \* status[t] : where task t is in its life
          after,    \* after[t]  : the tasks t was promised to come after
          verdict   \* the result of the run

vars == <<status, after, verdict>>

Waiting  == "waiting"
Working  == "working"
Ended    == {"done", "failed", "cancelled"}
Statuses == {"unknown", Waiting, Working} \cup Ended

Known == {t \in Task : status[t] # "unknown"}

TypeOK == /\ status  \in [Task -> Statuses]
          /\ after   \in [Task -> SUBSET Task]
          /\ verdict \in {"open", "ok", "failed"}

Init == /\ status \in [Task -> {"unknown", Waiting}]
        /\ after \in [Task -> SUBSET Known]
        /\ verdict = "open"

\* Tasks of S become known; they may be promised to follow known tasks and one another.
Accept(S) ==
    /\ S # {} /\ S \cap Known = {}
    /\ status' = [t \in Task |-> IF t \in S THEN Waiting ELSE status[t]]
    /\ \A t \in Task : IF t \in S THEN after'[t] \subseteq Known \cup S
                                  ELSE after'[t] = after[t]
    /\ after' \in [Task -> SUBSET Task]

\* Tasks of S begin: each was waiting and all it must follow is done.
Start(S) ==
    /\ S # {}
    /\ \A t \in S : /\ status[t] = Waiting
                    /\ \A u \in after[t] : status[u] = "done"
    /\ status' = [t \in Task |-> IF t \in S THEN Working ELSE status[t]]
    /\ UNCHANGED after

\* A working task ends, in whatever way.
End(t) ==
    /\ status[t] = Working
    /\ \E o \in Ended : status' = [status EXCEPT ![t] = o]
    /\ UNCHANGED after

\* Waiting tasks are given up without having worked.
GiveUp(S) ==
    /\ S # {} /\ \A t \in S : status[t] = Waiting
    /\ status' = [t \in Task |-> IF t \in S THEN "cancelled" ELSE status[t]]
    /\ UNCHANGED after

\* The run is over: nothing waits or works, and success means that all is done.
Close ==
    /\ \A t \in Known : status[t] \in Ended
    /\ verdict' \in {"ok", "failed"}
    /\ verdict' = "ok" => \A t \in Known : status[t] = "done"
    /\ UNCHANGED <<status, after>>

Schedule ==
    \/ \E S \in SUBSET Task : Accept(S) \/ Start(S) \/ GiveUp(S)
    \/ \E t \in Task : End(t)

Next == verdict = "open" /\ ((Schedule /\ UNCHANGED verdict) \/ Close)

Spec == Init /\ [][Next]_vars
=============================================================================
