------------------------------ MODULE RunFiles ------------------------------
(***************************************************************************)
(* The files of a run directory that are changed without the registry's    *)
(* lock: the shared facts, the mailbox of an agent, and the meta and log   *)
(* of a task.  They have no state in common, so a behaviour is a behaviour *)
(* of one of them while the others rest.                                   *)
(***************************************************************************)
EXTENDS SharedFacts, Mailbox, TaskFiles

CONSTANT Uses    \* the files looked at

ASSUME RunFilesAssumption == Uses \subseteq {"facts", "mail", "task"}

VARIABLE use

vars == <<factsVars, mailVars, taskVars, use>>

TypeOK == FactsTypeOK /\ MailTypeOK /\ TaskTypeOK /\ use \in Uses

Init == /\ use \in Uses
        /\ FactsInit /\ MailInit /\ TaskInit
        /\ use # "task" => tpc = "stopped"

FactsStep   == use = "facts" /\ FactsNext /\ UNCHANGED <<mailVars, taskVars, use>>
MailStep    == use = "mail" /\ MailNext /\ UNCHANGED <<factsVars, taskVars, use>>
TaskStep(A) == use = "task" /\ A /\ UNCHANGED <<factsVars, mailVars, use>>

Next == FactsStep \/ MailStep \/ TaskStep(TaskNext)

\* A save is not given up half-way, a codex process ends after finitely many events, and tail
\* is polled when its sleep is over.
Fairness == /\ \A n \in Attempt : /\ WF_vars(TaskStep(Save(n)))
                                  /\ SF_vars(TaskStep(WorkEnds(n)))
            /\ WF_vars(TaskStep(Follow))

Spec == Init /\ [][Next]_vars /\ Fairness
=============================================================================
