------------------------- MODULE CoordinatorProofs -------------------------
(***************************************************************************)
(* Proofs about Coordinator, for every set of names and clients, every     *)
(* plan, every channel capacity, and with or without panics.               *)
(***************************************************************************)
EXTENDS Coordinator, FiniteSetTheorems, TLAPS

\* A set of names has a natural number of elements.
LEMMA NamesCount ==
    ASSUME NEW S \in SUBSET Task
    PROVE  IsFiniteSet(S) /\ Cardinality(S) \in Nat
  BY CoordinatorAssumption, FS_Subset, FS_CardinalityType

\* Sending and receiving keep the channel a bounded sequence of requests.
LEMMA QueueSend ==
    ASSUME NEW q \in Seq(Request), Len(q) < Capacity, NEW m \in Request
    PROVE  Append(q, m) \in Seq(Request) /\ Len(Append(q, m)) <= Capacity
  BY CoordinatorAssumption

LEMMA QueueReceive ==
    ASSUME NEW q \in Seq(Request), Len(q) <= Capacity, q # <<>>
    PROVE  /\ Head(q) \in Request
           /\ Tail(q) \in Seq(Request) /\ Len(Tail(q)) <= Capacity
  BY CoordinatorAssumption

\* Every variable keeps its type in every reachable state of every instance.
THEOREM TypeCorrect == Spec => []TypeOK
  <1>1. Init => TypeOK
    <2> SUFFICES ASSUME Init PROVE TypeOK
      OBVIOUS
    <2>1. PICK p \in Plans : /\ pending = p.names /\ accepted = p.names /\ srvAccepted = p.names
                             /\ deps = p.deps /\ taskCount = Cardinality(p.names)
                             /\ meta = [t \in Task |-> IF t \in p.names THEN "pending" ELSE "none"]
      BY DEF Init
    <2>2. p.names \subseteq Task /\ p.deps \in [Task -> SUBSET Task]
      BY CoordinatorAssumption DEF IsPlan
    <2>3. queue = <<>> /\ queue \in Seq(Request) /\ Len(queue) <= Capacity
      BY CoordinatorAssumption DEF Init
    <2>4. /\ pending \subseteq Task /\ accepted \subseteq Task /\ srvAccepted \subseteq Task
          /\ deps \in [Task -> SUBSET Task] /\ taskCount \in Nat
      BY <2>1, <2>2, NamesCount
    <2>5. meta \in [Task -> {"none", "pending", "running"} \cup Terminal]
      BY <2>1
    <2>6. /\ barrier \in [Task -> SUBSET Task] /\ before \in [Task -> SUBSET Task]
          /\ worker \in [Task -> {"idle", "spawned", "started"} \cup Outcome]
      BY DEF Init
    <2> QED
      BY <2>3, <2>4, <2>5, <2>6 DEF Init, TypeOK
  <1>2. TypeOK /\ [Next]_vars => TypeOK'
    <2> SUFFICES ASSUME TypeOK, [Next]_vars PROVE TypeOK'
      OBVIOUS
    <2> USE DEF TypeOK, Outcome, Terminal
    <2>1. CASE SpawnReady
      BY <2>1 DEF SpawnReady, Ready, disk, server
    <2>2. CASE JoinNext
      BY <2>2 DEF JoinNext, JoinReport, JoinError, Exited, disk, server
    <2>3. CASE JoinPending \/ RecvPending \/ Park \/ Wake
      BY <2>3 DEF JoinPending, RecvPending, Park, Wake, locals, disk, server
    <2>4. CASE RecvDispatch
      <3> DEFINE m == Head(queue)
                 new == m.names \ accepted
      <3>1. m \in Request /\ queue' \in Seq(Request) /\ Len(queue') <= Capacity
        BY <2>4, QueueReceive DEF RecvDispatch
      <3>2. new \subseteq Task /\ Cardinality(new) \in Nat
        BY <3>1, NamesCount DEF Request, Seal
      <3> QED
        BY <2>4, <3>1, <3>2 DEF RecvDispatch, AcceptRequest, BuildBarrier, server
    <2>5. CASE RecvSeal
      BY <2>5, QueueReceive DEF RecvSeal, disk, server
    <2>6. CASE Drain
      BY <2>6 DEF Drain, GivenUp, server
    <2>7. CASE Finalize
      BY <2>7 DEF Finalize, locals, server
    <2>8. ASSUME NEW t \in Task, TaskStep(t) PROVE TypeOK'
      BY <2>8 DEF TaskStep, TaskStart, TaskEnd, TaskPanic, locals, disk, server
    <2>9. ASSUME NEW c \in Client, BeginDispatch(c) \/ DispatchRefused(c) PROVE TypeOK'
      BY <2>9 DEF BeginDispatch, DispatchRefused, locals, disk
    <2>10. ASSUME NEW c \in Client, NEW kind \in {"task", "wave"}, NEW names \in SUBSET Task,
                  NEW d \in [names -> SUBSET Task], SendDispatch(c, kind, names, d)
           PROVE  TypeOK'
      <3>1. [kind |-> kind, names |-> names] \in Request
        BY DEF Request
      <3> QED
        BY <2>10, <3>1, QueueSend DEF SendDispatch, CanSend, locals, disk
    <2>11. ASSUME NEW c \in Client, DispatchTask(c) PROVE TypeOK'
      BY <2>10, <2>11 DEF DispatchTask
    <2>12. ASSUME NEW c \in Client, DispatchWave(c) PROVE TypeOK'
      BY <2>10, <2>12 DEF DispatchWave
    <2>13. Seal \in Request
      BY DEF Seal, Request
    <2>14. CASE SealDispatch
      BY <2>14, <2>13, QueueSend DEF SealDispatch, CanSend, locals, disk, server
    <2>15. CASE CancelRun
      BY <2>15 DEF CancelRun, locals, disk
    <2>16. CASE CancelSeal
      BY <2>16, <2>13, QueueSend DEF CancelSeal, CanSend, locals, disk
    <2>17. CASE UNCHANGED vars
      BY <2>17 DEF vars, locals, disk, server
    <2> QED
      BY <2>1, <2>2, <2>3, <2>4, <2>5, <2>6, <2>7, <2>8, <2>9, <2>11, <2>12, <2>14, <2>15,
         <2>16, <2>17 DEF Next, Loop, ClientStep
  <1> QED
    BY <1>1, <1>2, PTL DEF Spec

----------------------------------------------------------------------------
(* The inductive invariant, one lemma per action that changes what it speaks about. *)

\* The names in the channel after a send and after a receive.
LEMMA NamesAppend ==
    ASSUME NEW q \in Seq(Request), NEW m \in Request
    PROVE  NamesIn(Append(q, m)) = NamesIn(q) \cup m.names
  <1> DEFINE r == Append(q, m)
  <1>1. /\ DOMAIN r = DOMAIN q \cup {Len(q) + 1}
        /\ \A i \in DOMAIN q : r[i] = q[i]
        /\ r[Len(q) + 1] = m
    OBVIOUS
  <1>2. ASSUME NEW n PROVE n \in NamesIn(r) <=> n \in NamesIn(q) \cup m.names
    <2>1. n \in NamesIn(r) <=> \E i \in DOMAIN r : n \in r[i].names
      BY DEF NamesIn
    <2>2. n \in NamesIn(q) <=> \E i \in DOMAIN q : n \in q[i].names
      BY DEF NamesIn
    <2> HIDE DEF r
    <2> QED
      BY <1>1, <2>1, <2>2
  <1> QED
    BY <1>2

LEMMA NamesTail ==
    ASSUME NEW q \in Seq(Request), q # <<>>
    PROVE  NamesIn(q) = Head(q).names \cup NamesIn(Tail(q))
  <1> DEFINE r == Tail(q)
  <1>1. /\ DOMAIN q = 1 .. Len(q) /\ Len(q) \in Nat \ {0} /\ Head(q) = q[1]
        /\ DOMAIN r = 1 .. (Len(q) - 1)
        /\ \A i \in DOMAIN r : r[i] = q[i + 1]
    OBVIOUS
  <1>2. ASSUME NEW n PROVE n \in NamesIn(q) <=> n \in Head(q).names \cup NamesIn(r)
    <2>1. n \in NamesIn(r) <=> \E i \in DOMAIN r : n \in r[i].names
      BY DEF NamesIn
    <2>2. n \in NamesIn(q) <=> \E i \in DOMAIN q : n \in q[i].names
      BY DEF NamesIn
    <2> HIDE DEF r
    <2>3. ASSUME NEW i \in DOMAIN q, n \in q[i].names, i # 1 PROVE n \in NamesIn(r)
      <3>1. i - 1 \in DOMAIN r /\ r[i - 1] = q[i]
        BY <1>1, <2>3
      <3> QED
        BY <2>1, <2>3, <3>1
    <2>4. ASSUME NEW i \in DOMAIN r, n \in r[i].names PROVE n \in NamesIn(q)
      <3>1. i + 1 \in DOMAIN q /\ q[i + 1] = r[i]
        BY <1>1, <2>4
      <3> QED
        BY <2>2, <2>4, <3>1
    <2>5. n \in Head(q).names => n \in NamesIn(q)
      BY <1>1, <2>2
    <2> QED
      BY <1>1, <2>1, <2>2, <2>3, <2>4, <2>5
  <1> QED
    BY <1>2

\* Names that travel once keep doing so.
LEMMA DisjointAppend ==
    ASSUME NEW q \in Seq(Request), NEW m \in Request, NamesDisjoint(q),
           m.names \cap NamesIn(q) = {}
    PROVE  NamesDisjoint(Append(q, m))
  <1> DEFINE r == Append(q, m)
  <1>1. /\ DOMAIN r = DOMAIN q \cup {Len(q) + 1}
        /\ \A i \in DOMAIN q : r[i] = q[i]
        /\ r[Len(q) + 1] = m
    OBVIOUS
  <1>2. \A i \in DOMAIN q : q[i].names \cap m.names = {}
    BY DEF NamesIn
  <1> HIDE DEF r
  <1> QED
    BY <1>1, <1>2 DEF NamesDisjoint, r

LEMMA DisjointTail ==
    ASSUME NEW q \in Seq(Request), q # <<>>, NamesDisjoint(q)
    PROVE  NamesDisjoint(Tail(q)) /\ Head(q).names \cap NamesIn(Tail(q)) = {}
  <1> DEFINE r == Tail(q)
  <1>1. /\ 1 \in DOMAIN q /\ Head(q) = q[1]
        /\ \A i \in DOMAIN r : i + 1 \in DOMAIN q /\ i + 1 # 1 /\ r[i] = q[i + 1]
        /\ \A i, j \in DOMAIN r : i # j => i + 1 # j + 1
    OBVIOUS
  <1> HIDE DEF r
  <1>2. NamesDisjoint(r)
    BY <1>1 DEF NamesDisjoint
  <1>3. Head(q).names \cap NamesIn(r) = {}
    BY <1>1 DEF NamesDisjoint, NamesIn
  <1> QED
    BY <1>2, <1>3 DEF r

LEMMA InitEstablishes ==
    ASSUME Init, TypeOK
    PROVE  IInv
  <1>1. NamesIn(<<>>) = {} /\ DOMAIN queue = {}
    BY DEF NamesIn, Init
  <1> QED
    BY <1>1 DEF Init, IInv, AcceptedSetsAgree, NamesDisjoint, Ledger, FailFast, BarrierCovers,
         Accounted, MetaFollowsWorker, Verdict, StartsAfterDone, Spawned, Terminal, Outcome

\* Spawning: a ready task waits for completed tasks only, and without a cancelled token
\* every completed task is done.
LEMMA SpawnReadyKeeps ==
    ASSUME IInv, TypeOK', SpawnReady
    PROVE  IInv'
  <1> USE DEF IInv, SpawnReady, Ready, TypeOK, Spawned
  <1>1. Ledger'
    BY DEF Ledger, disk, server, Outcome
  <1>2. FailFast'
    BY DEF FailFast, Ledger
  <1>3. BarrierCovers'
    BY DEF BarrierCovers
  <1>4. Accounted'
    BY DEF Accounted, Ledger
  <1>5. MetaFollowsWorker'
    BY DEF MetaFollowsWorker, Terminal, disk
  <1>6. Verdict'
    BY DEF Verdict, disk, MayExit
  <1>7. StartsAfterDone'
    BY DEF StartsAfterDone, FailFast, BarrierCovers, IsUnblocked, Ledger
  <1>8. AcceptedSetsAgree' /\ NamesDisjoint(queue)'
    BY DEF AcceptedSetsAgree, NamesDisjoint, NamesIn, server
  <1> QED
    BY <1>1, <1>2, <1>3, <1>4, <1>5, <1>6, <1>7, <1>8

\* Joining: the step that completes a task that is not done cancels the run.
LEMMA JoinNextKeeps ==
    ASSUME IInv, TypeOK', JoinNext
    PROVE  IInv'
  <1> USE DEF IInv, TypeOK, Spawned
  <1>1. PICK t \in Exited : joinSet' = joinSet \ {t} /\ (JoinReport(t) \/ JoinError(t))
    BY DEF JoinNext
  <1>2. t \in joinSet /\ t \in running /\ t \notin completed /\ worker[t] \in Outcome
    BY <1>1 DEF Exited, Ledger
  <1>3. /\ UNCHANGED <<pending, accepted, sealed, deps, barrier, queue, worker, meta,
                       runStatus, srvAccepted, before>>
        /\ pc = "join" /\ pc' = "spawn"
    BY DEF JoinNext, disk, server
  <1>4. Ledger'
    BY <1>1, <1>2, <1>3 DEF Ledger, JoinReport, JoinError
  <1>5. FailFast'
    BY <1>1, <1>2, <1>3 DEF FailFast, JoinReport, JoinError, Outcome, Ledger
  <1>6. BarrierCovers'
    BY <1>1, <1>3 DEF BarrierCovers, JoinReport, JoinError
  <1>7. Accounted'
    BY <1>1, <1>2, <1>3 DEF Accounted, JoinReport, JoinError
  <1>8. MetaFollowsWorker' /\ StartsAfterDone'
    BY <1>3 DEF MetaFollowsWorker, StartsAfterDone
  <1>9. Verdict'
    BY <1>3 DEF Verdict
  <1>10. AcceptedSetsAgree' /\ NamesDisjoint(queue)'
    BY <1>3 DEF AcceptedSetsAgree, NamesDisjoint, NamesIn
  <1> QED
    BY <1>4, <1>5, <1>6, <1>7, <1>8, <1>9, <1>10

\* Receiving a request: its names are new, and running, pending and completed are all that
\* was accepted before, so its barrier covers it.
LEMMA RecvDispatchKeeps ==
    ASSUME IInv, TypeOK', RecvDispatch
    PROVE  IInv'
  <1> DEFINE m == Head(queue)
             new == m.names \ accepted
  <1>1. /\ queue \in Seq(Request) /\ queue # <<>> /\ queue' = Tail(queue)
        /\ m \in Request /\ m.names \subseteq Task
    BY QueueReceive DEF RecvDispatch, IInv, TypeOK, Request, Seal
  <1>2. NamesIn(queue) = m.names \cup NamesIn(queue')
    BY <1>1, NamesTail
  <1>4. /\ accepted' = accepted \cup new /\ pending' = pending \cup new
        /\ \A t \in Task \ new :
              barrier'[t] = barrier[t] /\ before'[t] = before[t] /\ meta'[t] = meta[t]
        /\ \A t \in new :
              /\ meta'[t] = "pending" /\ before'[t] \subseteq accepted
              /\ before'[t] # {} => barrier'[t] = running \cup pending
        /\ UNCHANGED <<running, completed, allOk, joinSet, deps, cancel, worker, runStatus,
                       srvAccepted>>
        /\ pc = "recv" /\ pc' = "spawn"
    BY <1>1 DEF RecvDispatch, AcceptRequest, BuildBarrier, IInv, TypeOK, server
  <1> HIDE DEF m, new
  <1>5. new \cap accepted = {} /\ m.names \cap accepted = {} /\ new = m.names
    BY <1>2 DEF new, IInv, AcceptedSetsAgree
  <1>6. new \subseteq Task /\ new \cap Spawned = {} /\ Spawned' = Spawned
    BY <1>1, <1>4, <1>5 DEF IInv, Ledger, Spawned
  <1>7. NamesDisjoint(queue)' /\ m.names \cap NamesIn(queue') = {}
    BY <1>1, DisjointTail DEF IInv, NamesDisjoint, m
  <1>9. AcceptedSetsAgree'
    BY <1>2, <1>4, <1>5, <1>7 DEF IInv, AcceptedSetsAgree
  <1>10. Ledger'
    BY <1>4, <1>5, <1>6 DEF IInv, Ledger, TypeOK
  <1>11. FailFast'
    BY <1>4, <1>6 DEF IInv, FailFast
  <1>12. BarrierCovers'
    <2> SUFFICES ASSUME ~cancel, NEW t \in pending', NEW u \in before'[t]
                 PROVE  u \in barrier'[t] \cup completed'
      BY <1>4 DEF BarrierCovers
    <2>1. CASE t \in new
      <3>1. u \in accepted /\ barrier'[t] = running \cup pending
        BY <1>4, <2>1
      <3>2. accepted = pending \cup running \cup completed
        BY DEF IInv, FailFast, Ledger
      <3> QED
        BY <1>4, <3>1, <3>2
    <2>2. CASE t \notin new
      <3>1. t \in pending /\ t \in Task
        BY <1>4, <2>2 DEF IInv, TypeOK
      <3>2. barrier'[t] = barrier[t] /\ before'[t] = before[t] /\ completed' = completed
        BY <1>4, <2>2, <3>1
      <3> QED
        BY <3>1, <3>2 DEF IInv, BarrierCovers
    <2> QED
      BY <2>1, <2>2
  <1>13. Accounted'
    BY <1>4, <1>5 DEF IInv, Accounted
  <1>14. MetaFollowsWorker'
    BY <1>4, <1>6 DEF IInv, MetaFollowsWorker, Spawned, Terminal
  <1>15. Verdict'
    BY <1>4 DEF IInv, Verdict
  <1>16. StartsAfterDone'
    BY <1>4, <1>6 DEF IInv, StartsAfterDone, Spawned
  <1> QED
    BY <1>7, <1>9, <1>10, <1>11, <1>12, <1>13, <1>14, <1>15, <1>16 DEF IInv

\* The cancel arm: with the token cancelled nothing is spawned any more.
LEMMA DrainKeeps ==
    ASSUME IInv, TypeOK', Drain
    PROVE  IInv'
  <1> USE DEF IInv, Drain, GivenUp, TypeOK, Spawned
  <1>1. AcceptedSetsAgree' /\ NamesDisjoint(queue)'
    BY DEF AcceptedSetsAgree, NamesDisjoint, NamesIn, server
  <1>2. Ledger'
    BY DEF Ledger
  <1>3. FailFast' /\ BarrierCovers' /\ Accounted'
    BY DEF FailFast, BarrierCovers, Accounted
  <1>4. MetaFollowsWorker'
    BY DEF MetaFollowsWorker, Ledger, Terminal
  <1>5. Verdict' /\ StartsAfterDone'
    BY DEF Verdict, StartsAfterDone
  <1> QED
    BY <1>1, <1>2, <1>3, <1>4, <1>5

\* A task's own steps: once it is done, failed or cancelled its future does not move.
LEMMA TaskStepKeeps ==
    ASSUME IInv, TypeOK', NEW t \in Task, TaskStep(t)
    PROVE  IInv'
  <1> USE DEF IInv, TypeOK, Spawned
  <1>1. /\ worker[t] \in {"spawned", "started"}
        /\ worker'[t] \in {"started"} \cup Outcome
        /\ worker'[t] = "cancelled" => cancel
        /\ worker'[t] = "started" => meta'[t] = "running"
        /\ worker'[t] \in Terminal => meta'[t] = worker'[t]
        /\ \A u \in Task \ {t} : worker'[u] = worker[u] /\ meta'[u] = meta[u]
        /\ UNCHANGED <<pc, pending, accepted, running, completed, allOk, joinSet, deps, barrier,
                       queue, cancel, runStatus, srvAccepted, before>>
    BY DEF TaskStep, TaskStart, TaskEnd, TaskPanic, locals, disk, server, Outcome, Terminal
  <1>2. Spawned' = Spawned /\ t \in joinSet /\ t \notin completed
    BY <1>1 DEF Ledger, Outcome
  <1>3. AcceptedSetsAgree' /\ NamesDisjoint(queue)'
    BY <1>1 DEF AcceptedSetsAgree, NamesDisjoint, NamesIn
  <1>4. Ledger'
    BY <1>1, <1>2 DEF Ledger
  <1>5. FailFast'
    BY <1>1, <1>2 DEF FailFast
  <1>6. BarrierCovers' /\ Verdict'
    BY <1>1 DEF BarrierCovers, Verdict
  <1>7. Accounted'
    BY <1>1, <1>2 DEF Accounted
  <1>8. MetaFollowsWorker'
    BY <1>1, <1>2 DEF MetaFollowsWorker, Ledger, Outcome, Terminal
  <1>9. StartsAfterDone'
    BY <1>1, <1>2 DEF StartsAfterDone
  <1> QED
    BY <1>3, <1>4, <1>5, <1>6, <1>7, <1>8, <1>9

\* Sending a dispatch: its names are known to nobody yet, so nothing that exists changes.
LEMMA SendDispatchKeeps ==
    ASSUME IInv, TypeOK',
           NEW c, NEW kind \in {"task", "wave"}, NEW names \in SUBSET (Task \ srvAccepted), NEW d,
           SendDispatch(c, kind, names, d)
    PROVE  IInv'
  <1> DEFINE m == [kind |-> kind, names |-> names]
  <1>1. m \in Request /\ m.names = names /\ queue \in Seq(Request)
    BY DEF Request, IInv, TypeOK
  <1>2. /\ queue' = Append(queue, m) /\ srvAccepted' = srvAccepted \cup names
        /\ \A t \in Task \ names : deps'[t] = deps[t]
        /\ UNCHANGED <<pc, pending, accepted, running, completed, allOk, joinSet, barrier, cancel,
                       worker, meta, runStatus, before>>
    BY DEF SendDispatch, locals, disk, IInv, TypeOK
  <1>3. NamesIn(queue') = NamesIn(queue) \cup names
    BY <1>1, <1>2, NamesAppend
  <1>6. names \cap accepted = {} /\ names \cap Spawned = {} /\ Spawned' = Spawned
    BY <1>2 DEF IInv, AcceptedSetsAgree, Ledger, Spawned
  <1>7. AcceptedSetsAgree'
    BY <1>2, <1>3, <1>6 DEF IInv, AcceptedSetsAgree
  <1>8. NamesDisjoint(queue)'
    <2>1. NamesDisjoint(queue) /\ m.names \cap NamesIn(queue) = {}
      BY <1>1 DEF IInv, AcceptedSetsAgree
    <2>2. NamesDisjoint(Append(queue, m))
      BY <1>1, <2>1, DisjointAppend
    <2> QED
      BY <1>2, <2>2 DEF NamesDisjoint
  <1>9. Ledger' /\ FailFast' /\ BarrierCovers' /\ Accounted' /\ MetaFollowsWorker' /\ Verdict'
    BY <1>2, <1>6 DEF IInv, Ledger, FailFast, BarrierCovers, Accounted, MetaFollowsWorker, Verdict
  <1>10. StartsAfterDone'
    BY <1>2, <1>6 DEF IInv, StartsAfterDone, Spawned
  <1> QED
    BY <1>7, <1>8, <1>9, <1>10 DEF IInv

\* A Seal carries no name.
LEMMA SendSealKeeps ==
    ASSUME IInv, TypeOK', queue' = Append(queue, Seal),
           UNCHANGED <<pc, locals, deps, barrier, cancel, worker, disk, srvAccepted, before>>
    PROVE  IInv'
  <1>1. Seal \in Request /\ Seal.names = {} /\ queue \in Seq(Request)
    BY DEF Seal, Request, IInv, TypeOK
  <1>2. NamesIn(queue') = NamesIn(queue)
    BY <1>1, NamesAppend
  <1>4. AcceptedSetsAgree'
    BY <1>2 DEF IInv, AcceptedSetsAgree, locals
  <1>5. NamesDisjoint(queue)'
    BY <1>1, DisjointAppend DEF IInv, NamesDisjoint
  <1> QED
    BY <1>4, <1>5 DEF IInv, Ledger, FailFast, BarrierCovers, Accounted, MetaFollowsWorker, Verdict,
                      StartsAfterDone, Spawned, locals, disk

\* Receiving a Seal takes no name out of the channel.
LEMMA RecvSealKeeps ==
    ASSUME IInv, TypeOK', RecvSeal
    PROVE  IInv'
  <1>1. /\ queue \in Seq(Request) /\ queue # <<>> /\ queue' = Tail(queue)
        /\ Head(queue) \in Request /\ Head(queue).kind = "seal"
        /\ UNCHANGED <<pending, accepted, running, completed, allOk, joinSet, deps, barrier,
                       cancel, worker, meta, runStatus, srvAccepted, before>>
        /\ pc = "recv" /\ pc' = "spawn"
    BY QueueReceive DEF RecvSeal, IInv, TypeOK, disk, server
  <1>2. Head(queue).names = {}
    BY <1>1 DEF Request, Seal
  <1>3. NamesIn(queue') = NamesIn(queue)
    BY <1>1, <1>2, NamesTail
  <1>4. AcceptedSetsAgree'
    BY <1>1, <1>3 DEF IInv, AcceptedSetsAgree
  <1>5. NamesDisjoint(queue)'
    BY <1>1, DisjointTail DEF IInv, NamesDisjoint
  <1> QED
    BY <1>1, <1>4, <1>5 DEF IInv, Ledger, FailFast, BarrierCovers, Accounted, MetaFollowsWorker,
                           Verdict, StartsAfterDone, Spawned

\* The steps that touch nothing the invariant speaks about but pc, the token and the verdict.
LEMMA QuietStepKeeps ==
    ASSUME IInv, TypeOK',
           UNCHANGED <<locals, deps, barrier, queue, worker, meta, srvAccepted, before>>,
           cancel => cancel',
           Verdict'
    PROVE  IInv'
  BY DEF IInv, AcceptedSetsAgree, NamesIn, NamesDisjoint, Ledger, FailFast, BarrierCovers,
         Accounted, MetaFollowsWorker, StartsAfterDone, Spawned, locals

\* The inductive invariant holds in every reachable state.
THEOREM Invariance == Spec => []IInv
  <1>1. Init /\ TypeOK => IInv
    BY InitEstablishes
  <1>2. IInv /\ TypeOK' /\ [Next]_vars => IInv'
    <2> SUFFICES ASSUME IInv, TypeOK', [Next]_vars PROVE IInv'
      OBVIOUS
    <2> USE DEF IInv
    <2>1. CASE SpawnReady
      BY <2>1, SpawnReadyKeeps
    <2>2. CASE JoinNext
      BY <2>2, JoinNextKeeps
    <2>3. CASE RecvDispatch
      BY <2>3, RecvDispatchKeeps
    <2>4. CASE RecvSeal
      BY <2>4, RecvSealKeeps
    <2>5. CASE Drain
      BY <2>5, DrainKeeps
    <2>6. CASE JoinPending \/ RecvPending \/ Park \/ Wake
      BY <2>6, QuietStepKeeps
         DEF JoinPending, RecvPending, Park, Wake, Verdict, locals, disk, server
    <2>7. CASE Finalize
      BY <2>7, QuietStepKeeps DEF Finalize, Verdict, locals, server
    <2>8. ASSUME NEW t \in Task, TaskStep(t) PROVE IInv'
      BY <2>8, TaskStepKeeps
    <2>9. ASSUME NEW c \in Client, BeginDispatch(c) \/ DispatchRefused(c) PROVE IInv'
      BY <2>9, QuietStepKeeps DEF BeginDispatch, DispatchRefused, Verdict, locals, disk
    <2>10. ASSUME NEW c \in Client, DispatchTask(c) PROVE IInv'
      BY <2>10, SendDispatchKeeps DEF DispatchTask
    <2>11. ASSUME NEW c \in Client, DispatchWave(c) PROVE IInv'
      BY <2>11, SendDispatchKeeps DEF DispatchWave
    <2>12. CASE SealDispatch
      BY <2>12, SendSealKeeps DEF SealDispatch, server
    <2>13. CASE CancelRun
      BY <2>13, QuietStepKeeps DEF CancelRun, Verdict, locals, disk
    <2>14. CASE CancelSeal
      <3>1. CASE CanSend
        BY <2>14, <3>1, SendSealKeeps DEF CancelSeal
      <3>2. CASE ~CanSend
        BY <2>14, <3>2, QuietStepKeeps DEF CancelSeal, Verdict, locals, disk
      <3> QED
        BY <3>1, <3>2
    <2>15. CASE UNCHANGED vars
      BY <2>15, QuietStepKeeps DEF vars, Verdict, locals, disk, server
    <2> QED
      BY <2>1, <2>2, <2>3, <2>4, <2>5, <2>6, <2>7, <2>8, <2>9, <2>10, <2>11, <2>12, <2>13,
         <2>14, <2>15 DEF Next, Loop, ClientStep
  <1> QED
    BY <1>1, <1>2, TypeCorrect, PTL DEF Spec

----------------------------------------------------------------------------
(* What follows from it. *)

\* A task is spawned only after everything it was told to wait for is done.
THEOREM StartOrder == Spec => []StartsAfterDone
  <1>1. IInv => StartsAfterDone
    BY DEF IInv
  <1> QED
    BY <1>1, Invariance, PTL

\* A run reported done has done, on disk too, every task the coordinator accepted.
THEOREM DoneIsTruthful == Spec => []DoneMeansAllDone
  <1>1. IInv => DoneMeansAllDone
    <2> SUFFICES ASSUME IInv, runStatus = "done", NEW t \in accepted
                 PROVE  worker[t] = "done" /\ meta[t] = "done"
      BY DEF DoneMeansAllDone
    <2>1. pending = {} /\ joinSet = {} /\ allOk
      BY DEF IInv, Verdict
    <2>2. worker[t] = "done" /\ t \in Task
      BY <2>1 DEF IInv, Accounted, TypeOK
    <2> QED
      BY <2>2 DEF IInv, MetaFollowsWorker, Terminal
  <1> QED
    BY <1>1, Invariance, PTL

\* When the verdict is written nothing of the run is left.
THEOREM VerdictIsLast == Spec => []VerdictMeansSettled
  <1>1. IInv => VerdictMeansSettled
    <2> SUFFICES ASSUME IInv, runStatus # "running" PROVE VerdictMeansSettled!2
      BY DEF VerdictMeansSettled
    <2>1. pending = {} /\ joinSet = {}
      BY DEF IInv, Verdict
    <2>2. ASSUME NEW t \in accepted, worker[t] # "panicked" PROVE meta[t] \in Terminal
      BY <2>1, <2>2 DEF IInv, Ledger, MetaFollowsWorker, TypeOK, Outcome, Terminal
    <2> QED
      BY <2>1, <2>2
  <1> QED
    BY <1>1, Invariance, PTL

\* The server's accepted set is the coordinator's and the names still in the channel.
THEOREM AcceptedSets == Spec => []AcceptedSetsAgree
  <1>1. IInv => AcceptedSetsAgree
    BY DEF IInv
  <1> QED
    BY <1>1, Invariance, PTL

\* A final meta is never overwritten: the actions that write metas write those of tasks
\* that are not accepted yet, pending, spawned or started.
THEOREM FinalMeta == Spec => FinalMetaStays
  <1>1. IInv /\ [Next]_vars =>
            [\A t \in Task : meta[t] \in Terminal => meta'[t] = meta[t]]_vars
    <2> SUFFICES ASSUME IInv, [Next]_vars, NEW t \in Task, meta[t] \in Terminal
                 PROVE  meta'[t] = meta[t]
      OBVIOUS
    <2>1. /\ t \in accepted /\ t \notin pending /\ worker[t] \notin {"spawned", "started"}
          /\ meta \in [Task -> {"none", "pending", "running"} \cup Terminal]
      BY DEF IInv, MetaFollowsWorker, TypeOK, Terminal
    <2>2. CASE RecvDispatch
      BY <2>1, <2>2 DEF RecvDispatch, AcceptRequest
    <2>3. CASE Drain
      BY <2>1, <2>3 DEF Drain, GivenUp
    <2>4. ASSUME NEW u \in Task, TaskStep(u) PROVE meta'[t] = meta[t]
      BY <2>1, <2>4 DEF TaskStep, TaskStart, TaskEnd, TaskPanic, disk
    <2>5. CASE (Loop /\ ~RecvDispatch /\ ~Drain) \/ ClientStep \/ UNCHANGED vars
      BY <2>5 DEF Loop, SpawnReady, JoinNext, JoinPending, RecvSeal, RecvPending, Park, Wake,
                  Finalize, ClientStep, BeginDispatch, DispatchTask, DispatchWave, SendDispatch,
                  DispatchRefused, SealDispatch, CancelRun, CancelSeal, disk, vars
    <2> QED
      BY <2>2, <2>3, <2>4, <2>5 DEF Next
  <1> QED
    BY <1>1, Invariance, PTL DEF Spec, FinalMetaStays

----------------------------------------------------------------------------
(* The order of the requests: nothing waits for what will never come. *)

\* Acyclicity looks at the dependencies of the set's own members only.
LEMMA AcyclicSame ==
    ASSUME NEW S, NEW d, NEW e, \A x \in S : e[x] = d[x], Acyclic(S, d)
    PROVE  Acyclic(S, e)
  BY DEF Acyclic

\* A new acyclic layer on top of a closed acyclic set: of any mixture of the two, a member
\* below waits for none of the members above.
LEMMA AcyclicLayer ==
    ASSUME NEW A, NEW N, NEW d, NEW e, NEW f,
           Acyclic(A, d), \A x \in A : d[x] \subseteq A /\ f[x] = d[x],
           Acyclic(N, e), \A x \in N : f[x] \subseteq e[x] \cup A,
           A \cap N = {}
    PROVE  Acyclic(A \cup N, f)
  <1> SUFFICES ASSUME NEW X \in SUBSET (A \cup N), X # {}
               PROVE  \E x \in X : f[x] \cap X = {}
    BY DEF Acyclic
  <1>1. CASE X \cap A # {}
    <2>1. PICK x \in X \cap A : d[x] \cap (X \cap A) = {}
      BY <1>1 DEF Acyclic
    <2>2. f[x] \cap X = {}
      BY <2>1
    <2> QED
      BY <2>1, <2>2
  <1>2. CASE X \cap A = {}
    <2>1. X \in SUBSET N
      BY <1>2
    <2>2. PICK x \in X : e[x] \cap X = {}
      BY <2>1 DEF Acyclic
    <2>3. f[x] \cap X = {}
      BY <1>2, <2>1, <2>2
    <2> QED
      BY <2>3
  <1> QED
    BY <1>1, <1>2

\* The names at and ahead of a place in the channel, after a send and after a receive.
LEMMA UpToAppend ==
    ASSUME NEW q \in Seq(Request), NEW m \in Request
    PROVE  /\ \A i \in DOMAIN q : NamesUpTo(Append(q, m), i) = NamesUpTo(q, i)
           /\ NamesUpTo(Append(q, m), Len(q) + 1) = NamesIn(q) \cup m.names
  <1> DEFINE r == Append(q, m)
  <1>1. /\ Len(q) \in Nat /\ DOMAIN q = 1 .. Len(q)
        /\ 1 .. (Len(q) + 1) = DOMAIN q \cup {Len(q) + 1}
        /\ \A i \in DOMAIN q : r[i] = q[i]
        /\ r[Len(q) + 1] = m
    OBVIOUS
  <1> HIDE DEF r
  <1>2. ASSUME NEW i \in DOMAIN q PROVE NamesUpTo(r, i) = NamesUpTo(q, i)
    <2>1. \A j \in 1 .. i : j \in DOMAIN q /\ r[j] = q[j]
      BY <1>1
    <2> QED
      BY <2>1 DEF NamesUpTo
  <1>3. NamesUpTo(r, Len(q) + 1) = NamesIn(q) \cup m.names
    <2>1. ASSUME NEW n
          PROVE n \in NamesUpTo(r, Len(q) + 1) <=> n \in NamesIn(q) \cup m.names
      <3>1. n \in NamesUpTo(r, Len(q) + 1) <=> \E j \in DOMAIN q \cup {Len(q) + 1} : n \in r[j].names
        BY <1>1 DEF NamesUpTo
      <3>2. n \in NamesIn(q) <=> \E j \in DOMAIN q : n \in q[j].names
        BY DEF NamesIn
      <3> QED
        BY <1>1, <3>1, <3>2
    <2> QED
      BY <2>1
  <1> QED
    BY <1>2, <1>3 DEF r

LEMMA UpToTail ==
    ASSUME NEW q \in Seq(Request), q # <<>>
    PROVE  /\ NamesUpTo(q, 1) = Head(q).names
           /\ \A i \in DOMAIN Tail(q) :
                NamesUpTo(q, i + 1) = Head(q).names \cup NamesUpTo(Tail(q), i)
  <1> DEFINE r == Tail(q)
  <1>1. /\ DOMAIN q = 1 .. Len(q) /\ Len(q) \in Nat \ {0} /\ Head(q) = q[1] /\ 1 .. 1 = {1}
        /\ DOMAIN r = 1 .. (Len(q) - 1)
        /\ \A i \in DOMAIN r : r[i] = q[i + 1]
    OBVIOUS
  <1> HIDE DEF r
  <1>2. NamesUpTo(q, 1) = Head(q).names
    BY <1>1 DEF NamesUpTo
  <1>3. ASSUME NEW i \in DOMAIN r
        PROVE  NamesUpTo(q, i + 1) = Head(q).names \cup NamesUpTo(r, i)
    <2>1. ASSUME NEW n
          PROVE  n \in NamesUpTo(q, i + 1) <=> n \in Head(q).names \cup NamesUpTo(r, i)
      <3>1. n \in NamesUpTo(q, i + 1) <=> \E j \in 1 .. (i + 1) : n \in q[j].names
        BY DEF NamesUpTo
      <3>2. n \in NamesUpTo(r, i) <=> \E j \in 1 .. i : n \in q[j + 1].names
        <4>1. \A j \in 1 .. i : r[j] = q[j + 1]
          BY <1>1
        <4> QED
          BY <4>1 DEF NamesUpTo
      <3>3. ASSUME NEW j \in 1 .. (i + 1), n \in q[j].names, j # 1
            PROVE  \E k \in 1 .. i : n \in q[k + 1].names
        <4>1. j - 1 \in 1 .. i /\ (j - 1) + 1 = j
          BY <1>1, <3>3
        <4> QED
          BY <3>3, <4>1
      <3>4. \A k \in 1 .. i : k + 1 \in 1 .. (i + 1)
        BY <1>1
      <3>5. 1 \in 1 .. (i + 1)
        BY <1>1
      <3> QED
        BY <1>1, <3>1, <3>2, <3>3, <3>4, <3>5
    <2> QED
      BY <2>1
  <1> QED
    BY <1>2, <1>3 DEF r

LEMMA InitOrders ==
    ASSUME Init, TypeOK
    PROVE  OInv
  <1>1. PICK p \in Plans : /\ accepted = p.names /\ deps = p.deps /\ queue = <<>>
                           /\ barrier = [t \in Task |-> {}] /\ before = [t \in Task |-> {}]
                           /\ pc = "spawn"
    BY DEF Init
  <1>2. /\ p.names \subseteq Task /\ p.deps \in [Task -> SUBSET p.names]
        /\ Acyclic(p.names, p.deps)
    BY CoordinatorAssumption DEF IsPlan
  <1> DEFINE d == [t \in Task |-> deps[t] \cup barrier[t]]
  <1>3. \A t \in p.names : d[t] = p.deps[t]
    BY <1>1, <1>2
  <1>4. Layered
    <2> HIDE DEF d
    <2>1. Acyclic(p.names, d)
      BY <1>2, <1>3, AcyclicSame
    <2> QED
      BY <1>1, <2>1 DEF Layered, d
  <1>5. DOMAIN queue = {}
    BY <1>1
  <1> QED
    BY <1>1, <1>2, <1>4, <1>5 DEF OInv, WaitsKnown, QueueOrdered, SomethingRuns

\* Nothing the order of requests speaks about changes.
LEMMA QuietKeepsOrder ==
    ASSUME OInv, UNCHANGED <<accepted, deps, barrier, before, queue>>, SomethingRuns'
    PROVE  OInv'
  BY DEF OInv, WaitsKnown, Layered, QueueOrdered, NamesUpTo

\* When nothing is ready, nothing runs and the token is not set, all that is accepted is
\* pending or completed, and the pending task that waits for no pending one would be ready.
LEMMA SpawnFindsOne ==
    ASSUME TypeOK, IInv, OInv, ~cancel, pending # {}, joinSet = {}
    PROVE  Ready # {}
  <1>1. accepted = pending \cup completed
    BY DEF IInv, FailFast, Ledger
  <1>2. PICK t \in pending : (deps[t] \cup barrier[t]) \cap pending = {}
    <2>1. PICK t \in pending : [u \in Task |-> deps[u] \cup barrier[u]][t] \cap pending = {}
      BY <1>1 DEF OInv, Layered, Acyclic
    <2> QED
      BY <2>1 DEF TypeOK
  <1>3. deps[t] \cup barrier[t] \subseteq accepted
    BY <1>1 DEF OInv, WaitsKnown
  <1>4. IsUnblocked(t)
    BY <1>1, <1>2, <1>3 DEF IsUnblocked
  <1> QED
    BY <1>4 DEF Ready

\* A request brings tasks that wait for what was accepted before and, acyclically, for one
\* another; a barrier covers accepted tasks only.
LEMMA RecvDispatchKeepsOrder ==
    ASSUME TypeOK, IInv, OInv, RecvDispatch
    PROVE  OInv'
  <1> DEFINE m == Head(queue)
             new == m.names \ accepted
  <1>1. /\ queue \in Seq(Request) /\ queue # <<>> /\ queue' = Tail(queue)
        /\ m \in Request /\ m.names \subseteq Task /\ m = queue[1] /\ 1 \in DOMAIN queue
    BY QueueReceive DEF RecvDispatch, TypeOK, Request, Seal
  <1>2. new = m.names
    BY <1>1 DEF IInv, AcceptedSetsAgree, NamesIn
  <1>3. /\ accepted' = accepted \cup new /\ deps' = deps /\ pc' = "spawn"
        /\ \A t \in Task \ new : barrier'[t] = barrier[t] /\ before'[t] = before[t]
        /\ \A t \in new : barrier'[t] \subseteq running \cup pending /\ before'[t] \subseteq accepted
        /\ barrier' \in [Task -> SUBSET Task]
    BY <1>1 DEF RecvDispatch, AcceptRequest, BuildBarrier, TypeOK
  <1>4. running \cup pending \subseteq accepted /\ accepted \subseteq Task
    BY DEF IInv, Ledger, TypeOK
  <1>5. Acyclic(new, deps) /\ \A t \in new : deps[t] \subseteq accepted \cup new
    <2>1. NamesUpTo(queue, 1) = m.names
      BY <1>1, UpToTail
    <2> QED
      BY <1>1, <1>2, <2>1 DEF OInv, QueueOrdered
  <1> HIDE DEF m, new
  <1>6. new \subseteq Task
    BY <1>1, <1>2
  <1>7. WaitsKnown'
    BY <1>3, <1>4, <1>5, <1>6 DEF OInv, WaitsKnown
  <1>8. Layered'
    <2> DEFINE d == [t \in Task |-> deps[t] \cup barrier[t]]
               f == [t \in Task |-> deps'[t] \cup barrier'[t]]
    <2>1. Acyclic(accepted, d) /\ \A x \in accepted : d[x] \subseteq accepted
      BY <1>4 DEF OInv, Layered, WaitsKnown
    <2>2. accepted \cap new = {}
      BY DEF new
    <2>3. \A x \in accepted : f[x] = d[x]
      BY <1>3, <1>4, <2>2
    <2>4. \A x \in new : f[x] \subseteq deps[x] \cup accepted
      BY <1>3, <1>4, <1>6
    <2> HIDE DEF d, f
    <2>5. Acyclic(accepted \cup new, f)
      BY <1>5, <2>1, <2>2, <2>3, <2>4, AcyclicLayer
    <2> QED
      BY <1>3, <2>5 DEF Layered, f
  <1>9. QueueOrdered'
    <2>1. \A i \in DOMAIN Tail(queue) : i + 1 \in DOMAIN queue /\ Tail(queue)[i] = queue[i + 1]
      BY <1>1
    <2>2. \A i \in DOMAIN Tail(queue) : NamesUpTo(queue, i + 1) = m.names \cup NamesUpTo(Tail(queue), i)
      BY <1>1, UpToTail DEF m
    <2>3. \A i \in DOMAIN queue' :
              /\ queue'[i] = queue[i + 1] /\ i + 1 \in DOMAIN queue
              /\ accepted \cup NamesUpTo(queue, i + 1) = accepted' \cup NamesUpTo(queue', i)
      BY <1>1, <1>2, <1>3, <2>1, <2>2
    <2> QED
      BY <1>3, <2>3 DEF OInv, QueueOrdered
  <1>10. SomethingRuns'
    BY <1>3 DEF SomethingRuns
  <1> QED
    BY <1>7, <1>8, <1>9, <1>10 DEF OInv

LEMMA RecvSealKeepsOrder ==
    ASSUME TypeOK, IInv, OInv, RecvSeal
    PROVE  OInv'
  <1>1. /\ queue \in Seq(Request) /\ queue # <<>> /\ queue' = Tail(queue)
        /\ Head(queue) \in Request /\ Head(queue).kind = "seal"
        /\ UNCHANGED <<accepted, deps, barrier, before>> /\ pc' = "spawn"
    BY QueueReceive DEF RecvSeal, TypeOK, server
  <1>2. Head(queue).names = {}
    BY <1>1 DEF Request, Seal
  <1>3. \A i \in DOMAIN Tail(queue) : i + 1 \in DOMAIN queue /\ Tail(queue)[i] = queue[i + 1]
    BY <1>1
  <1>4. \A i \in DOMAIN Tail(queue) : NamesUpTo(queue, i + 1) = NamesUpTo(Tail(queue), i)
    BY <1>1, <1>2, UpToTail
  <1>5. QueueOrdered'
    BY <1>1, <1>3, <1>4 DEF OInv, QueueOrdered
  <1> QED
    BY <1>1, <1>5 DEF OInv, WaitsKnown, Layered, SomethingRuns

\* What is sent depends on accepted or queued names, or on the request's own, acyclically.
LEMMA SendKeepsOrder ==
    ASSUME TypeOK, IInv, OInv, NEW m \in Request, queue' = Append(queue, m),
           m.names \cap srvAccepted = {},
           \A t \in Task \ m.names : deps'[t] = deps[t],
           Acyclic(m.names, deps'), \A t \in m.names : deps'[t] \subseteq srvAccepted \cup m.names,
           deps' \in [Task -> SUBSET Task],
           UNCHANGED <<accepted, barrier, before, pending, joinSet, pc, cancel>>
    PROVE  OInv'
  <1>1. /\ srvAccepted = accepted \cup NamesIn(queue) /\ queue \in Seq(Request)
        /\ accepted \subseteq Task
    BY DEF IInv, AcceptedSetsAgree, TypeOK
  <1>2. \A t \in accepted : t \in Task /\ deps'[t] = deps[t]
    BY <1>1
  <1>3. \A i \in DOMAIN queue : \A t \in queue[i].names : deps'[t] = deps[t]
    <2>1. \A i \in DOMAIN queue : queue[i] \in Request
      BY <1>1
    <2>2. \A i \in DOMAIN queue : queue[i].names \subseteq Task
      BY <2>1 DEF Request, Seal
    <2> QED
      BY <1>1, <2>2 DEF NamesIn
  <1>4. WaitsKnown'
    BY <1>2 DEF OInv, WaitsKnown
  <1>5. Layered'
    <2> DEFINE d == [t \in Task |-> deps[t] \cup barrier[t]]
               f == [t \in Task |-> deps'[t] \cup barrier[t]]
    <2>1. \A x \in accepted : f[x] = d[x]
      BY <1>1, <1>2
    <2>2. Acyclic(accepted, d)
      BY DEF OInv, Layered
    <2> HIDE DEF d, f
    <2>3. Acyclic(accepted, f)
      BY <2>1, <2>2, AcyclicSame
    <2> QED
      BY <1>1, <2>3 DEF Layered, f
  <1>6. QueueOrdered'
    <2>1. /\ DOMAIN queue' = DOMAIN queue \cup {Len(queue) + 1}
          /\ \A i \in DOMAIN queue : queue'[i] = queue[i]
          /\ queue'[Len(queue) + 1] = m
      BY <1>1
    <2>2. /\ \A i \in DOMAIN queue : NamesUpTo(queue', i) = NamesUpTo(queue, i)
          /\ NamesUpTo(queue', Len(queue) + 1) = NamesIn(queue) \cup m.names
      BY <1>1, UpToAppend
    <2>3. ASSUME NEW i \in DOMAIN queue
          PROVE  /\ Acyclic(queue'[i].names, deps')
                 /\ \A t \in queue'[i].names : deps'[t] \subseteq accepted \cup NamesUpTo(queue', i)
      <3>1. Acyclic(queue[i].names, deps)
        BY DEF OInv, QueueOrdered
      <3>2. Acyclic(queue[i].names, deps')
        BY <1>3, <3>1, AcyclicSame
      <3> QED
        BY <1>3, <2>1, <2>2, <3>2 DEF OInv, QueueOrdered
    <2> QED
      BY <1>1, <2>1, <2>2, <2>3 DEF QueueOrdered
  <1> QED
    BY <1>4, <1>5, <1>6 DEF OInv, SomethingRuns

LEMMA SendSealKeepsOrder ==
    ASSUME TypeOK, IInv, OInv, queue' = Append(queue, Seal),
           UNCHANGED <<deps, accepted, barrier, before, pending, joinSet, pc, cancel>>
    PROVE  OInv'
  <1>1. Seal \in Request /\ Seal.names = {}
    BY DEF Seal, Request
  <1>2. Acyclic(Seal.names, deps')
    BY <1>1 DEF Acyclic
  <1> QED
    BY <1>1, <1>2, SendKeepsOrder DEF TypeOK

\* The two validations: known names, and no cycle among the new ones.
LEMMA DispatchKeepsOrder ==
    ASSUME TypeOK, IInv, OInv, NEW c \in Client, DispatchTask(c) \/ DispatchWave(c)
    PROVE  OInv'
  <1>1. ASSUME NEW kind \in {"task", "wave"}, NEW W \in SUBSET (Task \ srvAccepted),
               NEW d \in [W -> SUBSET (srvAccepted \cup W)], Acyclic(W, d),
               SendDispatch(c, kind, W, d)
        PROVE  OInv'
    <2> DEFINE m == [kind |-> kind, names |-> W]
    <2>1. m \in Request /\ m.names = W /\ srvAccepted \subseteq Task
      BY DEF Request, TypeOK
    <2>2. /\ queue' = Append(queue, m)
          /\ deps' = [t \in Task |-> IF t \in W THEN d[t] ELSE deps[t]]
          /\ UNCHANGED <<accepted, barrier, before, pending, joinSet, pc, cancel>>
      BY <1>1 DEF SendDispatch, locals
    <2>3. /\ \A t \in W : deps'[t] = d[t] /\ d[t] \subseteq srvAccepted \cup W
          /\ \A t \in Task \ W : deps'[t] = deps[t]
          /\ deps' \in [Task -> SUBSET Task]
      BY <2>1, <2>2 DEF TypeOK
    <2>4. Acyclic(W, deps')
      BY <1>1, <2>3, AcyclicSame
    <2> HIDE DEF m
    <2> QED
      BY <2>1, <2>2, <2>3, <2>4, SendKeepsOrder
  <1>2. CASE DispatchTask(c)
    <2>1. PICK t \in Task \ srvAccepted, D \in SUBSET srvAccepted :
              SendDispatch(c, "task", {t}, [u \in {t} |-> D])
      BY <1>2 DEF DispatchTask
    <2>2. Acyclic({t}, [u \in {t} |-> D])
      BY <2>1 DEF Acyclic
    <2>3. [u \in {t} |-> D] \in [{t} -> SUBSET (srvAccepted \cup {t})]
      BY <2>1
    <2> QED
      BY <1>1, <2>1, <2>2, <2>3
  <1>3. CASE DispatchWave(c)
    BY <1>1, <1>3 DEF DispatchWave
  <1> QED
    BY <1>2, <1>3

\* The order of the requests in every reachable state.
THEOREM OrderInvariance == Spec => []OInv
  <1>1. Init /\ TypeOK => OInv
    BY InitOrders
  <1>2. TypeOK /\ IInv /\ OInv /\ [Next]_vars => OInv'
    <2> SUFFICES ASSUME TypeOK, IInv, OInv, [Next]_vars PROVE OInv'
      OBVIOUS
    <2>1. CASE SpawnReady
      <3>1. joinSet' = joinSet \cup Ready /\ pending' = pending \ Ready /\ cancel' = cancel
        BY <2>1 DEF SpawnReady
      <3>2. SomethingRuns'
        BY <3>1, <2>1, SpawnFindsOne DEF SomethingRuns, SpawnReady
      <3> QED
        BY <2>1, <3>2, QuietKeepsOrder DEF SpawnReady
    <2>2. CASE JoinNext
      BY <2>2, QuietKeepsOrder DEF JoinNext, SomethingRuns
    <2>3. CASE RecvDispatch
      BY <2>3, RecvDispatchKeepsOrder
    <2>4. CASE RecvSeal
      BY <2>4, RecvSealKeepsOrder
    <2>5. CASE Drain
      BY <2>5, QuietKeepsOrder DEF Drain, SomethingRuns
    <2>6. CASE JoinPending \/ RecvPending \/ Park \/ Wake
      <3>1. SomethingRuns'
        BY <2>6 DEF JoinPending, RecvPending, Park, Wake, SomethingRuns, OInv, locals
      <3> QED
        BY <2>6, <3>1, QuietKeepsOrder DEF JoinPending, RecvPending, Park, Wake, locals
    <2>7. CASE Finalize
      BY <2>7, QuietKeepsOrder DEF Finalize, SomethingRuns, locals
    <2>8. ASSUME NEW t \in Task, TaskStep(t) PROVE OInv'
      BY <2>8, QuietKeepsOrder
         DEF TaskStep, TaskStart, TaskEnd, TaskPanic, SomethingRuns, OInv, locals
    <2>9. ASSUME NEW c \in Client, BeginDispatch(c) \/ DispatchRefused(c) PROVE OInv'
      BY <2>9, QuietKeepsOrder DEF BeginDispatch, DispatchRefused, SomethingRuns, OInv, locals
    <2>10. ASSUME NEW c \in Client, DispatchTask(c) \/ DispatchWave(c) PROVE OInv'
      BY <2>10, DispatchKeepsOrder
    <2>11. CASE SealDispatch
      BY <2>11, SendSealKeepsOrder DEF SealDispatch, locals
    <2>12. CASE CancelRun
      BY <2>12, QuietKeepsOrder DEF CancelRun, SomethingRuns, OInv, locals
    <2>13. CASE CancelSeal
      <3>1. CASE CanSend
        BY <2>13, <3>1, SendSealKeepsOrder DEF CancelSeal, locals
      <3>2. CASE ~CanSend
        BY <2>13, <3>2, QuietKeepsOrder DEF CancelSeal, SomethingRuns, OInv, locals
      <3> QED
        BY <3>1, <3>2
    <2>14. CASE UNCHANGED vars
      BY <2>14, QuietKeepsOrder DEF vars, SomethingRuns, OInv, locals
    <2> QED
      BY <2>1, <2>2, <2>3, <2>4, <2>5, <2>6, <2>7, <2>8, <2>9, <2>10, <2>11, <2>12, <2>13, <2>14
         DEF Next, Loop, ClientStep
  <1> QED
    BY <1>1, <1>2, TypeCorrect, Invariance, PTL DEF Spec

\* A request reaches the coordinator only after the ones it depends on.
THEOREM RequestsInOrder == Spec => []DepsAcceptedFirst
  <1>1. OInv => DepsAcceptedFirst
    BY DEF OInv, WaitsKnown, DepsAcceptedFirst
  <1> QED
    BY <1>1, OrderInvariance, PTL

\* The loop never sleeps on pending tasks with nothing in the JoinSet to wake it.
THEOREM NoLostWakeup == Spec => []NeverStuck
  <1>1. OInv => NeverStuck
    BY DEF OInv, SomethingRuns, NeverStuck
  <1> QED
    BY <1>1, OrderInvariance, PTL

----------------------------------------------------------------------------
(* The coordinator implements the task graph: each step starts, accepts, ends, gives up or  *)
(* closes what it should, or changes nothing a client was promised.                         *)

\* The state of the task graph that a state of the coordinator stands for.
absStatus  == [t \in Task |-> Status(t)]
absAfter   == [t \in Task |-> IF t \in accepted THEN deps[t] \cup before[t] ELSE {}]
absVerdict == IF runStatus = "running" THEN "open" ELSE IF runStatus = "done" THEN "ok" ELSE "failed"

\* A task is known to the graph when the coordinator has accepted it.
LEMMA KnownIsAccepted ==
    ASSUME TypeOK
    PROVE  TG!Known = accepted
  BY DEF TG!Known, Status, TypeOK, Outcome

\* Status by status: waiting is pending, working is in the JoinSet, and done is done.
LEMMA StatusMeaning ==
    ASSUME TypeOK, IInv, NEW t \in Task
    PROVE  /\ Status(t) = "waiting" <=> t \in pending
           /\ worker[t] \in {"spawned", "started"} <=> Status(t) = "working"
           /\ worker[t] = "done" <=> Status(t) = "done"
           /\ t \in accepted \ (pending \cup joinSet) => Status(t) \in TG!Ended
  BY DEF Status, TypeOK, IInv, Ledger, Spawned, Outcome, TG!Ended

\* Steps in which nothing the graph sees changes.
LEMMA QuietImplements ==
    ASSUME UNCHANGED <<accepted, pending, worker, before, runStatus>>,
           \A t \in accepted : t \in Task => deps'[t] = deps[t]
    PROVE  UNCHANGED TG!vars
  BY DEF TG!vars, Status

LEMMA InitImplements ==
    ASSUME Init, TypeOK, OInv
    PROVE  TG!Init
  <1>1. TG!Known = accepted
    BY KnownIsAccepted
  <1>2. absStatus \in [Task -> {"unknown", "waiting"}]
    BY DEF absStatus, Status, Init
  <1>3. absAfter \in [Task -> SUBSET accepted]
    BY DEF absAfter, OInv, WaitsKnown
  <1>4. absVerdict = "open"
    BY DEF absVerdict, Init
  <1> QED
    BY <1>1, <1>2, <1>3, <1>4 DEF TG!Init, TG!Waiting, absStatus, absAfter, absVerdict

\* Spawning starts the ready tasks, and ready means that all they come after is done.
LEMMA SpawnImplements ==
    ASSUME TypeOK, IInv, OInv, SpawnReady
    PROVE  [TG!Next]_(TG!vars)
  <1>1. /\ worker' = [t \in Task |-> IF t \in Ready THEN "spawned" ELSE worker[t]]
        /\ pending' = pending \ Ready
        /\ UNCHANGED <<accepted, deps, before, runStatus, completed>>
        /\ pc = "spawn"
    BY DEF SpawnReady, disk
  <1>2. runStatus = "running"
    BY <1>1 DEF IInv, Verdict
  <1>3. Ready \subseteq pending /\ pending \subseteq Task /\ pending \subseteq accepted
    BY DEF Ready, TypeOK, IInv, Ledger
  <1>4. CASE Ready = {}
    <2>1. worker' = worker /\ pending' = pending
      BY <1>1, <1>4 DEF TypeOK
    <2> QED
      BY <1>1, <2>1, QuietImplements
  <1>5. CASE Ready # {}
    <2>1. ASSUME NEW t \in Ready
          PROVE  Status(t) = "waiting" /\ \A u \in deps[t] \cup before[t] : u \in Task /\ Status(u) = "done"
      <3>1. Status(t) = "waiting"
        BY <1>3, StatusMeaning
      <3>2. ASSUME NEW u \in deps[t] \cup before[t] PROVE u \in Task /\ worker[u] = "done"
        <4>1. ~cancel /\ IsUnblocked(t)
          BY DEF Ready
        <4>2. u \in completed
          BY <1>3, <4>1 DEF IInv, BarrierCovers, IsUnblocked
        <4> QED
          BY <4>1, <4>2 DEF IInv, FailFast, TypeOK
      <3> QED
        BY <3>1, <3>2, StatusMeaning
    <2>2. \A t \in Task : Status(t)' = IF t \in Ready THEN "working" ELSE Status(t)
      BY <1>1, <1>3 DEF Status
    <2>3. TG!Start(Ready)
      BY <1>1, <1>3, <1>5, <2>1, <2>2 DEF TG!Start, TG!Waiting, TG!Working
    <2> QED
      BY <1>1, <1>2, <1>3, <2>3 DEF TG!Next, TG!Schedule
  <1> QED
    BY <1>4, <1>5

\* Receiving a request makes its new tasks known, waiting for known tasks.
LEMMA RecvImplements ==
    ASSUME TypeOK, IInv, OInv', RecvDispatch
    PROVE  [TG!Next]_(TG!vars)
  <1> DEFINE m == Head(queue)
             new == m.names \ accepted
  <1>1. /\ queue \in Seq(Request) /\ queue # <<>>
        /\ m \in Request /\ m.names \subseteq Task
    BY QueueReceive DEF RecvDispatch, TypeOK, Request, Seal
  <1>2. /\ accepted' = accepted \cup new /\ pending' = pending \cup new
        /\ \A t \in Task \ new : before'[t] = before[t]
        /\ UNCHANGED <<deps, worker, runStatus>> /\ pc = "recv"
    BY <1>1 DEF RecvDispatch, AcceptRequest, TypeOK, server
  <1>3. runStatus = "running"
    BY <1>2 DEF IInv, Verdict
  <1> HIDE DEF m
  <1>4. CASE new = {}
    <2>1. absStatus' = absStatus /\ absAfter' = absAfter /\ absVerdict' = absVerdict
      BY <1>2, <1>4 DEF absStatus, absAfter, absVerdict, Status
    <2> QED
      BY <2>1 DEF TG!vars, absStatus, absAfter, absVerdict
  <1>5. CASE new # {}
    <2>1. PICK S \in SUBSET Task : S = new
      BY <1>1
    <2>2. S # {} /\ S \cap TG!Known = {}
      BY <1>5, <2>1, KnownIsAccepted
    <2>3. \A t \in Task : Status(t)' = IF t \in S THEN "waiting" ELSE Status(t)
      BY <1>2, <2>1 DEF Status
    <2>4. \A t \in Task : IF t \in S THEN absAfter'[t] \subseteq accepted \cup S
                                     ELSE absAfter'[t] = absAfter[t]
      BY <1>2, <2>1 DEF absAfter, OInv, WaitsKnown
    <2>5. absAfter' \in [Task -> SUBSET Task]
      BY <1>1, <1>2 DEF absAfter, OInv, WaitsKnown, TypeOK
    <2>6. TG!Accept(S)
      BY <2>2, <2>3, <2>4, <2>5, KnownIsAccepted DEF TG!Accept, TG!Waiting, absAfter
    <2> QED
      BY <1>2, <1>3, <2>6 DEF TG!Next, TG!Schedule
  <1> QED
    BY <1>4, <1>5

\* The cancel arm gives up what is pending.
LEMMA DrainImplements ==
    ASSUME TypeOK, IInv, Drain
    PROVE  [TG!Next]_(TG!vars)
  <1>1. /\ pending' = {} /\ UNCHANGED <<accepted, deps, before, worker, runStatus>>
        /\ pc = "cancel" /\ runStatus = "running" /\ pending \subseteq Task
    BY DEF Drain, IInv, Verdict, TypeOK
  <1>2. CASE pending = {}
    BY <1>1, <1>2, QuietImplements
  <1>3. CASE pending # {}
    <2>1. \A t \in Task : Status(t)' = IF t \in pending THEN "cancelled" ELSE Status(t)
      BY <1>1 DEF Status, IInv, Ledger, Spawned
    <2>2. TG!GiveUp(pending)
      BY <1>1, <1>3, <2>1, StatusMeaning DEF TG!GiveUp, TG!Waiting
    <2> QED
      BY <1>1, <2>2 DEF TG!Next, TG!Schedule
  <1> QED
    BY <1>2, <1>3

\* A task works from its spawn to its end; a panic is an end, and the graph calls it failed.
LEMMA TaskStepImplements ==
    ASSUME TypeOK, IInv, NEW t \in Task, TaskStep(t)
    PROVE  [TG!Next]_(TG!vars)
  <1>1. /\ UNCHANGED <<accepted, pending, deps, before, runStatus>>
        /\ worker[t] \in {"spawned", "started"}
        /\ \A u \in Task \ {t} : worker'[u] = worker[u]
    BY DEF TaskStep, TaskStart, TaskEnd, TaskPanic, locals, disk, TypeOK
  <1>2. t \in joinSet /\ t \in accepted /\ t \notin pending /\ runStatus = "running"
    BY <1>1 DEF IInv, Ledger, Verdict, Spawned, TypeOK, Outcome
  <1>3. CASE TaskStart(t)
    <2>1. worker'[t] = "started"
      BY <1>3 DEF TaskStart, TypeOK
    <2>2. \A u \in Task : Status(u)' = Status(u)
      BY <1>1, <2>1 DEF Status
    <2> QED
      BY <1>1, <2>2 DEF TG!vars
  <1>4. CASE TaskEnd(t) \/ TaskPanic(t)
    <2>1. worker'[t] \in Outcome
      BY <1>4 DEF TaskEnd, TaskPanic, TypeOK, Outcome, Terminal
    <2>2. Status(t) = "working" /\ Status(t)' \in TG!Ended
      BY <1>1, <1>2, <2>1 DEF Status, Outcome, TG!Ended
    <2>3. \A u \in Task \ {t} : Status(u)' = Status(u)
      BY <1>1 DEF Status
    <2>4. absStatus' = [absStatus EXCEPT ![t] = Status(t)']
      BY <2>3 DEF absStatus
    <2>5. TG!End(t)
      BY <1>1, <2>2, <2>4 DEF TG!End, TG!Working, absStatus
    <2> QED
      BY <1>1, <1>2, <2>5 DEF TG!Next, TG!Schedule
  <1> QED
    BY <1>3, <1>4 DEF TaskStep

\* The verdict comes when everything known has ended, and is ok only if all is done.
LEMMA FinalizeImplements ==
    ASSUME TypeOK, IInv, Finalize
    PROVE  [TG!Next]_(TG!vars)
  <1>1. /\ UNCHANGED <<accepted, pending, deps, before, worker>>
        /\ runStatus = "running" /\ runStatus' = IF allOk THEN "done" ELSE "failed"
        /\ pending = {} /\ joinSet = {} /\ accepted \subseteq Task
    BY DEF Finalize, locals, IInv, Verdict, TypeOK
  <1>2. \A t \in accepted : Status(t) \in TG!Ended
    BY <1>1, StatusMeaning
  <1>3. allOk => \A t \in accepted : Status(t) = "done"
    BY <1>1, StatusMeaning DEF IInv, Accounted
  <1>4. UNCHANGED <<absStatus, absAfter>>
    BY <1>1 DEF absStatus, absAfter, Status
  <1>5. TG!Close
    BY <1>1, <1>2, <1>3, <1>4, KnownIsAccepted DEF TG!Close, absStatus, absAfter
  <1> QED
    BY <1>1, <1>5 DEF TG!Next

\* Whatever the coordinator, its tasks and its clients do is allowed by the task graph.
THEOREM Refinement == Spec => ImplementsTaskGraph
  <1>1. Init /\ TypeOK /\ OInv => TG!Init
    BY InitImplements
  <1>2. TypeOK /\ IInv /\ OInv /\ OInv' /\ [Next]_vars => [TG!Next]_(TG!vars)
    <2> SUFFICES ASSUME TypeOK, IInv, OInv, OInv', [Next]_vars PROVE [TG!Next]_(TG!vars)
      OBVIOUS
    <2>1. CASE SpawnReady
      BY <2>1, SpawnImplements
    <2>2. CASE RecvDispatch
      BY <2>2, RecvImplements
    <2>3. CASE Drain
      BY <2>3, DrainImplements
    <2>4. CASE Finalize
      BY <2>4, FinalizeImplements
    <2>5. CASE JoinNext \/ JoinPending \/ RecvSeal \/ RecvPending \/ Park \/ Wake
      BY <2>5, QuietImplements
         DEF JoinNext, JoinPending, RecvSeal, RecvPending, Park, Wake, locals, disk
    <2>6. ASSUME NEW t \in Task, TaskStep(t) PROVE [TG!Next]_(TG!vars)
      BY <2>6, TaskStepImplements
    <2>7. ASSUME NEW c \in Client, DispatchTask(c) \/ DispatchWave(c) PROVE [TG!Next]_(TG!vars)
      <3>1. UNCHANGED <<accepted, pending, worker, before, runStatus>>
        BY <2>7 DEF DispatchTask, DispatchWave, SendDispatch, locals, disk
      <3>2. \A t \in accepted : t \in Task => deps'[t] = deps[t]
        BY <2>7 DEF DispatchTask, DispatchWave, SendDispatch, IInv, AcceptedSetsAgree, TypeOK
      <3> QED
        BY <3>1, <3>2, QuietImplements
    <2>8. CASE \/ \E c \in Client : BeginDispatch(c) \/ DispatchRefused(c)
               \/ SealDispatch \/ CancelRun \/ CancelSeal \/ UNCHANGED vars
      BY <2>8, QuietImplements
         DEF BeginDispatch, DispatchRefused, SealDispatch, CancelRun, CancelSeal, vars, locals, disk
    <2> QED
      BY <2>1, <2>2, <2>3, <2>4, <2>5, <2>6, <2>7, <2>8 DEF Next, Loop, ClientStep
  <1> QED
    BY <1>1, <1>2, TypeCorrect, Invariance, OrderInvariance, PTL
       DEF Spec, ImplementsTaskGraph, TG!Spec
=============================================================================
