--------------------------- MODULE WavePlanProofs ---------------------------
(***************************************************************************)
(* into_waves plans exactly the well-formed lists, and its plan is right,  *)
(* for lists of any length over any names.                                 *)
(***************************************************************************)
EXTENDS WavePlan, TLAPS

\* The names of a larger set of positions, and of one more wave.
LEMMA NamesFacts ==
    ASSUME NEW S, NEW T
    PROVE  /\ NamesOf(S \cup T) = NamesOf(S) \cup NamesOf(T)
           /\ S \subseteq T => NamesOf(S) \subseteq NamesOf(T)
BY DEF NamesOf

\* The list is the caller's and is never written.
LEMMA SameList ==
    ASSUME [Next]_vars
    PROVE  /\ tasks' = tasks
           /\ Names' = Names /\ Duplicate' = Duplicate /\ NotAStem' = NotAStem
           /\ UnknownDep' = UnknownDep
<1>1. tasks' = tasks
  BY DEF Next, Validate, PlaceWave, Finish, vars
<1>. QED
  BY <1>1 DEF Names, Duplicate, NotAStem, UnknownDep

\* With the list and the waves, what is said of them stays.
LEMMA SameNames ==
    ASSUME tasks' = tasks
    PROVE  \A S : NamesOf(S)' = NamesOf(S) /\ Tangled(S)' = Tangled(S)
BY DEF NamesOf, Tangled

LEMMA SameWaves ==
    ASSUME UNCHANGED <<tasks, remaining, placed, waves>>, IInv
    PROVE  /\ First(Len(waves))' = DOMAIN tasks' \ remaining'
           /\ placed' = NamesOf(DOMAIN tasks \ remaining)'
           /\ (KnotsRemain /\ Blocked /\ WavesRespectDeps /\ WavesAreEarliest)'
<1>1. \A S : NamesOf(S)' = NamesOf(S) /\ Tangled(S)' = Tangled(S)
  BY SameNames
<1>2. \A k : First(k)' = First(k)
  BY DEF First
<1>3. First(Len(waves))' = DOMAIN tasks' \ remaining'
  BY DEF IInv, Bookkeeping, First
<1>4. placed' = NamesOf(DOMAIN tasks \ remaining)'
  BY DEF IInv, Bookkeeping, NamesOf
<1>5. KnotsRemain'
  BY <1>1 DEF IInv, KnotsRemain
<1>6. Blocked'
  BY <1>1, <1>2 DEF IInv, Blocked, NamesOf, First
<1>7. WavesRespectDeps'
  BY <1>1, <1>2 DEF IInv, WavesRespectDeps, NamesOf, First
<1>8. WavesAreEarliest'
  BY <1>1, <1>2 DEF IInv, WavesAreEarliest, NamesOf
<1>. QED
  BY <1>3, <1>4, <1>5, <1>6, <1>7, <1>8

\* A wave more, and what the first waves hold then.
LEMMA OneMoreWave ==
    ASSUME TypeOK, PlaceWave, NEW n, n = Len(waves)
    PROVE  /\ waves' \in Seq(SUBSET DOMAIN tasks) /\ n \in Nat /\ Len(waves') = n + 1
           /\ DOMAIN waves = 1 .. n /\ DOMAIN waves' = 1 .. (n + 1)
           /\ \A k \in 1 .. n : waves'[k] = waves[k]
           /\ waves'[n + 1] = Ready
           /\ \A k \in 0 .. n : First(k)' = First(k)
           /\ First(n + 1)' = First(n) \cup Ready
<1>1. Ready \in SUBSET DOMAIN tasks
  BY DEF Ready, TypeOK
<1>2. waves \in Seq(SUBSET DOMAIN tasks) /\ waves' = Append(waves, Ready)
  BY DEF TypeOK, PlaceWave
<1>3. /\ waves' \in Seq(SUBSET DOMAIN tasks) /\ n \in Nat /\ Len(waves') = n + 1
      /\ DOMAIN waves = 1 .. n /\ DOMAIN waves' = 1 .. (n + 1)
      /\ \A k \in 1 .. n : waves'[k] = waves[k]
      /\ waves'[n + 1] = Ready
  BY <1>1, <1>2
<1>4. ASSUME NEW k \in 0 .. n PROVE First(k)' = First(k)
  BY <1>3, \A l \in 1 .. k : l \in 1 .. n DEF First
<1>5. First(n + 1)' = First(n) \cup Ready
  <2>1. 1 .. (n + 1) = (1 .. n) \cup {n + 1}
    BY <1>3
  <2>2. \A x : x \in First(n + 1)' <=> \E l \in 1 .. (n + 1) : x \in waves'[l]
    BY DEF First
  <2>3. \A x : x \in First(n) <=> \E l \in 1 .. n : x \in waves[l]
    BY DEF First
  <2>4. \A x : x \in First(n + 1)' <=> x \in First(n) \/ x \in Ready
    BY <1>3, <2>1, <2>2, <2>3
  <2>. QED
    BY <2>4
<1>. QED
  BY <1>3, <1>4, <1>5

----------------------------------------------------------------------------

LEMMA InitHolds == Init => IInv
<1>. SUFFICES ASSUME Init PROVE IInv
  OBVIOUS
<1>1. tasks \in Seq(TaskDef) /\ remaining = DOMAIN tasks /\ placed = {} /\ result = "validate"
  BY WavePlanAssumption DEF Init
<1>2. waves \in Seq(SUBSET DOMAIN tasks) /\ Len(waves) = 0 /\ DOMAIN waves = {} /\ waves = <<>>
  BY DEF Init
<1>3. First(Len(waves)) = {} /\ DOMAIN tasks \ remaining = {}
  <2>1. 1 .. Len(waves) = {}
    BY <1>2
  <2>. QED
    BY <1>1, <2>1 DEF First
<1>4. Bookkeeping
  BY <1>1, <1>2, <1>3 DEF Bookkeeping, NamesOf
<1>5. KnotsRemain
  BY <1>1 DEF KnotsRemain
<1>. QED
  BY <1>1, <1>2, <1>4, <1>5
     DEF IInv, TypeOK, Validated, Blocked, Reasons, Refusals, WavesRespectDeps, WavesAreEarliest

\* The three checks, in their order, each with its refusal.
LEMMA ValidateHolds ==
    ASSUME IInv, Validate
    PROVE  IInv'
<1>1. /\ result = "validate" /\ UNCHANGED <<tasks, remaining, placed, waves>>
      /\ result' \in {"plan", "duplicate", "not a file stem", "unknown dependency"}
      /\ result' = "plan" => ~Duplicate /\ ~NotAStem /\ ~UnknownDep
      /\ result' = "duplicate" => Duplicate
      /\ result' = "not a file stem" => NotAStem
      /\ result' = "unknown dependency" => UnknownDep
  BY DEF Validate
<1>2. Duplicate' = Duplicate /\ NotAStem' = NotAStem /\ UnknownDep' = UnknownDep
  BY SameList DEF Next
<1>3. TypeOK' /\ Bookkeeping'
  BY <1>1, SameWaves DEF IInv, TypeOK, Refusals, Bookkeeping
<1>4. Validated' /\ Reasons'
  BY <1>1, <1>2 DEF Validated, Reasons
<1>. QED
  BY <1>1, <1>3, <1>4, SameWaves DEF IInv

\* The end of the loop; nothing is ready then.
LEMMA FinishHolds ==
    ASSUME IInv, Finish
    PROVE  IInv'
<1>1. /\ result = "plan" /\ Ready = {} /\ UNCHANGED <<tasks, remaining, placed, waves>>
      /\ \/ result' = "ok" /\ remaining = {}
         \/ result' = "circular" /\ remaining # {}
  BY DEF Finish
<1>2. Duplicate' = Duplicate /\ NotAStem' = NotAStem /\ UnknownDep' = UnknownDep
  BY SameList DEF Next
<1>3. TypeOK' /\ Bookkeeping'
  BY <1>1, SameWaves DEF IInv, TypeOK, Refusals, Bookkeeping
<1>4. Validated' /\ Reasons'
  BY <1>1, <1>2 DEF IInv, Validated, Reasons, Ready
<1>. QED
  BY <1>1, <1>3, <1>4, SameWaves DEF IInv

\* A tangled set has no ready task: each depends on a name of the set, and, names being used
\* once, that name has not been placed.
LEMMA KnotIsNotReady ==
    ASSUME IInv, result = "plan", NEW S \in SUBSET DOMAIN tasks, Tangled(S)
    PROVE  S \cap Ready = {}
<1>. SUFFICES ASSUME NEW i \in S, i \in Ready PROVE FALSE
  OBVIOUS
<1>1. S \subseteq remaining /\ ~Duplicate
  BY DEF IInv, KnotsRemain, Validated
<1>2. PICK d \in tasks[i].deps : d \in NamesOf(S)
  BY DEF Tangled
<1>3. PICK j \in S : d = tasks[j].name
  BY <1>2 DEF NamesOf
<1>4. PICK k \in DOMAIN tasks \ remaining : d = tasks[k].name
  BY <1>2 DEF Ready, IInv, Bookkeeping, NamesOf
<1>. QED
  BY <1>1, <1>3, <1>4 DEF Duplicate

\* One iteration of the loop.
LEMMA PlaceHolds ==
    ASSUME IInv, PlaceWave
    PROVE  IInv'
<1>. PICK n : n = Len(waves)
  OBVIOUS
<1>1. /\ result = "plan" /\ Ready # {} /\ UNCHANGED <<tasks, result>>
      /\ remaining' = remaining \ Ready
      /\ placed' = placed \cup NamesOf(Ready)
      /\ Ready \subseteq remaining /\ remaining \subseteq DOMAIN tasks
  BY DEF PlaceWave, NamesOf, Ready, IInv, TypeOK
<1>2. /\ waves' \in Seq(SUBSET DOMAIN tasks) /\ n \in Nat /\ Len(waves') = n + 1
      /\ DOMAIN waves = 1 .. n /\ DOMAIN waves' = 1 .. (n + 1)
      /\ \A k \in 1 .. n : waves'[k] = waves[k]
      /\ waves'[n + 1] = Ready
      /\ \A k \in 0 .. n : First(k)' = First(k)
      /\ First(n + 1)' = First(n) \cup Ready
  BY OneMoreWave DEF IInv, TypeOK
<1>3. First(n) = DOMAIN tasks \ remaining /\ placed = NamesOf(First(n))
  BY DEF IInv, Bookkeeping
<1>4. \A S : NamesOf(S)' = NamesOf(S) /\ Tangled(S)' = Tangled(S)
  BY <1>1, SameNames
<1>5. DOMAIN tasks' \ remaining' = First(n) \cup Ready
  BY <1>1, <1>3
<1>6. TypeOK'
  <2>1. ASSUME NEW i \in DOMAIN tasks PROVE tasks[i].name \in Name
    <3>1. tasks[i] \in TaskDef
      BY DEF IInv, TypeOK
    <3>. QED
      BY <3>1 DEF TaskDef
  <2>2. NamesOf(Ready) \subseteq Name
    BY <1>1, <2>1 DEF NamesOf
  <2>. QED
    BY <1>1, <1>2, <2>2 DEF IInv, TypeOK
<1>7. Bookkeeping'
  <2>1. placed' = NamesOf(DOMAIN tasks \ remaining)'
    BY <1>1, <1>3, <1>4, <1>5, NamesFacts
  <2>2. First(Len(waves))' = DOMAIN tasks' \ remaining'
    BY <1>2, <1>3, <1>5 DEF First
  <2>. QED
    BY <1>1, <1>2, <1>5, <2>1, <2>2 DEF Bookkeeping
<1>8. Validated' /\ Reasons'
  <2>1. Duplicate' = Duplicate /\ NotAStem' = NotAStem /\ UnknownDep' = UnknownDep
    BY SameList DEF Next
  <2>. QED
    BY <1>1, <2>1 DEF IInv, Validated, Reasons
<1>9. KnotsRemain'
  BY <1>1, <1>4, KnotIsNotReady DEF IInv, KnotsRemain
<1>10. Blocked'
  <2>1. \A i \in remaining' : ~ tasks'[i].deps \subseteq NamesOf(First(n))
    BY <1>1, <1>3 DEF Ready
  <2>2. NamesOf(First(Len(waves) - 1))' = NamesOf(First(n))
    BY <1>1, <1>2 DEF NamesOf, First
  <2>. QED
    BY <2>1, <2>2 DEF Blocked
<1>11. WavesRespectDeps'
  <2>1. ASSUME NEW k \in 1 .. n
        PROVE  waves[k] # {} /\ waves[k] \cap Ready = {}
    <3>1. waves[k] \subseteq First(n)
      BY DEF First
    <3>. QED
      BY <1>1, <1>2, <1>3, <3>1 DEF IInv, WavesRespectDeps
  <2>2. ASSUME NEW k \in 1 .. n, NEW i \in waves[k]
        PROVE  tasks[i].deps \subseteq NamesOf(First(k - 1))
    BY <1>2 DEF IInv, WavesRespectDeps
  <2>3. ASSUME NEW i \in Ready PROVE tasks[i].deps \subseteq NamesOf(First(n))
    BY <1>3 DEF Ready
  <2>4. ASSUME NEW k \in 1 .. (n + 1), NEW l \in 1 .. (n + 1), k # l
        PROVE  waves'[k] \cap waves'[l] = {}
    <3>1. CASE k = n + 1
      BY <1>2, <2>1, <2>4, <3>1, l \in 1 .. n
    <3>2. CASE l = n + 1
      BY <1>2, <2>1, <2>4, <3>2, k \in 1 .. n
    <3>3. CASE k # n + 1 /\ l # n + 1
      BY <1>2, <2>4, <3>3, k \in 1 .. n, l \in 1 .. n DEF IInv, WavesRespectDeps
    <3>. QED
      BY <3>1, <3>2, <3>3
  <2>5. ASSUME NEW k \in 1 .. (n + 1)
        PROVE  /\ waves'[k] # {}
               /\ \A i \in waves'[k] : tasks'[i].deps \subseteq NamesOf(First(k - 1))'
    <3>1. CASE k = n + 1
      BY <1>1, <1>2, <1>4, <2>3, <3>1
    <3>2. CASE k \in 1 .. n
      BY <1>1, <1>2, <1>4, <2>1, <2>2, <3>2
    <3>. QED
      BY <1>2, <3>1, <3>2
  <2>. QED
    BY <1>2, <2>4, <2>5 DEF WavesRespectDeps
<1>12. WavesAreEarliest'
  <2>1. ASSUME n > 0, NEW i \in Ready PROVE tasks[i].deps \cap NamesOf(waves[n]) # {}
    <3>1. First(n) = First(n - 1) \cup waves[n]
      <4>1. 1 .. n = (1 .. (n - 1)) \cup {n}
        BY <1>2, <2>1
      <4>. QED
        BY <4>1 DEF First
    <3>2. ~ tasks[i].deps \subseteq NamesOf(First(n - 1))
      BY <1>1, <1>2, <2>1 DEF IInv, Blocked
    <3>3. tasks[i].deps \subseteq NamesOf(First(n - 1)) \cup NamesOf(waves[n])
      BY <1>3, <3>1, NamesFacts DEF Ready
    <3>. QED
      BY <3>2, <3>3
  <2>2. ASSUME NEW k \in 1 .. (n + 1), k > 1, NEW i \in waves'[k]
        PROVE  tasks'[i].deps \cap NamesOf(waves[k - 1])' # {}
    <3>1. CASE k = n + 1
      BY <1>1, <1>2, <1>4, <2>1, <2>2, <3>1
    <3>2. CASE k \in 1 .. n
      BY <1>1, <1>2, <1>4, <2>2, <3>2, k - 1 \in 1 .. n DEF IInv, WavesAreEarliest
    <3>. QED
      BY <1>2, <3>1, <3>2
  <2>. QED
    BY <1>2, <2>2 DEF WavesAreEarliest
<1>. QED
  BY <1>6, <1>7, <1>8, <1>9, <1>10, <1>11, <1>12 DEF IInv

----------------------------------------------------------------------------

\* The invariant of the loop: its books are kept, and no knot is ever placed.
THEOREM Invariance == Spec => []IInv
<1>1. IInv /\ [Next]_vars => IInv'
  <2>. SUFFICES ASSUME IInv, [Next]_vars PROVE IInv'
    OBVIOUS
  <2>1. CASE UNCHANGED vars
    <3>1. UNCHANGED <<tasks, remaining, placed, waves, result>>
      BY <2>1 DEF vars
    <3>2. Duplicate' = Duplicate /\ NotAStem' = NotAStem /\ UnknownDep' = UnknownDep
      BY SameList
    <3>3. TypeOK' /\ Bookkeeping'
      BY <3>1, SameWaves DEF IInv, TypeOK, Refusals, Bookkeeping
    <3>4. Validated' /\ Reasons'
      BY <3>1, <3>2 DEF IInv, Validated, Reasons, Ready
    <3>. QED
      BY <3>1, <3>3, <3>4, SameWaves DEF IInv
  <2>. QED
    BY <2>1, ValidateHolds, PlaceHolds, FinishHolds DEF Next
<1>. QED
  BY <1>1, InitHolds, PTL DEF Spec

\* The types of the list, the plan and the verdict.
THEOREM TypeCorrect == Spec => []TypeOK
<1>1. IInv => TypeOK
  BY DEF IInv
<1>. QED
  BY <1>1, Invariance, PTL

\* At every moment, what has been built is a plan: disjoint nonempty waves, dependencies first.
THEOREM DepsFirst == Spec => []WavesRespectDeps
<1>1. IInv => WavesRespectDeps
  BY DEF IInv
<1>. QED
  BY <1>1, Invariance, PTL

\* No task is put in a later wave than its dependencies force it to.
THEOREM Earliest == Spec => []WavesAreEarliest
<1>1. IInv => WavesAreEarliest
  BY DEF IInv
<1>. QED
  BY <1>1, Invariance, PTL

\* A plan that is accepted holds the whole list.
THEOREM AllPlanned == Spec => []NothingDropped
<1>1. IInv => NothingDropped
  BY DEF IInv, Bookkeeping, Reasons, NothingDropped
<1>. QED
  BY <1>1, Invariance, PTL

\* into_waves is sound and complete: it plans a list only if it is well formed, cycles included,
\* and refuses it only if it is not.
THEOREM SoundAndComplete == Spec => []PlannedIffWellFormed
<1>1. ASSUME IInv PROVE PlannedIffWellFormed
  <2>1. ASSUME result = "ok" PROVE WellFormed
    <3>1. ASSUME NEW S \in SUBSET DOMAIN tasks, Tangled(S) PROVE FALSE
      BY <1>1, <2>1, <3>1 DEF IInv, KnotsRemain, Reasons, Tangled
    <3>. QED
      BY <1>1, <2>1, <3>1 DEF IInv, Validated, WellFormed
  <2>2. ASSUME result = "circular" PROVE ~WellFormed
    <3>1. /\ remaining \in SUBSET DOMAIN tasks /\ remaining # {} /\ Ready = {} /\ ~UnknownDep
          /\ placed = NamesOf(DOMAIN tasks \ remaining)
      BY <1>1, <2>2 DEF IInv, TypeOK, Reasons, Validated, Bookkeeping
    <3>2. ASSUME NEW i \in remaining PROVE tasks[i].deps \cap NamesOf(remaining) # {}
      <4>1. PICK d \in tasks[i].deps : d \notin placed
        BY <3>1 DEF Ready
      <4>2. PICK j \in DOMAIN tasks : d = tasks[j].name
        BY <3>1, <4>1 DEF UnknownDep, Names
      <4>. QED
        BY <3>1, <4>1, <4>2 DEF NamesOf
    <3>3. Tangled(remaining)
      BY <3>1, <3>2 DEF Tangled
    <3>. QED
      BY <3>1, <3>3 DEF WellFormed
  <2>3. result \in Refusals \ {"circular"} => ~WellFormed
    BY <1>1 DEF IInv, Reasons, Refusals, WellFormed
  <2>. QED
    BY <2>1, <2>2, <2>3 DEF PlannedIffWellFormed
<1>. QED
  BY <1>1, Invariance, PTL
=============================================================================
