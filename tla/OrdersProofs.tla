---------------------------- MODULE OrdersProofs ----------------------------
(***************************************************************************)
(* Types, complete runs and settled orders, for any number of orders,      *)
(* workers, workflows and steps.                                           *)
(***************************************************************************)
EXTENDS Orders, TLAPS

USE OrdersConstants DEF OrdersConstants

-----------------------------------------------------------------------------
(* Types *)

\* What a worker knows while it synchronises the order o.
SyncOf(o) == [at : Stages, order : {o}, seen : Snapshot(o), last : BOOLEAN,
              first : BOOLEAN, runs : SUBSET Runs, run : Runs \cup {None}]

\* A worker rests or synchronises one of the orders.
LEMMA SyncCases ==
    ASSUME NEW s
    PROVE  s \in Syncs <=> s = Resting \/ \E o \in Orders : s \in SyncOf(o)
BY DEF Syncs, SyncOf

\* At a stage of upsertOrder, it does the latter.
LEMMA Busy ==
    ASSUME TypeOK, NEW w \in Workers, sync[w].at # "rest"
    PROVE  \E o \in Orders : sync[w] \in SyncOf(o) /\ Order(w) = o /\ Seen(w) \in Snapshot(o)
BY SyncCases DEF TypeOK, Resting, SyncOf, Order, Seen

\* Replacing one worker's record keeps the type of sync.
LEMMA SyncUpdate ==
    ASSUME TypeOK, NEW w \in Workers, NEW s \in Syncs, sync' = [sync EXCEPT ![w] = s]
    PROVE  sync' \in [Workers -> Syncs]
BY DEF TypeOK

\* The bulk updates keep the columns of runs and jobs.
LEMMA MoveTypes ==
    ASSUME TypeOK, NEW R, NEW from, NEW to \in RunStates, NEW fromJob, NEW toJob \in JobStates,
           MoveRuns(R, from, to, fromJob, toJob)
    PROVE  jobState' \in [Steps -> JobStates] /\ runState' \in [Runs -> RunStates]
BY DEF MoveRuns, TypeOK

\* In particular those of the operator and of the cancellations.
LEMMA ControlTypes ==
    ASSUME TypeOK, NEW R, PauseRuns(R) \/ ResumeRuns(R) \/ CancelRuns(R)
    PROVE  jobState' \in [Steps -> JobStates] /\ runState' \in [Runs -> RunStates]
<1>1. {"paused", "scheduled", "cancelled"} \subseteq JobStates
  BY DEF JobStates, Waiting
<1>2. {"paused", "active", "cancelled"} \subseteq RunStates
  BY DEF RunStates, LiveRun
<1>3. QED BY <1>1, <1>2, MoveTypes DEF PauseRuns, ResumeRuns, CancelRuns

\* What changes in a worker's record from one statement to the next.
LEMMA GotoType ==
    ASSUME TypeOK, NEW w \in Workers, sync[w].at # "rest", NEW stage \in Stages, NEW b \in BOOLEAN,
           NEW R \in SUBSET Runs, NEW r \in Runs \cup {None}
    PROVE  /\ [sync[w] EXCEPT !.at = stage] \in Syncs
           /\ [sync[w] EXCEPT !.at = stage, !.first = b] \in Syncs
           /\ [sync[w] EXCEPT !.at = stage, !.runs = R] \in Syncs
           /\ [sync[w] EXCEPT !.runs = R] \in Syncs
           /\ [sync[w] EXCEPT !.at = stage, !.run = r, !.runs = R] \in Syncs
           /\ [sync[w] EXCEPT !.at = stage, !.run = r] \in Syncs
<1>1. PICK o \in Orders : sync[w] \in SyncOf(o)
  BY Busy
<1>2. /\ [sync[w] EXCEPT !.at = stage] \in SyncOf(o)
      /\ [sync[w] EXCEPT !.at = stage, !.first = b] \in SyncOf(o)
      /\ [sync[w] EXCEPT !.at = stage, !.runs = R] \in SyncOf(o)
      /\ [sync[w] EXCEPT !.runs = R] \in SyncOf(o)
      /\ [sync[w] EXCEPT !.at = stage, !.run = r, !.runs = R] \in SyncOf(o)
      /\ [sync[w] EXCEPT !.at = stage, !.run = r] \in SyncOf(o)
  BY <1>1 DEF SyncOf
<1>3. QED BY <1>2, SyncCases

\* The end of the handler.
LEMMA EndType ==
    ASSUME TypeOK, NEW w \in Workers, End(w)
    PROVE  sync' \in [Workers -> Syncs] /\ window' \subseteq Orders
BY SyncUpdate, SyncCases DEF End, TypeOK

\* A statement of upsertOrder keeps the types.
LEMMA UpsertTypes ==
    ASSUME TypeOK, NEW w \in Workers, Upsert(w)
    PROVE  TypeOK'
<1> USE DEF queueVars, shopVars, rowVars, At, Goto
<1>1. ASSUME sync[w].at # "rest", NEW s \in Syncs, sync' = [sync EXCEPT ![w] = s],
             UNCHANGED <<shopVars, rowVars, active, faults>>,
             jobState' \in [Steps -> JobStates], runState' \in [Runs -> RunStates]
      PROVE  TypeOK'
  BY <1>1, SyncUpdate DEF TypeOK
<1>2. CASE Commit(w)
  <2>1. PICK o \in Orders : sync[w] \in SyncOf(o) /\ Order(w) = o /\ Seen(w) \in Snapshot(o)
    BY <1>2, Busy DEF Commit
  <2>2. /\ row' \in [Orders -> [known : BOOLEAN, delivered : BOOLEAN, undone : BOOLEAN, returned : BOOLEAN]]
        /\ (Seen(w).delivered /\ ~row[o].delivered) \in BOOLEAN
    BY <1>2, <2>1 DEF Commit, Snapshot, TypeOK
  <2>3. "consent" \in Stages
    BY DEF Stages
  <2>4. sync' = [sync EXCEPT ![w] = [sync[w] EXCEPT !.at = "consent",
                                                     !.first = Seen(w).delivered /\ ~row[o].delivered]]
    BY <1>2, <2>1 DEF Commit
  <2>5. sync' \in [Workers -> Syncs]
    BY <1>2, <2>2, <2>3, <2>4, GotoType, SyncUpdate DEF Commit
  <2>6. QED BY <1>2, <2>2, <2>5 DEF Commit, TypeOK
<1>3. CASE CheckConsent(w)
  <2>1. jobState' \in [Steps -> JobStates] /\ runState' \in [Runs -> RunStates]
    BY <1>3, ControlTypes DEF CheckConsent, CancelCustomerWork, TypeOK
  <2>2. PICK stage \in Stages : sync' = [sync EXCEPT ![w] = [sync[w] EXCEPT !.at = stage]]
    BY <1>3 DEF CheckConsent, Stages
  <2>3. QED BY <1>1, <1>3, <2>1, <2>2, GotoType DEF CheckConsent
<1>4. CASE Unattribute(w)
  <2>1. PICK o \in Orders : Order(w) = o
    BY <1>4, Busy DEF Unattribute
  <2>2. attributed' \subseteq Orders /\ kept' \subseteq Orders /\ faults' \in 0..MaxFaults
    BY <1>4, <2>1 DEF Unattribute, TypeOK
  <2>3. "cancel" \in Stages /\ sync' = [sync EXCEPT ![w] = [sync[w] EXCEPT !.at = "cancel"]]
    <3>1. Goto(w, "cancel")
      BY <1>4 DEF Unattribute
    <3>2. QED BY <3>1 DEF Stages
  <2>4. sync' \in [Workers -> Syncs]
    BY <1>4, <2>3, GotoType, SyncUpdate DEF Unattribute
  <2>5. QED BY <1>4, <2>2, <2>4 DEF Unattribute, TypeOK
<1>5. CASE CancelForUndone(w)
  <2>1. jobState' \in [Steps -> JobStates] /\ runState' \in [Runs -> RunStates]
    BY <1>5, ControlTypes DEF CancelForUndone, CancelCustomerWork
  <2>2. QED BY <1>5, <2>1, EndType DEF CancelForUndone, TypeOK
<1>6. CASE ReadCandidates(w)
  <2> DEFINE R == {r \in Runs : runState[r] \in LiveRun /\ NameOf[r] \in Converts[Order(w)]}
  <2>1. R \in SUBSET Runs /\ sync' = [sync EXCEPT ![w] = [sync[w] EXCEPT !.at = "convert", !.runs = R]]
    BY <1>6 DEF ReadCandidates
  <2>2. "convert" \in Stages
    BY DEF Stages
  <2>3. QED BY <1>1, <1>6, <2>1, <2>2, GotoType DEF ReadCandidates, TypeOK
<1>7. CASE CancelConverted(w)
  <2>1. PICK r \in sync[w].runs :
             \/ /\ CancelRuns({r})
                /\ sync' = [sync EXCEPT ![w].runs = @ \ {r}]
             \/ /\ sync' = [sync EXCEPT ![w] = Resting]
                /\ UNCHANGED queueVars
    BY <1>7 DEF CancelConverted
  <2>2. jobState' \in [Steps -> JobStates] /\ runState' \in [Runs -> RunStates]
    BY <2>1, ControlTypes DEF TypeOK
  <2>3. sync[w].runs \ {r} \in SUBSET Runs
    BY <1>7, Busy DEF CancelConverted, SyncOf
  <2>4. "convert" \in Stages
    BY DEF Stages
  <2>5. CASE sync' = [sync EXCEPT ![w].runs = @ \ {r}]
    BY <1>1, <1>7, <2>2, <2>3, <2>4, <2>5, GotoType DEF CancelConverted
  <2>6. CASE sync' = [sync EXCEPT ![w] = Resting]
    BY <1>1, <1>7, <2>2, <2>6, SyncCases DEF CancelConverted
  <2>7. QED BY <2>1, <2>5, <2>6
<1>8. CASE Converted(w)
  <2>1. "attribute" \in Stages
    BY DEF Stages
  <2>2. QED BY <1>1, <1>8, <2>1, GotoType DEF Converted, TypeOK
<1>9. CASE Attribute(w)
  <2>1. PICK o \in Orders : Order(w) = o
    BY <1>9, Busy DEF Attribute
  <2>2. attributed' \subseteq Orders
    BY <1>9, <2>1 DEF Attribute, TypeOK
  <2>3. sync' \in [Workers -> Syncs] /\ window' \subseteq Orders
    <3>1. CASE End(w)
      BY <3>1, EndType
    <3>2. CASE Goto(w, "definitions") /\ UNCHANGED window
      <4>1. "definitions" \in Stages
        BY DEF Stages
      <4>2. QED BY <1>9, <3>2, <4>1, GotoType, SyncUpdate DEF Attribute, TypeOK
    <3>3. QED BY <1>9, <3>1, <3>2 DEF Attribute
  <2>4. QED BY <1>9, <2>2, <2>3 DEF Attribute, TypeOK
<1>10. CASE ReadDefinitions(w)
  <2> DEFINE R == {r \in Runs : TriggerOf[r] = Order(w) /\ NameOf[r] \in active}
  <2>1. R \in SUBSET Runs /\ sync' = [sync EXCEPT ![w] = [sync[w] EXCEPT !.at = "start", !.runs = R]]
    BY <1>10 DEF ReadDefinitions
  <2>2. "start" \in Stages
    BY DEF Stages
  <2>3. QED BY <1>1, <1>10, <2>1, <2>2, GotoType DEF ReadDefinitions, TypeOK
<1>11. CASE StartRun(w)
  <2>1. PICK r \in sync[w].runs :
             \/ /\ runState' = [runState EXCEPT ![r] = "active"]
                /\ UNCHANGED jobState
                /\ sync' = [sync EXCEPT ![w].at = "steps", ![w].run = r, ![w].runs = @ \ {r}]
             \/ /\ UNCHANGED queueVars
                /\ sync' = [sync EXCEPT ![w].runs = @ \ {r}]
    BY <1>11 DEF StartRun
  <2>2. sync[w].runs \ {r} \in SUBSET Runs /\ r \in Runs
    BY <1>11, Busy DEF StartRun, SyncOf
  <2>3. "steps" \in Stages /\ "active" \in RunStates
    BY DEF Stages, RunStates, LiveRun
  <2>4. jobState' \in [Steps -> JobStates] /\ runState' \in [Runs -> RunStates]
    <3>1. jobState \in [Steps -> JobStates] /\ runState \in [Runs -> RunStates]
      BY DEF TypeOK
    <3>2. CASE runState' = [runState EXCEPT ![r] = "active"] /\ UNCHANGED jobState
      BY <2>3, <3>1, <3>2
    <3>3. CASE UNCHANGED queueVars
      BY <3>1, <3>3
    <3>4. QED BY <2>1, <3>2, <3>3
  <2>5. CASE sync' = [sync EXCEPT ![w].at = "steps", ![w].run = r, ![w].runs = @ \ {r}]
    <3>1. sync' = [sync EXCEPT ![w] = [sync[w] EXCEPT !.at = "steps", !.run = r, !.runs = sync[w].runs \ {r}]]
      BY <2>5
    <3>2. QED BY <1>1, <1>11, <2>2, <2>3, <2>4, <3>1, GotoType DEF StartRun
  <2>6. CASE sync' = [sync EXCEPT ![w].runs = @ \ {r}]
    BY <1>1, <1>11, <2>2, <2>3, <2>4, <2>6, GotoType DEF StartRun
  <2>7. QED BY <2>1, <2>5, <2>6
<1>12. CASE EnqueueStep(w)
  <2>1. "scheduled" \in JobStates
    BY DEF JobStates, Waiting
  <2>2. jobState' \in [Steps -> JobStates]
    BY <1>12, <2>1 DEF EnqueueStep, Missing, TypeOK
  <2>3. QED BY <1>12, <2>2 DEF EnqueueStep, TypeOK
<1>13. CASE NextRun(w)
  <2>1. "start" \in Stages
    BY DEF Stages
  <2>2. QED BY <1>1, <1>13, <2>1, GotoType DEF NextRun, TypeOK
<1>14. CASE Started(w)
  BY <1>14, EndType DEF Started, TypeOK
<1>15. QED
  BY <1>2, <1>3, <1>4, <1>5, <1>6, <1>7, <1>8, <1>9, <1>10, <1>11, <1>12, <1>13, <1>14,
     Upsert(w) DEF Upsert

\* So do Shopify, the fetches, the failures and the operator.
LEMMA OthersTypes ==
    ASSUME TypeOK, Next, ~\E w \in Workers : Upsert(w)
    PROVE  TypeOK'
<1> USE DEF queueVars, shopVars, rowVars
<1>1. ASSUME NEW o \in Orders, ShopifyChanges(o) PROVE TypeOK'
  <2>1. PICK s \in Snapshot(o) : shop' = [shop EXCEPT ![o] = s]
    BY <1>1 DEF ShopifyChanges
  <2>2. \A p \in Orders : shop'[p] \in Snapshot(p)
    BY <2>1 DEF TypeOK
  <2>3. QED BY <1>1, <2>2 DEF ShopifyChanges, TypeOK
<1>2. ASSUME NEW w \in Workers, NEW o \in Orders, Fetch(w, o) PROVE TypeOK'
  <2>1. PastOverlap(o) \in BOOLEAN /\ shop[o] \in Snapshot(o)
    BY DEF PastOverlap, TypeOK
  <2>2. [at |-> "fetched", order |-> o, seen |-> shop[o], last |-> PastOverlap(o), first |-> FALSE,
         runs |-> {}, run |-> None] \in SyncOf(o)
    BY <2>1 DEF SyncOf, Stages
  <2>3. sync' \in [Workers -> Syncs]
    BY <1>2, <2>2, SyncCases, SyncUpdate DEF Fetch
  <2>4. QED BY <1>2, <2>3 DEF Fetch, TypeOK
<1>3. ASSUME NEW W \in SUBSET Workers, SyncsFail(W) PROVE TypeOK'
  <2>1. Resting \in Syncs
    BY SyncCases
  <2>2. QED BY <1>3, <2>1 DEF SyncsFail, TypeOK
<1>4. ASSUME NEW n \in Names, PauseDefinition(n) \/ ActivateDefinition(n) PROVE TypeOK'
  <2>1. jobState' \in [Steps -> JobStates] /\ runState' \in [Runs -> RunStates]
    BY <1>4, ControlTypes DEF PauseDefinition, ActivateDefinition
  <2>2. QED BY <1>4, <2>1 DEF PauseDefinition, ActivateDefinition, TypeOK
<1>5. QED BY <1>1, <1>2, <1>3, <1>4 DEF Next


\* Every column and every worker's record keeps its type.
THEOREM OrdersTypeCorrect == Spec => []TypeOK
<1>1. Init => TypeOK
  <2>1. Resting \in Syncs
    BY SyncCases
  <2>2. Init => \A o \in Orders : shop[o] \in Snapshot(o)
    BY DEF Init, Snapshot
  <2>3. QED BY <2>1, <2>2 DEF Init, TypeOK, JobStates, RunStates, NoRow
<1>2. TypeOK /\ [Next]_vars => TypeOK'
  <2> SUFFICES ASSUME TypeOK, [Next]_vars PROVE TypeOK'
    OBVIOUS
  <2>1. CASE UNCHANGED vars
    BY <2>1 DEF vars, queueVars, shopVars, rowVars, TypeOK
  <2>2. QED BY <2>1, UpsertTypes, OthersTypes DEF Next
<1>3. QED BY <1>1, <1>2, PTL DEF Spec

-----------------------------------------------------------------------------
(* Complete runs *)

\* A bulk update makes no run and no job.
LEMMA MoveKeepsAbsent ==
    ASSUME TypeOK, NEW R, PauseRuns(R) \/ ResumeRuns(R) \/ CancelRuns(R)
    PROVE  /\ \A r \in Runs : runState[r] = "absent" => runState'[r] = "absent"
           /\ \A j \in Steps : jobState[j] # "absent" => jobState'[j] # "absent"
BY DEF PauseRuns, ResumeRuns, CancelRuns, MoveRuns, LiveRun, Waiting, TypeOK

\* What keeps a run complete: no run appears, no job disappears, and whoever fills a
\* run goes on with it.
LEMMA CompleteFrame ==
    ASSUME RunsAreComplete, TypeOK,
           \A r \in Runs : runState[r] = "absent" => runState'[r] = "absent",
           \A j \in Steps : jobState[j] # "absent" => jobState'[j] # "absent",
           faults' = faults,
           \A w \in Workers : At(w, "steps") => sync'[w] = sync[w]
    PROVE  RunsAreComplete'
BY DEF RunsAreComplete, Missing, At

\* A fault is the end of the promise.
LEMMA FaultEnds ==
    ASSUME TypeOK, faults' = faults + 1
    PROVE  RunsAreComplete'
BY DEF RunsAreComplete, TypeOK

\* Without a failing statement every run gets all its steps, whatever is paused or
\* cancelled meanwhile.
THEOREM RunsComplete == Spec => []RunsAreComplete
<1>1. Init => RunsAreComplete
  BY DEF Init, RunsAreComplete
<1>2. TypeOK /\ RunsAreComplete /\ [Next]_vars => RunsAreComplete'
  <2> SUFFICES ASSUME TypeOK, RunsAreComplete, [Next]_vars PROVE RunsAreComplete'
    OBVIOUS
  <2> USE DEF queueVars, shopVars, rowVars
  <2>1. CASE UNCHANGED vars
    BY <2>1, CompleteFrame DEF vars
  <2>2. ASSUME NEW o \in Orders, ShopifyChanges(o) PROVE RunsAreComplete'
    BY <2>2, CompleteFrame DEF ShopifyChanges
  <2>3. ASSUME NEW w \in Workers, NEW o \in Orders, Fetch(w, o) PROVE RunsAreComplete'
    BY <2>3, CompleteFrame DEF Fetch, At, TypeOK
  <2>4. ASSUME NEW W, SyncsFail(W) PROVE RunsAreComplete'
    BY <2>4, FaultEnds DEF SyncsFail
  <2>5. ASSUME NEW n \in Names, PauseDefinition(n) \/ ActivateDefinition(n) PROVE RunsAreComplete'
    BY <2>5, MoveKeepsAbsent, CompleteFrame DEF PauseDefinition, ActivateDefinition
  <2>6. ASSUME NEW w \in Workers, Upsert(w) PROVE RunsAreComplete'
    <3> USE DEF At, Goto
    <3>1. CASE Commit(w) \/ ReadCandidates(w) \/ Converted(w) \/ ReadDefinitions(w)
      BY <3>1, CompleteFrame DEF Commit, ReadCandidates, Converted, ReadDefinitions, TypeOK
    <3>2. CASE CheckConsent(w)
      BY <3>2, MoveKeepsAbsent, CompleteFrame DEF CheckConsent, CancelCustomerWork, TypeOK
    <3>3. CASE Unattribute(w)
      BY <3>3, FaultEnds, CompleteFrame DEF Unattribute, TypeOK
    <3>4. CASE CancelForUndone(w)
      BY <3>4, MoveKeepsAbsent, CompleteFrame DEF CancelForUndone, CancelCustomerWork, End, TypeOK
    <3>5. CASE CancelConverted(w)
      BY <3>5, MoveKeepsAbsent, CompleteFrame DEF CancelConverted, TypeOK
    <3>6. CASE Attribute(w) \/ Started(w)
      BY <3>6, CompleteFrame DEF Attribute, Started, End, TypeOK
    <3>7. CASE StartRun(w)
      <4>1. PICK r \in sync[w].runs :
                 \/ /\ runState[r] = "absent"
                    /\ runState' = [runState EXCEPT ![r] = "active"]
                    /\ UNCHANGED jobState
                    /\ sync' = [sync EXCEPT ![w].at = "steps", ![w].run = r, ![w].runs = @ \ {r}]
                 \/ /\ UNCHANGED queueVars
                    /\ sync' = [sync EXCEPT ![w].runs = @ \ {r}]
        BY <3>7 DEF StartRun
      <4>2. CASE UNCHANGED queueVars /\ sync' = [sync EXCEPT ![w].runs = @ \ {r}]
        BY <3>7, <4>2, CompleteFrame DEF StartRun, TypeOK
      <4>3. CASE /\ runState' = [runState EXCEPT ![r] = "active"]
                 /\ UNCHANGED jobState
                 /\ sync' = [sync EXCEPT ![w].at = "steps", ![w].run = r, ![w].runs = @ \ {r}]
        <5>1. PICK o \in Orders : sync[w] \in SyncOf(o)
          BY <3>7, Busy DEF StartRun
        <5>2. sync'[w].at = "steps" /\ sync'[w].run = r
          BY <4>3, <5>1 DEF TypeOK, SyncOf
        <5>3. \A v \in Workers : v # w => sync'[v] = sync[v]
          BY <4>3 DEF TypeOK
        <5>4. \A x \in Runs : x # r => runState'[x] = runState[x]
          BY <4>3 DEF TypeOK
        <5>5. \A x \in Runs : Missing(x)' = Missing(x)
          BY <4>3 DEF Missing
        <5>6. faults' = faults /\ sync[w].at = "start"
          BY <3>7 DEF StartRun
        <5>7. QED BY <5>2, <5>3, <5>4, <5>5, <5>6 DEF RunsAreComplete
      <4>4. QED BY <4>1, <4>2, <4>3
    <3>8. CASE EnqueueStep(w)
      BY <3>8, CompleteFrame DEF EnqueueStep, TypeOK, Missing
    <3>9. CASE NextRun(w)
      <4>1. Missing(sync[w].run) = {} /\ UNCHANGED <<runState, jobState, faults>>
        BY <3>9 DEF NextRun, RunFilled
      <4>2. \A v \in Workers : v # w => sync'[v] = sync[v]
        BY <3>9 DEF NextRun, TypeOK
      <4>3. QED BY <4>1, <4>2 DEF RunsAreComplete, Missing
    <3>10. QED
      BY <2>6, <3>1, <3>2, <3>3, <3>4, <3>5, <3>6, <3>7, <3>8, <3>9 DEF Upsert
  <2>7. QED BY <2>1, <2>2, <2>3, <2>4, <2>5, <2>6 DEF Next
<1>3. QED BY <1>1, <1>2, OrdersTypeCorrect, PTL DEF Spec
-----------------------------------------------------------------------------
(* Settled orders *)

\* A worker's stage fits its snapshot, which is Shopify's present or a past one, and
\* it starts the runs of its own order only.
StageFits(w) ==
    sync[w].at # "rest" =>
        /\ Seen(w).n <= shop[Order(w)].n
        /\ At(w, "unattribute") \/ At(w, "cancel") => Undone(Seen(w))
        /\ sync[w].at \in {"candidates", "convert", "attribute", "definitions", "start", "steps"}
              => ~Undone(Seen(w))
        /\ At(w, "start") \/ At(w, "steps") => \A r \in sync[w].runs : TriggerOf[r] = Order(w)

\* No worker is at the order with an older snapshot.
Fresh(o) == \A w \in Workers : sync[w].at # "rest" /\ Order(w) = o => Seen(w) = shop[o]

\* A reconciliation past the overlap, whose snapshot is still Shopify's, is alone with
\* it, and has done what its stage says.
LastIsRight(w) ==
    sync[w].at # "rest" /\ sync[w].last /\ Seen(w) = shop[Order(w)] =>
        /\ Fresh(Order(w))
        /\ ~At(w, "fetched") => RowAgrees(Order(w))
        /\ At(w, "cancel") /\ Order(w) \in attributed => Order(w) \in kept

OrdersInv ==
    /\ TypeOK
    /\ \A w \in Workers : StageFits(w) /\ LastIsRight(w)
    /\ WhatLeavesIsSettled

\* Settled in terms of Fresh.
LEMMA SettledParts ==
    ASSUME TypeOK, NEW o \in Orders
    PROVE  Settled(o) <=> RowAgrees(o) /\ Fresh(o) /\ (shop[o].status = "undone" => IsUndone(o))
<1>1. \A w \in Workers : sync[w] # Resting <=> sync[w].at # "rest"
  BY SyncCases DEF TypeOK, SyncOf, Stages, Resting
<1>2. QED BY <1>1 DEF Settled, Fresh

\* What a statement of upsertOrder does to the worker's record and to the others'.
LEMMA UpsertSync ==
    ASSUME TypeOK, NEW w \in Workers, Upsert(w)
    PROVE  /\ sync[w].at # "rest"
           /\ UNCHANGED <<shop, active>>
           /\ \A v \in Workers : v # w => sync'[v] = sync[v]
           /\ \/ sync'[w] = Resting
              \/ /\ sync'[w].order = Order(w) /\ sync'[w].seen = Seen(w)
                 /\ sync'[w].last = sync[w].last
<1> USE DEF queueVars, shopVars, rowVars, At, Goto
<1>1. sync[w].at # "rest"
  BY DEF Upsert, Commit, CheckConsent, Unattribute, CancelForUndone, ReadCandidates, CancelConverted,
         Converted, Attribute, ReadDefinitions, StartRun, EnqueueStep, NextRun, Started
<1>2. PICK o \in Orders : sync[w] \in SyncOf(o)
  BY <1>1, Busy
<1>3. UNCHANGED <<shop, active>>
  BY DEF Upsert, Commit, CheckConsent, Unattribute, CancelForUndone, ReadCandidates, CancelConverted,
         Converted, Attribute, ReadDefinitions, StartRun, EnqueueStep, NextRun, Started, End
<1>4. /\ \A v \in Workers : v # w => sync'[v] = sync[v]
      /\ \/ sync'[w] = Resting
         \/ /\ sync'[w].order = Order(w) /\ sync'[w].seen = Seen(w)
            /\ sync'[w].last = sync[w].last
  <2> USE <1>2 DEF TypeOK, SyncOf, Order, Seen
  <2>1. CASE Commit(w) \/ CheckConsent(w) \/ Unattribute(w)
    BY <2>1 DEF Commit, CheckConsent, Unattribute
  <2>2. CASE CancelForUndone(w) \/ Attribute(w) \/ Started(w)
    BY <2>2 DEF CancelForUndone, Attribute, Started, End
  <2>3. CASE Converted(w) \/ NextRun(w)
    BY <2>3 DEF Converted, NextRun
  <2>4. ASSUME NEW stage, NEW R, sync' = [sync EXCEPT ![w].at = stage, ![w].runs = R]
        PROVE  /\ \A v \in Workers : v # w => sync'[v] = sync[v]
               /\ sync'[w].order = Order(w) /\ sync'[w].seen = Seen(w)
               /\ sync'[w].last = sync[w].last
    BY <2>4
  <2>5. CASE ReadCandidates(w)
    BY <2>4, <2>5 DEF ReadCandidates
  <2>6. CASE ReadDefinitions(w)
    BY <2>4, <2>6 DEF ReadDefinitions
  <2>7. CASE CancelConverted(w)
    BY <2>7 DEF CancelConverted
  <2>8. CASE StartRun(w)
    BY <2>8 DEF StartRun
  <2>9. CASE EnqueueStep(w)
    BY <2>9 DEF EnqueueStep
  <2>10. QED BY <2>1, <2>2, <2>3, <2>5, <2>6, <2>7, <2>8, <2>9 DEF Upsert
<1>5. QED BY <1>1, <1>3, <1>4

\* A worker is at an order after a step if it was there before, with the same snapshot,
\* or fetched it just now.
LEMMA SyncStep ==
    ASSUME TypeOK, [Next]_vars, NEW w \in Workers
    PROVE  \/ sync'[w] = Resting
           \/ sync'[w] = sync[w]
           \/ \E o \in Orders : Fetch(w, o)
           \/ /\ sync[w].at # "rest" /\ Upsert(w)
              /\ sync'[w].order = Order(w) /\ sync'[w].seen = Seen(w)
              /\ sync'[w].last = sync[w].last
<1>1. CASE UNCHANGED vars
  BY <1>1 DEF vars
<1>2. ASSUME NEW o \in Orders, ShopifyChanges(o) PROVE sync'[w] = sync[w]
  BY <1>2 DEF ShopifyChanges
<1>3. ASSUME NEW v \in Workers, NEW o \in Orders, Fetch(v, o)
      PROVE  sync'[w] = sync[w] \/ Fetch(w, o)
  BY <1>3 DEF Fetch, TypeOK
<1>4. ASSUME NEW v \in Workers, Upsert(v), v # w PROVE sync'[w] = sync[w]
  BY <1>4, UpsertSync
<1>5. ASSUME NEW W, SyncsFail(W) PROVE sync'[w] = Resting \/ sync'[w] = sync[w]
  BY <1>5 DEF SyncsFail
<1>6. ASSUME NEW n \in Names, PauseDefinition(n) \/ ActivateDefinition(n) PROVE sync'[w] = sync[w]
  BY <1>6 DEF PauseDefinition, ActivateDefinition
<1>7. QED BY <1>1, <1>2, <1>3, <1>4, <1>5, <1>6, UpsertSync DEF Next

\* Nobody fetches an older snapshot: an order that is fresh stays so until it changes.
LEMMA FreshStays ==
    ASSUME TypeOK, [Next]_vars, NEW o \in Orders, Fresh(o), shop'[o] = shop[o]
    PROVE  Fresh(o)'
<1> SUFFICES ASSUME NEW w \in Workers, sync'[w].at # "rest", sync'[w].order = o
             PROVE  sync'[w].seen = shop[o]
  BY DEF Fresh, Order, Seen
<1>1. CASE sync'[w] = sync[w]
  BY <1>1 DEF Fresh, Order, Seen
<1>2. ASSUME NEW p \in Orders, Fetch(w, p) PROVE sync'[w].seen = shop[o]
  BY <1>2 DEF Fetch, TypeOK
<1>3. CASE sync[w].at # "rest" /\ sync'[w].order = Order(w) /\ sync'[w].seen = Seen(w)
  BY <1>3 DEF Fresh
<1>4. QED BY <1>1, <1>2, <1>3, SyncStep DEF Resting

\* Only the transaction writes the row: a fresh order's row agrees from then on.
LEMMA RowStays ==
    ASSUME TypeOK, [Next]_vars, NEW o \in Orders, shop'[o] = shop[o], Fresh(o), RowAgrees(o)
    PROVE  RowAgrees(o)'
<1> USE DEF queueVars, shopVars, rowVars, RowAgrees
<1>1. CASE row' = row
  BY <1>1
<1>2. ASSUME NEW w \in Workers, Commit(w) PROVE RowAgrees(o)'
  <2>1. sync[w].at # "rest" /\ Order(w) \in Orders
    BY <1>2, Busy DEF Commit, At
  <2>2. CASE Order(w) = o
    BY <1>2, <2>1, <2>2 DEF Commit, Fresh, TypeOK
  <2>3. CASE Order(w) # o
    BY <1>2, <2>3 DEF Commit, TypeOK
  <2>4. QED BY <2>2, <2>3
<1>3. row' = row \/ \E w \in Workers : Commit(w)
  BY DEF Next, vars, ShopifyChanges, Fetch, Upsert, CheckConsent, Unattribute, CancelForUndone,
         ReadCandidates, CancelConverted, Converted, Attribute, ReadDefinitions, StartRun,
         EnqueueStep, NextRun, Started, SyncsFail, PauseDefinition, ActivateDefinition
<1>4. QED BY <1>1, <1>2, <1>3

\* A fresh order that is undone or returned is attributed by nobody any more.
Unattributed(o) == o \in attributed => o \in kept

LEMMA UnattributedStays ==
    ASSUME TypeOK, [Next]_vars, \A w \in Workers : StageFits(w), NEW o \in Orders,
           Fresh(o), Undone(shop[o]), Unattributed(o)
    PROVE  Unattributed(o)'
<1> USE DEF queueVars, shopVars, rowVars, Unattributed
<1>1. CASE UNCHANGED <<attributed, kept>>
  BY <1>1
<1>2. ASSUME NEW w \in Workers, Unattribute(w) PROVE Unattributed(o)'
  BY <1>2 DEF Unattribute
<1>3. ASSUME NEW w \in Workers, Attribute(w) PROVE Unattributed(o)'
  <2>1. sync[w].at = "attribute" /\ ~Undone(Seen(w))
    BY <1>3 DEF Attribute, At, StageFits
  <2>2. Order(w) # o
    BY <2>1 DEF Fresh, Undone
  <2>3. QED BY <1>3, <2>2 DEF Attribute
<1>4. \/ UNCHANGED <<attributed, kept>>
      \/ \E w \in Workers : Unattribute(w) \/ Attribute(w)
  BY DEF Next, vars, ShopifyChanges, Fetch, Upsert, Commit, CheckConsent, CancelForUndone,
         ReadCandidates, CancelConverted, Converted, ReadDefinitions, StartRun,
         EnqueueStep, NextRun, Started, SyncsFail, PauseDefinition, ActivateDefinition
<1>5. QED BY <1>1, <1>2, <1>3, <1>4

\* A bulk update revives no run.
LEMMA MoveKeepsEnded ==
    ASSUME TypeOK, NEW R, PauseRuns(R) \/ ResumeRuns(R) \/ CancelRuns(R), NEW r \in Runs,
           runState[r] \notin LiveRun
    PROVE  runState'[r] \notin LiveRun
BY DEF PauseRuns, ResumeRuns, CancelRuns, MoveRuns, LiveRun, TypeOK

\* Only StartRun makes a run live that was not, and for its own order only.
LEMMA StartedByItsOrder ==
    ASSUME TypeOK, [Next]_vars, \A w \in Workers : StageFits(w), NEW r \in Runs,
           runState[r] \notin LiveRun, runState'[r] \in LiveRun
    PROVE  \E w \in Workers : /\ sync[w].at # "rest" /\ Order(w) = TriggerOf[r]
                              /\ ~Undone(Seen(w))
<1> USE DEF queueVars, shopVars, rowVars
<1>1. runState' # runState
  OBVIOUS
<1>2. ASSUME NEW R, PauseRuns(R) \/ ResumeRuns(R) \/ CancelRuns(R) PROVE FALSE
  BY <1>2, MoveKeepsEnded
<1>3. PICK w \in Workers : StartRun(w)
  <2>1. \/ \E w \in Workers : StartRun(w) \/ CheckConsent(w) \/ CancelForUndone(w) \/ CancelConverted(w)
        \/ \E n \in Names : PauseDefinition(n) \/ ActivateDefinition(n)
    BY <1>1 DEF Next, vars, ShopifyChanges, Fetch, Upsert, Commit, Unattribute,
         ReadCandidates, Converted, Attribute, ReadDefinitions, EnqueueStep, NextRun, Started, SyncsFail
  <2>2. ASSUME NEW w \in Workers, CheckConsent(w) \/ CancelForUndone(w) \/ CancelConverted(w)
        PROVE  FALSE
    BY <1>1, <1>2, <2>2 DEF CheckConsent, CancelForUndone, CancelConverted, CancelCustomerWork
  <2>3. ASSUME NEW n \in Names, PauseDefinition(n) \/ ActivateDefinition(n) PROVE FALSE
    BY <1>2, <2>3 DEF PauseDefinition, ActivateDefinition
  <2>4. QED BY <2>1, <2>2, <2>3
<1>4. PICK q \in sync[w].runs : runState' = [runState EXCEPT ![q] = "active"]
  BY <1>1, <1>3 DEF StartRun
<1>5. q = r
  BY <1>1, <1>4 DEF TypeOK
<1>6. QED BY <1>3, <1>5 DEF StartRun, At, StageFits

\* A settled order stays settled until it changes.
LEMMA SettledStays ==
    ASSUME TypeOK, [Next]_vars, \A w \in Workers : StageFits(w), NEW o \in Orders,
           Settled(o), shop'[o] = shop[o], TypeOK'
    PROVE  Settled(o)'
<1>1. RowAgrees(o) /\ Fresh(o) /\ (shop[o].status = "undone" => IsUndone(o))
  BY SettledParts
<1>2. RowAgrees(o)' /\ Fresh(o)'
  BY <1>1, RowStays, FreshStays
<1>3. ASSUME shop[o].status = "undone" PROVE IsUndone(o)'
  <2>1. Unattributed(o)'
    BY <1>1, <1>3, UnattributedStays DEF IsUndone, Unattributed, Undone
  <2>2. ASSUME NEW r \in Runs, TriggerOf[r] = o, runState'[r] \in LiveRun PROVE FALSE
    <3>1. runState[r] \notin LiveRun
      BY <1>1, <1>3, <2>2 DEF IsUndone
    <3>2. PICK w \in Workers : sync[w].at # "rest" /\ Order(w) = o /\ ~Undone(Seen(w))
      BY <2>2, <3>1, StartedByItsOrder
    <3>3. QED BY <1>1, <1>3, <3>2 DEF Fresh, Undone
  <2>3. QED BY <2>1, <2>2 DEF IsUndone, Unattributed
<1>4. (RowAgrees(o) /\ Fresh(o) /\ (shop[o].status = "undone" => IsUndone(o)))'
  BY <1>2, <1>3
<1>5. QED
  <2>1. (TypeOK /\ o \in Orders
           => (Settled(o) <=> RowAgrees(o) /\ Fresh(o) /\ (shop[o].status = "undone" => IsUndone(o))))'
    BY SettledParts, PTL
  <2>2. QED BY <1>4, <2>1

\* An order at Shopify is as it was, or has one change more.
LEMMA ShopGrows ==
    ASSUME TypeOK, [Next]_vars, NEW o \in Orders
    PROVE  \/ shop'[o] = shop[o]
           \/ shop'[o].n = shop[o].n + 1 /\ o \in window'
<1> USE DEF queueVars, shopVars, rowVars
<1>1. ASSUME NEW p \in Orders, ShopifyChanges(p)
      PROVE  shop'[o] = shop[o] \/ (shop'[o].n = shop[o].n + 1 /\ o \in window')
  BY <1>1 DEF ShopifyChanges, TypeOK
<1>2. ASSUME NEW w \in Workers, Upsert(w) PROVE shop' = shop
  BY <1>2, UpsertSync
<1>3. QED
  BY <1>1, <1>2 DEF Next, vars, Fetch, SyncsFail, PauseDefinition, ActivateDefinition

\* From stage to stage of upsertOrder.
LEMMA UpsertFits ==
    ASSUME TypeOK, NEW w \in Workers, Upsert(w), StageFits(w)
    PROVE  StageFits(w)'
<1> USE DEF At, Goto
<1>1. PICK o \in Orders : sync[w] \in SyncOf(o)
  BY UpsertSync, Busy
<1>2. shop' = shop /\ sync[w].at # "rest"
  BY UpsertSync
<1> SUFFICES ASSUME sync'[w] # Resting
             PROVE  StageFits(w)'
  BY DEF StageFits, Resting
<1>3. Seen(w)' = Seen(w) /\ Order(w)' = Order(w)
  BY UpsertSync DEF Seen, Order
<1>4. Seen(w).n <= shop[Order(w)].n
  BY <1>2 DEF StageFits
<1> USE <1>1 DEF TypeOK, SyncOf
<1>5. ASSUME sync'[w].at \in {"fetched", "consent"} PROVE StageFits(w)'
  BY <1>2, <1>3, <1>4, <1>5 DEF StageFits
<1>6. ASSUME sync'[w].at \in {"unattribute", "cancel"}, Undone(Seen(w)) PROVE StageFits(w)'
  BY <1>2, <1>3, <1>4, <1>6 DEF StageFits
<1>7. ASSUME sync'[w].at \in {"candidates", "convert", "attribute", "definitions"}, ~Undone(Seen(w))
      PROVE  StageFits(w)'
  BY <1>2, <1>3, <1>4, <1>7 DEF StageFits
<1>8. ASSUME sync'[w].at \in {"start", "steps"}, ~Undone(Seen(w)),
             \A r \in sync'[w].runs : TriggerOf[r] = Order(w)
      PROVE  StageFits(w)'
  BY <1>2, <1>3, <1>4, <1>8 DEF StageFits
<1>9. CASE Commit(w)
  BY <1>5, <1>9 DEF Commit
<1>10. CASE CheckConsent(w)
  BY <1>6, <1>7, <1>10 DEF CheckConsent
<1>11. CASE Unattribute(w)
  <2>1. sync'[w].at = "cancel"
    BY <1>11 DEF Unattribute
  <2>2. QED BY <1>2, <1>6, <1>11, <2>1 DEF Unattribute, StageFits
<1>12. CASE CancelForUndone(w) \/ Started(w)
  BY <1>12 DEF CancelForUndone, Started, End
<1>13. CASE ReadCandidates(w)
  <2>1. sync'[w].at = "convert"
    BY <1>13 DEF ReadCandidates
  <2>2. QED BY <1>2, <1>7, <1>13, <2>1 DEF ReadCandidates, StageFits
<1>14. CASE CancelConverted(w)
  <2>1. sync'[w].at = "convert"
    BY <1>14 DEF CancelConverted
  <2>2. QED BY <1>2, <1>7, <1>14, <2>1 DEF CancelConverted, StageFits
<1>15. CASE Converted(w)
  <2>1. sync'[w].at = "attribute"
    BY <1>15 DEF Converted
  <2>2. QED BY <1>2, <1>7, <1>15, <2>1 DEF Converted, StageFits
<1>16. CASE Attribute(w)
  <2>1. sync'[w].at = "definitions"
    BY <1>16 DEF Attribute, End
  <2>2. QED BY <1>2, <1>7, <1>16, <2>1 DEF Attribute, StageFits
<1>17. CASE ReadDefinitions(w)
  <2>1. sync'[w].at = "start" /\ \A r \in sync'[w].runs : TriggerOf[r] = Order(w)
    BY <1>17 DEF ReadDefinitions
  <2>2. QED BY <1>2, <1>8, <1>17, <2>1 DEF ReadDefinitions, StageFits
<1>18. CASE StartRun(w)
  <2>1. sync'[w].at \in {"start", "steps"} /\ sync'[w].runs \subseteq sync[w].runs
    BY <1>18 DEF StartRun
  <2>2. QED BY <1>2, <1>8, <1>18, <2>1 DEF StartRun, StageFits
<1>19. CASE EnqueueStep(w)
  BY <1>2, <1>8, <1>19 DEF EnqueueStep, StageFits
<1>20. CASE NextRun(w)
  <2>1. sync'[w].at = "start" /\ sync'[w].runs = sync[w].runs
    BY <1>20 DEF NextRun
  <2>2. QED BY <1>2, <1>8, <1>20, <2>1 DEF NextRun, StageFits
<1>21. QED
  BY <1>9, <1>10, <1>11, <1>12, <1>13, <1>14, <1>15, <1>16, <1>17, <1>18, <1>19, <1>20 DEF Upsert

\* Every step keeps stages and snapshots in line.
LEMMA StepFits ==
    ASSUME TypeOK, [Next]_vars, NEW w \in Workers, StageFits(w)
    PROVE  StageFits(w)'
<1>1. CASE sync'[w] = Resting
  BY <1>1 DEF StageFits, Resting
<1>2. CASE sync'[w] = sync[w]
  <2>1. CASE sync[w].at = "rest"
    BY <1>2, <2>1 DEF StageFits
  <2>2. CASE sync[w].at # "rest"
    <3>1. Order(w) \in Orders /\ Seen(w) \in Snapshot(Order(w)) /\ shop[Order(w)] \in Snapshot(Order(w))
      BY <2>2, Busy DEF TypeOK
    <3>2. shop'[Order(w)] = shop[Order(w)] \/ shop'[Order(w)].n = shop[Order(w)].n + 1
      BY <3>1, ShopGrows
    <3>3. Seen(w).n <= shop'[Order(w)].n
      BY <2>2, <3>1, <3>2 DEF StageFits, Snapshot
    <3>4. QED BY <1>2, <3>3 DEF StageFits, Seen, Order, At
  <2>3. QED BY <2>1, <2>2
<1>3. ASSUME NEW o \in Orders, Fetch(w, o) PROVE StageFits(w)'
  <2>1. sync'[w].at = "fetched" /\ sync'[w].order = o /\ sync'[w].seen = shop[o] /\ shop' = shop
    BY <1>3 DEF Fetch, shopVars, TypeOK
  <2>2. shop[o].n \in Nat
    BY DEF TypeOK, Snapshot
  <2>3. QED BY <2>1, <2>2 DEF StageFits, Seen, Order, At
<1>4. CASE Upsert(w)
  BY <1>4, UpsertFits
<1>5. QED BY <1>1, <1>2, <1>3, <1>4, SyncStep


\* A reconciliation past the overlap stays alone with its order.
LEMMA LastStays ==
    ASSUME TypeOK, [Next]_vars, \A v \in Workers : StageFits(v), NEW w \in Workers, LastIsRight(w)
    PROVE  LastIsRight(w)'
<1> USE DEF At
<1>1. CASE sync'[w] = Resting
  BY <1>1 DEF LastIsRight, Resting
<1>2. ASSUME NEW o \in Orders, Fetch(w, o) PROVE LastIsRight(w)'
  <2>1. /\ sync'[w].at = "fetched" /\ sync'[w].order = o /\ sync'[w].seen = shop[o]
        /\ sync'[w].last = PastOverlap(o)
        /\ shop' = shop /\ sync[w].at = "rest"
    BY <1>2 DEF Fetch, shopVars, TypeOK
  <2>2. \A v \in Workers : v # w => sync'[v] = sync[v]
    BY <1>2 DEF Fetch, TypeOK
  <2>3. PastOverlap(o) => Fresh(o)
    BY DEF PastOverlap, Fresh, Resting
  <2>4. Fresh(o) => Fresh(o)'
    BY <2>1, <2>2 DEF Fresh, Order, Seen
  <2>5. QED BY <2>1, <2>3, <2>4 DEF LastIsRight, Order
<1>3. ASSUME sync[w].at # "rest", sync'[w].order = Order(w), sync'[w].seen = Seen(w),
             sync'[w].last = sync[w].last, sync[w].last, Seen(w) = shop'[Order(w)],
             sync'[w] = sync[w] \/ Upsert(w), sync'[w].at # "rest"
      PROVE  /\ Fresh(Order(w))'
             /\ sync'[w].at # "fetched" => RowAgrees(Order(w))'
             /\ sync'[w].at = "cancel" => Unattributed(Order(w))'
  <2>1. PICK o \in Orders : sync[w] \in SyncOf(o) /\ Order(w) = o
    BY <1>3, Busy
  <2>2. shop'[o] = shop[o]
    <3>1. Seen(w).n <= shop[o].n /\ shop[o].n \in Nat
      BY <1>3, <2>1 DEF StageFits, TypeOK, Snapshot
    <3>2. QED BY <1>3, <2>1, <3>1, ShopGrows
  <2>3. /\ Fresh(o)
        /\ sync[w].at # "fetched" => RowAgrees(o)
        /\ sync[w].at = "cancel" => Unattributed(o)
    BY <1>3, <2>1, <2>2 DEF LastIsRight, Unattributed
  <2>4. Fresh(o)'
    BY <2>2, <2>3, FreshStays
  <2>5. ASSUME sync'[w].at # "fetched" PROVE RowAgrees(o)'
    <3>1. CASE sync[w].at # "fetched"
      BY <2>2, <2>3, <3>1, RowStays
    <3>2. CASE sync[w].at = "fetched"
      <4>1. Commit(w)
        BY <1>3, <2>5, <3>2 DEF Upsert, CheckConsent, Unattribute, CancelForUndone, ReadCandidates,
           CancelConverted, Converted, Attribute, ReadDefinitions, StartRun, EnqueueStep, NextRun, Started
      <4>2. QED BY <1>3, <2>1, <2>2, <4>1 DEF Commit, RowAgrees, TypeOK, Seen
    <3>3. QED BY <3>1, <3>2
  <2>6. ASSUME sync'[w].at = "cancel" PROVE Unattributed(o)'
    <3>1. CASE sync[w].at = "cancel"
      BY <1>3, <2>1, <2>2, <2>3, <3>1, UnattributedStays DEF StageFits
    <3>2. CASE sync[w].at # "cancel"
      <4>1. Unattribute(w)
        <5> USE <2>1, <2>6, <3>2 DEF TypeOK, SyncOf, Goto
        <5>1. ~Commit(w) /\ ~ReadCandidates(w) /\ ~ReadDefinitions(w)
          BY DEF Commit, ReadCandidates, ReadDefinitions
        <5>2. ~CheckConsent(w) /\ ~Converted(w) /\ ~NextRun(w)
          BY DEF CheckConsent, Converted, NextRun
        <5>3. ~CancelForUndone(w) /\ ~Attribute(w) /\ ~Started(w)
          BY DEF CancelForUndone, Attribute, Started, End, Resting
        <5>4. StartRun(w) => sync'[w].at \in {"start", "steps"}
          BY DEF StartRun
        <5>5. CancelConverted(w) => sync'[w].at \in {"convert", "rest"}
          BY DEF CancelConverted, Resting
        <5>6. ~EnqueueStep(w)
          BY DEF EnqueueStep
        <5>7. QED BY <1>3, <5>1, <5>2, <5>3, <5>4, <5>5, <5>6 DEF Upsert
      <4>2. kept' = kept \cup {o} \/ o \notin attributed'
        BY <2>1, <4>1 DEF Unattribute
      <4>3. QED BY <4>2 DEF Unattributed
    <3>3. QED BY <3>1, <3>2
  <2>7. QED BY <1>3, <2>1, <2>4, <2>5, <2>6 DEF Order
<1>4. CASE sync[w].at = "rest" /\ sync'[w] = sync[w]
  BY <1>4 DEF LastIsRight
<1>5. CASE /\ sync[w].at # "rest" /\ sync'[w].order = Order(w) /\ sync'[w].seen = Seen(w)
           /\ sync'[w].last = sync[w].last
           /\ sync'[w] = sync[w] \/ Upsert(w)
  BY <1>3, <1>5 DEF LastIsRight, Unattributed, Order, Seen
<1>6. QED BY <1>1, <1>2, <1>4, <1>5, SyncStep DEF Order, Seen

\* Only the end of a reconciliation past the overlap takes an order out of the window.
LEMMA WhoLeaves ==
    ASSUME TypeOK, [Next]_vars, NEW o \in window, o \notin window'
    PROVE  \E w \in Workers : /\ CancelForUndone(w) \/ Attribute(w) \/ Started(w)
                              /\ Order(w) = o /\ sync[w].last /\ Seen(w) = shop[o]
<1>1. PICK w \in Workers : CancelForUndone(w) \/ Attribute(w) \/ Started(w)
  BY DEF Next, vars, shopVars, ShopifyChanges, Fetch, Upsert, Commit, CheckConsent, Unattribute,
         ReadCandidates, CancelConverted, Converted, ReadDefinitions, StartRun,
         EnqueueStep, NextRun, SyncsFail, PauseDefinition, ActivateDefinition
<1>2. sync[w].last /\ Seen(w) = shop[Order(w)] /\ window' = window \ {Order(w)}
  BY <1>1 DEF CancelForUndone, Attribute, Started, End
<1>3. QED BY <1>1, <1>2

\* The order it leaves behind is settled.
LEMMA LeaverSettled ==
    ASSUME TypeOK, TypeOK', [Next]_vars, \A v \in Workers : StageFits(v) /\ LastIsRight(v),
           NEW o \in Orders, o \in window, o \notin window'
    PROVE  Settled(o)'
<1>1. PICK w \in Workers : /\ CancelForUndone(w) \/ Attribute(w) \/ Started(w)
                           /\ Order(w) = o /\ sync[w].last /\ Seen(w) = shop[o]
  BY WhoLeaves
<1>2. sync[w].at \in {"cancel", "attribute", "start"} /\ o \in Orders
  BY <1>1 DEF CancelForUndone, Attribute, Started, At, TypeOK
<1>3. Fresh(o) /\ RowAgrees(o)
  BY <1>1, <1>2 DEF LastIsRight, At
<1>4. shop' = shop
  BY <1>1 DEF CancelForUndone, Attribute, Started
<1>5. Fresh(o)' /\ RowAgrees(o)'
  BY <1>2, <1>3, <1>4, FreshStays, RowStays
<1>6. ASSUME shop[o].status = "undone" PROVE IsUndone(o)'
  <2>1. Undone(Seen(w))
    BY <1>1, <1>6 DEF Undone
  <2>2. CancelForUndone(w)
    BY <1>1, <1>2, <2>1 DEF CancelForUndone, Attribute, Started, At, StageFits
  <2>3. o \in attributed => o \in kept
    BY <1>1, <1>2, <2>2 DEF LastIsRight, CancelForUndone, At
  <2>4. \A r \in Runs : runState'[r] \notin LiveRun
    BY <2>2 DEF CancelForUndone, CancelCustomerWork, CancelRuns, MoveRuns, LiveRun, TypeOK
  <2>5. QED BY <2>2, <2>3, <2>4 DEF IsUndone, CancelForUndone, rowVars
<1>7. (RowAgrees(o) /\ Fresh(o) /\ (shop[o].status = "undone" => IsUndone(o)))'
  BY <1>4, <1>5, <1>6
<1>8. QED
  <2>1. (TypeOK /\ o \in Orders
           => (Settled(o) <=> RowAgrees(o) /\ Fresh(o) /\ (shop[o].status = "undone" => IsUndone(o))))'
    BY SettledParts, PTL
  <2>2. QED BY <1>2, <1>7, <2>1

\* Snapshots, the reconciliation past the overlap and the orders it has left behind.
THEOREM OrdersInvariant == Spec => []OrdersInv
<1>1. Init /\ TypeOK => OrdersInv
  BY DEF Init, OrdersInv, StageFits, LastIsRight, WhatLeavesIsSettled, Resting
<1>2. OrdersInv /\ TypeOK /\ TypeOK' /\ [Next]_vars => OrdersInv'
  <2> SUFFICES ASSUME OrdersInv, TypeOK, TypeOK', [Next]_vars PROVE OrdersInv'
    OBVIOUS
  <2>1. ASSUME NEW w \in Workers PROVE StageFits(w)' /\ LastIsRight(w)'
    BY StepFits, LastStays DEF OrdersInv
  <2>2. ASSUME NEW o \in Orders, o \notin window' PROVE Settled(o)'
    <3>1. CASE o \in window
      BY <2>2, <3>1, LeaverSettled DEF OrdersInv
    <3>2. CASE o \notin window
      <4>1. Settled(o) /\ shop'[o] = shop[o]
        BY <2>2, <3>2, ShopGrows DEF OrdersInv, WhatLeavesIsSettled
      <4>2. QED BY <4>1, SettledStays DEF OrdersInv
    <3>3. QED BY <3>1, <3>2
  <2>3. QED BY <2>1, <2>2 DEF OrdersInv, WhatLeavesIsSettled
<1>3. QED BY <1>1, <1>2, OrdersTypeCorrect, PTL DEF Spec

\* An order that nothing will fetch any more needs no fetch: what takes an order out of
\* the window is the end of a reconciliation that had it to itself.
THEOREM LeavesSettled == Spec => []WhatLeavesIsSettled
<1>1. OrdersInv => WhatLeavesIsSettled
  BY DEF OrdersInv
<1>2. QED BY <1>1, OrdersInvariant, PTL

\* An order for which nothing is left to do stays so until it changes at Shopify.
THEOREM SettledStaysSettled == Spec => SettledForGood
<1>1. OrdersInv /\ TypeOK /\ TypeOK' /\ [Next]_vars
        => \A o \in Orders : Settled(o) /\ shop'[o] = shop[o] => Settled(o)'
  BY SettledStays DEF OrdersInv
<1>2. (\A o \in Orders : Settled(o) /\ shop'[o] = shop[o] => Settled(o)')
        => [\A o \in Orders : Settled(o) /\ shop'[o] = shop[o] => Settled(o)']_vars
  OBVIOUS
<1>3. QED BY <1>1, <1>2, OrdersInvariant, OrdersTypeCorrect, PTL DEF Spec, SettledForGood

\* One reconciliation past the overlap suffices: an order that has been left behind and
\* does not change any more has its row, and if it is undone, what it did, right for good.
THEOREM OneReconciliationSuffices ==
    ASSUME NEW o \in Orders
    PROVE  Spec /\ <>(o \notin window /\ [][shop'[o] = shop[o]]_vars)
             => <>[](RowAgrees(o) /\ (shop[o].status = "undone" => IsUndone(o)))
<1>1. OrdersInv /\ o \notin window => Settled(o)
  BY DEF OrdersInv, WhatLeavesIsSettled
<1>2. OrdersInv /\ TypeOK /\ TypeOK' /\ [Next]_vars /\ [shop'[o] = shop[o]]_vars /\ Settled(o)
        => Settled(o)'
  <2>1. vars' = vars => shop'[o] = shop[o]
    BY DEF vars, shopVars
  <2>2. QED BY <2>1, SettledStays DEF OrdersInv
<1>3. Settled(o) => RowAgrees(o) /\ (shop[o].status = "undone" => IsUndone(o))
  BY DEF Settled
<1>4. QED BY <1>1, <1>2, <1>3, OrdersInvariant, OrdersTypeCorrect, PTL DEF Spec

\* What convergence is owed to: where the reconciliations leave every order behind, the
\* rows converge and undone orders are undone, whatever the handlers do.
THEOREM ConvergesWhenLeft ==
    ASSUME NEW o \in Orders
    PROVE  Spec /\ <>[](o \notin window)
             => <>[]RowAgrees(o) /\ (shop[o].status = "undone" ~> []IsUndone(o))
<1>1. OrdersInv /\ o \notin window => RowAgrees(o) /\ (shop[o].status = "undone" => IsUndone(o))
  BY DEF OrdersInv, WhatLeavesIsSettled, Settled
<1>2. TypeOK /\ [Next]_vars /\ shop[o].status = "undone" => (shop[o].status = "undone")'
  <2> SUFFICES ASSUME TypeOK, [Next]_vars, shop[o].status = "undone" PROVE shop'[o].status = "undone"
    OBVIOUS
  <2> USE DEF shopVars
  <2>1. ASSUME NEW p \in Orders, ShopifyChanges(p) PROVE shop'[o].status = "undone"
    BY <2>1 DEF ShopifyChanges, TypeOK
  <2>2. ASSUME NEW w \in Workers, Upsert(w) PROVE shop' = shop
    BY <2>2, UpsertSync
  <2>3. QED BY <2>1, <2>2 DEF Next, vars, Fetch, SyncsFail, PauseDefinition, ActivateDefinition
<1>3. QED BY <1>1, <1>2, OrdersInvariant, OrdersTypeCorrect, PTL DEF Spec

-----------------------------------------------------------------------------
(* The job queue *)

\* The steps a worker enqueues are those of a run that exists.
EnqueuesForRun(w) ==
    sync[w].at = "steps" => \A j \in Missing(sync[w].run) : runState[RunOf[j]] # "absent"

\* The bulk updates are the queue's.
LEMMA MovesOfQueue ==
    ASSUME TypeOK, NEW R \in SUBSET Runs
    PROVE  /\ PauseRuns(R) => Queue!PauseRuns(R)
           /\ ResumeRuns(R) => Queue!ResumeRuns(R)
           /\ CancelRuns(R) => Queue!CancelRuns(R, Queue!JobsOfRuns(R))
BY DEF PauseRuns, ResumeRuns, CancelRuns, MoveRuns, Queue!PauseRuns, Queue!ResumeRuns, Queue!CancelRuns,
       Queue!MoveRuns, Queue!MoveJobs, Queue!JobsOfRuns, Queue!Waiting, Queue!Cancellable, Queue!LiveRun,
       Queue!workerVars, Waiting, LiveRun, TypeOK, JobStates, idle

\* Every step of a synchronisation or of the operator is a step of the queue, or none.
LEMMA QueueSteps ==
    ASSUME TypeOK, [Next]_vars, \A w \in Workers : EnqueuesForRun(w)
    PROVE  [Queue!Next]_(Queue!vars)
<1> USE DEF Queue!Next, Queue!ControlStep
<1>1. ASSUME UNCHANGED queueVars PROVE UNCHANGED Queue!vars
  BY <1>1 DEF queueVars, Queue!vars, idle
<1>2. ASSUME NEW n \in Names, PauseDefinition(n) \/ ActivateDefinition(n)
      PROVE  Queue!PauseDefinition(n) \/ Queue!ActivateDefinition(n)
  BY <1>2, MovesOfQueue DEF PauseDefinition, ActivateDefinition, Queue!PauseDefinition,
     Queue!ActivateDefinition, Queue!RunsNamed
<1>3. ASSUME CancelCustomerWork PROVE Queue!CancelCustomerWork(Customer)
  <2>1. Queue!CustomerRuns(Customer) = Runs
    BY DEF Queue!CustomerRuns
  <2>2. Queue!CustomerJobs(Customer) = Queue!JobsOfRuns(Runs)
    BY <2>1 DEF Queue!CustomerJobs, Queue!JobsOfRuns
  <2>3. QED BY <1>3, <2>1, <2>2, MovesOfQueue DEF CancelCustomerWork, Queue!CancelCustomerWork
<1>4. ASSUME NEW r \in Runs, runState[r] \in LiveRun, CancelRuns({r}) PROVE Queue!CancelWorkflow(r)
  BY <1>4, MovesOfQueue DEF Queue!CancelWorkflow, Queue!LiveRun, LiveRun
<1>5. ASSUME NEW r \in Runs, runState[r] = "absent", runState' = [runState EXCEPT ![r] = "active"],
             UNCHANGED jobState
      PROVE  Queue!StartRun(r)
  BY <1>5 DEF Queue!StartRun, Queue!jobVars, Queue!workerVars, idle
<1>6. ASSUME NEW j \in Steps, jobState[j] = "absent", jobState' = [jobState EXCEPT ![j] = "scheduled"],
             UNCHANGED runState, runState[RunOf[j]] # "absent"
      PROVE  Queue!EnqueueJobs({j}) /\ {j} \in Queue!Batches
  BY <1>6 DEF Queue!EnqueueJobs, Queue!Batches, Queue!MoveJobs, Queue!workerVars, idle, TypeOK
<1>7. ASSUME NEW w \in Workers, Upsert(w) PROVE Queue!Next \/ UNCHANGED queueVars
  <2>1. CASE CheckConsent(w) \/ CancelForUndone(w)
    BY <1>3, <2>1 DEF CheckConsent, CancelForUndone
  <2>2. CASE CancelConverted(w)
    <3>1. sync[w].runs \subseteq Runs
      BY <2>2, UpsertSync, Busy, <1>7 DEF SyncOf
    <3>2. QED BY <1>4, <2>2, <3>1 DEF CancelConverted, queueVars
  <2>3. CASE StartRun(w)
    <3>1. sync[w].runs \subseteq Runs
      BY <2>3, UpsertSync, Busy, <1>7 DEF SyncOf
    <3>2. QED BY <1>5, <2>3, <3>1 DEF StartRun, queueVars
  <2>4. CASE EnqueueStep(w)
    <3>1. PICK j \in Missing(sync[w].run) : jobState' = [jobState EXCEPT ![j] = "scheduled"]
      BY <2>4 DEF EnqueueStep
    <3>2. jobState[j] = "absent" /\ runState[RunOf[j]] # "absent" /\ j \in Steps
      BY <2>4 DEF EnqueueStep, At, EnqueuesForRun, Missing
    <3>3. QED BY <1>6, <2>4, <3>1, <3>2 DEF EnqueueStep
  <2>5. CASE Commit(w) \/ Unattribute(w) \/ ReadCandidates(w) \/ Converted(w) \/ Attribute(w)
             \/ ReadDefinitions(w) \/ NextRun(w) \/ Started(w)
    BY <2>5 DEF Commit, Unattribute, ReadCandidates, Converted, Attribute, ReadDefinitions, NextRun, Started
  <2>6. QED BY <1>7, <2>1, <2>2, <2>3, <2>4, <2>5 DEF Upsert
<1>8. CASE UNCHANGED queueVars
  BY <1>1, <1>8
<1>9. QED
  BY <1>1, <1>2, <1>7, <1>8 DEF Next, vars, ShopifyChanges, Fetch, SyncsFail

\* A run, once started, stays in the table while its steps are enqueued.
LEMMA EnqueuesStep ==
    ASSUME TypeOK, [Next]_vars, NEW w \in Workers, EnqueuesForRun(w)
    PROVE  EnqueuesForRun(w)'
<1> USE DEF queueVars
<1>1. ASSUME NEW R, PauseRuns(R) \/ ResumeRuns(R) \/ CancelRuns(R)
      PROVE  /\ \A r \in Runs : runState[r] # "absent" => runState'[r] # "absent"
             /\ \A j \in Steps : jobState'[j] = "absent" => jobState[j] = "absent"
  BY <1>1 DEF PauseRuns, ResumeRuns, CancelRuns, MoveRuns, TypeOK
<1>2. /\ \A r \in Runs : runState[r] # "absent" => runState'[r] # "absent"
      /\ \A j \in Steps : jobState'[j] = "absent" => jobState[j] = "absent"
  <2>1. CASE UNCHANGED queueVars
    BY <2>1
  <2>2. ASSUME NEW n \in Names, PauseDefinition(n) \/ ActivateDefinition(n)
        PROVE  \E R : PauseRuns(R) \/ ResumeRuns(R) \/ CancelRuns(R)
    BY <2>2 DEF PauseDefinition, ActivateDefinition
  <2>3. ASSUME NEW v \in Workers, CheckConsent(v) \/ CancelForUndone(v) \/ CancelConverted(v)
        PROVE  (\E R : PauseRuns(R) \/ ResumeRuns(R) \/ CancelRuns(R)) \/ UNCHANGED queueVars
    BY <2>3 DEF CheckConsent, CancelForUndone, CancelConverted, CancelCustomerWork
  <2>4. ASSUME NEW v \in Workers, StartRun(v) \/ EnqueueStep(v)
        PROVE  /\ \A r \in Runs : runState[r] # "absent" => runState'[r] # "absent"
               /\ \A j \in Steps : jobState'[j] = "absent" => jobState[j] = "absent"
    BY <2>4 DEF StartRun, EnqueueStep, TypeOK
  <2>5. \/ UNCHANGED queueVars
        \/ \E n \in Names : PauseDefinition(n) \/ ActivateDefinition(n)
        \/ \E v \in Workers : \/ CheckConsent(v) \/ CancelForUndone(v) \/ CancelConverted(v)
                              \/ StartRun(v) \/ EnqueueStep(v)
    BY DEF Next, vars, ShopifyChanges, Fetch, SyncsFail, Upsert, Commit, Unattribute, ReadCandidates,
       Converted, Attribute, ReadDefinitions, NextRun, Started
  <2>6. QED BY <1>1, <2>1, <2>2, <2>3, <2>4, <2>5
<1>3. CASE sync'[w] = sync[w]
  BY <1>2, <1>3 DEF EnqueuesForRun, Missing
<1>4. CASE sync'[w] = Resting
  BY <1>4 DEF EnqueuesForRun, Resting
<1>5. ASSUME NEW o \in Orders, Fetch(w, o) PROVE EnqueuesForRun(w)'
  BY <1>5 DEF Fetch, EnqueuesForRun, TypeOK
<1>6. ASSUME Upsert(w), sync'[w].at = "steps", sync'[w] # sync[w] PROVE EnqueuesForRun(w)'
  <2> USE DEF TypeOK, SyncOf, At, Goto
  <2>1. PICK o \in Orders : sync[w] \in SyncOf(o)
    BY <1>6, UpsertSync, Busy
  <2>2. ~Commit(w) /\ ~CheckConsent(w) /\ ~Unattribute(w)
    BY <1>6, <2>1 DEF Commit, CheckConsent, Unattribute
  <2>3. ~CancelForUndone(w) /\ ~Attribute(w) /\ ~Started(w)
    BY <1>6, <2>1 DEF CancelForUndone, Attribute, Started, End, Resting
  <2>4. ~ReadCandidates(w) /\ ~Converted(w)
    BY <1>6, <2>1 DEF ReadCandidates, Converted
  <2>5. CancelConverted(w) => sync'[w].at \in {"convert", "rest"}
    BY <2>1 DEF CancelConverted, Resting
  <2>6. ~ReadDefinitions(w) /\ ~NextRun(w)
    BY <1>6, <2>1 DEF ReadDefinitions, NextRun
  <2>7. ~EnqueueStep(w)
    BY <1>6 DEF EnqueueStep
  <2>8. StartRun(w)
    BY <1>6, <2>2, <2>3, <2>4, <2>5, <2>6, <2>7 DEF Upsert
  <2>9. PICK r \in sync[w].runs :
           \/ /\ runState' = [runState EXCEPT ![r] = "active"]
              /\ sync' = [sync EXCEPT ![w].at = "steps", ![w].run = r, ![w].runs = @ \ {r}]
           \/ sync' = [sync EXCEPT ![w].runs = @ \ {r}]
    BY <2>8 DEF StartRun
  <2>10. sync[w].at = "start"
    BY <2>8 DEF StartRun
  <2>11. sync'[w].run = r /\ runState'[r] = "active"
    BY <1>6, <2>1, <2>9, <2>10
  <2>12. QED BY <2>11 DEF EnqueuesForRun, Missing
<1>7. QED BY <1>3, <1>4, <1>5, <1>6, SyncStep DEF EnqueuesForRun

\* The synchronisation of orders uses the job queue as the queue's module says.
THEOREM OrdersImplementQueue == Spec => QueueSpec
<1>1. Init => Queue!Init /\ \A w \in Workers : EnqueuesForRun(w)
  BY DEF Init, Queue!Init, EnqueuesForRun, Resting, idle
<1>2. TypeOK /\ (\A w \in Workers : EnqueuesForRun(w)) /\ [Next]_vars
        => [Queue!Next]_(Queue!vars) /\ (\A w \in Workers : EnqueuesForRun(w))'
  BY QueueSteps, EnqueuesStep
<1>3. QED BY <1>1, <1>2, OrdersTypeCorrect, PTL DEF Spec, QueueSpec, Queue!Spec
=============================================================================
