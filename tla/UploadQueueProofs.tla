-------------------------- MODULE UploadQueueProofs --------------------------
(***************************************************************************)
(* Proofs about UploadQueue for every number of jobs, every set of items,  *)
(* accounts, options and conditions, and any number of crashes: types,     *)
(* durability, forbidden uploads, commit requests; and that the engine     *)
(* implements the ledger of its file and leaves no job in progress without *)
(* a goroutine.                                                            *)
(***************************************************************************)
EXTENDS UploadQueue, TLAPS, FiniteSetTheorems

-----------------------------------------------------------------------------
(* What the operators on jobs and stores return *)

\* Items is not empty, so the item of a job not listed is an item.
LEMMA AnItemIsItem == AnItem \in Items
  BY ItemsAssumption DEF AnItem

LEMMA BlankIsJob == \A x \in Items : Blank(x) \in Job /\ Blank(x).state = "none"
  BY DEF Blank, Job, JobStates

\* Replacing one job by a job keeps a store a store.
LEMMA WithIsStore ==
  ASSUME NEW m \in Stores, NEW i \in Ids, NEW j \in Job
  PROVE  With(m, i, j) \in Stores
  BY DEF With, Stores

\* Replacing all jobs by jobs keeps a store a store.
LEMMA JobsAreStore ==
  ASSUME NEW m \in Stores, NEW js \in [Ids -> Job]
  PROVE  [m EXCEPT !.jobs = js] \in Stores
  BY DEF Stores

LEMMA JobOfStore ==
  ASSUME NEW m \in Stores, NEW i \in Ids
  PROVE  m.jobs[i] \in Job
  BY DEF Stores

\* A job whose state or one of whose flags is replaced is a job.
LEMMA FlagChangeIsJob ==
  ASSUME NEW j \in Job
  PROVE  [j EXCEPT !.cancelRequested = TRUE] \in Job /\ [j EXCEPT !.backoff = FALSE] \in Job
  BY DEF Job

LEMMA StateChangeIsJob ==
  ASSUME NEW j \in Job, NEW s \in JobStates
  PROVE  [j EXCEPT !.state = s] \in Job
  BY DEF Job

LEMMA RecoveredIsStore ==
  ASSUME NEW m \in Stores
  PROVE  Recovered(m) \in Stores
<1>1. \A i \in Ids : RecoveredJob(m.jobs[i]) \in Job
  BY DEF RecoveredJob, RecoveredState, Stores, Job, JobStates, InProgress, Terminal
<1> QED
  BY <1>1, JobsAreStore DEF Recovered

LEMMA UnspentIsJob ==
  ASSUME NEW j \in Job
  PROVE  Unspent(j) \in Job
<1> DEFINE n == IF j.attempts > 0 THEN j.attempts - 1 ELSE j.attempts
<1>1. n \in Nat
  BY DEF Job
<1>2. Unspent(j) = [j EXCEPT !.state = "pending", !.attempts = n]
  BY DEF Unspent
<1> HIDE DEF n
<1>3. [j EXCEPT !.state = "pending", !.attempts = n] \in Job
  BY <1>1 DEF Job, JobStates
<1> QED
  BY <1>2, <1>3

LEMMA EndedIsJob ==
  ASSUME NEW j \in Job, NEW o
  PROVE  EndedJob(j, o) \in Job
<1>1. [Unspent(j) EXCEPT !.backoff = FALSE] \in Job
  BY UnspentIsJob DEF Job
<1>2. [j EXCEPT !.state = "pending", !.backoff = TRUE] \in Job
  BY DEF Job, JobStates
<1> QED
  BY <1>1, <1>2, UnspentIsJob, StateChangeIsJob DEF EndedJob, JobStates, Terminal

LEMMA ResetIsJob ==
  ASSUME NEW j \in Job
  PROVE  ResetRetry(j) \in Job
  BY DEF ResetRetry, Job, JobStates

LEMMA StartedIsStore ==
  ASSUME mem \in Stores, NEW S
  PROVE  Started(S) \in Stores
<1>1. \A i \in Ids : StartedJob(mem.jobs[i]) \in Job
  <2> TAKE i \in Ids
  <2> DEFINE j == mem.jobs[i]
             n == j.attempts + 1
             p == IF j.item.quality = "original" THEN 1 ELSE j.originalPolicy
  <2>1. j \in Job
    BY DEF Stores
  <2>2. n \in Nat /\ p \in {0, 1}
    BY <2>1 DEF Job
  <2>3. StartedJob(j) = [j EXCEPT !.state = "preparing", !.attempts = n, !.originalPolicy = p]
    BY DEF StartedJob
  <2> HIDE DEF j, n, p
  <2>4. [j EXCEPT !.state = "preparing", !.attempts = n, !.originalPolicy = p] \in Job
    BY <2>1, <2>2 DEF Job, JobStates, InProgress
  <2> QED
    BY <2>3, <2>4 DEF j
<1>2. [i \in Ids |-> IF i \in S THEN StartedJob(mem.jobs[i]) ELSE mem.jobs[i]] \in [Ids -> Job]
  BY <1>1 DEF Stores
<1> QED
  BY <1>2, JobsAreStore DEF Started

-----------------------------------------------------------------------------
(* Type correctness *)

\* Whether a save succeeds or not, memory and file hold stores.
LEMMA SaveKeepsStores ==
  ASSUME TypeOK, NEW m \in Stores, Save(m)
  PROVE  mem' \in Stores /\ disk' \in Stores /\ fault' \in BOOLEAN
  BY DEF Save, Saved, SaveFailed, TypeOK

Files == [Ids -> {"none", "partial", "full", "synced"}]

LEMMA RemovedAreFiles ==
  ASSUME NEW files \in Files, NEW S
  PROVE  Removed(files, S) \subseteq Files
  BY DEF Removed, Files

LEMMA SaveThenRemoveTypes ==
  ASSUME TypeOK, NEW m \in Stores, NEW files \in Files, NEW S, SaveThenRemove(m, files, S)
  PROVE  mem' \in Stores /\ disk' \in Stores /\ fault' \in BOOLEAN /\ media' \in Files
  BY RemovedAreFiles DEF SaveThenRemove, Saved, SaveFailed, TypeOK

\* The first state is well typed.
LEMMA InitTypeOK == Init => TypeOK
<1> SUFFICES ASSUME Init PROVE TypeOK
  OBVIOUS
<1>1. NewStore \in Stores
  BY AnItemIsItem, BlankIsJob, OptionsAssumption DEF NewStore, Stores
<1>2. 1 \in Ids
  BY BoundsAssumption DEF Ids
<1>3. \A x \in LegacyItems : [Blank(x) EXCEPT !.state = "completed", !.attempts = 1,
                                             !.sealed = TRUE] \in Job
  BY ItemsAssumption DEF Blank, Job, JobStates, Terminal
<1>4. disk \in Stores
  BY <1>1, <1>2, <1>3, WithIsStore DEF Init, LegacyStores
<1>5. Cardinality(Listed(disk)) \in 0..MaxIds
  <2>1. IsFiniteSet(Ids) /\ Cardinality(Ids) = MaxIds
    BY FS_Interval, BoundsAssumption DEF Ids
  <2>2. Listed(disk) \subseteq Ids
    BY DEF Listed
  <2>3. IsFiniteSet(Listed(disk)) /\ Cardinality(Listed(disk)) <= MaxIds
    BY <2>1, <2>2, FS_Subset
  <2>4. Cardinality(Listed(disk)) \in Nat
    BY <2>3, FS_CardinalityType
  <2> QED
    BY <2>3, <2>4, BoundsAssumption
<1>6. mem \in Stores /\ issued \in 0..MaxIds /\ crashes \in 0..MaxCrashes
  BY <1>4, <1>5, BoundsAssumption DEF Init
<1>7. cond \in Conditions
  BY DEF Init, Conditions, Offline
<1>8. /\ run \in [Ids -> {"off", "sent"} \cup InProgress]
      /\ media \in [Ids -> {"none", "partial", "full", "synced"}]
      /\ sent \in [Ids -> Nat] /\ failures \in [Ids -> Nat]
  BY DEF Init
<1> QED
  BY <1>4, <1>6, <1>7, <1>8 DEF Init, TypeOK

\* Every step keeps the types.
LEMMA StepTypeOK == TypeOK /\ [Next]_vars => TypeOK'
<1> SUFFICES ASSUME TypeOK, [Next]_vars PROVE TypeOK'
  OBVIOUS
<1> USE DEF TypeOK, engineVars, runVars, importVars, accountVars, ghostVars
<1>1. ASSUME NEW x \in Items, Begin(x) PROVE TypeOK'
  <2> DEFINE i == issued + 1
             m == With(mem, i, [Blank(x) EXCEPT !.state = "importing"])
  <2>1. i \in Ids /\ i \in 0..MaxIds
    BY <1>1, BoundsAssumption DEF Begin, Ids
  <2>2. [Blank(x) EXCEPT !.state = "importing"] \in Job
    BY BlankIsJob, StateChangeIsJob DEF JobStates
  <2>3. m \in Stores
    BY <2>1, <2>2, WithIsStore
  <2>4. Save(m)
    BY <1>1 DEF Begin
  <2>5. mem' \in Stores /\ disk' \in Stores /\ fault' \in BOOLEAN
    BY <2>3, <2>4, SaveKeepsStores
  <2> QED
    BY <1>1, <2>1, <2>5 DEF Begin
<1>2. ASSUME NEW i \in Ids, AppendLast(i) PROVE TypeOK'
  BY <1>2 DEF AppendLast
<1>3. ASSUME NEW i \in Ids, Seal(i) PROVE TypeOK'
  <2> DEFINE j == mem.jobs[i]
             synced == [media EXCEPT ![i] = "synced"]
             queued == [j EXCEPT !.sealed = TRUE, !.state = "pending"]
             dropped == [j EXCEPT !.state = "cancelled"]
  <2>1. j \in Job
    BY DEF Stores
  <2>2. queued \in Job /\ dropped \in Job
    BY <2>1 DEF Job, JobStates, Terminal
  <2>3. With(mem, i, queued) \in Stores /\ With(mem, i, dropped) \in Stores
    BY <2>2, WithIsStore
  <2>4. synced \in Files
    BY DEF Files
  <2>5. \/ Save(With(mem, i, queued)) /\ media' = synced
        \/ SaveThenRemove(With(mem, i, dropped), synced, {i})
    BY <1>3 DEF Seal
  <2>6. mem' \in Stores /\ disk' \in Stores /\ fault' \in BOOLEAN /\ media' \in Files
    BY <2>3, <2>4, <2>5, SaveKeepsStores, SaveThenRemoveTypes
  <2> QED
    BY <1>3, <2>6 DEF Seal, Files
<1>4. ASSUME NEW i \in Ids, Cancel(i) PROVE TypeOK'
  <2> DEFINE j == [mem.jobs[i] EXCEPT !.cancelRequested = TRUE]
             dropped == [j EXCEPT !.state = "cancelled"]
  <2>1. j \in Job
    BY JobOfStore, FlagChangeIsJob
  <2>2. With(mem, i, j) \in Stores /\ With(mem, i, dropped) \in Stores
    BY <2>1, StateChangeIsJob, WithIsStore DEF JobStates, Terminal
  <2>3. \/ Save(With(mem, i, j)) /\ UNCHANGED media
        \/ SaveThenRemove(With(mem, i, dropped), media, {i})
    BY <1>4 DEF Cancel
  <2>4. mem' \in Stores /\ disk' \in Stores /\ fault' \in BOOLEAN /\ media' \in Files
    BY <2>2, <2>3, SaveKeepsStores, SaveThenRemoveTypes DEF Files
  <2> QED
    BY <1>4, <2>4 DEF Cancel, Files
<1>5. ASSUME NEW S, RetryAll(S) PROVE TypeOK'
  <2> DEFINE js == [i \in Ids |-> IF i \in S THEN ResetRetry(mem.jobs[i]) ELSE mem.jobs[i]]
  <2>1. js \in [Ids -> Job]
    BY ResetIsJob DEF Stores
  <2>2. [mem EXCEPT !.jobs = js] \in Stores
    BY <2>1, JobsAreStore
  <2>3. Save([mem EXCEPT !.jobs = js])
    BY <1>5 DEF RetryAll
  <2>4. mem' \in Stores /\ disk' \in Stores /\ fault' \in BOOLEAN
    BY <2>2, <2>3, SaveKeepsStores
  <2> QED
    BY <1>5, <2>4 DEF RetryAll
<1>6. CASE ClearCompleted
  <2> DEFINE done == {i \in Ids : mem.jobs[i].state \in Terminal}
             js == [i \in Ids |-> IF i \in done THEN Blank(AnItem) ELSE mem.jobs[i]]
  <2>1. js \in [Ids -> Job]
    BY AnItemIsItem, BlankIsJob DEF Stores
  <2>2. [mem EXCEPT !.jobs = js] \in Stores
    BY <2>1, JobsAreStore
  <2>3. Save([mem EXCEPT !.jobs = js])
    BY <1>6 DEF ClearCompleted
  <2>4. mem' \in Stores /\ disk' \in Stores /\ fault' \in BOOLEAN
    BY <2>2, <2>3, SaveKeepsStores
  <2> QED
    BY <1>6, <2>4 DEF ClearCompleted
<1>7. ASSUME NEW c \in ConditionSet, ReportConditions(c) PROVE TypeOK'
  BY <1>7, OptionsAssumption DEF ReportConditions, Active
<1>8. ASSUME NEW o \in OptionSet, Configure(o) PROVE TypeOK'
  <2>1. [mem EXCEPT !.options = o] \in Stores
    BY DEF Stores
  <2>2. mem' \in Stores /\ disk' \in Stores /\ fault' \in BOOLEAN
    BY <1>8, <2>1, SaveKeepsStores DEF Configure
  <2> QED
    BY <1>8, <2>2 DEF Configure, Active
<1>9. ASSUME NEW a \in Accounts, AddAccount(a) \/ RemoveAccount(a) PROVE TypeOK'
  BY <1>9 DEF AddAccount, RemoveAccount
<1>10. CASE Tick
  <2>1. mem' \in Stores /\ disk' \in Stores /\ fault' \in BOOLEAN
    BY <1>10, StartedIsStore DEF Tick, Saved
  <2>2. ASSUME NEW S, Launch(S) PROVE run' \in [Ids -> {"off", "sent"} \cup InProgress]
    BY <2>2 DEF Launch, InProgress
  <2>3. run' \in [Ids -> {"off", "sent"} \cup InProgress]
    BY <1>10, <2>2 DEF Tick
  <2> QED
    BY <1>10, <2>1, <2>3 DEF Tick
<1>11. ASSUME NEW i \in Ids, BackoffEnds(i) PROVE TypeOK'
  <2>1. \A s \in Stores : With(s, i, [s.jobs[i] EXCEPT !.backoff = FALSE]) \in Stores
    BY JobOfStore, FlagChangeIsJob, WithIsStore
  <2> QED
    BY <1>11, <2>1 DEF BackoffEnds
<1>12. ASSUME NEW i \in Ids, NEW phase \in InProgress, Progress(i, phase) PROVE TypeOK'
  <2> DEFINE m == With(mem, i, [mem.jobs[i] EXCEPT !.state = phase])
  <2>1. m \in Stores
    BY JobOfStore, StateChangeIsJob, WithIsStore DEF JobStates
  <2>2. Save(m)
    BY <1>12 DEF Progress, Save
  <2>3. mem' \in Stores /\ disk' \in Stores /\ fault' \in BOOLEAN
    BY <2>1, <2>2, SaveKeepsStores
  <2> QED
    BY <1>12, <2>3 DEF Progress
<1>13. ASSUME NEW i \in Ids, SendCommit(i) PROVE TypeOK'
  BY <1>13 DEF SendCommit
<1>14. ASSUME NEW i \in Ids, NEW o \in Outcomes, Finish(i, o) PROVE TypeOK'
  <2> DEFINE j == EndedJob(mem.jobs[i], o)
             w == With(mem, i, j)
             r == IF o = "key" THEN w.rev + 1 ELSE w.rev
             m == [w EXCEPT !.rev = r]
             S == IF j.state \in Terminal THEN {i} ELSE {}
  <2>1. w \in Stores
    BY EndedIsJob, WithIsStore DEF Stores
  <2>2. m \in Stores
    BY <2>1 DEF Stores
  <2>3. SaveThenRemove(m, media, S)
    BY <1>14 DEF Finish
  <2>4. mem' \in Stores /\ disk' \in Stores /\ fault' \in BOOLEAN /\ media' \in Files
    BY <2>2, <2>3, SaveThenRemoveTypes DEF Files
  <2>5. run' \in [Ids -> {"off", "sent"} \cup InProgress] /\ failures' \in [Ids -> Nat]
    BY <1>14 DEF Finish
  <2> QED
    BY <1>14, <2>4, <2>5 DEF Finish, Files
<1>15. CASE Close
  BY <1>15 DEF Close, Active
<1>16. CASE Crash
  <2>1. media' \in [Ids -> {"none", "partial", "full", "synced"}]
    BY <1>16 DEF Crash
  <2>2. crashes' \in 0..MaxCrashes
    BY <1>16, BoundsAssumption DEF Crash
  <2> QED
    BY <1>16, <2>1, <2>2 DEF Crash, Offline, Conditions
<1>17. CASE Open
  <2>1. Recovered(disk) \in Stores
    BY RecoveredIsStore
  <2>2. media' \in Files
    BY <1>17, RemovedAreFiles DEF Open, Files
  <2> QED
    BY <1>17, <2>1, <2>2 DEF Open, Files
<1>18. ASSUME NEW w \in SUBSET NativeAccounts, AuthorizationChanges(w) PROVE TypeOK'
  BY <1>18 DEF AuthorizationChanges
<1>19. CASE UNCHANGED vars
  BY <1>19 DEF vars
<1> QED
  BY <1>1, <1>2, <1>3, <1>4, <1>5, <1>6, <1>7, <1>8, <1>9, <1>10, <1>11, <1>12, <1>13, <1>14,
     <1>15, <1>16, <1>17, <1>18, <1>19
     DEF Next, Request, Upload, Retry, RetryFailed

\* Type correctness of the engine: its jobs keep the states validateState knows.
THEOREM TypeCorrect == Spec => []TypeOK
<1>1. Init => TypeOK
  BY InitTypeOK
<1>2. TypeOK /\ [Next]_vars => TypeOK'
  BY StepTypeOK
<1> QED
  BY <1>1, <1>2, PTL DEF Spec

-----------------------------------------------------------------------------
(* Requests are answered from what the file holds *)

LEMMA SaveIsDurable ==
  ASSUME NEW m, Save(m)
  PROVE  fault' \/ mem' = disk'
  BY DEF Save, Saved, SaveFailed

LEMMA SaveThenRemoveIsSave ==
  ASSUME NEW m, NEW files, NEW S, SaveThenRemove(m, files, S)
  PROVE  Save(m)
  BY DEF SaveThenRemove, Save

LEMMA StepDurable == DurableWhileServing /\ [Next]_vars => DurableWhileServing'
<1> SUFFICES ASSUME DurableWhileServing, [Next]_vars PROVE (fault \/ ~up \/ mem = disk)'
  BY DEF DurableWhileServing, Serving
<1> USE DEF DurableWhileServing, Serving, engineVars
<1>1. ASSUME NEW m, Save(m) PROVE (fault \/ ~up \/ mem = disk)'
  BY <1>1, SaveIsDurable
<1>2. ASSUME UNCHANGED <<mem, disk, fault, up>> PROVE (fault \/ ~up \/ mem = disk)'
  BY <1>2
<1>3. ASSUME NEW x \in Items, Begin(x) PROVE \E m : Save(m)
  BY <1>3 DEF Begin
<1>4. ASSUME NEW i \in Ids, Seal(i) \/ Cancel(i) PROVE \E m : Save(m)
  BY <1>4, SaveThenRemoveIsSave DEF Seal, Cancel
<1>5. ASSUME NEW S, RetryAll(S) PROVE \E m : Save(m)
  BY <1>5 DEF RetryAll
<1>6. CASE ClearCompleted
  BY <1>1, <1>6 DEF ClearCompleted
<1>7. ASSUME NEW o \in OptionSet, Configure(o) PROVE (fault \/ ~up \/ mem = disk)'
  BY <1>1, <1>2, <1>7 DEF Configure
<1>8. CASE Tick
  BY <1>8 DEF Tick, Saved
<1>9. ASSUME NEW i \in Ids, BackoffEnds(i) PROVE (fault \/ ~up \/ mem = disk)'
  BY <1>9 DEF BackoffEnds
<1>10. ASSUME NEW i \in Ids, NEW phase \in InProgress, Progress(i, phase) PROVE \E m : Save(m)
  BY <1>10 DEF Progress, Save
<1>11. ASSUME NEW i \in Ids, NEW o \in Outcomes, Finish(i, o) PROVE \E m : Save(m)
  BY <1>11, SaveThenRemoveIsSave DEF Finish
<1>12. CASE Crash
  BY <1>12 DEF Crash
<1>13. CASE Open
  BY <1>13 DEF Open
<1>14. ASSUME NEW i \in Ids, AppendLast(i) \/ SendCommit(i) PROVE UNCHANGED <<mem, disk, fault, up>>
  BY <1>14 DEF AppendLast, SendCommit
<1>15. ASSUME NEW c \in ConditionSet, ReportConditions(c) PROVE UNCHANGED <<mem, disk, fault, up>>
  BY <1>15 DEF ReportConditions
<1>16. ASSUME NEW a \in Accounts, AddAccount(a) \/ RemoveAccount(a)
       PROVE  UNCHANGED <<mem, disk, fault, up>>
  BY <1>16 DEF AddAccount, RemoveAccount
<1>17. CASE Close
  BY <1>17 DEF Close
<1>18. ASSUME NEW w \in SUBSET NativeAccounts, AuthorizationChanges(w)
       PROVE  UNCHANGED <<mem, disk, fault, up>>
  BY <1>18 DEF AuthorizationChanges
<1>19. CASE UNCHANGED vars
  BY <1>2, <1>19 DEF vars
<1> QED
  BY <1>1, <1>2, <1>3, <1>4, <1>5, <1>6, <1>7, <1>8, <1>9, <1>10, <1>11, <1>12, <1>13, <1>14,
     <1>15, <1>16, <1>17, <1>18, <1>19
     DEF Next, Request, Upload, Retry, RetryFailed

\* Whatever a request was answered with is in the file: save precedes the
\* answer, and a save that failed ends the answers until the process restarts.
THEOREM Durability == Spec => []DurableWhileServing
<1>1. Init => DurableWhileServing
  BY DEF Init, DurableWhileServing, Serving
<1> QED
  BY <1>1, StepDurable, PTL DEF Spec

-----------------------------------------------------------------------------
(* Uploads stop when they are forbidden *)

\* A process that is down has no goroutines: what makes the next one inductive.
CutInv == /\ ~up => Active = {}
          /\ ForbiddenUploadsCut

LEMMA StepCut == TypeOK /\ CutInv /\ [Next]_vars => CutInv'
<1> SUFFICES ASSUME TypeOK, CutInv, [Next]_vars PROVE CutInv'
  OBVIOUS
<1> USE DEF CutInv, ForbiddenUploadsCut, Serving, Active, engineVars, runVars
\* A step that keeps options, conditions, goroutines and contexts.
<1>1. ASSUME UNCHANGED <<stopped, up, cond, run>>, fault => fault', cut \subseteq cut',
             mem'.options = mem.options
      PROVE  CutInv'
  BY <1>1
<1>2. ASSUME NEW m, Save(m), m.options = mem.options
      PROVE  (fault => fault') /\ mem'.options = mem.options
  BY <1>2 DEF Save, Saved, SaveFailed
<1>3. ASSUME NEW s \in Stores, NEW i, NEW j PROVE With(s, i, j).options = s.options
  BY DEF With, Stores
<1>4. ASSUME NEW s \in Stores, NEW js PROVE [s EXCEPT !.jobs = js].options = s.options
  BY DEF Stores
<1>5. mem \in Stores
  BY DEF TypeOK
<1>6. ASSUME NEW x \in Items, Begin(x) PROVE CutInv'
  BY <1>1, <1>2, <1>3, <1>5, <1>6 DEF Begin
<1>7. ASSUME NEW i \in Ids, Seal(i) PROVE CutInv'
  BY <1>1, <1>2, <1>3, <1>5, <1>7, SaveThenRemoveIsSave DEF Seal
<1>8. ASSUME NEW i \in Ids, Cancel(i) PROVE CutInv'
  BY <1>1, <1>2, <1>3, <1>5, <1>8, SaveThenRemoveIsSave DEF Cancel
<1>9. ASSUME NEW S, RetryAll(S) PROVE CutInv'
  BY <1>1, <1>2, <1>4, <1>5, <1>9 DEF RetryAll
<1>10. CASE ClearCompleted
  BY <1>1, <1>2, <1>4, <1>5, <1>10 DEF ClearCompleted
<1>11. ASSUME NEW c \in ConditionSet, ReportConditions(c) PROVE CutInv'
  BY <1>11 DEF ReportConditions, SuspendedBy, Permitted
<1>12. ASSUME NEW o \in OptionSet, Configure(o) PROVE CutInv'
  <2>1. mem'.options = o
    <3>1. [mem EXCEPT !.options = o].options = o
      BY <1>5 DEF Stores
    <3> QED
      BY <1>12, <3>1 DEF Configure, Save, Saved, SaveFailed
  <2> QED
    BY <1>12, <2>1 DEF Configure, PausedBy, Permitted
<1>13. CASE Tick
  <2>1. ASSUME NEW S PROVE Started(S).options = mem.options
    BY <1>4, <1>5 DEF Started
  <2>2. mem'.options = mem.options
    BY <1>13, <2>1 DEF Tick, Saved
  <2> QED
    BY <1>13, <2>2 DEF Tick, MayTick
<1>14. ASSUME NEW i \in Ids, BackoffEnds(i) PROVE CutInv'
  BY <1>1, <1>3, <1>5, <1>14 DEF BackoffEnds
<1>15. ASSUME NEW i \in Ids, NEW phase \in InProgress, Progress(i, phase) PROVE CutInv'
  <2>1. (fault => fault') /\ mem'.options = mem.options
    BY <1>2, <1>3, <1>5, <1>15 DEF Progress, Save
  <2>2. Active' = Active /\ cut \subseteq cut'
    BY <1>15 DEF Progress, TypeOK, InProgress
  <2> QED
    BY <1>15, <2>1, <2>2 DEF Progress
<1>16. ASSUME NEW i \in Ids, SendCommit(i) PROVE CutInv'
  <2>1. Active' = Active
    BY <1>16 DEF SendCommit, TypeOK
  <2> QED
    BY <1>16, <2>1 DEF SendCommit
<1>17. ASSUME NEW i \in Ids, NEW o \in Outcomes, Finish(i, o) PROVE CutInv'
  <2> DEFINE w == With(mem, i, EndedJob(mem.jobs[i], o))
             m == [w EXCEPT !.rev = IF o = "key" THEN w.rev + 1 ELSE w.rev]
  <2>1. m.options = mem.options
    BY <1>5 DEF With, Stores
  <2>2. Save(m)
    BY <1>17, SaveThenRemoveIsSave DEF Finish
  <2>3. (fault => fault') /\ mem'.options = mem.options
    BY <1>2, <2>1, <2>2
  <2>4. Active' = Active \ {i} /\ cut' = cut \ {i}
    BY <1>17 DEF Finish, TypeOK
  <2> QED
    BY <1>17, <2>3, <2>4 DEF Finish
<1>18. CASE Close
  BY <1>18 DEF Close
<1>19. CASE Crash
  BY <1>19 DEF Crash
<1>20. CASE Open
  BY <1>20 DEF Open
<1>21. ASSUME NEW i \in Ids, AppendLast(i) PROVE CutInv'
  BY <1>1, <1>21 DEF AppendLast
<1>22. ASSUME NEW a \in Accounts, AddAccount(a) \/ RemoveAccount(a) PROVE CutInv'
  BY <1>1, <1>22 DEF AddAccount, RemoveAccount
<1>23. ASSUME NEW w \in SUBSET NativeAccounts, AuthorizationChanges(w) PROVE CutInv'
  BY <1>1, <1>23 DEF AuthorizationChanges
<1>24. CASE UNCHANGED vars
  BY <1>1, <1>24 DEF vars
<1> QED
  BY <1>6, <1>7, <1>8, <1>9, <1>10, <1>11, <1>12, <1>13, <1>14, <1>15, <1>16, <1>17, <1>18,
     <1>19, <1>20, <1>21, <1>22, <1>23, <1>24
     DEF Next, Request, Upload, Retry, RetryFailed

\* No upload keeps a live context while options or conditions forbid uploads.
THEOREM ForbiddenUploadsAreCut == Spec => []ForbiddenUploadsCut
<1>1. Init => CutInv
  BY DEF Init, CutInv, ForbiddenUploadsCut, Serving, Active
<1>2. CutInv => ForbiddenUploadsCut
  BY DEF CutInv
<1> QED
  BY <1>1, <1>2, StepCut, TypeCorrect, PTL DEF Spec

-----------------------------------------------------------------------------
(* One commit request per job and user decision *)

\* States no scheduler starts from: a job whose commit request is out must be
\* in one of them, in memory and in the file, once its goroutine has ended.
Closed == {"none", "committing", "completed", "failed", "cancelled"}

\* The phase of a goroutine and the state of its job agree.
RunMatches ==
  \A i \in Ids : /\ run[i] \in InProgress => mem.jobs[i].state = run[i]
                 /\ run[i] = "sent" => mem.jobs[i].state = "committing"

\* A live context in the committing phase means that the file says committing:
\* the callback saved before it returned.
CommitRecorded ==
  \A i \in Ids : run[i] = "sent" \/ (run[i] = "committing" /\ i \notin cut)
                   => disk.jobs[i].state = "committing"

\* A request is out only while its goroutine waits for the answer, or when the
\* job is closed both in memory and in the file.
SentAccounted ==
  \A i \in Ids : \/ sent[i] = 0
                 \/ sent[i] = 1 /\ run[i] = "sent"
                 \/ /\ sent[i] = 1 /\ run[i] = "off"
                    /\ mem.jobs[i].state \in Closed /\ disk.jobs[i].state \in Closed

NeverBegun ==
  \A i \in Ids : i > issued => /\ sent[i] = 0 /\ mem.jobs[i].state = "none"
                               /\ disk.jobs[i].state = "none"

CommitInv == /\ ~up => Active = {}
             /\ RunMatches /\ CommitRecorded /\ SentAccounted /\ NeverBegun

LEMMA SaveOutcome ==
  ASSUME NEW m, Save(m)
  PROVE  mem' = m /\ disk' \in {disk, mem'}
  BY DEF Save, Saved, SaveFailed

LEMMA WithJobs ==
  ASSUME NEW m \in Stores, NEW i \in Ids, NEW j, NEW k \in Ids
  PROVE  With(m, i, j).jobs[k] = IF k = i THEN j ELSE m.jobs[k]
  BY DEF With, Stores

LEMMA JobsReplaced ==
  ASSUME NEW m \in Stores, NEW js
  PROVE  [m EXCEPT !.jobs = js].jobs = js
  BY DEF Stores

\* A step that starts and ends no goroutine keeps CommitInv when every job it
\* moves has none, and moves to a closed state or has no request out.
LEMMA QuietStep ==
  ASSUME TypeOK, CommitInv, UNCHANGED <<up, run>>, cut \cap Active \subseteq cut',
         issued' \in Nat, issued <= issued',
         \A k \in Ids :
           /\ \/ mem'.jobs[k].state = mem.jobs[k].state
              \/ run[k] = "off" /\ (sent'[k] = 0 \/ mem'.jobs[k].state \in Closed)
           /\ disk'.jobs[k].state \in {disk.jobs[k].state, mem'.jobs[k].state}
           /\ sent'[k] = sent[k] \/ (run[k] = "off" /\ sent'[k] = 0)
           /\ k > issued' => mem'.jobs[k].state = mem.jobs[k].state
  PROVE  CommitInv'
<1>1. (~up => Active = {})'
  BY DEF CommitInv, Active
<1>2. RunMatches'
  BY DEF CommitInv, RunMatches, InProgress
<1>3. CommitRecorded'
  BY DEF CommitInv, CommitRecorded, RunMatches, InProgress, Active
<1>4. SentAccounted'
  <2> SUFFICES ASSUME NEW k \in Ids
               PROVE (\/ sent[k] = 0
                      \/ sent[k] = 1 /\ run[k] = "sent"
                      \/ /\ sent[k] = 1 /\ run[k] = "off"
                         /\ mem.jobs[k].state \in Closed /\ disk.jobs[k].state \in Closed)'
    BY DEF SentAccounted
  <2> QED
    BY DEF CommitInv, SentAccounted
<1>5. NeverBegun'
  BY DEF CommitInv, NeverBegun, TypeOK, Ids
<1> QED
  BY <1>1, <1>2, <1>3, <1>4, <1>5 DEF CommitInv

\* A saved change of one job that has no goroutine, to a closed state or from a
\* state in which no request can be out.
LEMMA QuietChange ==
  ASSUME TypeOK, CommitInv, NEW i \in Ids, NEW j, Save(With(mem, i, j)),
         UNCHANGED <<up, run, sent>>, cut \cap Active \subseteq cut',
         issued' \in Nat, issued <= issued',
         \/ j.state = mem.jobs[i].state
         \/ i <= issued' /\ run[i] = "off" /\ (j.state \in Closed \/ mem.jobs[i].state \notin Closed \/ i > issued)
  PROVE  CommitInv'
<1>1. mem' = With(mem, i, j) /\ disk' \in {disk, mem'}
  BY SaveOutcome
<1>2. \A k \in Ids : mem'.jobs[k] = IF k = i THEN j ELSE mem.jobs[k]
  BY <1>1, WithJobs DEF TypeOK
<1>3. run[i] = "off" /\ (mem.jobs[i].state \notin Closed \/ i > issued) => sent[i] = 0
  BY DEF CommitInv, SentAccounted, NeverBegun
<1> QED
  BY <1>1, <1>2, <1>3, QuietStep DEF Ids

\* A job that the list holds has been begun.
LEMMA ListedIsBegun ==
  ASSUME TypeOK, CommitInv, NEW i \in Ids, mem.jobs[i].state # "none"
  PROVE  i <= issued
  BY BoundsAssumption DEF TypeOK, CommitInv, NeverBegun, Ids

LEMMA OffUnlessInProgress ==
  ASSUME TypeOK, CommitInv, NEW i \in Ids, mem.jobs[i].state \notin InProgress
  PROVE  run[i] = "off"
  BY DEF TypeOK, CommitInv, RunMatches, InProgress

LEMMA StepCommit == TypeOK /\ CommitInv /\ [Next]_vars => CommitInv'
<1> SUFFICES ASSUME TypeOK, CommitInv, [Next]_vars PROVE CommitInv'
  OBVIOUS
<1> USE DEF engineVars, runVars, importVars, accountVars, ghostVars
<1>0. mem \in Stores /\ disk \in Stores /\ issued \in Nat /\ issued <= issued
  BY BoundsAssumption DEF TypeOK
<1>1. ASSUME UNCHANGED <<mem, disk, up, run, issued, sent>>, cut \cap Active \subseteq cut'
      PROVE  CommitInv'
  BY <1>0, <1>1, QuietStep
<1>2. ASSUME NEW x \in Items, Begin(x) PROVE CommitInv'
  <2> DEFINE i == issued + 1
             j == [Blank(x) EXCEPT !.state = "importing"]
  <2>1. i \in Ids /\ i > issued /\ Save(With(mem, i, j))
    BY <1>0, <1>2 DEF Begin
  <2>2. run[i] = "off"
    BY <2>1, OffUnlessInProgress DEF CommitInv, NeverBegun, InProgress
  <2>3. UNCHANGED <<up, run, sent, cut>> /\ issued' = i /\ issued' \in Nat /\ issued <= issued'
    BY <1>0, <1>2 DEF Begin
  <2> HIDE DEF j
  <2> QED
    BY <1>0, <2>1, <2>2, <2>3, QuietChange
<1>3. ASSUME NEW i \in Ids, Seal(i) PROVE CommitInv'
  <2> DEFINE queued == [mem.jobs[i] EXCEPT !.sealed = TRUE, !.state = "pending"]
             dropped == [mem.jobs[i] EXCEPT !.state = "cancelled"]
  <2>1. mem.jobs[i].state = "importing" /\ UNCHANGED <<up, run, sent, cut, issued>>
    BY <1>3 DEF Seal
  <2>2. run[i] = "off" /\ mem.jobs[i].state \notin Closed /\ i <= issued
    BY <2>1, OffUnlessInProgress, ListedIsBegun DEF InProgress, Closed
  <2>3. Save(With(mem, i, queued)) \/ Save(With(mem, i, dropped))
    BY <1>3, SaveThenRemoveIsSave DEF Seal
  <2> QED
    BY <1>0, <2>1, <2>2, <2>3, QuietChange
<1>4. ASSUME NEW i \in Ids, Cancel(i) PROVE CommitInv'
  <2> DEFINE j == [mem.jobs[i] EXCEPT !.cancelRequested = TRUE]
             dropped == [j EXCEPT !.state = "cancelled"]
  <2>1. UNCHANGED <<up, run, sent, issued>> /\ cut \subseteq cut'
    BY <1>4 DEF Cancel
  <2>2. mem.jobs[i] \in Job
    BY <1>0, JobOfStore
  <2>3. j.state = mem.jobs[i].state /\ dropped.state \in Closed
    BY <2>2 DEF Job, Closed
  <2>4. \/ Save(With(mem, i, j))
        \/ i \notin Active /\ Save(With(mem, i, dropped))
    BY <1>4, SaveThenRemoveIsSave DEF Cancel
  <2>5. i <= issued
    BY <1>4, ListedIsBegun DEF Cancel, Live, Listed
  <2> HIDE DEF j, dropped
  <2> QED
    BY <1>0, <2>1, <2>3, <2>4, <2>5, QuietChange DEF Active
<1>5. ASSUME NEW S, RetryAll(S) PROVE CommitInv'
  <2> DEFINE js == [k \in Ids |-> IF k \in S THEN ResetRetry(mem.jobs[k]) ELSE mem.jobs[k]]
  <2>1. mem' = [mem EXCEPT !.jobs = js] /\ disk' \in {disk, mem'}
    BY <1>5, SaveOutcome DEF RetryAll
  <2>2. mem'.jobs = js
    BY <1>0, <2>1, JobsReplaced
  <2>3. UNCHANGED <<up, run, cut, issued>>
    BY <1>5 DEF RetryAll
  <2>4. \A k \in Ids : k \in S => run[k] = "off" /\ sent'[k] = 0
    BY <1>5, OffUnlessInProgress DEF RetryAll, Retryable, InProgress
  <2>5. \A k \in Ids : k \notin S => mem'.jobs[k] = mem.jobs[k] /\ sent'[k] = sent[k]
    BY <1>5, <2>2 DEF RetryAll
  <2>6. \A k \in Ids : k \in S => k <= issued
    BY <1>5, ListedIsBegun DEF RetryAll, Retryable
  <2> HIDE DEF js
  <2>7. \A k \in Ids :
           /\ \/ mem'.jobs[k].state = mem.jobs[k].state
              \/ run[k] = "off" /\ (sent'[k] = 0 \/ mem'.jobs[k].state \in Closed)
           /\ sent'[k] = sent[k] \/ (run[k] = "off" /\ sent'[k] = 0)
           /\ k > issued' => mem'.jobs[k].state = mem.jobs[k].state
    BY <1>0, <2>3, <2>4, <2>5, <2>6 DEF Ids
  <2>8. disk' \in {disk, mem'}
    BY <2>1
  <2> QED
    BY <1>0, <2>3, <2>7, <2>8, QuietStep
<1>6. CASE ClearCompleted
  <2> DEFINE done == {k \in Ids : mem.jobs[k].state \in Terminal}
             js == [k \in Ids |-> IF k \in done THEN Blank(AnItem) ELSE mem.jobs[k]]
  <2>1. mem' = [mem EXCEPT !.jobs = js] /\ disk' \in {disk, mem'}
    BY <1>6, SaveOutcome DEF ClearCompleted
  <2>2. mem'.jobs = js
    BY <1>0, <2>1, JobsReplaced
  <2>3. UNCHANGED <<up, run, cut, issued, sent>>
    BY <1>6 DEF ClearCompleted
  <2>4. \A k \in Ids : k \in done => run[k] = "off" /\ mem'.jobs[k].state \in Closed
    BY <2>2, AnItemIsItem, BlankIsJob, OffUnlessInProgress DEF Terminal, InProgress, Closed
  <2>5. \A k \in Ids : k \notin done => mem'.jobs[k] = mem.jobs[k]
    BY <2>2
  <2>6. \A k \in Ids : k \in done => k <= issued
    BY ListedIsBegun DEF Terminal
  <2> HIDE DEF done, js
  <2>7. \A k \in Ids :
           /\ \/ mem'.jobs[k].state = mem.jobs[k].state
              \/ run[k] = "off" /\ (sent'[k] = 0 \/ mem'.jobs[k].state \in Closed)
           /\ sent'[k] = sent[k] \/ (run[k] = "off" /\ sent'[k] = 0)
           /\ k > issued' => mem'.jobs[k].state = mem.jobs[k].state
    BY <1>0, <2>3, <2>4, <2>5, <2>6 DEF Ids
  <2>8. disk' \in {disk, mem'}
    BY <2>1
  <2> QED
    BY <1>0, <2>3, <2>7, <2>8, QuietStep
<1>7. ASSUME NEW c \in ConditionSet, ReportConditions(c) PROVE CommitInv'
  BY <1>1, <1>7 DEF ReportConditions
<1>8. ASSUME NEW o \in OptionSet, Configure(o) PROVE CommitInv'
  <2>1. mem'.jobs = mem.jobs /\ disk' \in {disk, mem'}
    <3>1. [mem EXCEPT !.options = o].jobs = mem.jobs
      BY <1>0 DEF Stores
    <3> QED
      BY <1>8, <3>1, SaveOutcome DEF Configure
  <2>2. UNCHANGED <<up, run, issued, sent>> /\ cut \cap Active \subseteq cut'
    BY <1>8 DEF Configure
  <2> QED
    BY <1>0, <2>1, <2>2, QuietStep
<1>9. CASE Tick
  <2>1. ASSUME NEW S, NEW k \in Ids
        PROVE  Started(S).jobs[k] = IF k \in S THEN StartedJob(mem.jobs[k]) ELSE mem.jobs[k]
    BY <1>0, JobsReplaced DEF Started
  <2>2. ASSUME NEW k \in Ids PROVE StartedJob(mem.jobs[k]).state = "preparing"
    BY <1>0, JobOfStore DEF StartedJob, Job
  <2>3. PICK S \in SUBSET Chosen, L \in SUBSET Chosen :
           /\ L \subseteq S
           /\ mem' = Started(S)
           /\ disk' \in {mem', Started(L)}
           /\ Launch(L)
    <3>1. CASE Saved(Started(Chosen)) /\ Launch(Chosen)
      BY <3>1 DEF Saved
    <3>2. CASE \E f \in Chosen :
                 LET before == {i \in Chosen : i < f}
                 IN  /\ mem' = Started(before \cup {f})
                     /\ disk' \in {Started(before), Started(before \cup {f})}
                     /\ fault' = TRUE
                     /\ Launch(before)
      <4>1. PICK f \in Chosen : /\ mem' = Started({i \in Chosen : i < f} \cup {f})
                                /\ disk' \in {Started({i \in Chosen : i < f}), mem'}
                                /\ Launch({i \in Chosen : i < f})
        BY <3>2
      <4> QED
        BY <4>1
    <3> QED
      BY <1>9, <3>1, <3>2 DEF Tick
  <2>4. \A k \in S : k \in Ids /\ mem.jobs[k].state = "pending"
    BY DEF Chosen, Eligible
  <2>5. \A k \in Ids : k \in S => run[k] = "off" /\ sent[k] = 0
    BY <2>4, OffUnlessInProgress DEF CommitInv, SentAccounted, Closed, InProgress
  <2>6. \A k \in Ids : run'[k] = IF k \in L THEN "preparing" ELSE run[k]
    BY <2>3 DEF Launch
  <2>7. \A k \in Ids : /\ k \in S => mem'.jobs[k].state = "preparing"
                       /\ k \notin S => /\ mem'.jobs[k] = mem.jobs[k]
                                        /\ disk'.jobs[k] = mem.jobs[k]
    BY <2>1, <2>2, <2>3
  <2>8. UNCHANGED <<up, cut, sent, issued>> /\ up
    BY <1>9 DEF Tick, MayTick
  <2>9. RunMatches'
    BY <2>5, <2>6, <2>7, <2>3 DEF CommitInv, RunMatches, InProgress
  <2>10. CommitRecorded'
    BY <2>5, <2>6, <2>7, <2>8 DEF CommitInv, RunMatches, CommitRecorded, InProgress
  <2>11. SentAccounted'
    BY <2>3, <2>5, <2>6, <2>7, <2>8 DEF CommitInv, SentAccounted
  <2>12. NeverBegun'
    <3>1. \A k \in Ids : k > issued => k \notin S
      BY <2>4, <2>5 DEF CommitInv, NeverBegun
    <3> QED
      BY <2>7, <2>8, <3>1 DEF CommitInv, NeverBegun
  <2> QED
    BY <2>8, <2>9, <2>10, <2>11, <2>12 DEF CommitInv
<1>10. ASSUME NEW i \in Ids, BackoffEnds(i) PROVE CommitInv'
  <2>1. ASSUME NEW s \in Stores, NEW k \in Ids
        PROVE  With(s, i, [s.jobs[i] EXCEPT !.backoff = FALSE]).jobs[k].state = s.jobs[k].state
    BY JobOfStore, WithJobs DEF Job
  <2>2. \A k \in Ids : /\ mem'.jobs[k].state = mem.jobs[k].state
                       /\ disk'.jobs[k].state = disk.jobs[k].state
    BY <1>0, <1>10, <2>1 DEF BackoffEnds
  <2> QED
    BY <1>0, <1>10, <2>2, QuietStep DEF BackoffEnds
<1>11. ASSUME NEW i \in Ids, NEW phase \in InProgress, Progress(i, phase) PROVE CommitInv'
  <2> DEFINE j == [mem.jobs[i] EXCEPT !.state = phase]
  <2>1. j.state = phase
    BY <1>0, JobOfStore DEF Job
  <2>2. \/ Saved(With(mem, i, j)) /\ UNCHANGED cut
        \/ SaveFailed(With(mem, i, j)) /\ cut' = cut \cup {i}
    BY <1>11 DEF Progress
  <2>3. mem' = With(mem, i, j) /\ disk' \in {disk, mem'} /\ (disk' = mem' \/ i \in cut')
        /\ cut \subseteq cut'
    BY <2>2 DEF Saved, SaveFailed
  <2>4. \A k \in Ids : mem'.jobs[k] = IF k = i THEN j ELSE mem.jobs[k]
    BY <1>0, <2>3, WithJobs
  <2> HIDE DEF j
  <2>5. run' = [run EXCEPT ![i] = phase] /\ run[i] \in {"preparing", "uploading"}
    BY <1>11 DEF Progress
  <2>6. sent[i] = 0 /\ mem.jobs[i].state # "none"
    BY <2>5 DEF CommitInv, SentAccounted, RunMatches, InProgress
  <2>7. UNCHANGED <<up, sent, issued>> /\ up
    BY <1>11, <2>5 DEF Progress, CommitInv, Active
  <2>8. \A k \in Ids : run'[k] = IF k = i THEN phase ELSE run[k]
    BY <2>5 DEF TypeOK
  <2>9. RunMatches'
    BY <2>1, <2>4, <2>8 DEF CommitInv, RunMatches, InProgress
  <2>10. CommitRecorded'
    BY <2>1, <2>3, <2>4, <2>8 DEF CommitInv, RunMatches, CommitRecorded, InProgress
  <2>11. SentAccounted'
    BY <2>3, <2>4, <2>6, <2>7, <2>8 DEF CommitInv, SentAccounted
  <2>12. NeverBegun'
    BY <2>3, <2>4, <2>6, <2>7 DEF CommitInv, NeverBegun
  <2> QED
    BY <2>7, <2>9, <2>10, <2>11, <2>12 DEF CommitInv
<1>12. ASSUME NEW i \in Ids, SendCommit(i) PROVE CommitInv'
  <2>1. \A k \in Ids : /\ run'[k] = IF k = i THEN "sent" ELSE run[k]
                       /\ sent'[k] = IF k = i THEN sent[k] + 1 ELSE sent[k]
    BY <1>12 DEF SendCommit, TypeOK
  <2>2. UNCHANGED <<mem, disk, up, cut, issued>> /\ run[i] = "committing" /\ i \notin cut
    BY <1>12 DEF SendCommit
  <2>3. up /\ sent[i] = 0 /\ mem.jobs[i].state = "committing" /\ disk.jobs[i].state = "committing"
    BY <2>2 DEF CommitInv, Active, SentAccounted, RunMatches, CommitRecorded, InProgress
  <2>4. RunMatches' /\ CommitRecorded'
    BY <2>1, <2>2, <2>3 DEF CommitInv, RunMatches, CommitRecorded, InProgress
  <2>5. SentAccounted' /\ NeverBegun'
    BY <2>1, <2>2, <2>3 DEF CommitInv, SentAccounted, NeverBegun
  <2> QED
    BY <2>2, <2>3, <2>4, <2>5 DEF CommitInv
<1>13. ASSUME NEW i \in Ids, NEW o \in Outcomes, Finish(i, o) PROVE CommitInv'
  <2> DEFINE j == EndedJob(mem.jobs[i], o)
             w == With(mem, i, j)
             m == [w EXCEPT !.rev = IF o = "key" THEN w.rev + 1 ELSE w.rev]
  <2>1. m.jobs = w.jobs
    BY <1>0 DEF With, Stores
  <2>2. mem' = m /\ disk' \in {disk, mem'}
    BY <1>13, SaveThenRemoveIsSave, SaveOutcome DEF Finish
  <2>3. \A k \in Ids : mem'.jobs[k] = IF k = i THEN j ELSE mem.jobs[k]
    BY <1>0, <2>1, <2>2, WithJobs
  <2>4. mem.jobs[i].state = "committing" => j.state \in {"completed", "failed"}
    BY <1>0, JobOfStore DEF EndedJob, Job
  <2> HIDE DEF j, w, m
  <2>5. run[i] # "off" /\ up
    BY <1>13 DEF Finish, Active, CommitInv
  <2>6. UNCHANGED <<up, sent, issued>> /\ cut' = cut \ {i}
    BY <1>13 DEF Finish
  <2>7. \A k \in Ids : run'[k] = IF k = i THEN "off" ELSE run[k]
    BY <1>13 DEF Finish, TypeOK
  <2>8. RunMatches' /\ CommitRecorded'
    BY <2>2, <2>3, <2>6, <2>7 DEF CommitInv, RunMatches, CommitRecorded, InProgress
  <2>9. SentAccounted'
    <3>1. sent[i] = 0 \/ (sent[i] = 1 /\ run[i] = "sent")
      BY <2>5 DEF CommitInv, SentAccounted
    <3>2. run[i] = "sent" => mem'.jobs[i].state \in Closed /\ disk'.jobs[i].state \in Closed
      BY <2>2, <2>3, <2>4 DEF CommitInv, RunMatches, CommitRecorded, Closed
    <3> QED
      BY <2>2, <2>3, <2>6, <2>7, <3>1, <3>2 DEF CommitInv, SentAccounted
  <2>10. NeverBegun'
    <3>1. mem.jobs[i].state # "none"
      BY <2>5 DEF CommitInv, RunMatches, TypeOK, InProgress
    <3> QED
      BY <2>2, <2>3, <2>6, <3>1 DEF CommitInv, NeverBegun
  <2> QED
    BY <2>5, <2>6, <2>8, <2>9, <2>10 DEF CommitInv
<1>14. CASE Close
  BY <1>1, <1>14 DEF Close
<1>15. CASE Crash
  <2>1. \A k \in Ids : /\ run'[k] = "off"
                       /\ sent[k] = 0 \/ (sent[k] = 1 /\ disk.jobs[k].state \in Closed)
    BY <1>15 DEF Crash, CommitInv, SentAccounted, CommitRecorded, Closed
  <2>2. mem' = disk /\ disk' = disk /\ UNCHANGED <<sent, issued>>
    BY <1>15 DEF Crash
  <2>3. SentAccounted'
    BY <2>1, <2>2 DEF SentAccounted
  <2>4. NeverBegun' /\ RunMatches' /\ CommitRecorded' /\ (Active = {})'
    BY <2>1, <2>2 DEF CommitInv, NeverBegun, RunMatches, CommitRecorded, Active, InProgress
  <2> QED
    BY <2>3, <2>4 DEF CommitInv
<1>16. CASE Open
  <2>1. \A k \in Ids : run'[k] = "off"
    BY <1>16 DEF Open, CommitInv, Active
  <2>2. ASSUME NEW k \in Ids
        PROVE  Recovered(disk).jobs[k].state
                 = IF disk.jobs[k].cancelRequested /\ RecoveredState(disk.jobs[k].state) = "pending"
                   THEN "cancelled" ELSE RecoveredState(disk.jobs[k].state)
    <3>1. Recovered(disk).jobs[k] = RecoveredJob(disk.jobs[k])
      BY <1>0, JobsReplaced DEF Recovered
    <3> QED
      BY <1>0, <3>1, JobOfStore DEF RecoveredJob, Job
  <2>3. \A k \in Ids : /\ disk.jobs[k].state \in Closed => Recovered(disk).jobs[k].state \in Closed
                       /\ disk.jobs[k].state = "none" => Recovered(disk).jobs[k].state = "none"
    BY <2>2 DEF RecoveredState, Closed
  <2>4. mem' = disk' /\ disk' \in {disk, Recovered(disk)} /\ UNCHANGED <<run, cut, sent, issued>>
    BY <1>16 DEF Open
  <2>5. \A k \in Ids : sent[k] = 0 \/ (sent[k] = 1 /\ disk.jobs[k].state \in Closed)
    BY <2>1, <2>4 DEF CommitInv, SentAccounted
  <2>6. SentAccounted'
    BY <2>1, <2>3, <2>4, <2>5 DEF SentAccounted
  <2>7. NeverBegun' /\ RunMatches' /\ CommitRecorded' /\ (Active = {})'
    BY <2>1, <2>3, <2>4 DEF CommitInv, NeverBegun, RunMatches, CommitRecorded, Active, InProgress
  <2> QED
    BY <2>6, <2>7 DEF CommitInv
<1>17. ASSUME NEW i \in Ids, AppendLast(i) PROVE CommitInv'
  BY <1>1, <1>17 DEF AppendLast
<1>18. ASSUME NEW a \in Accounts, AddAccount(a) \/ RemoveAccount(a) PROVE CommitInv'
  BY <1>1, <1>18 DEF AddAccount, RemoveAccount
<1>19. ASSUME NEW w \in SUBSET NativeAccounts, AuthorizationChanges(w) PROVE CommitInv'
  BY <1>1, <1>19 DEF AuthorizationChanges
<1>20. CASE UNCHANGED vars
  BY <1>1, <1>20 DEF vars
<1> QED
  BY <1>2, <1>3, <1>4, <1>5, <1>6, <1>7, <1>8, <1>9, <1>10, <1>11, <1>12, <1>13, <1>14, <1>15,
     <1>16, <1>17, <1>18, <1>19, <1>20
     DEF Next, Request, Upload, Retry, RetryFailed

LEMMA InitCommit == Init => CommitInv
<1> SUFFICES ASSUME Init PROVE CommitInv
  OBVIOUS
<1>1. \A i \in Ids : i > issued => mem.jobs[i].state = "none" /\ disk.jobs[i].state = "none"
  <2>1. NewStore \in Stores
    BY AnItemIsItem, BlankIsJob, OptionsAssumption DEF NewStore, Stores
  <2>2. \A i \in Ids : NewStore.jobs[i].state = "none"
    BY AnItemIsItem, BlankIsJob DEF NewStore
  <2>3. 1 \in Ids
    BY BoundsAssumption DEF Ids
  <2>4. CASE disk = NewStore
    BY <2>2, <2>4 DEF Init
  <2>5. CASE disk # NewStore
    <3>1. PICK j : disk = With(NewStore, 1, j) /\ j.state = "completed"
      <4>1. PICK x \in LegacyItems :
              disk = With(NewStore, 1, [Blank(x) EXCEPT !.state = "completed", !.attempts = 1,
                                                        !.sealed = TRUE])
        BY <2>5 DEF Init, LegacyStores
      <4>2. [Blank(x) EXCEPT !.state = "completed", !.attempts = 1,
                             !.sealed = TRUE].state = "completed"
        BY DEF Blank
      <4> QED
        BY <4>1, <4>2
    <3>2. \A k \in Ids : disk.jobs[k] = IF k = 1 THEN j ELSE NewStore.jobs[k]
      BY <2>1, <2>3, <3>1, WithJobs
    <3>3. Listed(disk) = {1}
      BY <2>2, <2>3, <3>1, <3>2 DEF Listed
    <3>4. issued = 1
      BY <3>3, FS_Singleton DEF Init
    <3>5. mem = disk
      BY DEF Init
    <3> QED
      BY <2>2, <3>2, <3>4, <3>5 DEF Ids
  <2> QED
    BY <2>4, <2>5
<1> QED
  BY <1>1 DEF Init, CommitInv, Active, RunMatches, CommitRecorded, SentAccounted, NeverBegun,
              InProgress

\* Whatever fails, crashes or is retried by the scheduler, a job sends at most
\* one commit request until the user retries it.
THEOREM CommitAtMostOnce == Spec => []CommitOnce
<1>1. TypeOK /\ CommitInv => CommitOnce
  BY DEF CommitInv, SentAccounted, CommitOnce, TypeOK
<1> QED
  BY <1>1, InitCommit, StepCommit, TypeCorrect, PTL DEF Spec

-----------------------------------------------------------------------------
(* How far the memory may be ahead of the file *)

\* One durable write may take a job from state s to state t when n of its commit
\* requests are out.
Follows(s, t, n) ==
  \/ Entry(s) = Entry(t)
  \/ /\ <<Entry(s), Entry(t)>> \in Ledger!Moves
     /\ Entry(s) \in {"absent", "failed"} /\ Entry(t) \in {"staging", "queued"} => n = 0

\* What the file may say of a job whose goroutine runs and whose state is t.
Running(s, t) == s \in InProgress \cup {"pending"} /\ (s = "committing" => t = "committing")

\* The next save, whenever it succeeds, writes a legal move of every job.
Behind ==
  \A k \in Ids : /\ Follows(disk.jobs[k].state, mem.jobs[k].state, sent[k])
                 /\ run[k] # "off" => Running(disk.jobs[k].state, mem.jobs[k].state)

\* While requests are answered, every job in progress has its goroutine.
Manned == Serving => \A k \in Ids : mem.jobs[k].state \in InProgress => run[k] # "off"

LagInv == Behind /\ Manned

\* A running job may be written as queued, uncertain or ended.
LEMMA RunningFollows ==
  ASSUME NEW s, NEW t \in JobStates, NEW u \in JobStates, NEW n,
         Running(s, t), u \notin {"none", "importing"},
         t = "committing" => u \in {"committing", "completed", "failed"}
  PROVE  Follows(s, u, n)
  BY DEF Running, Follows, Entry, Ledger!Moves, Ledger!Decided, InProgress, Terminal, JobStates

LEMMA StateOfStore ==
  ASSUME NEW m \in Stores, NEW k \in Ids
  PROVE  m.jobs[k].state \in JobStates
  BY JobOfStore DEF Job

LEMMA EntryIsEntry == \A s \in JobStates : Entry(s) \in Ledger!Entries
  BY DEF Entry, JobStates, InProgress, Terminal, Ledger!Entries

\* A step that moves no job in the file otherwise than Follows allows, and
\* counts no request, is a write of the ledger.
LEMMA StepIsWrite ==
  ASSUME TypeOK, TypeOK', sent' = sent,
         \A k \in Ids : Follows(disk.jobs[k].state, disk'.jobs[k].state, sent[k])
  PROVE  Ledger!Write({})
<1>1. \A k \in Ids : Entry(disk'.jobs[k].state) \in Ledger!Entries
  BY StateOfStore, EntryIsEntry DEF TypeOK
<1>2. sent' = [i \in Ids |-> sent[i]]
  BY DEF TypeOK
<1>3. \A k \in Ids : Entry(disk'.jobs[k].state) # Entry(disk.jobs[k].state)
         => <<Entry(disk.jobs[k].state), Entry(disk'.jobs[k].state)>> \in Ledger!Moves
  BY DEF Follows
<1>4. \A k \in Ids : /\ Entry(disk.jobs[k].state) \in {"absent", "failed"}
                     /\ Entry(disk'.jobs[k].state) \in {"staging", "queued"}
                     => sent[k] = 0
  BY DEF Follows
<1> QED
  BY <1>1, <1>2, <1>3, <1>4 DEF Ledger!Write

\* A saved change made while requests are answered: each job it moves has no
\* goroutine and makes a legal move.
LEMMA ServedChange ==
  ASSUME TypeOK, TypeOK', DurableWhileServing, LagInv, Serving, UNCHANGED <<run, sent>>,
         \A k \in Ids :
           /\ disk'.jobs[k].state \in {disk.jobs[k].state, mem'.jobs[k].state}
           /\ \/ mem'.jobs[k].state = mem.jobs[k].state
              \/ /\ run[k] = "off" /\ mem'.jobs[k].state \notin InProgress
                 /\ Follows(mem.jobs[k].state, mem'.jobs[k].state, sent[k])
  PROVE  LagInv' /\ Ledger!Write({})
<1>1. mem = disk
  BY DEF DurableWhileServing
<1>2. \A k \in Ids : Follows(disk.jobs[k].state, disk'.jobs[k].state, sent[k])
  BY <1>1 DEF Follows
<1>3. ASSUME NEW k \in Ids
      PROVE  Follows(disk'.jobs[k].state, mem'.jobs[k].state, sent'[k])
  BY <1>1 DEF Follows
<1>4. ASSUME NEW k \in Ids, run'[k] # "off"
      PROVE  Running(disk'.jobs[k].state, mem'.jobs[k].state)
  BY <1>1, <1>4 DEF LagInv, Behind, Running
<1>5. Manned'
  BY DEF LagInv, Manned
<1> QED
  BY <1>2, <1>3, <1>4, <1>5, StepIsWrite DEF LagInv, Behind

\* A goroutine's saved change of its own job i; the save may write what the
\* memory was ahead with of every other job.
LEMMA RunnerChange ==
  ASSUME TypeOK, TypeOK', CommitInv, LagInv, NEW i \in Ids, run[i] # "off",
         sent' = sent, Serving' => Serving,
         mem'.jobs[i].state \notin {"none", "importing"},
         mem.jobs[i].state = "committing" => mem'.jobs[i].state \in {"completed", "failed"},
         run'[i] = "off" => mem'.jobs[i].state \notin InProgress,
         run'[i] # "off" => mem'.jobs[i].state \in InProgress,
         disk' \in {disk, mem'},
         \A k \in Ids \ {i} : run'[k] = run[k] /\ mem'.jobs[k] = mem.jobs[k]
  PROVE  LagInv' /\ Ledger!Write({})
<1>1. Follows(disk.jobs[i].state, mem'.jobs[i].state, sent[i])
  BY StateOfStore, RunningFollows DEF TypeOK, LagInv, Behind
<1>2. \A k \in Ids : Follows(disk.jobs[k].state, mem'.jobs[k].state, sent[k])
  BY <1>1 DEF LagInv, Behind
<1>3. \A k \in Ids : Follows(disk.jobs[k].state, disk'.jobs[k].state, sent[k])
  BY <1>2 DEF Follows
<1>4. \A k \in Ids : Follows(disk'.jobs[k].state, mem'.jobs[k].state, sent'[k])
  BY <1>2 DEF Follows
<1>5. ASSUME NEW k \in Ids, run'[k] # "off"
      PROVE  Running(disk'.jobs[k].state, mem'.jobs[k].state)
  <2>1. CASE k = i
    BY <1>5, <2>1 DEF LagInv, Behind, Running, InProgress
  <2>2. CASE k # i /\ disk' = disk
    BY <1>5, <2>2 DEF LagInv, Behind
  <2>3. CASE k # i /\ disk' = mem'
    BY <1>5, <2>3, OffUnlessInProgress DEF Running
  <2> QED
    BY <2>1, <2>2, <2>3
<1>6. Manned'
  BY DEF LagInv, Manned
<1> QED
  BY <1>3, <1>4, <1>5, <1>6, StepIsWrite DEF LagInv, Behind

\* A step that leaves memory, file, goroutines and requests alone.
LEMMA StillStep ==
  ASSUME TypeOK, TypeOK', LagInv, UNCHANGED <<mem, disk, run, sent>>, Serving' => Serving
  PROVE  LagInv' /\ Ledger!Write({})
<1>1. LagInv'
  BY DEF LagInv, Behind, Manned
<1>2. \A k \in Ids : Follows(disk.jobs[k].state, disk'.jobs[k].state, sent[k])
  BY DEF Follows
<1> QED
  BY <1>1, <1>2, StepIsWrite

-----------------------------------------------------------------------------
(* Every step of the engine is a step of the ledger *)

LedgerStep == Ledger!Next \/ UNCHANGED Ledger!vars

LEMMA WriteIsStep == \A S \in SUBSET Ids : Ledger!Write(S) => LedgerStep
  BY DEF LedgerStep, Ledger!Next

LEMMA RequestRefines ==
  ASSUME TypeOK, TypeOK', CommitInv, DurableWhileServing, LagInv, Request
  PROVE  LagInv' /\ LedgerStep
<1> USE DEF engineVars, runVars, importVars, accountVars, ghostVars
<1>0. mem \in Stores /\ disk \in Stores /\ issued \in Nat
  BY BoundsAssumption DEF TypeOK
<1>1. ASSUME LagInv' /\ Ledger!Write({}) PROVE LagInv' /\ LedgerStep
  BY <1>1, WriteIsStep
\* A saved change of one job.
<1>2. ASSUME NEW i \in Ids, NEW j, Save(With(mem, i, j)), Serving, UNCHANGED <<run, sent>>,
             \/ j.state = mem.jobs[i].state
             \/ /\ run[i] = "off" /\ j.state \notin InProgress
                /\ Follows(mem.jobs[i].state, j.state, sent[i])
      PROVE  LagInv' /\ LedgerStep
  <2>1. mem' = With(mem, i, j) /\ disk' \in {disk, mem'}
    BY <1>2, SaveOutcome
  <2>2. \A k \in Ids : mem'.jobs[k] = IF k = i THEN j ELSE mem.jobs[k]
    BY <1>0, <2>1, WithJobs
  <2> QED
    BY <1>1, <1>2, <2>1, <2>2, ServedChange
<1>3. ASSUME UNCHANGED <<mem, disk, run, sent>>, Serving PROVE LagInv' /\ LedgerStep
  BY <1>1, <1>3, StillStep
<1>4. ASSUME NEW x \in Items, Begin(x) PROVE LagInv' /\ LedgerStep
  <2> DEFINE i == issued + 1
             j == [Blank(x) EXCEPT !.state = "importing"]
  <2>1. i \in Ids /\ Serving /\ Save(With(mem, i, j)) /\ UNCHANGED <<run, sent>>
    BY <1>4 DEF Begin
  <2>2. mem.jobs[i].state = "none" /\ sent[i] = 0
    BY <1>0, <2>1 DEF CommitInv, NeverBegun
  <2>3. j.state = "importing"
    BY DEF Blank
  <2>4. run[i] = "off"
    BY <2>1, <2>2, OffUnlessInProgress DEF InProgress
  <2> HIDE DEF i, j
  <2>5. Follows("none", "importing", 0)
    BY DEF Follows, Entry, Ledger!Moves
  <2> QED
    BY <1>2, <2>1, <2>2, <2>3, <2>4, <2>5 DEF InProgress
<1>5. ASSUME NEW i \in Ids, AppendLast(i) PROVE LagInv' /\ LedgerStep
  BY <1>3, <1>5 DEF AppendLast
<1>6. ASSUME NEW i \in Ids, Seal(i) PROVE LagInv' /\ LedgerStep
  <2> DEFINE queued == [mem.jobs[i] EXCEPT !.sealed = TRUE, !.state = "pending"]
             dropped == [mem.jobs[i] EXCEPT !.state = "cancelled"]
  <2>1. mem.jobs[i].state = "importing" /\ Serving /\ UNCHANGED <<run, sent>>
    BY <1>6 DEF Seal
  <2>2. Save(With(mem, i, queued)) \/ Save(With(mem, i, dropped))
    BY <1>6, SaveThenRemoveIsSave DEF Seal
  <2>3. queued.state = "pending" /\ dropped.state = "cancelled"
    BY <1>0, JobOfStore DEF Job
  <2>4. run[i] = "off"
    BY <2>1, OffUnlessInProgress DEF InProgress
  <2>5. \A n : Follows("importing", "pending", n) /\ Follows("importing", "cancelled", n)
    BY DEF Follows, Entry, Ledger!Moves, InProgress
  <2> HIDE DEF queued, dropped
  <2> QED
    BY <1>2, <2>1, <2>2, <2>3, <2>4, <2>5 DEF InProgress
<1>7. ASSUME NEW i \in Ids, Cancel(i) PROVE LagInv' /\ LedgerStep
  <2> DEFINE j == [mem.jobs[i] EXCEPT !.cancelRequested = TRUE]
             dropped == [j EXCEPT !.state = "cancelled"]
  <2>1. Serving /\ i \in Live(mem) /\ UNCHANGED <<run, sent>>
    BY <1>7 DEF Cancel
  <2>2. j.state = mem.jobs[i].state /\ dropped.state = "cancelled"
    BY <1>0, JobOfStore DEF Job
  <2>3. \/ Save(With(mem, i, j))
        \/ run[i] = "off" /\ Save(With(mem, i, dropped))
    BY <1>7, SaveThenRemoveIsSave DEF Cancel, Active
  <2>4. run[i] = "off" => mem.jobs[i].state \in {"importing", "pending", "failed"}
    BY <1>0, <2>1, StateOfStore DEF LagInv, Manned, Live, Listed, JobStates, Terminal
  <2>5. \A n : \A s \in {"importing", "pending", "failed"} : Follows(s, "cancelled", n)
    BY DEF Follows, Entry, Ledger!Moves, InProgress
  <2> HIDE DEF j, dropped
  <2> QED
    BY <1>2, <2>1, <2>2, <2>3, <2>4, <2>5 DEF InProgress
<1>8. ASSUME NEW S \in SUBSET Ids, RetryAll(S) PROVE LagInv' /\ LedgerStep
  <2> DEFINE js == [k \in Ids |-> IF k \in S THEN ResetRetry(mem.jobs[k]) ELSE mem.jobs[k]]
  <2>1. mem' = [mem EXCEPT !.jobs = js] /\ disk' \in {disk, mem'}
    BY <1>8, SaveOutcome DEF RetryAll
  <2>2. mem'.jobs = js
    BY <1>0, <2>1, JobsReplaced
  <2>3. Serving /\ UNCHANGED <<up, run>> /\ mem = disk
    BY <1>8 DEF RetryAll, DurableWhileServing
  <2>4. \A k \in S : mem.jobs[k].state = "failed" /\ run[k] = "off" /\ sent'[k] = 0
    BY <1>8, OffUnlessInProgress DEF RetryAll, Retryable, InProgress
  <2>5. \A k \in Ids : k \notin S => mem'.jobs[k] = mem.jobs[k] /\ sent'[k] = sent[k]
    BY <1>8, <2>2 DEF RetryAll
  <2>6. \A k \in S : mem'.jobs[k].state = "pending"
    <3>1. \A j \in Job : ResetRetry(j).state = "pending"
      BY DEF ResetRetry, Job
    <3> QED
      BY <1>0, <2>2, <3>1, JobOfStore
  <2> HIDE DEF js
  <2>7. Follows("failed", "pending", 0) /\ \A s, n : Follows(s, s, n)
    BY DEF Follows, Entry, Ledger!Moves, InProgress
  <2>8. ASSUME NEW k \in Ids
        PROVE  /\ Follows(disk'.jobs[k].state, mem'.jobs[k].state, sent'[k])
               /\ run'[k] # "off" => Running(disk'.jobs[k].state, mem'.jobs[k].state)
    <3>1. CASE k \in S
      BY <2>1, <2>3, <2>4, <2>6, <2>7, <3>1
    <3>2. CASE k \notin S
      BY <2>1, <2>3, <2>5, <2>7, <3>2 DEF LagInv, Behind
    <3> QED
      BY <3>1, <3>2
  <2>9. Manned'
    BY <2>3, <2>5, <2>6 DEF LagInv, Manned, InProgress
  <2>10. Ledger!Write(S)
    <3>1. \A k \in Ids : /\ Entry(disk.jobs[k].state) \in Ledger!Entries
                         /\ Entry(disk'.jobs[k].state) \in Ledger!Entries
      BY StateOfStore, EntryIsEntry DEF TypeOK
    <3>2. \A k \in S : Entry(disk.jobs[k].state) = "failed"
      BY <2>3, <2>4 DEF Entry, InProgress
    <3>3. \A k \in Ids : Entry(disk'.jobs[k].state) # Entry(disk.jobs[k].state)
             => k \in S /\ Entry(disk.jobs[k].state) = "failed" /\ Entry(disk'.jobs[k].state) = "queued"
      <4>1. Entry("failed") = "failed" /\ Entry("pending") = "queued"
        BY DEF Entry, InProgress
      <4>2. \A k \in Ids : k \notin S => disk'.jobs[k].state = disk.jobs[k].state
        BY <2>1, <2>3, <2>5
      <4>3. \A k \in S : disk'.jobs[k].state \in {disk.jobs[k].state, "pending"}
        BY <2>1, <2>3, <2>6
      <4> QED
        BY <2>3, <2>4, <4>1, <4>2, <4>3
    <3>4. sent' = [k \in Ids |-> IF k \in S THEN 0 ELSE sent[k]]
      BY <1>8 DEF RetryAll
    <3> QED
      BY <3>1, <3>2, <3>3, <3>4 DEF Ledger!Write, Ledger!Moves
  <2> QED
    BY <2>8, <2>9, <2>10, WriteIsStep DEF LagInv, Behind
<1>9. CASE ClearCompleted
  <2> DEFINE done == {k \in Ids : mem.jobs[k].state \in Terminal}
             js == [k \in Ids |-> IF k \in done THEN Blank(AnItem) ELSE mem.jobs[k]]
  <2>1. mem' = [mem EXCEPT !.jobs = js] /\ disk' \in {disk, mem'}
    BY <1>9, SaveOutcome DEF ClearCompleted
  <2>2. mem'.jobs = js
    BY <1>0, <2>1, JobsReplaced
  <2>3. Serving /\ UNCHANGED <<run, sent>>
    BY <1>9 DEF ClearCompleted
  <2>4. \A k \in done : /\ k \in Ids /\ mem.jobs[k].state \in Terminal
                        /\ run[k] = "off" /\ mem'.jobs[k].state = "none"
    BY <2>2, AnItemIsItem, BlankIsJob, OffUnlessInProgress DEF Terminal, InProgress
  <2>5. \A k \in Ids : k \notin done => mem'.jobs[k] = mem.jobs[k]
    BY <2>2
  <2>6. \A n : \A s \in Terminal : Follows(s, "none", n)
    BY DEF Follows, Entry, Ledger!Moves, Terminal, InProgress
  <2> HIDE DEF done, js
  <2> QED
    BY <1>1, <2>1, <2>3, <2>4, <2>5, <2>6, ServedChange DEF InProgress
<1>10. ASSUME NEW c \in ConditionSet, ReportConditions(c) PROVE LagInv' /\ LedgerStep
  BY <1>3, <1>10 DEF ReportConditions
<1>11. ASSUME NEW o \in OptionSet, Configure(o) PROVE LagInv' /\ LedgerStep
  <2>1. mem'.jobs = mem.jobs /\ disk' \in {disk, mem'}
    <3>1. [mem EXCEPT !.options = o].jobs = mem.jobs
      BY <1>0 DEF Stores
    <3> QED
      BY <1>11, <3>1, SaveOutcome DEF Configure
  <2>2. Serving /\ UNCHANGED <<run, sent>>
    BY <1>11 DEF Configure
  <2> QED
    BY <1>1, <2>1, <2>2, ServedChange
<1>12. ASSUME NEW a \in Accounts, AddAccount(a) \/ RemoveAccount(a) PROVE LagInv' /\ LedgerStep
  BY <1>3, <1>12 DEF AddAccount, RemoveAccount
<1> QED
  BY <1>4, <1>5, <1>6, <1>7, <1>8, <1>9, <1>10, <1>11, <1>12 DEF Request, Retry, RetryFailed

\* The end of an upload leaves no job in progress, and decides an uncertain one.
LEMMA EndedState ==
  ASSUME NEW j \in Job, NEW o, j.state \in InProgress
  PROVE  /\ EndedJob(j, o).state \in {"completed", "failed", "cancelled", "pending"}
         /\ j.state = "committing" => EndedJob(j, o).state \in {"completed", "failed"}
<1>1. \A s \in JobStates : [j EXCEPT !.state = s].state = s
  BY DEF Job
<1>2. Unspent(j).state = "pending" /\ [Unspent(j) EXCEPT !.backoff = FALSE].state = "pending"
  BY UnspentIsJob DEF Unspent, Job
<1>3. [j EXCEPT !.state = "pending", !.backoff = TRUE].state = "pending"
  BY DEF Job
<1> QED
  BY <1>1, <1>2, <1>3 DEF EndedJob, JobStates, Terminal, InProgress

LEMMA TickRefines ==
  ASSUME TypeOK, TypeOK', CommitInv, DurableWhileServing, LagInv, Tick
  PROVE  LagInv' /\ LedgerStep
<1>0. mem \in Stores /\ mem = disk /\ up /\ ~fault /\ sent' = sent
  BY DEF Tick, MayTick, DurableWhileServing, Serving, TypeOK, ghostVars
<1>1. ASSUME NEW S, NEW k \in Ids
      PROVE  Started(S).jobs[k] = IF k \in S THEN StartedJob(mem.jobs[k]) ELSE mem.jobs[k]
  BY <1>0, JobsReplaced DEF Started
<1>2. ASSUME NEW k \in Ids PROVE StartedJob(mem.jobs[k]).state = "preparing"
  BY <1>0, JobOfStore DEF StartedJob, Job
\* The jobs marked in memory and those whose goroutine starts: all of the marked
\* ones, unless the save failed.
<1>3. PICK S \in SUBSET Chosen, L \in SUBSET Chosen :
         /\ L \subseteq S
         /\ mem' = Started(S)
         /\ disk' \in {mem', Started(L)}
         /\ Launch(L)
         /\ fault' \/ L = S
  <2>1. CASE Saved(Started(Chosen)) /\ Launch(Chosen)
    BY <2>1 DEF Saved
  <2>2. CASE \E f \in Chosen :
               LET before == {i \in Chosen : i < f}
               IN  /\ mem' = Started(before \cup {f})
                   /\ disk' \in {Started(before), Started(before \cup {f})}
                   /\ fault' = TRUE
                   /\ Launch(before)
    <3>1. PICK f \in Chosen : /\ mem' = Started({i \in Chosen : i < f} \cup {f})
                              /\ disk' \in {Started({i \in Chosen : i < f}), mem'}
                              /\ Launch({i \in Chosen : i < f})
                              /\ fault'
      BY <2>2
    <3> QED
      BY <3>1
  <2> QED
    BY <2>1, <2>2 DEF Tick
<1>4. \A k \in S : k \in Ids /\ mem.jobs[k].state = "pending"
  BY DEF Chosen, Eligible
<1>5. \A k \in Ids : run'[k] = IF k \in L THEN "preparing" ELSE run[k]
  BY <1>3 DEF Launch
<1>6. \A k \in Ids : /\ k \in S => /\ mem'.jobs[k].state = "preparing"
                                   /\ disk'.jobs[k].state \in {"pending", "preparing"}
                                   /\ k \in L => disk'.jobs[k].state = "preparing"
                     /\ k \notin S => mem'.jobs[k] = mem.jobs[k] /\ disk'.jobs[k] = mem.jobs[k]
  BY <1>1, <1>2, <1>3, <1>4
<1>7. /\ \A n : Follows("pending", "preparing", n)
      /\ \A s, n : Follows(s, s, n)
  BY DEF Follows, Entry, InProgress
<1>8. \A k \in Ids : Follows(disk.jobs[k].state, disk'.jobs[k].state, sent[k])
  BY <1>0, <1>4, <1>6, <1>7
<1>9. ASSUME NEW k \in Ids
      PROVE  /\ Follows(disk'.jobs[k].state, mem'.jobs[k].state, sent'[k])
             /\ run'[k] # "off" => Running(disk'.jobs[k].state, mem'.jobs[k].state)
  <2>1. CASE k \in S
    BY <1>4, <1>5, <1>6, <1>7, <2>1, OffUnlessInProgress DEF Running, InProgress
  <2>2. CASE k \notin S
    BY <1>0, <1>3, <1>5, <1>6, <1>7, <2>2 DEF LagInv, Behind
  <2> QED
    BY <2>1, <2>2
<1>10. Manned'
  BY <1>0, <1>3, <1>5, <1>6 DEF LagInv, Manned, Serving
<1> QED
  BY <1>0, <1>8, <1>9, <1>10, StepIsWrite, WriteIsStep DEF LagInv, Behind

LEMMA UploadRefines ==
  ASSUME TypeOK, TypeOK', CommitInv, LagInv, NEW i \in Ids, Upload(i)
  PROVE  LagInv' /\ LedgerStep
<1> USE DEF engineVars, runVars, importVars, accountVars, ghostVars
<1>0. mem \in Stores /\ disk \in Stores
  BY DEF TypeOK
<1>1. ASSUME NEW phase \in InProgress, Progress(i, phase) PROVE LagInv' /\ LedgerStep
  <2> DEFINE j == [mem.jobs[i] EXCEPT !.state = phase]
  <2>1. j.state = phase
    BY <1>0, JobOfStore DEF Job
  <2>2. Save(With(mem, i, j)) /\ run[i] \in {"preparing", "uploading"}
    BY <1>1 DEF Progress, Save
  <2>3. mem' = With(mem, i, j) /\ disk' \in {disk, mem'}
    BY <2>2, SaveOutcome
  <2>4. \A k \in Ids : mem'.jobs[k] = IF k = i THEN j ELSE mem.jobs[k]
    BY <1>0, <2>3, WithJobs
  <2>5. \A k \in Ids : run'[k] = IF k = i THEN phase ELSE run[k]
    BY <1>1 DEF Progress, TypeOK
  <2>6. mem.jobs[i].state # "committing"
    BY <2>2 DEF CommitInv, RunMatches, InProgress
  <2>7. sent' = sent /\ (Serving' => Serving)
    BY <1>1 DEF Progress, Serving, Saved, SaveFailed
  <2> HIDE DEF j
  <2>8. LagInv' /\ Ledger!Write({})
    BY <2>1, <2>2, <2>3, <2>4, <2>5, <2>6, <2>7, RunnerChange DEF InProgress
  <2> QED
    BY <2>8, WriteIsStep
<1>2. ASSUME SendCommit(i) PROVE LagInv' /\ LedgerStep
  <2>1. \A k \in Ids : /\ run'[k] = IF k = i THEN "sent" ELSE run[k]
                       /\ sent'[k] = IF k = i THEN sent[k] + 1 ELSE sent[k]
    BY <1>2 DEF SendCommit, TypeOK
  <2>2. UNCHANGED <<mem, disk, fault, up>> /\ run[i] = "committing" /\ i \notin cut
    BY <1>2 DEF SendCommit
  <2>3. sent[i] = 0 /\ mem.jobs[i].state = "committing" /\ disk.jobs[i].state = "committing"
    BY <2>2 DEF CommitInv, SentAccounted, RunMatches, CommitRecorded, InProgress
  <2>4. Behind'
    <3>1. Follows("committing", "committing", 1) /\ Running("committing", "committing")
      BY DEF Follows, Running, InProgress
    <3> QED
      BY <2>1, <2>2, <2>3, <3>1 DEF LagInv, Behind
  <2>5. Manned'
    BY <2>1, <2>2 DEF LagInv, Manned, Serving
  <2>6. Ledger!Send(i)
    <3>1. Entry("committing") = "uncertain"
      BY DEF Entry, InProgress
    <3>2. sent' = [sent EXCEPT ![i] = 1]
      BY <1>2, <2>3 DEF SendCommit, TypeOK
    <3> QED
      BY <2>2, <2>3, <3>1, <3>2 DEF Ledger!Send
  <2> QED
    BY <2>4, <2>5, <2>6 DEF LagInv, LedgerStep, Ledger!Next
<1>3. ASSUME NEW o \in Outcomes, Finish(i, o) PROVE LagInv' /\ LedgerStep
  <2> DEFINE j == EndedJob(mem.jobs[i], o)
             w == With(mem, i, j)
             m == [w EXCEPT !.rev = IF o = "key" THEN w.rev + 1 ELSE w.rev]
  <2>1. m.jobs = w.jobs
    BY <1>0 DEF With, Stores
  <2>2. mem' = m /\ disk' \in {disk, mem'} /\ (fault => fault')
    BY <1>3, SaveThenRemoveIsSave, SaveOutcome DEF Finish, Save, Saved, SaveFailed
  <2>3. \A k \in Ids : mem'.jobs[k] = IF k = i THEN j ELSE mem.jobs[k]
    BY <1>0, <2>1, <2>2, WithJobs
  <2>4. run[i] # "off" /\ mem.jobs[i].state \in InProgress
    BY <1>3, OffUnlessInProgress DEF Finish, Active
  <2>5. /\ j.state \in {"completed", "failed", "cancelled", "pending"}
        /\ mem.jobs[i].state = "committing" => j.state \in {"completed", "failed"}
    BY <1>0, <2>4, JobOfStore, EndedState
  <2> HIDE DEF j, w, m
  <2>6. \A k \in Ids : run'[k] = IF k = i THEN "off" ELSE run[k]
    BY <1>3 DEF Finish, TypeOK
  <2>7. sent' = sent /\ (Serving' => Serving)
    BY <1>3, <2>2 DEF Finish, Serving
  <2>8. LagInv' /\ Ledger!Write({})
    BY <2>2, <2>3, <2>4, <2>5, <2>6, <2>7, RunnerChange DEF InProgress
  <2> QED
    BY <2>8, WriteIsStep
<1> QED
  BY <1>1, <1>2, <1>3 DEF Upload

\* What Open makes of a job's entry is a legal move, and leaves none in progress.
LEMMA RecoveredFollows ==
  ASSUME NEW k \in Ids, disk \in Stores
  PROVE  /\ \A n : Follows(disk.jobs[k].state, Recovered(disk).jobs[k].state, n)
         /\ Recovered(disk).jobs[k].state \notin InProgress
<1>1. Recovered(disk).jobs[k] = RecoveredJob(disk.jobs[k])
  BY JobsReplaced DEF Recovered
<1>2. Recovered(disk).jobs[k].state
        = IF disk.jobs[k].cancelRequested /\ RecoveredState(disk.jobs[k].state) = "pending"
          THEN "cancelled" ELSE RecoveredState(disk.jobs[k].state)
  BY <1>1, JobOfStore DEF RecoveredJob, Job
<1>3. disk.jobs[k].state \in JobStates
  BY StateOfStore
<1> QED
  BY <1>2, <1>3 DEF RecoveredState, Follows, Entry, Ledger!Moves, Ledger!Decided, InProgress,
                    Terminal, JobStates

LEMMA OpenRefines ==
  ASSUME TypeOK, TypeOK', CommitInv, LagInv, Open
  PROVE  LagInv' /\ LedgerStep
<1>1. UNCHANGED <<run, sent>> /\ disk \in Stores
  BY DEF Open, runVars, ghostVars, TypeOK
<1>2. mem' = disk' /\ disk' \in {disk, Recovered(disk)} /\ (up' => mem' = Recovered(disk))
  BY DEF Open, TypeOK
<1>3. \A s, n : Follows(s, s, n)
  BY DEF Follows
<1>4. \A k \in Ids : run'[k] = "off"
  BY <1>1 DEF Open, CommitInv, Active
<1>5. \A k \in Ids : Follows(disk.jobs[k].state, disk'.jobs[k].state, sent[k])
  BY <1>1, <1>2, <1>3, RecoveredFollows
<1>6. Behind'
  BY <1>2, <1>3, <1>4 DEF Behind
<1>7. Manned'
  BY <1>1, <1>2, RecoveredFollows DEF Manned, Serving
<1> QED
  BY <1>1, <1>5, <1>6, <1>7, StepIsWrite, WriteIsStep DEF LagInv

LEMMA BackoffRefines ==
  ASSUME TypeOK, TypeOK', LagInv, NEW i \in Ids, BackoffEnds(i)
  PROVE  LagInv' /\ LedgerStep
<1>1. ASSUME NEW s \in Stores, NEW k \in Ids
      PROVE  With(s, i, [s.jobs[i] EXCEPT !.backoff = FALSE]).jobs[k].state = s.jobs[k].state
  BY JobOfStore, WithJobs DEF Job
<1>2. \A k \in Ids : /\ mem'.jobs[k].state = mem.jobs[k].state
                     /\ disk'.jobs[k].state = disk.jobs[k].state
  BY <1>1 DEF BackoffEnds, TypeOK
<1>3. UNCHANGED <<run, sent, up, fault>>
  BY DEF BackoffEnds, engineVars, runVars, ghostVars
<1>4. \A k \in Ids : Follows(disk.jobs[k].state, disk'.jobs[k].state, sent[k])
  BY <1>2 DEF Follows
<1>5. LagInv'
  BY <1>2, <1>3 DEF LagInv, Behind, Manned, Serving
<1> QED
  BY <1>3, <1>4, <1>5, StepIsWrite, WriteIsStep

LEMMA StepRefines ==
  TypeOK /\ TypeOK' /\ CommitInv /\ DurableWhileServing /\ LagInv /\ [Next]_vars
    => LagInv' /\ LedgerStep
<1> SUFFICES ASSUME TypeOK, TypeOK', CommitInv, DurableWhileServing, LagInv, [Next]_vars
             PROVE  LagInv' /\ LedgerStep
  OBVIOUS
<1> USE DEF engineVars, runVars, importVars, accountVars, ghostVars
<1>1. ASSUME UNCHANGED <<mem, disk, run, sent>>, Serving' => Serving PROVE LagInv' /\ LedgerStep
  BY <1>1, StillStep, WriteIsStep
<1>2. CASE Request
  BY <1>2, RequestRefines
<1>3. CASE Tick
  BY <1>3, TickRefines
<1>4. ASSUME NEW i \in Ids, BackoffEnds(i) PROVE LagInv' /\ LedgerStep
  BY <1>4, BackoffRefines
<1>5. ASSUME NEW i \in Ids, Upload(i) PROVE LagInv' /\ LedgerStep
  BY <1>5, UploadRefines
<1>6. CASE Close
  BY <1>1, <1>6 DEF Close, Serving
<1>7. CASE Crash
  <2>1. \A k \in Ids : run'[k] = "off"
    BY <1>7 DEF Crash
  <2>2. mem' = disk /\ disk' = disk /\ sent' = sent /\ ~Serving'
    BY <1>7 DEF Crash, Serving
  <2>3. \A s, n : Follows(s, s, n)
    BY DEF Follows
  <2>4. LagInv'
    BY <2>1, <2>2, <2>3 DEF LagInv, Behind, Manned
  <2> QED
    BY <2>2, <2>3, <2>4, StepIsWrite, WriteIsStep
<1>8. CASE Open
  BY <1>8, OpenRefines
<1>9. ASSUME NEW w \in SUBSET NativeAccounts, AuthorizationChanges(w) PROVE LagInv' /\ LedgerStep
  BY <1>1, <1>9 DEF AuthorizationChanges, Serving
<1>10. CASE UNCHANGED vars
  BY <1>1, <1>10 DEF vars, Serving
<1> QED
  BY <1>2, <1>3, <1>4, <1>5, <1>6, <1>7, <1>8, <1>9, <1>10 DEF Next

\* The file of a new store, or of one an older build left, starts a ledger.
LEMMA InitRefines == Init => LagInv /\ Ledger!Init
<1> SUFFICES ASSUME Init PROVE LagInv /\ Ledger!Init
  OBVIOUS
<1>1. LagInv
  BY DEF Init, LagInv, Behind, Manned, Follows, Serving
<1>2. NewStore \in Stores /\ 1 \in Ids
  BY AnItemIsItem, BlankIsJob, OptionsAssumption, BoundsAssumption DEF NewStore, Stores, Ids
<1>3. \A k \in Ids : NewStore.jobs[k].state = "none"
  BY AnItemIsItem, BlankIsJob DEF NewStore
<1>4. \A k \in Ids : disk.jobs[k].state \in {"none", "completed"}
  <2>1. CASE disk = NewStore
    BY <1>3, <2>1
  <2>2. CASE disk # NewStore
    <3>1. PICK j : disk = With(NewStore, 1, j) /\ j.state = "completed"
      <4>1. PICK x \in LegacyItems :
              disk = With(NewStore, 1, [Blank(x) EXCEPT !.state = "completed", !.attempts = 1,
                                                        !.sealed = TRUE])
        BY <2>2 DEF Init, LegacyStores
      <4>2. [Blank(x) EXCEPT !.state = "completed", !.attempts = 1,
                             !.sealed = TRUE].state = "completed"
        BY DEF Blank
      <4> QED
        BY <4>1, <4>2
    <3>2. \A k \in Ids : disk.jobs[k] = IF k = 1 THEN j ELSE NewStore.jobs[k]
      BY <1>2, <3>1, WithJobs
    <3> QED
      BY <1>3, <3>1, <3>2
  <2> QED
    BY <2>1, <2>2
<1>5. Entry("none") = "absent" /\ Entry("completed") = "done"
  BY DEF Entry, InProgress
<1>6. sent = [k \in Ids |-> 0]
  BY DEF Init
<1> QED
  BY <1>1, <1>4, <1>5, <1>6 DEF Ledger!Init

LEMMA LagHolds == Spec => [](TypeOK /\ CommitInv /\ DurableWhileServing /\ LagInv)
  BY InitRefines, InitCommit, StepCommit, StepRefines, TypeCorrect, Durability, PTL DEF Spec

\* Memory, failing saves, uploads, crashes and recovery included, everything the
\* engine writes and every commit request it sends is a step of the ledger of
\* its file (save, execute, Open).
THEOREM Refinement == Spec => RefinesLedger
<1>1. TypeOK /\ TypeOK' /\ CommitInv /\ DurableWhileServing /\ LagInv /\ [Next]_vars
        => [Ledger!Next]_Ledger!vars
  BY StepRefines DEF LedgerStep
<1>2. Init => Ledger!Init
  BY InitRefines
<1> QED
  BY <1>1, <1>2, LagHolds, PTL DEF Spec, RefinesLedger, Ledger!Spec

\* No job is left in progress without a goroutine to finish it while requests
\* are answered, and no goroutine works on a job that is not (Tick, execute, Open).
THEOREM NoneStranded == Spec => []NoStrandedJob
<1>1. TypeOK /\ CommitInv /\ LagInv => NoStrandedJob
  BY OffUnlessInProgress DEF LagInv, Manned, NoStrandedJob, Active
<1> QED
  BY <1>1, LagHolds, PTL

=============================================================================
