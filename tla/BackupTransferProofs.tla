------------------------ MODULE BackupTransferProofs ------------------------
(* Proofs about BackupTransfer: what the flags of a transfer promise about *)
(* its job, and the balance of the registrations.                          *)
EXTENDS BackupTransfer, FiniteSetTheorems, TLAPS

-----------------------------------------------------------------------------
(* Types *)

\* Every action keeps the types; the flags are those of Finish or Unregister.
LEMMA TypeKept == TypeOK /\ [Next]_vars => TypeOK'
<1>. USE TransferAssumption
<1>. SUFFICES ASSUME TypeOK, [Next]_vars PROVE TypeOK'
  OBVIOUS
<1>. USE DEF TypeOK, Steps
<1>1. ASSUME NEW r \in Requests PROVE Unregister(r) \in [Assets -> Nat]
  BY DEF Unregister
<1>2. ASSUME NEW r \in Requests, Finish(r)
      PROVE /\ finished' \in SUBSET Requests
            /\ registered' \in [Assets -> Nat]
            /\ UNCHANGED <<cancelled, cancelGo, reconciling>>
  BY <1>1, <1>2 DEF Finish
<1>3. ASSUME NEW r \in Requests, Start(r) PROVE TypeOK'
  BY <1>3 DEF Start, Moved, flags, cancel, host
<1>4. ASSUME NEW r \in Requests, Handling(r) PROVE TypeOK'
  <2>1. CASE Bind(r)
    BY <2>1, <1>2 DEF Bind, Fail, Moved, flags, cancel, host
  <2>2. CASE Prepare(r) \/ Authorize(r) \/ Export(r) \/ Import(r)
    BY <2>2 DEF Prepare, Authorize, Export, Import, Moved, flags, cancel, host
  <2>3. CASE StoreJob(r) \/ CheckCancel(r) \/ Poll(r)
    BY <2>3 DEF StoreJob, CheckCancel, Poll, Moved, flags, cancel, host
  <2>4. CASE End(r)
    BY <2>4, <1>2 DEF End, Fail, Moved, flags, cancel, host
  <2>5. CASE Reconcile(r)
    BY <2>5 DEF Reconcile, Moved, flags, cancel, host
  <2>. QED  BY <1>4, <2>1, <2>2, <2>3, <2>4, <2>5 DEF Handling
<1>5. ASSUME NEW r \in Requests, NativeCompletes(r) \/ GuardLooks(r) \/ GuardDecides(r) PROVE TypeOK'
  BY <1>5, <1>2 DEF NativeCompletes, GuardLooks, GuardDecides, Moved, flags, cancel, host
<1>6. ASSUME NEW r \in Requests, CancelBegins(r) PROVE TypeOK'
  BY <1>6 DEF CancelBegins, host
<1>7. ASSUME NEW r \in Requests, CancelMarks(r) PROVE TypeOK'
  BY <1>7, <1>1 DEF CancelMarks, host
<1>8. ASSUME NEW r \in Requests, CancelEnds(r) PROVE TypeOK'
  BY <1>8 DEF CancelEnds, flags, host
<1>9. CASE HostMoves \/ SetRouting \/ AccountConnected
  BY <1>9 DEF HostMoves, SetRouting, AccountConnected, RoutingEnabled, flags, cancel
<1>10. CASE UNCHANGED vars
  BY <1>10 DEF vars, flags, cancel, host
<1>. QED  BY <1>3, <1>4, <1>5, <1>6, <1>7, <1>8, <1>9, <1>10 DEF Next

\* Every variable of the transfer keeps its type.
THEOREM TransferTypes == Spec => []TypeOK
<1>1. Init => TypeOK
  BY TransferAssumption DEF Init, TypeOK, Steps
<1>. QED  BY <1>1, TypeKept, PTL DEF Spec

-----------------------------------------------------------------------------
(* What the cancels leave behind *)

\* A transfer none of whose cancels came in the background keeps cancelGo from
\* its first cancel on, and its job is asked for unless a cancel or the worker
\* is still about to look at it.
OnlyFront(r) == "back" \notin cancelledIn[r]

FlagFollows == \A r \in Requests :
    OnlyFront(r) /\ (r \in cancelled \/ cancelling[r] # "no") => r \in cancelGo

JobFollows == \A r \in jobID \cap cancelled :
    OnlyFront(r) /\ step[r] # "stored" /\ cancelling[r] # "marked" => r \in goCancels

FrontFlag == \A r \in cancelGo \cup goCancels : "front" \in cancelledIn[r]

CancelInv == FlagFollows /\ JobFollows /\ FrontFlag

\* Steps that touch no cancel, no job and no step "stored".
LEMMA CancelInvKeptByOthers ==
    ASSUME TypeOK, CancelInv, NEW r \in Requests,
           \/ Start(r) \/ Bind(r) \/ Prepare(r) \/ Authorize(r) \/ Export(r) \/ Import(r)
           \/ Poll(r) \/ End(r) \/ Reconcile(r)
           \/ NativeCompletes(r) \/ GuardLooks(r) \/ GuardDecides(r)
    PROVE CancelInv'
<1>1. UNCHANGED <<cancel, jobID, goCancels, cancelled, cancelGo>>
  BY DEF Start, Bind, Prepare, Authorize, Export, Import, Poll, End, Reconcile, NativeCompletes,
         GuardLooks, GuardDecides, Fail, Finish, flags
<1>2. \A q \in Requests : step'[q] = "stored" <=> step[q] = "stored"
  BY DEF Start, Bind, Prepare, Authorize, Export, Import, Poll, End, Reconcile, NativeCompletes,
         GuardLooks, GuardDecides, Fail, Moved, TypeOK, host
<1>. QED
  BY <1>1, <1>2 DEF CancelInv, FlagFollows, JobFollows, FrontFlag, OnlyFront, cancel, TypeOK

LEMMA CancelInvKept == TypeOK /\ CancelInv /\ [Next]_vars => CancelInv'
<1>. SUFFICES ASSUME TypeOK, CancelInv, [Next]_vars PROVE CancelInv'
  OBVIOUS
<1>. USE DEF CancelInv, FlagFollows, JobFollows, FrontFlag, OnlyFront, TypeOK
<1>1. ASSUME NEW r \in Requests, StoreJob(r) PROVE CancelInv'
  BY <1>1 DEF StoreJob, Moved, flags, cancel
<1>2. ASSUME NEW r \in Requests, CheckCancel(r) PROVE CancelInv'
  BY <1>2 DEF CheckCancel, CancelAsks, Moved, flags, cancel
<1>3. ASSUME NEW r \in Requests, CancelBegins(r) PROVE CancelInv'
  BY <1>3 DEF CancelBegins
<1>4. ASSUME NEW r \in Requests, CancelMarks(r) PROVE CancelInv'
  BY <1>4 DEF CancelMarks
<1>5. ASSUME NEW r \in Requests, CancelEnds(r) PROVE CancelInv'
  BY <1>5 DEF CancelEnds, flags
<1>6. CASE HostMoves \/ SetRouting \/ AccountConnected \/ UNCHANGED vars
  BY <1>6 DEF HostMoves, SetRouting, AccountConnected, vars, flags, cancel
<1>. QED
  BY <1>1, <1>2, <1>3, <1>4, <1>5, <1>6, CancelInvKeptByOthers DEF Next, Handling

LEMMA CancelHolds == Spec => []CancelInv
<1>1. Init => CancelInv
  BY DEF Init, CancelInv, FlagFollows, JobFollows, FrontFlag, OnlyFront
<1>2. Init => TypeOK
  BY TransferAssumption DEF Init, TypeOK, Steps
<1>. QED  BY <1>1, <1>2, TypeKept, CancelInvKept, PTL DEF Spec

\* A request that was only ever cancelled in the foreground never leaves its job
\* behind.
THEOREM CancelsArrive == Spec => []CancelReachesGo
<1>1. CancelInv => CancelReachesGo
  BY DEF CancelInv, JobFollows, FrontFlag, OnlyFront, CancelReachesGo
<1>. QED  BY <1>1, CancelHolds, PTL

\* A cancel in the background alone never cancels a job.
THEOREM BackgroundCancelsSpare == Spec => []BackgroundCancelKeepsJob
<1>1. CancelInv => BackgroundCancelKeepsJob
  BY DEF CancelInv, JobFollows, FrontFlag, OnlyFront, BackgroundCancelKeepsJob
<1>. QED  BY <1>1, CancelHolds, PTL

-----------------------------------------------------------------------------
(* The balance of the registrations *)

\* The requests that hold a registration of an asset.
Holders(a) == {r \in Requests : AssetOf[r] = a /\ Registered(r)}

\* A transfer reconciles only after its handling, so it registers once.
RegInv == RegistrationsBalanced /\ \A r \in reconciling : step[r] = "resumed"

LEMMA HoldersFinite == ASSUME NEW a \in Assets PROVE IsFiniteSet(Holders(a))
  BY TransferAssumption, FS_Subset DEF Holders

\* Taking a registration back where one is held.
LEMMA UnregisterBalances ==
    ASSUME TypeOK, RegistrationsBalanced, NEW r \in Requests, Registered(r),
           registered' = Unregister(r),
           \A q \in Requests : Registered(q)' <=> Registered(q) /\ q # r
    PROVE RegistrationsBalanced'
<1>. SUFFICES ASSUME NEW a \in Assets PROVE registered'[a] = Cardinality(Holders(a)')
  BY DEF RegistrationsBalanced, Holders
<1>1. registered[a] = Cardinality(Holders(a))
  BY DEF RegistrationsBalanced, Holders
<1>2. CASE AssetOf[r] = a
  <2>1. Holders(a)' = Holders(a) \ {r} /\ r \in Holders(a)
    BY <1>2 DEF Holders
  <2>2. Cardinality(Holders(a)') = Cardinality(Holders(a)) - 1 /\ Cardinality(Holders(a)) \in Nat
    BY <2>1, HoldersFinite, FS_RemoveElement, FS_CardinalityType
  <2>3. Holders(a) # {}
    BY <2>1
  <2>4. Cardinality(Holders(a)) # 0
    BY <2>3, HoldersFinite, FS_EmptySet
  <2>. QED  BY <1>1, <1>2, <2>2, <2>4 DEF Unregister, TypeOK
<1>3. CASE AssetOf[r] # a
  <2>1. Holders(a)' = Holders(a)
    BY <1>3 DEF Holders
  <2>. QED  BY <1>1, <1>3, <2>1, TransferAssumption DEF Unregister, TypeOK
<1>. QED  BY <1>2, <1>3

LEMMA SameHoldersBalance ==
    ASSUME RegistrationsBalanced, registered' = registered,
           \A q \in Requests : Registered(q)' <=> Registered(q)
    PROVE RegistrationsBalanced'
<1>. SUFFICES ASSUME NEW a \in Assets PROVE registered'[a] = Cardinality(Holders(a)')
  BY DEF RegistrationsBalanced, Holders
<1>1. Holders(a)' = Holders(a)
  BY DEF Holders
<1>. QED  BY <1>1 DEF RegistrationsBalanced, Holders

LEMMA FinishBalances ==
    ASSUME TypeOK, RegInv, NEW r \in Requests, Finish(r) PROVE RegistrationsBalanced'
<1>1. CASE Registered(r)
  BY <1>1, UnregisterBalances DEF Finish, Registered, RegInv
<1>2. CASE ~Registered(r)
  BY <1>2, SameHoldersBalance DEF Finish, Registered, RegInv
<1>. QED  BY <1>1, <1>2

LEMMA CancelBalances ==
    ASSUME TypeOK, RegInv, NEW r \in Requests, CancelMarks(r) PROVE RegistrationsBalanced'
<1>1. CASE Registered(r)
  BY <1>1, UnregisterBalances DEF CancelMarks, Registered, RegInv
<1>2. CASE ~Registered(r)
  BY <1>2, SameHoldersBalance DEF CancelMarks, Registered, RegInv
<1>. QED  BY <1>1, <1>2

LEMMA ReconcileBalances ==
    ASSUME TypeOK, RegInv, NEW r \in Requests, Reconcile(r) PROVE RegInv'
<1>1. CASE ~MayReconcile(r)
  <2>1. UNCHANGED flags /\ r \notin reconciling
    BY <1>1 DEF Reconcile, RegInv
  <2>2. RegistrationsBalanced'
    BY <2>1, SameHoldersBalance DEF RegInv, Registered, flags
  <2>. QED  BY <1>1, <2>1, <2>2 DEF RegInv, Reconcile, Moved, TypeOK, flags
<1>2. CASE MayReconcile(r)
  <2>1. /\ reconciling' = reconciling \cup {r} /\ r \notin reconciling
        /\ registered' = [registered EXCEPT ![AssetOf[r]] = @ + 1]
        /\ UNCHANGED <<cancelled, finished>> /\ step' = [step EXCEPT ![r] = "resumed"]
    BY <1>2 DEF Reconcile, RegInv, Moved
  <2>2. \A q \in Requests : Registered(q)' <=> Registered(q) \/ q = r
    BY <1>2, <2>1 DEF Registered, MayReconcile
  <2>3. ASSUME NEW a \in Assets PROVE registered'[a] = Cardinality(Holders(a)')
    <3>1. registered[a] = Cardinality(Holders(a))
      BY DEF RegInv, RegistrationsBalanced, Holders
    <3>2. CASE AssetOf[r] = a
      <4>1. Holders(a)' = Holders(a) \cup {r} /\ r \notin Holders(a)
        BY <2>1, <2>2, <3>2 DEF Holders, Registered
      <4>2. Cardinality(Holders(a)') = Cardinality(Holders(a)) + 1
        BY <4>1, HoldersFinite, FS_AddElement
      <4>. QED  BY <2>1, <3>1, <3>2, <4>2 DEF TypeOK
    <3>3. CASE AssetOf[r] # a
      <4>1. Holders(a)' = Holders(a)
        BY <2>2, <3>3 DEF Holders
      <4>. QED  BY <2>1, <3>1, <3>3, <4>1, TransferAssumption DEF TypeOK
    <3>. QED  BY <3>2, <3>3
  <2>4. RegistrationsBalanced'
    BY <2>3 DEF RegistrationsBalanced, Holders
  <2>. QED  BY <2>1, <2>4 DEF RegInv, TypeOK
<1>. QED  BY <1>1, <1>2

LEMMA RegInvKept == TypeOK /\ RegInv /\ [Next]_vars => RegInv'
<1>. SUFFICES ASSUME TypeOK, RegInv, [Next]_vars PROVE RegInv'
  OBVIOUS
<1>1. ASSUME UNCHANGED <<cancelled, reconciling, finished, registered>>,
             \A r \in Requests : step[r] = "resumed" => step'[r] = "resumed"
      PROVE RegInv'
  <2>1. RegistrationsBalanced'
    BY <1>1, SameHoldersBalance DEF RegInv, Registered
  <2>. QED  BY <1>1, <2>1 DEF RegInv, TypeOK
<1>2. ASSUME NEW r \in Requests, Finish(r),
             \A q \in Requests : step[q] = "resumed" => step'[q] = "resumed"
      PROVE RegInv'
  BY <1>2, FinishBalances DEF RegInv, Finish, TypeOK
<1>3. ASSUME NEW r \in Requests,
             \/ Start(r) \/ Prepare(r) \/ Authorize(r) \/ Export(r) \/ Import(r) \/ StoreJob(r)
             \/ CheckCancel(r) \/ Poll(r) \/ GuardDecides(r)
      PROVE RegInv'
  BY <1>1, <1>3 DEF Start, Prepare, Authorize, Export, Import, StoreJob, CheckCancel, Poll, GuardDecides,
                    Moved, flags, TypeOK
<1>4. ASSUME NEW r \in Requests, Bind(r) \/ End(r) PROVE RegInv'
  BY <1>1, <1>2, <1>4 DEF Bind, End, Fail, Moved, flags, TypeOK
<1>5. ASSUME NEW r \in Requests, NativeCompletes(r) \/ GuardLooks(r) PROVE RegInv'
  BY <1>1, <1>2, <1>5 DEF NativeCompletes, GuardLooks, Moved, flags, TypeOK
<1>6. ASSUME NEW r \in Requests, CancelBegins(r) \/ CancelEnds(r) PROVE RegInv'
  BY <1>1, <1>6 DEF CancelBegins, CancelEnds, flags
<1>7. ASSUME NEW r \in Requests, CancelMarks(r) PROVE RegInv'
  BY <1>7, CancelBalances DEF RegInv, CancelMarks, TypeOK
<1>8. CASE HostMoves \/ SetRouting \/ AccountConnected \/ UNCHANGED vars
  BY <1>1, <1>8 DEF HostMoves, SetRouting, AccountConnected, vars, flags
<1>. QED
  BY <1>3, <1>4, <1>5, <1>6, <1>7, <1>8, ReconcileBalances DEF Next, Handling

LEMMA FirstBalance == Init => RegInv
<1>. SUFFICES ASSUME Init, NEW a \in Assets PROVE registered[a] = Cardinality(Holders(a))
  BY DEF Init, RegInv, RegistrationsBalanced, Holders
<1>1. Holders(a) = {}
  BY DEF Init, Holders, Registered
<1>. QED  BY <1>1, FS_EmptySet DEF Init

\* GSReconciling counts exactly the transfers that reconcile and have neither
\* finished nor been cancelled.
THEOREM Balanced == Spec => []RegistrationsBalanced
<1>1. Init => TypeOK
  BY TransferAssumption DEF Init, TypeOK, Steps
<1>2. RegInv => RegistrationsBalanced
  BY DEF RegInv
<1>. QED  BY <1>1, <1>2, FirstBalance, TypeKept, RegInvKept, PTL DEF Spec

\* While a request waits for the server's copy, the guard lets no native request
\* for the same asset on.
THEOREM GuardHolds == Spec => NoSecondCopy
<1>1. ASSUME TypeOK, RegistrationsBalanced, [Next]_vars,
             NEW r \in Requests, step[r] = "passed", step'[r] = "guarded",
             NEW q \in Requests, AssetOf[q] = AssetOf[r], Registered(q)
      PROVE FALSE
  <2>1. GuardLooks(r) /\ ~Active
    BY <1>1 DEF Next, Handling, Start, Bind, Prepare, Authorize, Export, Import, StoreJob, CheckCancel,
                Poll, End, Reconcile, NativeCompletes, GuardLooks, GuardDecides, CancelBegins, CancelMarks,
                CancelEnds, HostMoves, SetRouting, AccountConnected, Fail, Moved, vars, TypeOK
  <2>2. AssetOf[q] \in Assets /\ q \in Holders(AssetOf[q])
    BY <1>1, TransferAssumption DEF Holders
  <2>3. registered[AssetOf[q]] = Cardinality(Holders(AssetOf[q])) /\ registered[AssetOf[q]] \in Nat
    BY <1>1, <2>2 DEF RegistrationsBalanced, Holders, TypeOK
  <2>4. Cardinality(Holders(AssetOf[q])) # 0
    BY <2>2, HoldersFinite, FS_EmptySet
  <2>. QED  BY <2>1, <2>2, <2>3, <2>4 DEF Active
<1>2. TypeOK /\ RegistrationsBalanced /\ [Next]_vars
      => [\A r \in Requests : step[r] = "passed" /\ step'[r] = "guarded"
            => ~\E q \in Requests : AssetOf[q] = AssetOf[r] /\ Registered(q)]_vars
  BY <1>1
<1>. QED  BY <1>2, TransferTypes, Balanced, PTL DEF Spec, NoSecondCopy

-----------------------------------------------------------------------------
(* The guard keeps its promise *)

\* Only a request that was taken over has flags or is cancelled through them.
Flagged == /\ \A r \in Requests : r \in cancelled \cup finished \cup reconciling => Taken(r)
           /\ \A r \in Requests : cancelling[r] # "no" => Taken(r)

Waiting  == reconciling \ Over
AtGuard  == {r \in Requests : step[r] = "guarded"}
Uploaded == {r \in Requests : step[r] = "sent"}

\* A step of the handling, of the native request or of its cancel leaves a request
\* that was taken over taken over.
LEMMA TakenStays ==
    ASSUME TypeOK, [Next]_vars, NEW q \in Requests, Taken(q)
    PROVE Taken(q)'
<1>1. ASSUME NEW r \in Requests, Start(r) PROVE Taken(q)'
  BY <1>1 DEF Start, Moved, Taken, TypeOK
<1>2. ASSUME NEW r \in Requests, Handling(r) PROVE Taken(q)'
  BY <1>2 DEF Handling, Bind, Prepare, Authorize, Export, Import, StoreJob, CheckCancel, Poll, End,
              Reconcile, Fail, Moved, Taken, TypeOK
<1>3. ASSUME NEW r \in Requests, NativeCompletes(r) \/ GuardLooks(r) \/ GuardDecides(r) PROVE Taken(q)'
  BY <1>3 DEF NativeCompletes, GuardLooks, GuardDecides, Moved, Taken, TypeOK
<1>4. ASSUME NEW r \in Requests, CancelBegins(r) \/ CancelMarks(r) \/ CancelEnds(r) PROVE Taken(q)'
  BY <1>4 DEF CancelBegins, CancelMarks, CancelEnds, Taken
<1>5. CASE HostMoves \/ SetRouting \/ AccountConnected \/ UNCHANGED vars
  BY <1>5 DEF HostMoves, SetRouting, AccountConnected, vars, Taken
<1>. QED  BY <1>1, <1>2, <1>3, <1>4, <1>5 DEF Next

\* Flags are set for requests that were taken over.
LEMMA FlaggedKept == TypeOK /\ Flagged /\ [Next]_vars => Flagged'
<1>. SUFFICES ASSUME TypeOK, Flagged, [Next]_vars PROVE Flagged'
  OBVIOUS
<1>1. \A q \in Requests : Taken(q) => Taken(q)'
  BY TakenStays
<1>2. ASSUME UNCHANGED <<cancelled, finished, reconciling, cancelling>> PROVE Flagged'
  BY <1>1, <1>2 DEF Flagged
<1>3. ASSUME NEW r \in Requests, Finish(r), Taken(r), UNCHANGED cancelling PROVE Flagged'
  BY <1>1, <1>3 DEF Flagged, Finish
<1>4. ASSUME NEW r \in Requests,
             \/ Start(r) \/ Prepare(r) \/ Authorize(r) \/ Export(r) \/ Import(r) \/ StoreJob(r)
             \/ CheckCancel(r) \/ Poll(r) \/ GuardDecides(r)
      PROVE Flagged'
  BY <1>2, <1>4 DEF Start, Prepare, Authorize, Export, Import, StoreJob, CheckCancel, Poll, GuardDecides,
                    flags, cancel
<1>5. ASSUME NEW r \in Requests, Bind(r) \/ End(r) \/ NativeCompletes(r) \/ GuardLooks(r) PROVE Flagged'
  BY <1>2, <1>3, <1>5 DEF Bind, End, Fail, NativeCompletes, GuardLooks, Taken, flags, cancel
<1>6. ASSUME NEW r \in Requests, Reconcile(r) PROVE Flagged'
  <2>1. Taken(r)
    BY <1>6 DEF Reconcile, Taken
  <2>. QED  BY <1>1, <1>6, <2>1 DEF Reconcile, Flagged, flags, cancel
<1>7. ASSUME NEW r \in Requests, CancelBegins(r) \/ CancelMarks(r) \/ CancelEnds(r) PROVE Flagged'
  BY <1>1, <1>7 DEF CancelBegins, CancelMarks, CancelEnds, Flagged, TypeOK, flags
<1>8. CASE HostMoves \/ SetRouting \/ AccountConnected \/ UNCHANGED vars
  BY <1>2, <1>8 DEF HostMoves, SetRouting, AccountConnected, vars, flags, cancel
<1>. QED  BY <1>4, <1>5, <1>6, <1>7, <1>8 DEF Next, Handling

\* While somebody waits, some registration counts it.
LEMMA WaitingIsActive ==
    ASSUME TypeOK, RegistrationsBalanced, ~Active PROVE Waiting = {}
<1>. SUFFICES ASSUME NEW r \in Waiting PROVE FALSE
  OBVIOUS
<1>1. r \in Requests /\ AssetOf[r] \in Assets /\ r \in Holders(AssetOf[r])
  BY TransferAssumption DEF Waiting, Over, Holders, Registered, TypeOK
<1>2. Cardinality(Holders(AssetOf[r])) # 0
  BY <1>1, HoldersFinite, FS_EmptySet
<1>3. registered[AssetOf[r]] = Cardinality(Holders(AssetOf[r])) /\ registered[AssetOf[r]] \in Nat
  BY <1>1 DEF RegistrationsBalanced, Holders, TypeOK
<1>. QED  BY <1>1, <1>2, <1>3 DEF Active

GuardStep == Guard!Next \/ UNCHANGED Guard!vars

\* A flag that ends a request which was taken over.
LEMMA EndIsStep ==
    ASSUME TypeOK, NEW r \in Requests, Taken(r), Over' = Over \cup {r}, reconciling' = reconciling,
           AtGuard' = AtGuard, Uploaded' = Uploaded
    PROVE GuardStep
<1>1. r \notin AtGuard /\ r \notin Uploaded
  BY DEF Taken, AtGuard, Uploaded
<1>2. Waiting' = Waiting \ {r}
  BY DEF Waiting
<1>3. CASE r \in Over
  BY <1>2, <1>3 DEF GuardStep, Guard!vars, Waiting, AtGuard, Uploaded
<1>4. CASE r \notin Over
  BY <1>1, <1>2, <1>4 DEF GuardStep, Guard!Next, Guard!End, Waiting, AtGuard, Uploaded
<1>. QED  BY <1>3, <1>4

LEMMA StepGuards ==
    TypeOK /\ RegInv /\ Flagged /\ [Next]_vars => GuardStep
<1>. SUFFICES ASSUME TypeOK, RegInv, Flagged, [Next]_vars PROVE GuardStep
  OBVIOUS
<1>1. ASSUME UNCHANGED <<cancelled, finished, reconciling>>, AtGuard' = AtGuard, Uploaded' = Uploaded
      PROVE GuardStep
  BY <1>1 DEF GuardStep, Guard!vars, Over, AtGuard, Uploaded
\* Moves between steps other than the guard's.
<1>2. ASSUME NEW r \in Requests, NEW to \in Steps \ {"guarded", "sent"},
             step[r] \notin {"guarded", "sent"}, Moved(r, to)
      PROVE AtGuard' = AtGuard /\ Uploaded' = Uploaded
  BY <1>2 DEF Moved, AtGuard, Uploaded, TypeOK
<1>3. ASSUME NEW r \in Requests, Finish(r), Taken(r), AtGuard' = AtGuard, Uploaded' = Uploaded
      PROVE GuardStep
  BY <1>3, EndIsStep DEF Finish, Over
<1>4. ASSUME NEW r \in Requests,
             \/ Start(r) \/ Prepare(r) \/ Authorize(r) \/ Export(r) \/ Import(r) \/ StoreJob(r)
             \/ CheckCancel(r) \/ Poll(r)
      PROVE GuardStep
  <2>1. AtGuard' = AtGuard /\ Uploaded' = Uploaded
    BY <1>2, <1>4 DEF Start, Prepare, Authorize, Export, Import, StoreJob, CheckCancel, Poll, Steps
  <2>. QED
    BY <1>1, <1>4, <2>1 DEF Start, Prepare, Authorize, Export, Import, StoreJob, CheckCancel, Poll, flags
<1>5. ASSUME NEW r \in Requests, Bind(r) \/ End(r) PROVE GuardStep
  <2>1. AtGuard' = AtGuard /\ Uploaded' = Uploaded /\ Taken(r)
    BY <1>2, <1>5 DEF Bind, End, Fail, Steps, Taken
  <2>. QED  BY <1>1, <1>3, <1>5, <2>1 DEF Bind, End, Fail, flags
<1>6. ASSUME NEW r \in Requests, NativeCompletes(r) PROVE GuardStep
  BY <1>3, <1>6 DEF NativeCompletes, AtGuard, Uploaded
<1>7. ASSUME NEW r \in Requests, Reconcile(r) PROVE GuardStep
  <2>1. step[r] = "committed" /\ AtGuard' = AtGuard /\ Uploaded' = Uploaded
    BY <1>2, <1>7 DEF Reconcile, Steps
  <2>2. CASE ~MayReconcile(r)
    BY <1>1, <1>7, <2>1, <2>2 DEF Reconcile, flags
  <2>3. CASE MayReconcile(r)
    <3>1. /\ reconciling' = reconciling \cup {r} /\ Over' = Over /\ r \notin Over
          /\ r \notin reconciling
      BY <1>7, <2>1, <2>3 DEF Reconcile, MayReconcile, Over, RegInv
    <3>2. Waiting' = Waiting \cup {r} /\ r \notin Waiting \cup AtGuard \cup Uploaded
      BY <2>1, <3>1 DEF Waiting, AtGuard, Uploaded
    <3>3. Guard!Wait(r)
      BY <2>1, <3>1, <3>2 DEF Guard!Wait, Waiting, AtGuard, Uploaded
    <3>. QED  BY <3>3 DEF GuardStep, Guard!Next
  <2>. QED  BY <2>2, <2>3
\* The payload passes only where no registration is counted.
<1>8. ASSUME NEW r \in Requests, GuardLooks(r) PROVE GuardStep
  <2>1. CASE step[r] = "resumed" /\ Finish(r) /\ UNCHANGED step
    BY <1>3, <2>1 DEF Taken, AtGuard, Uploaded
  <2>2. CASE step[r] = "passed" /\ Active /\ Moved(r, "refused") /\ UNCHANGED flags
    BY <1>1, <1>2, <2>2 DEF Steps, flags
  <2>3. CASE step[r] = "passed" /\ ~Active /\ Moved(r, "guarded") /\ UNCHANGED flags
    <3>1. Waiting = {} /\ Waiting' = Waiting /\ Over' = Over /\ r \notin Over
      BY <2>3, WaitingIsActive DEF RegInv, Flagged, Taken, Waiting, Over, flags
    <3>2. AtGuard' = AtGuard \cup {r} /\ Uploaded' = Uploaded /\ r \notin AtGuard \cup Uploaded
      BY <2>3 DEF Moved, AtGuard, Uploaded, TypeOK
    <3>3. Guard!Pass(r)
      BY <3>1, <3>2 DEF Guard!Pass, Waiting, AtGuard, Uploaded
    <3>. QED  BY <3>3 DEF GuardStep, Guard!Next
  <2>. QED  BY <1>8, <2>1, <2>2, <2>3 DEF GuardLooks
<1>9. ASSUME NEW r \in Requests, GuardDecides(r) PROVE GuardStep
  <2>1. UNCHANGED flags /\ r \in AtGuard /\ (Moved(r, "refused") \/ Moved(r, "sent"))
    BY <1>9 DEF GuardDecides, AtGuard
  <2>2. AtGuard' = AtGuard \ {r} /\ Uploaded' \in {Uploaded, Uploaded \cup {r}}
    BY <2>1 DEF Moved, AtGuard, Uploaded, TypeOK
  <2>3. Waiting' = Waiting /\ Over' = Over
    BY <2>1 DEF Waiting, Over, flags
  <2>4. Guard!Leave(r)
    BY <2>1, <2>2, <2>3 DEF Guard!Leave, Waiting, AtGuard, Uploaded
  <2>. QED  BY <2>4 DEF GuardStep, Guard!Next
<1>10. ASSUME NEW r \in Requests, CancelMarks(r) PROVE GuardStep
  <2>1. Taken(r)
    BY <1>10 DEF CancelMarks, Flagged
  <2>. QED  BY <1>10, <2>1, EndIsStep DEF CancelMarks, Over, AtGuard, Uploaded
<1>11. ASSUME NEW r \in Requests, CancelBegins(r) \/ CancelEnds(r) PROVE GuardStep
  BY <1>1, <1>11 DEF CancelBegins, CancelEnds, flags, AtGuard, Uploaded
<1>12. CASE HostMoves \/ SetRouting \/ AccountConnected \/ UNCHANGED vars
  BY <1>1, <1>12 DEF HostMoves, SetRouting, AccountConnected, vars, flags, AtGuard, Uploaded
<1>. QED
  BY <1>4, <1>5, <1>6, <1>7, <1>8, <1>9, <1>10, <1>11, <1>12 DEF Next, Handling

\* Registrations, flags and switch, shared by threads that complete, cancel and
\* resume requests in any order, implement the guard: a request waits at most once,
\* never after its end, and no payload passes while one waits (GSGuard, GSFinish).
THEOREM GuardRefinement == Spec => KeepsGuard
<1>1. Init => Guard!Init
  BY DEF Init, Guard!Init, Over
<1>2. Init => TypeOK /\ RegInv /\ Flagged
  <2>1. Init => Flagged
    BY DEF Init, Flagged
  <2>2. Init => TypeOK
    BY TransferAssumption DEF Init, TypeOK, Steps
  <2>. QED  BY <2>1, <2>2, FirstBalance
<1>3. GuardStep => [Guard!Next]_Guard!vars
  BY DEF GuardStep
<1>. QED
  BY <1>1, <1>2, <1>3, TypeKept, RegInvKept, FlaggedKept, StepGuards, PTL
     DEF Spec, KeepsGuard, Guard!Spec

-----------------------------------------------------------------------------
(* A request comes to its answer *)

\* How many steps of its handling a request is away from its answer.
StepsLeft(r) ==
    IF step[r] = "binding" THEN 10
    ELSE IF step[r] = "preparing" THEN 9
    ELSE IF step[r] = "prepared" THEN 8
    ELSE IF step[r] = "exporting" THEN 7
    ELSE IF step[r] = "authorized" THEN 6
    ELSE IF step[r] = "imported" THEN 5
    ELSE IF step[r] = "stored" THEN 4
    ELSE IF step[r] = "polling" THEN 3
    ELSE IF step[r] = "ending" THEN 2
    ELSE IF step[r] = "committed" THEN 1
    ELSE 0

\* A request whose handling was given up has been cancelled or has ended natively,
\* and a request that failed has ended.
GivenUp == \A r \in Requests : /\ step[r] = "dropped" => r \in Over
                               /\ step[r] = "failed" => r \in finished

LEMMA OverStays == ASSUME [Next]_vars PROVE cancelled \subseteq cancelled' /\ finished \subseteq finished'
BY DEF Next, Handling, Start, Bind, Prepare, Authorize, Export, Import, StoreJob, CheckCancel, Poll, End,
       Reconcile, NativeCompletes, GuardLooks, GuardDecides, CancelBegins, CancelMarks, CancelEnds,
       HostMoves, SetRouting, AccountConnected, Fail, Finish, flags, vars

\* Only the handling of a request takes it to "dropped" or to "failed".
LEMMA OthersGiveNothingUp ==
    ASSUME TypeOK, [Next]_vars, NEW q \in Requests, step'[q] \in {"dropped", "failed"}, step'[q] # step[q]
    PROVE  Bind(q) \/ End(q) \/ Reconcile(q)
<1>1. ASSUME NEW r \in Requests, Start(r) PROVE FALSE
  BY <1>1 DEF Start, Moved, TypeOK
<1>2. ASSUME NEW r \in Requests, Handling(r) PROVE Bind(q) \/ End(q) \/ Reconcile(q)
  BY <1>2 DEF Handling, Bind, Prepare, Authorize, Export, Import, StoreJob, CheckCancel, Poll, End,
              Reconcile, Fail, Moved, TypeOK
<1>3. ASSUME NEW r \in Requests, NativeCompletes(r) \/ GuardLooks(r) \/ GuardDecides(r) PROVE FALSE
  BY <1>3 DEF NativeCompletes, GuardLooks, GuardDecides, Moved, TypeOK
<1>4. ASSUME NEW r \in Requests, CancelBegins(r) \/ CancelMarks(r) \/ CancelEnds(r) PROVE FALSE
  BY <1>4 DEF CancelBegins, CancelMarks, CancelEnds
<1>5. CASE HostMoves \/ SetRouting \/ AccountConnected \/ UNCHANGED vars
  BY <1>5 DEF HostMoves, SetRouting, AccountConnected, vars
<1>. QED  BY <1>1, <1>2, <1>3, <1>4, <1>5 DEF Next

LEMMA GivenUpKept == TypeOK /\ GivenUp /\ [Next]_vars => GivenUp'
<1>. SUFFICES ASSUME TypeOK, GivenUp, [Next]_vars, NEW q \in Requests
     PROVE (step'[q] = "dropped" => q \in Over') /\ (step'[q] = "failed" => q \in finished')
  BY DEF GivenUp
<1>1. CASE step'[q] = step[q]
  BY <1>1, OverStays DEF GivenUp, Over
<1>2. CASE step'[q] \in {"dropped", "failed"} /\ step'[q] # step[q]
  <2>1. Bind(q) \/ End(q) \/ Reconcile(q)
    BY <1>2, OthersGiveNothingUp
  <2>2. step'[q] = "dropped" => q \in Over
    BY <2>1 DEF Bind, End, Reconcile, MayReconcile, Fail, Moved, TypeOK, Over
  <2>3. step'[q] = "failed" => q \in finished'
    BY <2>1 DEF Bind, End, Reconcile, Fail, Finish, Moved, TypeOK
  <2>. QED  BY <2>2, <2>3, OverStays DEF Over
<1>. QED  BY <1>1, <1>2

LEMMA HandlingNears ==
    ASSUME TypeOK, NEW r \in Requests, Handling(r) PROVE StepsLeft(r)' < StepsLeft(r)
<1>. USE DEF Moved, TypeOK, StepsLeft
<1>1. CASE Bind(r) \/ Prepare(r) \/ Authorize(r) \/ Export(r)
  BY <1>1 DEF Bind, Prepare, Authorize, Export, Fail
<1>2. CASE Import(r) \/ StoreJob(r) \/ CheckCancel(r) \/ Poll(r)
  BY <1>2 DEF Import, StoreJob, CheckCancel, Poll
<1>3. CASE End(r) \/ Reconcile(r)
  BY <1>3 DEF End, Reconcile, Fail
<1>. QED  BY <1>1, <1>2, <1>3 DEF Handling

LEMMA OnlyStartsAreFar ==
    ASSUME TypeOK, [Next]_vars, NEW q \in Requests, StepsLeft(q)' > StepsLeft(q) PROVE Start(q)
<1>0. StepsLeft(q) \in 0..10 /\ StepsLeft(q)' \in 0..10
  BY DEF StepsLeft
<1>1. step'[q] # step[q]
  BY <1>0 DEF StepsLeft
<1>2. ASSUME NEW r \in Requests, Start(r) PROVE r = q
  BY <1>1, <1>2 DEF Start, Moved, TypeOK
<1>3. ASSUME NEW r \in Requests, Handling(r) PROVE FALSE
  <2>1. r = q
    BY <1>1, <1>3 DEF Handling, Bind, Prepare, Authorize, Export, Import, StoreJob, CheckCancel, Poll, End,
                      Reconcile, Fail, Moved, TypeOK
  <2>. QED  BY <1>0, <1>3, <2>1, HandlingNears
<1>4. ASSUME NEW r \in Requests, NativeCompletes(r) \/ GuardLooks(r) \/ GuardDecides(r) PROVE FALSE
  <2>1. step'[q] \in {"refused", "guarded", "sent"}
    BY <1>1, <1>4 DEF NativeCompletes, GuardLooks, GuardDecides, Moved, TypeOK
  <2>. QED  BY <1>0, <2>1 DEF StepsLeft
<1>5. CASE \/ \E r \in Requests : CancelBegins(r) \/ CancelMarks(r) \/ CancelEnds(r)
           \/ HostMoves \/ SetRouting \/ AccountConnected \/ UNCHANGED vars
  BY <1>1, <1>5 DEF CancelBegins, CancelMarks, CancelEnds, HostMoves, SetRouting, AccountConnected, vars
<1>. QED  BY <1>2, <1>3, <1>4, <1>5 DEF Next

\* A request that was taken over is answered after at most ten steps of its handling,
\* whatever cancels, completions, switches and moves of the host come in between: each
\* step brings the answer nearer, only its start is far from it, and a request without
\* steps left has failed, resumes, or was cancelled or completed natively (GSStart and
\* its worker).  With the fairness of FairSpec this is why RequestAnswered holds.
THEOREM RequestNearsAnswer ==
    Spec => /\ []\A r \in Requests : Taken(r) /\ StepsLeft(r) = 0
                      => step[r] \in {"failed", "resumed"} \/ r \in cancelled \cup finished
            /\ [][\A r \in Requests : Handling(r) => StepsLeft(r)' < StepsLeft(r)]_vars
            /\ [][\A r \in Requests : StepsLeft(r)' > StepsLeft(r) => Start(r)]_vars
<1>1. TypeOK /\ GivenUp => \A r \in Requests : Taken(r) /\ StepsLeft(r) = 0
                      => step[r] \in {"failed", "resumed"} \/ r \in cancelled \cup finished
  BY DEF TypeOK, Steps, GivenUp, Taken, StepsLeft, Over
<1>2. Init => GivenUp
  BY DEF Init, GivenUp
<1>3. TypeOK /\ [Next]_vars => [\A r \in Requests : Handling(r) => StepsLeft(r)' < StepsLeft(r)]_vars
  BY HandlingNears
<1>4. TypeOK /\ [Next]_vars => [\A r \in Requests : StepsLeft(r)' > StepsLeft(r) => Start(r)]_vars
  BY OnlyStartsAreFar
<1>. QED  BY <1>1, <1>2, <1>3, <1>4, TransferTypes, GivenUpKept, PTL DEF Spec

=============================================================================
