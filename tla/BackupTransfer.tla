--------------------------- MODULE BackupTransfer ---------------------------
(***************************************************************************)
(* UI/GSBackupRequests.m: a backup request of Google Photos is taken over, *)
(* its original is exported and handed to the upload queue, and when the   *)
(* queue has completed it the request resumes natively, to find the item   *)
(* on the server.  Three kinds of thread meet here: whoever starts and     *)
(* cancels requests, the main queue, and one worker per request.           *)
(*                                                                         *)
(* A step of a request is the code between two points where another thread *)
(* can be seen: an atomic property, a synchronized block, a dispatch.      *)
(* Progress reports and counters are left out; so is a second start of a   *)
(* request that was taken over, which changes nothing.                     *)
(***************************************************************************)
EXTENDS Integers, FiniteSets

CONSTANTS
    Requests,   \* upload requests of the native scheduler
    Assets,
    AssetOf,    \* the asset of each request
    InitialPreferences,  \* what may be stored when Google Photos starts
    MaxCancels           \* bound: how often each request is cancelled

ASSUME TransferAssumption ==
    /\ IsFiniteSet(Requests)
    /\ AssetOf \in [Requests -> Assets]
    /\ InitialPreferences \subseteq {"unset", "on", "off"}
    /\ MaxCancels \in [Requests -> Nat]

VARIABLES
    preference,  \* the stored switch; its account is empty unless it is "on"
    chosen,      \* history: the user's last word on it, "unset" before any
    foreground,  \* GSUploadHostForeground
    step,        \* where the handling of each request stands
    completed,   \* requests whose worker saw the job completed with a key
    jobID,       \* transfers whose jobID is stored
    cancelled, cancelGo, reconciling, finished,  \* the flags of each transfer
    registered,  \* GSReconciling: registrations of each asset
    cancelling,  \* where a running cancel of each request stands
    cancels,     \* history: cancels of each request
    cancelledIn, \* history: where the host was at the cancels of each request
    goCancels    \* history: transfers whose job the queue was asked to cancel

flags  == <<cancelled, cancelGo, reconciling, finished, registered>>
cancel == <<cancelling, cancels, cancelledIn>>
host   == <<preference, chosen, foreground>>
vars   == <<host, step, completed, jobID, flags, cancel, goCancels>>

\* "passed" requests run natively and were never taken over; "guarded" ones are
\* in the guard before their payload, which is "sent" or "refused".
Steps == {"new", "passed", "guarded", "sent", "refused",
          "binding", "preparing", "prepared", "exporting", "authorized", "imported", "stored", "polling",
          "ending", "committed", "resumed", "failed", "dropped"}

\* Requests with an associated GSBackupTransfer.
Taken(r) == step[r] \notin {"new", "passed", "guarded", "sent", "refused"}

RoutingEnabled == preference # "off"

\* Slip (a variant of the next definition, used by no specification): the
\* registrations are not looked at.
NothingActive == FALSE

\* GSBlockNative looks at the registrations first, then at the switch.
Active == \E a \in Assets : registered[a] > 0

Registered(r) == r \in reconciling /\ r \notin finished /\ r \notin cancelled

Unregister(r) == [registered EXCEPT ![AssetOf[r]] = IF @ > 0 THEN @ - 1 ELSE 0]

Moved(r, to) == step' = [step EXCEPT ![r] = to]

Init ==
    /\ preference \in InitialPreferences
    /\ chosen = preference
    /\ foreground = TRUE
    /\ step = [r \in Requests |-> "new"]
    /\ completed = {} /\ jobID = {}
    /\ cancelled = {} /\ cancelGo = {} /\ reconciling = {} /\ finished = {}
    /\ registered = [a \in Assets |-> 0]
    /\ cancelling = [r \in Requests |-> "no"]
    /\ cancels = [r \in Requests |-> 0]
    /\ cancelledIn = [r \in Requests |-> {}] /\ goCancels = {}

-----------------------------------------------------------------------------
(* GSFinish, reached from every native completion and from every GSFail. *)

Finish(r) ==
    /\ finished' = finished \cup {r}
    /\ registered' = IF Registered(r) THEN Unregister(r) ELSE registered
    /\ UNCHANGED <<cancelled, cancelGo, reconciling>>

Fail(r) == Moved(r, "failed") /\ Finish(r)

-----------------------------------------------------------------------------
(* The start of a request, on the caller's thread. *)

Start(r) ==
    /\ step[r] = "new"
    /\ \/ ~RoutingEnabled /\ Moved(r, "passed")
       \/ RoutingEnabled /\ Moved(r, "refused")      \* its asset is not a PHAsset
       \/ RoutingEnabled /\ registered[AssetOf[r]] > 0 /\ Moved(r, "passed")
       \/ RoutingEnabled /\ registered[AssetOf[r]] = 0 /\ Moved(r, "binding")
    /\ UNCHANGED <<host, completed, jobID, flags, cancel, goCancels>>

\* The first block on the main queue: the destination and the identity.  There
\* GSNativeRoutingAccount answers the account on screen when none is stored, so
\* nothing is left to store for a request that has a destination.
Bind(r) ==
    /\ step[r] = "binding"
    /\ \/ r \in cancelled /\ Moved(r, "dropped") /\ UNCHANGED flags
       \/ r \notin cancelled /\ Fail(r)
       \/ r \notin cancelled /\ Moved(r, "preparing") /\ UNCHANGED flags
    /\ UNCHANGED <<host, completed, jobID, cancel, goCancels>>

\* GSStillAuthorized may fail for a reason of its own at any time.
StillAuthorized(r) == r \notin cancelled /\ RoutingEnabled

-----------------------------------------------------------------------------
(* The worker.  It goes to "ending" without a job when a request fails, a  *)
(* deadline passes, or the transfer is not authorized any more.            *)

\* The wait for the destination, the options and the conditions.
Prepare(r) ==
    /\ step[r] = "preparing"
    /\ \/ foreground /\ Moved(r, "prepared")
       \/ Moved(r, "ending")
    /\ UNCHANGED <<host, completed, jobID, flags, cancel, goCancels>>

\* The first authorization check.
Authorize(r) ==
    /\ step[r] = "prepared"
    /\ \/ StillAuthorized(r) /\ Moved(r, "exporting")
       \/ Moved(r, "ending")
    /\ UNCHANGED <<host, completed, jobID, flags, cancel, goCancels>>

\* The export of the originals, then the second authorization check.
Export(r) ==
    /\ step[r] = "exporting"
    /\ \/ StillAuthorized(r) /\ Moved(r, "authorized")
       \/ Moved(r, "ending")
    /\ UNCHANGED <<host, completed, jobID, flags, cancel, goCancels>>

Import(r) ==
    /\ step[r] = "authorized"
    /\ Moved(r, "imported") \/ Moved(r, "ending")
    /\ UNCHANGED <<host, completed, jobID, flags, cancel, goCancels>>

StoreJob(r) ==
    /\ step[r] = "imported"
    /\ Moved(r, "stored")
    /\ jobID' = jobID \cup {r}
    /\ UNCHANGED <<host, completed, flags, cancel, goCancels>>

\* Slip: the job is not looked after once it is imported.
NobodyAsks(r) == FALSE

\* Slip: a cancel in the background counts as well.
AnyCancelAsks(r) == r \in cancelled

\* cancelled and cancelGo are read one after the other; as cancelled stays, one
\* step at the second read tells the same.
CancelAsks(r) == r \in cancelled /\ r \in cancelGo

CheckCancel(r) ==
    /\ step[r] = "stored"
    /\ Moved(r, "polling")
    /\ goCancels' = IF CancelAsks(r) THEN goCancels \cup {r} ELSE goCancels
    /\ UNCHANGED <<host, completed, jobID, flags, cancel>>

\* The loop ends: the job is completed, or has failed, or was cancelled or cannot
\* be asked about, or the transfer is cancelled, or a day has passed.
Poll(r) ==
    /\ step[r] = "polling"
    /\ Moved(r, "ending")
    /\ completed' \in {completed, completed \cup {r}}
    /\ UNCHANGED <<host, jobID, flags, cancel, goCancels>>

-----------------------------------------------------------------------------
(* The last block on the main queue.  A cancel on another thread may come  *)
(* between its first look at cancelled and its synchronized part.          *)

End(r) ==
    /\ step[r] = "ending"
    /\ \/ r \in cancelled /\ Moved(r, "dropped") /\ UNCHANGED flags
       \/ r \notin cancelled /\ Fail(r)      \* no completed job, or another identity
       \/ r \notin cancelled /\ r \in completed /\ Moved(r, "committed") /\ UNCHANGED flags
    /\ UNCHANGED <<host, completed, jobID, cancel, goCancels>>

\* Slip: the flags are not looked at again.
NoSecondLook(r) == TRUE

\* Slip: one registration for an asset is thought to be enough.
OnlyFirst(r) == r \notin cancelled /\ r \notin finished /\ registered[AssetOf[r]] = 0

MayReconcile(r) == r \notin cancelled /\ r \notin finished

Reconcile(r) ==
    /\ step[r] = "committed"
    /\ \/ ~MayReconcile(r) /\ Moved(r, "dropped") /\ UNCHANGED flags
       \/ /\ MayReconcile(r)
          /\ Moved(r, "resumed")
          /\ reconciling' = reconciling \cup {r}
          /\ registered' = [registered EXCEPT ![AssetOf[r]] = @ + 1]
          /\ UNCHANGED <<cancelled, cancelGo, finished>>
    /\ UNCHANGED <<host, completed, jobID, cancel, goCancels>>

-----------------------------------------------------------------------------
(* What the native request does when it runs. *)

\* It completes, for better or worse; a cancelled one may do so late.
NativeCompletes(r) ==
    /\ Taken(r)
    /\ step[r] = "resumed" \/ r \in cancelled
    /\ Finish(r)
    /\ UNCHANGED <<host, step, completed, jobID, cancel, goCancels>>

\* Its lookup finds nothing and it goes on to send the payload: GSGuard.
GuardLooks(r) ==
    /\ \/ step[r] = "resumed" /\ Finish(r) /\ UNCHANGED step
       \/ step[r] = "passed" /\ Active /\ Moved(r, "refused") /\ UNCHANGED flags
       \/ step[r] = "passed" /\ ~Active /\ Moved(r, "guarded") /\ UNCHANGED flags
    /\ UNCHANGED <<host, completed, jobID, cancel, goCancels>>

GuardDecides(r) ==
    /\ step[r] = "guarded"
    /\ IF RoutingEnabled THEN Moved(r, "refused") ELSE Moved(r, "sent")
    /\ UNCHANGED <<host, completed, jobID, flags, cancel, goCancels>>

-----------------------------------------------------------------------------
(* The cancel of a request, on the caller's thread. *)

CancelBegins(r) ==
    /\ Taken(r)
    /\ cancelling[r] = "no"
    /\ cancels[r] < MaxCancels[r]
    /\ cancels' = [cancels EXCEPT ![r] = @ + 1]
    /\ cancelGo' = IF foreground THEN cancelGo \cup {r} ELSE cancelGo \ {r}
    /\ cancelledIn' = [cancelledIn EXCEPT ![r] = @ \cup {IF foreground THEN "front" ELSE "back"}]
    /\ cancelling' = [cancelling EXCEPT ![r] = "flagged"]
    /\ UNCHANGED <<host, step, completed, jobID, cancelled, reconciling, finished, registered, goCancels>>

CancelMarks(r) ==
    /\ cancelling[r] = "flagged"
    /\ cancelling' = [cancelling EXCEPT ![r] = "marked"]
    /\ registered' = IF Registered(r) THEN Unregister(r) ELSE registered
    /\ cancelled' = cancelled \cup {r}
    /\ UNCHANGED <<host, step, completed, jobID, cancelGo, reconciling, finished, cancels, cancelledIn, goCancels>>

CancelEnds(r) ==
    /\ cancelling[r] = "marked"
    /\ cancelling' = [cancelling EXCEPT ![r] = "no"]
    /\ goCancels' = IF r \in jobID /\ r \in cancelGo THEN goCancels \cup {r} ELSE goCancels
    /\ UNCHANGED <<host, step, completed, jobID, flags, cancels, cancelledIn>>

-----------------------------------------------------------------------------
HostMoves ==
    /\ foreground' = ~foreground
    /\ UNCHANGED <<preference, chosen, step, completed, jobID, flags, cancel, goCancels>>

\* The switch in the settings.
SetRouting ==
    /\ preference' = IF RoutingEnabled THEN "off" ELSE "on"
    /\ chosen' = preference'
    /\ UNCHANGED <<foreground, step, completed, jobID, flags, cancel, goCancels>>

\* The account is connected, at a start of Google Photos or on a return to it,
\* and no account is stored with the switch.
AccountConnected ==
    /\ preference # "on"
    /\ preference' = "on"
    /\ UNCHANGED <<chosen, foreground, step, completed, jobID, flags, cancel, goCancels>>

Handling(r) ==
    \/ Bind(r) \/ Prepare(r) \/ Authorize(r) \/ Export(r) \/ Import(r) \/ StoreJob(r) \/ CheckCancel(r)
    \/ Poll(r) \/ End(r) \/ Reconcile(r)

Next ==
    \/ \E r \in Requests :
        \/ Start(r) \/ Handling(r)
        \/ NativeCompletes(r) \/ GuardLooks(r) \/ GuardDecides(r)
        \/ CancelBegins(r) \/ CancelMarks(r) \/ CancelEnds(r)
    \/ HostMoves
    \/ SetRouting \/ AccountConnected

Spec == Init /\ [][Next]_vars

-----------------------------------------------------------------------------
(* Safety *)

\* Every variable keeps its type.
TypeOK ==
    /\ preference \in {"unset", "on", "off"}
    /\ chosen \in {"unset", "on", "off"}
    /\ foreground \in BOOLEAN
    /\ step \in [Requests -> Steps]
    /\ completed \in SUBSET Requests
    /\ jobID \in SUBSET Requests
    /\ cancelled \in SUBSET Requests
    /\ cancelGo \in SUBSET Requests
    /\ reconciling \in SUBSET Requests
    /\ finished \in SUBSET Requests
    /\ registered \in [Assets -> Nat]
    /\ cancelling \in [Requests -> {"no", "flagged", "marked"}]
    /\ cancels \in [Requests -> Nat] /\ \A r \in Requests : cancels[r] <= MaxCancels[r]
    /\ cancelledIn \in [Requests -> SUBSET {"front", "back"}]
    /\ goCancels \in SUBSET Requests

\* GSReconciling holds one registration for each request that reconciles and
\* has neither finished nor been cancelled, however completion, repeated cancels
\* and the last block of its handling come together: a registration too many
\* blocks native uploads for ever, one too few lets a second copy out.
RegistrationsBalanced ==
    \A a \in Assets : registered[a] = Cardinality({r \in Requests : AssetOf[r] = a /\ Registered(r)})

\* A request cancelled only in the foreground never leaves its job behind in
\* the queue: once the cancel has returned and the worker has looked at the
\* flags, one of the two has asked the queue to cancel it.
CancelReachesGo ==
    \A r \in jobID \cap cancelled :
        "back" \notin cancelledIn[r] /\ cancelling[r] = "no" /\ step[r] # "stored" => r \in goCancels

\* A job is never cancelled for a request whose cancels all came in the
\* background, whatever the host does before the worker looks at the flags
\* ("Background cancellation preserves the Go job").
BackgroundCancelKeepsJob == \A r \in goCancels : "front" \in cancelledIn[r]

\* The guard lets no native request on while another one waits for the server's
\* copy of the same asset, even with routing switched off in the meantime.
NoSecondCopy ==
    [][\A r \in Requests : step[r] = "passed" /\ step'[r] = "guarded"
          => ~\E q \in Requests : AssetOf[q] = AssetOf[r] /\ Registered(q)]_vars

-----------------------------------------------------------------------------
(* What the guard promises. *)

Over == cancelled \cup finished

Guard == INSTANCE ReconcileGuard
         WITH waiting <- reconciling \ Over, over <- Over,
              through <- {r \in Requests : step[r] = "guarded"},
              sent    <- {r \in Requests : step[r] = "sent"}

\* The registrations, the flags and the switch, with completions, cancels and the
\* handling of the requests in any order, keep the promise of the guard: a request
\* waits at most once, never after it has ended, and lets no payload pass meanwhile.
KeepsGuard == Guard!Spec

-----------------------------------------------------------------------------
(* What the documentation says of the switch. *)

\* docs/native-routing.md:11, "off by default": no request is taken over before
\* routing was switched on.
OffByDefault == [][\A r \in Requests : Taken(r)' /\ ~Taken(r) => preference # "unset"]_vars

\* README.md:42, "Enable it and confirm the destination": no request is taken
\* over after the user has switched routing off, until it is enabled again.
SwitchedOffStaysOff == [][\A r \in Requests : Taken(r)' /\ ~Taken(r) => chosen # "off"]_vars

-----------------------------------------------------------------------------
(* Liveness.  The main queue runs its blocks, a worker's waits end by      *)
(* their deadlines, and PhotoKit answers every export.                     *)

FairSpec == Spec /\ \A r \in Requests : WF_vars(Handling(r))

\* A request that was taken over is always answered: it fails, it resumes, or
\* it was cancelled or completed natively in the meantime.
RequestAnswered ==
    \A r \in Requests :
        step[r] = "binding" ~> step[r] \in {"failed", "resumed"} \/ r \in cancelled \cup finished
=============================================================================
