--------------------------- MODULE CompletionMonitor ---------------------------
(***************************************************************************)
(* How a completed upload reaches the photo library on screen: the monitor *)
(* of UI/GSUploadMonitor.m polls the engine's completion revision while    *)
(* the host is in the foreground, and UI/GSPhotosIntegration.m asks the    *)
(* synchronizer of the account on screen to fetch.                         *)
(*                                                                         *)
(* Everything but the request itself runs on the main queue: each block of *)
(* it is an action, and any other block may run between two of them.  The  *)
(* host offers the synchronizer methods (GSSyncAvailable).                 *)
(***************************************************************************)
EXTENDS Naturals

CONSTANTS
    Accounts,      \* accounts of the host
    NoAccount,     \* nobody is signed in
    MaxRevision,   \* bound: completions
    MaxEpoch       \* bound: changes between foreground and background

ASSUME MonitorAssumption ==
    /\ NoAccount \notin Accounts
    /\ MaxRevision \in Nat
    /\ MaxEpoch \in Nat

VARIABLES
    revision,     \* State.CompletionRevision of the engine
    account,      \* viewingAccount of the host
    authorized,   \* its identity has valid authorization
    captured,     \* accounts in GSSynchronizers, whose objects are weak
    foreground,   \* GSForeground
    epoch,        \* GSEpoch
    request,      \* GSInFlight and what the poll in flight has captured
    last,         \* GSLastIdentifier, GSLastRevision; nil is NoAccount, 0
    asked,        \* the block of GSRefreshNativeLibrary is on the main queue
    pending,      \* GSPending
    scheduled,    \* GSScheduled: the delayed block will run
    nudged,       \* the block of GSCaptureSynchronizer is on the main queue
    seen,         \* history: completions in the server state an account last fetched
    kept,         \* history: the account is the one of the last acknowledgement
    interrupted   \* history: foreground or background since the poll began

engineVars  == <<revision>>
hostVars    == <<account, authorized>>
monitorVars == <<foreground, epoch, request, last>>
syncVars    == <<captured, asked, pending, scheduled, nudged>>
ghostVars   == <<seen, kept, interrupted>>
vars == <<engineVars, hostVars, monitorVars, syncVars, ghostVars>>

Idle    == [phase |-> "idle", account |-> NoAccount, epoch |-> 0, summary |-> 0]
Nothing == [account |-> NoAccount, revision |-> 0]

\* GSNativeAccountSummary()[@"identifier"]: nil without valid authorization.
Identifier == IF authorized THEN account ELSE NoAccount

Init ==
    /\ revision = 0
    /\ account = NoAccount /\ authorized = FALSE
    /\ captured = {}
    /\ foreground = FALSE /\ epoch = 0
    /\ request = Idle /\ last = Nothing
    /\ asked = FALSE /\ pending = FALSE /\ scheduled = FALSE /\ nudged = FALSE
    /\ seen = [a \in Accounts |-> 0]
    /\ kept = FALSE /\ interrupted = FALSE

-----------------------------------------------------------------------------
(* The monitor *)

\* GSPoll: at most one request at a time, in the foreground, for an account.
Poll(fg, e) ==
    IF fg /\ request.phase = "idle" /\ Identifier # NoAccount
    THEN /\ request' = [phase |-> "asked", account |-> Identifier, epoch |-> e, summary |-> 0]
         /\ interrupted' = FALSE
    ELSE UNCHANGED request /\ interrupted' = (interrupted \/ fg # foreground)

\* Slip: a new session keeps what the old one acknowledged.
LastKept(fg) == last

\* What is acknowledged does not outlive the session in the foreground.
LastAfter(fg) == IF fg # foreground THEN Nothing ELSE last

\* GSSetUploadHostForeground, which ends with a poll.
SetForeground(fg) ==
    LET e == IF fg # foreground THEN epoch + 1 ELSE epoch
    IN  /\ e <= MaxEpoch
        /\ epoch' = e
        /\ foreground' = fg
        /\ last' = LastAfter(fg)
        /\ Poll(fg, e)
        /\ UNCHANGED <<engineVars, hostVars, syncVars, seen, kept>>

\* The timer of three seconds.
Timer ==
    /\ request.phase = "idle"
    /\ Poll(foreground, epoch)
    /\ UNCHANGED <<engineVars, hostVars, foreground, epoch, last, syncVars, seen, kept>>

\* The request is answered on the monitor's queue.  A summary is of no use, 0, when
\* the service cannot be reached, is offline or has completed nothing yet.
Answer(summary) ==
    /\ request.phase = "asked"
    /\ summary \in {0, revision}
    /\ request' = [request EXCEPT !.phase = "answered", !.summary = summary]
    /\ UNCHANGED <<engineVars, hostVars, foreground, epoch, last, syncVars, ghostVars>>

\* Slip: it is enough to be in the foreground again.
InForeground == foreground

\* The answer belongs to the session in which it was asked for.
SameSession == foreground /\ request.epoch = epoch

\* The main queue takes the answer: what is new is acknowledged and signalled.
Deliver ==
    LET new == [account |-> request.account, revision |-> request.summary]
    IN  /\ request.phase = "answered"
        /\ request' = Idle
        /\ interrupted' = FALSE
        /\ \/ /\ SameSession /\ Identifier = new.account
              /\ new.revision # 0 /\ new # last
              /\ last' = new /\ kept' = TRUE
              /\ asked' = TRUE
           \/ /\ ~(SameSession /\ Identifier = new.account) \/ new.revision = 0 \/ new = last
              /\ UNCHANGED <<last, kept, asked>>
        /\ UNCHANGED <<engineVars, hostVars, foreground, epoch, captured, pending, scheduled,
                       nudged, seen>>

-----------------------------------------------------------------------------
(* The synchronizer *)

\* GSFlushRefresh up to its delayed block.
Flush(waiting) == scheduled' = (scheduled \/ waiting)

\* The block of GSRefreshNativeLibrary.
RefreshBlock ==
    /\ asked
    /\ asked' = FALSE
    /\ pending' = TRUE
    /\ Flush(TRUE)
    /\ UNCHANGED <<engineVars, hostVars, monitorVars, captured, nudged, ghostVars>>

\* The block of GSCaptureSynchronizer.
CaptureBlock ==
    /\ nudged
    /\ nudged' = FALSE
    /\ Flush(pending)
    /\ UNCHANGED <<engineVars, hostVars, monitorVars, captured, asked, pending, ghostVars>>

\* Slip: the signal is given up when there is no synchronizer for the account.
NeverWaits == FALSE

\* Without a synchronizer for the account on screen the signal waits for one.
Waits == account \notin captured

\* The delayed block: fetchData reads what the server has by now, and passes the
\* hook that captures synchronizers.
FetchBlock ==
    /\ scheduled
    /\ scheduled' = FALSE
    /\ pending' = (pending /\ Waits)
    /\ IF pending /\ account \in captured
       THEN seen' = [seen EXCEPT ![account] = revision] /\ nudged' = TRUE
       ELSE UNCHANGED <<seen, nudged>>
    /\ UNCHANGED <<engineVars, hostVars, monitorVars, captured, asked, kept, interrupted>>

\* The host fetches for an account by itself, or only looks (fetchDataSoft).
HostFetches(a) ==
    /\ captured' = captured \cup {a}
    /\ nudged' = TRUE
    /\ seen' \in {seen, [seen EXCEPT ![a] = revision]}
    /\ UNCHANGED <<engineVars, hostVars, monitorVars, asked, pending, scheduled, kept, interrupted>>

\* The map holds synchronizers weakly.
SynchronizerGone(a) ==
    /\ a \in captured
    /\ captured' = captured \ {a}
    /\ UNCHANGED <<engineVars, hostVars, monitorVars, asked, pending, scheduled, nudged, ghostVars>>

-----------------------------------------------------------------------------
(* The host and the engine *)

\* Another account is viewed, or the authorization of the viewed one changes.
View(a, valid) ==
    /\ account' = a
    /\ authorized' = valid
    /\ kept' = (kept /\ a = account)
    /\ UNCHANGED <<engineVars, monitorVars, syncVars, seen, interrupted>>

\* execute counts a completed upload.
Completes ==
    /\ revision < MaxRevision
    /\ revision' = revision + 1
    /\ UNCHANGED <<hostVars, monitorVars, syncVars, ghostVars>>

Next ==
    \/ \E fg \in BOOLEAN : SetForeground(fg)
    \/ Timer
    \/ \E summary \in {0, revision} : Answer(summary)
    \/ Deliver
    \/ RefreshBlock \/ CaptureBlock \/ FetchBlock
    \/ \E a \in Accounts : HostFetches(a) \/ SynchronizerGone(a)
    \/ \E a \in Accounts, valid \in BOOLEAN : View(a, valid)
    \/ View(NoAccount, FALSE)
    \/ Completes

Spec == Init /\ [][Next]_vars

\* The timer repeats, requests have a deadline and the main queue runs its blocks.
Fairness ==
    /\ WF_vars(Timer)
    /\ WF_vars(\E summary \in {0, revision} : Answer(summary))
    /\ WF_vars(Deliver)
    /\ WF_vars(RefreshBlock) /\ WF_vars(CaptureBlock) /\ WF_vars(FetchBlock)

FairSpec == Spec /\ Fairness

-----------------------------------------------------------------------------
(* Properties *)

Polls == [phase : {"asked", "answered"}, account : Accounts,
          epoch : 0..MaxEpoch, summary : 0..MaxRevision]

Acknowledgements == [account : Accounts, revision : 1..MaxRevision]

\* Every variable keeps its type; a request in flight has an account.
TypeOK ==
    /\ revision \in 0..MaxRevision
    /\ account \in Accounts \cup {NoAccount} /\ authorized \in BOOLEAN
    /\ captured \in SUBSET Accounts
    /\ foreground \in BOOLEAN /\ epoch \in 0..MaxEpoch
    /\ request = Idle \/ request \in Polls
    /\ last = Nothing \/ last \in Acknowledgements
    /\ asked \in BOOLEAN /\ pending \in BOOLEAN /\ scheduled \in BOOLEAN /\ nudged \in BOOLEAN
    /\ seen \in [Accounts -> 0..MaxRevision]
    /\ kept \in BOOLEAN /\ interrupted \in BOOLEAN

\* A signal will be delivered, or can only be by a synchronizer that is not there.
OnItsWay == asked \/ (pending /\ (scheduled \/ nudged \/ account \notin captured))

\* An acknowledged revision, which is never signalled again in this session, has
\* reached the library of its account or its signal is still on its way, as long
\* as the account stays on screen (GSPoll, GSFlushRefresh).
SignalKept ==
    kept /\ last # Nothing => seen[last.account] >= last.revision \/ OnItsWay

\* Only an answer that was asked for and taken in one uninterrupted stay in the
\* foreground is acknowledged (GSEpoch).
AcknowledgedInSession == [][last' # last /\ last' # Nothing => ~interrupted]_vars

Watching(a) ==
    /\ account = a /\ authorized /\ a \in captured

\* Uploads completed while the host was in the background, or from now on, are
\* fetched once the host stays in the foreground, if the account on screen stays
\* the same from now on and the service can be reached in the end.
CompletionsFetched ==
    \A a \in Accounts, r \in 1..MaxRevision :
        /\ <>[]foreground
        /\ <>[][~(Answer(0) /\ revision # 0)]_vars
        => []((~foreground \/ revision < r) /\ []Watching(a) /\ <>(revision >= r)
              => <>(seen[a] >= r))

=============================================================================
