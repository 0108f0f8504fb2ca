------------------------ MODULE CompletionMonitorProofs ------------------------
(***************************************************************************)
(* Proofs about CompletionMonitor for every set of accounts and any number *)
(* of completions and of changes between foreground and background.        *)
(***************************************************************************)
EXTENDS CompletionMonitor, TLAPS

\* A poll keeps the type of the request.
LEMMA PollTypes ==
  ASSUME TypeOK, NEW fg \in BOOLEAN, NEW e \in 0..MaxEpoch, Poll(fg, e)
  PROVE  (request' = Idle \/ request' \in Polls) /\ interrupted' \in BOOLEAN
<1> DEFINE new == [phase |-> "asked", account |-> Identifier, epoch |-> e, summary |-> 0]
<1>1. Identifier # NoAccount => new \in Polls
  BY MonitorAssumption DEF TypeOK, Identifier, Polls
<1>2. \/ request' = new /\ Identifier # NoAccount /\ interrupted' = FALSE
      \/ request' = request /\ interrupted' = (interrupted \/ fg # foreground)
  BY DEF Poll
<1> HIDE DEF new
<1> QED
  BY <1>1, <1>2 DEF TypeOK

LEMMA StepTypes == TypeOK /\ [Next]_vars => TypeOK'
<1> SUFFICES ASSUME TypeOK, [Next]_vars PROVE TypeOK'
  OBVIOUS
<1> USE MonitorAssumption DEF TypeOK, engineVars, hostVars, monitorVars, syncVars, ghostVars
<1>1. ASSUME NEW fg \in BOOLEAN, SetForeground(fg) PROVE TypeOK'
  <2>1. epoch' \in 0..MaxEpoch
    BY <1>1 DEF SetForeground
  <2>2. last' \in {last, Nothing}
    BY <1>1 DEF SetForeground, LastAfter
  <2>3. (request' = Idle \/ request' \in Polls) /\ interrupted' \in BOOLEAN
    BY <1>1, <2>1, PollTypes DEF SetForeground
  <2> QED
    BY <1>1, <2>1, <2>2, <2>3 DEF SetForeground
<1>2. CASE Timer
  <2>1. (request' = Idle \/ request' \in Polls) /\ interrupted' \in BOOLEAN
    BY <1>2, PollTypes DEF Timer
  <2> QED
    BY <1>2, <2>1 DEF Timer
<1>3. ASSUME NEW s \in {0, revision}, Answer(s) PROVE TypeOK'
  <2>1. request \in Polls
    BY <1>3 DEF Answer, Idle
  <2>2. s \in 0..MaxRevision /\ request' = [request EXCEPT !.phase = "answered", !.summary = s]
    BY <1>3 DEF Answer
  <2>3. \A q \in Polls : [q EXCEPT !.phase = "answered", !.summary = s] \in Polls
    BY <2>2 DEF Polls
  <2> QED
    BY <1>3, <2>1, <2>2, <2>3 DEF Answer
<1>4. CASE Deliver
  <2> DEFINE new == [account |-> request.account, revision |-> request.summary]
  <2>1. last' \in {last, new} /\ (last' # last => new.revision # 0)
    BY <1>4 DEF Deliver
  <2>2. request \in Polls
    BY <1>4 DEF Deliver, Idle
  <2>3. new.revision # 0 => new \in Acknowledgements
    BY <2>2 DEF Polls, Acknowledgements
  <2> HIDE DEF new
  <2>4. last' = Nothing \/ last' \in Acknowledgements
    BY <2>1, <2>3
  <2> QED
    BY <1>4, <2>4 DEF Deliver
<1>5. CASE RefreshBlock \/ CaptureBlock
  BY <1>5 DEF RefreshBlock, CaptureBlock, Flush
<1>6. CASE FetchBlock
  <2>1. seen' \in [Accounts -> 0..MaxRevision] /\ nudged' \in BOOLEAN
    BY <1>6 DEF FetchBlock
  <2>2. pending' \in BOOLEAN
    BY <1>6 DEF FetchBlock
  <2> QED
    BY <1>6, <2>1, <2>2 DEF FetchBlock
<1>7. ASSUME NEW a \in Accounts, HostFetches(a) \/ SynchronizerGone(a) PROVE TypeOK'
  <2>1. seen' \in [Accounts -> 0..MaxRevision]
    BY <1>7 DEF HostFetches, SynchronizerGone
  <2> QED
    BY <1>7, <2>1 DEF HostFetches, SynchronizerGone
<1>8. ASSUME NEW a \in Accounts \cup {NoAccount}, NEW valid \in BOOLEAN, View(a, valid)
      PROVE  TypeOK'
  <2>1. kept' \in BOOLEAN
    BY <1>8 DEF View
  <2> QED
    BY <1>8, <2>1 DEF View
<1>9. CASE Completes
  BY <1>9 DEF Completes
<1>10. CASE UNCHANGED vars
  BY <1>10 DEF vars
<1> QED
  BY <1>1, <1>2, <1>3, <1>4, <1>5, <1>6, <1>7, <1>8, <1>9, <1>10 DEF Next

\* Every variable of the monitor and of the synchronizer keeps its type.
THEOREM MonitorTypes == Spec => []TypeOK
<1>1. Init => TypeOK
  <2> SUFFICES ASSUME Init PROVE TypeOK
    OBVIOUS
  <2>1. 0 \in 0..MaxRevision /\ 0 \in 0..MaxEpoch
    BY MonitorAssumption
  <2>2. seen \in [Accounts -> 0..MaxRevision]
    BY <2>1 DEF Init
  <2> QED
    BY <2>1, <2>2 DEF Init, TypeOK
<1> QED
  BY <1>1, StepTypes, PTL DEF Spec

-----------------------------------------------------------------------------
(* An acknowledged completion is not forgotten *)

\* What was acknowledged or answered has happened; while the account is kept it
\* is the acknowledged one; and the delayed block has something to deliver.
SignalInv ==
  /\ SignalKept
  /\ last # Nothing => last.revision <= revision
  /\ kept /\ last # Nothing => last.account = account
  /\ request.summary <= revision
  /\ scheduled => pending

LEMMA StepSignal == TypeOK /\ SignalInv /\ [Next]_vars => SignalInv'
<1> SUFFICES ASSUME TypeOK, SignalInv, [Next]_vars PROVE SignalInv'
  OBVIOUS
<1> USE MonitorAssumption
    DEF SignalInv, SignalKept, OnItsWay, TypeOK, Idle, Nothing,
        engineVars, hostVars, monitorVars, syncVars, ghostVars
<1>0. /\ last.revision \in Nat /\ request.summary \in Nat
      /\ last # Nothing => last.account \in Accounts
  BY DEF Polls, Acknowledgements
<1>1. ASSUME NEW fg \in BOOLEAN, SetForeground(fg) PROVE SignalInv'
  <2>1. last' \in {last, Nothing} /\ request'.summary \in {request.summary, 0}
    BY <1>1 DEF SetForeground, LastAfter, Poll
  <2> QED
    BY <1>1, <2>1 DEF SetForeground
<1>2. CASE Timer
  BY <1>2 DEF Timer, Poll
<1>3. ASSUME NEW s \in {0, revision}, Answer(s) PROVE SignalInv'
  BY <1>3 DEF Answer
<1>4. CASE Deliver
  <2> DEFINE new == [account |-> request.account, revision |-> request.summary]
  <2>1. CASE /\ Identifier = new.account /\ last' = new /\ kept' = TRUE
             /\ asked' = TRUE /\ new.revision # 0
    <3>1. request \in Polls /\ request.account \in Accounts /\ request.summary \in Nat
      BY <1>4 DEF Deliver, Polls
    <3>2. new.account = account
      BY <2>1, <3>1 DEF Identifier
    <3> QED
      BY <1>4, <2>1, <3>1, <3>2 DEF Deliver
  <2>2. CASE UNCHANGED <<last, kept, asked>>
    BY <1>4, <2>2 DEF Deliver
  <2> QED
    BY <1>4, <2>1, <2>2 DEF Deliver
<1>5. CASE RefreshBlock
  BY <1>5 DEF RefreshBlock, Flush
<1>6. CASE CaptureBlock
  BY <1>6 DEF CaptureBlock, Flush
<1>7. CASE FetchBlock
  <2>1. CASE account \in captured
    <3>1. pending /\ account \in Accounts /\ seen' = [seen EXCEPT ![account] = revision]
      BY <1>7, <2>1 DEF FetchBlock
    <3> QED
      BY <1>7, <2>1, <3>1 DEF FetchBlock, Waits
  <2>2. CASE account \notin captured
    BY <1>7, <2>2 DEF FetchBlock, Waits
  <2> QED
    BY <2>1, <2>2
<1>8. ASSUME NEW a \in Accounts, HostFetches(a) PROVE SignalInv'
  <2>1. \A b \in Accounts : seen'[b] = seen[b] \/ seen'[b] = revision
    BY <1>8 DEF HostFetches
  <2> QED
    BY <1>0, <1>8, <2>1 DEF HostFetches
<1>9. ASSUME NEW a \in Accounts, SynchronizerGone(a) PROVE SignalInv'
  BY <1>9 DEF SynchronizerGone
<1>10. ASSUME NEW a \in Accounts \cup {NoAccount}, NEW valid \in BOOLEAN, View(a, valid)
       PROVE  SignalInv'
  BY <1>10 DEF View
<1>11. CASE Completes
  BY <1>0, <1>11 DEF Completes
<1>12. CASE UNCHANGED vars
  BY <1>12 DEF vars
<1> QED
  BY <1>1, <1>2, <1>3, <1>4, <1>5, <1>6, <1>7, <1>8, <1>9, <1>10, <1>11, <1>12 DEF Next

\* No acknowledged completion is lost while its account stays on screen, in
\* whatever order answers, blocks of the main queue and the host's own fetches come.
THEOREM SignalsArrive == Spec => []SignalKept
<1>1. Init => SignalInv
  BY MonitorAssumption DEF Init, SignalInv, SignalKept, Idle, Nothing
<1>2. SignalInv => SignalKept
  BY DEF SignalInv
<1> QED
  BY <1>1, <1>2, StepSignal, MonitorTypes, PTL DEF Spec

-----------------------------------------------------------------------------
(* Only answers of the running session are acknowledged *)

\* A request that saw a change of the foreground is of an older epoch.
EpochInv ==
  request # Idle => /\ request.epoch <= epoch
                    /\ interrupted => request.epoch < epoch

LEMMA StepEpoch == TypeOK /\ EpochInv /\ [Next]_vars => EpochInv'
<1> SUFFICES ASSUME TypeOK, EpochInv, [Next]_vars PROVE EpochInv'
  OBVIOUS
<1> USE MonitorAssumption
    DEF EpochInv, TypeOK, Idle, engineVars, hostVars, monitorVars, syncVars, ghostVars
<1>0. epoch \in Nat /\ request.epoch \in Nat
  BY DEF Polls
<1>1. ASSUME NEW fg \in BOOLEAN, SetForeground(fg) PROVE EpochInv'
  <2> DEFINE new == [phase |-> "asked", account |-> Identifier, epoch |-> epoch', summary |-> 0]
  <2>1. \/ request' = new /\ interrupted' = FALSE
        \/ request' = request /\ interrupted' = (interrupted \/ fg # foreground)
    BY <1>1 DEF SetForeground, Poll
  <2>2. epoch' = IF fg # foreground THEN epoch + 1 ELSE epoch
    BY <1>1 DEF SetForeground
  <2>3. new.epoch = epoch'
    OBVIOUS
  <2> HIDE DEF new
  <2> QED
    BY <1>0, <2>1, <2>2, <2>3
<1>2. CASE Timer
  BY <1>2 DEF Timer, Poll
<1>3. ASSUME NEW s \in {0, revision}, Answer(s) PROVE EpochInv'
  BY <1>3 DEF Answer
<1>4. CASE Deliver
  BY <1>4 DEF Deliver
<1>5. CASE RefreshBlock \/ CaptureBlock \/ FetchBlock
  BY <1>5 DEF RefreshBlock, CaptureBlock, FetchBlock
<1>6. ASSUME NEW a \in Accounts, HostFetches(a) \/ SynchronizerGone(a) PROVE EpochInv'
  BY <1>6 DEF HostFetches, SynchronizerGone
<1>7. ASSUME NEW a \in Accounts \cup {NoAccount}, NEW valid \in BOOLEAN, View(a, valid)
      PROVE  EpochInv'
  BY <1>7 DEF View
<1>8. CASE Completes
  BY <1>8 DEF Completes
<1>9. CASE UNCHANGED vars
  BY <1>9 DEF vars
<1> QED
  BY <1>1, <1>2, <1>3, <1>4, <1>5, <1>6, <1>7, <1>8, <1>9 DEF Next

\* An answer that outlived a change of the foreground is never acknowledged.
THEOREM LateAnswersIgnored == Spec => AcknowledgedInSession
<1>1. Init => EpochInv
  BY DEF Init, EpochInv
<1>2. TypeOK /\ EpochInv /\ [Next]_vars => [last' # last /\ last' # Nothing => ~interrupted]_vars
  <2> SUFFICES ASSUME TypeOK, EpochInv, [Next]_vars, last' # last, last' # Nothing
               PROVE  ~interrupted
    OBVIOUS
  <2>1. Deliver
    BY DEF Next, vars, engineVars, hostVars, monitorVars, syncVars, ghostVars, SetForeground,
           LastAfter, Timer, Answer, RefreshBlock, CaptureBlock, FetchBlock, HostFetches,
           SynchronizerGone, View, Completes
  <2>2. SameSession /\ request # Idle
    BY <2>1 DEF Deliver, Idle
  <2> QED
    BY <2>2, MonitorAssumption DEF SameSession, EpochInv, TypeOK
<1> QED
  BY <1>1, <1>2, StepEpoch, MonitorTypes, PTL DEF Spec, AcknowledgedInSession

=============================================================================
