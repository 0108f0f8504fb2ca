----------------------------- MODULE UploadQueue -----------------------------
(***************************************************************************)
(* The upload engine of internal/service: the persisted job queue, the     *)
(* request handlers that change it, the scheduler, the upload goroutines   *)
(* and the recovery of the store when the process comes back.              *)
(*                                                                         *)
(* Every handler, every Tick, every progress callback and every end of an  *)
(* upload runs under Engine.mu, so each is one action.  A crash inside a   *)
(* handler is a save that fails followed by Crash: the file holds either   *)
(* the old or the new state and no reply is sent.                          *)
(***************************************************************************)
EXTENDS Naturals, FiniteSets

CONSTANTS
    MaxIds,         \* bound: jobs created in one behaviour
    MaxJobs,        \* types.go MaxJobs: the limit of the queue
    Items,          \* what a request may import: [account, quality, content]
    Accounts,       \* accounts that credentials may exist for
    NativeAccounts, \* those whose bearer comes from the host through the relay
    OptionSet,      \* options a client may configure
    Defaults,       \* the options of a new store
    ConditionSet,   \* network and power conditions the host may report
    LegacyItems,    \* items an older build may have completed, OriginalPolicy 0
    MaxCrashes      \* bound: crashes in one behaviour

Options == [concurrent : 1..8, retries : 0..20,
            wifiOnly : BOOLEAN, chargingOnly : BOOLEAN, paused : BOOLEAN]

Conditions == [online : BOOLEAN, wifi : BOOLEAN, charging : BOOLEAN]

\* A definition marked "Slip" is a variant of the next unmarked one, wrong the way
\* a programmer could have written that code.  No specification uses a slip: the
\* properties are tried against each to see that they tell it from the code.

ASSUME BoundsAssumption ==
    /\ MaxIds \in Nat \ {0}
    /\ MaxJobs \in Nat \ {0}
    /\ MaxCrashes \in Nat

ASSUME ItemsAssumption ==
    /\ Items # {}
    /\ \A x \in Items : /\ x.account \in Accounts
                        /\ x.quality \in {"original", "saver", "quota"}
    /\ NativeAccounts \subseteq Accounts
    /\ LegacyItems \subseteq Items

ASSUME OptionsAssumption ==
    /\ OptionSet \subseteq Options
    /\ Defaults \in OptionSet
    /\ ConditionSet \subseteq Conditions

\* Identifiers are random in the code and the queue keeps creation order: here
\* they are numbered in creation order, so the order of the queue is <.
Ids == 1..MaxIds

InProgress == {"preparing", "uploading", "committing"}
Terminal   == {"completed", "cancelled"}
JobStates  == InProgress \cup Terminal \cup {"none", "importing", "pending", "failed"}

\* "none" stands for a job the list does not hold.  A fingerprint is present
\* when sealed; two fingerprints are equal exactly when the items are.
\* backoff says that Next lies in the future.
Job == [state : JobStates, attempts : Nat, backoff : BOOLEAN, cancelRequested : BOOLEAN,
        sealed : BOOLEAN, originalPolicy : {0, 1}, item : Items]

Stores == [jobs : [Ids -> Job], options : OptionSet, rev : Nat]

VARIABLES
    mem,       \* Engine.state: jobs, options, completion revision
    disk,      \* state.json
    fault,     \* Engine.fault: a save failed, requests are refused
    stopped,   \* Engine.stopped
    up,        \* the process runs and Open has returned
    cond,      \* Engine.online, wifi, charging
    run,       \* upload goroutine of each job: "off" or how far it has come
    cut,       \* uploads whose context is cancelled
    hashes,    \* keys of Engine.importHashes
    media,     \* staged files of each job: "none", "partial", "full", "synced"
    accounts,  \* accounts with stored credentials
    waiting,   \* native accounts without a usable bearer
    issued,    \* number of identifiers given out
    sent,      \* history: commit requests since the job was begun or retried
    failures,  \* history: attempts the runner ended with a plain error
    crashes    \* history: number of crashes

engineVars  == <<fault, stopped, up, cond>>
runVars     == <<run, cut>>
importVars  == <<hashes, media, issued>>
accountVars == <<accounts, waiting>>
ghostVars   == <<sent, failures>>
vars == <<mem, disk, engineVars, runVars, importVars, accountVars, ghostVars, crashes>>

-----------------------------------------------------------------------------
(* Helpers *)

With(m, i, j) == [m EXCEPT !.jobs[i] = j]
Listed(m)     == {i \in Ids : m.jobs[i].state # "none"}
Live(m)       == {i \in Listed(m) : m.jobs[i].state \notin Terminal}
Active        == {i \in Ids : run[i] # "off"}

\* What the options and the reported conditions allow (the guard of Tick).
Permitted(o, c) ==
    /\ ~o.paused
    /\ c.online
    /\ o.wifiOnly => c.wifi
    /\ o.chargingOnly => c.charging

\* Slip: configure forgets the charger.
ChargerIgnored(o, c) == o.paused \/ (o.wifiOnly /\ ~c.wifi)

\* When configure and conditions cancel the running uploads: configure does not
\* look at online, conditions does not look at paused.
PausedBy(o, c)   == o.paused  \/ (o.wifiOnly /\ ~c.wifi) \/ (o.chargingOnly /\ ~c.charging)
SuspendedBy(o, c) == ~c.online \/ (o.wifiOnly /\ ~c.wifi) \/ (o.chargingOnly /\ ~c.charging)

\* nativeAuthorization(account) = "waiting"
AuthWaiting(j) == j.item.account \in waiting

\* save: the new state reaches the file and its directory.
Saved(m) == mem' = m /\ disk' = m /\ UNCHANGED fault

\* Slip: a failed save is not remembered.
FailureUnnoticed(m) == mem' = m /\ disk' \in {disk, m} /\ UNCHANGED fault

\* save fails before or after the rename; memory keeps the change either way.
SaveFailed(m) == mem' = m /\ disk' \in {disk, m} /\ fault' = TRUE

Save(m) == Saved(m) \/ SaveFailed(m)

\* What os.RemoveAll, whose error is ignored, may leave of these files.
Removed(files, S) == {files, [i \in Ids |-> IF i \in S THEN "none" ELSE files[i]]}

\* Slip: the files go although the save failed.
RemoveBeforeSave(m, files, S) == Save(m) /\ media' \in Removed(files, S)

\* Save, then drop the files of S only when the state that gives them up is saved.
SaveThenRemove(m, files, S) ==
    \/ Saved(m) /\ media' \in Removed(files, S)
    \/ SaveFailed(m) /\ media' = files

\* What Open makes of the state of one persisted job.
\* Slip: an uncertain commit is queued again.
CommittingRequeued(state) ==
    CASE state \in InProgress  -> "pending"
      [] state = "importing"   -> "cancelled"
      [] OTHER -> state

\* Slip: one phase is not recovered.
PreparingForgotten(state) ==
    CASE state = "uploading"   -> "pending"
      [] state = "committing"  -> "failed"
      [] state = "importing"   -> "cancelled"
      [] OTHER -> state

\* Slip: interrupted imports stay open.
ImportsResumed(state) ==
    CASE state \in {"uploading", "preparing"} -> "pending"
      [] state = "committing"  -> "failed"
      [] OTHER -> state

RecoveredState(state) ==
    CASE state \in {"uploading", "preparing"} -> "pending"
      [] state = "committing"  -> "failed"
      [] state = "importing"   -> "cancelled"
      [] OTHER -> state

RecoveredJob(j) ==
    [j EXCEPT !.state = IF j.cancelRequested /\ RecoveredState(j.state) = "pending"
                        THEN "cancelled" ELSE RecoveredState(j.state)]

\* Slip: the revision restarts with the process.
RevisionReset(m) == [m EXCEPT !.jobs = [i \in Ids |-> RecoveredJob(m.jobs[i])], !.rev = 0]

Recovered(m) == [m EXCEPT !.jobs = [i \in Ids |-> RecoveredJob(m.jobs[i])]]

\* validateState: what Open demands of the file.
ValidState(m) == Cardinality(Listed(m)) <= MaxJobs /\ \A i \in Ids : m.jobs[i].attempts >= 0

-----------------------------------------------------------------------------
(* Initial states: no process, and a store that is new or that an older    *)
(* build left with one completed job.                                      *)

Blank(x) == [state |-> "none", attempts |-> 0, backoff |-> FALSE, cancelRequested |-> FALSE,
             sealed |-> FALSE, originalPolicy |-> 0, item |-> x]

AnItem == CHOOSE x \in Items : TRUE

NewStore == [jobs |-> [i \in Ids |-> Blank(AnItem)], options |-> Defaults, rev |-> 0]

LegacyStores ==
    {With(NewStore, 1, [Blank(x) EXCEPT !.state = "completed", !.attempts = 1,
                                        !.sealed = TRUE]) : x \in LegacyItems}

Offline == [online |-> FALSE, wifi |-> FALSE, charging |-> FALSE]

Init ==
    /\ disk \in {NewStore} \cup LegacyStores
    /\ mem = disk
    /\ fault = FALSE /\ stopped = FALSE /\ up = FALSE
    /\ cond = Offline
    /\ run = [i \in Ids |-> "off"]
    /\ cut = {}
    /\ hashes = {}
    /\ media = [i \in Ids |-> "none"]
    /\ accounts = Accounts
    /\ waiting = {}
    /\ issued = Cardinality(Listed(disk))
    /\ sent = [i \in Ids |-> 0]
    /\ failures = [i \in Ids |-> 0]
    /\ crashes = 0

-----------------------------------------------------------------------------
(* Requests.  HandleJSON refuses every request once a save has failed.     *)

Serving == up /\ ~fault

\* Slip: the limit is off by one.
RoomForOneMore == Cardinality(Listed(mem)) <= MaxJobs

HasRoom == Cardinality(Listed(mem)) < MaxJobs

Begin(x) ==
    LET i == issued + 1
    IN  /\ Serving
        /\ x.account \in accounts
        /\ HasRoom
        /\ i \in Ids
        /\ Save(With(mem, i, [Blank(x) EXCEPT !.state = "importing"]))
        /\ media' = [media EXCEPT ![i] = "partial"]
        /\ hashes' = hashes \cup {i}
        /\ issued' = i
        /\ UNCHANGED <<stopped, up, cond, runVars, accountVars, ghostVars, crashes>>

\* The chunk that completes the staged files; the earlier ones leave them partial.
AppendLast(i) ==
    /\ Serving
    /\ mem.jobs[i].state = "importing"
    /\ media[i] = "partial"
    /\ media' = [media EXCEPT ![i] = "full"]
    /\ UNCHANGED <<mem, disk, engineVars, runVars, hashes, issued, accountVars, ghostVars, crashes>>

\* Slip: failed jobs, which a retry revives, do not count.
FailuresNotDuplicates(i) ==
    {k \in Listed(mem) \ {i} : /\ mem.jobs[k].sealed /\ mem.jobs[k].item = mem.jobs[i].item
                               /\ mem.jobs[k].state \notin {"cancelled", "failed"}}

\* The job that a sealed import repeats.  An original completed by an older
\* build may be a remote saver copy and is not reused.
Duplicates(i) ==
    LET j == mem.jobs[i]
        Unverified(old) == /\ j.item.quality = "original"
                           /\ old.state = "completed" /\ old.originalPolicy = 0
    IN  {k \in Listed(mem) \ {i} :
            /\ mem.jobs[k].sealed /\ mem.jobs[k].item = j.item
            /\ mem.jobs[k].state # "cancelled"
            /\ ~Unverified(mem.jobs[k])}

Seal(i) ==
    LET j      == mem.jobs[i]
        synced == [media EXCEPT ![i] = "synced"]
    IN  /\ Serving
        /\ j.state = "importing"
        /\ media[i] = "full"
        /\ hashes' = hashes \ {i}
        /\ \/ /\ Duplicates(i) = {}
              /\ Save(With(mem, i, [j EXCEPT !.sealed = TRUE, !.state = "pending"]))
              /\ media' = synced
           \/ /\ Duplicates(i) # {}
              /\ SaveThenRemove(With(mem, i, [j EXCEPT !.state = "cancelled"]), synced, {i})
        /\ UNCHANGED <<stopped, up, cond, runVars, issued, accountVars, ghostVars, crashes>>

Cancel(i) ==
    LET j == [mem.jobs[i] EXCEPT !.cancelRequested = TRUE]
    IN  /\ Serving
        /\ i \in Live(mem)
        /\ \/ /\ i \in Active
              /\ cut' = cut \cup {i}
              /\ Save(With(mem, i, j))
              /\ UNCHANGED <<hashes, media>>
           \/ /\ i \notin Active
              /\ SaveThenRemove(With(mem, i, [j EXCEPT !.state = "cancelled"]), media, {i})
              /\ hashes' = hashes \ {i}
              /\ UNCHANGED cut
        /\ UNCHANGED <<stopped, up, cond, run, issued, accountVars, ghostVars, crashes>>

\* Slip: cancelled jobs may be retried.
CancelledRetryable(j) == j.state \in {"failed", "cancelled"}

Retryable(j) == j.state = "failed"

\* Slip: the old cancel request survives the retry.
CancelNotReset(j) == [j EXCEPT !.state = "pending", !.attempts = 0, !.backoff = FALSE]

ResetRetry(j) == [j EXCEPT !.state = "pending", !.attempts = 0, !.backoff = FALSE,
                           !.cancelRequested = FALSE]

\* retry of one failed job, and retry_failed: the user answers for a second copy.
RetryAll(S) ==
    /\ Serving
    /\ S # {}
    /\ \A i \in S : Retryable(mem.jobs[i])
    /\ Save([mem EXCEPT !.jobs = [i \in Ids |-> IF i \in S THEN ResetRetry(mem.jobs[i])
                                                ELSE mem.jobs[i]]])
    /\ sent' = [i \in Ids |-> IF i \in S THEN 0 ELSE sent[i]]
    /\ failures' = [i \in Ids |-> IF i \in S THEN 0 ELSE failures[i]]
    /\ UNCHANGED <<stopped, up, cond, runVars, importVars, accountVars, crashes>>

Retry(i)    == RetryAll({i})
RetryFailed == RetryAll({i \in Ids : Retryable(mem.jobs[i])})

ClearCompleted ==
    LET done == {i \in Ids : mem.jobs[i].state \in Terminal}
    IN  /\ Serving
        /\ done # {}
        /\ Save([mem EXCEPT !.jobs = [i \in Ids |-> IF i \in done THEN Blank(AnItem)
                                                    ELSE mem.jobs[i]]])
        /\ UNCHANGED <<stopped, up, cond, runVars, importVars, accountVars, ghostVars, crashes>>

\* conditions: the new ones may suspend the running uploads.
ReportConditions(c) ==
    /\ Serving
    /\ cond' = c
    /\ cut' = IF SuspendedBy(mem.options, c) THEN Active ELSE cut
    /\ UNCHANGED <<mem, disk, fault, stopped, up, run, importVars, accountVars, ghostVars, crashes>>

\* configure: the options change, durably, and may pause the running uploads.
Configure(o) ==
    /\ Serving
    /\ cut' = IF PausedBy(o, cond) THEN Active ELSE cut
    /\ IF o = mem.options THEN UNCHANGED <<mem, disk, fault>>
       ELSE Save([mem EXCEPT !.options = o])
    /\ UNCHANGED <<stopped, up, cond, run, importVars, accountVars, ghostVars, crashes>>

AddAccount(a) ==
    /\ Serving
    /\ a \notin accounts
    /\ accounts' = accounts \cup {a}
    /\ UNCHANGED <<mem, disk, engineVars, runVars, importVars, waiting, ghostVars, crashes>>

\* account_remove refuses while a live job uses the account.
RemoveAccount(a) ==
    /\ Serving
    /\ a \in accounts
    /\ \A i \in Live(mem) : mem.jobs[i].item.account # a
    /\ accounts' = accounts \ {a}
    /\ UNCHANGED <<mem, disk, engineVars, runVars, importVars, waiting, ghostVars, crashes>>

-----------------------------------------------------------------------------
(* The scheduler *)

Eligible == {i \in Ids : /\ mem.jobs[i].state = "pending"
                         /\ ~mem.jobs[i].backoff
                         /\ ~AuthWaiting(mem.jobs[i])}

\* Slip: the running uploads are not counted.
RunningNotCounted ==
    {i \in Eligible : Cardinality({k \in Eligible : k < i}) < mem.options.concurrent}

\* Slip: the pass ends at the first job that must wait.
StopsAtWaiting ==
    {i \in Eligible :
        /\ Cardinality(Active) + Cardinality({k \in Eligible : k < i}) < mem.options.concurrent
        /\ \A k \in Ids : k < i /\ mem.jobs[k].state = "pending" => k \in Eligible}

\* The jobs one Tick takes: the first eligible ones while slots are free.
Chosen == {i \in Eligible :
             Cardinality(Active) + Cardinality({k \in Eligible : k < i}) < mem.options.concurrent}

StartedJob(j) ==
    [j EXCEPT !.state = "preparing", !.attempts = @ + 1,
              !.originalPolicy = IF j.item.quality = "original" THEN 1 ELSE @]

Started(S) == [mem EXCEPT !.jobs = [i \in Ids |-> IF i \in S THEN StartedJob(mem.jobs[i])
                                                  ELSE mem.jobs[i]]]

Launch(S) == run' = [i \in Ids |-> IF i \in S THEN "preparing" ELSE run[i]]

MayTick == up /\ ~stopped /\ ~fault /\ Permitted(mem.options, cond)

\* One pass of the loop.  Each job is saved before its goroutine starts; the
\* save of job f may fail, which ends the pass with f marked but not started.
Tick ==
    /\ MayTick
    /\ Chosen # {}
    /\ \/ Saved(Started(Chosen)) /\ Launch(Chosen)
       \/ \E f \in Chosen :
            LET before == {i \in Chosen : i < f}
            IN  /\ mem' = Started(before \cup {f})
                /\ disk' \in {Started(before), Started(before \cup {f})}
                /\ fault' = TRUE
                /\ Launch(before)
    /\ UNCHANGED <<stopped, up, cond, cut, importVars, accountVars, ghostVars, crashes>>

\* Next passes: both copies of the job hold the same or an older date.
BackoffEnds(i) ==
    /\ up
    /\ mem.jobs[i].backoff
    /\ mem' = With(mem, i, [mem.jobs[i] EXCEPT !.backoff = FALSE])
    /\ disk' = With(disk, i, [disk.jobs[i] EXCEPT !.backoff = FALSE])
    /\ UNCHANGED <<engineVars, runVars, importVars, accountVars, ghostVars, crashes>>

-----------------------------------------------------------------------------
(* The upload goroutine.  The library that uploads is not part of the      *)
(* repository: it reports preparing and uploading in any order, then       *)
(* committing, after which it only reports committing; it sends the commit *)
(* request after that report and, through contextTransport, only while its *)
(* context is not cancelled; and it ends with a key or an error.           *)

\* The progress callback of execute: a change of phase is saved before the
\* callback returns, and a failed save cancels the upload.
Progress(i, phase) ==
    /\ run[i] \in {"preparing", "uploading"}
    /\ phase # run[i]
    /\ run' = [run EXCEPT ![i] = phase]
    /\ LET m == With(mem, i, [mem.jobs[i] EXCEPT !.state = phase])
       IN  \/ Saved(m) /\ UNCHANGED cut
           \/ SaveFailed(m) /\ cut' = cut \cup {i}
    /\ UNCHANGED <<stopped, up, cond, importVars, accountVars, ghostVars, crashes>>

\* contextTransport.RoundTrip lets the commit request out.
SendCommit(i) ==
    /\ run[i] = "committing"
    /\ i \notin cut
    /\ run' = [run EXCEPT ![i] = "sent"]
    /\ sent' = [sent EXCEPT ![i] = @ + 1]
    /\ UNCHANGED <<mem, disk, engineVars, cut, importVars, accountVars, failures, crashes>>

\* Slip: an interrupted attempt counts.
StillSpent(j) == [j EXCEPT !.state = "pending"]

\* An interrupted attempt gives its share of the retry budget back.
Unspent(j) == [j EXCEPT !.state = "pending", !.attempts = IF @ > 0 THEN @ - 1 ELSE @]

\* The job after its upload ended with this outcome, in the order of the switch.
EndedJob(j, outcome) ==
    IF outcome = "key"              THEN [j EXCEPT !.state = "completed"]
    ELSE IF outcome = "component"   THEN [j EXCEPT !.state = "failed"]
    ELSE IF j.state = "committing"  THEN [j EXCEPT !.state = "failed"]
    ELSE IF j.cancelRequested       THEN [j EXCEPT !.state = "cancelled"]
    ELSE IF stopped \/ outcome = "canceled" THEN Unspent(j)
    ELSE IF AuthWaiting(j)          THEN [Unspent(j) EXCEPT !.backoff = FALSE]
    ELSE IF j.attempts <= mem.options.retries
                                    THEN [j EXCEPT !.state = "pending", !.backoff = TRUE]
    ELSE [j EXCEPT !.state = "failed"]

Finish(i, outcome) ==
    LET j == EndedJob(mem.jobs[i], outcome)
        m == [With(mem, i, j) EXCEPT !.rev = IF outcome = "key" THEN @ + 1 ELSE @]
    IN  /\ i \in Active
        /\ outcome = "canceled" => i \in cut
        /\ run' = [run EXCEPT ![i] = "off"]
        /\ cut' = cut \ {i}
        /\ SaveThenRemove(m, media, IF j.state \in Terminal THEN {i} ELSE {})
        /\ failures' = [failures EXCEPT ![i] = IF j.backoff THEN @ + 1 ELSE @]
        /\ UNCHANGED <<stopped, up, cond, hashes, issued, accountVars, sent, crashes>>

-----------------------------------------------------------------------------
(* The process and its surroundings *)

\* Close: no more Ticks, and every upload is cancelled.
Close ==
    /\ up /\ ~stopped
    /\ stopped' = TRUE
    /\ cut' = Active
    /\ UNCHANGED <<mem, disk, fault, up, cond, run, importVars, accountVars, ghostVars, crashes>>

\* The process dies, or the device does and files that were not synced are cut short.
Crash ==
    /\ up
    /\ crashes < MaxCrashes
    /\ crashes' = crashes + 1
    /\ up' = FALSE /\ fault' = FALSE /\ stopped' = FALSE
    /\ mem' = disk /\ UNCHANGED disk
    /\ cond' = Offline
    /\ run' = [i \in Ids |-> "off"]
    /\ cut' = {}
    /\ hashes' = {}
    /\ media' \in {media, [i \in Ids |-> IF media[i] = "full" THEN "partial" ELSE media[i]]}
    /\ UNCHANGED <<issued, accountVars, ghostVars>>

\* Open: recover every job, remove the files of the finished ones, save.  If
\* the save fails the process does not come up.
Open ==
    LET m == Recovered(disk)
    IN  /\ ~up
        /\ ValidState(disk)
        /\ media' \in Removed(media, {i \in Ids : m.jobs[i].state \in Terminal})
        /\ \/ up' = TRUE /\ mem' = m /\ disk' = m
           \/ up' = FALSE /\ disk' \in {disk, m} /\ mem' = disk'
        /\ UNCHANGED <<fault, stopped, cond, runVars, hashes, issued, accountVars, ghostVars, crashes>>

\* A relayed bearer arrives or expires.
AuthorizationChanges(w) ==
    /\ up
    /\ waiting' = w
    /\ UNCHANGED <<mem, disk, engineVars, runVars, importVars, accounts, ghostVars, crashes>>

-----------------------------------------------------------------------------
Outcomes == {"key", "component", "canceled", "error"}

Request ==
    \/ \E x \in Items : Begin(x)
    \/ \E i \in Ids : AppendLast(i) \/ Seal(i) \/ Cancel(i) \/ Retry(i)
    \/ RetryFailed
    \/ ClearCompleted
    \/ \E c \in ConditionSet : ReportConditions(c)
    \/ \E o \in OptionSet : Configure(o)
    \/ \E a \in Accounts : AddAccount(a) \/ RemoveAccount(a)

Upload(i) ==
    \/ \E phase \in InProgress : Progress(i, phase)
    \/ SendCommit(i)
    \/ \E outcome \in Outcomes : Finish(i, outcome)

Next ==
    \/ Request
    \/ Tick
    \/ \E i \in Ids : BackoffEnds(i) \/ Upload(i)
    \/ Close \/ Crash \/ Open
    \/ \E w \in SUBSET NativeAccounts : AuthorizationChanges(w)

Spec == Init /\ [][Next]_vars

-----------------------------------------------------------------------------
(* Safety *)

\* Every variable keeps its type; in particular every job keeps one of the
\* states that validateState knows and attempts never falls below zero.
TypeOK ==
    /\ mem \in Stores
    /\ disk \in Stores
    /\ fault \in BOOLEAN /\ stopped \in BOOLEAN /\ up \in BOOLEAN
    /\ cond \in Conditions
    /\ run \in [Ids -> {"off", "sent"} \cup InProgress]
    /\ cut \in SUBSET Ids
    /\ hashes \in SUBSET Ids
    /\ media \in [Ids -> {"none", "partial", "full", "synced"}]
    /\ accounts \in SUBSET Accounts
    /\ waiting \in SUBSET NativeAccounts
    /\ issued \in 0..MaxIds
    /\ sent \in [Ids -> Nat]
    /\ failures \in [Ids -> Nat]
    /\ crashes \in 0..MaxCrashes

\* While requests are answered, the file holds exactly the state they are
\* answered from: whatever was acknowledged survives a crash (save, HandleJSON).
DurableWhileServing == Serving => mem = disk

\* At most one commit request leaves for a job until its user retries it,
\* across failed saves, crashes and automatic retries (execute, Open).
CommitOnce == \A i \in Ids : sent[i] <= 1

\* While requests are answered, no upload runs on with a live context when
\* the options or the reported conditions forbid uploads, or after Close.
ForbiddenUploadsCut ==
    Serving /\ (stopped \/ ~Permitted(mem.options, cond)) => Active \subseteq cut

\* A job that is queued, running or retryable, now or after a restart from
\* the file, has all its staged files, and they are synced (seal, RemoveAll).
StagedFilesKept ==
    \A i \in Ids :
        \/ Recovered(disk).jobs[i].state \in {"pending", "failed"}
        \/ mem.jobs[i].state \in {"pending", "failed"} \/ i \in Active
        => media[i] = "synced"

\* A job is in progress exactly while a goroutine works on it: none is left
\* marked with nobody to finish it, none runs for a job already taken off.
NoStrandedJob ==
    /\ Serving => \A i \in Ids : mem.jobs[i].state \in InProgress => i \in Active
    /\ \A i \in Active : mem.jobs[i].state \in InProgress

\* A cancelled upload never returns to the queue by itself: not at the end of
\* its goroutine, not at a restart; and a running one has its context cut.
CancelIsFinal ==
    \A i \in Ids :
        /\ mem.jobs[i].cancelRequested => mem.jobs[i].state # "pending"
        /\ Recovered(disk).jobs[i].cancelRequested => Recovered(disk).jobs[i].state # "pending"
        /\ i \in Active /\ mem.jobs[i].cancelRequested => i \in cut

\* append and seal find the hashes of every job they accept (appendChunk and
\* seal index importHashes without a check).
ImportsHaveHashes ==
    up => \A i \in Ids : mem.jobs[i].state = "importing" => i \in hashes

\* The completion an older build left, which a new original does not reuse.
LegacyCompletion(i) ==
    /\ i = 1 /\ mem.jobs[i].item \in LegacyItems
    /\ mem.jobs[i].state = "completed" /\ mem.jobs[i].originalPolicy = 0

\* The queue never holds the same item twice, in whatever states the two copies
\* have come to since they were sealed (the fingerprint loop of seal).
OneJobPerItem ==
    \A i, k \in {h \in Listed(mem) : mem.jobs[h].sealed /\ mem.jobs[h].state # "cancelled"} :
        i < k /\ mem.jobs[i].item = mem.jobs[k].item => LegacyCompletion(i)

\* The file can always be opened again (the checks of validateState).
StoreReopens == ValidState(disk)

\* A job in the queue has spent its retry budget on failed attempts only, and on
\* at most one that was interrupted for each crash: pauses, cancels by close and
\* lost authorizations are free (the Attempts-- of execute).
BudgetKept ==
    \A i \in Ids : mem.jobs[i].state = "pending"
        => mem.jobs[i].attempts \in failures[i]..(failures[i] + crashes)

\* A pass of the scheduler never starts more uploads than there are free slots,
\* even after the limit was lowered below the number that run.
SlotsRespected ==
    [][~(Active' \subseteq Active) => Cardinality(Active') <= mem.options.concurrent]_vars

\* Once the file says completed or cancelled it never says anything else of
\* that job, until clear_completed forgets it: no crash, retry or late end of an
\* upload withdraws an outcome.
OutcomeIsFinal ==
    [][\A i \in Ids : disk.jobs[i].state \in Terminal
                        => disk'.jobs[i].state \in {disk.jobs[i].state, "none"}]_vars

\* The completion revision on file never goes back and moves with every job
\* that becomes completed there, so a host that compares revisions sees each
\* completion, also across restarts (execute, upload_summary).
RevisionTellsCompletions ==
    [][/\ disk'.rev >= disk.rev
       /\ (\E i \in Ids : disk.jobs[i].state # "completed" /\ disk'.jobs[i].state = "completed")
            => disk'.rev > disk.rev]_vars

-----------------------------------------------------------------------------
(* What the engine promises *)

Entry(state) ==
    CASE state = "none"      -> "absent"
      [] state = "importing" -> "staging"
      [] state \in {"pending", "preparing", "uploading"} -> "queued"
      [] state = "committing" -> "uncertain"
      [] state = "failed"    -> "failed"
      [] state = "completed" -> "done"
      [] state = "cancelled" -> "dropped"

Ledger == INSTANCE JobLedger
          WITH Jobs <- Ids, book <- [i \in Ids |-> Entry(disk.jobs[i].state)], sent <- sent

\* The engine, with its memory, failing saves, crashes and recovery, implements
\* the ledger of its file.
RefinesLedger == Ledger!Spec

-----------------------------------------------------------------------------
(* A statement of the repository that the engine does not keep *)

\* queue_test.go:86-88, "interrupted staging not removed": once the store is
\* opened, staged files belong to a job of the queue.
InterruptedStagingRemoved ==
    [][~up /\ up' => \A i \in Ids : media'[i] # "none" => i \in Listed(mem')]_vars

-----------------------------------------------------------------------------
(* Liveness.  Run calls Tick every second; wall-clock time passes; a       *)
(* request of the upload library ends by its deadline; launchd or the host *)
(* starts the process again.                                               *)

Fairness ==
    /\ WF_vars(Tick)
    /\ WF_vars(Open)
    /\ \A i \in Ids : WF_vars(BackoffEnds(i)) /\ WF_vars(\E o \in Outcomes : Finish(i, o))

FairSpec == Spec /\ Fairness

Settled(i) == mem.jobs[i].state \notin InProgress \cup {"pending"}

\* If from some time on the process serves, uploads are permitted, the job's
\* own account is authorized, authorizations stay as they are and no request
\* comes, the job settles: jobs ahead of it that wait for their authorization
\* or their backoff do not hold it up.  An authorization that keeps coming and
\* going can: its job is given the slot back each time without spending retries.
QueueDrains ==
    \A i \in Ids :
        /\ <>[](Serving /\ ~stopped /\ Permitted(mem.options, cond) /\ ~AuthWaiting(mem.jobs[i]))
        /\ <>[][~Request /\ UNCHANGED waiting]_vars
        => <>[]Settled(i)

=============================================================================
