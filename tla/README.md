# A verification project for GoToHP

GoToHP exports originals from the iOS photo library, keeps them in a persisted
queue and uploads them to Google Photos, with pasted credentials or with the
sign-in that Google Photos lends it. It can also take over the backup requests
that Google Photos itself starts. This directory holds TLA+ models of
the parts where its correctness is decided by orders of events, the TLC runs
that check them and proofs that TLAPS checks. Paths below are relative to the
repository.

## 1. The system

| Part | Code | State it keeps | Operations | What makes it correct |
| --- | --- | --- | --- | --- |
| Upload queue engine | `internal/service/queue.go`, `types.go`, `protocol.go` | the job list, options and completion revision in memory and in `state.json`; staged files; a context per running upload; hashes of imports | begin, append, seal, cancel, retry, clear, configure, conditions; `Tick`; the upload goroutine; `Open`, `Close` | what was acknowledged survives; no second commit request without the user; no original removed while its job may run; forbidden uploads are cut; the queue drains |
| Accounts, bearer relay | `upstream.go`, `native_relay.go`, `GotohpCore/config_ios.go.txt`, `native_auth.go.txt`, `cmd/bridge` | credentials in memory and on file, the selected account, one bearer with an expiry | add, bind, select, remove; put, get, clear; initialise | a live job keeps its account; no bearer outlives its account; a binding has been accepted before it is stored |
| Host side of the sign-in | `UI/GSNativeRelay.m`, `UI/GSNativeAccount.m`, `UI/GSAccountConnection.m` | a serial relay queue, one refresh at a time, the state of the connection | refresh every 60 s, connect at start and on return to the foreground, an SSO fetch through the main queue with a timeout | a bearer is sent for its own account only; the account on screen gets connected and its bearer renewed; an old one is cleared |
| Backup requests | `UI/GSBackupRequests.m`, `UI/GSNativeRouting.m` | flags and job of each transfer, `GSReconciling`, the routing switch | start, cancel, native completion, the guards before native payloads | a cancel reaches the queue; registrations balance; no second copy is sent natively; every request is answered |
| Upload monitor, Photos integration | `UI/GSUploadMonitor.m`, `UI/GSPhotosIntegration.m`, `UI/GSBackupLifecycle.m` | foreground flag, epoch, last acknowledged revision | a poll every 3 s, sync signals | each completion leads to a refresh |
| Importers | `UI/GSExporter.m`, `UI/GSBatchImport.m` | one batch at a time, the list of scanned assets | export, begin/append/seal, stop | an item reported as queued is in the queue; a failed import leaves nothing that uploads; stopping stops |
| Transport | `Shared/GSDiscovery.c`, `Shared/IPCClient.m`, `Daemon/`, `Jailed/EmbeddedService.m`, `cmd/bridge` | discovery attempt shared by two holders; the daemon's port; the core queue | request and reply with timeouts | the clients cope with requests that are lost or handled after they gave up |
| Interface, build | `UI/GSPanel.m` and the other views, `Localization/`, `scripts/` | none that matters here | | |

The importers and the backup requests are clients of the engine: they call it
through Mach messages (jailbreak) or directly (embedded), one request at a time,
and learn of progress by polling. The engine calls the upload library and is
called back by it. The host reports lifecycle, network and power to the engine.
The monitor compares the engine's completion revision and asks Google Photos to
refresh.

The hard behaviours are a process that dies anywhere, saves that fail before or
after the rename, uploads that end while a request changes their job, a commit
request whose answer never comes, cancels from another thread at any moment of a
transfer, a host that moves between foreground and background, and settings
that change in the middle. `PROJECT.json` lists them as hazards, each at its line.

## 2. Modules

| Module | Role |
| --- | --- |
| `UploadQueue` | the engine |
| `JobLedger` | what the engine promises, seen from its file and from the network; its one theorem is at its end |
| `BatchImport` | the batch, the import of an item and the daemon's port, over the ledger |
| `AccountStore` | credentials, bearer slot and account requests of the engine: also the abstract specification of the next |
| `HostAuthorization` | the host's connection, relay queue, SSO fetches and lost requests; extends `AccountStore` and implements its specification |
| `BackupTransfer` | backup requests of Google Photos and the routing switch |
| `ReconcileGuard` | what the backup requests promise of native payloads, seen from outside: the abstract specification of `BackupTransfer` |
| `CompletionMonitor` | the upload monitor and the signal to Google Photos' synchronizer |
| `UploadQueueProofs` | theorems: types, durability, forbidden uploads, commit requests, the refinement of the ledger |
| `UploadQueueJobs` | theorems: what holds of each job and of the list |
| `AccountStoreProofs`, `HostAuthorizationProofs`, `BatchImportProofs`, `BackupTransferProofs`, `CompletionMonitorProofs` | theorems about each of them |
| `MCUploadQueue`, `MCAccountStore`, `MCHostAuthorization`, `MCBackupTransfer`, `MCCompletionMonitor` | values of the constants for TLC (`BatchImport` needs none) |

How they are composed: `UploadQueue` and `BatchImport` both implement
`JobLedger`, so the queue the importers are modelled against does only what the
engine's own file can do. `HostAuthorization` runs together with the engine's
account handlers and is shown to ask nothing of them that `AccountStore` does
not allow; `BackupTransfer` implements `ReconcileGuard`; `UploadQueue` sees of accounts only which exist and which wait.
`CompletionMonitor` builds on `RevisionTellsCompletions` of `UploadQueue`.

Definitions marked *Slip* are wrong variants of their neighbours, each the way a
programmer could have erred there. No specification uses one. Every property was
tried against at least one slip and tells it from the code.

### UploadQueue

`mem` is `Engine.state` and `disk` is `state.json`; a job is a record of the
fields that decide anything (state, attempts, whether `Next` lies in the future,
`CancelRequested`, whether it has a fingerprint, `OriginalPolicy`, and the item:
account, quality and content). `run` says how far the goroutine of a job has
come, `cut` whose context is cancelled, `media` what is staged. `sent`,
`failures` and `crashes` are history.

Each request handler is an action of the same name; so are `Tick`, each progress
callback (`Progress`), the moment the transport lets a commit request out
(`SendCommit`), the end of `execute` (`Finish`), `Close`, `Open` and `Crash`.
All of them hold `Engine.mu` in the code, hence one action each. A save succeeds
or fails, and a failed one may or may not have replaced the file; memory keeps
the change and `fault` refuses every later request, as in `save`. A crash inside
a handler is a failed save followed by `Crash`. Removals ignore their errors in
the code, so they may have no effect.

Assumptions about what is not in the repository: the upload library reports
preparing and uploading in any order, then committing; it sends the commit
request after that report, through the context-bound transport; it ends with a
key or an error. Two fingerprints are equal exactly when account, quality and
content are. Identifiers, random in the code, are numbered in creation order,
which is the order the queue keeps.

Abstracted: bytes, offsets and hashes (staging is none, partial, full or
synced), wall-clock dates (a backoff lasts until `BackoffEnds`), error texts,
roles and ownership of jobs (they only refuse requests), the global default
quality, byte progress.

### JobLedger

An entry of the file is absent, staging, queued, uncertain, failed, done or
dropped, and moves as `Moves` says; a commit request leaves only for an uncertain
entry, and a job that starts over has no request on its record unless the user
has just retried it. It has no memory, no failures and no crashes. The engine
implements it under the mapping `Entry`: every save, failing or not, every
recovery and every crash is a write of the ledger or nothing.

### BatchImport

`batch` is `GSCurrentBatch` with the progress of its worker, `import` is where
`GSImportFiles` stands for the batch and for the worker of a native backup, and
`late` is the daemon's port: requests whose clients have given up. `Begins`,
`Seals` and `Cancels` are answered requests; `BeginFails`, `Fails` and
`CancelFails` are ones that the client counts as failed, and `Abandoned` says
that such a request is lost or waits in the port, from which `LateHandled` takes
it in order, behind the client's back. `DaemonRestarts` may keep the port,
because launchd owns it. `Reason` is `GSCheckBatchAccount`, asked before each item
and again after its export. Of the queue only the ledger's entries remain, with
the item of each job, the uploads that run and the ones a cancel has reached.
`claim` and `overrun` are history: who still answers for a job, and how many
items were begun after the batch had a reason to stop. The queue implements the
ledger as far as the moves of its entries go: commit requests are not part of this
module, so the ledger's requests stay at none.

Left out: chunks one by one (a chunk handled late changes nothing that is kept),
the counters and failure codes, the automatic scan, which starts a batch and
records its assets as scanned at once.

### AccountStore

`store` and `file` are the credentials in memory and in `credentials.json`,
`slot` is the one bearer of `nativeRelay` with the identity it is filed under,
`relayed` tells the jailbreak build from the embedded one. Every request holds
`Engine.mu`; `account_native` asks Google about the account in between, so it is
two actions (`NativeBegins`, then `NativeBinds`, `NativeRefused` or
`NativeUnsaved`), and nothing else is served meanwhile. A save fails before or
after the new file is in place; `Select` and `Remove` take the change back in
memory, the upsert does not have to. `unsure` and `checked` are history. An
expired bearer is never told from none, so `Expire` empties the slot. `live` is
what `account_remove` sees of the jobs.

### HostAuthorization

`line` and `task` are the serial relay queue and its running task, `fetch` is
`GSNativeBearer` for a connection and, in the embedded build, for an upload;
`conn` is the state of `GSAccountConnection`. The account on screen changes at
any time. A request is answered (`RequestSent`), seen as failed and lost or left
in the port (`RequestLost`, `owed`), or handled after the client gave up
(`OwedHandled`, `NativeUnheard`); a request refused after a storage fault counts
as lost. A block handed to the main queue at the end of a task is part of the
last step of the task.

Abstracted: the throttles of 5 s and 60 s, at most one request left in the port,
the states shown in diagnostics. The panel's Reconnect button is left out: it
makes the same connection on another thread, through the same serial queue.

### BackupTransfer

`step` says where the handling of a request stands between two points at which
another thread can be seen: an atomic property, a synchronized block or a
dispatch. The flags are those of `GSBackupTransfer`, `registered` counts
`GSReconciling` by asset. `Start` runs on the caller's thread; `Bind`, `End` and
`Reconcile` on the main queue; `Prepare` to `Poll` on the worker; a cancel takes
three steps (`CancelBegins`, `CancelMarks`, `CancelEnds`) because it writes
`cancelGo`, enters the lock and looks for the job separately. `GuardLooks` and
`GuardDecides` are the two reads of `GSBlockNative`. The queue behind the worker
is one choice: the job completed with a key or did not. `preference` and
`AccountConnected` are the stored switch and what a successful account
connection does to it.

It implements `ReconcileGuard`, where requests wait for the server's copy, end
once, and payloads pass only while nobody waits: the registrations, the flags of a
transfer and the switch are all mapped to one set of waiting requests.

Left out: progress, counters, a repeated start of a request that was taken over
(it changes nothing), two cancels of one request at the same time, the reasons
for which a request may fail its authorization (any check may fail at any time).

### CompletionMonitor

Everything but the request to the engine runs on the main queue, and each block
of that queue is an action. `request` is `GSInFlight` with what the block of
`GSPoll` has captured (the account and the epoch) and, once answered, the
summary; `last` is the pair `GSLastIdentifier`, `GSLastRevision`. A signal
travels through `asked` (the block of `GSRefreshNativeLibrary`), `pending` and
`scheduled` (`GSPending`, `GSScheduled` and the block one second later) to
`FetchBlock`; `nudged` is the block that `GSCaptureSynchronizer` posts. The
synchronizers are held weakly, so any of them may go away (`SynchronizerGone`);
the host fetches by itself when it likes (`HostFetches`), and shows another
account or changes its authorization at any time (`View`). `Completes` is what
the monitor needs of the engine: the revision grows, which
`RevisionTellsCompletions` says of `UploadQueue`. `seen`, `kept` and
`interrupted` are history.

Abstracted: a summary is the revision, or 0 when the service cannot be reached,
is offline or has completed nothing; all three make the monitor return. Left
out: the diagnostics snapshot, the quality label of the details panel, a host
without the synchronizer methods (no signal is ever sent there).

## 3. Runs

| Run | Question | Bounds |
| --- | --- | --- |
| `queue_crash` | durability, commit requests, staged files, cancels, duplicates, outcomes, revisions, and the refinement of `JobLedger` | two jobs of two items (one of them possibly completed by an older build), two slots, no automatic retry, one crash; every save and removal may fail |
| `queue_conditions` | uploads are cut when forbidden, pauses do not spend retries, the list stays within its limit | one job at a time and room for one, three option sets, four conditions, one retry, one crash, a native account |
| `queue_liveness` | the slots are kept while their number changes, and the queue drains | two jobs of two accounts, one or two slots, one retry, one account that may wait |
| `imports` | lost and late requests, restarts, stops and changes of the account around imports | a batch of two items, a native backup of the first, two jobs, one request in the port |
| `accounts` | bearers, bindings and jobs against the accounts held | two accounts, both native or pasted, both with jobs; every save may fail |
| `authorization` | the host against the engine's account requests; renewal, connection and clearing in the end | two native accounts, one with jobs, both builds; the port holds one request |
| `backup` | cancel, completion, reconciliation and the switch against each other, the refinement of `ReconcileGuard`, and that a request taken over is answered | two requests of one asset, one cancelled up to twice from either side of the foreground |
| `monitor` | late answers, changes of account and of foreground against the signal's way to the library; a completion is fetched for the account on screen | two accounts, one completion, three changes of the foreground |
| `queue_staging`, `backup_default`, `backup_switched_off` | statements of the repository that the code does not keep | one job or one request |

Why the bounds are enough: jobs of the engine meet in the slots, the limit of the
list, deduplication and the save they share, and in each of these two jobs show
what one does to another. One crash at every point, followed by a recovery and a
second execution, contains the cases in which what one life of the process leaves
meets the next. In `imports` two items are needed for a stop between them, a
second importer for an import answered with another's job, and one request in the
port for anything handled late. In `accounts` and `authorization` the second
account is what a bearer can be filed under by mistake. In `backup` requests of
different assets share nothing but the guard, so one asset with two requests is
the hard case; two cancels are needed for a repeated and for a contradicting one.
In `monitor` one poll is in flight at a time; a late answer needs two changes of
the foreground, and the third leaves the host in front from a start in the
background; one completion is acknowledged once in each session, which is where a
signal could get lost. Safety is proved for all sizes (section 5), so the bounds
matter to the liveness properties only. The accounts of `accounts` are
interchangeable, so that run, which checks only safety, uses symmetry.

`queue_liveness` has the constraint `StillScheduling`: a failed save and `Close`
are final there, and `QueueDrains` assumes that neither happens; `SlotsRespected`
is about `Tick`, which does nothing after either. `authorization` is checked
without failing saves, which `accounts` covers: a failed save changes nothing of
what the host sees but a refusal.

### What the properties say

- *Durability*: `DurableWhileServing`; `OutcomeIsFinal`;
  `RevisionTellsCompletions`; `StoreReopens`.
- *One upload*: `CommitOnce` and `RefinesLedger`; `OneJobPerItem`;
  `CancelIsFinal`.
- *Resources*: `StagedFilesKept`, `NoStrandedJob`, `ImportsHaveHashes`,
  `SlotsRespected`, `BudgetKept`, `ForbiddenUploadsCut`.
- *Transfers*: `CancelReachesGo` (whichever of the cancel and the worker comes
  second sees the other), `BackgroundCancelKeepsJob`, `RegistrationsBalanced`,
  `NoSecondCopy`, `KeepsGuard`.
- *Signals*: `SignalKept` (an acknowledged completion is not signalled again, so
  its signal must not get lost), `AcknowledgedInSession`.
- *Imports*: `AnswersKept` (a job told to be queued is taken back by the user
  only, not by a restart, a late request or an import), `FailedImportsEnd`, `StopsAfterCurrent` (which
  `docs/bulk-import.md:9` promises), `KeepsLedger`.
- *Accounts*: `JobsKeepAccount`, `KnownBearers`, `BindingsChecked`,
  `BearerOfItsOwner` (which `docs/architecture.md:42` promises),
  `TokensOfTheirOwner`, `KeepsAccountSpec`.
- *Progress*: `QueueDrains`, `RequestAnswered`, `CompletionsFetched`,
  `BatchMovesOn`, `Replenished`, `AccountConnects`, `OldBearerCleared`.

Four module types (`TypeOK` of `UploadQueue`, `BackupTransfer` and
`CompletionMonitor`, `AccountTypeOK`) are proved and no run repeats them. The types
that runs check say more than types: that the relay queue holds no task twice, that
only running uploads are being cancelled.

`BudgetKept` bounds the attempts of a job by its failures and by the crashes so far:
a pause gives its attempt back, a restart during an upload leaves it on the record
(`types.go:161`), one at most for each restart.

Two exceptions are worth knowing. `AnswersKept` holds an import's own job against
every cancel but the user's, a late one included, but not a job shared with
another import: `seal` answers with an older copy, and when the import that began
that copy saw its last request fail, its cancel takes the copy away from the item
just reported as queued. `FailedImportsEnd` lets go of a job
whose `begin` or `cancel` was lost: such a job stays until the daemon's next
start cancels it, or, when its seal was handled late, uploads.

### Fairness

`QueueDrains` assumes weak fairness of `Tick` (a ticker of one second calls it),
`BackoffEnds` (time passes), `Finish` (every request of the upload library has a
deadline; `docs/architecture.md` gives the ceiling) and `Open` (launchd or the
host starts the process again). It asks nothing of requests, and only covers
behaviours in which uploads stay permitted and authorizations stay put; a job
whose authorization comes and goes for ever is given its slot back each time and
may starve, which is what the code does.

`RequestAnswered` assumes that the main queue runs its blocks and that each wait
of the worker ends: both loops have a deadline of a day. The export waits for
PhotoKit without one (`UI/GSExporter.m:19`); that PhotoKit answers is an
assumption.

`BatchMovesOn` assumes that the serial queue runs the batch's worker and that
each request ends (discovery, send and receive have timeouts). Nothing is assumed
of PhotoKit, the daemon or the user, and the export is the one place where a batch
may wait for ever.

`Replenished`, `AccountConnects` and `OldBearerCleared` assume that the timers of
2 s and 60 s fire, that queued blocks run, that an SSO fetch ends after 30 s at the
latest, that the daemon serves its port, and that launchd or the host starts the
engine. The first two say what happens once mishaps (lost requests, crashes) and
denials (SSO or Google refuse) have stopped; the third needs only the former: an
account that has left the screen loses its bearer even when the new one gets none.

`CompletionsFetched` assumes that the timer repeats, that requests end (both
transports have a timeout) and that the main queue runs its blocks. It covers a
host that stays in the foreground, with one account on screen whose synchronizer
is alive, and a service that answers in the end. An account that leaves the
screen for less than the delay of `GSFlushRefresh` may lose its signal: the
delayed block finds the synchronizer of whichever account is shown then, and the
revision stays acknowledged until the next session or the next completion. The
note of the hazard at `UI/GSPhotosIntegration.m:33` records this; nothing in the repository
promises otherwise, and both properties ask for an account that stays.

## 4. Findings

1. `queue_staging`: a crash between the staging directory and the save of its job
   leaves a directory that no start removes; `queue_test.go:86-88` tests that
   interrupted staging goes.
2. `backup_default`: the routing switch is on while nothing is stored, although
   `docs/native-routing.md:11` and `README.md:42` call it off by default.
3. `backup_switched_off`: switching routing off stores an empty account, which
   the next account connection takes for a first run, and turns routing on.

## 5. Proofs

For every value of the constants, under the named assumptions only
(`BoundsAssumption`, `ItemsAssumption`, `OptionsAssumption`,
`TransferAssumption`, `MonitorAssumption`, `AccountsAssumption`,
`SizesAssumption`: sizes are numbers, items have known accounts and qualities,
there are finitely many requests, nobody is no account, a selection is not
empty):

- `UploadQueueProofs`: `TypeCorrect`, `Durability`, `ForbiddenUploadsAreCut`,
  `CommitAtMostOnce`, `Refinement` (every behaviour of the engine is one of the
  ledger), `NoneStranded`.
- `UploadQueueJobs`: `CancelStays`, `CancelStopsCommit` (no commit request leaves
  for a job whose cancel request is on file, until the user retries it),
  `OutcomesStay`, `FilesKept`, `HashesKept`, `NoTwins`, `OneUploadPerItem`,
  `LiveJobsKeepAccount`, `PausesAreFree`, `RetriesBounded` (automatic retries end),
  `JobNearsEnd`, `SlotsKept`, `FileReopens`, `RevisionsTell`.
- `JobLedger`: `LedgerPromise`.
- `BatchImportProofs`: `ImportsTyped`, `QueuedStays`, `NoStrayImport`,
  `StopHeeded`, `BatchEndsNearer`, `QueueKeepsLedger` (the queue of the importers implements the
  ledger too).
- `AccountStoreProofs`: `AccountsTyped`, `OneOwner`, `NoStrayBearer`,
  `OnlyChecked`, `AccountsOfJobs`.
- `HostAuthorizationProofs`: `HostTyped`, `OwnTokens`, `HostKeepsPromise` (the
  host and the engine together implement `AccountSpec`), `UploadsGetTheirOwn`.
- `BackupTransferProofs`: `TransferTypes`, `CancelsArrive`,
  `BackgroundCancelsSpare`, `Balanced`, `GuardHolds`, `GuardRefinement`,
  `RequestNearsAnswer`.
- `CompletionMonitorProofs`: `MonitorTypes`, `SignalsArrive`,
  `LateAnswersIgnored`.

`DurableWhileServing` is inductive by itself: a save makes the two copies equal
or sets `fault`, and nothing else writes either.

`ForbiddenUploadsCut` is not: it has to be known that no upload is active when
the process does not run, so that `Open` has nothing to cut (`CutInv`).

`CommitOnce` needs the chain from the request back to the file, `CommitInv`: a
goroutine that may still send or has sent has a job in a matching state; a job
whose upload has reached its commit phase with a live context has that phase on
file, because the callback saves before it returns and a failed save cuts the
context; a request that left is accounted for by a goroutine in its last phase
or by a state, in memory and on file after recovery, from which no upload
starts; and a job not yet begun has sent nothing. `Crash` and `Open` keep it
because `RecoveredState` sends committing to failed.

`Refinement` needs to know what a save may write, since a failed save may leave
the file behind and a later one of another request catches up for all jobs at
once. `LagInv` bounds the lag: of every job the file is at most one legal move of
the ledger behind the memory, and of a job with a running goroutine it says
pending or in progress, and committing only if the memory does (`Behind`). Then
any write of `mem` to `disk` is a `Write` of the ledger (`StepIsWrite`), and a
crash, which takes the file as the new memory, recovers by a legal move. A
request only leaves from a job that `CommitInv` shows as committing on file,
which is the guard of the ledger's `Send`. `Manned`, the other half of `LagInv`,
is `NoneStranded`: it holds because `Tick` starts a goroutine in the action that
moves the job, and `Finish` moves the job in the one that ends it.

The jobs of the engine are proved one by one. `JobsInv` says of each job, in
memory and on file, that a cancel request is heeded (only a running upload
outlives one, with its context cut), that an import has its hashes, that a job
which a restart would queue has synced files, and that its attempts are its
failures, plus the one that runs, plus at most one for each crash;
`UntouchedStaysOK` takes care of the jobs a step
leaves alone. The list needs more: `StoresOK` says of memory and file that no two
standing copies share an item, that a completion without a policy is an old one,
that whatever has been sealed has its fingerprint, that live jobs have credentials,
and that the limit is kept. `OneUploadPerItem` and `LiveJobsKeepAccount` follow. Most steps are `Tame` (they add nothing an import
might repeat) and keep it; `seal` looks for duplicates in exactly the states that
`Tame` steps can come to. `Recalled` says of a running
job whose cancel request is on file that memory knows it too; `JobsInv` has its
context cut, and `SendCommit` asks for a live one: `CancelStopsCommit`. `RevInv`
says that memory counts every completion the
file lacks. `SlotsKept` needs the pigeonhole principle, since `Chosen` is defined
by how many jobs stand ahead of each: a set of which each member has fewer than n
predecessors has at most n members (`ChosenFit`).

`QueuedStays` and `NoStrayImport` are inductive together (`Answerable`): requests
in the port name jobs that exist, a cancel in progress has struck its job, and a
struck job ends. `NoCancelDue` adds that no two imports hold one job, and that no
cancel, held by an import or waiting in the port, names a job whose import has been
answered. `StopHeeded` needs to know where the worker
may be when one item has been begun too late: past its begin, or back at the check
that ends the batch (`OverrunEnds`).

`AccountInv` adds to the properties of `AccountStore` that memory and file hold
the same accounts but for the unsure ones, and that whatever holds a native
binding has been checked. `HostInv` says that a fetch's token is of the account it
was asked for, that the running task's fetch is its own, and that what lies in the
port is filed under its owner; then every step of the host is an `AccountNext` or
leaves the engine alone, and `UploadsGetTheirOwn` follows from the engine's own
theorem by refinement.

`CancelsArrive` rests on `CancelInv`. A transfer with only foreground cancels
keeps `cancelGo` from its first cancel on. A job that is stored and cancelled is
asked for, unless the worker is still at its look (`stored`) or a cancel is
between its lock and its look (`marked`): the two exceptions exclude each other
in time, since whoever leaves its exception asks.

`Balanced` counts: each flag change adds or removes exactly one holder, because
a transfer reconciles only after its handling and so once (`RegInv`). The
cardinalities come from the library's theorems on finite sets. `GuardHolds`
follows. For `GuardRefinement` the balance shows that no registration means no
waiting request, and `Flagged`, that only requests which were taken over have flags,
keeps the ends of those apart from the payloads of the others.

Three liveness properties have the part of their argument that is about steps proved.
`JobNearsEnd` counts for a job of the queue the attempts its budget still allows
(`RetriesBounded` and the budget of `JobsInv` keep that number from falling below
zero) and where in an attempt it stands: each start, end of a backoff and end of an
uninterrupted upload lowers the count, which is zero exactly when the job is settled.
Only requests, interruptions and a restart raise it, and `QueueDrains` speaks of
behaviours in which those have stopped.
`BatchEndsNearer` gives the batch a distance from its end (five stages for each item
that is left) which every step of the worker and every answered export lowers, and
which only the start of a batch raises: no lost request, restart of the daemon,
change of the account or other importer does. `RequestNearsAnswer` does the same for a
request that was taken over, with ten steps of its handling, and shows that a request
without steps left has been answered. That the fair steps are enabled until then is
what is left to TLC.

`SignalsArrive` is inductive with `SignalInv`: what is answered or acknowledged
has happened, the acknowledged account is the one on screen as long as `kept`
holds, and the delayed block never runs without a pending signal. Each fetch
reads the server no earlier than the revision it was asked for, so one fetch
serves every signal that joined it. `LateAnswersIgnored` is inductive with
`EpochInv`: a request that carries the current epoch has not been interrupted.

Only model-checked: the liveness properties (`QueueDrains`, `RequestAnswered`,
`CompletionsFetched`, `BatchMovesOn`, `Replenished`, `AccountConnects`,
`OldBearerCleared`), which are out of reach of the prover, as are `ENABLED` and
inductions over data. No module uses recursion.

## 6. Plan

Done: `JobLedger`, `UploadQueue`, `BackupTransfer`, `CompletionMonitor`,
`AccountStore`, `HostAuthorization`, `BatchImport`; two refinements of the ledger,
one of the account store and one of the guard; every safety property is a theorem. What could
follow:

1. `BackupTransfer` composed with the ledger: requests that share a job by
   deduplication, and cancels that reach it through each other.
2. Discovery: the attempt shared by a caller with a timeout and a late reply, with
   its memory and port rights.
3. Directory entries that are not synced (`queue.go:115`), which asks for a model
   of the file system after a power failure.
4. The automatic scan with its list of scanned assets.

## 7. Not modelled

The settings panel, albums, appearance and localization have no protocol state of
their own; a request of the panel is one of the engine's requests.
The discovery attempt of `Shared/GSDiscovery.c` appears by its effect, a request
that is lost or handled late. What a pasted credential must contain is parsing.
Message layouts, sandbox profiles, Keychain and bundle shims are platform I/O.
The upload library and Google's services are not in the repository; they appear
as the assumptions above. The progress counters and diagnostics of the summary
are pure reads. Build scripts and packaging are outside the program.
