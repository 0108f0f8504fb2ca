----------------------------- MODULE BatchImport -----------------------------
(***************************************************************************)
(* How originals get from Google Photos into the queue: the batch that     *)
(* prepares a selection item by item, the import of one item (begin, its   *)
(* chunks, seal, and a cancel after any failure), and the daemon's port,   *)
(* where a request may be lost or be handled after its client gave up.     *)
(* A second importer, the worker of a native backup, runs next to it.      *)
(*                                                                         *)
(* Of the queue only the entries of JobLedger remain, with what imports    *)
(* see of them: duplicates, running uploads and cancels under way.         *)
(***************************************************************************)
EXTENDS Naturals, Sequences

CONSTANTS
    BatchSize,  \* items of a selection
    BackedUp,   \* those that native backups import as well
    MaxIds,     \* bound: jobs created; begin is refused afterwards, as by a full queue
    MaxLate     \* bound: requests that wait in the port without a client

ASSUME SizesAssumption ==
    /\ BatchSize \in Nat \ {0} /\ MaxIds \in Nat /\ MaxLate \in Nat
    /\ BackedUp \subseteq 1..BatchSize

VARIABLES
    batch,      \* GSCurrentBatch and its worker: what it does, for which item, whether
                \* it has been stopped, whether its account is signed in and selected
    import,     \* GSImportFiles, called by the batch or by a backup
    late,       \* requests in the daemon's port whose clients have given up
    jobs,       \* the queue: entry and item of each job
    issued,     \* number of identifiers given out
    running,    \* jobs with an upload goroutine
    cancelling, \* those of them that a cancel has reached
    claim,      \* history: who answers for each job
    overrun     \* history: items imported since the batch has had a reason to stop

queueVars  == <<jobs, issued, running, cancelling>>
vars == <<batch, import, late, queueVars, claim, overrun>>

Items     == 1..BatchSize
Ids       == 1..MaxIds
NoJob     == 0
Importers == {"batch", "backup"}
Requests  == [op : {"begin"}, about : Items] \cup [op : {"seal", "cancel"}, about : Ids]

\* "import": the one that began it.  "answered": it began the job and was told that
\* it is queued.  "shared": only imports of copies were told so.  "astray": nobody,
\* for a request was lost, a process died, or the user has retried it.  "struck":
\* taken back, by the user or by the import that began it.
Claims == {"import", "answered", "shared", "astray", "struck"}

\* Nobody will cancel the jobs of S for the imports that began them.
Astray(S) == claim' = [i \in Ids |-> IF i \in S /\ claim[i] = "import" THEN "astray" ELSE claim[i]]
Struck(i) == claim' = [claim EXCEPT ![i] = "struck"]

\* An import that was told its job is queued has no right to take it back.
Withdrawn(i) == claim' = [claim EXCEPT ![i] = IF @ = "answered" THEN @ ELSE "struck"]

NotListed == [entry |-> "absent", item |-> 1]
NoBatch  == [stage |-> "none", item |-> 1, stopped |-> FALSE, fits |-> TRUE]
NoImport == [stage |-> "none", item |-> 1, job |-> NoJob]

-----------------------------------------------------------------------------
(* The queue *)

Enter(i, entry) == jobs' = [jobs EXCEPT ![i].entry = entry]

Staged(x) ==
    /\ issued + 1 \in Ids
    /\ issued' = issued + 1
    /\ jobs' = [jobs EXCEPT ![issued + 1] = [entry |-> "staging", item |-> x]]
    /\ UNCHANGED <<running, cancelling>>

\* The sealed jobs an import of the same account, quality and content repeats: a
\* job whose upload is being cancelled is one of them still.
Copies(i) == {k \in Ids \ {i} : /\ jobs[k].item = jobs[i].item
                                /\ jobs[k].entry \in {"queued", "uncertain", "failed", "done"}}

\* Slip (a variant of the next definition, used by no specification): seal answers
\* with the job it was asked about.
OwnJob(i) == {i}

\* The job that seal answers with: the oldest copy, or the import's own.
SealedAs(i) == IF Copies(i) = {} THEN {i} ELSE {k \in Copies(i) : \A l \in Copies(i) : k <= l}

Sealed(i) ==
    /\ jobs[i].entry = "staging"
    /\ Enter(i, IF Copies(i) = {} THEN "queued" ELSE "dropped")
    /\ UNCHANGED <<issued, running, cancelling>>

Cancellable(i) == jobs[i].entry \in {"staging", "queued", "uncertain", "failed"}

\* Slip: a job with a running upload is marked cancelled at once.
MarkedAtOnce(i) ==
    /\ Cancellable(i)
    /\ Enter(i, "dropped") /\ UNCHANGED <<issued, running, cancelling>>

Cancelled(i) ==
    /\ Cancellable(i)
    /\ IF i \in running THEN cancelling' = cancelling \cup {i} /\ UNCHANGED jobs
       ELSE Enter(i, "dropped") /\ UNCHANGED cancelling
    /\ UNCHANGED <<issued, running>>

UploadStarts(i) ==
    /\ jobs[i].entry = "queued" /\ i \notin running
    /\ running' = running \cup {i}
    /\ UNCHANGED <<batch, import, late, jobs, issued, cancelling, claim, overrun>>

UploadCommits(i) ==
    /\ i \in running /\ Enter(i, "uncertain") /\ jobs[i].entry = "queued"
    /\ UNCHANGED <<batch, import, late, issued, running, cancelling, claim, overrun>>

UploadEnds(i) ==
    /\ i \in running
    /\ \E entry \in {"done", "failed"}
                    \cup (IF jobs[i].entry = "uncertain" THEN {}
                          ELSE IF i \in cancelling THEN {"dropped"} ELSE {"queued"}) :
            Enter(i, entry)
    /\ running' = running \ {i} /\ cancelling' = cancelling \ {i}
    /\ UNCHANGED <<batch, import, late, issued, claim, overrun>>

\* retry and retry_failed; cancel from the settings, or after a cancel of the backup in
\* Google Photos; clear_completed.
Retried(i) ==
    /\ jobs[i].entry = "failed"
    /\ Enter(i, "queued")
    /\ claim' = [claim EXCEPT ![i] = IF @ \in {"answered", "shared"} THEN @ ELSE "astray"]
    /\ UNCHANGED <<batch, import, late, issued, running, cancelling, overrun>>

UserCancels(i) ==
    /\ Cancelled(i)
    /\ Struck(i)
    /\ UNCHANGED <<batch, import, late, overrun>>

Cleared ==
    LET ended == {i \in Ids : jobs[i].entry \in {"done", "dropped"}}
    IN  /\ ended # {}
        /\ jobs'  = [i \in Ids |-> IF i \in ended THEN NotListed ELSE jobs[i]]
        /\ claim' = [i \in Ids |-> IF i \in ended THEN "import" ELSE claim[i]]
        /\ UNCHANGED <<batch, import, late, issued, running, cancelling, overrun>>

\* Slip: an upload that may have been committed is queued again.
UncertainQueued(i) ==
    CASE jobs[i].entry = "staging"                        -> "dropped"
      [] jobs[i].entry = "queued" /\ i \in cancelling     -> "dropped"
      [] jobs[i].entry = "uncertain"                      -> "queued"
      [] OTHER                                            -> jobs[i].entry

\* What Open makes of a job.
Recovered(i) ==
    CASE jobs[i].entry = "staging"                        -> "dropped"
      [] jobs[i].entry = "queued" /\ i \in cancelling     -> "dropped"
      [] jobs[i].entry = "uncertain"                      -> "failed"
      [] OTHER                                            -> jobs[i].entry

LateCancels == {late[n].about : n \in {k \in DOMAIN late : late[k].op = "cancel"}}

\* The daemon dies and starts again.  launchd keeps its port, so requests in it may
\* be handled by the new process.
DaemonRestarts ==
    /\ jobs' = [i \in Ids |-> [jobs[i] EXCEPT !.entry = Recovered(i)]]
    /\ running' = {} /\ cancelling' = {}
    /\ \/ UNCHANGED <<late, claim>>
       \/ late' = <<>> /\ Astray(LateCancels)
    /\ UNCHANGED <<batch, import, issued, overrun>>

-----------------------------------------------------------------------------
(* GSImportFiles *)

BatchEnds == batch' = NoBatch /\ overrun' = 0

\* The item is settled, imported or failed: on with the next one.
Counted == batch' = [batch EXCEPT !.stage = "check", !.item = @ + 1] /\ UNCHANGED overrun

\* The import ends with the identifier of a job, or with none: then the batch stops
\* (queue_rejected).
Returns(w, job) ==
    /\ import' = [import EXCEPT ![w] = NoImport]
    /\ \/ w = "backup" /\ UNCHANGED <<batch, overrun>>
       \/ w = "batch" /\ job = NoJob /\ BatchEnds
       \/ w = "batch" /\ job # NoJob /\ Counted

\* The daemon handles requests in the order they reach its port.
Reachable == late = <<>>

\* The client gives up on a request, which is lost or stays in the port.
Abandoned(op, about) ==
    \/ UNCHANGED late
    \/ Len(late) < MaxLate /\ late' = Append(late, [op |-> op, about |-> about])

Begins(w) ==
    /\ import[w].stage = "begin" /\ Reachable
    /\ Staged(import[w].item)
    /\ import' = [import EXCEPT ![w].stage = "seal", ![w].job = issued + 1]
    /\ overrun' = IF w = "batch" /\ (batch.stopped \/ ~batch.fits) THEN overrun + 1 ELSE overrun
    /\ UNCHANGED <<batch, late, claim>>

\* Slip: begin waits for its answer without a deadline.
BeginRefused(w) ==
    /\ import[w].stage = "begin" /\ Reachable /\ issued + 1 \notin Ids
    /\ Returns(w, NoJob)
    /\ UNCHANGED <<late, queueVars, claim>>

\* No identifier: nothing to cancel.
BeginFails(w) ==
    /\ import[w].stage = "begin"
    /\ Abandoned("begin", import[w].item)
    /\ Returns(w, NoJob)
    /\ UNCHANGED <<queueVars, claim>>

Answers(own, job) ==
    claim' = [claim EXCEPT ![job] = IF job = own THEN "answered"
                                    ELSE IF @ \in {"answered", "struck"} THEN @ ELSE "shared"]

\* Slip: the cancel follows an answered seal as well, for success is never set.
CancelledAnyway(w) ==
    /\ import[w].stage = "seal" /\ Reachable
    /\ Sealed(import[w].job)
    /\ \E job \in SealedAs(import[w].job) : Answers(import[w].job, job)
    /\ import' = [import EXCEPT ![w].stage = "cancel"]
    /\ UNCHANGED <<batch, late, overrun>>

\* All chunks have been appended, and the seal is answered.
Seals(w) ==
    /\ import[w].stage = "seal" /\ Reachable
    /\ Sealed(import[w].job)
    /\ \E job \in SealedAs(import[w].job) :
        /\ Answers(import[w].job, job)
        /\ Returns(w, job)
    /\ UNCHANGED late

\* Slip: no cancel after a failed seal.
SealNotCancelled(w) ==
    /\ import[w].stage = "seal"
    /\ Abandoned("seal", import[w].job)
    /\ Returns(w, NoJob)
    /\ UNCHANGED <<queueVars, claim>>

\* A chunk or the seal is refused or lost, or a file cannot be read.  A chunk that
\* is handled late changes nothing that is modelled.
Fails(w) ==
    /\ import[w].stage = "seal"
    /\ Abandoned("seal", import[w].job)
    /\ import' = [import EXCEPT ![w].stage = "cancel"]
    /\ UNCHANGED <<batch, queueVars, claim, overrun>>

Cancels(w) ==
    /\ import[w].stage = "cancel" /\ Reachable
    /\ Cancelled(import[w].job)
    /\ Withdrawn(import[w].job)
    /\ Returns(w, NoJob)
    /\ UNCHANGED late

\* Nobody looks at the outcome of the cancel: it may be refused, because the job has
\* ended, lost, or be handled later.
CancelFails(w) ==
    /\ import[w].stage = "cancel"
    /\ Abandoned("cancel", import[w].job)
    /\ Astray(IF late' = late THEN {import[w].job} ELSE {})
    /\ Returns(w, NoJob)
    /\ UNCHANGED <<queueVars>>

Imports(w) ==
    Begins(w) \/ BeginFails(w) \/ Seals(w) \/ Fails(w) \/ Cancels(w) \/ CancelFails(w)

\* The daemon takes a request from its port whose client has given up.
LateHandled ==
    /\ late # <<>> /\ late' = Tail(late)
    /\ LET m == Head(late)
           Refused == UNCHANGED <<queueVars, claim>>
       IN  CASE m.op = "begin"  -> \/ Staged(m.about) /\ Astray({issued + 1})
                                   \/ issued + 1 \notin Ids /\ Refused
             [] m.op = "seal"   -> \/ Sealed(m.about) /\ UNCHANGED claim
                                   \/ jobs[m.about].entry # "staging" /\ Refused
             [] m.op = "cancel" -> \/ Cancelled(m.about) /\ Withdrawn(m.about)
                                   \/ ~Cancellable(m.about) /\ Refused
    /\ UNCHANGED <<batch, import, overrun>>

\* A native backup imports its original.
BackupImports(x) ==
    /\ import["backup"].stage = "none"
    /\ import' = [import EXCEPT !["backup"] = [NoImport EXCEPT !.stage = "begin", !.item = x]]
    /\ UNCHANGED <<batch, late, queueVars, claim, overrun>>

-----------------------------------------------------------------------------
(* The batch *)

\* GSStartBatchImport, refused while a batch is current.  The account it is given
\* may have changed already.
BatchStarts ==
    /\ batch.stage = "none"
    /\ \E f \in BOOLEAN : batch' = [NoBatch EXCEPT !.stage = "check", !.fits = f]
    /\ UNCHANGED <<import, late, queueVars, claim, overrun>>

\* Slip: only the stop of the user is looked at.
AccountNotLookedAt == batch.stopped

\* GSCheckBatchAccount.  That the service cannot be asked is a reason as well.
Reason == batch.stopped \/ ~batch.fits

Reaches(stage) == batch' = [batch EXCEPT !.stage = stage] /\ UNCHANGED overrun

\* Before each item: finished, stopped, or on with the export.
Checks ==
    /\ batch.stage = "check"
    /\ BatchEnds \/ (~Reason /\ batch.item <= BatchSize /\ Reaches("export"))
    /\ UNCHANGED <<import, late, queueVars, claim>>

\* PhotoKit has answered and the account is checked again, for the export may have
\* outlived the sign-in or a stop: the original is imported, the item counts as
\* failed, or the batch ends for a reason or a full disk.
Exported ==
    /\ batch.stage = "export"
    /\ \/ (BatchEnds \/ Counted) /\ UNCHANGED import
       \/ /\ ~Reason /\ Reaches("import")
          /\ import' = [import EXCEPT !["batch"] = [NoImport EXCEPT !.stage = "begin", !.item = batch.item]]
    /\ UNCHANGED <<late, queueVars, claim>>

\* GSStopBatchImport: from the settings, or when the background time is over.
Stop ==
    /\ batch.stage # "none" /\ ~batch.stopped
    /\ batch' = [batch EXCEPT !.stopped = TRUE]
    /\ UNCHANGED <<import, late, queueVars, claim, overrun>>

\* The user signs out, changes the account or the destination, and back.
AccountChanges ==
    /\ batch.stage # "none"
    /\ batch' = [batch EXCEPT !.fits = ~@]
    /\ overrun' = IF batch.stopped THEN overrun ELSE 0
    /\ UNCHANGED <<import, late, queueVars, claim>>

\* Google Photos is killed with its imports; what it has sent stays in the port.
HostDies ==
    /\ \E w \in Importers : import[w].stage # "none"
    /\ batch' = NoBatch /\ overrun' = 0
    /\ import' = [w \in Importers |-> NoImport]
    /\ Astray({import[w].job : w \in Importers})
    /\ UNCHANGED <<late, queueVars>>

-----------------------------------------------------------------------------
Init ==
    /\ batch = NoBatch
    /\ import = [w \in Importers |-> NoImport]
    /\ late = <<>>
    /\ jobs = [i \in Ids |-> NotListed]
    /\ issued = 0 /\ running = {} /\ cancelling = {}
    /\ claim = [i \in Ids |-> "import"] /\ overrun = 0

Worker == Checks \/ Imports("batch")

Queue ==
    \/ LateHandled \/ DaemonRestarts \/ Cleared
    \/ \E i \in Ids : UploadStarts(i) \/ UploadCommits(i) \/ UploadEnds(i) \/ Retried(i) \/ UserCancels(i)

Next ==
    \/ BatchStarts \/ Worker \/ Exported \/ Stop \/ AccountChanges \/ HostDies
    \/ (\E x \in BackedUp : BackupImports(x)) \/ Imports("backup")
    \/ Queue

Spec == Init /\ [][Next]_vars

\* The serial queue runs the worker, and every request ends after 125 s at most.
\* Nothing is assumed of PhotoKit, the daemon or the user.
FairSpec == Spec /\ WF_vars(Worker)

-----------------------------------------------------------------------------
Entries == {"absent", "staging", "queued", "uncertain", "failed", "done", "dropped"}

\* The types; an upload runs for a job that waits or commits only, and only running
\* uploads are asked to stop (Engine.active).
ImportTypeOK ==
    /\ batch \in [stage : {"none", "check", "export", "import"}, item : 1..BatchSize + 1,
                  stopped : BOOLEAN, fits : BOOLEAN]
    /\ import \in [Importers -> [stage : {"none", "begin", "seal", "cancel"},
                                 item : Items, job : Ids \cup {NoJob}]]
    /\ late \in Seq(Requests)
    /\ jobs \in [Ids -> [entry : Entries, item : Items]]
    /\ issued \in 0..MaxIds
    /\ running \subseteq {i \in Ids : jobs[i].entry \in {"queued", "uncertain"}}
    /\ cancelling \subseteq running
    /\ claim \in [Ids -> Claims]
    /\ overrun \in Nat

\* An item reported as queued has its job in the queue, whatever is lost, late or
\* restarted: only the user takes it back, and, when seal has answered with a copy
\* that another import began, a cancel of that import (GSImportFiles cancels what
\* has not been answered; seal answers with a sealed copy; Open cancels imports
\* only).
AnswersKept ==
    \A i \in Ids : claim[i] \in {"answered", "shared"} => jobs[i].entry \notin {"staging", "dropped"}

\* A job whose import has failed does not go on: it is cancelled, being cancelled, or
\* its cancel is in the port, unless a request of that import was lost, another
\* import was answered with the job, or the user has revived it (GSImportFiles'
\* @finally).
FailedImportsEnd ==
    \A i \in Ids :
        /\ jobs[i].entry \in {"staging", "queued"}
        /\ i \notin cancelling \cup LateCancels
        /\ \A w \in Importers : import[w].job # i
        => claim[i] \notin {"import", "struck"}

\* "Stop preparing takes effect after the current original" (bulk-import.md:9): once
\* a stop or a change of the account stands, one more item is imported at most.
StopsAfterCurrent == overrun <= 1

\* No lost request, dead daemon, stop or change of the account holds up a batch,
\* which would let no second one start (GSCurrentBatch): it waits for ever only for
\* PhotoKit.
BatchMovesOn == []<>(batch.stage \in {"none", "export"})

L == INSTANCE JobLedger WITH
        Jobs <- Ids,
        book <- [i \in Ids |-> jobs[i].entry],
        sent <- [i \in Ids |-> 0]

\* The queue that imports are modelled against moves its entries only as the ledger,
\* which UploadQueue implements, allows.
KeepsLedger == L!Spec

=============================================================================
