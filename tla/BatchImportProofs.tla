-------------------------- MODULE BatchImportProofs --------------------------
(***************************************************************************)
(* What BatchImport promises, for any selection, number of jobs and depth  *)
(* of the port.  Three invariants: Held, what the importers hold (their    *)
(* stages, and that a second item is never begun against a standing        *)
(* reason to stop); Answerable, which follows a job from the cancel that   *)
(* reaches it to its end, so that nobody else answers for it; NoCancelDue, *)
(* that no cancel is on its way to a job whose import has been answered.   *)
(***************************************************************************)
EXTENDS BatchImport, TLAPS

ImportsHeld ==
    /\ \A w \in Importers : import[w].job = NoJob <=> import[w].stage \in {"none", "begin"}
    /\ import["batch"].stage # "none" <=> batch.stage = "import"
    /\ batch.stage \in {"export", "import"} => batch.item \in Items

OverrunEnds ==
    \/ overrun = 0
    \/ /\ overrun = 1 /\ Reason
       /\ \/ batch.stage = "check"
          \/ batch.stage = "import" /\ import["batch"].stage \in {"seal", "cancel"}

\* Identifiers that have not been given out name no job, and an upload that may have
\* been committed has its goroutine.
EntriesHeld ==
    /\ \A i \in Ids : i > issued => jobs[i].entry = "absent"
    /\ \A i \in Ids : jobs[i].entry = "uncertain" => i \in running

Held == ImportTypeOK /\ EntriesHeld /\ ImportsHeld /\ OverrunEnds

KnownRequests == \A n \in DOMAIN late : late[n].op # "begin" => late[n].about <= issued

JobsKnown ==
    /\ \A w \in Importers : import[w].job <= issued
    /\ KnownRequests
    /\ \A i \in Ids : i > issued => claim[i] = "import"

\* A cancel that reaches a job ends it, at once or with its upload.
CancelsStrike ==
    \A i \in Ids : /\ i \in cancelling => claim[i] = "struck"
                   /\ claim[i] = "struck" =>
                        i \in cancelling \/ jobs[i].entry \notin {"staging", "queued", "uncertain"}

\* Who has been answered has no cancel to send, and no one else has one for that job.
NoCancelDue ==
    /\ \A v, w \in Importers : v # w /\ import[v].job = import[w].job => import[v].job = NoJob
    /\ \A i \in Ids : claim[i] = "answered" =>
            i \notin LateCancels /\ \A w \in Importers : import[w].job # i

Answerable == JobsKnown /\ CancelsStrike /\ AnswersKept /\ FailedImportsEnd

-----------------------------------------------------------------------------
(* What the operators of the queue do to its types *)

QueueOK ==
    /\ jobs \in [Ids -> [entry : Entries, item : Items]]
    /\ issued \in 0..MaxIds
    /\ running \subseteq {i \in Ids : jobs[i].entry \in {"queued", "uncertain"}}
    /\ cancelling \subseteq running
    /\ EntriesHeld

HostOK ==
    /\ batch \in [stage : {"none", "check", "export", "import"}, item : 1..BatchSize + 1,
                  stopped : BOOLEAN, fits : BOOLEAN]
    /\ import \in [Importers -> [stage : {"none", "begin", "seal", "cancel"},
                                 item : Items, job : Ids \cup {NoJob}]]
    /\ overrun \in Nat

PortOK == late \in Seq(Requests) /\ claim \in [Ids -> Claims]

LEMMA HeldParts == Held <=> HostOK /\ QueueOK /\ PortOK /\ ImportsHeld /\ OverrunEnds
BY DEF Held, ImportTypeOK, HostOK, QueueOK, PortOK

LEMMA HeldPartsNext == Held' <=> HostOK' /\ QueueOK' /\ PortOK' /\ ImportsHeld' /\ OverrunEnds'
BY DEF Held, ImportTypeOK, HostOK, QueueOK, PortOK

LEMMA EnterOK ==
    ASSUME QueueOK, NEW i \in Ids, NEW e \in Entries, Enter(i, e)
    PROVE  /\ jobs' \in [Ids -> [entry : Entries, item : Items]]
           /\ jobs'[i].entry = e
           /\ \A k \in Ids \ {i} : jobs'[k] = jobs[k]
BY DEF QueueOK, Enter

LEMMA StagedOK ==
    ASSUME QueueOK, NEW x \in Items, Staged(x)
    PROVE  QueueOK' /\ issued + 1 \in Ids /\ issued' = issued + 1
<1>1. /\ issued + 1 \in Ids /\ issued' = issued + 1 /\ UNCHANGED <<running, cancelling>>
      /\ jobs' = [jobs EXCEPT ![issued + 1] = [entry |-> "staging", item |-> x]]
  BY DEF Staged
<1>2. issued \in Nat /\ issued + 1 > issued /\ issued' \in 0..MaxIds
  BY <1>1, SizesAssumption DEF QueueOK, Ids
<1>3. issued + 1 \notin running
  BY <1>1, <1>2 DEF QueueOK, EntriesHeld
<1>4. jobs' \in [Ids -> [entry : Entries, item : Items]]
  BY <1>1 DEF QueueOK, Entries
<1>5. \A i \in Ids : i # issued + 1 => jobs'[i] = jobs[i]
  BY <1>1 DEF QueueOK
<1>6. EntriesHeld'
  BY <1>1, <1>2, <1>5 DEF QueueOK, EntriesHeld, Ids
<1>7. jobs'[issued + 1].entry = "staging"
  BY <1>1 DEF QueueOK
<1>8. running' \subseteq {i \in Ids : jobs'[i].entry \in {"queued", "uncertain"}}
  BY <1>1, <1>3, <1>5 DEF QueueOK
<1> QED BY <1>1, <1>2, <1>4, <1>6, <1>8 DEF QueueOK

\* The entry of a listed job changes.
LEMMA EntryChanges ==
    ASSUME QueueOK, NEW i \in Ids, jobs[i].entry # "absent", NEW e \in Entries, Enter(i, e),
           issued' = issued, running' \in {running, running \ {i}}, cancelling' \subseteq running',
           i \in running' => e \in {"queued", "uncertain"},
           e = "uncertain" => i \in running'
    PROVE  QueueOK'
<1>1. /\ jobs' \in [Ids -> [entry : Entries, item : Items]] /\ jobs'[i].entry = e
      /\ \A k \in Ids \ {i} : jobs'[k] = jobs[k]
  BY EnterOK
<1>2. running' \subseteq {k \in Ids : jobs'[k].entry \in {"queued", "uncertain"}}
  BY <1>1 DEF QueueOK
<1>3. i <= issued
  BY SizesAssumption DEF QueueOK, EntriesHeld, Ids
<1>4. EntriesHeld'
  BY <1>1, <1>3, SizesAssumption DEF QueueOK, EntriesHeld, Ids
<1> QED BY <1>1, <1>2, <1>4 DEF QueueOK

LEMMA SealedOK ==
    ASSUME QueueOK, NEW i \in Ids, Sealed(i)
    PROVE  QueueOK'
<1>1. UNCHANGED <<issued, running, cancelling>> /\ jobs[i].entry = "staging"
  BY DEF Sealed
<1>2. PICK e \in Entries : Enter(i, e)
  BY DEF Sealed, Entries
<1>3. e # "uncertain" /\ i \notin running
  BY <1>1, <1>2, EnterOK DEF Sealed, QueueOK, Entries
<1> QED BY <1>1, <1>2, <1>3, EntryChanges DEF QueueOK

LEMMA CancelledOK ==
    ASSUME QueueOK, NEW i \in Ids, Cancelled(i)
    PROVE  QueueOK'
<1>1. CASE i \in running
  BY <1>1 DEF Cancelled, QueueOK, EntriesHeld
<1>2. CASE i \notin running
  <2>1. /\ Enter(i, "dropped") /\ UNCHANGED <<issued, running, cancelling>>
        /\ jobs[i].entry # "absent"
    BY <1>2 DEF Cancelled, Cancellable
  <2> QED BY <1>2, <2>1, EntryChanges DEF QueueOK, Entries
<1> QED BY <1>1, <1>2

LEMMA ClaimsTyped ==
    ASSUME PortOK, UNCHANGED claim \/ (\E S : Astray(S)) \/ (\E i \in Ids : Struck(i) \/ Withdrawn(i))
    PROVE  claim' \in [Ids -> Claims]
<1>1. ASSUME NEW i \in Ids, Withdrawn(i) PROVE claim' \in [Ids -> Claims]
  BY <1>1 DEF PortOK, Withdrawn, Claims
<1> QED BY <1>1 DEF PortOK, Astray, Struck, Claims

LEMMA LateTyped ==
    ASSUME PortOK, NEW op, NEW about, [op |-> op, about |-> about] \in Requests, Abandoned(op, about)
    PROVE  late' \in Seq(Requests)
BY DEF PortOK, Abandoned

-----------------------------------------------------------------------------
(* Held: one lemma per group of actions *)

LEMMA CountedOK ==
    ASSUME HostOK, batch.item \in Items, Counted
    PROVE  /\ batch'.stage = "check" /\ batch'.stopped = batch.stopped /\ batch'.fits = batch.fits
           /\ overrun' = overrun
           /\ batch' \in [stage : {"none", "check", "export", "import"}, item : 1..BatchSize + 1,
                          stopped : BOOLEAN, fits : BOOLEAN]
<1>1. batch.item + 1 \in 1..BatchSize + 1
  BY SizesAssumption DEF Items
<1> DEFINE next == batch.item + 1
<1>2. batch' = [batch EXCEPT !.stage = "check", !.item = next] /\ overrun' = overrun
  BY DEF Counted
<1>3. next \in 1..BatchSize + 1
  BY <1>1
<1> HIDE DEF next
<1> QED BY <1>2, <1>3 DEF HostOK

\* An import ends: the batch goes on with the next item, or stops without a job.
LEMMA ReturnsHeld ==
    ASSUME HostOK, ImportsHeld, OverrunEnds, NEW w \in Importers, import[w].stage # "none",
           NEW job \in Ids \cup {NoJob}, Returns(w, job),
           import[w].stage = "begin" => job = NoJob
    PROVE  HostOK' /\ ImportsHeld' /\ OverrunEnds'
<1>1. import' = [import EXCEPT ![w] = NoImport]
  BY DEF Returns
<1>2. NoImport \in [stage : {"none", "begin", "seal", "cancel"}, item : Items, job : Ids \cup {NoJob}]
  BY SizesAssumption DEF NoImport, Items
<1>3. /\ import' \in [Importers -> [stage : {"none", "begin", "seal", "cancel"},
                                    item : Items, job : Ids \cup {NoJob}]]
      /\ import'[w].stage = "none" /\ import'[w].job = NoJob
      /\ \A v \in Importers \ {w} : import'[v] = import[v]
  BY <1>1, <1>2 DEF HostOK, NoImport
<1>4. CASE w = "backup"
  <2>1. UNCHANGED <<batch, overrun>> /\ import'["batch"] = import["batch"]
    BY <1>3, <1>4 DEF Returns, Importers
  <2> QED BY <1>3, <2>1, <1>4 DEF HostOK, ImportsHeld, OverrunEnds, Reason, Importers
<1>5. CASE w = "batch" /\ job = NoJob
  <2>1. batch' = NoBatch /\ overrun' = 0
    BY <1>5 DEF Returns, BatchEnds
  <2> QED BY <1>3, <1>5, <2>1, SizesAssumption
          DEF HostOK, ImportsHeld, OverrunEnds, NoBatch, Importers
<1>6. CASE w = "batch" /\ job # NoJob
  <2>1. batch.stage = "import" /\ batch.item \in Items /\ Counted
    BY <1>6 DEF Returns, ImportsHeld
  <2> QED BY <1>3, <1>6, <2>1, CountedOK DEF HostOK, ImportsHeld, OverrunEnds, Reason, Importers
<1> QED BY <1>4, <1>5, <1>6 DEF Importers

LEMMA ImportsStepHeld ==
    ASSUME Held, NEW w \in Importers, Imports(w)
    PROVE  Held'
<1> USE HeldParts
<1>1. CASE Begins(w)
  <2> DEFINE new == issued + 1
  <2>1. /\ import[w].stage = "begin" /\ Staged(import[w].item)
        /\ import' = [import EXCEPT ![w].stage = "seal", ![w].job = issued + 1]
        /\ overrun' = IF w = "batch" /\ Reason THEN overrun + 1 ELSE overrun
        /\ UNCHANGED <<batch, late, claim>>
    BY <1>1 DEF Begins, Reason
  <2>2. QueueOK' /\ issued + 1 \in Ids
    BY <2>1, StagedOK DEF HostOK
  <2>3. /\ import' \in [Importers -> [stage : {"none", "begin", "seal", "cancel"},
                                      item : Items, job : Ids \cup {NoJob}]]
        /\ import'[w].stage = "seal" /\ import'[w].job # NoJob
        /\ \A v \in Importers \ {w} : import'[v] = import[v]
    <3>1. new \in Ids /\ new # NoJob /\ import' = [import EXCEPT ![w].stage = "seal", ![w].job = new]
      BY <2>1, <2>2 DEF Ids, NoJob
    <3> HIDE DEF new
    <3> QED BY <3>1 DEF HostOK
  <2>4. HostOK' /\ ImportsHeld'
    BY <2>1, <2>3 DEF HostOK, ImportsHeld, Importers
  <2>5. OverrunEnds'
    <3>1. CASE w = "batch"
      BY <2>1, <2>3, <3>1 DEF OverrunEnds, ImportsHeld, Importers, Reason
    <3>2. CASE w = "backup"
      BY <2>1, <2>3, <3>2 DEF OverrunEnds, Importers, Reason
    <3> QED BY <3>1, <3>2 DEF Importers
  <2> QED BY <2>1, <2>2, <2>4, <2>5, HeldPartsNext DEF PortOK
<1>2. CASE BeginFails(w)
  <2>1. Returns(w, NoJob) /\ UNCHANGED <<jobs, issued, running, cancelling, claim>>
    BY <1>2 DEF BeginFails, queueVars
  <2>2. [op |-> "begin", about |-> import[w].item] \in Requests
    BY DEF Requests, HostOK
  <2>3. PortOK'
    BY <1>2, <2>1, <2>2, LateTyped DEF BeginFails, PortOK
  <2>4. HostOK' /\ ImportsHeld' /\ OverrunEnds'
    BY <1>2, <2>1, ReturnsHeld DEF BeginFails
  <2>5. QueueOK'
    BY <2>1 DEF QueueOK, EntriesHeld
  <2> QED BY <2>3, <2>4, <2>5, HeldPartsNext
<1>3. CASE Seals(w)
  <2> DEFINE i == import[w].job
  <2>1. i \in Ids /\ Sealed(i) /\ late' = late
    BY <1>3 DEF Seals, HostOK, ImportsHeld
  <2>2. PICK job \in SealedAs(i) :
            Answers(i, job) /\ Returns(w, job)
    BY <1>3 DEF Seals
  <2>3. job \in Ids
    BY <2>1, <2>2 DEF SealedAs, Copies
  <2>4. PortOK'
    <3>1. \E c \in Claims : claim' = [claim EXCEPT ![job] = c]
      BY <2>2, <2>3 DEF Answers, PortOK, Claims
    <3> QED BY <2>1, <2>3, <3>1 DEF PortOK
  <2>5. HostOK' /\ ImportsHeld' /\ OverrunEnds'
    BY <1>3, <2>2, <2>3, ReturnsHeld DEF Seals
  <2>6. QueueOK'
    BY <2>1, SealedOK
  <2> QED BY <2>4, <2>5, <2>6, HeldPartsNext
<1>4. CASE Fails(w)
  <2>1. /\ import[w].stage = "seal" /\ import[w].job \in Ids
        /\ import' = [import EXCEPT ![w].stage = "cancel"]
        /\ UNCHANGED <<batch, jobs, issued, running, cancelling, claim, overrun>>
    BY <1>4 DEF Fails, queueVars, HostOK, ImportsHeld
  <2>2. [op |-> "seal", about |-> import[w].job] \in Requests
    BY <2>1 DEF Requests
  <2>3. PortOK'
    BY <1>4, <2>1, <2>2, LateTyped DEF Fails, PortOK
  <2>4. /\ import'[w].stage = "cancel" /\ import'[w].job = import[w].job
        /\ \A v \in Importers \ {w} : import'[v] = import[v]
    BY <2>1 DEF HostOK
  <2>5. HostOK' /\ ImportsHeld' /\ OverrunEnds'
    BY <2>1, <2>4 DEF HostOK, ImportsHeld, OverrunEnds, Reason, Importers
  <2>6. QueueOK'
    BY <2>1 DEF QueueOK, EntriesHeld
  <2> QED BY <2>3, <2>5, <2>6, HeldPartsNext
<1>5. CASE Cancels(w)
  <2> DEFINE i == import[w].job
  <2>1. i \in Ids /\ Cancelled(i) /\ Withdrawn(i) /\ late' = late /\ Returns(w, NoJob)
    BY <1>5 DEF Cancels, HostOK, ImportsHeld
  <2>2. PortOK'
    BY <2>1, ClaimsTyped DEF PortOK
  <2>3. HostOK' /\ ImportsHeld' /\ OverrunEnds'
    BY <1>5, <2>1, ReturnsHeld DEF Cancels
  <2>4. QueueOK'
    BY <2>1, CancelledOK
  <2> QED BY <2>2, <2>3, <2>4, HeldPartsNext
<1>6. CASE CancelFails(w)
  <2>1. Returns(w, NoJob) /\ UNCHANGED <<jobs, issued, running, cancelling>> /\ import[w].job \in Ids
    BY <1>6 DEF CancelFails, queueVars, HostOK, ImportsHeld
  <2>2. [op |-> "cancel", about |-> import[w].job] \in Requests
    BY <2>1 DEF Requests
  <2>3. PortOK'
    BY <1>6, <2>2, LateTyped, ClaimsTyped DEF CancelFails, PortOK
  <2>4. HostOK' /\ ImportsHeld' /\ OverrunEnds'
    BY <1>6, <2>1, ReturnsHeld DEF CancelFails
  <2>5. QueueOK'
    BY <2>1 DEF QueueOK, EntriesHeld
  <2> QED BY <2>3, <2>4, <2>5, HeldPartsNext
<1> QED BY <1>1, <1>2, <1>3, <1>4, <1>5, <1>6 DEF Imports

LEMMA BatchStepHeld ==
    ASSUME Held, BatchStarts \/ Checks \/ Exported \/ Stop \/ AccountChanges \/ HostDies
                 \/ \E x \in BackedUp : BackupImports(x)
    PROVE  Held'
<1> USE HeldParts
<1>1. UNCHANGED <<jobs, issued, running, cancelling, late>>
  BY DEF BatchStarts, Checks, Exported, Stop, AccountChanges, HostDies, BackupImports, queueVars
<1>2. QueueOK'
  BY <1>1 DEF QueueOK, EntriesHeld
<1>3. PortOK'
  <2>1. CASE HostDies
    BY <1>1, <2>1, ClaimsTyped DEF HostDies, PortOK
  <2>2. CASE ~HostDies
    BY <1>1, <2>2 DEF BatchStarts, Checks, Exported, Stop, AccountChanges, BackupImports, PortOK
  <2> QED BY <2>1, <2>2
<1> DEFINE Rest == HostOK' /\ ImportsHeld' /\ OverrunEnds'
<1> SUFFICES Rest
  BY <1>2, <1>3, HeldPartsNext
<1>4. ASSUME BatchEnds, UNCHANGED import, batch.stage # "import" PROVE Rest
  BY <1>4, SizesAssumption DEF BatchEnds, NoBatch, HostOK, ImportsHeld, OverrunEnds
<1>5. CASE BatchStarts
  <2>1. PICK f \in BOOLEAN : batch' = [NoBatch EXCEPT !.stage = "check", !.fits = f]
    BY <1>5 DEF BatchStarts
  <2>2. batch' = [stage |-> "check", item |-> 1, stopped |-> FALSE, fits |-> f]
    BY <2>1 DEF NoBatch
  <2>3. batch.stage = "none" /\ UNCHANGED <<import, overrun>>
    BY <1>5 DEF BatchStarts
  <2> QED BY <2>2, <2>3, SizesAssumption DEF HostOK, ImportsHeld, OverrunEnds
<1>6. CASE Checks
  <2>1. CASE BatchEnds
    BY <1>4, <1>6, <2>1 DEF Checks
  <2>2. CASE ~Reason /\ batch.item <= BatchSize /\ Reaches("export")
    BY <1>6, <2>2, SizesAssumption
    DEF Checks, Reaches, HostOK, ImportsHeld, OverrunEnds, Reason, Items
  <2> QED BY <1>6, <2>1, <2>2 DEF Checks
<1>7. CASE Exported
  <2>1. CASE BatchEnds /\ UNCHANGED import
    BY <1>4, <1>7, <2>1 DEF Exported
  <2>2. CASE Counted /\ UNCHANGED import
    BY <1>7, <2>2, CountedOK DEF Exported, HostOK, ImportsHeld, OverrunEnds
  <2>3. CASE /\ ~Reason /\ Reaches("import")
             /\ import' = [import EXCEPT !["batch"] = [NoImport EXCEPT !.stage = "begin", !.item = batch.item]]
    <3>1. batch.stage = "export" /\ batch.item \in Items /\ overrun = 0 /\ overrun' = 0
      BY <1>7, <2>3 DEF Exported, Reaches, ImportsHeld, OverrunEnds
    <3>2. /\ batch' \in [stage : {"none", "check", "export", "import"}, item : 1..BatchSize + 1,
                         stopped : BOOLEAN, fits : BOOLEAN]
          /\ batch'.stage = "import" /\ batch'.item = batch.item
      BY <2>3 DEF Reaches, HostOK
    <3>3. /\ import' \in [Importers -> [stage : {"none", "begin", "seal", "cancel"},
                                        item : Items, job : Ids \cup {NoJob}]]
          /\ import'["batch"].stage = "begin" /\ import'["batch"].job = NoJob
          /\ import'["backup"] = import["backup"]
      BY <2>3, <3>1 DEF HostOK, NoImport, Importers
    <3> QED BY <3>1, <3>2, <3>3 DEF HostOK, ImportsHeld, OverrunEnds, Importers
  <2> QED BY <1>7, <2>1, <2>2, <2>3 DEF Exported
<1>8. CASE Stop
  BY <1>8 DEF Stop, HostOK, ImportsHeld, OverrunEnds, Reason
<1>9. CASE AccountChanges
  BY <1>9 DEF AccountChanges, HostOK, ImportsHeld, OverrunEnds, Reason
<1>10. CASE HostDies
  <2>1. batch' = NoBatch /\ overrun' = 0 /\ import' = [w \in Importers |-> NoImport]
    BY <1>10 DEF HostDies
  <2> QED BY <2>1, SizesAssumption
          DEF NoBatch, NoImport, HostOK, ImportsHeld, OverrunEnds, Importers, Items
<1>11. ASSUME NEW x \in BackedUp, BackupImports(x) PROVE Rest
  BY <1>11, SizesAssumption
  DEF BackupImports, NoImport, HostOK, ImportsHeld, OverrunEnds, Reason, Importers, Items
<1> QED BY <1>5, <1>6, <1>7, <1>8, <1>9, <1>10, <1>11

LEMMA QueueStepHeld ==
    ASSUME Held, Queue
    PROVE  Held'
<1> USE HeldParts
<1>1. UNCHANGED <<batch, import, overrun>>
  BY DEF Queue, LateHandled, DaemonRestarts, Cleared, UploadStarts, UploadCommits, UploadEnds,
         Retried, UserCancels
<1>2. HostOK' /\ ImportsHeld' /\ OverrunEnds'
  BY <1>1 DEF HostOK, ImportsHeld, OverrunEnds, Reason
<1> SUFFICES QueueOK' /\ PortOK'
  BY <1>2, HeldPartsNext
<1>3. CASE LateHandled
  <2> DEFINE m == Head(late)
  <2>1. late # <<>> /\ m \in Requests /\ late' = Tail(late) /\ late' \in Seq(Requests)
    BY <1>3 DEF LateHandled, PortOK
  <2>2. UNCHANGED <<queueVars, claim>> => QueueOK' /\ PortOK'
    BY <2>1 DEF queueVars, QueueOK, EntriesHeld, PortOK
  <2>3. CASE m.op = "begin"
    <3>1. m.about \in Items
      BY <2>1, <2>3 DEF Requests
    <3>2. Staged(m.about) /\ Astray({issued + 1}) => QueueOK' /\ PortOK'
      BY <2>1, <3>1, StagedOK, ClaimsTyped DEF PortOK
    <3> QED BY <1>3, <2>2, <2>3, <3>2 DEF LateHandled
  <2>4. CASE m.op = "seal"
    <3>1. m.about \in Ids
      BY <2>1, <2>4 DEF Requests
    <3>2. Sealed(m.about) /\ UNCHANGED claim => QueueOK' /\ PortOK'
      BY <2>1, <3>1, SealedOK DEF PortOK
    <3> QED BY <1>3, <2>2, <2>4, <3>2 DEF LateHandled
  <2>5. CASE m.op = "cancel"
    <3>1. m.about \in Ids
      BY <2>1, <2>5 DEF Requests
    <3>2. Cancelled(m.about) /\ Withdrawn(m.about) => QueueOK' /\ PortOK'
      BY <2>1, <3>1, CancelledOK, ClaimsTyped DEF PortOK
    <3> QED BY <1>3, <2>2, <2>5, <3>2 DEF LateHandled
  <2> QED BY <2>1, <2>3, <2>4, <2>5 DEF Requests
<1>4. CASE DaemonRestarts
  <2>1. \A i \in Ids : /\ Recovered(i) \in Entries \ {"uncertain"}
                       /\ jobs[i].entry = "absent" => Recovered(i) = "absent"
    BY DEF Recovered, QueueOK, Entries
  <2>2. /\ jobs' = [i \in Ids |-> [jobs[i] EXCEPT !.entry = Recovered(i)]]
        /\ running' = {} /\ cancelling' = {} /\ issued' = issued
    BY <1>4 DEF DaemonRestarts
  <2> HIDE DEF Recovered
  <2>3. QueueOK'
    BY <2>1, <2>2 DEF QueueOK, EntriesHeld
  <2>4. PortOK'
    <3>1. claim' \in [Ids -> Claims]
      BY <1>4, ClaimsTyped DEF DaemonRestarts
    <3>2. late' = late \/ late' = <<>>
      BY <1>4 DEF DaemonRestarts
    <3>3. <<>> \in Seq(Requests)
      OBVIOUS
    <3>4. late \in Seq(Requests)
      BY DEF PortOK
    <3> QED BY <3>1, <3>2, <3>3, <3>4 DEF PortOK
  <2> QED BY <2>3, <2>4
<1>5. CASE Cleared
  <2>1. QueueOK'
    BY <1>5, SizesAssumption DEF Cleared, QueueOK, EntriesHeld, NotListed, Entries, Items
  <2>2. /\ \E S : claim' = [i \in Ids |-> IF i \in S THEN "import" ELSE claim[i]]
        /\ late' = late
    BY <1>5 DEF Cleared
  <2>3. PortOK'
    BY <2>2 DEF PortOK, Claims
  <2> QED BY <2>1, <2>3
<1>6. ASSUME NEW i \in Ids, UploadStarts(i) \/ UploadCommits(i) \/ UploadEnds(i) PROVE QueueOK' /\ PortOK'
  <2>1. PortOK'
    BY <1>6 DEF UploadStarts, UploadCommits, UploadEnds, PortOK
  <2> SUFFICES QueueOK'
    BY <2>1
  <2>3. CASE UploadStarts(i)
    BY <2>3 DEF UploadStarts, QueueOK, EntriesHeld
  <2>4. CASE UploadCommits(i)
    <3>1. /\ Enter(i, "uncertain") /\ i \in running /\ jobs[i].entry = "queued"
          /\ UNCHANGED <<issued, running, cancelling>>
      BY <2>4 DEF UploadCommits
    <3> QED BY <3>1, EntryChanges DEF QueueOK, Entries
  <2>5. CASE UploadEnds(i)
    <3>1. PICK e \in Entries \ {"uncertain"} : Enter(i, e)
      BY <2>5 DEF UploadEnds, Entries
    <3>2. /\ running' = running \ {i} /\ cancelling' = cancelling \ {i} /\ issued' = issued
          /\ jobs[i].entry # "absent"
      BY <2>5 DEF UploadEnds, QueueOK
    <3> QED BY <3>1, <3>2, EntryChanges DEF QueueOK
  <2> QED BY <1>6, <2>3, <2>4, <2>5
<1>7. ASSUME NEW i \in Ids, Retried(i) PROVE QueueOK' /\ PortOK'
  <2>1. /\ jobs[i].entry = "failed" /\ Enter(i, "queued") /\ UNCHANGED <<issued, running, cancelling>>
        /\ i \notin running
    BY <1>7 DEF Retried, QueueOK
  <2>2. QueueOK'
    BY <2>1, EntryChanges DEF QueueOK, Entries
  <2>3. PortOK'
    BY <1>7 DEF Retried, PortOK, Claims
  <2> QED BY <2>2, <2>3
<1>8. ASSUME NEW i \in Ids, UserCancels(i) PROVE QueueOK' /\ PortOK'
  <2>1. QueueOK'
    BY <1>8, CancelledOK DEF UserCancels
  <2>2. PortOK'
    BY <1>8, ClaimsTyped DEF UserCancels, PortOK
  <2> QED BY <2>1, <2>2
<1> QED BY <1>3, <1>4, <1>5, <1>6, <1>7, <1>8 DEF Queue

LEMMA HeldInductive ==
    /\ Init => Held
    /\ Held /\ [Next]_vars => Held'
<1>1. Init => Held
  BY SizesAssumption
  DEF Init, Held, ImportTypeOK, EntriesHeld, ImportsHeld, OverrunEnds, NoBatch, NoImport, NotListed,
      Importers, Items, Ids, NoJob, Entries, Claims
<1>2. Held /\ UNCHANGED vars => Held'
  BY DEF vars, queueVars, Held, ImportTypeOK, EntriesHeld, ImportsHeld, OverrunEnds, Reason
<1>3. Held /\ Next => Held'
  BY ImportsStepHeld, BatchStepHeld, QueueStepHeld DEF Next, Worker, Importers
<1> QED BY <1>1, <1>2, <1>3

-----------------------------------------------------------------------------
(* The port *)

LEMMA LateCancelsAre ==
    ASSUME late \in Seq(Requests)
    PROVE  \A i : i \in LateCancels <=>
                    \E n \in 1..Len(late) : late[n].op = "cancel" /\ late[n].about = i
BY DEF LateCancels

LEMMA LateCancelsNext ==
    ASSUME late' \in Seq(Requests)
    PROVE  \A i : i \in LateCancels' <=>
                    \E n \in 1..Len(late') : late'[n].op = "cancel" /\ late'[n].about = i
BY DEF LateCancels

\* An abandoned request is lost or waits in the port; nothing else changes there.
LEMMA AbandonedAdds ==
    ASSUME PortOK, PortOK', KnownRequests, UNCHANGED issued, issued \in Nat,
           NEW op, NEW about, op # "begin" => about <= issued, Abandoned(op, about)
    PROVE  /\ KnownRequests'
           /\ LateCancels \subseteq LateCancels'
           /\ op = "cancel" /\ late' # late => about \in LateCancels'
           /\ \A i \in LateCancels' : i \in LateCancels \/ (op = "cancel" /\ i = about)
<1>1. CASE late' = late
  BY <1>1 DEF KnownRequests, LateCancels
<1>2. CASE late' = Append(late, [op |-> op, about |-> about])
  <2>1. /\ Len(late') = Len(late) + 1 /\ Len(late) \in Nat
        /\ \A n \in 1..Len(late) : late'[n] = late[n]
        /\ late'[Len(late) + 1] = [op |-> op, about |-> about]
    BY <1>2 DEF PortOK
  <2>2. KnownRequests'
    BY <2>1 DEF KnownRequests, PortOK
  <2>3. LateCancels \subseteq LateCancels'
    BY <2>1, LateCancelsAre, LateCancelsNext DEF PortOK
  <2>4. op = "cancel" => about \in LateCancels'
    BY <2>1, LateCancelsNext DEF PortOK
  <2>5. \A i \in LateCancels' : i \in LateCancels \/ (op = "cancel" /\ i = about)
    BY <2>1, LateCancelsAre, LateCancelsNext DEF PortOK
  <2> QED BY <2>2, <2>3, <2>4, <2>5
<1> QED BY <1>1, <1>2 DEF Abandoned

\* The daemon takes the first request out of the port.
LEMMA TakenLeaves ==
    ASSUME PortOK, PortOK', KnownRequests, issued \in Nat, issued' \in Nat, issued' >= issued,
           late # <<>>, late' = Tail(late)
    PROVE  /\ KnownRequests'
           /\ Head(late).op # "begin" => Head(late).about <= issued
           /\ \A i \in LateCancels : i \in LateCancels' \/ (Head(late).op = "cancel" /\ Head(late).about = i)
           /\ LateCancels' \subseteq LateCancels
<1>1. /\ Len(late) \in Nat \ {0} /\ Len(late') = Len(late) - 1 /\ Head(late) = late[1]
      /\ \A n \in 1..Len(late') : late'[n] = late[n + 1]
      /\ DOMAIN late = 1..Len(late) /\ DOMAIN late' = 1..Len(late')
  BY DEF PortOK
<1>2. \A n \in DOMAIN late : late[n].op # "begin" => late[n].about \in Nat
  BY DEF PortOK, Requests, Ids
<1>3. KnownRequests'
  BY <1>1, <1>2 DEF KnownRequests
<1>4. ASSUME NEW n \in 1..Len(late), late[n].op = "cancel", n # 1 PROVE late[n].about \in LateCancels'
  <2>1. n - 1 \in 1..Len(late') /\ late'[n - 1] = late[n]
    BY <1>1, <1>4
  <2> QED BY <1>4, <2>1, LateCancelsNext DEF PortOK
<1>5. LateCancels' \subseteq LateCancels
  <2>1. ASSUME NEW n \in 1..Len(late'), late'[n].op = "cancel" PROVE late'[n].about \in LateCancels
    <3>1. n + 1 \in 1..Len(late) /\ late[n + 1] = late'[n]
      BY <1>1
    <3> QED BY <2>1, <3>1, LateCancelsAre DEF PortOK
  <2> QED BY <2>1, LateCancelsNext DEF PortOK
<1> QED BY <1>1, <1>3, <1>4, <1>5, LateCancelsAre DEF PortOK, KnownRequests

-----------------------------------------------------------------------------
(* Answerable *)

\* An import ends without changing its job, whose cancel nobody sends any more, or
\* Google Photos dies with both (S: the jobs nobody cancels).
LEMMA NobodyLeft ==
    ASSUME Held, Held', Answerable, UNCHANGED queueVars, KnownRequests', NEW S, Astray(S),
           S \subseteq {k \in Nat : k <= issued},
           LateCancels \subseteq LateCancels',
           \A v \in Importers : \/ import'[v].job = import[v].job
                                \/ /\ import'[v].job = NoJob
                                   /\ import[v].job \in S \cup LateCancels' \cup {NoJob}
    PROVE  Answerable'
<1> USE HeldParts, HeldPartsNext DEF queueVars
<1>1. \A i \in Ids : claim'[i] = IF i \in S /\ claim[i] = "import" THEN "astray" ELSE claim[i]
  BY DEF Astray
<1>2. JobsKnown'
  <2>1. \A v \in Importers : import'[v].job <= issued'
    <3>1. 0 <= issued
      BY DEF QueueOK
    <3> QED BY <3>1 DEF JobsKnown, Answerable, NoJob
  <2>2. \A i \in Ids : i > issued => claim'[i] = "import"
    BY <1>1, SizesAssumption DEF JobsKnown, Answerable, QueueOK, Ids
  <2> QED BY <2>1, <2>2 DEF JobsKnown
<1>3. CancelsStrike'
  BY <1>1 DEF CancelsStrike, Answerable, PortOK, Claims
<1>4. AnswersKept'
  BY <1>1 DEF AnswersKept, Answerable
<1>5. FailedImportsEnd'
  <2> SUFFICES ASSUME NEW i \in Ids, jobs[i].entry \in {"staging", "queued"},
                      i \notin cancelling, i \notin LateCancels',
                      \A v \in Importers : import'[v].job # i
               PROVE  claim'[i] \notin {"import", "struck"}
    BY DEF FailedImportsEnd
  <2>1. claim[i] # "struck"
    BY DEF Answerable, CancelsStrike
  <2>2. CASE \A v \in Importers : import[v].job # i
    BY <1>1, <2>2 DEF Answerable, FailedImportsEnd
  <2>3. CASE i \in S
    BY <1>1, <2>1, <2>3 DEF PortOK, Claims
  <2> QED BY <2>2, <2>3 DEF Ids, NoJob
<1> QED BY <1>2, <1>3, <1>4, <1>5 DEF Answerable

\* A cancel takes effect: from the import, from the settings, or late.
LEMMA CancelStrikes ==
    ASSUME Held, Held', Answerable, KnownRequests', NEW i \in Ids, Cancelled(i), Struck(i),
           LateCancels \subseteq LateCancels' \cup {i},
           \A v \in Importers : import'[v].job = import[v].job
                               \/ (import'[v].job = NoJob /\ import[v].job = i)
    PROVE  Answerable'
<1> USE HeldParts, HeldPartsNext
<1>1. claim'[i] = "struck" /\ \A k \in Ids \ {i} : claim'[k] = claim[k]
  BY DEF Struck, PortOK
<1>2. UNCHANGED <<issued, running>> /\ issued \in Nat
  BY DEF Cancelled, QueueOK
<1>3. /\ \A k \in Ids \ {i} : jobs'[k] = jobs[k] /\ (k \in cancelling' <=> k \in cancelling)
      /\ i \in cancelling' \/ jobs'[i].entry = "dropped"
  <2>1. CASE i \in running
    BY <2>1 DEF Cancelled
  <2>2. CASE i \notin running
    BY <2>2, EnterOK DEF Cancelled, Entries
  <2> QED BY <2>1, <2>2
<1>4. JobsKnown'
  <2>1. i <= issued
    BY <1>2, SizesAssumption DEF Cancelled, Cancellable, QueueOK, EntriesHeld, Ids
  <2> QED BY <1>1, <1>2, <2>1, SizesAssumption DEF Answerable, JobsKnown, NoJob, Ids
<1>5. CancelsStrike'
  BY <1>1, <1>3 DEF Answerable, CancelsStrike
<1>6. AnswersKept'
  BY <1>1, <1>3 DEF Answerable, AnswersKept
<1>7. FailedImportsEnd'
  <2> SUFFICES ASSUME NEW k \in Ids, jobs'[k].entry \in {"staging", "queued"},
                      k \notin cancelling', k \notin LateCancels',
                      \A v \in Importers : import'[v].job # k
               PROVE  claim'[k] \notin {"import", "struck"}
    BY DEF FailedImportsEnd
  <2>1. k # i
    BY <1>3
  <2> QED BY <1>1, <1>3, <2>1 DEF Answerable, FailedImportsEnd
<1> QED BY <1>4, <1>5, <1>6, <1>7 DEF Answerable

LEMMA WithdrawnIsStruck ==
    ASSUME PortOK, NEW i \in Ids, claim[i] # "answered", Withdrawn(i)
    PROVE  Struck(i)
BY DEF PortOK, Withdrawn, Struck

LEMMA ImportsStepAnswerable ==
    ASSUME Held, Held', Answerable, NoCancelDue, NEW w \in Importers, Imports(w)
    PROVE  Answerable'
<1> USE HeldParts, HeldPartsNext
<1>1. issued \in Nat /\ KnownRequests
  BY DEF QueueOK, Answerable, JobsKnown
<1>2. ASSUME NEW job, Returns(w, job)
      PROVE  import'[w].job = NoJob /\ \A v \in Importers \ {w} : import'[v] = import[v]
  BY <1>2 DEF Returns, NoImport, HostOK
<1>3. CASE BeginFails(w)
  <2>1. import[w].job = NoJob /\ UNCHANGED <<queueVars, claim>> /\ UNCHANGED issued
    BY <1>3 DEF BeginFails, ImportsHeld, queueVars
  <2>2. LateCancels \subseteq LateCancels' /\ KnownRequests'
    BY <1>1, <1>3, <2>1, AbandonedAdds DEF BeginFails
  <2>3. Astray({})
    BY <2>1 DEF Astray, PortOK
  <2> QED BY <1>2, <1>3, <2>1, <2>2, <2>3, NobodyLeft DEF BeginFails
<1>4. CASE Fails(w)
  <2>1. /\ UNCHANGED <<queueVars, claim>> /\ UNCHANGED issued
        /\ \A v \in Importers : import'[v].job = import[v].job
    BY <1>4 DEF Fails, HostOK, queueVars
  <2>2. LateCancels \subseteq LateCancels' /\ KnownRequests'
    BY <1>1, <1>4, <2>1, AbandonedAdds DEF Fails, Answerable, JobsKnown
  <2>3. Astray({})
    BY <2>1 DEF Astray, PortOK
  <2> QED BY <2>1, <2>2, <2>3, NobodyLeft
<1>5. CASE CancelFails(w)
  <2>1. /\ import[w].job \in Nat /\ import[w].job <= issued
        /\ UNCHANGED queueVars /\ UNCHANGED issued
    BY <1>5, SizesAssumption DEF CancelFails, queueVars, Answerable, JobsKnown, HostOK, Ids, NoJob
  <2>2. /\ LateCancels \subseteq LateCancels' /\ KnownRequests'
        /\ late' # late => import[w].job \in LateCancels'
    BY <1>1, <1>5, <2>1, AbandonedAdds DEF CancelFails
  <2> DEFINE S == IF late' = late THEN {import[w].job} ELSE {}
  <2>3. Astray(S) /\ S \subseteq {k \in Nat : k <= issued}
    BY <1>5, <2>1 DEF CancelFails
  <2>4. import'[w].job = NoJob /\ import[w].job \in S \cup LateCancels'
    BY <1>2, <1>5, <2>2 DEF CancelFails
  <2> HIDE DEF S
  <2> QED BY <1>2, <1>5, <2>1, <2>2, <2>3, <2>4, NobodyLeft DEF CancelFails
<1>6. CASE Begins(w)
  <2> DEFINE new == issued + 1
  <2>1. /\ import[w].job = NoJob /\ Staged(import[w].item) /\ import[w].item \in Items
        /\ import' = [import EXCEPT ![w].stage = "seal", ![w].job = new]
        /\ UNCHANGED <<late, claim>>
    BY <1>6 DEF Begins, ImportsHeld, HostOK
  <2>2. new \in Ids /\ issued' = new /\ UNCHANGED <<running, cancelling>> /\ new > issued /\ issued \in Nat
    BY <2>1, StagedOK DEF Staged, QueueOK
  <2>3. /\ jobs'[new].entry = "staging" /\ \A i \in Ids \ {new} : jobs'[i] = jobs[i]
        /\ new \notin cancelling /\ claim[new] = "import"
    BY <2>1, <2>2 DEF Staged, QueueOK, EntriesHeld, Answerable, JobsKnown
  <2> HIDE DEF new
  <2>4. import'[w].job = new /\ \A v \in Importers \ {w} : import'[v] = import[v]
    BY <2>1 DEF HostOK
  <2>5. JobsKnown'
    <3>1. KnownRequests'
      BY <1>1, <2>1, <2>2 DEF KnownRequests, PortOK, Requests, Ids
    <3>2. \A v \in Importers : import'[v].job <= issued'
      BY <2>2, <2>4, SizesAssumption DEF Answerable, JobsKnown, HostOK, Ids, NoJob
    <3>3. \A i \in Ids : i > new => claim'[i] = "import"
      BY <2>1, <2>2, SizesAssumption DEF Answerable, JobsKnown, Ids
    <3> QED BY <2>2, <3>1, <3>2, <3>3 DEF JobsKnown
  <2>6. CancelsStrike'
    BY <2>1, <2>2, <2>3 DEF Answerable, CancelsStrike
  <2>7. AnswersKept'
    BY <2>1, <2>3 DEF Answerable, AnswersKept
  <2>8. FailedImportsEnd'
    <3> SUFFICES ASSUME NEW k \in Ids, jobs'[k].entry \in {"staging", "queued"},
                        k \notin cancelling, k \notin LateCancels,
                        \A v \in Importers : import'[v].job # k
                 PROVE  claim[k] \notin {"import", "struck"}
      BY <2>1, <2>2 DEF FailedImportsEnd, LateCancels
    <3>1. k # new /\ k # NoJob
      BY <2>4, SizesAssumption DEF NoJob, Ids
    <3>2. \A v \in Importers : import[v].job # k
      BY <2>1, <2>4, <3>1
    <3> QED BY <2>3, <3>1, <3>2 DEF Answerable, FailedImportsEnd
  <2> QED BY <2>5, <2>6, <2>7, <2>8 DEF Answerable
<1>7. CASE Seals(w)
  <2> DEFINE i == import[w].job
  <2>1. i \in Ids /\ Sealed(i) /\ late' = late
    BY <1>7 DEF Seals, HostOK, ImportsHeld
  <2>2. PICK job \in SealedAs(i) :
            Answers(i, job) /\ Returns(w, job)
    BY <1>7 DEF Seals
  <2>3. job \in Ids
    BY <2>1, <2>2 DEF SealedAs, Copies
  <2>4. /\ jobs[i].entry = "staging" /\ UNCHANGED <<issued, running, cancelling>>
        /\ jobs'[i].entry \in {"queued", "dropped"}
        /\ \A k \in Ids \ {i} : jobs'[k] = jobs[k]
    BY <2>1, EnterOK DEF Sealed, Entries
  <2>6. i \notin cancelling /\ claim[i] # "struck"
    BY <2>1, <2>4 DEF QueueOK, Answerable, CancelsStrike
  <2>5. /\ claim'[job] \in {"struck", "shared", "answered"}
        /\ claim[job] = "struck" <=> claim'[job] = "struck"
        /\ \A k \in Ids \ {job} : claim'[k] = claim[k]
    BY <2>2, <2>3, <2>6 DEF PortOK, Answers
  <2>7. \/ job = i /\ jobs'[i].entry = "queued"
        \/ job # i /\ jobs'[i].entry = "dropped" /\ jobs[job].entry \notin {"absent", "staging", "dropped"}
    <3>1. CASE Copies(i) = {}
      BY <2>1, <2>2, <3>1, EnterOK DEF Sealed, SealedAs, Entries
    <3>2. CASE Copies(i) # {}
      <4>1. job \in Copies(i) /\ jobs'[i].entry = "dropped"
        BY <2>1, <2>2, <3>2, EnterOK DEF Sealed, SealedAs, Entries
      <4> QED BY <4>1 DEF Copies
    <3> QED BY <3>1, <3>2
  <2>8. import'[w].job = NoJob /\ \A v \in Importers \ {w} : import'[v] = import[v]
    BY <1>2, <2>2
  <2> HIDE DEF i
  <2>9. JobsKnown'
    <3>1. KnownRequests'
      BY <1>1, <2>1, <2>4 DEF KnownRequests
    <3>2. \A v \in Importers : import'[v].job <= issued'
      BY <1>1, <2>4, <2>8 DEF Answerable, JobsKnown, NoJob
    <3>3. job <= issued
      BY <2>1, <2>3, <2>4, <2>7, <1>1, SizesAssumption DEF QueueOK, EntriesHeld, Ids
    <3> QED BY <1>1, <2>3, <2>4, <2>5, <3>1, <3>2, <3>3, SizesAssumption DEF Answerable, JobsKnown, Ids
  <2>10. CancelsStrike'
    BY <2>1, <2>3, <2>4, <2>5, <2>6 DEF Answerable, CancelsStrike
  <2>11. AnswersKept'
    BY <2>1, <2>3, <2>4, <2>5, <2>6, <2>7 DEF Answerable, AnswersKept
  <2>12. FailedImportsEnd'
    <3> SUFFICES ASSUME NEW k \in Ids, jobs'[k].entry \in {"staging", "queued"},
                        k \notin cancelling, k \notin LateCancels,
                        \A v \in Importers : import'[v].job # k
                 PROVE  claim'[k] \notin {"import", "struck"}
      BY <2>1, <2>4 DEF FailedImportsEnd, LateCancels
    <3>1. CASE k = i
      BY <2>1, <2>5, <2>6, <2>7, <3>1
    <3>2. CASE k # i
      <4>1. claim[k] \notin {"import", "struck"}
        BY <2>4, <2>8, <3>2 DEF Answerable, FailedImportsEnd, i
      <4> QED BY <2>3, <2>5, <4>1
    <3> QED BY <3>1, <3>2
  <2> QED BY <2>9, <2>10, <2>11, <2>12 DEF Answerable
<1>8. CASE Cancels(w)
  <2>1. /\ import[w].job \in Ids /\ Cancelled(import[w].job) /\ Struck(import[w].job)
        /\ UNCHANGED late
    BY <1>8, WithdrawnIsStruck DEF Cancels, HostOK, ImportsHeld, NoCancelDue
  <2>2. \A v \in Importers : import'[v].job = import[v].job
                            \/ (import'[v].job = NoJob /\ import[v].job = import[w].job)
    BY <1>2, <1>8 DEF Cancels
  <2>3. KnownRequests' /\ LateCancels' = LateCancels
    BY <1>1, <2>1 DEF KnownRequests, LateCancels, Cancelled
  <2> QED BY <2>1, <2>2, <2>3, CancelStrikes
<1> QED BY <1>3, <1>4, <1>5, <1>6, <1>7, <1>8 DEF Imports

LEMMA BatchStepAnswerable ==
    ASSUME Held, Held', Answerable,
           BatchStarts \/ Checks \/ Exported \/ Stop \/ AccountChanges \/ HostDies
                 \/ \E x \in BackedUp : BackupImports(x)
    PROVE  Answerable'
<1> USE HeldParts, HeldPartsNext
<1>1. UNCHANGED queueVars /\ UNCHANGED <<jobs, issued, running, cancelling, late>>
  BY DEF BatchStarts, Checks, Exported, Stop, AccountChanges, HostDies, BackupImports, queueVars
<1>2. KnownRequests' /\ LateCancels' = LateCancels
  BY <1>1 DEF KnownRequests, LateCancels, Answerable, JobsKnown
<1>3. CASE HostDies
  <2> DEFINE S == {import[w].job : w \in Importers}
  <2>1. Astray(S) /\ \A w \in Importers : import'[w].job = NoJob
    BY <1>3 DEF HostDies, NoImport
  <2>2. S \subseteq {k \in Nat : k <= issued}
    BY SizesAssumption DEF Answerable, JobsKnown, HostOK, Ids, NoJob
  <2>3. \A w \in Importers : import[w].job \in S
    OBVIOUS
  <2> HIDE DEF S
  <2> QED BY <1>1, <1>2, <2>1, <2>2, <2>3, NobodyLeft
<1>4. CASE ~HostDies
  <2>1. UNCHANGED claim
    BY <1>4 DEF BatchStarts, Checks, Exported, Stop, AccountChanges, BackupImports
  <2>2. Astray({})
    BY <2>1 DEF Astray, PortOK
  <2>3. \A w \in Importers : import'[w].job = import[w].job
    <3>1. CASE BatchStarts \/ Checks \/ Stop \/ AccountChanges
      BY <3>1 DEF BatchStarts, Checks, Stop, AccountChanges
    <3>2. CASE Exported
      <4>1. import["batch"].job = NoJob
        BY <3>2 DEF Exported, ImportsHeld, Importers
      <4>2. CASE UNCHANGED import
        BY <4>2
      <4>3. CASE import' = [import EXCEPT !["batch"] = [NoImport EXCEPT !.stage = "begin", !.item = batch.item]]
        BY <4>1, <4>3 DEF HostOK, NoImport, Importers
      <4> QED BY <3>2, <4>2, <4>3 DEF Exported
    <3>3. CASE \E x \in BackedUp : BackupImports(x)
      <4>1. import["backup"].job = NoJob
        BY <3>3 DEF BackupImports, ImportsHeld, Importers
      <4>2. PICK x \in BackedUp :
                import' = [import EXCEPT !["backup"] = [NoImport EXCEPT !.stage = "begin", !.item = x]]
        BY <3>3 DEF BackupImports
      <4> QED BY <4>1, <4>2 DEF HostOK, NoImport, Importers
    <3> QED BY <1>4, <3>1, <3>2, <3>3
  <2> QED BY <1>1, <1>2, <2>2, <2>3, NobodyLeft
<1> QED BY <1>3, <1>4

\* Steps of the queue that leave the port and the claims alone.
LEMMA UploadsAnswerable ==
    ASSUME Held, Held', Answerable, NEW i \in Ids,
           UploadStarts(i) \/ UploadCommits(i) \/ UploadEnds(i)
    PROVE  Answerable'
<1> USE HeldParts, HeldPartsNext
<1>1. UNCHANGED <<import, late, issued, claim>> /\ JobsKnown'
  BY DEF UploadStarts, UploadCommits, UploadEnds, Answerable, JobsKnown, KnownRequests
<1>2. LateCancels' = LateCancels
  BY <1>1 DEF LateCancels
<1>3. CASE UploadStarts(i)
  BY <1>1, <1>2, <1>3
  DEF UploadStarts, Answerable, CancelsStrike, AnswersKept, FailedImportsEnd
<1>4. CASE UploadCommits(i)
  <2>1. /\ jobs[i].entry = "queued" /\ jobs'[i].entry = "uncertain" /\ UNCHANGED cancelling
        /\ \A k \in Ids \ {i} : jobs'[k] = jobs[k]
    BY <1>4, EnterOK DEF UploadCommits, Entries
  <2> QED BY <1>1, <1>2, <2>1 DEF Answerable, CancelsStrike, AnswersKept, FailedImportsEnd
<1>5. CASE UploadEnds(i)
  <2>1. PICK e \in Entries :
            /\ Enter(i, e)
            /\ e \in {"done", "failed"} \/ (jobs[i].entry # "uncertain" /\ e = "dropped" /\ i \in cancelling)
                                       \/ (jobs[i].entry # "uncertain" /\ e = "queued" /\ i \notin cancelling)
    BY <1>5 DEF UploadEnds, Entries
  <2>2. jobs'[i].entry = e /\ \A k \in Ids \ {i} : jobs'[k] = jobs[k]
    BY <2>1, EnterOK
  <2>3. cancelling' = cancelling \ {i} /\ jobs[i].entry \in {"queued", "uncertain"}
    BY <1>5 DEF UploadEnds, QueueOK
  <2>4. CancelsStrike'
    BY <1>1, <2>1, <2>2, <2>3 DEF Answerable, CancelsStrike
  <2>5. AnswersKept'
    BY <1>1, <2>1, <2>2, <2>3 DEF Answerable, AnswersKept, CancelsStrike
  <2>6. FailedImportsEnd'
    BY <1>1, <1>2, <2>1, <2>2, <2>3 DEF Answerable, FailedImportsEnd
  <2> QED BY <1>1, <2>4, <2>5, <2>6 DEF Answerable
<1> QED BY <1>3, <1>4, <1>5

\* What the daemon makes of a request whose client has given up.
LEMMA LateAnswerable ==
    ASSUME Held, Held', Answerable, NoCancelDue, LateHandled
    PROVE  Answerable'
<1> USE HeldParts, HeldPartsNext
<1> DEFINE m == Head(late)
<1>1. late # <<>> /\ late' = Tail(late) /\ m \in Requests /\ UNCHANGED import
  BY DEF LateHandled, PortOK
<1>2. issued \in Nat /\ issued' \in Nat /\ KnownRequests
  BY DEF QueueOK, Answerable, JobsKnown
<1>3. issued' >= issued
  <2>1. \/ issued' = issued + 1 \/ issued' = issued
    BY <1>1 DEF LateHandled, Staged, Sealed, Cancelled, queueVars, Requests
  <2> QED BY <1>2, <2>1
<1>4. /\ KnownRequests' /\ (m.op # "begin" => m.about <= issued)
      /\ \A i \in LateCancels : i \in LateCancels' \/ (m.op = "cancel" /\ m.about = i)
  BY <1>1, <1>2, <1>3, TakenLeaves
<1>5. ASSUME UNCHANGED <<queueVars, claim>>, LateCancels \subseteq LateCancels' PROVE Answerable'
  <2>1. Astray({})
    BY <1>5 DEF Astray, PortOK
  <2> QED BY <1>1, <1>4, <1>5, <2>1, NobodyLeft
<1>6. CASE m.op = "begin"
  <2>1. CASE UNCHANGED <<queueVars, claim>>
    BY <1>4, <1>5, <1>6, <2>1
  <2>2. CASE Staged(m.about) /\ Astray({issued + 1})
    <3> DEFINE new == issued + 1
    <3>1. /\ new \in Ids /\ issued' = new /\ UNCHANGED <<running, cancelling>> /\ new > issued
          /\ jobs'[new].entry = "staging" /\ \A i \in Ids \ {new} : jobs'[i] = jobs[i]
          /\ claim[new] = "import"
      BY <1>2, <2>2 DEF Staged, QueueOK, Answerable, JobsKnown
    <3>2. claim'[new] = "astray" /\ \A i \in Ids \ {new} : claim'[i] = claim[i]
      BY <2>2, <3>1 DEF Astray
    <3>3. new \notin cancelling
      BY <3>1 DEF QueueOK, EntriesHeld
    <3> HIDE DEF new
    <3>4. JobsKnown'
      <4>1. \A v \in Importers : import'[v].job <= issued'
        BY <1>1, <1>2, <3>1, SizesAssumption DEF Answerable, JobsKnown, HostOK, Ids, NoJob
      <4>2. \A i \in Ids : i > new => claim'[i] = "import"
        BY <1>2, <3>1, <3>2, SizesAssumption DEF Answerable, JobsKnown, Ids
      <4> QED BY <1>4, <3>1, <4>1, <4>2 DEF JobsKnown
    <3>5. CancelsStrike'
      BY <3>1, <3>2, <3>3 DEF Answerable, CancelsStrike
    <3>6. AnswersKept'
      BY <3>1, <3>2 DEF Answerable, AnswersKept
    <3>7. FailedImportsEnd'
      BY <1>1, <1>4, <1>6, <3>1, <3>2 DEF Answerable, FailedImportsEnd
    <3> QED BY <3>4, <3>5, <3>6, <3>7 DEF Answerable
  <2> QED BY <1>6, <2>1, <2>2 DEF LateHandled
<1>7. CASE m.op = "seal"
  <2>1. CASE UNCHANGED <<queueVars, claim>>
    BY <1>4, <1>5, <1>7, <2>1
  <2>2. CASE Sealed(m.about) /\ UNCHANGED claim
    <3> DEFINE i == m.about
    <3>1. i \in Ids
      BY <1>1, <1>7 DEF Requests
    <3>2. /\ jobs[i].entry = "staging" /\ UNCHANGED <<issued, running, cancelling, claim>>
          /\ jobs'[i].entry \in {"queued", "dropped"}
          /\ \A k \in Ids \ {i} : jobs'[k] = jobs[k]
      BY <2>2, <3>1, EnterOK DEF Sealed, Entries
    <3> HIDE DEF i
    <3>3. claim[i] \notin {"struck", "answered"}
      BY <3>1, <3>2 DEF QueueOK, Answerable, CancelsStrike, AnswersKept
    <3>4. JobsKnown'
      BY <1>1, <1>4, <3>2 DEF Answerable, JobsKnown
    <3>5. CancelsStrike' /\ AnswersKept'
      BY <3>1, <3>2, <3>3 DEF Answerable, CancelsStrike, AnswersKept
    <3>6. FailedImportsEnd'
      BY <1>1, <1>4, <1>7, <3>1, <3>2 DEF Answerable, FailedImportsEnd
    <3> QED BY <3>4, <3>5, <3>6 DEF Answerable
  <2> QED BY <1>7, <2>1, <2>2 DEF LateHandled
<1>8. CASE m.op = "cancel"
  <2>1. m.about \in Ids
    BY <1>1, <1>8 DEF Requests
  <2>2. CASE Cancelled(m.about) /\ Withdrawn(m.about)
    <3>1. m.about \in LateCancels
      BY <1>1, <1>8, LateCancelsAre DEF PortOK
    <3>2. Struck(m.about)
      BY <2>1, <2>2, <3>1, WithdrawnIsStruck DEF NoCancelDue
    <3> QED BY <1>1, <1>4, <2>1, <2>2, <3>2, CancelStrikes
  <2>3. CASE ~Cancellable(m.about) /\ UNCHANGED <<queueVars, claim>>
    <3>1. UNCHANGED <<jobs, issued, running, cancelling, claim>>
      BY <2>3 DEF queueVars
    <3>2. JobsKnown' /\ CancelsStrike' /\ AnswersKept'
      BY <1>1, <1>4, <3>1 DEF Answerable, JobsKnown, CancelsStrike, AnswersKept
    <3>3. FailedImportsEnd'
      BY <1>1, <1>4, <2>3, <3>1 DEF Answerable, FailedImportsEnd, Cancellable
    <3> QED BY <3>2, <3>3 DEF Answerable
  <2> QED BY <1>8, <2>2, <2>3 DEF LateHandled
<1> QED BY <1>1, <1>6, <1>7, <1>8 DEF Requests

\* The daemon starts again, the user clears the list, retries or cancels.
LEMMA QueueStepAnswerable ==
    ASSUME Held, Held', Answerable, NoCancelDue, Queue
    PROVE  Answerable'
<1> USE HeldParts, HeldPartsNext
<1>1. CASE LateHandled
  BY <1>1, LateAnswerable
<1>2. CASE \E i \in Ids : UploadStarts(i) \/ UploadCommits(i) \/ UploadEnds(i)
  BY <1>2, UploadsAnswerable
<1>3. CASE \E i \in Ids : UserCancels(i)
  <2>1. PICK i \in Ids : UserCancels(i)
    BY <1>3
  <2>2. Cancelled(i) /\ Struck(i) /\ UNCHANGED <<import, late>> /\ issued' = issued
    BY <2>1 DEF UserCancels, Cancelled
  <2>3. KnownRequests' /\ LateCancels' = LateCancels
    BY <2>2 DEF KnownRequests, LateCancels, Answerable, JobsKnown
  <2> QED BY <2>2, <2>3, CancelStrikes
<1>4. CASE \E i \in Ids : Retried(i)
  <2>1. PICK i \in Ids : Retried(i)
    BY <1>4
  <2>2. /\ jobs[i].entry = "failed" /\ jobs'[i].entry = "queued"
        /\ \A k \in Ids \ {i} : jobs'[k] = jobs[k]
    BY <2>1, EnterOK DEF Retried, Entries
  <2>3. /\ claim'[i] \in {"answered", "shared", "astray"} /\ (claim'[i] = "answered" => claim[i] = "answered")
        /\ \A k \in Ids \ {i} : claim'[k] = claim[k]
        /\ UNCHANGED <<import, late, issued, running, cancelling>>
    BY <2>1 DEF Retried, PortOK
  <2>4. i <= issued /\ i \notin cancelling /\ LateCancels' = LateCancels
    BY <2>2, <2>3, SizesAssumption DEF QueueOK, EntriesHeld, LateCancels, Ids
  <2>5. JobsKnown'
    BY <2>3, <2>4, SizesAssumption DEF Answerable, JobsKnown, KnownRequests, QueueOK, Ids
  <2>6. CancelsStrike' /\ AnswersKept'
    BY <2>2, <2>3, <2>4 DEF Answerable, CancelsStrike, AnswersKept
  <2>7. FailedImportsEnd'
    BY <2>2, <2>3, <2>4 DEF Answerable, FailedImportsEnd
  <2> QED BY <2>5, <2>6, <2>7 DEF Answerable
<1>5. CASE Cleared
  <2> DEFINE ended == {i \in Ids : jobs[i].entry \in {"done", "dropped"}}
  <2>1. /\ \A i \in Ids : jobs'[i] = IF i \in ended THEN NotListed ELSE jobs[i]
        /\ \A i \in Ids : claim'[i] = IF i \in ended THEN "import" ELSE claim[i]
        /\ UNCHANGED <<import, late, issued, cancelling>>
    BY <1>5 DEF Cleared
  <2>2. LateCancels' = LateCancels /\ \A i \in ended : i \notin cancelling
    BY <2>1 DEF LateCancels, QueueOK
  <2>3. JobsKnown'
    BY <2>1 DEF Answerable, JobsKnown, KnownRequests
  <2>4. CancelsStrike' /\ AnswersKept'
    BY <2>1, <2>2 DEF Answerable, CancelsStrike, AnswersKept, NotListed
  <2>5. FailedImportsEnd'
    BY <2>1, <2>2 DEF Answerable, FailedImportsEnd, NotListed
  <2> QED BY <2>3, <2>4, <2>5 DEF Answerable
<1>6. CASE DaemonRestarts
  <2>1. /\ \A i \in Ids : jobs'[i].entry = Recovered(i)
        /\ cancelling' = {} /\ UNCHANGED <<import, issued>>
    BY <1>6 DEF DaemonRestarts, QueueOK
  <2>2. /\ \A i \in Ids : \/ claim'[i] = claim[i]
                          \/ claim[i] = "import" /\ claim'[i] = "astray" /\ i \in LateCancels
        /\ \A i \in Ids : i \in LateCancels => i \in LateCancels' \/ claim'[i] # "import"
        /\ late' = late \/ late' = <<>>
    <3>1. CASE UNCHANGED <<late, claim>>
      BY <3>1 DEF LateCancels
    <3>2. CASE late' = <<>> /\ Astray(LateCancels)
      BY <3>2 DEF Astray
    <3> QED BY <1>6, <3>1, <3>2 DEF DaemonRestarts
  <2>4. KnownRequests'
    BY <2>1, <2>2 DEF KnownRequests, Answerable, JobsKnown
  <2>5. JobsKnown'
    <3>1. \A i \in LateCancels : i <= issued
      BY LateCancelsAre DEF PortOK, Answerable, JobsKnown, KnownRequests
    <3> QED BY <2>1, <2>2, <2>4, <3>1, SizesAssumption DEF Answerable, JobsKnown, QueueOK, Ids
  <2>6. CancelsStrike' /\ AnswersKept'
    BY <2>1, <2>2 DEF Recovered, Answerable, CancelsStrike, AnswersKept, QueueOK, PortOK, Claims
  <2>7. FailedImportsEnd'
    <3> SUFFICES ASSUME NEW i \in Ids, Recovered(i) \in {"staging", "queued"}, i \notin LateCancels',
                        \A w \in Importers : import[w].job # i
                 PROVE  claim'[i] \notin {"import", "struck"}
      BY <2>1 DEF FailedImportsEnd
    <3>1. jobs[i].entry = "queued" /\ i \notin cancelling
      BY DEF Recovered, QueueOK
    <3>2. CASE i \in LateCancels
      BY <2>2, <3>1, <3>2 DEF Answerable, CancelsStrike, PortOK, Claims
    <3>3. CASE i \notin LateCancels
      BY <2>2, <3>1, <3>3 DEF Answerable, FailedImportsEnd
    <3> QED BY <3>2, <3>3
  <2> QED BY <2>5, <2>6, <2>7 DEF Answerable
<1> QED BY <1>1, <1>2, <1>3, <1>4, <1>5, <1>6 DEF Queue

LEMMA AnswerableInductive ==
    /\ Init => Answerable
    /\ Held /\ Held' /\ Answerable /\ NoCancelDue /\ [Next]_vars => Answerable'
<1>1. Init => Answerable
  BY SizesAssumption
  DEF Init, Answerable, JobsKnown, KnownRequests, CancelsStrike, AnswersKept, FailedImportsEnd,
      NoImport, NotListed, NoJob, Importers, Ids
<1>2. Held /\ Answerable /\ UNCHANGED vars => Answerable'
  BY DEF vars, queueVars, Answerable, JobsKnown, KnownRequests, CancelsStrike, AnswersKept,
         FailedImportsEnd, LateCancels
<1>3. Held /\ Held' /\ Answerable /\ NoCancelDue /\ Next => Answerable'
  BY ImportsStepAnswerable, BatchStepAnswerable, QueueStepAnswerable DEF Next, Worker, Importers
<1> QED BY <1>1, <1>2, <1>3

-----------------------------------------------------------------------------
(* NoCancelDue *)

\* No job is answered for, and a cancel enters the port at most for a failed import.
LEMMA NothingDue ==
    ASSUME NoCancelDue, PortOK,
           \A i \in Ids : claim'[i] = "answered" => claim[i] = "answered",
           \A v \in Importers : import'[v].job \in {import[v].job, NoJob},
           \A i \in LateCancels' : i \in LateCancels \/ \E v \in Importers : import[v].job = i
    PROVE  NoCancelDue'
<1>1. \A i \in Ids : i # NoJob
  BY SizesAssumption DEF Ids, NoJob
<1> QED BY <1>1 DEF NoCancelDue

LEMMA ImportsStepDue ==
    ASSUME Held, Held', Answerable, NoCancelDue, NEW w \in Importers, Imports(w)
    PROVE  NoCancelDue'
<1> USE HeldParts, HeldPartsNext
<1>1. issued \in Nat /\ KnownRequests
  BY DEF QueueOK, Answerable, JobsKnown
<1>2. ASSUME NEW job, Returns(w, job)
      PROVE  import'[w].job = NoJob /\ \A v \in Importers \ {w} : import'[v] = import[v]
  BY <1>2 DEF Returns, NoImport, HostOK
<1>3. CASE BeginFails(w)
  <2>1. UNCHANGED claim /\ UNCHANGED issued /\ Returns(w, NoJob)
    BY <1>3 DEF BeginFails, queueVars
  <2>2. LateCancels' \subseteq LateCancels
    BY <1>1, <1>3, <2>1, AbandonedAdds DEF BeginFails
  <2> QED BY <1>2, <2>1, <2>2, NothingDue
<1>4. CASE Fails(w)
  <2>1. /\ UNCHANGED claim /\ UNCHANGED issued
        /\ \A v \in Importers : import'[v].job = import[v].job
    BY <1>4 DEF Fails, HostOK, queueVars
  <2>2. LateCancels' \subseteq LateCancels
    BY <1>1, <1>4, <2>1, AbandonedAdds DEF Fails, Answerable, JobsKnown
  <2> QED BY <2>1, <2>2, NothingDue
<1>5. CASE CancelFails(w)
  <2>1. import[w].job <= issued /\ UNCHANGED issued /\ Returns(w, NoJob)
    BY <1>5 DEF CancelFails, queueVars, Answerable, JobsKnown
  <2>2. \A i \in LateCancels' : i \in LateCancels \/ i = import[w].job
    BY <1>1, <1>5, <2>1, AbandonedAdds DEF CancelFails
  <2>3. \A i \in Ids : claim'[i] = "answered" => claim[i] = "answered"
    BY <1>5 DEF CancelFails, Astray
  <2> QED BY <1>2, <2>1, <2>2, <2>3, NothingDue
<1>6. CASE Begins(w)
  <2> DEFINE new == issued + 1
  <2>1. /\ Staged(import[w].item) /\ import[w].item \in Items
        /\ import' = [import EXCEPT ![w].stage = "seal", ![w].job = new]
        /\ UNCHANGED <<late, claim>>
    BY <1>6 DEF Begins, HostOK
  <2>2. new \in Ids /\ new > issued
    BY <1>1, <2>1, StagedOK
  <2>3. claim[new] = "import" /\ \A v \in Importers : import[v].job # new
    BY <1>1, <2>2, SizesAssumption DEF Answerable, JobsKnown, HostOK, Ids, NoJob
  <2> HIDE DEF new
  <2>4. import'[w].job = new /\ \A v \in Importers \ {w} : import'[v] = import[v]
    BY <2>1 DEF HostOK
  <2>5. LateCancels' = LateCancels
    BY <2>1 DEF LateCancels
  <2>6. \A u, v \in Importers : u # v /\ import'[u].job = import'[v].job => import'[u].job = NoJob
    BY <2>3, <2>4 DEF NoCancelDue
  <2>7. ASSUME NEW i \in Ids, claim'[i] = "answered"
        PROVE  i \notin LateCancels' /\ \A v \in Importers : import'[v].job # i
    <3>1. claim[i] = "answered" /\ i # new
      BY <2>1, <2>3, <2>7
    <3> QED BY <2>4, <2>5, <3>1 DEF NoCancelDue
  <2> QED BY <2>6, <2>7 DEF NoCancelDue
<1>7. CASE Seals(w)
  <2> DEFINE i == import[w].job
  <2>1. i \in Ids /\ i # NoJob /\ late = <<>> /\ late' = late
    BY <1>7, SizesAssumption DEF Seals, Reachable, HostOK, ImportsHeld, Ids, NoJob
  <2>2. PICK job \in SealedAs(i) : Answers(i, job) /\ Returns(w, job)
    BY <1>7 DEF Seals
  <2>3. job \in Ids
    BY <2>1, <2>2 DEF SealedAs, Copies
  <2>4. import'[w].job = NoJob /\ \A v \in Importers \ {w} : import'[v] = import[v]
    BY <1>2, <2>2
  <2>5. \A k \in Ids : claim'[k] = "answered" => claim[k] = "answered" \/ k = i
    BY <2>2, <2>3 DEF Answers, PortOK
  <2>6. LateCancels' = {} /\ LateCancels = {}
    BY <2>1 DEF LateCancels
  <2>7. \A k \in Ids : k # NoJob
    BY SizesAssumption DEF Ids, NoJob
  <2> QED BY <2>1, <2>4, <2>5, <2>6, <2>7 DEF NoCancelDue
<1>8. CASE Cancels(w)
  <2>1. UNCHANGED late /\ Withdrawn(import[w].job) /\ Returns(w, NoJob)
    BY <1>8 DEF Cancels
  <2>2. LateCancels' = LateCancels
    BY <2>1 DEF LateCancels
  <2>3. \A i \in Ids : claim'[i] = "answered" => claim[i] = "answered"
    BY <2>1 DEF Withdrawn, PortOK
  <2> QED BY <1>2, <2>1, <2>2, <2>3, NothingDue
<1> QED BY <1>3, <1>4, <1>5, <1>6, <1>7, <1>8 DEF Imports

\* The batch, the death of Google Photos and a backup that starts its import.
LEMMA BatchStepDue ==
    ASSUME Held, NoCancelDue,
           BatchStarts \/ Checks \/ Exported \/ Stop \/ AccountChanges \/ HostDies
                 \/ \E x \in BackedUp : BackupImports(x)
    PROVE  NoCancelDue'
<1> USE HeldParts
<1>1. UNCHANGED late
  BY DEF BatchStarts, Checks, Exported, Stop, AccountChanges, HostDies, BackupImports
<1>2. LateCancels' = LateCancels
  BY <1>1 DEF LateCancels
<1>3. \A i \in Ids : claim'[i] = "answered" => claim[i] = "answered"
  BY DEF BatchStarts, Checks, Exported, Stop, AccountChanges, HostDies, BackupImports, Astray
<1>4. \A v \in Importers : import'[v].job \in {import[v].job, NoJob}
  <2>1. ASSUME NEW u \in Importers, NEW x, import' = [import EXCEPT ![u] = [NoImport EXCEPT !.stage = "begin", !.item = x]]
        PROVE  \A v \in Importers : import'[v].job \in {import[v].job, NoJob}
    BY <2>1 DEF HostOK, NoImport
  <2>2. CASE HostDies
    BY <2>2 DEF HostDies, NoImport
  <2>3. CASE UNCHANGED import
    BY <2>3
  <2> QED BY <2>1, <2>2, <2>3
          DEF BatchStarts, Checks, Exported, Stop, AccountChanges, BackupImports, Importers
<1> QED BY <1>2, <1>3, <1>4, NothingDue

LEMMA QueueStepDue ==
    ASSUME Held, Held', Answerable, NoCancelDue, Queue
    PROVE  NoCancelDue'
<1> USE HeldParts, HeldPartsNext
<1>1. UNCHANGED import
  BY DEF Queue, LateHandled, DaemonRestarts, Cleared, UploadStarts, UploadCommits, UploadEnds,
         Retried, UserCancels
<1>2. CASE LateHandled
  <2>1. late # <<>> /\ late' = Tail(late) /\ Head(late) \in Requests
    BY <1>2 DEF LateHandled, PortOK
  <2>2. issued \in Nat /\ issued' \in Nat /\ KnownRequests
    BY DEF QueueOK, Answerable, JobsKnown
  <2>3. issued' = issued + 1 \/ issued' = issued
    BY <1>2, <2>1 DEF LateHandled, Staged, Sealed, Cancelled, queueVars, Requests
  <2>4. issued' >= issued
    BY <2>2, <2>3
  <2>5. LateCancels' \subseteq LateCancels
    BY <2>1, <2>2, <2>4, TakenLeaves
  <2>6. UNCHANGED claim \/ (\E S : Astray(S)) \/ Withdrawn(Head(late).about)
    BY <1>2, <2>1 DEF LateHandled, Requests
  <2>7. \A i \in Ids : claim'[i] = "answered" => claim[i] = "answered"
    BY <2>6 DEF Astray, Withdrawn, PortOK
  <2> QED BY <1>1, <2>5, <2>7, NothingDue
<1>3. CASE DaemonRestarts
  <2>1. late' = late \/ late' = <<>>
    BY <1>3 DEF DaemonRestarts
  <2>2. LateCancels' \subseteq LateCancels
    BY <2>1 DEF LateCancels
  <2>3. \A i \in Ids : claim'[i] = "answered" => claim[i] = "answered"
    BY <1>3 DEF DaemonRestarts, Astray
  <2> QED BY <1>1, <2>2, <2>3, NothingDue
<1>4. CASE Cleared \/ \E i \in Ids : \/ UploadStarts(i) \/ UploadCommits(i) \/ UploadEnds(i)
                                     \/ Retried(i) \/ UserCancels(i)
  <2>1. late' = late
    BY <1>4 DEF Cleared, UploadStarts, UploadCommits, UploadEnds, Retried, UserCancels
  <2>2. LateCancels' = LateCancels
    BY <2>1 DEF LateCancels
  <2>3. \A i \in Ids : claim'[i] = "answered" => claim[i] = "answered"
    BY <1>4 DEF Cleared, UploadStarts, UploadCommits, UploadEnds, Retried, UserCancels, Struck, PortOK
  <2> QED BY <1>1, <2>2, <2>3, NothingDue
<1> QED BY <1>2, <1>3, <1>4 DEF Queue

LEMMA NoCancelDueInductive ==
    /\ Init => NoCancelDue
    /\ Held /\ Held' /\ Answerable /\ NoCancelDue /\ [Next]_vars => NoCancelDue'
<1>1. Init => NoCancelDue
  BY DEF Init, NoCancelDue, NoImport
<1>2. NoCancelDue /\ UNCHANGED vars => NoCancelDue'
  BY DEF vars, queueVars, NoCancelDue, LateCancels
<1>3. Held /\ Held' /\ Answerable /\ NoCancelDue /\ Next => NoCancelDue'
  BY ImportsStepDue, BatchStepDue, QueueStepDue DEF Next, Worker, Importers
<1> QED BY <1>1, <1>2, <1>3

-----------------------------------------------------------------------------
LEMMA InvariantHolds == Spec => [](Held /\ Answerable /\ NoCancelDue)
<1> QED BY HeldInductive, AnswerableInductive, NoCancelDueInductive, PTL DEF Spec

\* Types of the batch, the imports, the port and the queue (ImportTypeOK).
THEOREM ImportsTyped == Spec => []ImportTypeOK
<1>1. Held => ImportTypeOK
  BY DEF Held
<1> QED BY <1>1, InvariantHolds, PTL

\* An import told that its item is queued finds it in the queue, until the user takes
\* the job back or, when it is a copy, the failed import that began it (seal, Open and
\* cancel of the engine, whatever the port does).
THEOREM QueuedStays == Spec => []AnswersKept
<1>1. Answerable => AnswersKept
  BY DEF Answerable
<1> QED BY <1>1, InvariantHolds, PTL

\* The cancel of GSImportFiles ends every job whose import has failed, or waits in
\* the port to do so, unless it was lost.
THEOREM NoStrayImport == Spec => []FailedImportsEnd
<1>1. Answerable => FailedImportsEnd
  BY DEF Answerable
<1> QED BY <1>1, InvariantHolds, PTL

\* GSStartBatchImport begins one item at most against a standing stop or change of
\* the account.
THEOREM StopHeeded == Spec => []StopsAfterCurrent
<1>1. Held => StopsAfterCurrent
  BY DEF Held, OverrunEnds, StopsAfterCurrent
<1> QED BY <1>1, InvariantHolds, PTL

-----------------------------------------------------------------------------
(* A batch comes to its end *)

\* How far the worker is from the next item.
Ahead ==
    IF batch.stage = "check" THEN 5
    ELSE IF batch.stage = "export" THEN 4
    ELSE IF import["batch"].stage = "begin" THEN 3
    ELSE IF import["batch"].stage = "seal" THEN 2
    ELSE 1

\* How far the batch is from its end.
Distance == IF batch.stage = "none" THEN 0 ELSE 5 * (BatchSize + 1 - batch.item) + Ahead

LEMMA DistanceTyped ==
    ASSUME HostOK, ImportsHeld
    PROVE  /\ Ahead \in 1..5 /\ BatchSize + 1 - batch.item \in Nat
           /\ Distance \in Nat /\ (batch.stage # "none" => Distance > 0)
<1>1. batch.item \in 1..BatchSize + 1
  BY DEF HostOK
<1>2. BatchSize + 1 - batch.item \in Nat
  BY <1>1, SizesAssumption
<1>3. Ahead \in 1..5
  BY DEF Ahead
<1> QED BY <1>2, <1>3 DEF Distance

LEMMA DistanceTypedNext ==
    ASSUME HostOK', ImportsHeld'
    PROVE  /\ Ahead' \in 1..5 /\ BatchSize + 1 - batch'.item \in Nat
           /\ Distance' \in Nat
<1>1. batch'.item \in 1..BatchSize + 1
  BY DEF HostOK
<1>2. BatchSize + 1 - batch'.item \in Nat
  BY <1>1, SizesAssumption
<1>3. Ahead' \in 1..5
  BY DEF Ahead
<1> QED BY <1>2, <1>3 DEF Distance

\* The next item, or the end of the batch, is nearer than any stage of this one.
LEMMA NextIsNearer ==
    ASSUME HostOK, ImportsHeld, HostOK', ImportsHeld', batch.stage # "none",
           BatchEnds \/ (batch.item \in Items /\ Counted)
    PROVE  Distance' < Distance
<1>1. Distance \in Nat /\ Distance > 0 /\ Ahead \in 1..5 /\ BatchSize + 1 - batch.item \in Nat
  BY DistanceTyped
<1>2. CASE BatchEnds
  BY <1>1, <1>2 DEF BatchEnds, NoBatch, Distance
<1>3. CASE batch.item \in Items /\ Counted
  <2> DEFINE next == batch.item + 1
  <2>1. batch' = [batch EXCEPT !.stage = "check", !.item = next]
    BY <1>3 DEF Counted
  <2>2. batch'.stage = "check" /\ batch'.item = next
    BY <2>1 DEF HostOK
  <2>3. Ahead' = 5
    BY <2>2 DEF Ahead
  <2>4. Distance' = 5 * (BatchSize + 1 - next) + 5
    BY <2>2, <2>3 DEF Distance
  <2>5. batch.item \in Nat /\ BatchSize \in Nat
    BY <1>3, SizesAssumption DEF Items
  <2> QED BY <1>1, <2>4, <2>5 DEF Distance
<1> QED BY <1>2, <1>3

\* The batch goes on with the same item.
LEMMA StageIsNearer ==
    ASSUME HostOK, ImportsHeld, HostOK', ImportsHeld', batch.stage # "none", batch'.stage # "none",
           batch'.item = batch.item, Ahead' < Ahead
    PROVE  Distance' < Distance
<1>1. /\ Ahead \in 1..5 /\ Ahead' \in 1..5
      /\ BatchSize + 1 - batch.item \in Nat
  BY DistanceTyped, DistanceTypedNext
<1> QED BY <1>1 DEF Distance

LEMMA WorkerIsNearer ==
    ASSUME Held, Held', Worker \/ Exported
    PROVE  Distance' < Distance
<1> USE HeldParts, HeldPartsNext
<1>1. CASE Checks
  <2>1. CASE BatchEnds
    BY <1>1, <2>1, NextIsNearer DEF Checks
  <2>2. CASE Reaches("export")
    <3>1. batch.stage = "check" /\ batch'.stage = "export" /\ batch'.item = batch.item
      BY <1>1, <2>2 DEF Checks, Reaches, HostOK
    <3>2. Ahead = 5 /\ Ahead' = 4
      BY <3>1 DEF Ahead
    <3> QED BY <3>1, <3>2, StageIsNearer
  <2> QED BY <1>1, <2>1, <2>2 DEF Checks
<1>2. CASE Exported
  <2>1. batch.stage = "export" /\ batch.item \in Items
    BY <1>2 DEF Exported, ImportsHeld
  <2>2. CASE BatchEnds \/ Counted
    BY <2>1, <2>2, NextIsNearer
  <2>3. CASE Reaches("import") /\ import' = [import EXCEPT !["batch"] =
                                     [NoImport EXCEPT !.stage = "begin", !.item = batch.item]]
    <3>1. batch'.stage = "import" /\ batch'.item = batch.item
      BY <2>3 DEF Reaches, HostOK
    <3>2. import'["batch"].stage = "begin"
      BY <2>3 DEF HostOK, NoImport, Importers
    <3>3. Ahead = 4 /\ Ahead' = 3
      BY <2>1, <3>1, <3>2 DEF Ahead
    <3> QED BY <2>1, <3>1, <3>3, StageIsNearer
  <2> QED BY <1>2, <2>2, <2>3 DEF Exported
<1>3. CASE Imports("batch")
  <2>1. import["batch"].stage \in {"begin", "seal", "cancel"}
    BY <1>3 DEF Imports, Begins, BeginFails, Seals, Fails, Cancels, CancelFails
  <2>2. batch.stage = "import" /\ batch.item \in Items
    BY <2>1 DEF ImportsHeld
  <2>3. CASE \E job \in Ids \cup {NoJob} : Returns("batch", job)
    BY <2>2, <2>3, NextIsNearer DEF Returns
  <2>4. CASE Begins("batch") \/ Fails("batch")
    <3>1. batch' = batch
      BY <2>4 DEF Begins, Fails
    <3>2. \/ import["batch"].stage = "begin" /\ import'["batch"].stage = "seal"
          \/ import["batch"].stage = "seal" /\ import'["batch"].stage = "cancel"
      BY <2>4 DEF Begins, Fails, HostOK, Importers
    <3>3. Ahead' < Ahead
      BY <2>2, <3>1, <3>2 DEF Ahead
    <3> QED BY <2>2, <3>1, <3>3, StageIsNearer
  <2>5. ASSUME Seals("batch") PROVE \E job \in Ids : Returns("batch", job)
    <3>1. import["batch"].job \in Ids
      BY <2>5 DEF Seals, HostOK, ImportsHeld, Importers
    <3> QED BY <2>5, <3>1 DEF Seals, SealedAs, Copies
  <2> QED BY <1>3, <2>3, <2>4, <2>5 DEF Imports, BeginFails, Cancels, CancelFails
<1> QED BY <1>1, <1>2, <1>3 DEF Worker

\* Only the start of a batch takes it away from its end.
LEMMA OthersStay ==
    ASSUME Held, Held', [Next]_vars, ~(Worker \/ Exported), ~BatchStarts
    PROVE  Distance' <= Distance
<1> USE HeldParts, HeldPartsNext
<1>0. Distance \in Nat
  BY DistanceTyped
<1>1. CASE HostDies
  BY <1>0, <1>1 DEF HostDies, NoBatch, Distance
<1>2. ASSUME batch'.stage = batch.stage, batch'.item = batch.item, import'["batch"] = import["batch"]
      PROVE  Distance' = Distance
  BY <1>2 DEF Distance, Ahead
<1>3. ASSUME Imports("backup") PROVE batch' = batch /\ import'["batch"] = import["batch"]
  BY <1>3 DEF Imports, Begins, BeginFails, Seals, Fails, Cancels, CancelFails, Returns, HostOK, Importers
<1>4. ASSUME NEW x \in BackedUp, BackupImports(x)
      PROVE  batch' = batch /\ import'["batch"] = import["batch"]
  BY <1>4 DEF BackupImports, HostOK, Importers
<1>5. ASSUME Stop \/ AccountChanges
      PROVE  batch'.stage = batch.stage /\ batch'.item = batch.item /\ import' = import
  BY <1>5 DEF Stop, AccountChanges, HostOK
<1>6. ASSUME Queue \/ UNCHANGED vars PROVE UNCHANGED <<batch, import>>
  BY <1>6 DEF Queue, LateHandled, DaemonRestarts, Cleared, UploadStarts, UploadCommits, UploadEnds,
              Retried, UserCancels, vars
<1> QED BY <1>0, <1>1, <1>2, <1>3, <1>4, <1>5, <1>6 DEF Next

\* Every batch comes to its end in boundedly many steps of its worker, if PhotoKit
\* answers its exports: each step of the worker and each answer brings the end nearer,
\* and no lost request, dead daemon, stop, change of the account or other import puts
\* it off (GSRunBatchImport, GSImportFiles).  With the fairness of FairSpec this is
\* why BatchMovesOn holds for a selection of any size.
THEOREM BatchEndsNearer ==
    Spec => /\ [](Distance \in 0..5 * (BatchSize + 1) /\ (Distance = 0 <=> batch.stage = "none"))
            /\ [][Worker \/ Exported => Distance' < Distance]_vars
            /\ [][Distance' > Distance => BatchStarts]_vars
<1>1. Held => /\ Distance \in 0..5 * (BatchSize + 1)
              /\ Distance = 0 <=> batch.stage = "none"
  <2> SUFFICES ASSUME Held
               PROVE  /\ Distance \in 0..5 * (BatchSize + 1)
                      /\ Distance = 0 <=> batch.stage = "none"
    OBVIOUS
  <2>1. batch.item \in 1..BatchSize + 1 /\ BatchSize \in Nat
    BY SizesAssumption, HeldParts DEF HostOK
  <2>2. Ahead \in 1..5 /\ Distance \in Nat /\ (batch.stage # "none" => Distance > 0)
    BY DistanceTyped, HeldParts
  <2> QED BY <2>1, <2>2 DEF Distance
<1>2. Held /\ Held' /\ [Next]_vars => [Worker \/ Exported => Distance' < Distance]_vars
  BY WorkerIsNearer
<1>3. Held /\ Held' /\ [Next]_vars => [Distance' > Distance => BatchStarts]_vars
  <2> SUFFICES ASSUME Held, Held', [Next]_vars, Distance' > Distance, ~BatchStarts
               PROVE  FALSE
    OBVIOUS
  <2>1. Distance \in Nat /\ Distance' \in Nat
    BY DistanceTyped, DistanceTypedNext, HeldParts, HeldPartsNext
  <2>2. Distance' <= Distance
    BY <2>1, WorkerIsNearer, OthersStay
  <2> QED BY <2>1, <2>2
<1> QED BY <1>1, <1>2, <1>3, InvariantHolds, PTL DEF Spec

-----------------------------------------------------------------------------
(* Refinement of the ledger *)

Moved(i) == <<jobs[i].entry, jobs'[i].entry>> \in L!Moves \/ jobs'[i].entry = jobs[i].entry

LEMMA EntriesMove ==
    ASSUME Held, Next
    PROVE  \A i \in Ids : Moved(i)
<1> USE HeldParts DEF L!Moves, L!Decided
<1>1. ASSUME NEW k \in Ids, NEW e \in Entries, Enter(k, e), <<jobs[k].entry, e>> \in L!Moves
      PROVE  \A i \in Ids : Moved(i)
  BY <1>1, EnterOK DEF Moved
<1>2. ASSUME UNCHANGED jobs PROVE \A i \in Ids : Moved(i)
  BY <1>2 DEF Moved
<1>3. ASSUME NEW x \in Items, Staged(x) PROVE \A i \in Ids : Moved(i)
  <2>1. issued + 1 \in Ids /\ jobs[issued + 1].entry = "absent"
    BY <1>3 DEF Staged, QueueOK, EntriesHeld
  <2>2. jobs' = [jobs EXCEPT ![issued + 1] = [entry |-> "staging", item |-> x]]
    BY <1>3 DEF Staged
  <2> QED BY <2>1, <2>2 DEF Moved, QueueOK
<1>4. ASSUME NEW k \in Ids, Sealed(k) PROVE \A i \in Ids : Moved(i)
  BY <1>1, <1>4 DEF Sealed, Entries
<1>5. ASSUME NEW k \in Ids, Cancelled(k) PROVE \A i \in Ids : Moved(i)
  <2>1. CASE k \in running
    BY <1>2, <1>5, <2>1 DEF Cancelled
  <2>2. CASE k \notin running
    <3>1. Enter(k, "dropped") /\ jobs[k].entry \in {"staging", "queued", "failed"}
      BY <1>5, <2>2 DEF Cancelled, Cancellable, QueueOK, EntriesHeld
    <3> QED BY <1>1, <3>1 DEF Entries
  <2> QED BY <2>1, <2>2
<1>6. CASE LateHandled
  <2>1. late # <<>> /\ Head(late) \in Requests
    BY <1>6 DEF LateHandled, PortOK
  <2> QED BY <1>2, <1>3, <1>4, <1>5, <1>6, <2>1 DEF LateHandled, Requests, queueVars
<1>7. CASE \E k \in Ids : UploadStarts(k) \/ UploadCommits(k) \/ UploadEnds(k) \/ Retried(k) \/ UserCancels(k)
  <2>1. ASSUME NEW k \in Ids, UploadEnds(k) PROVE \A i \in Ids : Moved(i)
    <3>1. PICK e \in {"queued", "dropped", "done", "failed"} :
              Enter(k, e) /\ (e \in {"queued", "dropped"} => jobs[k].entry # "uncertain")
      BY <2>1 DEF UploadEnds
    <3>2. jobs[k].entry \in {"queued", "uncertain"}
      BY <2>1 DEF UploadEnds, QueueOK
    <3> QED BY <3>1, <3>2, EnterOK DEF Moved, Entries
  <2> QED BY <1>1, <1>2, <1>5, <1>7, <2>1 DEF UploadStarts, UploadCommits, Retried, UserCancels, Entries
<1>8. CASE Cleared
  BY <1>8 DEF Cleared, Moved, NotListed, QueueOK
<1>9. CASE DaemonRestarts
  <2>1. \A i \in Ids : jobs'[i].entry = Recovered(i)
    BY <1>9 DEF DaemonRestarts, QueueOK
  <2> QED BY <2>1 DEF Moved, Recovered
<1>10. ASSUME NEW w \in Importers, Imports(w) PROVE \A i \in Ids : Moved(i)
  <2>1. import[w].item \in Items /\ (import[w].stage \in {"seal", "cancel"} => import[w].job \in Ids)
    BY DEF HostOK, ImportsHeld
  <2> QED BY <1>2, <1>3, <1>4, <1>5, <1>10, <2>1
          DEF Imports, Begins, BeginFails, Seals, Fails, Cancels, CancelFails, queueVars
<1>11. CASE BatchStarts \/ Checks \/ Exported \/ Stop \/ AccountChanges \/ HostDies
                 \/ \E x \in BackedUp : BackupImports(x)
  BY <1>2, <1>11
  DEF BatchStarts, Checks, Exported, Stop, AccountChanges, HostDies, BackupImports, queueVars
<1> QED BY <1>6, <1>7, <1>8, <1>9, <1>10, <1>11 DEF Next, Worker, Queue, Importers

\* Refinement: whatever imports, uploads, restarts and late requests do to the queue
\* is a write the ledger allows, so the queue of this model is one UploadQueue can be.
THEOREM QueueKeepsLedger == Spec => KeepsLedger
<1> DEFINE book == [i \in Ids |-> jobs[i].entry]
           sent == [i \in Ids |-> 0]
<1>1. Init => L!Init
  BY DEF Init, L!Init, NotListed
<1>2. ASSUME Held, Held', [Next]_vars PROVE [L!Next]_(L!vars)
  <2>1. \A i \in Ids : Moved(i)
    <3>1. CASE Next
      BY <1>2, <3>1, EntriesMove
    <3>2. CASE UNCHANGED vars
      BY <3>2 DEF vars, queueVars, Moved
    <3> QED BY <1>2, <3>1, <3>2
  <2>2. book' \in [Ids -> L!Entries] /\ sent' = sent
    BY <1>2 DEF Held, ImportTypeOK, Entries, L!Entries
  <2>3. \A i \in Ids : book'[i] # book[i] => <<book[i], book'[i]>> \in L!Moves
    BY <2>1 DEF Moved
  <2>4. L!Write({})
    BY <2>2, <2>3 DEF L!Write
  <2> QED BY <2>4 DEF L!Next
<1> QED BY <1>1, <1>2, InvariantHolds, PTL DEF Spec, L!Spec, KeepsLedger

=============================================================================
