---------------------------- MODULE UploadQueueJobs ----------------------------
(***************************************************************************)
(* What the upload engine keeps true of each job and of the whole list,    *)
(* for every number of jobs, every set of items, accounts, options and     *)
(* conditions, and any number of crashes.                                  *)
(***************************************************************************)
EXTENDS UploadQueueProofs

-----------------------------------------------------------------------------
(* One job: its cancel request, its hashes, its staged files, its budget *)

Unfinished == InProgress \cup {"pending", "failed"}

\* What a restart would queue or offer for retry.
Wanted(d) == \/ d.state \in {"committing", "failed"}
             \/ d.state \in {"pending", "preparing", "uploading"} /\ ~d.cancelRequested

\* Only a running upload outlives the request to cancel it.
CancelHeeded(j) == j.cancelRequested => j.state \notin {"pending", "importing"}

\* The attempts of a job are its failures, the one that runs, and at most one for
\* each crash, which finds it on file although its end was not saved.
InBudget(k) ==
  LET j == mem.jobs[k]
      d == disk.jobs[k]
      f == failures[k]
  IN  /\ j.state = "pending" => f <= j.attempts /\ j.attempts <= f + crashes
      /\ up /\ j.state = "importing" => j.attempts = 0 /\ f = 0
      /\ up /\ j.state \in InProgress
           => ~j.backoff /\ f < j.attempts /\ j.attempts <= f + crashes + 1
      /\ run[k] # "off" => d.attempts = j.attempts
      /\ d.state \in {"pending", "preparing", "uploading"}
           => f <= d.attempts /\ d.attempts <= IF up THEN f + crashes + 1 ELSE f + crashes
      /\ k > issued => f = 0

JobOK(k) ==
  /\ CancelHeeded(mem.jobs[k]) /\ CancelHeeded(disk.jobs[k])
  /\ run[k] # "off" /\ mem.jobs[k].cancelRequested => k \in cut
  /\ up /\ mem.jobs[k].state = "importing" => k \in hashes
  /\ Wanted(disk.jobs[k]) \/ (up /\ mem.jobs[k].state \in Unfinished) => media[k] = "synced"
  /\ InBudget(k)

JobsInv == /\ ~up => mem = disk
           /\ \A k \in Ids : JobOK(k)

\* A job that a step of a running process leaves alone; the save of another job
\* may have written it.
Untouched(k) ==
  /\ mem'.jobs[k] = mem.jobs[k]
  /\ disk'.jobs[k] \in {disk.jobs[k], mem.jobs[k]}
  /\ run'[k] = run[k] /\ (run[k] # "off" /\ k \in cut => k \in cut')
  /\ k \in hashes => k \in hashes'
  /\ media'[k] = media[k] /\ failures'[k] = failures[k]

LEMMA CountsAreNat ==
  ASSUME TypeOK, NEW k \in Ids
  PROVE  /\ failures[k] \in Nat /\ crashes \in Nat
         /\ mem.jobs[k].attempts \in Nat /\ disk.jobs[k].attempts \in Nat
  BY JobOfStore, BoundsAssumption DEF TypeOK, Job

\* A job that a running process leaves alone stays in order.
LEMMA UntouchedStaysOK ==
  ASSUME TypeOK, JobsInv, up, up', crashes' = crashes, issued' \in Nat, issued <= issued',
         NEW k \in Ids, Untouched(k)
  PROVE  JobOK(k)'
<1>1. CancelHeeded(mem.jobs[k])' /\ CancelHeeded(disk.jobs[k])'
  BY DEF JobsInv, JobOK, Untouched, CancelHeeded
<1>2. (run[k] # "off" /\ mem.jobs[k].cancelRequested => k \in cut)'
  BY DEF JobsInv, JobOK, Untouched
<1>3. (up /\ mem.jobs[k].state = "importing" => k \in hashes)'
  BY DEF JobsInv, JobOK, Untouched
<1>4. (Wanted(disk.jobs[k]) \/ (up /\ mem.jobs[k].state \in Unfinished) => media[k] = "synced")'
  BY DEF JobsInv, JobOK, Untouched, Wanted, Unfinished, InProgress
<1>5. InBudget(k)'
  <2>1. k \in Nat /\ issued \in Nat
    BY BoundsAssumption DEF TypeOK, Ids
  <2>2. JobOK(k)
    BY DEF JobsInv
  <2>3. /\ mem'.jobs[k] = mem.jobs[k] /\ disk'.jobs[k] \in {disk.jobs[k], mem.jobs[k]}
        /\ run'[k] = run[k] /\ failures'[k] = failures[k]
    BY DEF Untouched
  <2> QED
    BY <2>1, <2>2, <2>3, CountsAreNat DEF JobOK, InBudget, InProgress
<1> QED
  BY <1>1, <1>2, <1>3, <1>4, <1>5 DEF JobOK

\* A step of a running process that changes one job, or none.
LEMMA OneJobTouched ==
  ASSUME TypeOK, JobsInv, up, up', crashes' = crashes, issued' \in Nat, issued <= issued',
         NEW i \in Ids, \A k \in Ids \ {i} : Untouched(k), JobOK(i)'
  PROVE  JobsInv'
<1>1. ASSUME NEW k \in Ids, k # i PROVE JobOK(k)'
  BY <1>1, UntouchedStaysOK
<1> QED
  BY <1>1 DEF JobsInv

LEMMA NoJobTouched ==
  ASSUME TypeOK, JobsInv, up, up', crashes' = crashes, issued' = issued,
         UNCHANGED <<run, hashes, media, failures>>, cut \cap Active \subseteq cut',
         mem'.jobs = mem.jobs, disk'.jobs \in {disk.jobs, mem.jobs}
  PROVE  JobsInv'
<1>1. \A k \in Ids : Untouched(k)
  BY DEF Untouched, Active
<1>2. issued \in Nat /\ issued <= issued'
  BY BoundsAssumption DEF TypeOK
<1>3. \A k \in Ids : JobOK(k)'
  BY <1>1, <1>2, UntouchedStaysOK
<1> QED
  BY <1>3 DEF JobsInv

\* A saved change of one job leaves the others alone in memory and in the file.
LEMMA OneJobSaved ==
  ASSUME TypeOK, NEW i \in Ids, NEW j, Save(With(mem, i, j))
  PROVE  /\ mem'.jobs[i] = j /\ disk'.jobs[i] \in {disk.jobs[i], j}
         /\ \A k \in Ids \ {i} : /\ mem'.jobs[k] = mem.jobs[k]
                                 /\ disk'.jobs[k] \in {disk.jobs[k], mem.jobs[k]}
<1>1. mem' = With(mem, i, j) /\ disk' \in {disk, mem'}
  BY SaveOutcome
<1>2. \A k \in Ids : mem'.jobs[k] = IF k = i THEN j ELSE mem.jobs[k]
  BY <1>1, WithJobs DEF TypeOK
<1> QED
  BY <1>1, <1>2

\* The removal of the files of S leaves those of the other jobs alone.
LEMMA RemovedElsewhere ==
  ASSUME NEW files \in Files, NEW S
  PROVE  \A left \in Removed(files, S) : \A k \in Ids \ S : left[k] = files[k]
  BY DEF Removed, Files

LEMMA BeginKeepsJobs ==
  ASSUME TypeOK, CommitInv, JobsInv, NEW x \in Items, Begin(x)
  PROVE  JobsInv'
<1> DEFINE j == [Blank(x) EXCEPT !.state = "importing"]
<1>0. PICK i \in Ids : i = issued + 1
  BY DEF Begin
<1>1. i \in Ids /\ issued \in Nat /\ up /\ up' /\ crashes' = crashes /\ issued' = i
  BY <1>0, BoundsAssumption DEF Begin, Serving, TypeOK, ghostVars
<1>2. Save(With(mem, i, j))
  BY <1>0 DEF Begin
<1>3. /\ mem'.jobs[i] = j /\ disk'.jobs[i] \in {disk.jobs[i], j}
      /\ \A k \in Ids \ {i} : /\ mem'.jobs[k] = mem.jobs[k]
                              /\ disk'.jobs[k] \in {disk.jobs[k], mem.jobs[k]}
  BY <1>1, <1>2, OneJobSaved
<1>4. /\ j.state = "importing" /\ ~j.cancelRequested /\ j.attempts = 0
      /\ disk.jobs[i].state = "none" /\ mem.jobs[i].state = "none" /\ run[i] = "off"
  BY <1>0, <1>1, OffUnlessInProgress DEF Blank, CommitInv, NeverBegun, InProgress
<1>5. /\ i \in hashes' /\ UNCHANGED <<run, cut, failures>>
      /\ \A k \in Ids \ {i} : (k \in hashes => k \in hashes') /\ media'[k] = media[k]
  BY <1>0 DEF Begin, TypeOK, runVars, ghostVars
<1>6. i \in Nat /\ issued <= i
  BY <1>0, <1>1
<1> HIDE DEF j
<1>7. \A k \in Ids \ {i} : Untouched(k)
  BY <1>3, <1>5 DEF Untouched
<1>8. failures[i] = 0
  BY <1>0, <1>1 DEF JobsInv, JobOK, InBudget
<1>9. JobOK(i)'
  BY <1>1, <1>3, <1>4, <1>5, <1>6, <1>8
     DEF JobOK, CancelHeeded, Wanted, Unfinished, InProgress, InBudget
<1> QED
  BY <1>1, <1>6, <1>7, <1>9, OneJobTouched

LEMMA AppendKeepsJobs ==
  ASSUME TypeOK, CommitInv, JobsInv, NEW i \in Ids, AppendLast(i)
  PROVE  JobsInv'
<1>1. /\ up /\ up' /\ crashes' = crashes /\ issued' = issued /\ issued \in Nat
      /\ UNCHANGED <<mem, disk, run, cut, hashes, failures>>
  BY BoundsAssumption DEF AppendLast, Serving, TypeOK, engineVars, runVars, ghostVars
<1>2. \A k \in Ids \ {i} : media'[k] = media[k]
  BY DEF AppendLast, TypeOK
<1>3. \A k \in Ids \ {i} : Untouched(k)
  BY <1>1, <1>2 DEF Untouched
<1>4. media[i] # "synced"
  BY DEF AppendLast
<1>5. JobOK(i)'
  BY <1>1, <1>4 DEF JobsInv, JobOK, InBudget
<1> QED
  BY <1>1, <1>3, <1>5, OneJobTouched

LEMMA SealKeepsJobs ==
  ASSUME TypeOK, CommitInv, JobsInv, NEW i \in Ids, Seal(i)
  PROVE  JobsInv'
<1> DEFINE queued  == [mem.jobs[i] EXCEPT !.sealed = TRUE, !.state = "pending"]
           dropped == [mem.jobs[i] EXCEPT !.state = "cancelled"]
           synced  == [media EXCEPT ![i] = "synced"]
<1>1. /\ up /\ up' /\ crashes' = crashes /\ issued' = issued /\ issued \in Nat
      /\ mem.jobs[i].state = "importing" /\ hashes' = hashes \ {i}
      /\ UNCHANGED <<run, cut, failures>>
  BY BoundsAssumption DEF Seal, Serving, TypeOK, runVars, ghostVars
<1>2. mem.jobs[i] \in Job /\ run[i] = "off" /\ synced \in Files
  BY <1>1, JobOfStore, OffUnlessInProgress DEF TypeOK, InProgress, Files
<1>3. ~mem.jobs[i].cancelRequested /\ (~Wanted(disk.jobs[i]) \/ media[i] = "synced")
  BY <1>1 DEF JobsInv, JobOK, CancelHeeded
<1>4. /\ queued.state = "pending" /\ queued.attempts = mem.jobs[i].attempts
      /\ queued.cancelRequested = mem.jobs[i].cancelRequested
      /\ dropped.state = "cancelled"
  BY <1>2 DEF Job
<1> HIDE DEF queued, dropped
<1>5. CASE Save(With(mem, i, queued)) /\ media' = synced
  <2>1. /\ mem'.jobs[i] = queued /\ disk'.jobs[i] \in {disk.jobs[i], queued}
        /\ \A k \in Ids \ {i} : /\ mem'.jobs[k] = mem.jobs[k]
                                /\ disk'.jobs[k] \in {disk.jobs[k], mem.jobs[k]}
    BY <1>5, OneJobSaved
  <2>2. media'[i] = "synced" /\ \A k \in Ids \ {i} : media'[k] = media[k]
    BY <1>5 DEF TypeOK
  <2>3. \A k \in Ids \ {i} : Untouched(k)
    BY <1>1, <2>1, <2>2 DEF Untouched
  <2>4. JobOK(i)'
    BY <1>1, <1>2, <1>4, <2>1, <2>2, CountsAreNat
       DEF JobsInv, JobOK, CancelHeeded, InBudget, Unfinished, InProgress
  <2> QED
    BY <1>1, <2>3, <2>4, OneJobTouched
<1>6. CASE SaveThenRemove(With(mem, i, dropped), synced, {i})
  <2>1. /\ mem'.jobs[i] = dropped /\ disk'.jobs[i] \in {disk.jobs[i], dropped}
        /\ \A k \in Ids \ {i} : /\ mem'.jobs[k] = mem.jobs[k]
                                /\ disk'.jobs[k] \in {disk.jobs[k], mem.jobs[k]}
    BY <1>6, OneJobSaved, SaveThenRemoveIsSave
  <2>2. \/ disk' = mem' /\ media' \in Removed(synced, {i})
        \/ media' = synced
    BY <1>6 DEF SaveThenRemove, Saved
  <2>3. \A k \in Ids \ {i} : media'[k] = media[k]
    <3>1. \A k \in Ids \ {i} : synced[k] = media[k]
      BY DEF TypeOK
    <3> HIDE DEF synced
    <3> QED
      BY <1>2, <2>2, <3>1, RemovedElsewhere
  <2>4. \A k \in Ids \ {i} : Untouched(k)
    BY <1>1, <2>1, <2>3 DEF Untouched
  <2>5. disk'.jobs[i] = dropped \/ media'[i] = "synced"
    BY <2>1, <2>2 DEF TypeOK
  <2>6. JobOK(i)'
    BY <1>1, <1>2, <1>4, <2>1, <2>5
       DEF JobsInv, JobOK, CancelHeeded, InBudget, Wanted, Unfinished, InProgress
  <2> QED
    BY <1>1, <2>4, <2>6, OneJobTouched
<1> QED
  BY <1>5, <1>6 DEF Seal, queued, dropped

LEMMA CancelKeepsJobs ==
  ASSUME TypeOK, CommitInv, JobsInv, NEW i \in Ids, Cancel(i)
  PROVE  JobsInv'
<1> DEFINE j       == [mem.jobs[i] EXCEPT !.cancelRequested = TRUE]
           dropped == [j EXCEPT !.state = "cancelled"]
<1>1. /\ up /\ up' /\ crashes' = crashes /\ issued' = issued /\ issued \in Nat
      /\ UNCHANGED <<run, failures>> /\ cut \subseteq cut'
  BY BoundsAssumption DEF Cancel, Serving, TypeOK, ghostVars
<1>2. mem.jobs[i] \in Job /\ media \in Files
  BY JobOfStore DEF TypeOK, Files
<1>3. /\ j.state = mem.jobs[i].state /\ j.attempts = mem.jobs[i].attempts
      /\ j.backoff = mem.jobs[i].backoff /\ dropped.state = "cancelled"
  BY <1>2 DEF Job
<1> HIDE DEF j, dropped
<1>4. CASE i \in Active /\ i \in cut' /\ Save(With(mem, i, j)) /\ UNCHANGED <<hashes, media>>
  <2>1. /\ mem'.jobs[i] = j /\ disk'.jobs[i] \in {disk.jobs[i], j}
        /\ \A k \in Ids \ {i} : /\ mem'.jobs[k] = mem.jobs[k]
                                /\ disk'.jobs[k] \in {disk.jobs[k], mem.jobs[k]}
    BY <1>4, OneJobSaved
  <2>2. \A k \in Ids \ {i} : Untouched(k)
    BY <1>1, <1>4, <2>1 DEF Untouched
  <2>3. j.state \in InProgress
    BY <1>3, <1>4, OffUnlessInProgress DEF Active
  <2>4. JobOK(i)'
    BY <1>1, <1>2, <1>3, <1>4, <2>1, <2>3, CountsAreNat
       DEF JobsInv, JobOK, CancelHeeded, InBudget, Wanted, Unfinished, InProgress
  <2> QED
    BY <1>1, <2>2, <2>4, OneJobTouched
<1>5. CASE /\ i \notin Active /\ SaveThenRemove(With(mem, i, dropped), media, {i})
           /\ hashes' = hashes \ {i}
  <2>1. /\ mem'.jobs[i] = dropped /\ disk'.jobs[i] \in {disk.jobs[i], dropped}
        /\ \A k \in Ids \ {i} : /\ mem'.jobs[k] = mem.jobs[k]
                                /\ disk'.jobs[k] \in {disk.jobs[k], mem.jobs[k]}
    BY <1>5, OneJobSaved, SaveThenRemoveIsSave
  <2>2. \/ disk' = mem' /\ media' \in Removed(media, {i})
        \/ media' = media
    BY <1>5 DEF SaveThenRemove, Saved
  <2>3. \A k \in Ids \ {i} : Untouched(k)
    BY <1>1, <1>2, <1>5, <2>1, <2>2, RemovedElsewhere DEF Untouched
  <2>4. disk'.jobs[i] = dropped \/ media'[i] = media[i]
    BY <2>1, <2>2
  <2>5. JobOK(i)'
    BY <1>1, <1>3, <1>5, <2>1, <2>4
       DEF JobsInv, JobOK, CancelHeeded, InBudget, Wanted, Unfinished, InProgress, Active
  <2> QED
    BY <1>1, <2>3, <2>5, OneJobTouched
<1> QED
  BY <1>4, <1>5 DEF Cancel, j, dropped

LEMMA RetryKeepsJobs ==
  ASSUME TypeOK, CommitInv, DurableWhileServing, JobsInv, NEW S \in SUBSET Ids, RetryAll(S)
  PROVE  JobsInv'
<1> DEFINE js == [k \in Ids |-> IF k \in S THEN ResetRetry(mem.jobs[k]) ELSE mem.jobs[k]]
<1>1. /\ up /\ up' /\ crashes' = crashes /\ issued' = issued /\ issued \in Nat
      /\ UNCHANGED <<run, cut, hashes, media>> /\ mem \in Stores
  BY BoundsAssumption DEF RetryAll, Serving, TypeOK, runVars, importVars
<1>2. mem' = [mem EXCEPT !.jobs = js] /\ disk' \in {disk, mem'}
  BY SaveOutcome DEF RetryAll
<1>3. mem'.jobs = js
  BY <1>1, <1>2, JobsReplaced
<1>4. \A k \in Ids \ S : Untouched(k)
  <2>1. \A k \in Ids \ S : failures'[k] = failures[k]
    BY DEF RetryAll
  <2> QED
    BY <1>1, <1>2, <1>3, <2>1 DEF Untouched
<1>5. ASSUME NEW k \in S PROVE JobOK(k)'
  <2>1. \A j \in Job : /\ ResetRetry(j).state = "pending" /\ ResetRetry(j).attempts = 0
                       /\ ~ResetRetry(j).cancelRequested
    BY DEF ResetRetry, Job
  <2>2. mem.jobs[k].state = "failed" /\ mem = disk /\ run[k] = "off" /\ failures'[k] = 0
    BY <1>1, OffUnlessInProgress DEF RetryAll, Retryable, InProgress, DurableWhileServing
  <2>3. /\ mem'.jobs[k].state = "pending" /\ mem'.jobs[k].attempts = 0
        /\ ~mem'.jobs[k].cancelRequested /\ disk'.jobs[k] \in {disk.jobs[k], mem'.jobs[k]}
    <3>1. k \in Ids /\ mem.jobs[k] \in Job
      BY <1>1, JobOfStore
    <3>2. mem'.jobs[k] = ResetRetry(mem.jobs[k])
      BY <1>3, <3>1
    <3>3. disk'.jobs[k] \in {disk.jobs[k], mem'.jobs[k]}
      BY <1>2
    <3> QED
      BY <2>1, <3>1, <3>2, <3>3
  <2>4. JobOK(k) /\ media[k] = "synced"
    BY <1>1, <2>2 DEF JobsInv, JobOK, Unfinished
  <2> QED
    BY <1>1, <2>2, <2>3, <2>4, CountsAreNat DEF JobOK, CancelHeeded, InBudget, InProgress
<1>6. \A k \in Ids : JobOK(k)'
  BY <1>1, <1>4, <1>5, UntouchedStaysOK
<1> QED
  BY <1>1, <1>6 DEF JobsInv

LEMMA ClearKeepsJobs ==
  ASSUME TypeOK, CommitInv, JobsInv, ClearCompleted
  PROVE  JobsInv'
<1> DEFINE done == {k \in Ids : mem.jobs[k].state \in Terminal}
           js == [k \in Ids |-> IF k \in done THEN Blank(AnItem) ELSE mem.jobs[k]]
<1>1. /\ up /\ up' /\ crashes' = crashes /\ issued' = issued /\ issued \in Nat
      /\ UNCHANGED <<run, cut, hashes, media, failures>> /\ mem \in Stores
  BY BoundsAssumption DEF ClearCompleted, Serving, TypeOK, runVars, importVars, ghostVars
<1>2. mem' = [mem EXCEPT !.jobs = js] /\ disk' \in {disk, mem'}
  BY SaveOutcome DEF ClearCompleted
<1>3. mem'.jobs = js
  BY <1>1, <1>2, JobsReplaced
<1>4. \A k \in Ids \ done : Untouched(k)
  BY <1>1, <1>2, <1>3 DEF Untouched
<1>5. ASSUME NEW k \in done PROVE JobOK(k)'
  <2>1. Blank(AnItem).state = "none" /\ ~Blank(AnItem).cancelRequested
    BY DEF Blank
  <2>2. k \in Ids /\ mem'.jobs[k] = Blank(AnItem) /\ disk'.jobs[k] \in {disk.jobs[k], mem'.jobs[k]}
    BY <1>2, <1>3
  <2>3. run[k] = "off" /\ JobOK(k)
    BY OffUnlessInProgress DEF JobsInv, Terminal, InProgress
  <2> HIDE DEF done, js
  <2> QED
    BY <1>1, <2>1, <2>2, <2>3
       DEF JobOK, CancelHeeded, InBudget, Wanted, Unfinished, InProgress
<1>6. \A k \in Ids : JobOK(k)'
  BY <1>1, <1>4, <1>5, UntouchedStaysOK
<1> QED
  BY <1>1, <1>6 DEF JobsInv

\* What a pass of the scheduler leaves: the jobs of S marked, those of L also
\* started and written, S and L being the same unless the save failed.
LEMMA TickOutcome ==
  ASSUME TypeOK, CommitInv, DurableWhileServing, Tick
  PROVE  /\ mem = disk
         /\ \E S, L \in SUBSET Chosen :
              /\ L \subseteq S
              /\ mem' = Started(S) /\ disk' \in {mem', Started(L)}
              /\ Launch(L)
              /\ \A k \in S : k \in Ids /\ mem.jobs[k].state = "pending" /\ run[k] = "off"
<1>1. mem = disk
  BY DEF Tick, MayTick, DurableWhileServing, Serving
<1>2. \A k \in Chosen : k \in Ids /\ mem.jobs[k].state = "pending" /\ run[k] = "off"
  BY OffUnlessInProgress DEF Chosen, Eligible, InProgress
<1>3. CASE Saved(Started(Chosen)) /\ Launch(Chosen)
  BY <1>1, <1>2, <1>3 DEF Saved
<1>4. CASE \E f \in Chosen :
             LET before == {i \in Chosen : i < f}
             IN  /\ mem' = Started(before \cup {f})
                 /\ disk' \in {Started(before), Started(before \cup {f})}
                 /\ fault' = TRUE
                 /\ Launch(before)
  <2>1. PICK f \in Chosen : /\ mem' = Started({i \in Chosen : i < f} \cup {f})
                            /\ disk' \in {Started({i \in Chosen : i < f}), mem'}
                            /\ Launch({i \in Chosen : i < f})
    BY <1>4
  <2> DEFINE L == {i \in Chosen : i < f}
  <2>2. L \in SUBSET Chosen /\ L \cup {f} \in SUBSET Chosen
    OBVIOUS
  <2> HIDE DEF L
  <2> QED
    BY <1>1, <1>2, <2>1, <2>2 DEF L
<1> QED
  BY <1>3, <1>4 DEF Tick

\* One job of a store some of whose jobs were started.
LEMMA StartedJobs ==
  ASSUME TypeOK, NEW S, NEW k \in Ids
  PROVE  /\ k \notin S => Started(S).jobs[k] = mem.jobs[k]
         /\ k \in S => /\ Started(S).jobs[k].state = "preparing"
                       /\ Started(S).jobs[k].attempts = mem.jobs[k].attempts + 1
                       /\ Started(S).jobs[k].backoff = mem.jobs[k].backoff
                       /\ Started(S).jobs[k].cancelRequested = mem.jobs[k].cancelRequested
                       /\ Started(S).jobs[k].sealed = mem.jobs[k].sealed
                       /\ Started(S).jobs[k].item = mem.jobs[k].item
                       /\ Started(S).jobs[k].originalPolicy \in {mem.jobs[k].originalPolicy, 1}
                       /\ \/ mem.jobs[k].item.quality # "original"
                          \/ Started(S).jobs[k].originalPolicy = 1
<1>1. Started(S).jobs[k] = IF k \in S THEN StartedJob(mem.jobs[k]) ELSE mem.jobs[k]
  BY JobsReplaced DEF Started, TypeOK
<1>2. mem.jobs[k] \in Job
  BY JobOfStore DEF TypeOK
<1> DEFINE j == mem.jobs[k]
           n == j.attempts + 1
           p == IF j.item.quality = "original" THEN 1 ELSE j.originalPolicy
<1>3. StartedJob(j) = [j EXCEPT !.state = "preparing", !.attempts = n, !.originalPolicy = p]
  BY DEF StartedJob
<1>4. p \in {j.originalPolicy, 1} /\ (p = 1 \/ j.item.quality # "original")
  OBVIOUS
<1> HIDE DEF n, p
<1>5. /\ StartedJob(j).state = "preparing" /\ StartedJob(j).attempts = n
      /\ StartedJob(j).backoff = j.backoff /\ StartedJob(j).cancelRequested = j.cancelRequested
      /\ StartedJob(j).sealed = j.sealed /\ StartedJob(j).item = j.item
      /\ StartedJob(j).originalPolicy = p
  BY <1>2, <1>3 DEF Job
<1> QED
  BY <1>1, <1>4, <1>5 DEF n

LEMMA TickKeepsJobs ==
  ASSUME TypeOK, CommitInv, DurableWhileServing, JobsInv, Tick
  PROVE  JobsInv'
<1>1. /\ up /\ up' /\ crashes' = crashes /\ issued' = issued /\ issued \in Nat
      /\ UNCHANGED <<cut, hashes, media, failures>>
  BY BoundsAssumption DEF Tick, MayTick, TypeOK, importVars, ghostVars
<1>2. mem = disk
  BY TickOutcome
<1>3. PICK S \in SUBSET Chosen, L \in SUBSET Chosen :
        /\ L \subseteq S
        /\ mem' = Started(S) /\ disk' \in {mem', Started(L)}
        /\ Launch(L)
        /\ \A k \in S : k \in Ids /\ mem.jobs[k].state = "pending" /\ run[k] = "off"
  BY TickOutcome
<1>4. \A k \in Ids : run'[k] = IF k \in L THEN "preparing" ELSE run[k]
  BY <1>3 DEF Launch
<1>5. ASSUME NEW k \in Ids, k \notin S PROVE Untouched(k)
  BY <1>1, <1>2, <1>3, <1>4, <1>5, StartedJobs DEF Untouched
<1>6. ASSUME NEW k \in S PROVE JobOK(k)'
  <2>1. k \in Ids /\ ~mem.jobs[k].cancelRequested /\ ~mem.jobs[k].backoff /\ JobOK(k)
    BY <1>3 DEF JobsInv, JobOK, CancelHeeded, Chosen, Eligible
  <2>2. /\ mem'.jobs[k].state = "preparing" /\ ~mem'.jobs[k].cancelRequested
        /\ ~mem'.jobs[k].backoff /\ mem'.jobs[k].attempts = mem.jobs[k].attempts + 1
    BY <1>3, <2>1, StartedJobs
  <2>3. disk'.jobs[k] \in {mem.jobs[k], mem'.jobs[k]}
    <3>1. \A R : Started(R).jobs[k] = IF k \in R THEN StartedJob(mem.jobs[k]) ELSE mem.jobs[k]
      BY <2>1, JobsReplaced DEF Started, TypeOK
    <3> QED
      BY <1>3, <3>1
  <2>4. media[k] = "synced"
    BY <1>1, <1>3, <2>1 DEF JobOK, Unfinished
  <2>5. k \in L => disk'.jobs[k] = mem'.jobs[k]
    <3>1. \A R : Started(R).jobs[k] = IF k \in R THEN StartedJob(mem.jobs[k]) ELSE mem.jobs[k]
      BY <2>1, JobsReplaced DEF Started, TypeOK
    <3> QED
      BY <1>3, <3>1
  <2> QED
    BY <1>1, <1>3, <1>4, <2>1, <2>2, <2>3, <2>4, <2>5, CountsAreNat
       DEF JobOK, CancelHeeded, InBudget, InProgress
<1>7. \A k \in Ids : JobOK(k)'
  BY <1>1, <1>5, <1>6, UntouchedStaysOK
<1> QED
  BY <1>1, <1>7 DEF JobsInv

LEMMA BackoffKeepsJobs ==
  ASSUME TypeOK, JobsInv, NEW i \in Ids, BackoffEnds(i)
  PROVE  JobsInv'
<1>1. /\ up /\ up' /\ crashes' = crashes /\ issued' = issued /\ issued \in Nat
      /\ UNCHANGED <<run, cut, hashes, media, failures>> /\ mem \in Stores /\ disk \in Stores
  BY BoundsAssumption DEF BackoffEnds, TypeOK, engineVars, runVars, importVars, ghostVars
<1>2. ASSUME NEW m \in Stores, NEW k \in Ids
      PROVE  LET l == With(m, i, [m.jobs[i] EXCEPT !.backoff = FALSE]).jobs[k]
             IN  /\ l.state = m.jobs[k].state /\ l.attempts = m.jobs[k].attempts
                 /\ l.cancelRequested = m.jobs[k].cancelRequested
                 /\ l = m.jobs[k] \/ (k = i /\ ~l.backoff)
  <2>1. m.jobs[i] \in Job
    BY JobOfStore
  <2> QED
    BY <2>1, WithJobs DEF Job
<1>3. ASSUME NEW k \in Ids
      PROVE  /\ mem'.jobs[k].state = mem.jobs[k].state /\ mem'.jobs[k].attempts = mem.jobs[k].attempts
             /\ mem'.jobs[k].cancelRequested = mem.jobs[k].cancelRequested
             /\ mem'.jobs[k] = mem.jobs[k] \/ ~mem'.jobs[k].backoff
             /\ disk'.jobs[k].state = disk.jobs[k].state
             /\ disk'.jobs[k].cancelRequested = disk.jobs[k].cancelRequested
             /\ disk'.jobs[k].attempts = disk.jobs[k].attempts
  BY <1>1, <1>2 DEF BackoffEnds
<1>4. ASSUME NEW k \in Ids PROVE JobOK(k)'
  BY <1>1, <1>3 DEF JobsInv, JobOK, CancelHeeded, Wanted, InBudget
<1> QED
  BY <1>1, <1>4 DEF JobsInv

LEMMA ProgressKeepsJobs ==
  ASSUME TypeOK, CommitInv, JobsInv, NEW i \in Ids, NEW phase \in InProgress, Progress(i, phase)
  PROVE  JobsInv'
<1> DEFINE j == [mem.jobs[i] EXCEPT !.state = phase]
<1>1. /\ crashes' = crashes /\ issued' = issued /\ issued \in Nat /\ up' = up
      /\ UNCHANGED <<hashes, media, failures>> /\ cut \subseteq cut'
  BY BoundsAssumption DEF Progress, TypeOK, importVars, ghostVars
<1>2. run[i] # "off" /\ up /\ \A k \in Ids \ {i} : run'[k] = run[k]
  BY DEF Progress, CommitInv, Active, TypeOK
<1>3. Save(With(mem, i, j))
  BY DEF Progress, Save
<1>4. /\ mem'.jobs[i] = j /\ disk'.jobs[i] \in {disk.jobs[i], j}
      /\ \A k \in Ids \ {i} : /\ mem'.jobs[k] = mem.jobs[k]
                              /\ disk'.jobs[k] \in {disk.jobs[k], mem.jobs[k]}
  BY <1>3, OneJobSaved
<1>5. /\ j.state = phase /\ j.attempts = mem.jobs[i].attempts
      /\ j.backoff = mem.jobs[i].backoff /\ j.cancelRequested = mem.jobs[i].cancelRequested
  <2>1. mem.jobs[i] \in Job
    BY JobOfStore DEF TypeOK
  <2> QED
    BY <2>1 DEF Job
<1> HIDE DEF j
<1>6. \A k \in Ids \ {i} : Untouched(k)
  BY <1>1, <1>2, <1>4 DEF Untouched
<1>7. mem.jobs[i].state \in InProgress
  BY <1>2, OffUnlessInProgress
<1>8. JobOK(i)'
  BY <1>1, <1>2, <1>4, <1>5, <1>7, CountsAreNat
     DEF JobsInv, JobOK, CancelHeeded, Unfinished, InBudget, InProgress
<1> QED
  BY <1>1, <1>2, <1>6, <1>8, OneJobTouched

\* How the fields of a job change when its upload ends.
LEMMA EndedFields ==
  ASSUME NEW j \in Job, NEW o, j.state \in InProgress
  PROVE  LET e == EndedJob(j, o)
         IN  /\ e.cancelRequested = j.cancelRequested
             /\ e.sealed = j.sealed /\ e.item = j.item /\ e.originalPolicy = j.originalPolicy
             /\ e.state = "pending" => ~j.cancelRequested
             /\ e.state = "completed" => o = "key"
             /\ e.state = "pending" /\ ~j.backoff /\ j.attempts > 0
                  => e.attempts = IF e.backoff THEN j.attempts ELSE j.attempts - 1
<1>1. \A s \in JobStates : LET e == [j EXCEPT !.state = s]
                           IN  /\ e.state = s /\ e.cancelRequested = j.cancelRequested
                               /\ e.sealed = j.sealed /\ e.item = j.item
                               /\ e.originalPolicy = j.originalPolicy
  BY DEF Job
<1> DEFINE n == IF j.attempts > 0 THEN j.attempts - 1 ELSE j.attempts
           u == [j EXCEPT !.state = "pending", !.attempts = n]
<1>2. Unspent(j) = u
  BY DEF Unspent
<1>3. j.attempts > 0 => n = j.attempts - 1
  OBVIOUS
<1> HIDE DEF n
<1>4. /\ u.state = "pending" /\ u.cancelRequested = j.cancelRequested /\ u.attempts = n
      /\ u.sealed = j.sealed /\ u.item = j.item /\ u.originalPolicy = j.originalPolicy
      /\ u.backoff = j.backoff
  BY DEF Job
<1> DEFINE v == [u EXCEPT !.backoff = FALSE]
           w == [j EXCEPT !.state = "pending", !.backoff = TRUE]
<1>5. /\ v.state = "pending" /\ v.cancelRequested = j.cancelRequested /\ v.attempts = n
      /\ v.sealed = j.sealed /\ v.item = j.item /\ v.originalPolicy = j.originalPolicy
      /\ ~v.backoff
  BY <1>4 DEF Job
<1>6. /\ w.state = "pending" /\ w.cancelRequested = j.cancelRequested /\ w.attempts = j.attempts
      /\ w.sealed = j.sealed /\ w.item = j.item /\ w.originalPolicy = j.originalPolicy
      /\ w.backoff
  BY DEF Job
<1>7. \/ \E s \in {"completed", "failed", "cancelled"} :
            EndedJob(j, o) = [j EXCEPT !.state = s] /\ (s = "completed" => o = "key")
      \/ ~j.cancelRequested /\ EndedJob(j, o) \in {u, v, w}
  BY <1>2 DEF EndedJob
<1> HIDE DEF u, v, w
<1>8. CASE ~j.cancelRequested /\ EndedJob(j, o) \in {u, v, w}
  BY <1>3, <1>4, <1>5, <1>6, <1>8
<1>9. ASSUME NEW s \in {"completed", "failed", "cancelled"},
             EndedJob(j, o) = [j EXCEPT !.state = s], s = "completed" => o = "key"
      PROVE  LET e == EndedJob(j, o)
             IN  /\ e.state = s /\ e.cancelRequested = j.cancelRequested
                 /\ e.sealed = j.sealed /\ e.item = j.item /\ e.originalPolicy = j.originalPolicy
  BY <1>1, <1>9 DEF JobStates, Terminal
<1> QED
  BY <1>7, <1>8, <1>9

LEMMA FinishKeepsJobs ==
  ASSUME TypeOK, CommitInv, JobsInv, NEW i \in Ids, NEW o \in Outcomes, Finish(i, o)
  PROVE  JobsInv'
<1> DEFINE j == EndedJob(mem.jobs[i], o)
           w == With(mem, i, j)
           m == [w EXCEPT !.rev = IF o = "key" THEN w.rev + 1 ELSE w.rev]
           S == IF j.state \in Terminal THEN {i} ELSE {}
<1>1. /\ crashes' = crashes /\ issued' = issued /\ issued \in Nat /\ up' = up
      /\ UNCHANGED hashes /\ cut' = cut \ {i} /\ run[i] # "off" /\ up
      /\ \A k \in Ids : /\ run'[k] = IF k = i THEN "off" ELSE run[k]
                        /\ failures'[k] = IF k = i /\ j.backoff THEN failures[k] + 1 ELSE failures[k]
  BY BoundsAssumption DEF Finish, Active, CommitInv, TypeOK
<1>2. mem \in Stores /\ mem.jobs[i] \in Job /\ media \in Files
  BY JobOfStore DEF TypeOK, Files
<1>3. m.jobs = w.jobs
  BY <1>2 DEF With, Stores
<1>4. SaveThenRemove(m, media, S)
  BY DEF Finish
<1>5. mem' = m /\ disk' \in {disk, mem'} /\ media' \in Removed(media, S) \cup {media}
      /\ (disk' = mem' \/ media' = media)
  BY <1>4 DEF SaveThenRemove, Saved, SaveFailed
<1>6. \A k \in Ids : mem'.jobs[k] = IF k = i THEN j ELSE mem.jobs[k]
  BY <1>2, <1>3, <1>5, WithJobs
<1>7. mem.jobs[i].state \in InProgress
  BY <1>1, OffUnlessInProgress
<1>8. /\ j.state \in {"completed", "failed", "cancelled", "pending"}
      /\ j.cancelRequested = mem.jobs[i].cancelRequested
      /\ j.state = "pending" => ~mem.jobs[i].cancelRequested
      /\ j.state = "pending" /\ ~mem.jobs[i].backoff /\ mem.jobs[i].attempts > 0
           => j.attempts = IF j.backoff THEN mem.jobs[i].attempts ELSE mem.jobs[i].attempts - 1
  BY <1>2, <1>7, EndedState, EndedFields
<1> HIDE DEF j, w, m
<1>9. \A k \in Ids \ S : media'[k] = media[k]
  BY <1>2, <1>5, RemovedElsewhere
<1>10. \A k \in Ids \ {i} : Untouched(k)
  BY <1>1, <1>5, <1>6, <1>9 DEF Untouched
<1>11. JobOK(i) /\ media[i] = "synced" /\ failures[i] \in Nat
  BY <1>1, <1>7 DEF JobsInv, JobOK, Unfinished, TypeOK
<1>12. InBudget(i)'
  <2>1. /\ failures[i] \in Nat /\ crashes \in Nat /\ mem.jobs[i].attempts \in Nat
        /\ disk.jobs[i].attempts = mem.jobs[i].attempts
        /\ failures[i] < mem.jobs[i].attempts /\ ~mem.jobs[i].backoff
        /\ mem.jobs[i].attempts <= failures[i] + crashes + 1
    BY <1>1, <1>2, <1>7, <1>11, BoundsAssumption DEF JobOK, InBudget, TypeOK, Job
  <2>4. failures'[i] = IF j.backoff THEN failures[i] + 1 ELSE failures[i]
    BY <1>1
  <2>5. j.state = "pending" => j.attempts = IF j.backoff THEN mem.jobs[i].attempts
                                                         ELSE mem.jobs[i].attempts - 1
    BY <1>8, <2>1
  <2>6. mem'.jobs[i] = j /\ disk'.jobs[i] \in {disk.jobs[i], j} /\ run'[i] = "off"
    BY <1>1, <1>5, <1>6
  <2>2. i <= issued
    BY <1>7, ListedIsBegun DEF InProgress
  <2>3. ~(i > issued')
    BY <1>1, <2>2 DEF Ids
  <2> QED
    BY <1>1, <1>8, <2>1, <2>3, <2>4, <2>5, <2>6 DEF InBudget, InProgress
<1>13. Wanted(disk'.jobs[i]) \/ (up' /\ mem'.jobs[i].state \in Unfinished) => media'[i] = "synced"
  <2>1. CASE j.state \in Terminal
    BY <1>5, <1>6, <1>8, <1>11, <2>1 DEF Terminal, Wanted, Unfinished, InProgress
  <2>2. CASE j.state \notin Terminal
    BY <1>9, <1>11, <2>2
  <2> QED
    BY <2>1, <2>2
<1>14. JobOK(i)'
  BY <1>1, <1>5, <1>6, <1>8, <1>11, <1>12, <1>13 DEF JobOK, CancelHeeded
<1> QED
  BY <1>1, <1>10, <1>14, OneJobTouched

LEMMA SendKeepsJobs ==
  ASSUME TypeOK, CommitInv, JobsInv, NEW i \in Ids, SendCommit(i)
  PROVE  JobsInv'
<1>1. /\ crashes' = crashes /\ issued' = issued /\ up' = up
      /\ UNCHANGED <<mem, disk, cut, hashes, media, failures>>
      /\ \A k \in Ids : run'[k] = IF k = i THEN "sent" ELSE run[k]
  BY DEF SendCommit, TypeOK, engineVars, importVars
<1>2. run[i] # "off"
  BY DEF SendCommit
<1>3. ASSUME NEW k \in Ids PROVE JobOK(k)'
  BY <1>1, <1>2 DEF JobsInv, JobOK, InBudget
<1> QED
  BY <1>1, <1>3 DEF JobsInv

LEMMA CrashKeepsJobs ==
  ASSUME TypeOK, JobsInv, Crash
  PROVE  JobsInv'
<1>1. mem' = disk /\ disk' = disk /\ ~up' /\ crashes' # 0 /\ \A k \in Ids : run'[k] = "off"
  BY BoundsAssumption DEF Crash, TypeOK
<1>2. \A k \in Ids : media[k] = "synced" => media'[k] = "synced"
  BY DEF Crash
<1>3. ASSUME NEW k \in Ids PROVE JobOK(k)'
  <2>1. InBudget(k)'
    <3>1. up /\ crashes' = crashes + 1 /\ issued' = issued /\ failures' = failures
      BY DEF Crash, ghostVars
    <3> QED
      BY <1>1, <3>1, CountsAreNat DEF JobsInv, JobOK, InBudget
  <2> QED
    BY <1>1, <1>2, <2>1 DEF JobsInv, JobOK
<1> QED
  BY <1>1, <1>3 DEF JobsInv

\* What Open makes of a job whose cancel requests are heeded.
LEMMA RecoveredFields ==
  ASSUME NEW m \in Stores, NEW k \in Ids
  PROVE  LET d == m.jobs[k]
             r == Recovered(m).jobs[k]
         IN  /\ r.state \notin InProgress \cup {"importing"}
             /\ r.cancelRequested = d.cancelRequested /\ (r.cancelRequested => r.state # "pending")
             /\ r.state \in {"pending", "failed"} <=> Wanted(d)
             /\ r.state = "pending" => d.state \in {"pending", "preparing", "uploading"}
             /\ Wanted(r) <=> Wanted(d)
             /\ d.state \in {"none", "completed"} => r.state = d.state
             /\ r.state \in {"none", "completed"} => d.state = r.state
             /\ r.state = "cancelled" \/ d.state \notin {"cancelled", "importing"}
             /\ r.sealed = d.sealed /\ r.item = d.item /\ r.originalPolicy = d.originalPolicy
             /\ r.attempts = d.attempts
<1> DEFINE d == m.jobs[k]
           s == IF d.cancelRequested /\ RecoveredState(d.state) = "pending"
                THEN "cancelled" ELSE RecoveredState(d.state)
<1>1. Recovered(m).jobs[k] = [d EXCEPT !.state = s]
  BY JobsReplaced DEF Recovered, RecoveredJob
<1>2. d \in Job /\ d.state \in JobStates
  BY JobOfStore, StateOfStore
<1>3. /\ s \notin InProgress \cup {"importing"}
      /\ d.cancelRequested => s # "pending"
      /\ s \in {"pending", "failed"} <=> Wanted(d)
      /\ s = "pending" => d.state \in {"pending", "preparing", "uploading"}
      /\ d.state \in {"none", "completed"} => s = d.state
      /\ s \in {"none", "completed"} => d.state = s
      /\ s = "cancelled" \/ d.state \notin {"cancelled", "importing"}
  BY <1>2 DEF RecoveredState, Wanted, JobStates, InProgress, Terminal
<1> HIDE DEF s
<1> DEFINE r == [d EXCEPT !.state = s]
<1>4. /\ r.state = s /\ r.cancelRequested = d.cancelRequested /\ r.sealed = d.sealed
      /\ r.item = d.item /\ r.originalPolicy = d.originalPolicy /\ r.attempts = d.attempts
  BY <1>2 DEF Job
<1> HIDE DEF r
<1>5. Wanted(r) <=> s \in {"pending", "failed"}
  BY <1>3, <1>4 DEF Wanted, InProgress
<1> QED
  BY <1>1, <1>3, <1>4, <1>5 DEF r

LEMMA OpenKeepsJobs ==
  ASSUME TypeOK, CommitInv, JobsInv, Open
  PROVE  JobsInv'
<1> DEFINE m == Recovered(disk)
           S == {k \in Ids : m.jobs[k].state \in Terminal}
<1>1. /\ UNCHANGED <<run, hashes, issued, failures, crashes>> /\ ~up /\ mem = disk
      /\ mem' = disk' /\ disk' \in {disk, m} /\ (up' => disk' = m)
      /\ media' \in Removed(media, S)
  BY DEF Open, runVars, ghostVars, JobsInv
<1>2. disk \in Stores /\ media \in Files /\ Active = {}
  BY <1>1 DEF TypeOK, Files, CommitInv
<1>3. ASSUME NEW k \in Ids PROVE JobOK(k)'
  <2> DEFINE d == disk.jobs[k]
             r == m.jobs[k]
  <2>1. /\ r.state \notin InProgress \cup {"importing"}
        /\ r.cancelRequested = d.cancelRequested /\ (r.cancelRequested => r.state # "pending")
        /\ r.state \in {"pending", "failed"} <=> Wanted(d)
        /\ Wanted(r) <=> Wanted(d)
        /\ d.state \in {"none", "completed"} => r.state = d.state
    BY <1>2, RecoveredFields
  <2>2. media'[k] = media[k] \/ ~Wanted(d)
    <3>1. k \in S => ~Wanted(d)
      BY <2>1 DEF Terminal
    <3>2. k \notin S => media'[k] = media[k]
      BY <1>1, <1>2, RemovedElsewhere
    <3> QED
      BY <3>1, <3>2
  <2>3. run'[k] = "off"
    BY <1>1, <1>2 DEF Active
  <2>4. disk'.jobs[k] \in {d, r} /\ mem'.jobs[k] = disk'.jobs[k] /\ (up' => mem'.jobs[k] = r)
    BY <1>1
  <2>5. JobOK(k) /\ mem.jobs[k] = d
    BY <1>1 DEF JobsInv
  <2>6. InBudget(k) /\ r.attempts = d.attempts
    BY <1>2, <2>5, RecoveredFields DEF JobOK
  <2> HIDE DEF d, r, m, S
  <2>7. InBudget(k)'
    <3>1. failures[k] \in Nat /\ crashes \in Nat /\ d.attempts \in Nat
      BY CountsAreNat DEF d
    <3>2. r.state = "pending" => d.state \in {"pending", "preparing", "uploading"}
      BY <1>2, RecoveredFields DEF d, r, m
    <3> QED
      BY <1>1, <2>1, <2>3, <2>4, <2>5, <2>6, <3>1, <3>2 DEF InBudget, InProgress, d
  <2>8. (CancelHeeded(mem.jobs[k]) /\ CancelHeeded(disk.jobs[k]))'
    BY <2>1, <2>4, <2>5 DEF JobOK, CancelHeeded, d
  <2>9. (Wanted(disk.jobs[k]) \/ (up /\ mem.jobs[k].state \in Unfinished) => media[k] = "synced")'
    BY <2>1, <2>2, <2>4, <2>5 DEF JobOK, Unfinished, d
  <2> QED
    BY <2>1, <2>3, <2>4, <2>7, <2>8, <2>9 DEF JobOK
<1> QED
  BY <1>1, <1>3 DEF JobsInv

LEMMA StepJobs ==
  TypeOK /\ CommitInv /\ DurableWhileServing /\ JobsInv /\ [Next]_vars => JobsInv'
<1> SUFFICES ASSUME TypeOK, CommitInv, DurableWhileServing, JobsInv, [Next]_vars PROVE JobsInv'
  OBVIOUS
<1> USE DEF engineVars, runVars, importVars, accountVars, ghostVars
<1>1. ASSUME NEW c \in ConditionSet, ReportConditions(c) PROVE JobsInv'
  BY <1>1, NoJobTouched DEF ReportConditions, Serving
<1>2. ASSUME NEW o \in OptionSet, Configure(o) PROVE JobsInv'
  <2>1. mem'.jobs = mem.jobs /\ disk'.jobs \in {disk.jobs, mem.jobs}
    <3>1. [mem EXCEPT !.options = o].jobs = mem.jobs
      BY DEF Stores, TypeOK
    <3> QED
      BY <1>2, <3>1, SaveOutcome DEF Configure
  <2>2. /\ up /\ up' /\ crashes' = crashes /\ issued' = issued
        /\ UNCHANGED <<run, hashes, media, failures>> /\ cut \cap Active \subseteq cut'
    BY <1>2 DEF Configure, Serving
  <2> QED
    BY <2>1, <2>2, NoJobTouched
<1>3. ASSUME NEW a \in Accounts, AddAccount(a) \/ RemoveAccount(a) PROVE JobsInv'
  BY <1>3, NoJobTouched DEF AddAccount, RemoveAccount, Serving
<1>4. CASE Close
  BY <1>4, NoJobTouched DEF Close
<1>5. ASSUME NEW w \in SUBSET NativeAccounts, AuthorizationChanges(w) PROVE JobsInv'
  BY <1>5, NoJobTouched DEF AuthorizationChanges
<1>6. CASE UNCHANGED vars
  <2>1. \A k \in Ids : JobOK(k)'
    BY <1>6 DEF vars, JobsInv, JobOK, InBudget
  <2> QED
    BY <1>6, <2>1 DEF vars, JobsInv
<1>7. ASSUME NEW i \in Ids, NEW o \in Outcomes, Finish(i, o) PROVE JobsInv'
  BY <1>7, FinishKeepsJobs
<1>8. ASSUME NEW i \in Ids, NEW phase \in InProgress, Progress(i, phase) PROVE JobsInv'
  BY <1>8, ProgressKeepsJobs
<1>9. CASE Request
  <2>1. ASSUME NEW S \in SUBSET Ids, RetryAll(S) PROVE JobsInv'
    BY <2>1, RetryKeepsJobs
  <2>2. ASSUME NEW i \in Ids, Retry(i) PROVE JobsInv'
    BY <2>1, <2>2 DEF Retry
  <2>3. CASE RetryFailed
    BY <2>1, <2>3 DEF RetryFailed
  <2> QED
    BY <1>1, <1>2, <1>3, <1>9, <2>2, <2>3, BeginKeepsJobs, AppendKeepsJobs, SealKeepsJobs,
       CancelKeepsJobs, ClearKeepsJobs DEF Request
<1> QED
  BY <1>4, <1>5, <1>6, <1>7, <1>8, <1>9, TickKeepsJobs, BackoffKeepsJobs, SendKeepsJobs,
     CrashKeepsJobs, OpenKeepsJobs DEF Next, Upload

\* The jobs of the first file: none, or one that an older build completed.
LEMMA FirstJobs ==
  ASSUME Init
  PROVE  \/ disk = NewStore /\ \A k \in Ids : disk.jobs[k] = Blank(AnItem)
         \/ \E x \in LegacyItems :
              /\ Listed(disk) = {1} /\ disk.jobs[1].state = "completed"
              /\ disk.jobs[1].item = x /\ disk.jobs[1].originalPolicy = 0
              /\ ~disk.jobs[1].cancelRequested /\ disk.jobs[1].sealed
              /\ \A k \in Ids \ {1} : disk.jobs[k] = Blank(AnItem)
<1>1. NewStore \in Stores /\ 1 \in Ids
  BY AnItemIsItem, BlankIsJob, OptionsAssumption, BoundsAssumption DEF NewStore, Stores, Ids
<1>2. \A k \in Ids : NewStore.jobs[k] = Blank(AnItem)
  BY DEF NewStore
<1>3. CASE disk = NewStore
  BY <1>2, <1>3
<1>4. CASE disk # NewStore
  <2> DEFINE j(x) == [Blank(x) EXCEPT !.state = "completed", !.attempts = 1, !.sealed = TRUE]
  <2>1. PICK x \in LegacyItems : disk = With(NewStore, 1, j(x))
    BY <1>4 DEF Init, LegacyStores
  <2>2. /\ j(x).state = "completed" /\ j(x).item = x /\ j(x).originalPolicy = 0
        /\ ~j(x).cancelRequested /\ j(x).sealed
    BY DEF Blank
  <2>3. \A k \in Ids : disk.jobs[k] = IF k = 1 THEN j(x) ELSE NewStore.jobs[k]
    BY <1>1, <2>1, WithJobs
  <2> HIDE DEF j
  <2>4. Blank(AnItem).state = "none"
    BY DEF Blank
  <2>5. Listed(disk) = {1}
    BY <1>1, <1>2, <2>2, <2>3, <2>4 DEF Listed
  <2> QED
    BY <1>1, <1>2, <2>2, <2>3, <2>5
<1> QED
  BY <1>3, <1>4

LEMMA InitJobs == Init => JobsInv
<1> SUFFICES ASSUME Init PROVE JobsInv
  OBVIOUS
<1>1. mem = disk /\ ~up /\ \A k \in Ids : run[k] = "off" /\ failures[k] = 0
  BY DEF Init
<1>2. Blank(AnItem).state = "none" /\ ~Blank(AnItem).cancelRequested
  BY DEF Blank
<1>3. ASSUME NEW k \in Ids
      PROVE  disk.jobs[k].state \in {"none", "completed"} /\ ~disk.jobs[k].cancelRequested
  BY <1>2, FirstJobs
<1>4. ASSUME NEW k \in Ids PROVE JobOK(k)
  BY <1>1, <1>3 DEF JobOK, CancelHeeded, Wanted, InBudget, InProgress
<1> QED
  BY <1>1, <1>4 DEF JobsInv

LEMMA JobsHold == Spec => [](TypeOK /\ CommitInv /\ JobsInv)
  BY InitJobs, StepJobs, LagHolds, PTL DEF Spec

\* A cancelled upload never returns to the queue by itself, at the end of its
\* goroutine or at a restart, and a running one has its context cut.
THEOREM CancelStays == Spec => []CancelIsFinal
<1>1. TypeOK /\ CommitInv /\ JobsInv => CancelIsFinal
  <2> SUFFICES ASSUME TypeOK, JobsInv, NEW k \in Ids
               PROVE  /\ mem.jobs[k].cancelRequested => mem.jobs[k].state # "pending"
                      /\ Recovered(disk).jobs[k].cancelRequested
                           => Recovered(disk).jobs[k].state # "pending"
                      /\ k \in Active /\ mem.jobs[k].cancelRequested => k \in cut
    BY DEF CancelIsFinal
  <2> QED
    BY RecoveredFields DEF TypeOK, JobsInv, JobOK, CancelHeeded, Active
<1> QED
  BY <1>1, JobsHold, PTL

\* append and seal find the hashes of every import they accept.
THEOREM HashesKept == Spec => []ImportsHaveHashes
<1>1. JobsInv => ImportsHaveHashes
  BY DEF JobsInv, JobOK, ImportsHaveHashes
<1> QED
  BY <1>1, JobsHold, PTL

\* A job in the queue has spent its retry budget on failed attempts, and on at
\* most one interrupted attempt for each death of the process.
THEOREM PausesAreFree == Spec => []BudgetKept
<1>1. TypeOK /\ CommitInv /\ JobsInv => BudgetKept
  BY CountsAreNat DEF JobsInv, JobOK, InBudget, BudgetKept
<1> QED
  BY <1>1, JobsHold, PTL

\* The end of an upload sets a backoff only when the retry budget is not spent.
LEMMA BackoffIsRetry ==
  ASSUME NEW j \in Job, NEW o, ~j.backoff, EndedJob(j, o).backoff
  PROVE  j.attempts <= mem.options.retries
<1>1. \A s \in JobStates : ~[j EXCEPT !.state = s].backoff
  BY DEF Job
<1> DEFINE n == IF j.attempts > 0 THEN j.attempts - 1 ELSE j.attempts
           u == [j EXCEPT !.state = "pending", !.attempts = n]
<1>2. Unspent(j) = u
  BY DEF Unspent
<1> HIDE DEF n
<1>3. ~u.backoff /\ ~[u EXCEPT !.backoff = FALSE].backoff
  BY DEF Job
<1> HIDE DEF u
<1> QED
  BY <1>1, <1>2, <1>3 DEF EndedJob, JobStates, Terminal

\* Automatic retries end: between two decisions of the user about a job, no more
\* of its attempts fail and are tried again than the options ever allow, across
\* pauses, closes, failed saves, crashes and changes of the options (execute).
THEOREM RetriesBounded ==
  ASSUME NEW n \in Nat, \A o \in OptionSet : o.retries <= n
  PROVE  Spec => [](\A i \in Ids : failures[i] <= n)
<1> DEFINE Few == \A i \in Ids : failures[i] <= n
<1>1. Init => Few
  BY DEF Init
<1>2. TypeOK /\ CommitInv /\ JobsInv /\ Few /\ [Next]_vars => Few'
  <2> SUFFICES ASSUME TypeOK, CommitInv, JobsInv, Few, [Next]_vars PROVE Few'
    OBVIOUS
  <2> USE DEF engineVars, runVars, importVars, accountVars, ghostVars
  <2>1. ASSUME NEW i \in Ids, NEW o \in Outcomes, Finish(i, o) PROVE Few'
    <3> DEFINE e == EndedJob(mem.jobs[i], o)
    <3>1. /\ run[i] # "off" /\ up /\ mem.jobs[i] \in Job
          /\ \A k \in Ids : failures'[k] = IF k = i /\ e.backoff THEN failures[k] + 1 ELSE failures[k]
      BY <2>1, JobOfStore DEF Finish, Active, CommitInv, TypeOK
    <3>2. /\ ~mem.jobs[i].backoff /\ failures[i] < mem.jobs[i].attempts
          /\ failures[i] \in Nat /\ mem.jobs[i].attempts \in Nat
      BY <3>1, OffUnlessInProgress, CountsAreNat DEF JobsInv, JobOK, InBudget
    <3>3. e.backoff => mem.jobs[i].attempts <= mem.options.retries
      BY <3>1, <3>2, BackoffIsRetry
    <3>4. mem.options.retries <= n /\ mem.options.retries \in Nat
      BY OptionsAssumption DEF TypeOK, Stores, Options
    <3> HIDE DEF e
    <3> QED
      BY <3>1, <3>2, <3>3, <3>4
  <2>2. ASSUME NEW S \in SUBSET Ids, RetryAll(S) PROVE Few'
    BY <2>2 DEF RetryAll
  <2>3. CASE Request
    BY <2>2, <2>3 DEF Request, Begin, AppendLast, Seal, Cancel, Retry, RetryFailed, ClearCompleted,
                      ReportConditions, Configure, AddAccount, RemoveAccount
  <2>4. CASE \/ \E i \in Ids : \/ BackoffEnds(i) \/ SendCommit(i)
                                \/ \E phase \in InProgress : Progress(i, phase)
             \/ \E w \in SUBSET NativeAccounts : AuthorizationChanges(w)
             \/ Tick \/ Close \/ Crash \/ Open \/ UNCHANGED vars
    BY <2>4 DEF Tick, BackoffEnds, Progress, SendCommit, Close, Crash, Open, AuthorizationChanges,
                vars
  <2> QED
    BY <2>1, <2>3, <2>4 DEF Next, Upload
<1> QED
  BY <1>1, <1>2, JobsHold, PTL DEF Spec

\* Whatever can still be uploaded, now or after a restart, has all its files, synced.
THEOREM FilesKept == Spec => []StagedFilesKept
<1>1. TypeOK /\ CommitInv /\ JobsInv => StagedFilesKept
  <2> SUFFICES ASSUME TypeOK, CommitInv, JobsInv, NEW k \in Ids,
                      \/ Recovered(disk).jobs[k].state \in {"pending", "failed"}
                      \/ mem.jobs[k].state \in {"pending", "failed"} \/ k \in Active
               PROVE  media[k] = "synced"
    BY DEF StagedFilesKept
  <2>1. CASE Recovered(disk).jobs[k].state \in {"pending", "failed"}
    BY <2>1, RecoveredFields DEF TypeOK, JobsInv, JobOK
  <2>2. CASE up
    BY <2>1, <2>2, OffUnlessInProgress DEF JobsInv, JobOK, Unfinished, Active
  <2>3. CASE ~up
    BY <2>1, <2>3 DEF JobsInv, JobOK, CancelHeeded, Wanted, CommitInv
  <2> QED
    BY <2>2, <2>3
<1> QED
  BY <1>1, JobsHold, PTL

-----------------------------------------------------------------------------
(* A recorded cancel request stops the commit request *)

\* A running upload whose file asks for a cancel knows of it in memory.
Recalled == \A k \in Ids : run[k] # "off" /\ disk.jobs[k].cancelRequested
                              => mem.jobs[k].cancelRequested

\* A step after which each running job still knows what its file asks.
LEMMA StillRecalled ==
  ASSUME Recalled,
         \A k \in Ids : run'[k] # "off" =>
           /\ run[k] # "off" \/ disk.jobs[k].cancelRequested = mem.jobs[k].cancelRequested
           /\ mem.jobs[k].cancelRequested => mem'.jobs[k].cancelRequested
           /\ disk'.jobs[k].cancelRequested
                => disk.jobs[k].cancelRequested \/ mem'.jobs[k].cancelRequested
  PROVE  Recalled'
  BY DEF Recalled

\* A saved change of one job that withdraws no cancel request, or of one that does not run.
LEMMA SaveRecalls ==
  ASSUME TypeOK, Recalled, NEW i \in Ids, NEW j, Save(With(mem, i, j)),
         run'[i] = "off" \/ (mem.jobs[i].cancelRequested => j.cancelRequested),
         \A k \in Ids : run'[k] # "off" => run[k] # "off"
  PROVE  Recalled'
<1>1. /\ mem'.jobs[i] = j /\ disk'.jobs[i] \in {disk.jobs[i], j}
      /\ \A k \in Ids \ {i} : /\ mem'.jobs[k] = mem.jobs[k]
                              /\ disk'.jobs[k] \in {disk.jobs[k], mem.jobs[k]}
  BY OneJobSaved
<1> QED
  BY <1>1, StillRecalled

\* A change of some jobs none of which runs.
LEMMA ManyRecall ==
  ASSUME Recalled, mem = disk, run' = run, disk' \in {disk, mem'},
         \A k \in Ids : run[k] # "off" => mem'.jobs[k] = mem.jobs[k]
  PROVE  Recalled'
  BY StillRecalled

LEMMA RequestRecalls ==
  ASSUME TypeOK, CommitInv, DurableWhileServing, Recalled, Request
  PROVE  Recalled'
<1> USE DEF engineVars, runVars, importVars, accountVars, ghostVars
<1>0. mem \in Stores /\ disk \in Stores /\ issued \in Nat
  BY BoundsAssumption DEF TypeOK
<1>1. ASSUME UNCHANGED <<mem, disk, run>> PROVE Recalled'
  BY <1>1 DEF Recalled
<1>2. ASSUME NEW x \in Items, Begin(x) PROVE Recalled'
  <2> DEFINE i == issued + 1
             j == [Blank(x) EXCEPT !.state = "importing"]
  <2>1. i \in Ids /\ Save(With(mem, i, j)) /\ UNCHANGED run
    BY <1>2 DEF Begin
  <2>2. mem.jobs[i].state = "none"
    BY <1>0, <2>1 DEF CommitInv, NeverBegun
  <2>3. run[i] = "off"
    BY <2>1, <2>2, OffUnlessInProgress DEF InProgress
  <2> HIDE DEF i, j
  <2> QED
    BY <2>1, <2>3, SaveRecalls
<1>3. ASSUME NEW i \in Ids, Seal(i) PROVE Recalled'
  <2> DEFINE queued == [mem.jobs[i] EXCEPT !.sealed = TRUE, !.state = "pending"]
             dropped == [mem.jobs[i] EXCEPT !.state = "cancelled"]
  <2>1. mem.jobs[i].state = "importing" /\ UNCHANGED run
    BY <1>3 DEF Seal
  <2>2. Save(With(mem, i, queued)) \/ Save(With(mem, i, dropped))
    BY <1>3, SaveThenRemoveIsSave DEF Seal
  <2>3. run[i] = "off"
    BY <2>1, OffUnlessInProgress DEF InProgress
  <2> HIDE DEF queued, dropped
  <2> QED
    BY <2>1, <2>2, <2>3, SaveRecalls
<1>4. ASSUME NEW i \in Ids, Cancel(i) PROVE Recalled'
  <2> DEFINE j == [mem.jobs[i] EXCEPT !.cancelRequested = TRUE]
             dropped == [j EXCEPT !.state = "cancelled"]
  <2>1. Save(With(mem, i, j)) \/ Save(With(mem, i, dropped))
    BY <1>4, SaveThenRemoveIsSave DEF Cancel
  <2>2. j.cancelRequested /\ dropped.cancelRequested
    BY <1>0, JobOfStore DEF Job
  <2>3. run' = run
    BY <1>4 DEF Cancel
  <2> HIDE DEF j, dropped
  <2> QED
    BY <2>1, <2>2, <2>3, SaveRecalls
<1>5. ASSUME NEW S \in SUBSET Ids, RetryAll(S) PROVE Recalled'
  <2> DEFINE js == [k \in Ids |-> IF k \in S THEN ResetRetry(mem.jobs[k]) ELSE mem.jobs[k]]
  <2>1. mem' = [mem EXCEPT !.jobs = js] /\ disk' \in {disk, mem'}
    BY <1>5, SaveOutcome DEF RetryAll
  <2>2. mem'.jobs = js
    BY <1>0, <2>1, JobsReplaced
  <2>3. run' = run /\ mem = disk /\ \A k \in S : run[k] = "off"
    BY <1>5, OffUnlessInProgress DEF RetryAll, Retryable, DurableWhileServing, InProgress
  <2> QED
    BY <2>1, <2>2, <2>3, ManyRecall
<1>6. CASE ClearCompleted
  <2> DEFINE done == {k \in Ids : mem.jobs[k].state \in Terminal}
             js == [k \in Ids |-> IF k \in done THEN Blank(AnItem) ELSE mem.jobs[k]]
  <2>1. mem' = [mem EXCEPT !.jobs = js] /\ disk' \in {disk, mem'}
    BY <1>6, SaveOutcome DEF ClearCompleted
  <2>2. mem'.jobs = js
    BY <1>0, <2>1, JobsReplaced
  <2>3. run' = run /\ mem = disk /\ \A k \in done : run[k] = "off"
    BY <1>6, OffUnlessInProgress DEF ClearCompleted, DurableWhileServing, Terminal, InProgress
  <2> HIDE DEF done
  <2> QED
    BY <2>1, <2>2, <2>3, ManyRecall
<1>7. ASSUME NEW o \in OptionSet, Configure(o) PROVE Recalled'
  <2>1. mem'.jobs = mem.jobs /\ disk' \in {disk, mem'} /\ mem = disk /\ run' = run
    <3>1. [mem EXCEPT !.options = o].jobs = mem.jobs
      BY <1>0 DEF Stores
    <3> QED
      BY <1>7, <3>1, SaveOutcome DEF Configure, DurableWhileServing
  <2> QED
    BY <2>1, ManyRecall
<1>8. ASSUME \/ \E i \in Ids : AppendLast(i)
             \/ \E c \in ConditionSet : ReportConditions(c)
             \/ \E a \in Accounts : AddAccount(a) \/ RemoveAccount(a)
      PROVE  UNCHANGED <<mem, disk, run>>
  BY <1>8 DEF AppendLast, ReportConditions, AddAccount, RemoveAccount
<1> QED
  BY <1>1, <1>2, <1>3, <1>4, <1>5, <1>6, <1>7, <1>8 DEF Request, Retry, RetryFailed

LEMMA TickRecalls ==
  ASSUME TypeOK, CommitInv, DurableWhileServing, Recalled, Tick
  PROVE  Recalled'
<1>1. mem = disk
  BY TickOutcome
<1>2. PICK S \in SUBSET Chosen, L \in SUBSET Chosen :
        mem' = Started(S) /\ disk' \in {mem', Started(L)} /\ Launch(L)
  BY TickOutcome
<1>3. \A k \in Ids : /\ mem'.jobs[k].cancelRequested = mem.jobs[k].cancelRequested
                     /\ Started(L).jobs[k].cancelRequested = mem.jobs[k].cancelRequested
  BY <1>2, StartedJobs
<1> QED
  BY <1>1, <1>2, <1>3, StillRecalled

LEMMA UploadRecalls ==
  ASSUME TypeOK, CommitInv, Recalled, NEW i \in Ids, Upload(i)
  PROVE  Recalled'
<1> USE DEF engineVars, runVars, importVars, accountVars, ghostVars
<1>0. mem \in Stores /\ disk \in Stores /\ mem.jobs[i] \in Job
  BY JobOfStore DEF TypeOK
<1>1. ASSUME NEW phase \in InProgress, Progress(i, phase) PROVE Recalled'
  <2>1. Save(With(mem, i, [mem.jobs[i] EXCEPT !.state = phase]))
    BY <1>1 DEF Progress, Save
  <2>2. [mem.jobs[i] EXCEPT !.state = phase].cancelRequested = mem.jobs[i].cancelRequested
    BY <1>0 DEF Job
  <2>3. \A k \in Ids : run'[k] # "off" => run[k] # "off"
    BY <1>1 DEF Progress, TypeOK
  <2> QED
    BY <2>1, <2>2, <2>3, SaveRecalls
<1>2. CASE SendCommit(i)
  <2>1. UNCHANGED <<mem, disk>> /\ \A k \in Ids : run'[k] # "off" => run[k] # "off"
    BY <1>2 DEF SendCommit, TypeOK
  <2> QED
    BY <2>1, StillRecalled
<1>3. ASSUME NEW o \in Outcomes, Finish(i, o) PROVE Recalled'
  <2> DEFINE j == EndedJob(mem.jobs[i], o)
             w == With(mem, i, j)
             m == [w EXCEPT !.rev = IF o = "key" THEN w.rev + 1 ELSE w.rev]
  <2>1. m.jobs = w.jobs
    BY <1>0 DEF With, Stores
  <2>2. mem' = m /\ disk' \in {disk, mem'}
    BY <1>3, SaveThenRemoveIsSave, SaveOutcome DEF Finish
  <2>3. \A k \in Ids \ {i} : mem'.jobs[k] = mem.jobs[k]
    BY <1>0, <2>1, <2>2, WithJobs
  <2>4. \A k \in Ids : run'[k] = IF k = i THEN "off" ELSE run[k]
    BY <1>3 DEF Finish, TypeOK
  <2> HIDE DEF m
  <2> QED
    BY <2>2, <2>3, <2>4, StillRecalled
<1> QED
  BY <1>1, <1>2, <1>3 DEF Upload

LEMMA StepRecalls ==
  TypeOK /\ CommitInv /\ DurableWhileServing /\ Recalled /\ [Next]_vars => Recalled'
<1> SUFFICES ASSUME TypeOK, CommitInv, DurableWhileServing, Recalled, [Next]_vars
             PROVE  Recalled'
  OBVIOUS
<1> USE DEF engineVars, runVars, importVars, accountVars, ghostVars
<1>1. ASSUME NEW i \in Ids, BackoffEnds(i) PROVE Recalled'
  <2>1. ASSUME NEW m \in Stores, NEW k \in Ids
        PROVE  With(m, i, [m.jobs[i] EXCEPT !.backoff = FALSE]).jobs[k].cancelRequested
                 = m.jobs[k].cancelRequested
    BY JobOfStore, WithJobs DEF Job
  <2> QED
    BY <1>1, <2>1 DEF BackoffEnds, Recalled, TypeOK
<1>2. CASE Crash
  BY <1>2 DEF Crash, Recalled
<1>3. CASE Open
  BY <1>3 DEF Open, CommitInv, Active, Recalled
<1>4. ASSUME Close \/ (\E w \in SUBSET NativeAccounts : AuthorizationChanges(w)) \/ UNCHANGED vars
      PROVE  Recalled'
  BY <1>4 DEF Close, AuthorizationChanges, vars, Recalled
<1> QED
  BY <1>1, <1>2, <1>3, <1>4, RequestRecalls, TickRecalls, UploadRecalls DEF Next

LEMMA RecalledHolds == Spec => []Recalled
<1>1. Init => Recalled
  BY DEF Init, Recalled
<1> QED
  BY <1>1, StepRecalls, JobsHold, LagHolds, PTL DEF Spec

\* Once the file records that the user wants an upload cancelled, no commit request
\* leaves for it until the user retries it: not from the goroutine that runs, however
\* far it has come, nor after a failed save, a pause or a restart (cancel, execute,
\* contextTransport, Open).
THEOREM CancelStopsCommit ==
  Spec => [][\A i \in Ids : disk.jobs[i].cancelRequested => sent'[i] <= sent[i]]_vars
<1>1. TypeOK /\ JobsInv /\ Recalled /\ [Next]_vars
        => [\A i \in Ids : disk.jobs[i].cancelRequested => sent'[i] <= sent[i]]_vars
  <2> SUFFICES ASSUME TypeOK, JobsInv, Recalled, Next,
                      NEW i \in Ids, disk.jobs[i].cancelRequested
               PROVE  sent'[i] <= sent[i]
    OBVIOUS
  <2> USE DEF engineVars, runVars, importVars, accountVars, ghostVars
  <2>1. sent[i] \in Nat /\ sent[i] >= 0
    BY DEF TypeOK
  <2>2. ASSUME NEW k \in Ids, SendCommit(k) PROVE k # i /\ sent'[i] = sent[i]
    <3>1. run[k] # "off" /\ k \notin cut
      BY <2>2 DEF SendCommit
    <3>2. k # i
      BY <3>1 DEF Recalled, JobsInv, JobOK
    <3> QED
      BY <2>2, <3>2 DEF SendCommit, TypeOK
  <2>3. ASSUME NEW S \in SUBSET Ids, RetryAll(S) PROVE sent'[i] \in {0, sent[i]}
    BY <2>3 DEF RetryAll
  <2>4. ASSUME Request PROVE sent' = sent \/ \E S \in SUBSET Ids : RetryAll(S)
    <3>1. CASE RetryFailed \/ \E k \in Ids : Retry(k)
      BY <3>1 DEF Retry, RetryFailed
    <3>2. CASE \/ \E x \in Items : Begin(x)
               \/ \E k \in Ids : AppendLast(k) \/ Seal(k) \/ Cancel(k)
               \/ ClearCompleted
               \/ \E c \in ConditionSet : ReportConditions(c)
               \/ \E o \in OptionSet : Configure(o)
               \/ \E a \in Accounts : AddAccount(a) \/ RemoveAccount(a)
      BY <3>2 DEF Begin, AppendLast, Seal, Cancel, ClearCompleted, ReportConditions, Configure,
                  AddAccount, RemoveAccount
    <3> QED
      BY <2>4, <3>1, <3>2 DEF Request
  <2>5. ASSUME NEW k \in Ids, NEW phase \in InProgress, Progress(k, phase) PROVE sent' = sent
    BY <2>5 DEF Progress
  <2>6. ASSUME NEW k \in Ids, NEW o \in Outcomes, Finish(k, o) PROVE sent' = sent
    BY <2>6 DEF Finish
  <2>7. ASSUME \/ \E k \in Ids : BackoffEnds(k)
               \/ \E w \in SUBSET NativeAccounts : AuthorizationChanges(w)
               \/ Tick \/ Close \/ Crash \/ Open
        PROVE  sent' = sent
    BY <2>7 DEF Tick, BackoffEnds, Close, Crash, Open, AuthorizationChanges
  <2>8. sent'[i] \in {0, sent[i]}
    BY <2>2, <2>3, <2>4, <2>5, <2>6, <2>7 DEF Next, Upload
  <2> QED
    BY <2>1, <2>8
<1> QED
  BY <1>1, JobsHold, RecalledHolds, PTL DEF Spec

-----------------------------------------------------------------------------
(* The list: one job per item, its accounts, and its limit *)

\* An original that this build uploads or completed is marked as such; only the
\* job an older build left may be completed without the mark.
Policy(m, k) ==
  LET j == m.jobs[k]
  IN  j.state \in InProgress \cup {"completed"} /\ j.item.quality = "original"
        => \/ j.originalPolicy = 1
           \/ k = 1 /\ j.item \in LegacyItems /\ j.state = "completed"

\* The jobs a sealed import may repeat.
Standing(m, k) == m.jobs[k].sealed /\ m.jobs[k].state \notin {"none", "cancelled"}

\* The completion of an older build.
LeftOver(m, k) == /\ k = 1 /\ m.jobs[k].item \in LegacyItems
                  /\ m.jobs[k].state = "completed" /\ m.jobs[k].originalPolicy = 0

Distinct(m) ==
  \A i, k \in Ids : Standing(m, i) /\ Standing(m, k) /\ i < k /\ m.jobs[i].item = m.jobs[k].item
                      => LeftOver(m, i)

\* A job beyond its import has its fingerprint.
Fingerprinted(m, k) == m.jobs[k].state \notin {"none", "importing", "cancelled"} => m.jobs[k].sealed

\* A job that may still need credentials has them.
Owned(m, k) == m.jobs[k].state \notin Terminal \cup {"none"} => m.jobs[k].item.account \in accounts

StoreOK(m) == /\ \A k \in Ids : Policy(m, k) /\ Fingerprinted(m, k) /\ Owned(m, k)
              /\ Distinct(m)
              /\ Cardinality(Listed(m)) <= MaxJobs

\* A change of a job that adds nothing to what a sealed import may repeat.
Tame(j, l) ==
  \/ l.state = "none"
  \/ /\ j.state # "none" /\ l.item = j.item
     /\ \/ l.state = "cancelled"
        \/ /\ l.sealed = j.sealed /\ j.state # "cancelled"
           /\ l.state = j.state \/ j.state # "importing"
           /\ l.state = j.state \/ j.state \notin {"completed"}
           /\ l.originalPolicy = j.originalPolicy \/ (l.originalPolicy = 1 /\ j.state # "completed")
     /\ l.state \in InProgress \cup {"completed"}
          => \/ j.state \in InProgress \cup {"completed"}
             \/ l.item.quality # "original" \/ l.originalPolicy = 1

LEMMA ListedIsFinite ==
  ASSUME NEW m
  PROVE  IsFiniteSet(Listed(m)) /\ Cardinality(Listed(m)) \in Nat
<1>1. IsFiniteSet(Ids)
  BY FS_Interval, BoundsAssumption DEF Ids
<1>2. Listed(m) \in SUBSET Ids
  BY DEF Listed
<1> QED
  BY <1>1, <1>2, FS_Subset, FS_CardinalityType

\* Tame changes of any number of jobs keep the list in order.
LEMMA TameKeepsStore ==
  ASSUME NEW m, NEW l, StoreOK(m), \A k \in Ids : Tame(m.jobs[k], l.jobs[k])
  PROVE  StoreOK(l)
<1>1. ASSUME NEW k \in Ids PROVE Policy(l, k)
  BY DEF StoreOK, Policy, Tame, InProgress
<1>8. ASSUME NEW k \in Ids PROVE Fingerprinted(l, k) /\ Owned(l, k)
  BY DEF StoreOK, Fingerprinted, Owned, Tame, Terminal
<1>2. ASSUME NEW k \in Ids, Standing(l, k)
      PROVE  /\ Standing(m, k) /\ l.jobs[k].item = m.jobs[k].item
             /\ LeftOver(m, k) => LeftOver(l, k)
  BY <1>2 DEF Standing, Tame, LeftOver
<1>3. Distinct(l)
  BY <1>2 DEF StoreOK, Distinct
<1>4. Listed(l) \in SUBSET Listed(m)
  BY DEF Listed, Tame
<1>5. Cardinality(Listed(l)) <= Cardinality(Listed(m))
  BY <1>4, ListedIsFinite, FS_Subset
<1>6. Cardinality(Listed(l)) \in Nat /\ Cardinality(Listed(m)) \in Nat
  BY ListedIsFinite
<1>7. Cardinality(Listed(l)) <= MaxJobs
  BY <1>5, <1>6, BoundsAssumption DEF StoreOK
<1> QED
  BY <1>1, <1>3, <1>7, <1>8 DEF StoreOK

LEMMA SameIsTame == \A j : Tame(j, j)
  BY DEF Tame

\* A tame change of one job.
LEMMA TameChange ==
  ASSUME NEW m \in Stores, StoreOK(m), NEW i \in Ids, NEW j, Tame(m.jobs[i], j)
  PROVE  StoreOK(With(m, i, j))
<1>1. \A k \in Ids : Tame(m.jobs[k], With(m, i, j).jobs[k])
  BY WithJobs, SameIsTame
<1> QED
  BY <1>1, TameKeepsStore

StoresOK == StoreOK(mem) /\ StoreOK(disk)

\* Stores in order stay so while no account goes.
LEMMA AccountsStay ==
  ASSUME StoreOK(mem'), StoreOK(disk'), accounts \subseteq accounts'
  PROVE  StoresOK'
  BY DEF StoresOK, StoreOK, Owned

\* A saved tame change of one job.
LEMMA TameSave ==
  ASSUME TypeOK, StoresOK, NEW i \in Ids, NEW j, Save(With(mem, i, j)), Tame(mem.jobs[i], j),
         accounts' = accounts
  PROVE  StoresOK'
<1>1. StoreOK(With(mem, i, j))
  BY TameChange DEF TypeOK, StoresOK
<1>2. mem' = With(mem, i, j) /\ disk' \in {disk, mem'}
  BY SaveOutcome
<1> QED
  BY <1>1, <1>2, AccountsStay DEF StoresOK

LEMMA BeginKeepsStores ==
  ASSUME TypeOK, CommitInv, StoresOK, NEW x \in Items, Begin(x)
  PROVE  StoresOK'
<1> DEFINE j == [Blank(x) EXCEPT !.state = "importing"]
<1>0. PICK i \in Ids : i = issued + 1
  BY DEF Begin
<1>1. /\ Save(With(mem, i, j)) /\ HasRoom /\ issued \in Nat
      /\ x.account \in accounts /\ accounts' = accounts
  BY <1>0, BoundsAssumption DEF Begin, TypeOK, accountVars
<1>2. mem.jobs[i].state = "none"
  BY <1>0, <1>1 DEF CommitInv, NeverBegun
<1>3. j.state = "importing" /\ ~j.sealed /\ j.item = x
  BY DEF Blank
<1> HIDE DEF j
<1> DEFINE m == With(mem, i, j)
<1>4. \A k \in Ids : m.jobs[k] = IF k = i THEN j ELSE mem.jobs[k]
  BY WithJobs DEF TypeOK
<1> HIDE DEF m
<1>5. \A k \in Ids : Policy(m, k) /\ Fingerprinted(m, k) /\ Owned(m, k)
  BY <1>1, <1>3, <1>4 DEF StoresOK, StoreOK, Policy, Fingerprinted, Owned, InProgress
<1>6. Distinct(m)
  BY <1>3, <1>4 DEF StoresOK, StoreOK, Distinct, Standing, LeftOver
<1>7. Listed(m) = Listed(mem) \cup {i} /\ i \notin Listed(mem)
  BY <1>2, <1>3, <1>4 DEF Listed
<1>8. Cardinality(Listed(m)) = Cardinality(Listed(mem)) + 1 /\ Cardinality(Listed(mem)) \in Nat
  BY <1>7, ListedIsFinite, FS_AddElement
<1>9. Cardinality(Listed(m)) <= MaxJobs
  BY <1>1, <1>8, BoundsAssumption DEF HasRoom
<1>10. StoreOK(m)
  BY <1>5, <1>6, <1>9 DEF StoreOK
<1>11. mem' = m /\ disk' \in {disk, mem'}
  BY <1>1, SaveOutcome DEF m
<1> QED
  BY <1>1, <1>10, <1>11, AccountsStay DEF StoresOK

LEMMA SealKeepsStores ==
  ASSUME TypeOK, StoresOK, NEW i \in Ids, Seal(i)
  PROVE  StoresOK'
<1> DEFINE queued  == [mem.jobs[i] EXCEPT !.sealed = TRUE, !.state = "pending"]
           dropped == [mem.jobs[i] EXCEPT !.state = "cancelled"]
<1>1. /\ mem.jobs[i].state = "importing" /\ mem \in Stores /\ mem.jobs[i] \in Job
      /\ accounts' = accounts
  BY JobOfStore DEF Seal, TypeOK, accountVars
<1>2. /\ queued.state = "pending" /\ queued.item = mem.jobs[i].item /\ queued.sealed
      /\ dropped.state = "cancelled" /\ dropped.item = mem.jobs[i].item
  BY <1>1 DEF Job
<1> HIDE DEF queued, dropped
<1>3. CASE Save(With(mem, i, dropped))
  <2>1. Tame(mem.jobs[i], dropped)
    BY <1>1, <1>2 DEF Tame, InProgress
  <2> QED
    BY <1>1, <1>3, <2>1, TameSave
<1>4. CASE Duplicates(i) = {} /\ Save(With(mem, i, queued))
  <2> DEFINE m == With(mem, i, queued)
  <2>1. \A k \in Ids : m.jobs[k] = IF k = i THEN queued ELSE mem.jobs[k]
    BY <1>1, WithJobs
  <2> HIDE DEF m
  <2>2. \A k \in Ids : Policy(m, k) /\ Fingerprinted(m, k) /\ Owned(m, k)
    BY <1>1, <1>2, <2>1
       DEF StoresOK, StoreOK, Policy, Fingerprinted, Owned, InProgress, Terminal
\* A copy the loop of seal passes over is the completion of an older build.
  <2>3. ASSUME NEW k \in Ids, k # i, Standing(mem, k), mem.jobs[k].item = mem.jobs[i].item
        PROVE  LeftOver(mem, k)
    <3>1. k \in Listed(mem) \ {i} /\ k \notin Duplicates(i)
      BY <1>4, <2>3 DEF Standing, Listed
    <3>2. /\ mem.jobs[k].item.quality = "original"
          /\ mem.jobs[k].state = "completed" /\ mem.jobs[k].originalPolicy = 0
      BY <2>3, <3>1 DEF Duplicates, Standing
    <3>3. Policy(mem, k)
      BY DEF StoresOK, StoreOK
    <3> QED
      BY <3>2, <3>3 DEF Policy, LeftOver
  <2>4. ASSUME NEW a \in Ids, NEW b \in Ids, Standing(m, a), Standing(m, b), a < b,
               m.jobs[a].item = m.jobs[b].item
        PROVE  LeftOver(m, a)
    <3>1. CASE a # i /\ b # i
      BY <2>1, <2>4, <3>1 DEF StoresOK, StoreOK, Distinct, Standing, LeftOver
    <3>2. CASE a = i
      <4>1. LeftOver(mem, b)
        BY <1>2, <2>1, <2>3, <2>4, <3>2 DEF Standing, Ids
      <4> QED
        BY <2>4, <3>2, <4>1 DEF LeftOver, Ids
    <3>3. CASE b = i /\ a # i
      <4>1. LeftOver(mem, a)
        BY <1>2, <2>1, <2>3, <2>4, <3>3 DEF Standing
      <4> QED
        BY <2>1, <3>3, <4>1 DEF LeftOver
    <3> QED
      BY <3>1, <3>2, <3>3
  <2>5. Listed(m) = Listed(mem)
    BY <1>1, <1>2, <2>1 DEF Listed
  <2>6. StoreOK(m)
    BY <2>2, <2>4, <2>5 DEF StoreOK, StoresOK, Distinct
  <2>7. mem' = m /\ disk' \in {disk, mem'}
    BY <1>4, SaveOutcome DEF m
  <2> QED
    BY <1>1, <2>6, <2>7, AccountsStay DEF StoresOK
<1> QED
  BY <1>3, <1>4, SaveThenRemoveIsSave DEF Seal, queued, dropped

LEMMA CancelKeepsStores ==
  ASSUME TypeOK, StoresOK, NEW i \in Ids, Cancel(i)
  PROVE  StoresOK'
<1> DEFINE j       == [mem.jobs[i] EXCEPT !.cancelRequested = TRUE]
           dropped == [j EXCEPT !.state = "cancelled"]
<1>1. mem.jobs[i] \in Job /\ mem.jobs[i].state \notin {"none", "completed", "cancelled"}
  BY JobOfStore DEF Cancel, Live, Listed, Terminal, TypeOK
<1>2. Tame(mem.jobs[i], j) /\ Tame(mem.jobs[i], dropped)
  BY <1>1 DEF Job, Tame, InProgress
<1>3. Save(With(mem, i, j)) \/ Save(With(mem, i, dropped))
  BY SaveThenRemoveIsSave DEF Cancel
<1>4. accounts' = accounts
  BY DEF Cancel, accountVars
<1> HIDE DEF j, dropped
<1> QED
  BY <1>2, <1>3, <1>4, TameSave

\* Retries and clear_completed change many jobs in one save.
LEMMA ManyKeepStores ==
  ASSUME TypeOK, StoresOK, (\E S \in SUBSET Ids : RetryAll(S)) \/ ClearCompleted
  PROVE  StoresOK'
<1>1. mem \in Stores /\ accounts' = accounts
  BY DEF TypeOK, RetryAll, ClearCompleted, accountVars
<1>2. CASE \E S \in SUBSET Ids : RetryAll(S)
  <2>1. PICK S \in SUBSET Ids : RetryAll(S)
    BY <1>2
  <2> DEFINE js == [k \in Ids |-> IF k \in S THEN ResetRetry(mem.jobs[k]) ELSE mem.jobs[k]]
  <2>2. mem' = [mem EXCEPT !.jobs = js] /\ disk' \in {disk, mem'}
    BY <2>1, SaveOutcome DEF RetryAll
  <2>3. mem'.jobs = js
    BY <1>1, <2>2, JobsReplaced
  <2>4. \A j \in Job : j.state = "failed" => Tame(j, ResetRetry(j))
    BY DEF ResetRetry, Job, Tame, InProgress
  <2>5. \A k \in Ids : Tame(mem.jobs[k], mem'.jobs[k])
    BY <1>1, <2>1, <2>3, <2>4, SameIsTame, JobOfStore DEF RetryAll, Retryable
  <2> QED
    BY <1>1, <2>2, <2>5, TameKeepsStore, AccountsStay DEF StoresOK
<1>3. CASE ClearCompleted
  <2> DEFINE done == {k \in Ids : mem.jobs[k].state \in Terminal}
             js == [k \in Ids |-> IF k \in done THEN Blank(AnItem) ELSE mem.jobs[k]]
  <2>1. mem' = [mem EXCEPT !.jobs = js] /\ disk' \in {disk, mem'}
    BY <1>3, SaveOutcome DEF ClearCompleted
  <2>2. mem'.jobs = js
    BY <1>1, <2>1, JobsReplaced
  <2>3. Blank(AnItem).state = "none"
    BY DEF Blank
  <2>4. \A k \in Ids : Tame(mem.jobs[k], mem'.jobs[k])
    BY <2>2, <2>3, SameIsTame DEF Tame
  <2> QED
    BY <1>1, <2>1, <2>4, TameKeepsStore, AccountsStay DEF StoresOK
<1> QED
  BY <1>2, <1>3

LEMMA TickKeepsStores ==
  ASSUME TypeOK, CommitInv, DurableWhileServing, StoresOK, Tick
  PROVE  StoresOK'
<1>1. PICK S \in SUBSET Chosen, L \in SUBSET Chosen :
        /\ mem' = Started(S) /\ disk' \in {mem', Started(L)}
        /\ L \subseteq S /\ \A k \in S : k \in Ids /\ mem.jobs[k].state = "pending"
  BY TickOutcome
<1>2. ASSUME NEW R \in SUBSET S PROVE StoreOK(Started(R))
  <2>1. ASSUME NEW k \in Ids PROVE Tame(mem.jobs[k], Started(R).jobs[k])
    <3>1. CASE k \notin R
      BY <3>1, StartedJobs, SameIsTame
    <3>2. CASE k \in R
      <4>1. mem.jobs[k].state = "pending"
        BY <1>1, <3>2
      <4>2. /\ Started(R).jobs[k].state = "preparing"
            /\ Started(R).jobs[k].sealed = mem.jobs[k].sealed
            /\ Started(R).jobs[k].item = mem.jobs[k].item
            /\ Started(R).jobs[k].originalPolicy \in {mem.jobs[k].originalPolicy, 1}
            /\ mem.jobs[k].item.quality # "original" \/ Started(R).jobs[k].originalPolicy = 1
        BY <3>2, StartedJobs
      <4> QED
        BY <4>1, <4>2 DEF Tame, InProgress
    <3> QED
      BY <3>1, <3>2
  <2> QED
    BY <2>1, TameKeepsStore DEF StoresOK
<1>3. accounts' = accounts
  BY DEF Tick, accountVars
<1> QED
  BY <1>1, <1>2, <1>3, AccountsStay DEF StoresOK

LEMMA UploadKeepsStores ==
  ASSUME TypeOK, CommitInv, StoresOK, NEW i \in Ids, Upload(i)
  PROVE  StoresOK'
<1>1. mem \in Stores /\ mem.jobs[i] \in Job /\ accounts' = accounts
  BY JobOfStore DEF TypeOK, Upload, Progress, SendCommit, Finish, accountVars
<1>2. ASSUME NEW phase \in InProgress, Progress(i, phase) PROVE StoresOK'
  <2>1. mem.jobs[i].state \in InProgress
    BY <1>2, OffUnlessInProgress DEF Progress
  <2>2. Tame(mem.jobs[i], [mem.jobs[i] EXCEPT !.state = phase])
    BY <1>1, <2>1 DEF Job, Tame, InProgress
  <2>3. Save(With(mem, i, [mem.jobs[i] EXCEPT !.state = phase]))
    BY <1>2 DEF Progress, Save
  <2> QED
    BY <1>1, <2>2, <2>3, TameSave
<1>3. ASSUME SendCommit(i) PROVE StoresOK'
  BY <1>1, <1>3, AccountsStay DEF SendCommit, StoresOK
<1>4. ASSUME NEW o \in Outcomes, Finish(i, o) PROVE StoresOK'
  <2> DEFINE j == EndedJob(mem.jobs[i], o)
             w == With(mem, i, j)
             m == [w EXCEPT !.rev = IF o = "key" THEN w.rev + 1 ELSE w.rev]
  <2>1. m.jobs = w.jobs
    BY <1>1 DEF With, Stores
  <2>2. mem' = m /\ disk' \in {disk, mem'}
    BY <1>4, SaveThenRemoveIsSave, SaveOutcome DEF Finish
  <2>3. \A k \in Ids : mem'.jobs[k] = IF k = i THEN j ELSE mem.jobs[k]
    BY <1>1, <2>1, <2>2, WithJobs
  <2>4. mem.jobs[i].state \in InProgress
    BY <1>4, OffUnlessInProgress DEF Finish, Active
  <2>5. /\ j.state \in {"completed", "failed", "cancelled", "pending"}
        /\ j.sealed = mem.jobs[i].sealed /\ j.item = mem.jobs[i].item
        /\ j.originalPolicy = mem.jobs[i].originalPolicy
    BY <1>1, <2>4, EndedState, EndedFields
  <2> HIDE DEF j, w, m
  <2>6. Tame(mem.jobs[i], j)
    BY <2>4, <2>5 DEF Tame, InProgress
  <2>7. \A k \in Ids : Tame(mem.jobs[k], mem'.jobs[k])
    BY <2>3, <2>6, SameIsTame
  <2> QED
    BY <1>1, <2>2, <2>7, TameKeepsStore, AccountsStay DEF StoresOK
<1> QED
  BY <1>2, <1>3, <1>4 DEF Upload

LEMMA StepStores ==
  TypeOK /\ CommitInv /\ DurableWhileServing /\ StoresOK /\ [Next]_vars => StoresOK'
<1> SUFFICES ASSUME TypeOK, CommitInv, DurableWhileServing, StoresOK, [Next]_vars PROVE StoresOK'
  OBVIOUS
<1> USE DEF engineVars, runVars, importVars, accountVars, ghostVars
<1>1. ASSUME UNCHANGED <<mem, disk>>, accounts \subseteq accounts' PROVE StoresOK'
  BY <1>1, AccountsStay DEF StoresOK
<1>2. ASSUME NEW o \in OptionSet, Configure(o) PROVE StoresOK'
  <2>1. mem'.jobs = mem.jobs /\ disk' \in {disk, mem'}
    <3>1. [mem EXCEPT !.options = o].jobs = mem.jobs
      BY DEF Stores, TypeOK
    <3> QED
      BY <1>2, <3>1, SaveOutcome DEF Configure
  <2>2. StoreOK(mem') /\ accounts' = accounts
    BY <1>2, <2>1, SameIsTame, TameKeepsStore DEF StoresOK, Configure
  <2> QED
    BY <2>1, <2>2, AccountsStay DEF StoresOK
<1>3. CASE Request
  <2>1. ASSUME NEW i \in Ids, Retry(i) PROVE StoresOK'
    <3>1. {i} \in SUBSET Ids /\ RetryAll({i})
      BY <2>1 DEF Retry
    <3> QED
      BY <3>1, ManyKeepStores
  <2>2. CASE RetryFailed
    <3> DEFINE S == {i \in Ids : Retryable(mem.jobs[i])}
    <3>1. S \in SUBSET Ids /\ RetryAll(S)
      BY <2>2 DEF RetryFailed
    <3> HIDE DEF S
    <3> QED
      BY <3>1, ManyKeepStores
  <2>3. ASSUME \/ \E i \in Ids : AppendLast(i)
               \/ \E c \in ConditionSet : ReportConditions(c)
               \/ \E a \in Accounts : AddAccount(a)
        PROVE  UNCHANGED <<mem, disk>> /\ accounts \subseteq accounts'
    BY <2>3 DEF AppendLast, ReportConditions, AddAccount
  \* An account that is removed has no live job, in memory or in the file.
  <2>4. ASSUME NEW a \in Accounts, RemoveAccount(a) PROVE StoresOK'
    <3>1. /\ UNCHANGED <<mem, disk>> /\ mem = disk /\ accounts' = accounts \ {a}
          /\ \A k \in Ids : mem.jobs[k].state \notin Terminal \cup {"none"}
                              => mem.jobs[k].item.account # a
      BY <2>4 DEF RemoveAccount, Live, Listed, DurableWhileServing
    <3> QED
      BY <3>1 DEF StoresOK, StoreOK, Owned
  <2> QED
    BY <1>1, <1>2, <1>3, <2>1, <2>2, <2>3, <2>4, BeginKeepsStores, SealKeepsStores,
       CancelKeepsStores, ManyKeepStores DEF Request
<1>4. ASSUME NEW i \in Ids, BackoffEnds(i) PROVE StoresOK'
  <2>1. ASSUME NEW m \in Stores, StoreOK(m)
        PROVE  StoreOK(With(m, i, [m.jobs[i] EXCEPT !.backoff = FALSE]))
    <3>1. m.jobs[i] \in Job
      BY JobOfStore
    <3>2. Tame(m.jobs[i], [m.jobs[i] EXCEPT !.backoff = FALSE])
      BY <3>1 DEF Job, Tame
    <3> QED
      BY <2>1, <3>2, TameChange
  <2> QED
    BY <1>4, <2>1, AccountsStay DEF BackoffEnds, StoresOK, TypeOK
<1>5. CASE Open
  <2>1. \A k \in Ids : Tame(disk.jobs[k], Recovered(disk).jobs[k])
    BY RecoveredFields DEF Tame, TypeOK
  <2>2. StoreOK(Recovered(disk))
    BY <2>1, TameKeepsStore DEF StoresOK
  <2> QED
    BY <1>5, <2>2, AccountsStay DEF Open, StoresOK
<1>6. CASE Crash
  BY <1>6, AccountsStay DEF Crash, StoresOK
<1>7. ASSUME \/ Close
             \/ \E w \in SUBSET NativeAccounts : AuthorizationChanges(w)
             \/ UNCHANGED vars
      PROVE  UNCHANGED <<mem, disk, accounts>>
  BY <1>7 DEF Close, AuthorizationChanges, vars
<1> QED
  BY <1>1, <1>3, <1>4, <1>5, <1>6, <1>7, TickKeepsStores, UploadKeepsStores DEF Next

LEMMA InitStores == Init => StoresOK
<1> SUFFICES ASSUME Init PROVE StoreOK(disk) /\ mem = disk
  BY DEF StoresOK
<1>1. mem = disk
  BY DEF Init
<1>2. Blank(AnItem).state = "none"
  BY DEF Blank
<1>3. CASE \A k \in Ids : disk.jobs[k] = Blank(AnItem)
  <2>1. Listed(disk) = {}
    BY <1>2, <1>3 DEF Listed
  <2>2. Cardinality(Listed(disk)) <= MaxJobs
    BY <2>1, FS_EmptySet, BoundsAssumption
  <2>3. Distinct(disk) /\ \A k \in Ids : Policy(disk, k) /\ Fingerprinted(disk, k) /\ Owned(disk, k)
    BY <1>2, <1>3 DEF Distinct, Standing, Policy, Fingerprinted, Owned, InProgress
  <2> QED
    BY <1>1, <2>2, <2>3 DEF StoreOK
<1>4. CASE \E x \in LegacyItems :
             /\ Listed(disk) = {1} /\ disk.jobs[1].state = "completed"
             /\ disk.jobs[1].item = x /\ disk.jobs[1].originalPolicy = 0
             /\ ~disk.jobs[1].cancelRequested /\ disk.jobs[1].sealed
             /\ \A k \in Ids \ {1} : disk.jobs[k] = Blank(AnItem)
  <2>1. Cardinality(Listed(disk)) <= MaxJobs
    <3>1. Cardinality({1}) = 1
      BY FS_Singleton
    <3> QED
      BY <1>4, <3>1, BoundsAssumption
  <2>2. \A k \in Ids : Policy(disk, k) /\ Fingerprinted(disk, k) /\ Owned(disk, k)
    BY <1>2, <1>4 DEF Policy, Fingerprinted, Owned, InProgress, Terminal
  <2>3. Distinct(disk)
    BY <1>2, <1>4 DEF Distinct, Standing
  <2> QED
    BY <1>1, <2>1, <2>2, <2>3 DEF StoreOK
<1> QED
  BY <1>3, <1>4, FirstJobs

LEMMA StoresHold == Spec => [](TypeOK /\ StoresOK)
  BY InitStores, StepStores, LagHolds, PTL DEF Spec

\* Two uploads never work on the same item at once, so one client cannot race
\* itself to two copies of a photo: seal refuses the second import whatever
\* restarts, failed saves, retries and forgotten jobs came in between.
THEOREM OneUploadPerItem ==
  Spec => [](\A i, k \in Active : mem.jobs[i].item = mem.jobs[k].item => i = k)
<1>1. TypeOK /\ CommitInv /\ StoresOK
        => \A i, k \in Active : mem.jobs[i].item = mem.jobs[k].item => i = k
  <2> SUFFICES ASSUME TypeOK, CommitInv, StoreOK(mem), NEW i \in Ids, NEW k \in Ids,
                      run[i] # "off", run[k] # "off", i < k, mem.jobs[i].item = mem.jobs[k].item
               PROVE  FALSE
    BY DEF Active, StoresOK, Ids
  <2>1. mem.jobs[i].state \in InProgress /\ mem.jobs[k].state \in InProgress
    BY OffUnlessInProgress
  <2>2. Standing(mem, i) /\ Standing(mem, k)
    BY <2>1 DEF Standing, StoreOK, Fingerprinted, InProgress
  <2>3. LeftOver(mem, i)
    BY <2>2 DEF StoreOK, Distinct
  <2> QED
    BY <2>1, <2>3 DEF LeftOver, InProgress
<1> QED
  BY <1>1, StoresHold, LagHolds, PTL

\* A job that may still upload, now or from the file, never loses its credentials:
\* account_remove looks at the list that the file holds too, and begin at the
\* credentials that are there.
THEOREM LiveJobsKeepAccount ==
  Spec => [](\A m \in {mem, disk} : \A i \in Live(m) : m.jobs[i].item.account \in accounts)
<1>1. StoresOK => \A m \in {mem, disk} : \A i \in Live(m) : m.jobs[i].item.account \in accounts
  BY DEF StoresOK, StoreOK, Owned, Live, Listed
<1> QED
  BY <1>1, StoresHold, PTL

\* No two jobs of the list upload the same item, the completion of an older build aside.
THEOREM NoTwins == Spec => []OneJobPerItem
<1>1. StoresOK => OneJobPerItem
  <2> SUFFICES ASSUME StoreOK(mem), NEW i \in Listed(mem), NEW k \in Listed(mem),
                      mem.jobs[i].sealed, mem.jobs[i].state # "cancelled",
                      mem.jobs[k].sealed, mem.jobs[k].state # "cancelled",
                      i < k, mem.jobs[i].item = mem.jobs[k].item
               PROVE  LegacyCompletion(i)
    BY DEF OneJobPerItem, StoresOK
  <2>1. i \in Ids /\ k \in Ids /\ Standing(mem, i) /\ Standing(mem, k)
    BY DEF Listed, Standing
  <2>2. LeftOver(mem, i)
    BY <2>1 DEF StoreOK, Distinct
  <2> QED
    BY <2>2 DEF LeftOver, LegacyCompletion
<1> QED
  BY <1>1, StoresHold, PTL

\* The checks of validateState accept whatever the engine writes.
THEOREM FileReopens == Spec => []StoreReopens
<1>1. TypeOK /\ StoresOK => StoreReopens
  <2> SUFFICES ASSUME TypeOK, StoresOK PROVE ValidState(disk)
    BY DEF StoreReopens
  <2>1. \A k \in Ids : disk.jobs[k].attempts >= 0
    BY JobOfStore DEF TypeOK, Job
  <2> QED
    BY <2>1 DEF StoresOK, StoreOK, ValidState
<1> QED
  BY <1>1, StoresHold, PTL

-----------------------------------------------------------------------------
(* Outcomes and the completion revision *)

\* The ledger's entries of finished jobs are only ever forgotten.
THEOREM OutcomesStay == Spec => OutcomeIsFinal
<1>1. TypeOK /\ TypeOK' /\ CommitInv /\ DurableWhileServing /\ LagInv /\ [Next]_vars
        => \A i \in Ids : disk.jobs[i].state \in Terminal
                            => disk'.jobs[i].state \in {disk.jobs[i].state, "none"}
  <2> SUFFICES ASSUME TypeOK, TypeOK', LedgerStep, NEW i \in Ids, disk.jobs[i].state \in Terminal
               PROVE  disk'.jobs[i].state \in {disk.jobs[i].state, "none"}
    BY StepRefines
  <2> DEFINE s == disk.jobs[i].state
             t == disk'.jobs[i].state
  <2>1. Entry(s) \in {"done", "dropped"} /\ (Entry(s) = "done" <=> s = "completed")
    BY DEF Entry, Terminal, InProgress
  <2>2. Entry(t) = Entry(s) \/ <<Entry(s), Entry(t)>> \in Ledger!Moves
    BY DEF LedgerStep, Ledger!Next, Ledger!Write, Ledger!Send, Ledger!vars
  <2>3. Entry(t) \in {Entry(s), "absent"}
    BY <2>1, <2>2 DEF Ledger!Moves, Ledger!Decided
  <2>4. t \in JobStates
    BY StateOfStore DEF TypeOK
  <2> QED
    BY <2>1, <2>3, <2>4 DEF Entry, JobStates, Terminal, InProgress
<1> QED
  BY <1>1, LagHolds, PTL DEF Spec, OutcomeIsFinal

\* Memory counts every completion that the file does not have yet.
RevInv ==
  /\ mem.rev >= disk.rev
  /\ \A k \in Ids : mem.jobs[k].state = "completed" /\ disk.jobs[k].state # "completed"
                      => mem.rev > disk.rev

RevStep ==
  /\ disk'.rev >= disk.rev
  /\ (\E i \in Ids : disk.jobs[i].state # "completed" /\ disk'.jobs[i].state = "completed")
       => disk'.rev > disk.rev

\* A save whose new completions are counted.
LEMMA CountedSave ==
  ASSUME TypeOK, TypeOK', RevInv, disk' \in {disk, mem'}, mem'.rev >= mem.rev,
         \A k \in Ids : mem'.jobs[k].state = "completed" /\ mem.jobs[k].state # "completed"
                         => mem'.rev > mem.rev
  PROVE  RevInv' /\ RevStep
<1>1. mem.rev \in Nat /\ disk.rev \in Nat /\ mem'.rev \in Nat
  BY DEF TypeOK, Stores
<1> QED
  BY <1>1 DEF RevInv, RevStep

\* A step that completes no job, in memory or in the file.
LEMMA UncountedStep ==
  ASSUME TypeOK, TypeOK', RevInv, mem'.rev = mem.rev, disk'.rev = disk.rev,
         \A k \in Ids : /\ mem'.jobs[k].state = "completed" => mem.jobs[k].state = "completed"
                        /\ disk'.jobs[k].state = "completed" <=> disk.jobs[k].state = "completed"
  PROVE  RevInv' /\ RevStep
<1>1. mem.rev \in Nat /\ disk.rev \in Nat
  BY DEF TypeOK, Stores
<1>2. ASSUME NEW k \in Ids, mem'.jobs[k].state = "completed", disk'.jobs[k].state # "completed"
      PROVE  mem'.rev > disk'.rev
  BY <1>2 DEF RevInv
<1>3. RevInv'
  BY <1>2 DEF RevInv
<1>4. RevStep
  BY <1>1 DEF RevStep
<1> QED
  BY <1>3, <1>4

LEMMA RevOfStore ==
  ASSUME NEW m \in Stores
  PROVE  /\ \A i, j : With(m, i, j).rev = m.rev
         /\ \A js : [m EXCEPT !.jobs = js].rev = m.rev
         /\ \A o : [m EXCEPT !.options = o].rev = m.rev
  BY DEF Stores, With

\* A saved change of one job that does not complete it.
LEMMA UncountedSave ==
  ASSUME TypeOK, TypeOK', RevInv, NEW i \in Ids, NEW j, Save(With(mem, i, j)),
         j.state # "completed" \/ mem.jobs[i].state = "completed"
  PROVE  RevInv' /\ RevStep
<1>1. mem' = With(mem, i, j) /\ disk' \in {disk, mem'}
  BY SaveOutcome
<1>2. \A k \in Ids : mem'.jobs[k] = IF k = i THEN j ELSE mem.jobs[k]
  BY <1>1, WithJobs DEF TypeOK
<1>3. mem'.rev = mem.rev /\ mem.rev \in Nat
  BY <1>1, RevOfStore DEF TypeOK, Stores
<1> QED
  BY <1>1, <1>2, <1>3, CountedSave

LEMMA StepRev ==
  ASSUME TypeOK, TypeOK', CommitInv, DurableWhileServing, RevInv, [Next]_vars
  PROVE  RevInv' /\ RevStep
<1> USE DEF engineVars, runVars, importVars, accountVars, ghostVars
<1>0. mem \in Stores /\ disk \in Stores /\ mem.rev \in Nat /\ disk.rev \in Nat
  BY DEF TypeOK, Stores
<1>1. ASSUME UNCHANGED <<mem, disk>> PROVE RevInv' /\ RevStep
  BY <1>0, <1>1 DEF RevInv, RevStep
<1>2. ASSUME NEW x \in Items, Begin(x) PROVE RevInv' /\ RevStep
  <2>1. [Blank(x) EXCEPT !.state = "importing"].state = "importing"
    BY DEF Blank
  <2> QED
    BY <1>2, <2>1, UncountedSave DEF Begin
<1>3. ASSUME NEW i \in Ids, Seal(i) PROVE RevInv' /\ RevStep
  <2>1. mem.jobs[i] \in Job
    BY <1>0, JobOfStore
  <2>2. /\ [mem.jobs[i] EXCEPT !.sealed = TRUE, !.state = "pending"].state = "pending"
        /\ [mem.jobs[i] EXCEPT !.state = "cancelled"].state = "cancelled"
    BY <2>1 DEF Job
  <2> QED
    BY <1>3, <2>2, UncountedSave, SaveThenRemoveIsSave DEF Seal
<1>4. ASSUME NEW i \in Ids, Cancel(i) PROVE RevInv' /\ RevStep
  <2> DEFINE j       == [mem.jobs[i] EXCEPT !.cancelRequested = TRUE]
             dropped == [j EXCEPT !.state = "cancelled"]
  <2>1. mem.jobs[i] \in Job
    BY <1>0, JobOfStore
  <2>2. j.state = mem.jobs[i].state /\ dropped.state = "cancelled"
    BY <2>1 DEF Job
  <2>3. Save(With(mem, i, j)) \/ Save(With(mem, i, dropped))
    BY <1>4, SaveThenRemoveIsSave DEF Cancel
  <2> HIDE DEF j, dropped
  <2> QED
    BY <2>2, <2>3, UncountedSave
<1>5. ASSUME NEW S \in SUBSET Ids, RetryAll(S) PROVE RevInv' /\ RevStep
  <2> DEFINE js == [k \in Ids |-> IF k \in S THEN ResetRetry(mem.jobs[k]) ELSE mem.jobs[k]]
  <2>1. mem' = [mem EXCEPT !.jobs = js] /\ disk' \in {disk, mem'}
    BY <1>5, SaveOutcome DEF RetryAll
  <2>2. mem'.jobs = js /\ mem'.rev = mem.rev
    BY <1>0, <2>1, JobsReplaced, RevOfStore
  <2>3. \A j \in Job : ResetRetry(j).state = "pending"
    BY DEF ResetRetry, Job
  <2>4. \A k \in Ids : mem'.jobs[k].state \in {mem.jobs[k].state, "pending"}
    BY <1>0, <2>2, <2>3, JobOfStore
  <2> QED
    BY <1>0, <2>1, <2>2, <2>4, CountedSave
<1>6. CASE ClearCompleted
  <2> DEFINE done == {k \in Ids : mem.jobs[k].state \in Terminal}
             js == [k \in Ids |-> IF k \in done THEN Blank(AnItem) ELSE mem.jobs[k]]
  <2>1. mem' = [mem EXCEPT !.jobs = js] /\ disk' \in {disk, mem'}
    BY <1>6, SaveOutcome DEF ClearCompleted
  <2>2. mem'.jobs = js /\ mem'.rev = mem.rev
    BY <1>0, <2>1, JobsReplaced, RevOfStore
  <2>3. Blank(AnItem).state = "none"
    BY DEF Blank
  <2>4. \A k \in Ids : mem'.jobs[k].state \in {mem.jobs[k].state, "none"}
    BY <2>2, <2>3
  <2> QED
    BY <1>0, <2>1, <2>2, <2>4, CountedSave
<1>7. ASSUME NEW o \in OptionSet, Configure(o) PROVE RevInv' /\ RevStep
  <2>1. mem'.jobs = mem.jobs /\ mem'.rev = mem.rev /\ disk' \in {disk, mem'}
    <3>1. [mem EXCEPT !.options = o].jobs = mem.jobs /\ [mem EXCEPT !.options = o].rev = mem.rev
      BY <1>0 DEF Stores
    <3>2. UNCHANGED <<mem, disk>> \/ (mem' = [mem EXCEPT !.options = o] /\ disk' \in {disk, mem'})
      BY <1>7, SaveOutcome DEF Configure
    <3> QED
      BY <3>1, <3>2
  <2> QED
    BY <1>0, <2>1, CountedSave
<1>8. CASE Tick
  <2>1. PICK S \in SUBSET Chosen, L \in SUBSET Chosen :
          /\ mem = disk /\ mem' = Started(S) /\ disk' \in {mem', Started(L)}
          /\ L \subseteq S /\ \A k \in S : k \in Ids /\ mem.jobs[k].state = "pending"
    BY <1>8, TickOutcome
  <2>2. \A R : Started(R).rev = mem.rev
    BY <1>0, RevOfStore DEF Started
  <2>3. ASSUME NEW R \in SUBSET S, NEW k \in Ids
        PROVE  Started(R).jobs[k].state = "completed" <=> mem.jobs[k].state = "completed"
    <3>1. CASE k \in R
      BY <2>1, <3>1, StartedJobs
    <3>2. CASE k \notin R
      BY <3>2, StartedJobs
    <3> QED
      BY <3>1, <3>2
  <2> QED
    BY <2>1, <2>2, <2>3, UncountedStep
<1>9. ASSUME NEW i \in Ids, BackoffEnds(i) PROVE RevInv' /\ RevStep
  <2>1. ASSUME NEW s \in Stores, NEW k \in Ids
        PROVE  With(s, i, [s.jobs[i] EXCEPT !.backoff = FALSE]).jobs[k].state = s.jobs[k].state
    BY JobOfStore, WithJobs DEF Job
  <2>2. \A k \in Ids : /\ mem'.jobs[k].state = mem.jobs[k].state
                       /\ disk'.jobs[k].state = disk.jobs[k].state
    BY <1>0, <1>9, <2>1 DEF BackoffEnds
  <2>3. mem'.rev = mem.rev /\ disk'.rev = disk.rev
    BY <1>0, <1>9, RevOfStore DEF BackoffEnds
  <2> QED
    BY <2>2, <2>3, UncountedStep
<1>10. ASSUME NEW i \in Ids, NEW phase \in InProgress, Progress(i, phase) PROVE RevInv' /\ RevStep
  <2>1. mem.jobs[i] \in Job
    BY <1>0, JobOfStore
  <2>2. [mem.jobs[i] EXCEPT !.state = phase].state # "completed"
    BY <2>1 DEF Job, InProgress
  <2>3. Save(With(mem, i, [mem.jobs[i] EXCEPT !.state = phase]))
    BY <1>10 DEF Progress, Save
  <2> QED
    BY <2>2, <2>3, UncountedSave
<1>11. ASSUME NEW i \in Ids, NEW o \in Outcomes, Finish(i, o) PROVE RevInv' /\ RevStep
  <2> DEFINE j == EndedJob(mem.jobs[i], o)
             w == With(mem, i, j)
             r == IF o = "key" THEN w.rev + 1 ELSE w.rev
             m == [w EXCEPT !.rev = r]
  <2>1. m.jobs = w.jobs /\ m.rev = r /\ w.rev = mem.rev
    BY <1>0 DEF With, Stores
  <2>2. mem' = m /\ disk' \in {disk, mem'}
    BY <1>11, SaveThenRemoveIsSave, SaveOutcome DEF Finish
  <2>3. \A k \in Ids : mem'.jobs[k] = IF k = i THEN j ELSE mem.jobs[k]
    BY <1>0, <2>1, <2>2, WithJobs
  <2>4. mem.jobs[i] \in Job /\ mem.jobs[i].state \in InProgress
    BY <1>0, <1>11, JobOfStore, OffUnlessInProgress DEF Finish, Active
  <2>5. j.state = "completed" => o = "key"
    BY <2>4, EndedFields
  <2>6. mem'.rev = IF o = "key" THEN mem.rev + 1 ELSE mem.rev
    BY <2>1, <2>2
  <2> HIDE DEF j, w, m, r
  <2> QED
    BY <1>0, <2>2, <2>3, <2>5, <2>6, CountedSave
<1>12. CASE Crash
  BY <1>0, <1>12 DEF Crash, RevInv, RevStep
<1>13. CASE Open
  <2>1. \A k \in Ids : Recovered(disk).jobs[k].state = "completed" <=> disk.jobs[k].state = "completed"
    BY <1>0, RecoveredFields
  <2>2. Recovered(disk).rev = disk.rev
    BY <1>0, RevOfStore DEF Recovered
  <2>3. mem' = disk' /\ disk' \in {disk, Recovered(disk)}
    BY <1>13 DEF Open
  <2> QED
    BY <1>0, <2>1, <2>2, <2>3 DEF RevInv, RevStep
<1>14. ASSUME \/ \E i \in Ids : AppendLast(i) \/ SendCommit(i)
              \/ \E c \in ConditionSet : ReportConditions(c)
              \/ \E a \in Accounts : AddAccount(a) \/ RemoveAccount(a)
              \/ \E w \in SUBSET NativeAccounts : AuthorizationChanges(w)
              \/ Close \/ UNCHANGED vars
       PROVE  UNCHANGED <<mem, disk>>
  BY <1>14 DEF AppendLast, SendCommit, ReportConditions, AddAccount, RemoveAccount,
               AuthorizationChanges, Close, vars
<1>15. ASSUME NEW i \in Ids, Retry(i) PROVE RevInv' /\ RevStep
  <2>1. {i} \in SUBSET Ids /\ RetryAll({i})
    BY <1>15 DEF Retry
  <2> QED
    BY <1>5, <2>1
<1>16. CASE RetryFailed
  <2> DEFINE S == {i \in Ids : Retryable(mem.jobs[i])}
  <2>1. S \in SUBSET Ids /\ RetryAll(S)
    BY <1>16 DEF RetryFailed
  <2> HIDE DEF S
  <2> QED
    BY <1>5, <2>1
<1> QED
  BY <1>1, <1>2, <1>3, <1>4, <1>6, <1>7, <1>8, <1>9, <1>10, <1>11, <1>12, <1>13, <1>14, <1>15, <1>16
     DEF Next, Request, Upload

\* A host that compares completion revisions sees every completion in the file.
THEOREM RevisionsTell == Spec => RevisionTellsCompletions
<1>1. Init => RevInv
  <2> SUFFICES ASSUME Init PROVE RevInv
    OBVIOUS
  <2>1. mem = disk /\ disk.rev \in Nat
    BY InitTypeOK DEF Init, TypeOK, Stores
  <2> QED
    BY <2>1 DEF RevInv
<1>2. TypeOK /\ TypeOK' /\ CommitInv /\ DurableWhileServing /\ RevInv /\ [Next]_vars => RevInv' /\ RevStep
  BY StepRev
<1>3. RevStep => /\ disk'.rev >= disk.rev
                 /\ (\E i \in Ids : disk.jobs[i].state # "completed" /\ disk'.jobs[i].state = "completed")
                      => disk'.rev > disk.rev
  BY DEF RevStep
<1> QED
  BY <1>1, <1>2, <1>3, LagHolds, PTL DEF Spec, RevisionTellsCompletions

-----------------------------------------------------------------------------
(* The slots of the scheduler *)

\* Eligible jobs have different numbers of eligible jobs before them, so no more
\* are chosen than slots are free.
LEMMA ChosenFit ==
  ASSUME TypeOK, Chosen # {}
  PROVE  /\ IsFiniteSet(Active) /\ IsFiniteSet(Chosen)
         /\ Cardinality(Active) + Cardinality(Chosen) <= mem.options.concurrent
<1> DEFINE before == [i \in Chosen |-> Cardinality({k \in Eligible : k < i})]
           free == mem.options.concurrent - Cardinality(Active)
<1>1. IsFiniteSet(Ids)
  BY FS_Interval, BoundsAssumption DEF Ids
<1>2. \A S \in SUBSET Ids : IsFiniteSet(S) /\ Cardinality(S) \in Nat
  BY <1>1, FS_Subset, FS_CardinalityType
<1>3. Active \in SUBSET Ids /\ Chosen \in SUBSET Ids /\ Chosen \subseteq Eligible
  BY DEF Active, Chosen, Eligible
<1>4. mem.options.concurrent \in 1..8
  BY OptionsAssumption DEF TypeOK, Stores, Options
<1>5. ASSUME NEW i \in Chosen
      PROVE  before[i] \in Nat /\ before[i] < free
  <2>1. {k \in Eligible : k < i} \in SUBSET Ids
    BY DEF Eligible
  <2>2. before[i] \in Nat /\ before[i] = Cardinality({k \in Eligible : k < i})
    BY <1>2, <2>1
  <2>3. Cardinality(Active) + Cardinality({k \in Eligible : k < i}) < mem.options.concurrent
    BY DEF Chosen
  <2>4. Cardinality(Active) \in Nat
    BY <1>2, <1>3
  <2> HIDE DEF before
  <2> QED
    BY <1>4, <2>2, <2>3, <2>4
<1>6. ASSUME NEW i \in Chosen, NEW j \in Chosen, i < j
      PROVE  before[i] # before[j]
  <2> DEFINE S == {k \in Eligible : k < i}
             T == {k \in Eligible : k < j}
  <2>1. S \in SUBSET T /\ i \in T /\ i \notin S
    <3>1. i \in Eligible /\ j \in Eligible /\ \A k \in Eligible : k \in Nat
      BY <1>3 DEF Eligible, Ids
    <3>2. \A k \in Eligible : k < i => k < j
      BY <1>6, <3>1
    <3>3. ~(i < i)
      BY <3>1
    <3> QED
      BY <1>6, <3>1, <3>2, <3>3
  <2>2. T \in SUBSET Ids
    BY DEF Eligible
  <2>3. before[i] = Cardinality(S) /\ before[j] = Cardinality(T)
    OBVIOUS
  <2> HIDE DEF S, T, before
  <2>4. Cardinality(S) # Cardinality(T)
    BY <1>2, <2>1, <2>2, FS_Subset
  <2> QED
    BY <2>3, <2>4
<1>7. free \in Nat /\ Cardinality(Active) \in Nat
  <2>1. PICK i \in Chosen : TRUE
    OBVIOUS
  <2>2. Cardinality(Active) \in Nat
    BY <1>2, <1>3
  <2>3. before[i] \in Nat /\ before[i] < free
    BY <1>5, <2>1
  <2> HIDE DEF before
  <2> QED
    BY <1>4, <2>2, <2>3
<1> DEFINE slots == 0..(free - 1)
<1> HIDE DEF before, free
<1>8. before \in [Chosen -> slots]
  <2>1. \A i \in Chosen : before[i] \in slots
    BY <1>5, <1>7
  <2>2. before = [i \in Chosen |-> before[i]]
    BY DEF before
  <2> QED
    BY <2>1, <2>2
<1>9. IsFiniteSet(slots) /\ Cardinality(slots) = free
  <2>1. free - 1 \in Int /\ 0 \in Int
    BY <1>7
  <2>2. /\ IsFiniteSet(0..(free - 1))
        /\ Cardinality(0..(free - 1)) = IF 0 > free - 1 THEN 0 ELSE (free - 1) - 0 + 1
    BY <2>1, FS_Interval
  <2> QED
    BY <1>7, <2>2
<1>10. ~(free < Cardinality(Chosen))
  <2> SUFFICES ASSUME free < Cardinality(Chosen) PROVE FALSE
    OBVIOUS
  <2> HIDE DEF slots
  <2>1. \E x, y \in Chosen : x # y /\ before[x] = before[y]
    BY <1>2, <1>3, <1>8, <1>9, FS_PigeonHole
  <2>2. PICK x \in Chosen, y \in Chosen : x # y /\ before[x] = before[y]
    BY <2>1
  <2>3. x < y \/ y < x
    BY <1>3, <2>2 DEF Ids
  <2> QED
    BY <1>6, <2>2, <2>3
<1>11. Cardinality(Chosen) \in Nat
  BY <1>2, <1>3
<1> QED
  BY <1>2, <1>3, <1>4, <1>7, <1>10, <1>11 DEF free

\* Only a pass of the scheduler starts uploads, and never more than there are
\* free slots, even after the limit was lowered below the number that run.
THEOREM SlotsKept == Spec => SlotsRespected
<1>1. TypeOK /\ TypeOK' /\ CommitInv /\ DurableWhileServing /\ LagInv /\ [Next]_vars
        => (~(Active' \subseteq Active) => Cardinality(Active') <= mem.options.concurrent)
  <2> SUFFICES ASSUME TypeOK, TypeOK', CommitInv, DurableWhileServing, [Next]_vars
               PROVE  Active' \subseteq Active \/ Cardinality(Active') <= mem.options.concurrent
    OBVIOUS
  <2> USE DEF engineVars, runVars, importVars, accountVars, ghostVars
  <2>1. CASE Tick
    <3>1. PICK L \in SUBSET Chosen : Launch(L)
      BY <2>1, TickOutcome
    <3>2. Active' = Active \cup L
      BY <3>1 DEF Active, Launch, Chosen, Eligible
    <3>3. Chosen # {}
      BY <2>1 DEF Tick
    <3>4. /\ IsFiniteSet(Active) /\ IsFiniteSet(Chosen)
          /\ Cardinality(Active) + Cardinality(Chosen) <= mem.options.concurrent
      BY <3>3, ChosenFit
    <3>5. IsFiniteSet(L) /\ Cardinality(L) <= Cardinality(Chosen)
      BY <3>4, FS_Subset
    <3>6. Cardinality(Active \cup L)
            = Cardinality(Active) + Cardinality(L) - Cardinality(Active \cap L)
      BY <3>4, <3>5, FS_Union
    <3>7. Active \cap L \in SUBSET L
      OBVIOUS
    <3>8. IsFiniteSet(Active \cap L)
      BY <3>5, <3>7, FS_Subset
    <3>9. /\ Cardinality(Active) \in Nat /\ Cardinality(L) \in Nat /\ Cardinality(Chosen) \in Nat
          /\ Cardinality(Active \cap L) \in Nat
      BY <3>4, <3>5, <3>8, FS_CardinalityType
    <3>10. mem.options.concurrent \in 1..8
      BY OptionsAssumption DEF TypeOK, Stores, Options
    <3> QED
      BY <3>2, <3>4, <3>5, <3>6, <3>9, <3>10
  <2>2. ASSUME NEW i \in Ids, Upload(i) PROVE Active' \subseteq Active
    <3>1. \A k \in Ids : run'[k] # "off" => run[k] # "off"
      BY <2>2 DEF Upload, Progress, SendCommit, Finish, Active, TypeOK
    <3> QED
      BY <3>1 DEF Active
  <2>3. CASE Request
    <3>1. run' = run
      BY <2>3 DEF Request, Begin, AppendLast, Seal, Cancel, Retry, RetryFailed, RetryAll,
                  ClearCompleted, ReportConditions, Configure, AddAccount, RemoveAccount
    <3> QED
      BY <3>1 DEF Active
  <2>4. CASE Crash
    BY <2>4 DEF Crash, Active
  <2>5. ASSUME \/ Open \/ Close \/ UNCHANGED vars
               \/ \E i \in Ids : BackoffEnds(i)
               \/ \E w \in SUBSET NativeAccounts : AuthorizationChanges(w)
        PROVE  Active' \subseteq Active
    BY <2>5 DEF Open, Close, BackoffEnds, AuthorizationChanges, Active, vars
  <2> QED
    BY <2>1, <2>2, <2>3, <2>4, <2>5 DEF Next
<1> QED
  BY <1>1, LagHolds, PTL DEF Spec, SlotsRespected

-----------------------------------------------------------------------------
(* A queued job comes to its end *)

\* Attempts that may still start, when no option allows more than n retries: a crash
\* may have charged one for nothing.
TriesLeft(i, n) == n + crashes + 1 - mem.jobs[i].attempts

\* How far a job is from being settled: each attempt is an upload, the end of its
\* backoff and a start.
StepsLeft(i, n) ==
  IF mem.jobs[i].state \in InProgress THEN 3 * TriesLeft(i, n) + 2
  ELSE IF mem.jobs[i].state # "pending" THEN 0
  ELSE IF mem.jobs[i].backoff THEN 3 * TriesLeft(i, n) + 1
  ELSE 3 * TriesLeft(i, n)

\* An upload that ends now was stopped by the engine or by its user.
Interrupted(i) == stopped \/ i \in cut \/ AuthWaiting(mem.jobs[i])

LEMMA StepsAreNat ==
  ASSUME TypeOK, JobsInv, up, NEW n \in Nat, NEW i \in Ids, failures[i] <= n
  PROVE  /\ TriesLeft(i, n) \in Nat
              \/ mem.jobs[i].state \notin InProgress \cup {"pending"}
         /\ mem.jobs[i].state = "pending" => TriesLeft(i, n) > 0
         /\ StepsLeft(i, n) \in Nat
         /\ StepsLeft(i, n) = 0 <=> Settled(i)
<1>1. InBudget(i)
  BY DEF JobsInv, JobOK
<1>2. CASE mem.jobs[i].state \in InProgress
  <2>1. TriesLeft(i, n) \in Nat
    BY <1>1, <1>2, CountsAreNat DEF InBudget, TriesLeft
  <2> QED
    BY <1>2, <2>1 DEF StepsLeft, Settled, InProgress
<1>3. CASE mem.jobs[i].state = "pending"
  <2>1. TriesLeft(i, n) \in Nat /\ TriesLeft(i, n) > 0
    BY <1>1, <1>3, CountsAreNat DEF InBudget, TriesLeft
  <2> QED
    BY <1>3, <2>1 DEF StepsLeft, Settled, InProgress
<1>4. CASE mem.jobs[i].state \notin InProgress \cup {"pending"}
  BY <1>4 DEF StepsLeft, Settled
<1> QED
  BY <1>2, <1>3, <1>4

LEMMA StepsAreInt ==
  ASSUME TypeOK, NEW n \in Nat, NEW i \in Ids PROVE StepsLeft(i, n) \in Int
<1>1. TriesLeft(i, n) \in Int
  BY CountsAreNat DEF TriesLeft
<1> QED
  BY <1>1 DEF StepsLeft

LEMMA StepsAreIntNext ==
  ASSUME TypeOK', NEW n \in Nat, NEW i \in Ids PROVE StepsLeft(i, n)' \in Int
<1>1. mem'.jobs[i].attempts \in Nat /\ crashes' \in Nat
  BY JobOfStore, BoundsAssumption DEF TypeOK, Job
<1>2. TriesLeft(i, n)' \in Int
  BY <1>1 DEF TriesLeft
<1> QED
  BY <1>2 DEF StepsLeft

\* A start uses up an attempt.
LEMMA StartNears ==
  ASSUME TypeOK, CommitInv, DurableWhileServing, JobsInv, Tick,
         NEW n \in Nat, NEW i \in Ids, failures[i] <= n
  PROVE  /\ StepsLeft(i, n)' <= StepsLeft(i, n)
         /\ run'[i] # run[i] => StepsLeft(i, n)' < StepsLeft(i, n)
<1>1. up /\ crashes' = crashes
  BY DEF Tick, MayTick
<1>2. PICK S \in SUBSET Chosen, L \in SUBSET Chosen :
        /\ L \subseteq S
        /\ mem' = Started(S)
        /\ Launch(L)
        /\ \A k \in S : k \in Ids /\ mem.jobs[k].state = "pending" /\ run[k] = "off"
  BY TickOutcome
<1>3. StepsLeft(i, n) \in Nat
  BY <1>1, StepsAreNat
<1>4. run'[i] = IF i \in L THEN "preparing" ELSE run[i]
  BY <1>2 DEF Launch
<1>5. CASE i \notin S
  <2>1. mem'.jobs[i] = mem.jobs[i]
    BY <1>2, <1>5, StartedJobs
  <2>2. StepsLeft(i, n)' = StepsLeft(i, n)
    BY <1>1, <2>1 DEF StepsLeft, TriesLeft
  <2> QED
    BY <1>2, <1>3, <1>4, <1>5, <2>2
<1>6. CASE i \in S
  <2>1. mem.jobs[i].state = "pending" /\ ~mem.jobs[i].backoff
    BY <1>2, <1>6 DEF Chosen, Eligible
  <2>2. mem'.jobs[i].state = "preparing" /\ mem'.jobs[i].attempts = mem.jobs[i].attempts + 1
    BY <1>2, <1>6, StartedJobs
  <2>3. TriesLeft(i, n) \in Nat /\ TriesLeft(i, n)' = TriesLeft(i, n) - 1
    BY <1>1, <2>1, <2>2, StepsAreNat, CountsAreNat DEF TriesLeft, InProgress
  <2>4. StepsLeft(i, n) = 3 * TriesLeft(i, n) /\ StepsLeft(i, n)' = 3 * TriesLeft(i, n)' + 2
    BY <2>1, <2>2 DEF StepsLeft, InProgress
  <2> QED
    BY <2>3, <2>4
<1> QED
  BY <1>5, <1>6

LEMMA BackoffNears ==
  ASSUME TypeOK, JobsInv, NEW n \in Nat, NEW i \in Ids, failures[i] <= n, NEW k \in Ids, BackoffEnds(k)
  PROVE  /\ StepsLeft(i, n)' <= StepsLeft(i, n)
         /\ i = k /\ ~Settled(i) => StepsLeft(i, n)' < StepsLeft(i, n)
<1> DEFINE j == [mem.jobs[k] EXCEPT !.backoff = FALSE]
<1>1. up /\ crashes' = crashes /\ mem.jobs[k].backoff /\ mem' = With(mem, k, j)
  BY DEF BackoffEnds
<1>2. mem.jobs[k] \in Job
  BY JobOfStore DEF TypeOK
<1>3. j.state = mem.jobs[k].state /\ j.attempts = mem.jobs[k].attempts /\ ~j.backoff
  BY <1>2 DEF Job
<1>4. mem'.jobs[i] = IF i = k THEN j ELSE mem.jobs[i]
  BY <1>1, WithJobs DEF TypeOK
<1>5. mem.jobs[k].state \notin InProgress
  BY <1>1 DEF JobsInv, JobOK, InBudget
<1> HIDE DEF j
<1>6. /\ StepsLeft(i, n) \in Nat
      /\ TriesLeft(i, n) \in Nat \/ mem.jobs[i].state \notin InProgress \cup {"pending"}
  BY <1>1, StepsAreNat
<1>7. CASE i # k
  <2>1. StepsLeft(i, n)' = StepsLeft(i, n)
    BY <1>1, <1>4, <1>7 DEF StepsLeft, TriesLeft
  <2> QED
    BY <1>6, <1>7, <2>1
<1>8. CASE i = k
  <2>1. TriesLeft(i, n)' = TriesLeft(i, n)
    BY <1>1, <1>3, <1>4, <1>8 DEF TriesLeft
  <2> QED
    BY <1>1, <1>3, <1>4, <1>5, <1>6, <1>8, <2>1 DEF StepsLeft, Settled
<1> QED
  BY <1>7, <1>8

\* What the end of an upload that nobody interrupted makes of its job.
LEMMA UninterruptedEnd ==
  ASSUME NEW i \in Ids, NEW o \in Outcomes, mem.jobs[i] \in Job, o # "canceled", ~Interrupted(i)
  PROVE  LET e == EndedJob(mem.jobs[i], o)
         IN  \/ e.state \in {"completed", "failed", "cancelled"}
             \/ e.state = "pending" /\ e.backoff /\ e.attempts = mem.jobs[i].attempts
<1> DEFINE j == mem.jobs[i]
           w == [j EXCEPT !.state = "pending", !.backoff = TRUE]
<1>1. \A s \in {"completed", "failed", "cancelled"} : [j EXCEPT !.state = s].state = s
  BY DEF Job
<1>2. w.state = "pending" /\ w.backoff /\ w.attempts = j.attempts
  BY DEF Job
<1>3. \/ \E s \in {"completed", "failed", "cancelled"} : EndedJob(j, o) = [j EXCEPT !.state = s]
      \/ EndedJob(j, o) = w
  BY DEF EndedJob, Interrupted
<1> HIDE DEF w, j
<1> QED
  BY <1>1, <1>2, <1>3 DEF j

\* The job of an upload that ends, and the others.
LEMMA FinishedJobs ==
  ASSUME TypeOK, CommitInv, NEW i \in Ids, NEW o \in Outcomes, Finish(i, o), NEW k \in Ids
  PROVE  /\ mem'.jobs[k] = IF k = i THEN EndedJob(mem.jobs[i], o) ELSE mem.jobs[k]
         /\ up /\ crashes' = crashes /\ mem.jobs[i].state \in InProgress
<1> DEFINE j == EndedJob(mem.jobs[i], o)
           w == With(mem, i, j)
           m == [w EXCEPT !.rev = IF o = "key" THEN w.rev + 1 ELSE w.rev]
<1>1. run[i] # "off" /\ up /\ crashes' = crashes
  BY DEF Finish, Active, CommitInv
<1>2. m.jobs = w.jobs
  BY DEF With, Stores, TypeOK
<1>3. mem' = m
  BY DEF Finish, SaveThenRemove, Saved, SaveFailed
<1> QED
  BY <1>1, <1>2, <1>3, WithJobs, OffUnlessInProgress DEF TypeOK

LEMMA EndNears ==
  ASSUME TypeOK, CommitInv, JobsInv, NEW n \in Nat, NEW i \in Ids, failures[i] <= n,
         NEW k \in Ids, NEW o \in Outcomes, Finish(k, o), i # k \/ ~Interrupted(i)
  PROVE  /\ StepsLeft(i, n)' <= StepsLeft(i, n)
         /\ i = k => StepsLeft(i, n)' < StepsLeft(i, n)
<1> DEFINE e == EndedJob(mem.jobs[k], o)
<1>1. /\ mem'.jobs[i] = IF i = k THEN e ELSE mem.jobs[i]
      /\ up /\ crashes' = crashes /\ mem.jobs[k].state \in InProgress
  BY FinishedJobs
<1>2. /\ StepsLeft(i, n) \in Nat
      /\ TriesLeft(i, n) \in Nat \/ mem.jobs[i].state \notin InProgress \cup {"pending"}
  BY <1>1, StepsAreNat
<1>3. CASE i # k
  <2>1. StepsLeft(i, n)' = StepsLeft(i, n)
    BY <1>1, <1>3 DEF StepsLeft, TriesLeft
  <2> QED
    BY <1>2, <1>3, <2>1
<1>4. CASE i = k
  <2>1. o # "canceled" /\ ~Interrupted(k)
    BY <1>4 DEF Finish, Interrupted
  <2>2. \/ e.state \in {"completed", "failed", "cancelled"}
        \/ e.state = "pending" /\ e.backoff /\ e.attempts = mem.jobs[k].attempts
    BY <2>1, UninterruptedEnd, JobOfStore DEF TypeOK
  <2> HIDE DEF e
  <2>3. StepsLeft(i, n) = 3 * TriesLeft(i, n) + 2 /\ TriesLeft(i, n) \in Nat
    BY <1>1, <1>2, <1>4 DEF StepsLeft
  <2>4. CASE e.state \in {"completed", "failed", "cancelled"}
    BY <1>1, <1>4, <2>3, <2>4 DEF StepsLeft, InProgress
  <2>5. CASE e.state = "pending" /\ e.backoff /\ e.attempts = mem.jobs[k].attempts
    BY <1>1, <1>4, <2>3, <2>5 DEF StepsLeft, TriesLeft, InProgress
  <2> QED
    BY <2>2, <2>4, <2>5
<1> QED
  BY <1>3, <1>4

\* A callback or a commit request changes nothing of the distance.
LEMMA PhaseKeepsDistance ==
  ASSUME TypeOK, CommitInv, NEW n \in Nat, NEW i \in Ids, NEW k \in Ids,
         SendCommit(k) \/ \E phase \in InProgress : Progress(k, phase)
  PROVE  StepsLeft(i, n)' = StepsLeft(i, n)
<1>1. CASE SendCommit(k)
  BY <1>1 DEF SendCommit, StepsLeft, TriesLeft
<1>2. ASSUME NEW phase \in InProgress, Progress(k, phase) PROVE StepsLeft(i, n)' = StepsLeft(i, n)
  <2> DEFINE j == [mem.jobs[k] EXCEPT !.state = phase]
  <2>1. crashes' = crashes /\ run[k] # "off"
    BY <1>2 DEF Progress, InProgress
  <2>2. mem' = With(mem, k, j)
    BY <1>2 DEF Progress, Saved, SaveFailed
  <2>3. j.state = phase /\ j.attempts = mem.jobs[k].attempts
    BY JobOfStore DEF TypeOK, Job
  <2>4. mem'.jobs[i] = IF i = k THEN j ELSE mem.jobs[i]
    BY <2>2, WithJobs DEF TypeOK
  <2>5. mem.jobs[k].state \in InProgress
    BY <2>1, OffUnlessInProgress
  <2> HIDE DEF j
  <2> QED
    BY <1>2, <2>1, <2>3, <2>4, <2>5 DEF StepsLeft, TriesLeft
<1> QED
  BY <1>1, <1>2

\* Every job the scheduler may start is settled in boundedly many steps of the
\* scheduler, its backoff and its uploads: each start, each end of a backoff and each
\* end of an upload that nobody interrupted brings it nearer, and only a request, an
\* interrupted upload, or the death and return of the process puts it off (Tick,
\* execute, Open).  With the fairness of FairSpec this is why QueueDrains holds for any
\* number of jobs and slots.
THEOREM JobNearsEnd ==
  ASSUME NEW n \in Nat, \A o \in OptionSet : o.retries <= n
  PROVE  Spec =>
    /\ [](up => \A i \in Ids : StepsLeft(i, n) \in Nat /\ (StepsLeft(i, n) = 0 <=> Settled(i)))
    /\ [][\A i \in Ids :
            \/ Tick /\ run'[i] # run[i]
            \/ BackoffEnds(i) /\ ~Settled(i)
            \/ ~Interrupted(i) /\ \E o \in Outcomes : Finish(i, o)
            => StepsLeft(i, n)' < StepsLeft(i, n)]_vars
    /\ [][\A i \in Ids :
            StepsLeft(i, n)' > StepsLeft(i, n)
            => \/ Request \/ Crash \/ Open
               \/ Interrupted(i) /\ \E o \in Outcomes : Finish(i, o)]_vars
<1> DEFINE Few == \A i \in Ids : failures[i] <= n
           I   == TypeOK /\ CommitInv /\ DurableWhileServing /\ JobsInv /\ Few
<1>1. Spec => []Few
  BY RetriesBounded
<1>2. I => (up => \A i \in Ids : StepsLeft(i, n) \in Nat /\ (StepsLeft(i, n) = 0 <=> Settled(i)))
  BY StepsAreNat
<1>3. I /\ [Next]_vars
      => [\A i \in Ids :
            \/ Tick /\ run'[i] # run[i]
            \/ BackoffEnds(i) /\ ~Settled(i)
            \/ ~Interrupted(i) /\ \E o \in Outcomes : Finish(i, o)
            => StepsLeft(i, n)' < StepsLeft(i, n)]_vars
  BY StartNears, BackoffNears, EndNears
<1>4. I /\ [Next]_vars
      => [\A i \in Ids :
            StepsLeft(i, n)' > StepsLeft(i, n)
            => \/ Request \/ Crash \/ Open
               \/ Interrupted(i) /\ \E o \in Outcomes : Finish(i, o)]_vars
  <2> SUFFICES ASSUME I, [Next]_vars, NEW i \in Ids, StepsLeft(i, n)' > StepsLeft(i, n),
                      ~Request, ~Crash, ~Open,
                      ~(Interrupted(i) /\ \E o \in Outcomes : Finish(i, o))
               PROVE  FALSE
    OBVIOUS
  <2>1. StepsLeft(i, n) \in Int /\ StepsLeft(i, n)' \in Int
    BY StepTypeOK, StepsAreInt, StepsAreIntNext
  <2>2. ~(StepsLeft(i, n)' <= StepsLeft(i, n))
    BY <2>1
  <2>3. CASE Tick
    BY <2>2, <2>3, StartNears
  <2>4. ASSUME NEW k \in Ids, BackoffEnds(k) PROVE FALSE
    BY <2>2, <2>4, BackoffNears
  <2>5. ASSUME NEW k \in Ids, Upload(k) PROVE FALSE
    <3>1. CASE \E o \in Outcomes : Finish(k, o)
      BY <2>2, <3>1, EndNears
    <3>2. CASE SendCommit(k) \/ \E phase \in InProgress : Progress(k, phase)
      BY <2>1, <2>2, <3>2, PhaseKeepsDistance
    <3> QED
      BY <2>5, <3>1, <3>2 DEF Upload
  <2>6. CASE Close \/ UNCHANGED vars \/ \E w \in SUBSET NativeAccounts : AuthorizationChanges(w)
    <3>1. mem' = mem /\ crashes' = crashes
      BY <2>6 DEF Close, AuthorizationChanges, vars
    <3>2. StepsLeft(i, n)' = StepsLeft(i, n)
      BY <3>1 DEF StepsLeft, TriesLeft
    <3> QED
      BY <2>1, <2>2, <3>2
  <2> QED
    BY <2>3, <2>4, <2>5, <2>6 DEF Next
<1> QED
  BY <1>1, <1>2, <1>3, <1>4, JobsHold, LagHolds, PTL DEF Spec

=============================================================================
