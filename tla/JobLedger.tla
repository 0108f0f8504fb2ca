------------------------------ MODULE JobLedger ------------------------------
(***************************************************************************)
(* What the upload engine promises about one job, seen from outside the    *)
(* process: what its file says of the job, and how many commit requests    *)
(* have left for it since the user last asked for the upload.  It does not *)
(* know of memory, goroutines, failing saves, crashes or restarts.         *)
(***************************************************************************)
EXTENDS Naturals, TLAPS

CONSTANT Jobs

VARIABLES
    book,   \* what is written of each job
    sent    \* commit requests since the user asked for the upload

vars == <<book, sent>>

Entries == {"absent", "staging", "queued", "uncertain", "failed", "done", "dropped"}

\* Slip (a variant of the next definition, used by no specification): the upload
\* whose outcome is unknown is queued again.
Requeued == {<<"uncertain", "done">>, <<"uncertain", "queued">>}

\* How the entry of an upload ends whose commit request may have left.
Decided == {<<"uncertain", "done">>, <<"uncertain", "failed">>}

\* How an entry may change.  An uncertain upload never goes back to the queue,
\* a finished one is only ever forgotten, and the queue is entered through a
\* completed import or a retry.
Moves ==
    {<<"absent", "staging">>,
     <<"staging", "queued">>,  <<"staging", "dropped">>,
     <<"queued", "uncertain">>, <<"queued", "done">>, <<"queued", "failed">>, <<"queued", "dropped">>,
     <<"failed", "queued">>,   <<"failed", "dropped">>,
     <<"done", "absent">>,     <<"dropped", "absent">>}
    \cup Decided

Init ==
    /\ book \in [Jobs -> {"absent", "done"}]
    /\ sent = [i \in Jobs |-> 0]

\* One durable write may move any number of jobs, and stands for a new decision
\* of the user about the failed ones in S.  A job that starts over has no request
\* on its record, or the user has just answered for it.
Write(S) ==
    /\ book' \in [Jobs -> Entries]
    /\ \A i \in Jobs : book'[i] # book[i] => <<book[i], book'[i]>> \in Moves
    /\ \A i \in S : book[i] = "failed"
    /\ \A i \in Jobs : /\ book[i] \in {"absent", "failed"}
                       /\ book'[i] \in {"staging", "queued"}
                       => i \in S \/ sent[i] = 0
    /\ sent' = [i \in Jobs |-> IF i \in S THEN 0 ELSE sent[i]]

\* The commit request of one job leaves: the file already says that it may.
Send(i) ==
    /\ book[i] = "uncertain"
    /\ sent[i] = 0
    /\ sent' = [sent EXCEPT ![i] = 1]
    /\ UNCHANGED book

Next == (\E S \in SUBSET Jobs : Write(S)) \/ (\E i \in Jobs : Send(i))

Spec == Init /\ [][Next]_vars

\* A request that left is on the record until the user decides anew: the entry
\* of its job never again lets a request leave (Open and the end of execute put
\* an uncertain upload among the failed ones, seal and retry alone fill the queue).
NothingSentTwice ==
    \A i \in Jobs : sent[i] <= 1 /\ (sent[i] = 1 => book[i] \notin {"staging", "queued"})

-----------------------------------------------------------------------------
(* The ledger keeps its promise, for any set of jobs *)

\* The types of the ledger's two records, and the promise: this is inductive.
LedgerInv ==
    /\ book \in [Jobs -> Entries]
    /\ sent \in [Jobs -> {0, 1}]
    /\ \A i \in Jobs : sent[i] = 1 => book[i] \notin {"staging", "queued"}

\* A write keeps the promise: entries move by Moves, and one that starts over
\* has nothing on its record or is among the jobs the user answered for.
LEMMA WriteKeeps ==
    ASSUME LedgerInv, NEW S \in SUBSET Jobs, Write(S)
    PROVE  LedgerInv'
<1>1. book' \in [Jobs -> Entries]
  BY DEF Write
<1>2. sent' \in [Jobs -> {0, 1}]
  BY DEF Write, LedgerInv
<1>3. ASSUME NEW i \in Jobs, sent'[i] = 1
      PROVE  book'[i] \notin {"staging", "queued"}
  <2>1. i \notin S /\ sent[i] = 1
    BY <1>3 DEF Write
  <2>2. book[i] \notin {"staging", "queued", "absent", "failed"} \/ book'[i] \notin {"staging", "queued"}
    BY <2>1 DEF Write, LedgerInv
  <2>3. book'[i] # book[i] => <<book[i], book'[i]>> \in Moves
    BY DEF Write
  <2> QED
    BY <2>1, <2>2, <2>3 DEF Moves, Decided, LedgerInv
<1> QED
  BY <1>1, <1>2, <1>3 DEF LedgerInv

\* Sending needs an uncertain entry, which it leaves alone.
LEMMA SendKeeps ==
    ASSUME LedgerInv, NEW i \in Jobs, Send(i)
    PROVE  LedgerInv'
<1>1. book' = book /\ book[i] = "uncertain"
  BY DEF Send
<1>2. sent' \in [Jobs -> {0, 1}] /\ \A k \in Jobs : k # i => sent'[k] = sent[k]
  BY DEF Send, LedgerInv
<1> QED
  BY <1>1, <1>2 DEF LedgerInv

\* No commit request leaves twice between two decisions of the user, whatever
\* the number of jobs and however writes and requests follow one another.
THEOREM LedgerPromise == Spec => []NothingSentTwice
<1>1. Init => LedgerInv
  BY DEF Init, LedgerInv, Entries
<1>2. LedgerInv /\ [Next]_vars => LedgerInv'
  <2> SUFFICES ASSUME LedgerInv, [Next]_vars
               PROVE  LedgerInv'
    OBVIOUS
  <2>1. ASSUME NEW S \in SUBSET Jobs, Write(S) PROVE LedgerInv'
    BY <2>1, WriteKeeps
  <2>2. ASSUME NEW i \in Jobs, Send(i) PROVE LedgerInv'
    BY <2>2, SendKeeps
  <2>3. CASE UNCHANGED vars
    BY <2>3 DEF vars, LedgerInv
  <2> QED
    BY <2>1, <2>2, <2>3 DEF Next
<1>3. LedgerInv => NothingSentTwice
  <2> SUFFICES ASSUME LedgerInv, NEW i \in Jobs
               PROVE  sent[i] <= 1 /\ (sent[i] = 1 => book[i] \notin {"staging", "queued"})
    BY DEF NothingSentTwice
  <2>1. sent[i] = 0 \/ sent[i] = 1
    BY DEF LedgerInv
  <2> QED
    BY <2>1 DEF LedgerInv
<1> QED
  BY <1>1, <1>2, <1>3, PTL DEF Spec

=============================================================================
