----------------------- MODULE HostAuthorizationProofs -----------------------
(***************************************************************************)
(* The host keeps the promise AccountStore builds on, for any accounts: an *)
(* identity and its token travel together from the fetch through the relay *)
(* queue and, late, through the daemon's port.  The invariant follows them *)
(* there; the account of a task is one as long as its connection lasts,    *)
(* which is why the queue holds one connection at most.                    *)
(***************************************************************************)
EXTENDS HostAuthorization, AccountStoreProofs

\* An answer of the sign-in belongs to the account it was asked for.
FetchOK ==
    \A c \in Callers :
        /\ fetch[c].stage # "off" => fetch[c].want \in Accounts
        /\ fetch[c].stage \in {"sso", "token"} => fetch[c].of = fetch[c].want

\* A task past its start runs; while it fetches and sends, the fetch is its own.
\* Only the jailbreak build sends.
TaskOK ==
    /\ task.step # "start" => line # <<>>
    /\ task.step \in {"fetch", "send"} =>
           task.account \in Accounts /\ fetch["connection"].want = task.account
    /\ task.step = "send" => fetch["connection"].stage = "token"
    /\ task.step \in {"ask", "fetch", "send"} => relayed

\* One connection at most is under way, for an account.
LineOK ==
    /\ conn.stage # "idle" => conn.target \in Accounts
    /\ \A i \in 1..Len(line) : line[i] = "connect" => conn.stage = "queued"
    /\ \A i \in 1..Len(line) : line[i] = "refresh" => relayed

OwedOK == owed.op \in {"renew", "native"} => owed.of = owed.account /\ owed.account \in Accounts

HostInv == HostTypeOK /\ FetchOK /\ TaskOK /\ LineOK /\ OwedOK

\* No task stands in the queue twice.
Once(q) == \A i, j \in 1..Len(q) : q[i] = q[j] => i = j

\* What holds when a task has ended.
TaskOver ==
    /\ line' \in Seq(Tasks) /\ Once(line')
    /\ conn' \in [stage : {"idle", "begun", "queued"}, up : BOOLEAN, target : Maybe]
    /\ task' \in [step : Steps, account : Maybe]
    /\ LineOK' /\ TaskOK'

Promised == AccountNext \/ UNCHANGED accountVars

\* The build does not change (no action of AccountStore writes relayed).
LEMMA RelayedFixed == Promised => UNCHANGED relayed
BY DEF Promised, AccountNext, accountVars, Initialize, Crash, Expire, HostRequest, NativeBegins,
       NativeRefused, NativeBinds, NativeUnsaved, UserRequest, AddToken, Select, Remove,
       QueueJob, EndJob

\* The end of a task (TaskEnds, Outcome, Ends).
LEMMA EndOK ==
    ASSUME HostInv, line # <<>>, NEW ok \in BOOLEAN, Ends(ok), UNCHANGED relayed
    PROVE  TaskOver
<1> USE DEF HostInv, HostTypeOK
<1>1. /\ line' = Tail(line) /\ task' = [step |-> "start", account |-> NoAccount]
  BY DEF Ends, TaskEnds
<1>2. /\ line' \in Seq(Tasks) /\ Len(line') = Len(line) - 1 /\ Len(line) \in Nat \ {0}
      /\ \A i \in 1..Len(line') : line'[i] = line[i + 1]
  BY <1>1
<1>5. Once(line')
  BY <1>2 DEF Once
<1>3. CASE Head(line) = "connect"
  <2>1. conn' \in [stage : {"idle"}, up : BOOLEAN, target : Maybe]
    <3>1. conn' = IF screen # conn.target THEN NotConnected
                  ELSE [conn EXCEPT !.stage = "idle", !.up = ok]
      BY <1>3 DEF Ends, Outcome
    <3>2. conn \in [stage : {"idle", "begun", "queued"}, up : BOOLEAN, target : Maybe]
      OBVIOUS
    <3>3. [conn EXCEPT !.stage = "idle", !.up = ok] \in [stage : {"idle"}, up : BOOLEAN, target : Maybe]
      BY ONLY <3>2, ok \in BOOLEAN
    <3>4. NotConnected \in [stage : {"idle"}, up : BOOLEAN, target : Maybe]
      BY DEF NotConnected, Maybe
    <3> QED BY ONLY <3>1, <3>3, <3>4
  <2>2. \A i \in 1..Len(line') : line'[i] # "connect"
    BY <1>2, <1>3 DEF LineOK
  <2>3. \A i \in 1..Len(line') : line'[i] = "refresh" => relayed'
    BY <1>2 DEF LineOK
  <2>4. LineOK'
    BY <2>1, <2>2, <2>3 DEF LineOK
  <2> QED BY <1>1, <1>2, <1>5, <2>1, <2>4 DEF TaskOver, TaskOK, Steps, Maybe
<1>4. CASE Head(line) # "connect"
  <2>1. conn' = conn
    BY <1>4 DEF Ends
  <2>2. ASSUME NEW i \in 1..Len(line'), line'[i] = "connect" PROVE conn.stage = "queued"
    BY <1>2, <2>2 DEF LineOK
  <2>3. \A i \in 1..Len(line') : line'[i] = "refresh" => relayed'
    BY <1>2 DEF LineOK
  <2>4. LineOK'
    BY <1>2, <2>1, <2>2, <2>3 DEF LineOK
  <2> QED BY <1>1, <1>2, <1>5, <2>1, <2>4 DEF TaskOver, TaskOK, Steps, Maybe
<1> QED BY <1>3, <1>4

\* A task that joins the queue (WithRefresh, Connect).
LEMMA AppendOK ==
    ASSUME HostInv, NEW t \in Tasks
    PROVE  /\ Append(line, t) \in Seq(Tasks) /\ Append(line, t) # <<>>
           /\ Len(Append(line, t)) = Len(line) + 1
           /\ \A i \in 1..Len(line) + 1 :
                  Append(line, t)[i] = IF i = Len(line) + 1 THEN t ELSE line[i]
BY DEF HostInv, HostTypeOK

LEMMA RefreshOK ==
    ASSUME HostInv, UNCHANGED <<relayed, conn, task, fetch>>, line' = WithRefresh
    PROVE  line' \in Seq(Tasks) /\ Once(line') /\ LineOK' /\ TaskOK'
<1>1. CASE line' = line
  BY <1>1 DEF HostInv, HostTypeOK, Once, LineOK, TaskOK
<1>2. CASE line' = Append(line, "refresh") /\ relayed /\ ~Refreshing
  <2>1. /\ line' \in Seq(Tasks) /\ line' # <<>> /\ Len(line') = Len(line) + 1
        /\ \A i \in 1..Len(line) + 1 :
               line'[i] = IF i = Len(line) + 1 THEN "refresh" ELSE line[i]
    BY <1>2, AppendOK DEF Tasks
  <2>2. \A i \in 1..Len(line') : line'[i] = "connect" => i \in 1..Len(line) /\ line[i] = "connect"
    BY <2>1 DEF HostInv, HostTypeOK
  <2>3. \A i \in 1..Len(line') : line'[i] = "refresh" => relayed
    BY <1>2
  <2>4. LineOK'
    BY <2>1, <2>2, <2>3 DEF HostInv, LineOK
  <2>5. \A i \in 1..Len(line) : line[i] # "refresh"
    BY <1>2 DEF Refreshing, HostInv, HostTypeOK
  <2>6. Once(line')
    BY <2>1, <2>5 DEF HostInv, HostTypeOK, Once
  <2> QED BY <2>1, <2>4, <2>6 DEF HostInv, TaskOK
<1> QED BY <1>1, <1>2 DEF WithRefresh

\* The main thread (ScreenChanges, Connect, WorkerStarts, RefreshTimer).
LEMMA MainThread ==
    ASSUME HostInv,
           \/ ScreenChanges \/ WorkerStarts \/ RefreshTimer
           \/ \E foreground \in BOOLEAN : Connect(foreground)
    PROVE  HostInv' /\ UNCHANGED accountVars
<1> USE DEF HostInv, HostTypeOK, accountVars
<1>1. CASE ScreenChanges
  BY <1>1 DEF ScreenChanges, FetchOK, TaskOK, LineOK, OwedOK, Maybe
<1>2. CASE RefreshTimer
  BY <1>2, RefreshOK DEF RefreshTimer, Once, FetchOK, OwedOK
<1>3. CASE WorkerStarts
  <2>1. /\ conn' \in [stage : {"queued"}, up : BOOLEAN, target : Accounts]
        /\ line' = Append(line, "connect") /\ conn.stage = "begun"
        /\ UNCHANGED <<accountVars, screen, task, fetch, owed>>
    BY <1>3 DEF WorkerStarts, LineOK
  <2>2. /\ line' \in Seq(Tasks) /\ line' # <<>> /\ Len(line') = Len(line) + 1
        /\ \A i \in 1..Len(line) + 1 :
               line'[i] = IF i = Len(line) + 1 THEN "connect" ELSE line[i]
    BY <2>1, AppendOK DEF Tasks
  <2>3. \A i \in 1..Len(line') : line'[i] = "connect" => i = Len(line) + 1
    BY <2>1, <2>2 DEF LineOK
  <2> QED BY <2>1, <2>2, <2>3 DEF FetchOK, TaskOK, LineOK, OwedOK, Maybe
<1>4. ASSUME NEW foreground \in BOOLEAN, Connect(foreground) PROVE HostInv' /\ UNCHANGED accountVars
  <2>1. UNCHANGED <<accountVars, screen, task, fetch, owed>> /\ conn.stage = "idle"
    BY <1>4 DEF Connect
  <2>2. \A i \in 1..Len(line) : line[i] # "connect"
    BY <2>1 DEF LineOK
  <2>3. CASE screen = NoAccount
    <3>1. line' = WithRefresh /\ conn' = NotConnected
      BY <1>4, <2>3 DEF Connect
    <3>2. /\ line' \in Seq(Tasks) /\ (line' # <<>> \/ line' = line)
          /\ \A i \in 1..Len(line') :
                 line'[i] # "connect" /\ (line'[i] = "refresh" => relayed)
          /\ \A i, j \in 1..Len(line') : line'[i] = line'[j] => i = j
      <4>1. CASE line' = line
        BY <2>2, <4>1 DEF LineOK
      <4>2. CASE line' = Append(line, "refresh") /\ relayed /\ ~Refreshing
        <5>1. \A i \in 1..Len(line) : line[i] # "refresh"
          BY <4>2 DEF Refreshing
        <5> QED BY <2>2, <4>2, <5>1, AppendOK DEF Tasks
      <4> QED BY <3>1, <4>1, <4>2 DEF WithRefresh
    <3> QED BY <2>1, <3>1, <3>2 DEF NotConnected, FetchOK, TaskOK, LineOK, OwedOK, Maybe
  <2>4. CASE screen # NoAccount
    <3>1. conn' = [stage |-> "begun", up |-> FALSE, target |-> screen] /\ line' = line
      BY <1>4, <2>4 DEF Connect
    <3> QED BY <2>1, <2>2, <2>4, <3>1 DEF FetchOK, TaskOK, LineOK, OwedOK, Maybe
  <2> QED BY <2>3, <2>4
<1> QED BY <1>1, <1>2, <1>3, <1>4

\* The fetches (Checks, Verifies, GivesNone, UploadAsks, UploadUses).
LEMMA Fetches ==
    ASSUME HostInv,
           \/ \E c \in Callers : Fetching(c)
           \/ (\E a \in Accounts : UploadAsks(a)) \/ UploadUses
    PROVE  HostInv' /\ UNCHANGED accountVars
<1> USE AccountsAssumption DEF HostInv, HostTypeOK, FetchOK, TaskOK, accountVars
<1>1. ASSUME NEW c \in Callers, Fetching(c) PROVE HostInv' /\ UNCHANGED accountVars
  <2>1. /\ UNCHANGED <<accountVars, screen, conn, line, task, owed>>
        /\ fetch[c].stage \in {"asked", "sso"}
        /\ fetch' = [fetch EXCEPT ![c] = fetch'[c]]
    BY <1>1 DEF Fetching, Checks, Verifies, GivesNone, Reached
  <2>2. /\ fetch'[c] \in [stage : Stages, want : {fetch[c].want}, of : Maybe]
        /\ fetch'[c].stage \in {"sso", "token"} => fetch'[c].of = fetch[c].want
        /\ fetch[c].want \in Accounts
    <3>1. CASE Checks(c)
      <4>1. CASE screen = fetch[c].want
        <5>1. fetch'[c] = [fetch[c] EXCEPT !.stage = "sso", !.of = screen] /\ screen \in Accounts
          BY <3>1, <4>1 DEF Checks, Maybe
        <5> QED BY <4>1, <5>1 DEF Stages, Maybe
      <4>2. CASE screen # fetch[c].want
        BY <3>1, <4>2 DEF Checks, Reached, Stages
      <4> QED BY <4>1, <4>2
    <3>2. CASE Verifies(c)
      <4>1. /\ fetch[c] \in [stage : {"sso"}, want : {fetch[c].want}, of : Maybe]
            /\ fetch[c].of = fetch[c].want /\ fetch[c].want \in Accounts
        BY <3>2 DEF Verifies
      <4>2. PICK s \in {"token", "failed"} : fetch'[c] = [fetch[c] EXCEPT !.stage = s]
        BY <3>2 DEF Verifies, Reached
      <4> QED BY <4>1, <4>2 DEF Stages
    <3>3. CASE GivesNone(c)
      BY <3>3 DEF GivesNone, Reached, Stages
    <3> QED BY <1>1, <3>1, <3>2, <3>3 DEF Fetching
  <2> QED BY <2>1, <2>2 DEF LineOK, OwedOK, Callers
<1>2. ASSUME NEW a \in Accounts, UploadAsks(a) PROVE HostInv' /\ UNCHANGED accountVars
  BY <1>2 DEF UploadAsks, Asked, LineOK, OwedOK, Callers, Stages, Maybe
<1>3. CASE UploadUses
  BY <1>3 DEF UploadUses, NoFetch, LineOK, OwedOK, Callers, Stages, Maybe
<1> QED BY <1>1, <1>2, <1>3

\* The relay queue's steps that send nothing (RelayQueue but for the two sends).
LEMMA QueueSteps ==
    ASSUME HostInv,
           \/ RefreshBegins \/ RefreshAsks \/ RefreshUnreachable \/ ConnectBegins
           \/ ConnectEmbedded \/ FetchReturns \/ NativeUnheard
    PROVE  HostInv' /\ Promised
<1> USE AccountsAssumption DEF HostInv, HostTypeOK, Promised, accountVars
<1>1. CASE RefreshBegins
  BY <1>1 DEF RefreshBegins, At, FetchOK, TaskOK, LineOK, OwedOK, Steps
<1>2. CASE RefreshAsks
  <2>1. /\ UNCHANGED <<accountVars, screen, conn, line, owed>> /\ line # <<>> /\ relayed
        /\ \/ /\ task.account \in Accounts /\ task' = [task EXCEPT !.step = "fetch"]
              /\ Asked("connection", task.account)
           \/ task' = [task EXCEPT !.step = "clear"] /\ UNCHANGED fetch
    BY <1>2 DEF RefreshAsks, GoTo, At, MayRenew, TaskOK, Maybe
  <2> QED BY <2>1 DEF Asked, FetchOK, TaskOK, LineOK, OwedOK, Steps, Stages, Callers, Maybe
<1>3. CASE RefreshUnreachable
  <2>1. /\ Head(line) # "connect" /\ line # <<>> /\ Ends(FALSE)
        /\ UNCHANGED <<accountVars, screen, fetch, owed>>
    BY <1>3 DEF RefreshUnreachable, At, Ends
  <2>2. TaskOver
    BY <2>1, EndOK DEF accountVars
  <2> QED BY <2>1, <2>2 DEF TaskOver, Once, FetchOK, OwedOK
<1>4. CASE ConnectBegins
  <2>1. /\ UNCHANGED <<accountVars, screen, conn, line, owed>> /\ line # <<>> /\ relayed
        /\ conn.target \in Accounts
        /\ task' = [step |-> "fetch", account |-> conn.target]
        /\ Asked("connection", conn.target)
    BY <1>4 DEF ConnectBegins, At, LineOK
  <2> QED BY <2>1 DEF Asked, FetchOK, TaskOK, LineOK, OwedOK, Steps, Stages, Callers, Maybe
<1>5. CASE ConnectEmbedded
  <2>1. /\ UNCHANGED <<screen, conn, line, owed>> /\ line # <<>>
        /\ conn.target \in Accounts /\ ~relayed /\ NativeBegins(conn.target, NoAccount)
        /\ task' = [step |-> "answer", account |-> conn.target]
        /\ Asked("connection", conn.target)
    BY <1>5 DEF ConnectEmbedded, At, LineOK
  <2>2. AccountNext
    BY <2>1 DEF AccountNext, HostRequest
  <2> QED BY <2>1, <2>2 DEF Asked, FetchOK, TaskOK, LineOK, OwedOK, Steps, Stages, Callers, Maybe
<1>6. CASE FetchReturns
  <2>1. PICK step \in {"send", "clear"} :
           /\ step = "send" => fetch["connection"].stage = "token"
           /\ task.step = "fetch" /\ task' = [task EXCEPT !.step = step]
           /\ UNCHANGED <<accountVars, screen, conn, line, fetch, owed>>
    BY <1>6 DEF FetchReturns, GoTo
  <2> QED BY <2>1 DEF FetchOK, TaskOK, LineOK, OwedOK, Steps
<1>7. CASE NativeUnheard
  <2>1. task.step = "answer" /\ Ends(FALSE) /\ UNCHANGED <<accountVars, screen, fetch, owed>>
    BY <1>7 DEF NativeUnheard
  <2>2. TaskOver
    BY <2>1, EndOK DEF TaskOK, accountVars
  <2> QED BY <2>1, <2>2 DEF TaskOver, Once, FetchOK, OwedOK
<1> QED BY <1>1, <1>2, <1>3, <1>4, <1>5, <1>6, <1>7

\* A message that waits to be sent is one of the host's requests (Pending, Bearer).
LEMMA PendingOK ==
    ASSUME HostInv, NEW m \in Pending
    PROVE  /\ m \in Messages
           /\ m.op \in {"renew", "native"} => m.of = m.account /\ m.account \in Accounts
           /\ line # <<>>
<1> USE DEF HostInv, HostTypeOK
<1>1. CASE task.step = "clear"
  <2>1. m = [op |-> "clear", account |-> NoAccount, of |-> NoAccount]
    BY <1>1 DEF Pending, At, NoMessage
  <2> QED BY <1>1, <2>1 DEF Messages, TaskOK, Maybe
<1>2. CASE task.step = "send"
  <2>1. /\ task.account \in Accounts /\ fetch["connection"].of = task.account /\ line # <<>>
    BY <1>2 DEF TaskOK, FetchOK, Callers
  <2>2. m \in {Bearer("renew"), Bearer("native")}
    BY <1>2 DEF Pending, At
  <2> QED BY <2>1, <2>2 DEF Bearer, Messages, Maybe
<1> QED BY <1>1, <1>2 DEF Pending, At

\* What the daemon makes of it is a step AccountStore allows (Executes).
LEMMA ExecutesOK ==
    ASSUME NEW m \in Messages, Executes(m),
           m.op \in {"renew", "native"} => m.of = m.account /\ m.account \in Accounts
    PROVE  AccountNext
<1>1. CASE m.op = "clear"
  BY <1>1 DEF Executes, AccountNext, HostRequest
<1>2. CASE m.op = "renew"
  BY <1>2 DEF Executes, AccountNext, HostRequest
<1>3. CASE m.op = "native"
  <2>1. NativeBegins(m.account, m.account) /\ m.account \in Accounts
    BY <1>3 DEF Executes
  <2>2. NativeBegins(m.account, IF relayed THEN m.account ELSE NoAccount)
    BY <2>1 DEF NativeBegins
  <2> QED BY <2>1, <2>2 DEF AccountNext, HostRequest
<1> QED BY <1>1, <1>2, <1>3 DEF Messages

\* The sends, heard or lost, and the daemon's late handling (RequestSent, RequestLost, OwedHandled).
LEMMA Sends ==
    ASSUME HostInv, RequestSent \/ RequestLost \/ OwedHandled
    PROVE  HostInv' /\ Promised
<1> USE DEF HostInv, HostTypeOK, Promised
<1> DEFINE Consumed == fetch' = [fetch EXCEPT !["connection"] = NoFetch]
<1>1. ASSUME Consumed PROVE /\ fetch' \in [Callers -> [stage : Stages, want : Maybe, of : Maybe]]
                            /\ FetchOK'
  BY <1>1 DEF FetchOK, NoFetch, Callers, Stages, Maybe
<1>2. CASE RequestSent
  <2>1. PICK m \in Pending : /\ Executes(m) /\ Consumed /\ UNCHANGED <<screen, owed>>
                             /\ \/ GoTo("answer") /\ UNCHANGED conn
                                \/ Ends(FALSE)
    BY <1>2 DEF RequestSent
  <2>2. AccountNext
    BY <2>1, PendingOK, ExecutesOK
  <2>3. UNCHANGED relayed /\ line # <<>>
    BY <2>1, <2>2, PendingOK, RelayedFixed DEF Promised
  <2>4. CASE GoTo("answer") /\ UNCHANGED conn
    BY <1>1, <2>1, <2>2, <2>3, <2>4 DEF GoTo, TaskOK, LineOK, OwedOK, Steps
  <2>5. CASE Ends(FALSE)
    <3>1. TaskOver
      BY <2>3, <2>5, EndOK
    <3> QED BY <1>1, <2>1, <2>2, <3>1 DEF TaskOver, Once, OwedOK
  <2> QED BY <2>1, <2>4, <2>5
<1>3. CASE RequestLost
  <2>1. PICK m \in Pending : /\ owed' = owed \/ owed' = m
                             /\ Ends(FALSE) /\ Consumed /\ UNCHANGED <<accountVars, screen>>
    BY <1>3 DEF RequestLost
  <2>2. owed' \in Messages \cup {NoMessage} /\ OwedOK'
    BY <2>1, PendingOK DEF OwedOK
  <2>3. TaskOver
    BY <2>1, PendingOK, EndOK DEF accountVars
  <2> QED BY <1>1, <2>1, <2>2, <2>3 DEF TaskOver, Once
<1>4. CASE OwedHandled
  <2>1. /\ Executes(owed) /\ owed # NoMessage /\ owed' = NoMessage
        /\ UNCHANGED <<screen, conn, line, task, fetch>>
    BY <1>4 DEF OwedHandled
  <2>2. AccountNext
    BY <2>1, ExecutesOK DEF OwedOK
  <2>3. UNCHANGED relayed
    BY <2>2, RelayedFixed DEF Promised
  <2> QED BY <2>1, <2>2, <2>3 DEF FetchOK, TaskOK, LineOK, OwedOK, NoMessage
<1> QED BY <1>2, <1>3, <1>4

\* The end of account_native, the crash of the daemon and the death of the host.
LEMMA Outcomes ==
    ASSUME HostInv, NativeSucceeds \/ NativeFails \/ DaemonCrash \/ HostDies
    PROVE  HostInv' /\ Promised
<1> USE DEF HostInv, HostTypeOK, Promised
<1>1. CASE HostDies
  BY <1>1 DEF HostDies, AccountNext, NotConnected, NoFetch, FetchOK, TaskOK, LineOK, OwedOK,
              Steps, Stages, Callers, Maybe
<1>2. CASE NativeSucceeds \/ NativeFails \/ DaemonCrash
  <2>1. /\ AccountNext /\ UNCHANGED <<screen, owed>>
        /\ Answered(TRUE) \/ Answered(FALSE)
        /\ FetchOver \/ UNCHANGED fetch
    BY <1>2 DEF NativeSucceeds, NativeFails, DaemonCrash, AccountNext
  <2>2. fetch' = fetch \/ fetch' = [fetch EXCEPT !["connection"] = NoFetch]
    BY <2>1 DEF FetchOver
  <2>3. fetch' \in [Callers -> [stage : Stages, want : Maybe, of : Maybe]] /\ FetchOK'
    BY <2>2 DEF FetchOK, NoFetch, Callers, Stages, Maybe
  <2>4. UNCHANGED relayed
    BY <2>1, RelayedFixed
  <2>5. CASE UNCHANGED <<conn, line, task>>
    <3>1. TaskOK'
      BY <2>1, <2>4, <2>5 DEF FetchOver, TaskOK
    <3> QED BY <2>1, <2>3, <2>4, <2>5, <3>1 DEF LineOK, OwedOK
  <2>6. CASE task.step = "answer" /\ (Ends(TRUE) \/ Ends(FALSE))
    <3>1. TaskOver
      BY <2>4, <2>6, EndOK DEF TaskOK
    <3> QED BY <2>1, <2>3, <3>1 DEF TaskOver, Once, OwedOK
  <2> QED BY <2>1, <2>5, <2>6 DEF Answered
<1> QED BY <1>1, <1>2

LEMMA HostInvInductive ==
    /\ Init => HostInv
    /\ HostInv /\ [Next]_vars => HostInv' /\ Promised
<1>1. ASSUME Init PROVE HostInv
  BY <1>1 DEF Init, HostInv, HostTypeOK, FetchOK, TaskOK, LineOK, OwedOK, NotConnected, NoFetch,
              NoMessage, Callers, Steps, Stages, Maybe
<1>2. ASSUME HostInv, UNCHANGED vars PROVE HostInv' /\ Promised
  BY <1>2 DEF vars, hostVars, accountVars, Promised, HostInv, HostTypeOK, FetchOK, TaskOK, LineOK, OwedOK
<1>3. ASSUME HostInv, Next PROVE HostInv' /\ Promised
  <2>1. CASE Host
    BY <1>3, <2>1, MainThread, Fetches, QueueSteps, Sends DEF Host, RelayQueue, Promised
  <2>2. CASE Engine
    <3>1. CASE (Initialize \/ Expire \/ UserRequest) /\ UNCHANGED hostVars
      <4>1. Promised
        BY <3>1 DEF Promised, AccountNext
      <4>2. UNCHANGED relayed
        BY <4>1, RelayedFixed
      <4> QED BY <1>3, <3>1, <4>1, <4>2
              DEF hostVars, HostInv, HostTypeOK, FetchOK, TaskOK, LineOK, OwedOK
    <3> QED BY <1>3, <2>2, <3>1, Sends, Outcomes DEF Engine
  <2>3. CASE HostDies
    BY <1>3, <2>3, Outcomes
  <2> QED BY <1>3, <2>1, <2>2, <2>3 DEF Next
<1> QED BY <1>1, <1>2, <1>3

\* Types of the host's state (HostTypeOK).
THEOREM HostTyped == Spec => []HostTypeOK
<1>1. HostInv => HostTypeOK
  BY DEF HostInv
<1> QED BY <1>1, HostInvInductive, PTL DEF Spec

\* GSNativeBearer: a token handed out is of the identity that was asked for.
THEOREM OwnTokens == Spec => []TokensOfTheirOwner
<1>1. HostInv => TokensOfTheirOwner
  BY DEF HostInv, FetchOK, TokensOfTheirOwner
<1> QED BY <1>1, HostInvInductive, PTL DEF Spec

\* Relay queue, port and daemon: every step of the whole is a step AccountStore
\* allows, or leaves the engine's accounts alone.
THEOREM HostKeepsPromise == Spec => KeepsAccountSpec
<1>1. Init => AccountInit
  BY DEF Init
<1>2. HostInv /\ [Next]_vars => [AccountNext]_accountVars
  BY HostInvInductive DEF Promised
<1> QED BY <1>1, <1>2, HostInvInductive, PTL DEF Spec, AccountSpec, KeepsAccountSpec

\* So the bearer an upload is handed is its account's, in the composition as well.
THEOREM UploadsGetTheirOwn == Spec => []BearerOfItsOwner
BY HostKeepsPromise, OneOwner, PTL DEF KeepsAccountSpec

=============================================================================
