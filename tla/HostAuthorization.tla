-------------------------- MODULE HostAuthorization --------------------------
(***************************************************************************)
(* How Google Photos lends its sign-in to the engine: the connection of    *)
(* the account on screen, the serial relay queue of the jailbreak build    *)
(* with its refreshes, the SSO fetch that both builds share, and requests  *)
(* to a daemon that may be lost or be handled after the client gave up.    *)
(* The engine's side is AccountStore.                                      *)
(*                                                                         *)
(* The main thread's part of each step is atomic.  A block it is handed at *)
(* the end of a task (the outcome, refreshing = NO) is part of the last    *)
(* step: whatever happens before it runs may as well have happened before. *)
(***************************************************************************)
EXTENDS AccountStore, Sequences

VARIABLES
    screen,     \* GSNativeAccountSummary: the signed-in account being viewed
    conn,       \* GSConnecting (and whether its worker has begun), GSConnected, GSConnectionID
    line,       \* GSRelayQueue (jailed: the worker): tasks, the running one first
    task,       \* the running task: its step and the account it is about
    fetch,      \* GSNativeBearer, called for a connection or for a jailed upload
    owed        \* a request in the daemon's port whose client has given up

hostVars == <<screen, conn, line, task, fetch, owed>>
vars == <<accountVars, hostVars>>

Callers == {"connection", "upload"}
Tasks   == {"connect", "refresh"}
Steps   == {"start", "ask", "fetch", "clear", "send", "answer"}
Stages  == {"off", "asked", "sso", "token", "failed"}
NoFetch == [stage |-> "off", want |-> NoAccount, of |-> NoAccount]
NoMessage == [op |-> "none", account |-> NoAccount, of |-> NoAccount]
Messages  == [op : {"clear", "renew", "native"}, account : Maybe, of : Maybe]

\* GSRefreshDaemonAccount queues a refresh unless one is under way (refreshing).
Refreshing == \E i \in DOMAIN line : line[i] = "refresh"

\* Slip: every tick queues one.
EveryTick == IF relayed THEN Append(line, "refresh") ELSE line

WithRefresh == IF relayed /\ ~Refreshing THEN Append(line, "refresh") ELSE line

At(kind, step) == line # <<>> /\ Head(line) = kind /\ task.step = step
GoTo(step) == task' = [task EXCEPT !.step = step] /\ UNCHANGED line
TaskEnds   == task' = [step |-> "start", account |-> NoAccount] /\ line' = Tail(line)

NotConnected == [stage |-> "idle", up |-> FALSE, target |-> NoAccount]

\* The main queue learns how a connection ended; a result for an account that is
\* no longer on screen is not taken for the new one's.
Outcome(ok) ==
    conn' = IF screen # conn.target
            THEN NotConnected
            ELSE [conn EXCEPT !.stage = "idle", !.up = ok]

\* A task ends; a connection has succeeded when ok.
Ends(ok) ==
    /\ TaskEnds
    /\ IF Head(line) = "connect" THEN Outcome(ok) ELSE UNCHANGED conn

-----------------------------------------------------------------------------
(* Google Photos' main thread *)

\* The user signs in, out or changes the account at any time.
ScreenChanges ==
    /\ screen' \in Maybe \ {screen}
    /\ UNCHANGED <<accountVars, conn, line, task, fetch, owed>>

\* Slip: a failed attempt is not repeated.
NeverAgain(foreground) == screen # conn.target

\* Whether a tick or a return to the foreground starts an attempt, once the 60 s
\* (foreground: 5 s) since the last one are over.
AttemptDue(foreground) == screen # conn.target \/ foreground \/ ~conn.up

\* GSConnectAvailableAccount.
Connect(foreground) ==
    /\ conn.stage = "idle"
    /\ IF screen = NoAccount
       THEN /\ conn.target # NoAccount
            /\ conn' = NotConnected
            /\ line' = WithRefresh
       ELSE /\ AttemptDue(foreground)
            /\ conn' = [stage |-> "begun", up |-> FALSE, target |-> screen]
            /\ UNCHANGED line
    /\ UNCHANGED <<accountVars, screen, task, fetch, owed>>

\* The worker of the attempt takes its place in the relay queue.
WorkerStarts ==
    /\ conn.stage = "begun"
    /\ conn' = [conn EXCEPT !.stage = "queued"]
    /\ line' = Append(line, "connect")
    /\ UNCHANGED <<accountVars, screen, task, fetch, owed>>

\* Slip: the timer is missing.
NoTimer == FALSE /\ UNCHANGED vars

\* The 60 s timer.
RefreshTimer ==
    /\ line' = WithRefresh /\ line' # line
    /\ UNCHANGED <<accountVars, screen, conn, task, fetch, owed>>

-----------------------------------------------------------------------------
(* GSNativeBearer *)

Asked(c, a) == fetch' = [fetch EXCEPT ![c] = [stage |-> "asked", want |-> a, of |-> NoAccount]]
Reached(c, stage) == fetch' = [fetch EXCEPT ![c].stage = stage]

\* Slip: the identity is looked at only when the answer comes.
ChecksLate(c) ==
    /\ fetch[c].stage = "asked" /\ screen # NoAccount
    /\ fetch' = [fetch EXCEPT ![c].stage = "sso", ![c].of = screen]
    /\ UNCHANGED <<accountVars, screen, conn, line, task, owed>>

\* First block on the main queue: the authorizer is the one of the account on screen.
Checks(c) ==
    /\ fetch[c].stage = "asked"
    /\ IF screen = fetch[c].want
       THEN fetch' = [fetch EXCEPT ![c].stage = "sso", ![c].of = screen]
       ELSE Reached(c, "failed")
    /\ UNCHANGED <<accountVars, screen, conn, line, task, owed>>

\* The SSO callback's block on the main queue.
Verifies(c) ==
    /\ fetch[c].stage = "sso"
    /\ Reached(c, IF screen = fetch[c].want THEN "token" ELSE "failed")
    /\ UNCHANGED <<accountVars, screen, conn, line, task, owed>>

\* The SSO reports an error, or 30 s are over: a block that comes later finds
\* finished set and does nothing.
GivesNone(c) ==
    /\ fetch[c].stage \in {"asked", "sso"}
    /\ Reached(c, "failed")
    /\ UNCHANGED <<accountVars, screen, conn, line, task, owed>>

Fetching(c) == Checks(c) \/ Verifies(c) \/ GivesNone(c)

\* An upload of the jailed build asks the host itself, and uses what it gets.
UploadAsks(a) ==
    /\ up /\ ~relayed /\ a \in live /\ fetch["upload"].stage = "off"
    /\ Asked("upload", a)
    /\ UNCHANGED <<accountVars, screen, conn, line, task, owed>>

UploadUses ==
    /\ fetch["upload"].stage \in {"token", "failed"}
    /\ fetch' = [fetch EXCEPT !["upload"] = NoFetch]
    /\ UNCHANGED <<accountVars, screen, conn, line, task, owed>>

-----------------------------------------------------------------------------
(* The relay queue.  A request is answered, or the client sees an error:   *)
(* it was never delivered, or it stays in the port and is handled later.   *)

Reachable == Idle /\ owed = NoMessage

\* refresh: the account on screen is read on the main queue.
RefreshBegins ==
    /\ At("refresh", "start")
    /\ task' = [step |-> "ask", account |-> screen]
    /\ UNCHANGED <<accountVars, screen, conn, line, fetch, owed>>

\* accounts is answered: renew only for the selected account with native binding.
MayRenew(a) == a # NoAccount /\ store.chosen = a /\ Authorization(store.chosen) # ""

RefreshAsks ==
    /\ At("refresh", "ask") /\ Reachable
    /\ IF MayRenew(task.account)
       THEN GoTo("fetch") /\ Asked("connection", task.account)
       ELSE GoTo("clear") /\ UNCHANGED fetch
    /\ UNCHANGED <<accountVars, screen, conn, owed>>

RefreshUnreachable ==
    /\ At("refresh", "ask")
    /\ TaskEnds
    /\ UNCHANGED <<accountVars, screen, conn, fetch, owed>>

\* connect: the bearer is fetched before the request (jailbreak) ...
ConnectBegins ==
    /\ At("connect", "start") /\ relayed
    /\ task' = [step |-> "fetch", account |-> conn.target] /\ UNCHANGED line
    /\ Asked("connection", conn.target)
    /\ UNCHANGED <<accountVars, screen, conn, owed>>

\* ... or by the engine, which holds its lock meanwhile (jailed).
ConnectEmbedded ==
    /\ At("connect", "start") /\ ~relayed
    /\ NativeBegins(conn.target, NoAccount)
    /\ task' = [step |-> "answer", account |-> conn.target] /\ UNCHANGED line
    /\ Asked("connection", conn.target)
    /\ UNCHANGED <<screen, conn, owed>>

\* Slip: a refresh that gets no bearer leaves the old one.
FetchFailedKeeps ==
    /\ task.step = "fetch" /\ fetch["connection"].stage \in {"token", "failed"}
    /\ IF fetch["connection"].stage = "token" THEN GoTo("send") /\ UNCHANGED <<conn, fetch>>
       ELSE Ends(FALSE) /\ fetch' = [fetch EXCEPT !["connection"] = NoFetch]
    /\ UNCHANGED <<accountVars, screen, owed>>

FetchReturns ==
    /\ task.step = "fetch" /\ fetch["connection"].stage \in {"token", "failed"}
    /\ GoTo(IF fetch["connection"].stage = "token" THEN "send" ELSE "clear")
    /\ UNCHANGED <<accountVars, screen, conn, fetch, owed>>

\* Slip: the request is filed under the account that is on screen by now.
BearerOfScreen(op) == [op |-> op, account |-> screen, of |-> fetch["connection"].of]

Bearer(op) == [op |-> op, account |-> task.account, of |-> fetch["connection"].of]

\* The daemon takes a request of the relay queue from its port.
Executes(m) ==
    \/ m.op = "clear"  /\ Clear                    /\ UNCHANGED <<relayed, up, credentials, binding, live>>
    \/ m.op = "renew"  /\ Renew(m.account, m.of)   /\ UNCHANGED <<relayed, up, credentials, binding, live>>
    \/ m.op = "native" /\ NativeBegins(m.account, m.of)

\* The last request of the running task, once it has come so far.
Pending ==
    CASE task.step = "clear"   -> {[NoMessage EXCEPT !.op = "clear"]}
      [] At("refresh", "send") -> {Bearer("renew")}
      [] At("connect", "send") -> {Bearer("native")}
      [] OTHER                 -> {}

\* It is sent and executed.  Nobody looks at the outcome of a clear, and a refusal
\* ends a refresh like an acceptance; for account_native the client waits for 120 s.
RequestSent ==
    /\ Reachable
    /\ \E m \in Pending :
        /\ Executes(m)
        /\ IF m.op = "native" THEN GoTo("answer") /\ UNCHANGED conn ELSE Ends(FALSE)
    /\ fetch' = [fetch EXCEPT !["connection"] = NoFetch]
    /\ UNCHANGED <<screen, owed>>

\* The client sees an error for a request that is lost or handled later.
RequestLost ==
    /\ \E m \in Pending : owed' = owed \/ (owed = NoMessage /\ up /\ owed' = m)
    /\ Ends(FALSE)
    /\ fetch' = [fetch EXCEPT !["connection"] = NoFetch]
    /\ UNCHANGED <<accountVars, screen>>

\* The client of a running account_native gives up, the daemon goes on.
NativeUnheard ==
    /\ task.step = "answer" /\ relayed
    /\ Ends(FALSE)
    /\ UNCHANGED <<accountVars, screen, fetch, owed>>

OwedHandled ==
    /\ owed # NoMessage /\ Idle
    /\ Executes(owed)
    /\ owed' = NoMessage
    /\ UNCHANGED <<screen, conn, line, task, fetch>>

-----------------------------------------------------------------------------
(* The engine *)

Answered(ok) == IF task.step = "answer" THEN Ends(ok) ELSE UNCHANGED <<conn, line, task>>

\* In the jailed build the bearer comes from the fetch the engine waits for.
BearerKnown == relayed \/ fetch["connection"].stage = "token"
FetchOver ==
    fetch' = IF relayed THEN fetch ELSE [fetch EXCEPT !["connection"] = NoFetch]

NativeSucceeds ==
    /\ BearerKnown /\ NativeBinds
    /\ Answered(TRUE) /\ FetchOver
    /\ UNCHANGED <<screen, owed>>

NativeFails ==
    /\ \/ (relayed \/ fetch["connection"].stage \in {"token", "failed"}) /\ NativeRefused
       \/ BearerKnown /\ NativeUnsaved
    /\ Answered(FALSE) /\ FetchOver
    /\ UNCHANGED <<screen, owed>>

\* The daemon dies and its clients see it; messages in its port stay with launchd.
DaemonCrash ==
    /\ relayed /\ Crash
    /\ Answered(FALSE)
    /\ UNCHANGED <<screen, fetch, owed>>

\* The host is killed with its relay queue, and in the jailed build with the engine.
HostDies ==
    /\ IF relayed THEN UNCHANGED accountVars ELSE Crash
    /\ screen' = NoAccount
    /\ conn' = NotConnected
    /\ line' = <<>> /\ task' = [step |-> "start", account |-> NoAccount]
    /\ fetch' = [c \in Callers |-> NoFetch]
    /\ UNCHANGED owed

Init ==
    /\ AccountInit
    /\ screen = NoAccount
    /\ conn = NotConnected
    /\ line = <<>> /\ task = [step |-> "start", account |-> NoAccount]
    /\ fetch = [c \in Callers |-> NoFetch]
    /\ owed = NoMessage

RelayQueue ==
    \/ RefreshBegins \/ RefreshAsks \/ RefreshUnreachable
    \/ ConnectBegins \/ ConnectEmbedded
    \/ FetchReturns \/ RequestSent \/ RequestLost \/ NativeUnheard

Host ==
    \/ \E foreground \in BOOLEAN : Connect(foreground)
    \/ WorkerStarts \/ RefreshTimer \/ ScreenChanges
    \/ \E c \in Callers : Fetching(c)
    \/ (\E a \in Accounts : UploadAsks(a)) \/ UploadUses
    \/ RelayQueue

Engine ==
    \/ OwedHandled \/ NativeSucceeds \/ NativeFails \/ DaemonCrash
    \/ (Initialize \/ Expire \/ UserRequest) /\ UNCHANGED hostVars

Next == Host \/ Engine \/ HostDies

\* What goes wrong between host and engine, and what the sign-in or Google denies.
Mishap == RefreshUnreachable \/ RequestLost \/ NativeUnheard \/ DaemonCrash \/ HostDies
Denial == NativeFails \/ \E c \in Callers : GivesNone(c)

\* The timers fire, queued blocks run, an SSO fetch ends after 30 s at the latest,
\* the daemon's loop serves its port, and launchd or the host starts the engine.
Fairness ==
    /\ WF_vars(Initialize /\ UNCHANGED hostVars)
    /\ WF_vars(Connect(FALSE) \/ WorkerStarts) /\ WF_vars(RefreshTimer)
    /\ WF_vars(RelayQueue \/ Fetching("connection"))
    /\ WF_vars(OwedHandled \/ NativeSucceeds \/ NativeFails)

Spec == Init /\ [][Next]_vars
FairSpec == Spec /\ Fairness

-----------------------------------------------------------------------------
\* The types; and the relay queue holds one refresh and one connection at most, so
\* a daemon that does not answer is not buried in requests.
HostTypeOK ==
    /\ screen \in Maybe
    /\ conn \in [stage : {"idle", "begun", "queued"}, up : BOOLEAN, target : Maybe]
    /\ line \in Seq(Tasks) /\ \A i, j \in 1..Len(line) : line[i] = line[j] => i = j
    /\ task \in [step : Steps, account : Maybe]
    /\ fetch \in [Callers -> [stage : Stages, want : Maybe, of : Maybe]]
    /\ owed \in Messages \cup {NoMessage}

\* The host keeps the promise the engine builds on: whatever is lost, handled late
\* or overtaken by a change of the account, the engine sees only requests that
\* AccountStore allows, tokens filed under the identity they are of among them.
KeepsAccountSpec == AccountSpec

\* What GSNativeBearer hands out is of the identity that was asked for, when the
\* user changes the account during the callback and back as well.
TokensOfTheirOwner ==
    \A c \in Callers : fetch[c].stage = "token" => fetch[c].of = fetch[c].want

\* The selected account is on screen with its binding: whenever its bearer expires
\* or is cleared, a refresh brings a new one without the user's doing.
Replenished ==
    \A a \in Accounts :
        /\ relayed
        /\ <>[](screen = a /\ store.chosen = a /\ store.held[a] = "native")
        /\ <>[][~Mishap /\ ~Denial]_vars
        => []<>(slot.id = a)

\* The connection is tried again until the account on screen is connected.
AccountConnects ==
    \A a \in Accounts :
        <>[](screen = a) /\ <>[][~Mishap /\ ~Denial]_vars => []<>(conn.up /\ conn.target = a)

\* An account that has left the screen does not keep its bearer in the daemon,
\* before the bearer expires, even when the new account gets none.
OldBearerCleared ==
    \A a \in Accounts :
        <>[](screen # a) /\ <>[][~Mishap]_vars => <>[](slot.id # a)

=============================================================================
