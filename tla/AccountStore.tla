---------------------------- MODULE AccountStore ----------------------------
(***************************************************************************)
(* The accounts of the engine: the credential store in memory and on file, *)
(* the one bearer that nativeRelay holds for the host, the account         *)
(* requests of upstream.go and the start of the engine by the C bridge.    *)
(*                                                                         *)
(* A request holds Engine.mu, so it is one action; account_native, which   *)
(* asks Google about the account in between, is two, and no other request  *)
(* runs while binding says so.  Running uploads only read the bearer.      *)
(***************************************************************************)
EXTENDS Naturals

CONSTANTS
    Accounts,   \* each an email with its SSO identity
    NoAccount,
    Tokens,     \* accounts that may also be added with a pasted credential
    Uploaders,  \* accounts that jobs may name
    SavesFail   \* whether a save of credentials.json may fail

ASSUME AccountsAssumption ==
    NoAccount \notin Accounts /\ Tokens \subseteq Accounts
    /\ Uploaders \subseteq Accounts /\ SavesFail \in BOOLEAN

VARIABLES
    relayed,    \* nativeRelay is enabled: the host registered no provider of its own
    up,         \* GunshotInitialize has returned and the process lives
    store,      \* AppConfig.Account: what is held of each account, the selected one
    file,       \* credentials.json
    slot,       \* nativeRelay: the identity it is filed under, whose token it is
    binding,    \* the account that a running account_native has validated
    live,       \* accounts that a job names which is neither completed nor cancelled
    unsure,     \* history: accounts whose save failed, so memory and file may differ
    checked     \* history: accounts that the Photos endpoint has accepted since
                \* they were last removed

credentials == <<store, file, unsure, checked>>
accountVars == <<relayed, up, credentials, slot, binding, live>>

Maybe == Accounts \cup {NoAccount}

\* The selected account is always one that is held.
Stores == {s \in [held : [Accounts -> {"none", "token", "native"}], chosen : Maybe] :
             s.chosen # NoAccount => s.held[s.chosen] # "none"}

EmptySlot == [id |-> NoAccount, of |-> NoAccount]

\* nativeRelay.get: the identity whose token a caller is handed for account a.
\* An expired bearer is never told from none, so expiry empties the slot.
Get(a) == IF slot.id = a THEN slot.of ELSE NoAccount

Authorization(a) ==
    IF ~relayed \/ a = NoAccount \/ store.held[a] # "native" THEN ""
    ELSE IF Get(a) = NoAccount THEN "waiting" ELSE "ready"

Idle == up /\ binding = NoAccount

Keep(s, a, what) == [s EXCEPT !.held[a] = what]
Choose(s, a)     == [s EXCEPT !.chosen = a]

Drop(s, a)       == [held |-> [s.held EXCEPT ![a] = "none"],
                     chosen |-> IF s.chosen = a THEN NoAccount ELSE s.chosen]

\* A save that succeeds: every account of the new state is on file.
Saved(s) ==
    /\ store' = s /\ file' = s
    /\ unsure' = {a \in unsure : s.held[a] = "none"}

\* Select and Remove take the change back in memory when the save fails, which
\* it may do before or after the new file took the place of the old one.
RolledBack(s) == SavesFail /\ store' = store /\ file' \in {file, s}

\* The upsert of account a fails anywhere; the library leaves the memory as it is.
UpsertFails(s, a) ==
    /\ SavesFail
    /\ store' \in {store, s} /\ file' \in {file, s}
    /\ unsure' = unsure \cup {a}

-----------------------------------------------------------------------------
AccountInit ==
    /\ relayed \in BOOLEAN
    /\ up = FALSE
    /\ file = [held |-> [a \in Accounts |-> "none"], chosen |-> NoAccount]
    /\ store = file
    /\ slot = EmptySlot /\ binding = NoAccount
    /\ live = {} /\ unsure = {} /\ checked = {}

\* GunshotInitialize: Open, LoadConfig, and the relay where no host provider is set.
Initialize ==
    /\ ~up /\ up' = TRUE
    /\ store' = file
    /\ UNCHANGED <<relayed, file, slot, binding, live, unsure, checked>>

Crash ==
    /\ up /\ up' = FALSE
    /\ slot' = EmptySlot /\ binding' = NoAccount
    /\ UNCHANGED <<relayed, credentials, live>>

\* Slip: the binding is in the store before its bearer is validated.
BindsAtOnce(a, of) ==
    /\ Idle /\ binding' = a
    /\ slot' = IF relayed THEN [id |-> a, of |-> of] ELSE slot
    /\ store' = Keep(store, a, "native")
    /\ UNCHANGED <<relayed, up, file, unsure, checked, live>>

\* account_native: the bearer goes into the slot before the account is validated.
NativeBegins(a, of) ==
    /\ Idle /\ binding' = a
    /\ slot' = IF relayed THEN [id |-> a, of |-> of] ELSE slot
    /\ UNCHANGED <<relayed, up, credentials, live>>

\* Slip: the bearer of a refused account stays in the slot.
RefusedButKept ==
    /\ up /\ binding # NoAccount /\ binding' = NoAccount
    /\ UNCHANGED <<relayed, up, credentials, slot, live>>

\* AddNativeAccount fails before it binds anything.
NativeRefused ==
    /\ up /\ binding # NoAccount /\ binding' = NoAccount
    /\ slot' = IF relayed THEN EmptySlot ELSE slot
    /\ UNCHANGED <<relayed, up, credentials, live>>

\* The endpoint accepts the bearer; the binding is stored, then selected.  An
\* error of the selection is ignored.
NativeBinds ==
    /\ up /\ binding # NoAccount /\ binding' = NoAccount
    /\ checked' = checked \cup {binding}
    /\ LET s == Keep(store, binding, "native") IN
       \/ Saved(Choose(s, binding))
       \/ /\ SavesFail
          /\ store' = s /\ file' \in {s, Choose(s, binding)}
          /\ unsure' = {a \in unsure : s.held[a] = "none"}
    /\ UNCHANGED <<relayed, up, slot, live>>

NativeUnsaved ==
    /\ up /\ binding # NoAccount /\ binding' = NoAccount
    /\ checked' = checked \cup {binding}
    /\ UpsertFails(Keep(store, binding, "native"), binding)
    /\ slot' = IF relayed THEN EmptySlot ELSE slot
    /\ UNCHANGED <<relayed, up, live>>

\* native_bearer, refused when account a has no native binding.
Renew(a, of) ==
    /\ Idle /\ relayed
    /\ slot' = IF store.held[a] = "native" THEN [id |-> a, of |-> of] ELSE slot

Clear == Idle /\ relayed /\ slot' = EmptySlot

Expire ==
    /\ slot # EmptySlot /\ slot' = EmptySlot
    /\ UNCHANGED <<relayed, up, credentials, binding, live>>

\* account_add, once Google has accepted the pasted credential.
AddToken(a) ==
    /\ Idle /\ a \in Tokens
    /\ LET s == Keep(store, a, "token") IN Saved(s) \/ UpsertFails(s, a)
    /\ UNCHANGED <<relayed, up, checked, slot, binding, live>>

Select(a) ==
    /\ Idle /\ store.held[a] # "none"
    /\ Saved(Choose(store, a)) \/ (RolledBack(Choose(store, a)) /\ UNCHANGED unsure)
    /\ UNCHANGED <<relayed, up, checked, slot, binding, live>>

\* Slip: the jobs are not looked at.
RemoveAnyway(a) ==
    /\ Idle /\ store.held[a] # "none"
    /\ Saved(Drop(store, a))
    /\ slot' = IF relayed THEN EmptySlot ELSE slot
    /\ UNCHANGED <<relayed, up, checked, binding, live>>

\* account_remove.  The slot is cleared whichever account it serves.
Remove(a) ==
    /\ Idle /\ store.held[a] # "none" /\ a \notin live
    /\ \/ /\ Saved(Drop(store, a)) /\ checked' = checked \ {a}
          /\ slot' = IF relayed THEN EmptySlot ELSE slot
       \/ /\ RolledBack(Drop(store, a))
          /\ unsure' = unsure \cup {a}
          /\ UNCHANGED <<slot, checked>>
    /\ UNCHANGED <<relayed, up, binding, live>>

\* begin finds the account; a job ends when it is completed or cancelled.
QueueJob(a) ==
    /\ Idle /\ store.held[a] # "none" /\ a \in Uploaders \ live
    /\ live' = live \cup {a}
    /\ UNCHANGED <<relayed, up, credentials, slot, binding>>

EndJob(a) ==
    /\ Idle /\ a \in live
    /\ live' = live \ {a}
    /\ UNCHANGED <<relayed, up, credentials, slot, binding>>

\* The settings and the clients that queue and cancel uploads.
UserRequest ==
    \E a \in Accounts : AddToken(a) \/ Select(a) \/ Remove(a) \/ QueueJob(a) \/ EndJob(a)

\* What the host sends: every token is of the identity it is sent for.  That is
\* the promise HostAuthorization keeps.
HostRequest ==
    \/ \E a \in Accounts : NativeBegins(a, IF relayed THEN a ELSE NoAccount)
    \/ /\ (\E a \in Accounts : Renew(a, a)) \/ Clear
       /\ UNCHANGED <<relayed, up, credentials, binding, live>>

AccountNext ==
    \/ Initialize \/ Crash \/ Expire
    \/ HostRequest \/ NativeRefused \/ NativeBinds \/ NativeUnsaved
    \/ UserRequest

AccountSpec == AccountInit /\ [][AccountNext]_accountVars

-----------------------------------------------------------------------------
\* The types; Stores says that the selected account is one that is held, through
\* removals, failing saves and restarts.
AccountTypeOK ==
    /\ relayed \in BOOLEAN /\ up \in BOOLEAN
    /\ store \in Stores /\ file \in Stores
    /\ slot \in [id : Maybe, of : Maybe]
    /\ binding \in Maybe
    /\ live \subseteq Accounts /\ unsure \subseteq Accounts /\ checked \subseteq Accounts

\* A bearer is of the identity it is filed under, so an upload, which asks by the
\* identity bound to its account, is never handed another's (architecture.md:42).
BearerOfItsOwner == slot.of = slot.id

\* No bearer is kept for an account the store does not hold, but for one that is
\* being bound (the clears after a failed account_native and after account_remove).
KnownBearers ==
    slot.id # NoAccount => slot.id = binding \/ store.held[slot.id] # "none"

\* A binding reaches the file only after the endpoint has accepted its bearer.
BindingsChecked == \A a \in Accounts : file.held[a] = "native" => a \in checked

\* A job that can still run has not lost its account, at a restart neither, unless
\* a save of that very account had failed (account_remove, begin, LoadConfig).
JobsKeepAccount == up => \A a \in live : store.held[a] # "none" \/ a \in unsure

=============================================================================
