------------------------- MODULE AccountStoreProofs -------------------------
(***************************************************************************)
(* What AccountStore promises, for any accounts.  Memory and file may      *)
(* disagree about an account only while it is in unsure, so the invariant  *)
(* carries that agreement along: a job needs its account on file, not in   *)
(* memory alone, to have it after a restart.                               *)
(***************************************************************************)
EXTENDS AccountStore, TLAPS

Unequipped ==
    /\ ~up => slot = EmptySlot /\ binding = NoAccount
    /\ ~relayed => slot = EmptySlot

AllChecked ==
    \A a \in Accounts : store.held[a] = "native" \/ file.held[a] = "native" => a \in checked

MemoryOnFile ==
    up => \A a \in Accounts \ unsure : store.held[a] = "none" <=> file.held[a] = "none"

JobsOnFile == \A a \in live \ unsure : file.held[a] # "none"

AccountInv ==
    /\ AccountTypeOK /\ BearerOfItsOwner /\ Unequipped /\ KnownBearers
    /\ AllChecked /\ MemoryOnFile /\ JobsOnFile

\* What the helpers make of a store (Keep, Choose, Drop).
LEMMA KeepOK ==
    ASSUME NEW s \in Stores, NEW a \in Accounts, NEW what \in {"token", "native"}
    PROVE  /\ Keep(s, a, what) \in Stores
           /\ Keep(s, a, what).held = [s.held EXCEPT ![a] = what]
<1> DEFINE Shapes == [held : [Accounts -> {"none", "token", "native"}], chosen : Maybe]
<1>1. s \in Shapes /\ (s.chosen # NoAccount => s.held[s.chosen] # "none")
  BY DEF Stores
<1>2. /\ Keep(s, a, what) \in Shapes
      /\ Keep(s, a, what).held = [s.held EXCEPT ![a] = what]
      /\ Keep(s, a, what).chosen = s.chosen
  BY <1>1 DEF Keep
<1>3. s.chosen # NoAccount => Keep(s, a, what).held[s.chosen] # "none"
  BY <1>1, <1>2
<1> QED BY <1>2, <1>3 DEF Stores

LEMMA ChooseOK ==
    ASSUME NEW s \in Stores, NEW a \in Accounts, s.held[a] # "none"
    PROVE  Choose(s, a) \in Stores /\ Choose(s, a).held = s.held
BY DEF Choose, Stores, Maybe

LEMMA DropOK ==
    ASSUME NEW s \in Stores, NEW a \in Accounts
    PROVE  Drop(s, a) \in Stores /\ Drop(s, a).held = [s.held EXCEPT ![a] = "none"]
BY DEF Drop, Stores, Maybe

\* A save that succeeds, of a store that drops no account but an unused one, keeps
\* what memory, file and jobs have to do with each other (Saved).
LEMMA SavedKeeps ==
    ASSUME AccountInv, up, UNCHANGED <<up, live>>,
           NEW s \in Stores, Saved(s),
           \A a \in live : store.held[a] # "none" => s.held[a] # "none"
    PROVE  /\ store' = s /\ file' = s /\ unsure' \subseteq Accounts
           /\ MemoryOnFile' /\ JobsOnFile'
<1>1. store' = s /\ file' = s /\ unsure' = {a \in unsure : s.held[a] = "none"}
  BY DEF Saved
<1>2. MemoryOnFile'
  BY <1>1 DEF MemoryOnFile
<1>3. ASSUME NEW a \in live, a \notin unsure' PROVE s.held[a] # "none"
  BY <1>1, <1>3 DEF AccountInv, AccountTypeOK, MemoryOnFile, JobsOnFile
<1> QED BY <1>1, <1>2, <1>3 DEF AccountInv, AccountTypeOK, JobsOnFile

\* Requests that leave the credentials as they are (accountVars but for slot, binding, live).
LEMMA SlotRequests ==
    ASSUME AccountInv, HostRequest \/ NativeRefused \/ Expire \/ Crash
    PROVE  AccountInv'
<1>1. UNCHANGED <<relayed, store, file, unsure, checked, live>>
  BY DEF HostRequest, NativeRefused, Expire, Crash, NativeBegins, Renew, Clear, credentials
<1> DEFINE Slots == AccountTypeOK' /\ BearerOfItsOwner' /\ Unequipped' /\ KnownBearers'
<1> USE <1>1, AccountsAssumption
    DEF AccountInv, AccountTypeOK, BearerOfItsOwner, Unequipped, KnownBearers, EmptySlot, Maybe
<1>2. Slots
  <2>1. ASSUME NEW a \in Accounts, NativeBegins(a, IF relayed THEN a ELSE NoAccount) PROVE Slots
    BY <2>1 DEF NativeBegins, Idle
  <2>2. ASSUME NEW a \in Accounts, Renew(a, a), UNCHANGED <<up, binding>> PROVE Slots
    BY <2>2 DEF Renew, Idle
  <2>3. CASE Clear /\ UNCHANGED <<up, binding>>
    BY <2>3 DEF Clear, Idle
  <2>4. CASE NativeRefused
    BY <2>4 DEF NativeRefused
  <2>5. CASE Expire
    BY <2>5 DEF Expire
  <2>6. CASE Crash
    BY <2>6 DEF Crash
  <2> QED BY <2>1, <2>2, <2>3, <2>4, <2>5, <2>6 DEF HostRequest
<1>3. up' => up
  BY DEF HostRequest, NativeRefused, Expire, Crash, NativeBegins, Renew, Clear, Idle, credentials
<1> QED BY <1>1, <1>2, <1>3 DEF AccountInv, AllChecked, MemoryOnFile, JobsOnFile

\* The outcome of a validated binding (NativeBinds, NativeUnsaved).
LEMMA Bindings ==
    ASSUME AccountInv, NativeBinds \/ NativeUnsaved
    PROVE  AccountInv'
<1> DEFINE s == Keep(store, binding, "native")
<1>1. /\ up /\ binding \in Accounts /\ binding' = NoAccount
      /\ checked' = checked \cup {binding} /\ UNCHANGED <<relayed, up, live>>
  BY DEF NativeBinds, NativeUnsaved, AccountInv, AccountTypeOK, Maybe
<1>2. s \in Stores /\ s.held = [store.held EXCEPT ![binding] = "native"]
  BY <1>1, KeepOK DEF AccountInv, AccountTypeOK
<1>3. Choose(s, binding) \in Stores /\ Choose(s, binding).held = s.held
  <2>1. s.held[binding] # "none"
    BY <1>1, <1>2 DEF AccountInv, AccountTypeOK, Stores
  <2> QED BY <1>1, <1>2, <2>1, ChooseOK
<1>4. \A a \in Accounts : store.held[a] # "none" => s.held[a] # "none"
  BY <1>2 DEF AccountInv, AccountTypeOK, Stores
<1>5. CASE Saved(Choose(s, binding)) /\ UNCHANGED slot
  <2>1. /\ store' = Choose(s, binding) /\ file' = store' /\ unsure' \subseteq Accounts
        /\ MemoryOnFile' /\ JobsOnFile'
    BY <1>1, <1>3, <1>4, <1>5, SavedKeeps DEF AccountInv, AccountTypeOK
  <2>2. KnownBearers'
    BY <1>1, <1>2, <1>3, <1>4, <1>5, <2>1 DEF AccountInv, AccountTypeOK, KnownBearers, Stores, Maybe
  <2> QED BY <1>1, <1>2, <1>3, <1>5, <2>1, <2>2
          DEF AccountInv, AccountTypeOK, BearerOfItsOwner, Unequipped, AllChecked, Stores, Maybe
<1>6. CASE /\ store' = s /\ file' \in {s, Choose(s, binding)}
           /\ unsure' = {a \in unsure : s.held[a] = "none"} /\ UNCHANGED slot
  <2>1. store' = s /\ file' \in Stores /\ file'.held = s.held
    BY <1>2, <1>3, <1>6
  <2>2. KnownBearers'
    BY <1>1, <1>2, <1>4, <1>6, <2>1 DEF AccountInv, AccountTypeOK, KnownBearers, Stores, Maybe
  <2>3. ASSUME NEW a \in live, a \notin unsure' PROVE s.held[a] # "none"
    BY <1>1, <1>4, <1>6, <2>3 DEF AccountInv, AccountTypeOK, MemoryOnFile, JobsOnFile
  <2>4. MemoryOnFile' /\ JobsOnFile'
    BY <1>1, <2>1, <2>3 DEF MemoryOnFile, JobsOnFile
  <2> QED BY <1>1, <1>2, <1>6, <2>1, <2>2, <2>4
          DEF AccountInv, AccountTypeOK, BearerOfItsOwner, Unequipped, AllChecked, Stores, Maybe
<1>7. CASE UpsertFails(s, binding) /\ slot' = IF relayed THEN EmptySlot ELSE slot
  <2>1. /\ store' \in {store, s} /\ file' \in {file, s} /\ unsure' = unsure \cup {binding}
    BY <1>7 DEF UpsertFails
  <2>2. slot' = EmptySlot
    BY <1>7 DEF AccountInv, Unequipped
  <2>3. \A a \in Accounts \ {binding} : s.held[a] = store.held[a]
    BY <1>2 DEF AccountInv, AccountTypeOK, Stores
  <2>4. MemoryOnFile' /\ JobsOnFile'
    BY <1>1, <2>1, <2>3 DEF AccountInv, AccountTypeOK, MemoryOnFile, JobsOnFile
  <2>5. AllChecked'
    BY <1>1, <2>1, <2>3 DEF AccountInv, AllChecked
  <2> QED BY AccountsAssumption, <1>1, <1>2, <2>1, <2>2, <2>4, <2>5
          DEF AccountInv, AccountTypeOK, BearerOfItsOwner, Unequipped, KnownBearers, EmptySlot, Maybe
<1> QED BY <1>1, <1>5, <1>6, <1>7 DEF NativeBinds, NativeUnsaved

\* The settings' requests and the jobs (AddToken, Select, Remove, QueueJob, EndJob).
LEMMA Requests == ASSUME AccountInv, UserRequest PROVE AccountInv'
<1> USE DEF AccountInv, AccountTypeOK
<1>1. PICK a \in Accounts : AddToken(a) \/ Select(a) \/ Remove(a) \/ QueueJob(a) \/ EndJob(a)
  BY DEF UserRequest
<1>2. CASE AddToken(a)
  <2> DEFINE s == Keep(store, a, "token")
  <2>1. s \in Stores /\ s.held = [store.held EXCEPT ![a] = "token"]
    BY KeepOK
  <2>2. UNCHANGED <<relayed, up, checked, slot, binding, live>> /\ up
    BY <1>2 DEF AddToken, Idle
  <2>3. \A b \in Accounts : store.held[b] # "none" => s.held[b] # "none"
    BY <2>1 DEF Stores
  <2>4. CASE Saved(s)
    <3>1. /\ store' = s /\ file' = s /\ unsure' \subseteq Accounts
          /\ MemoryOnFile' /\ JobsOnFile'
      BY <2>1, <2>2, <2>3, <2>4, SavedKeeps
    <3>2. KnownBearers'
      BY <2>2, <2>3, <3>1 DEF KnownBearers, Maybe
    <3>3. AllChecked'
      BY <2>1, <2>2, <3>1 DEF AllChecked, Stores
    <3> QED BY <2>1, <2>2, <3>1, <3>2, <3>3 DEF BearerOfItsOwner, Unequipped
  <2>5. CASE UpsertFails(s, a)
    <3>1. store' \in {store, s} /\ file' \in {file, s} /\ unsure' = unsure \cup {a}
      BY <2>5 DEF UpsertFails
    <3>2. \A b \in Accounts \ {a} : s.held[b] = store.held[b]
      BY <2>1 DEF Stores
    <3>3. MemoryOnFile' /\ JobsOnFile'
      BY <2>2, <3>1, <3>2 DEF MemoryOnFile, JobsOnFile
    <3>4. AllChecked'
      BY <2>1, <2>2, <3>1, <3>2 DEF AllChecked, Stores
    <3>5. KnownBearers'
      BY <2>2, <2>3, <3>1 DEF KnownBearers, Maybe
    <3> QED BY <2>1, <2>2, <3>1, <3>3, <3>4, <3>5 DEF BearerOfItsOwner, Unequipped
  <2> QED BY <1>2, <2>4, <2>5 DEF AddToken
<1>3. CASE Select(a)
  <2> DEFINE s == Choose(store, a)
  <2>1. s \in Stores /\ s.held = store.held
    BY <1>3, ChooseOK DEF Select
  <2>2. UNCHANGED <<relayed, up, checked, slot, binding, live>> /\ up
    BY <1>3 DEF Select, Idle
  <2>3. CASE Saved(s)
    <3>1. /\ store' = s /\ file' = s /\ unsure' \subseteq Accounts
          /\ MemoryOnFile' /\ JobsOnFile'
      BY <2>1, <2>2, <2>3, SavedKeeps
    <3> QED BY <2>1, <2>2, <3>1
            DEF BearerOfItsOwner, Unequipped, KnownBearers, AllChecked
  <2>4. CASE RolledBack(s) /\ UNCHANGED unsure
    <3>1. store' = store /\ file' \in {file, s} /\ unsure' = unsure
      BY <2>4 DEF RolledBack
    <3>2. MemoryOnFile' /\ JobsOnFile'
      BY <2>1, <2>2, <3>1 DEF MemoryOnFile, JobsOnFile
    <3> QED BY <2>1, <2>2, <3>1, <3>2
            DEF BearerOfItsOwner, Unequipped, KnownBearers, AllChecked
  <2> QED BY <1>3, <2>3, <2>4 DEF Select
<1>4. CASE Remove(a)
  <2> DEFINE s == Drop(store, a)
  <2>1. s \in Stores /\ s.held = [store.held EXCEPT ![a] = "none"]
    BY DropOK
  <2>2. /\ UNCHANGED <<relayed, up, binding, live>> /\ up /\ a \notin live
        /\ binding = NoAccount
    BY <1>4 DEF Remove, Idle
  <2>3. \A b \in Accounts \ {a} : s.held[b] = store.held[b]
    BY <2>1 DEF Stores
  <2>4. CASE /\ Saved(s) /\ checked' = checked \ {a}
             /\ slot' = IF relayed THEN EmptySlot ELSE slot
    <3>1. /\ store' = s /\ file' = s /\ unsure' \subseteq Accounts
          /\ MemoryOnFile' /\ JobsOnFile'
      BY <2>1, <2>2, <2>3, <2>4, SavedKeeps
    <3>2. slot' = EmptySlot
      BY <2>4 DEF Unequipped
    <3>3. AllChecked'
      BY <2>1, <2>3, <2>4, <3>1 DEF AllChecked, Stores
    <3> QED BY AccountsAssumption, <2>1, <2>2, <2>4, <3>1, <3>2, <3>3
            DEF BearerOfItsOwner, Unequipped, KnownBearers, EmptySlot, Maybe
  <2>5. CASE RolledBack(s) /\ unsure' = unsure \cup {a} /\ UNCHANGED <<slot, checked>>
    <3>1. store' = store /\ file' \in {file, s}
      BY <2>5 DEF RolledBack
    <3>2. MemoryOnFile' /\ JobsOnFile'
      BY <2>2, <2>3, <2>5, <3>1 DEF MemoryOnFile, JobsOnFile
    <3>3. AllChecked'
      BY <2>1, <2>3, <2>5, <3>1 DEF AllChecked, Stores
    <3> QED BY <2>1, <2>2, <2>5, <3>1, <3>2, <3>3
            DEF BearerOfItsOwner, Unequipped, KnownBearers
  <2> QED BY <1>4, <2>4, <2>5 DEF Remove
<1>5. CASE QueueJob(a) \/ EndJob(a)
  <2>1. /\ up /\ live' \subseteq Accounts
        /\ \A b \in live' : b \in live \/ store.held[b] # "none"
        /\ UNCHANGED <<relayed, up, store, file, unsure, checked, slot, binding>>
    BY <1>5 DEF QueueJob, EndJob, Idle, credentials
  <2>2. JobsOnFile'
    BY <2>1 DEF JobsOnFile, MemoryOnFile
  <2> QED BY <2>1, <2>2
          DEF BearerOfItsOwner, Unequipped, KnownBearers, AllChecked, MemoryOnFile
<1> QED BY <1>1, <1>2, <1>3, <1>4, <1>5

\* The start of the engine (Initialize).
LEMMA Starts == ASSUME AccountInv, Initialize PROVE AccountInv'
BY AccountsAssumption
DEF Initialize, AccountInv, AccountTypeOK, BearerOfItsOwner, Unequipped, KnownBearers,
    AllChecked, MemoryOnFile, JobsOnFile, EmptySlot

LEMMA AccountInvInductive ==
    /\ AccountInit => AccountInv
    /\ AccountInv /\ [AccountNext]_accountVars => AccountInv'
<1>1. ASSUME AccountInit PROVE AccountInv
  <2>1. file \in Stores /\ file.held = [a \in Accounts |-> "none"]
    BY <1>1 DEF AccountInit, Stores, Maybe
  <2> QED BY <1>1, <2>1
          DEF AccountInit, AccountInv, AccountTypeOK, BearerOfItsOwner, Unequipped,
              KnownBearers, AllChecked, MemoryOnFile, JobsOnFile, EmptySlot, Maybe
<1>2. AccountInv /\ UNCHANGED accountVars => AccountInv'
  BY DEF accountVars, credentials, AccountInv, AccountTypeOK, BearerOfItsOwner, Unequipped,
         KnownBearers, AllChecked, MemoryOnFile, JobsOnFile
<1>3. AccountInv /\ AccountNext => AccountInv'
  <2> SUFFICES ASSUME AccountInv, AccountNext PROVE AccountInv'
    OBVIOUS
  <2>1. CASE Initialize
    BY <2>1, Starts
  <2>2. CASE HostRequest \/ NativeRefused \/ Expire \/ Crash
    BY <2>2, SlotRequests
  <2>3. CASE NativeBinds \/ NativeUnsaved
    BY <2>3, Bindings
  <2>4. CASE UserRequest
    BY <2>4, Requests
  <2> QED BY <2>1, <2>2, <2>3, <2>4 DEF AccountNext
<1> QED BY <1>1, <1>2, <1>3

\* Types of the account state (AccountTypeOK).
THEOREM AccountsTyped == AccountSpec => []AccountTypeOK
<1>1. AccountInv => AccountTypeOK
  BY DEF AccountInv
<1> QED BY <1>1, AccountInvInductive, PTL DEF AccountSpec

\* nativeRelay: whatever is renewed, cleared or removed, the one bearer is of the
\* identity it is filed under.
THEOREM OneOwner == AccountSpec => []BearerOfItsOwner
<1>1. AccountInv => BearerOfItsOwner
  BY DEF AccountInv
<1> QED BY <1>1, AccountInvInductive, PTL DEF AccountSpec

\* account_native and account_remove leave no bearer of an account the store does
\* not hold, whichever save fails.
THEOREM NoStrayBearer == AccountSpec => []KnownBearers
<1>1. AccountInv => KnownBearers
  BY DEF AccountInv
<1> QED BY <1>1, AccountInvInductive, PTL DEF AccountSpec

\* AddNativeAccount: no binding reaches the file before the endpoint has accepted it.
THEOREM OnlyChecked == AccountSpec => []BindingsChecked
<1>1. AccountInv => BindingsChecked
  BY DEF AccountInv, AllChecked, BindingsChecked
<1> QED BY <1>1, AccountInvInductive, PTL DEF AccountSpec

\* account_remove, begin and LoadConfig: an upload keeps its account.
THEOREM AccountsOfJobs == AccountSpec => []JobsKeepAccount
<1>1. AccountInv => JobsKeepAccount
  BY DEF AccountInv, AccountTypeOK, MemoryOnFile, JobsOnFile, JobsKeepAccount
<1> QED BY <1>1, AccountInvInductive, PTL DEF AccountSpec

=============================================================================
