---------------------------- MODULE ReconcileGuard ----------------------------
(***************************************************************************)
(* What GSBackupRequests.m promises of the native payloads, seen from      *)
(* outside: requests wait for the server's copy of their asset, and no     *)
(* payload is let through meanwhile.  It does not know of counters,        *)
(* threads, flags, cancels, the routing switch or the upload queue.        *)
(***************************************************************************)
EXTENDS Naturals

CONSTANT Requests

VARIABLES
    waiting,  \* requests that wait to find their item on the server
    over,     \* requests that have ended, one way or another
    through,  \* requests whose payload has passed the guard
    sent      \* requests whose payload has been sent

vars == <<waiting, over, through, sent>>

Init == waiting = {} /\ over = {} /\ through = {} /\ sent = {}

\* A request that has not ended starts to wait, and never has its own payload sent.
Wait(r) ==
    /\ r \notin waiting \cup over \cup through \cup sent
    /\ waiting' = waiting \cup {r}
    /\ UNCHANGED <<over, through, sent>>

\* It ends once: found, failed or cancelled, whether or not it has waited.
End(r) ==
    /\ r \notin over \cup through \cup sent
    /\ over' = over \cup {r}
    /\ waiting' = waiting \ {r}
    /\ UNCHANGED <<through, sent>>

\* A payload passes only while nobody waits.
Pass(r) ==
    /\ waiting = {}
    /\ r \notin over \cup through \cup sent
    /\ through' = through \cup {r}
    /\ UNCHANGED <<waiting, over, sent>>

\* What has passed is sent, or held back after all; nothing else is sent.
Leave(r) ==
    /\ r \in through
    /\ through' = through \ {r}
    /\ sent' \in {sent, sent \cup {r}}
    /\ UNCHANGED <<waiting, over>>

Next == \E r \in Requests : Wait(r) \/ End(r) \/ Pass(r) \/ Leave(r)

Spec == Init /\ [][Next]_vars

===============================================================================
