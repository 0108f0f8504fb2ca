--------------------------- MODULE MCBackupTransfer ---------------------------
(* Requests of Google Photos for one asset. *)
EXTENDS BackupTransfer

CONSTANTS r1, r2, a1

MCOne == [r \in {r1} |-> a1]

MCBoth == [r \in {r1, r2} |-> a1]

\* r1 is cancelled again after its first cancel, also from the other side.
MCCancels == [r \in {r1, r2} |-> IF r = r1 THEN 2 ELSE 0]

MCOneCancel == [r \in {r1} |-> 1]
=============================================================================
