---------------------------- MODULE MCUploadQueue ----------------------------
(* Values of the constants of UploadQueue for the model checker. *)
EXTENDS UploadQueue

Photo(account, quality, content) == [account |-> account, quality |-> quality, content |-> content]

Opts(concurrent, retries) ==
    [concurrent |-> concurrent, retries |-> retries,
     wifiOnly |-> FALSE, chargingOnly |-> FALSE, paused |-> FALSE]

MCOneItem     == {Photo("a", "original", 1)}
MCTwoItems    == {Photo("a", "original", 1), Photo("a", "saver", 1)}
MCTwoAccounts == {Photo("a", "original", 1), Photo("b", "original", 1)}

MCDefaults == Opts(1, 1)
MCPair     == Opts(2, 0)

MCPairOptions   == {MCPair}
MCSlotOptions   == {MCDefaults, [MCDefaults EXCEPT !.concurrent = 2]}
MCAllOptions    == {MCDefaults, [MCDefaults EXCEPT !.paused = TRUE],
                    [MCDefaults EXCEPT !.wifiOnly = TRUE, !.chargingOnly = TRUE]}

MCOnline        == [online |-> TRUE, wifi |-> TRUE, charging |-> TRUE]
MCOneCondition  == {MCOnline}
MCAllConditions == {MCOnline, [MCOnline EXCEPT !.wifi = FALSE], [MCOnline EXCEPT !.charging = FALSE],
                    [MCOnline EXCEPT !.online = FALSE]}

\* A failed save and Close are final when MaxCrashes = 0, and QueueDrains assumes
\* neither happens: the liveness run leaves those behaviours out.
StillScheduling == ~fault /\ ~stopped
=============================================================================
