------------------------ MODULE MCHostAuthorization ------------------------
(* Values of the constants of HostAuthorization for the model checker. *)
EXTENDS HostAuthorization

CONSTANTS a1, a2

MCBoth == {a1, a2}
MCOne == {a1}
=============================================================================
