---------------------------- MODULE MCLifecycle ----------------------------
(* Small instances of Lifecycle.                                            *)
EXTENDS Lifecycle

\* One CIDR with the addresses 1 and 2 to hand out.
MCPool == <<[network |-> 0, host |-> 0, size |-> 4]>>

MCInUse == <<{}>>

MCNoInputs == {}
=============================================================================
