--------------------------- MODULE MCCentralSystem ---------------------------
(* Instances of CentralSystem for TLC; each cfg picks the kinds of request   *)
(* and the bounds that its question needs.                                   *)
EXTENDS CentralSystemInvariants, TLC

CONSTANTS c1, c2

Symmetry == Permutations(ChargePoints)

TransactionKinds == {"start", "stop"}
ReportingKinds   == TransactionKinds \cup {"status"}
OtherKinds       == {"authorize", "event", "firmware"}

=============================================================================
