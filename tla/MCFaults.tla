------------------------------- MODULE MCFaults -------------------------------
(* An instance of Faults for TLC.                                            *)
EXTENDS Faults

CONSTANT c1

TransactionKinds == {"start", "stop"}

\* Bound: a connection ends while nothing is under way, or with the process;
\* MCTransactions and MCRaces have the connections that end under handlers.
QuietClose == leaving # {} => pump = {} /\ \A r \in Requests : ~Live(r)

=============================================================================
