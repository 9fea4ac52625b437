------------------------------ MODULE MCLease ------------------------------
(* Lease for TLC: numbered sessions, each of a principal of its own. *)
EXTENDS Lease

OwnPrincipals == [s \in Sessions |-> s]
=============================================================================
