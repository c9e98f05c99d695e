------------------------------ MODULE MCFleet ------------------------------
(***************************************************************************)
(* Fleet for TLC: who may live where, and the symmetry of the servers (no  *)
(* run with liveness uses it).                                             *)
(***************************************************************************)
EXTENDS Fleet, TLC

Symmetry == Permutations(Names)

\* Every server is a member of the cluster.
MemberHomes == [n \in Names |-> {Clustered}]
\* Every server may live anywhere.
AnyHomes == [n \in Names |-> Ports \cup {Clustered}]
=============================================================================
