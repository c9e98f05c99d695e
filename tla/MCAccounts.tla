----------------------------- MODULE MCAccounts -----------------------------
(***************************************************************************)
(* Three environments: the second makes another account the seed admin and *)
(* changes its password, the third only signs with another secret.         *)
(***************************************************************************)
EXTENDS Accounts

CONSTANTS p1, p2, k1, k2

MCEnvironments == { [user |-> "root", pass |-> p1, secret |-> k1],
                    [user |-> "ann", pass |-> p2, secret |-> k1],
                    [user |-> "root", pass |-> p1, secret |-> k2] }
=============================================================================
