-------------------------- MODULE MCCaseRetention --------------------------
(***************************************************************************)
(* Instances of CaseRetention for TLC.                                     *)
(***************************************************************************)
EXTENDS CaseRetention, TLC

CONSTANTS g1, u1, c1, c2, a1, w1, w2

\* A guest's case, which the account u1 may take over, and one of u1's own.
GuestAndAccount == c1 :> g1 @@ c2 :> u1

GuestOnly == c1 :> g1

Symmetry == Permutations({w1, w2})

=============================================================================
