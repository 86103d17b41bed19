---------------------------- MODULE MCCaseAnalysis ----------------------------
(* CaseAnalysis for TLC: four calls at most, so that every limit is met.   *)
EXTENDS CaseAnalysis, TLC

CONSTANTS page, view, contract, video

KindOf == (page :> "listing") @@ (view :> "viewing") @@ (video :> "viewing")
          @@ (contract :> "contract")

(* Four small calls leave room in the tokens for a fifth.                  *)
SmallLimits ==
  [attempts |-> 4, input |-> 216, output |-> 40, cost |-> 10000]

(* Little, all that most calls may use, and more than any.                 *)
SomeUsages ==
  {[attempts |-> 1, input |-> 4, cached |-> 2, output |-> 2],
   [attempts |-> 1, input |-> 200, cached |-> 0, output |-> 12],
   [attempts |-> 1, input |-> 300, cached |-> 100, output |-> 160]}

Symmetry == Permutations(Readers)
=============================================================================
