--------------------------- MODULE MCServiceViews ---------------------------
(* Instances of ServiceViews: one factory has a list of several pages, the  *)
(* other a single one.                                                      *)
EXTENDS ServiceViews, TLC

CONSTANTS many, one

ChildrenSymmetry == Permutations(Children)

ThreePagesAndOne == many :> 3 @@ one :> 1
=============================================================================
