------------------------- MODULE MCStatefulService --------------------------
(* Instances of StatefulService for TLC.                                   *)
EXTENDS StatefulService, TLC

(* The requests differ only in the action drawn for them in Init.          *)
OpsSymmetry == Permutations(Ops)

(* A LIFO operationQueue of two requests.                                  *)
LifoOfTwo == -2
=============================================================================
