------------------------ MODULE MCFederatedLearning ------------------------
(* Instances of FederatedLearning for TLC. *)
EXTENDS FederatedLearning, TLC

CONSTANTS c1, c2, c3

(* Devices differ only in their address. *)
Symmetry == Permutations(Clients)

(* Bound of the run anytime: four updates, or three and a failure.         *)
FourEvents == sends[c1] + sends[c2] + sends[c3] + failures <= 4
=============================================================================
