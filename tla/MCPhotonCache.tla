--------------------------- MODULE MCPhotonCache ---------------------------
(* PhotonCache on a small instance. Workers are interchangeable, and so    *)
(* are track numbers: nothing in the module tells two of them apart.       *)
EXTENDS PhotonCache, TLC

Symmetry == Permutations(Workers) \cup Permutations(Tracks)
=============================================================================
