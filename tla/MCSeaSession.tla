---------------------------- MODULE MCSeaSession ----------------------------
(* The instance of SeaSession that TLC checks. *)
EXTENDS SeaSession, TLC

(* Keys are compared for equality only. *)
KeySymmetry == Permutations(Keys)
=============================================================================
