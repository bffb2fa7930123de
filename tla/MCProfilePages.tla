---------------------------- MODULE MCProfilePages ----------------------------
(***************************************************************************)
(* For TLC: no profile is told from another by its name.                   *)
(***************************************************************************)
EXTENDS ProfilePages, TLC

ProfileSymmetry == Permutations(Profiles)

=============================================================================
