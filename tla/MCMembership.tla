---------------------------- MODULE MCMembership ----------------------------
(* The instance of Membership that TLC checks.                             *)
EXTENDS Membership, TLC

\* Requests are alike, and so are the founders: either may be the first owner.
MCSymmetry == Permutations(Requests) \cup Permutations(Founders)
=============================================================================
