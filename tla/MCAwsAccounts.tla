---------------------------- MODULE MCAwsAccounts ---------------------------
(* The instance of AwsAccounts that TLC checks.                            *)
EXTENDS AwsAccounts, TLC

\* Whatever is under way is alike until it begins, and so are the rows.
MCSymmetry == Permutations(Works) \cup Permutations(Accounts)
=============================================================================
