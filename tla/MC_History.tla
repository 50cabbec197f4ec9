----------------------------- MODULE MC_History -----------------------------
(***************************************************************************)
(* Instances of History for TLC.                                           *)
(***************************************************************************)
EXTENDS History, TLC

CONSTANTS main, dev, fix

TwoBranches   == {main, dev}
ThreeBranches == {main, dev, fix}
BranchSymmetry == Permutations({dev, fix})
============================================================================
