--------------------------- MODULE MC_GroupCommit ---------------------------
(***************************************************************************)
(* Instances of GroupCommit for TLC.                                       *)
(***************************************************************************)
EXTENDS GroupCommit, TLC

CONSTANTS t1, t2, t3

ThreeThreads == {t1, t2, t3}
ThreadSymmetry == Permutations(ThreeThreads)

NoDirSyncFault == {"fsync", "meta", "rename"}
AllFaults      == FaultKinds
============================================================================
