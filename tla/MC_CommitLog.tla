---------------------------- MODULE MC_CommitLog ----------------------------
(***************************************************************************)
(* Instances of CommitLog for TLC.                                         *)
(***************************************************************************)
EXTENDS CommitLog

SyncFaults    == {<<"commit", "write">>, <<"seal", "sync">>, <<"publish", "sync">>}
SealFaults    == {<<"seal", "sync">>, <<"seal", "meta">>}
BothOrigins   == OriginKinds
PublishFaults == {<<"publish", "sync">>, <<"publish", "meta">>}
Plain         == {FALSE}
Sealed        == {TRUE}
BothModes     == BOOLEAN
============================================================================
