----------------------------- MODULE TimeTravel -----------------------------
(***************************************************************************)
(* What the history of a Store promises a reader of the past, with no      *)
(* branches, no trees and no files: versions are published one after the   *)
(* other, what a version reads never changes, and compaction takes the     *)
(* oldest versions away for good, never the present one.                   *)
(***************************************************************************)
EXTENDS Integers

CONSTANTS
    Contents,       \* what a version may hold
    Nothing,        \* stands where there is nothing to read
    Horizon         \* the versions considered are 1 .. Horizon

VARIABLES
    now,            \* the present version
    past            \* version -> [status, content]

Unborn == [status |-> "unborn", content |-> Nothing]
Gone == [status |-> "gone", content |-> Nothing]
Reads(c) == [status |-> "reads", content |-> c]

TTInit ==
    /\ now = 0
    /\ past = [v \in 1 .. Horizon |-> Unborn]

Publish ==
    /\ now < Horizon
    /\ now' = now + 1
    /\ \E c \in Contents : past' = [past EXCEPT ![now + 1] = Reads(c)]

Compact ==
    /\ \E k \in 1 .. now :
          past' = [v \in 1 .. Horizon |-> IF v < k THEN Gone ELSE past[v]]
    /\ UNCHANGED now

TTNext == Publish \/ Compact

TTSpec == TTInit /\ [][TTNext]_<<now, past>>
============================================================================
