----------------------------- MODULE DurableLog -----------------------------
(***************************************************************************)
(* What a Store promises the callers of commit, with no threads, no group  *)
(* commit and no files: a log of versions grows at its end, its hardened   *)
(* versions are a prefix of it that survives a power cut and never shrinks, *)
(* and a caller is told "committed" only for a hardened version.           *)
(***************************************************************************)
EXTENDS Integers

VARIABLES
    log,        \* versions published so far
    hard,       \* those on stable storage
    told        \* versions acknowledged to a caller

dvars == <<log, hard, told>>

IsPrefix(S) == \A v \in S : 1 .. v \subseteq S

DInit == log = 0 /\ hard = {} /\ told = {}

\* More of the log, as far as it goes now, may have reached stable storage.
Hardens == hard \subseteq hard' /\ hard' \subseteq 1 .. log' /\ IsPrefix(hard')

\* The records of a version are written, and may be hardened, before it is
\* published.
Append == log' = log + 1 /\ Hardens /\ UNCHANGED told

Harden == Hardens /\ UNCHANGED <<log, told>>

Acknowledge ==
    /\ \E v \in hard : told' = told \cup {v}
    /\ UNCHANGED <<log, hard>>

DNext == Append \/ Harden \/ Acknowledge

DSpec == DInit /\ [][DNext]_dvars
============================================================================
