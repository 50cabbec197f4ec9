---------------------------- MODULE GroupCommit ----------------------------
(***************************************************************************)
(* The concurrency of a Store (src/src/tx.rs): the single-writer gate      *)
(* (WriterGate), the leader/follower group commit (SyncGroup), the write   *)
(* and durability phases of WriteTx::commit, the synchronous commits of    *)
(* the maintenance operations (create_branch, drop_branch, merge) and the  *)
(* vacuum, which replaces the file and the SyncGroup under the committers  *)
(* that are still sealing.                                                 *)
(*                                                                         *)
(* One action per critical section (one mutex hold) or system call.        *)
(* Every pager generation g (the file opened at start-up is 0, each vacuum *)
(* makes a new one) has its own file and its own SyncGroup.  A file is a   *)
(* number of commit records, pages[g], of which completed fdatasyncs cover *)
(* the first synced[g].  A version number does not name a record: a        *)
(* publish_commit that fails after its write leaves a record that no head  *)
(* names, and the next commit writes another one for the same version, so  *)
(* place[g][v] says where the record of v is.  What a power cut leaves of  *)
(* the records that are not covered, and which of two records of a version *)
(* recovery adopts, is the subject of CommitLog.                           *)
(***************************************************************************)
EXTENDS Integers, FiniteSets

CONSTANTS
    Threads,        \* the threads that use clones of one Store
    MaxVersion,     \* bound: versions written
    MaxRecords,     \* bound: commit records of a file
    MaxGen,         \* bound: vacuums that build a file
    Faults          \* which system calls may fail: subset of FaultKinds

FaultKinds == {"fsync", "meta", "rename", "dirsync"}

ASSUME MaxVersionAssumption == MaxVersion \in Nat
ASSUME MaxRecordsAssumption == MaxRecords \in Nat /\ MaxVersion <= MaxRecords
ASSUME MaxGenAssumption == MaxGen \in Nat
ASSUME FaultsAssumption == Faults \subseteq FaultKinds

VARIABLES
    held,        \* WriterGate.held
    gen,         \* DbState: the current pager and sync_group
    head,        \* DbState.head.version
    inProgress,  \* SyncGroup, per generation: in_progress
    durable,     \*   durable_version
    written,     \*   written_version (and written_head)
    pages,       \* per file: commit records written to it
    synced,      \* per file: how many of them an fdatasync covers
    place,       \* per file and version: its record (commit_page of its Head)
    named,       \* the generation whose file the database path names
    ngen,        \* generations built so far
    pc,          \* per thread: the next critical section or call
    tgen,        \*   WriteTx.pager / sync_group: generation captured at begin
    base,        \*   WriteTx.base.version
    ver,         \*   version of the commit in flight
    target,      \*   target_version of a leader
    cover,       \*   records that the fdatasync in flight covers
    released,    \*   WriteTx.writer_released
    acked        \* versions some caller was told are committed

gate  == <<held>>
state == <<gen, head>>
group == <<inProgress, durable, written>>
file  == <<pages, synced, place, named, ngen>>
local == <<tgen, base, ver, target, cover, released>>
vars  == <<held, gen, head, inProgress, durable, written, pages, synced,
           place, named, ngen, pc, tgen, base, ver, target, cover, released, acked>>

Gens     == 0 .. MaxGen
Versions == 0 .. MaxVersion
Records  == 0 .. MaxRecords

\* The place of a version that a file does not have: after all its records.
Nowhere == MaxRecords + 1
Places  == [Gens -> [Versions -> Records \cup {Nowhere}]]

\* The places of versions 0 to v in a new file, its records numbered as the
\* versions they stand for (the checkpoint stands for the ones it drops).
InSequence(v) == [u \in Versions |-> IF u <= v THEN u ELSE Nowhere]

TxPCs    == {"build", "tx", "wrote", "published", "marked"}
MaintPCs == {"m_build", "m_tx", "m_wrote", "m_synced", "m_publ"}
VacPCs   == {"v_copy", "v_built", "v_renamed", "v_swapped"}
SealPCs  == {"seal", "follow", "sync", "syncing", "meta", "sealed", "failed"}
PCs      == {"idle", "parked", "woken", "drop"}
                \cup TxPCs \cup MaintPCs \cup VacPCs \cup SealPCs

Max2(a, b) == IF a >= b THEN a ELSE b

\* The operation of t returns: its local variables cease to exist.
Forget(t) ==
    /\ tgen' = [tgen EXCEPT ![t] = 0]
    /\ base' = [base EXCEPT ![t] = 0]
    /\ ver' = [ver EXCEPT ![t] = 0]
    /\ target' = [target EXCEPT ![t] = 0]
    /\ cover' = [cover EXCEPT ![t] = 0]
    /\ released' = [released EXCEPT ![t] = FALSE]

Init ==
    /\ held = FALSE
    /\ gen = 0
    /\ head = 0
    /\ inProgress = [g \in Gens |-> FALSE]
    /\ durable = [g \in Gens |-> 0]
    /\ written = [g \in Gens |-> 0]
    /\ pages = [g \in Gens |-> 0]
    /\ synced = [g \in Gens |-> 0]
    /\ place = [g \in Gens |-> InSequence(0)]
    /\ named = 0
    /\ ngen = 0
    /\ pc = [t \in Threads |-> "idle"]
    /\ tgen = [t \in Threads |-> 0]
    /\ base = [t \in Threads |-> 0]
    /\ ver = [t \in Threads |-> 0]
    /\ target = [t \in Threads |-> 0]
    /\ cover = [t \in Threads |-> 0]
    /\ released = [t \in Threads |-> FALSE]
    /\ acked = {}

----------------------------------------------------------------------------
(***************************************************************************)
(* WriterGate.                                                             *)
(***************************************************************************)
Parked == {t \in Threads : pc[t] = "parked"}

\* WriterGate::release by t, which goes on at `next`: clears the flag and
\* notify_one moves one waiter, if there is one, out of the condvar.
GateRelease(t, next) ==
    /\ held' = FALSE
    /\ \/ /\ Parked \ {t} = {}
          /\ pc' = [pc EXCEPT ![t] = next]
       \/ \E w \in Parked \ {t} :
              pc' = [pc EXCEPT ![t] = next, ![w] = "woken"]

\* Store::begin_on (explicit transaction): try_acquire, Busy when held.
BeginOn(t) ==
    /\ pc[t] = "idle"
    /\ ~held
    /\ held' = TRUE
    /\ pc' = [pc EXCEPT ![t] = "build"]
    /\ UNCHANGED <<state, group, file, local, acked>>

\* Store::begin_on_blocking (autocommit): acquire_timeout queues when held.
BeginOnBlocking(t) ==
    /\ pc[t] = "idle"
    /\ held' = TRUE
    /\ pc' = [pc EXCEPT ![t] = IF held THEN "parked" ELSE "build"]
    /\ UNCHANGED <<state, group, file, local, acked>>

\* A notified waiter re-checks the flag under the mutex.
WakeUp(t) ==
    /\ pc[t] = "woken"
    /\ held' = TRUE
    /\ pc' = [pc EXCEPT ![t] = IF held THEN "parked" ELSE "build"]
    /\ UNCHANGED <<state, group, file, local, acked>>

\* The wait times out: Busy if the gate is still held, otherwise acquired.
AcquireTimeout(t) ==
    /\ pc[t] \in {"parked", "woken"}
    /\ held' = TRUE
    /\ pc' = [pc EXCEPT ![t] = IF held THEN "idle" ELSE "build"]
    /\ UNCHANGED <<state, group, file, local, acked>>

----------------------------------------------------------------------------
(***************************************************************************)
(* WriteTx.                                                                *)
(***************************************************************************)
\* Variant of BuildWriteTx: the base is the watermark of the SyncGroup, which
\* the maintenance operations do not raise.
BuildOnWatermark(t) ==
    /\ pc[t] = "build"
    /\ tgen' = [tgen EXCEPT ![t] = gen]
    /\ base' = [base EXCEPT ![t] = written[gen]]
    /\ pc' = [pc EXCEPT ![t] = "tx"]
    /\ UNCHANGED <<gate, state, group, file, ver, target, cover, released,
                   acked>>

\* build_writetx: reads (pager, sync_group, head) under one lock of DbState.
BuildWriteTx(t) ==
    /\ pc[t] = "build"
    /\ tgen' = [tgen EXCEPT ![t] = gen]
    /\ base' = [base EXCEPT ![t] = head]
    /\ pc' = [pc EXCEPT ![t] = "tx"]
    /\ UNCHANGED <<gate, state, group, file, ver, target, cover, released,
                   acked>>

\* resolve_branch_head fails (BranchNotFound): build_writetx releases the gate.
BuildWriteTxFails(t) ==
    /\ pc[t] = "build"
    /\ GateRelease(t, "idle")
    /\ UNCHANGED <<state, group, file, local, acked>>

\* The transaction is dropped without publishing: rollback, a commit that
\* touched nothing, or an error before the pages are installed.
Rollback(t) ==
    /\ pc[t] = "tx"
    /\ pc' = [pc EXCEPT ![t] = "drop"]
    /\ UNCHANGED <<gate, state, group, file, local, acked>>

\* write_commit_pages: appends the dirty pages and the commit page of the
\* version after the base, behind whatever the file has.
WriteRecord(t, next) ==
    /\ base[t] < MaxVersion /\ pages[tgen[t]] < MaxRecords
    /\ ver' = [ver EXCEPT ![t] = base[t] + 1]
    /\ pages' = [pages EXCEPT ![tgen[t]] = @ + 1]
    /\ place' = [place EXCEPT ![tgen[t]][base[t] + 1] = pages[tgen[t]] + 1]
    /\ pc' = [pc EXCEPT ![t] = next]
    /\ UNCHANGED <<gate, state, group, synced, named, ngen, tgen, base,
                   target, cover, released, acked>>

WriteCommitPages(t) == pc[t] = "tx" /\ WriteRecord(t, "wrote")

\* Variants of PublishHead: the head is not published, and it names the
\* version to write next.
PublishNothing(t) ==
    /\ pc[t] = "wrote"
    /\ pc' = [pc EXCEPT ![t] = "published"]
    /\ UNCHANGED <<gate, state, group, file, local, acked>>

PublishNextVersion(t) ==
    /\ pc[t] = "wrote"
    /\ head' = ver[t] + 1
    /\ pc' = [pc EXCEPT ![t] = "published"]
    /\ UNCHANGED <<gate, gen, group, file, local, acked>>

\* state.head = head: the base of the next committer.
PublishHead(t) ==
    /\ pc[t] = "wrote"
    /\ head' = ver[t]
    /\ pc' = [pc EXCEPT ![t] = "published"]
    /\ UNCHANGED <<gate, gen, group, file, local, acked>>

\* SyncGroup::mark_written.
MarkWritten(t) ==
    /\ pc[t] = "published"
    /\ written' = IF ver[t] >= written[tgen[t]]
                  THEN [written EXCEPT ![tgen[t]] = ver[t]]
                  ELSE written
    /\ pc' = [pc EXCEPT ![t] = "marked"]
    /\ UNCHANGED <<gate, state, inProgress, durable, file, local, acked>>

\* The writer is released before sealing; Drop must not release it again.
ReleaseWriter(t) ==
    /\ pc[t] = "marked"
    /\ GateRelease(t, "seal")
    /\ released' = [released EXCEPT ![t] = TRUE]
    /\ UNCHANGED <<state, group, file, tgen, base, ver, target, cover, acked>>

\* Variant of DropTx: writer_released is ignored.
DropTxReleases(t) ==
    /\ pc[t] = "drop"
    /\ GateRelease(t, "idle")
    /\ Forget(t)
    /\ UNCHANGED <<state, group, file, acked>>

\* WriteTx::drop: releases the writer only if commit has not.
DropTx(t) ==
    /\ pc[t] = "drop"
    /\ IF released[t]
       THEN /\ pc' = [pc EXCEPT ![t] = "idle"]
            /\ UNCHANGED held
       ELSE GateRelease(t, "idle")
    /\ Forget(t)
    /\ UNCHANGED <<state, group, file, acked>>

----------------------------------------------------------------------------
(***************************************************************************)
(* SyncGroup::make_durable.                                                *)
(***************************************************************************)
\* One pass of the loop under the mutex: already durable, follower or leader.
AlreadyDurable(t) ==
    /\ pc[t] = "seal"
    /\ durable[tgen[t]] >= ver[t]
    /\ acked' = acked \cup {ver[t]}
    /\ pc' = [pc EXCEPT ![t] = "drop"]
    /\ UNCHANGED <<gate, state, group, file, local>>

Follow(t) ==
    /\ pc[t] = "seal"
    /\ durable[tgen[t]] < ver[t]
    /\ inProgress[tgen[t]]
    /\ pc' = [pc EXCEPT ![t] = "follow"]
    /\ UNCHANGED <<gate, state, group, file, local, acked>>

Lead(t) ==
    /\ pc[t] = "seal"
    /\ durable[tgen[t]] < ver[t]
    /\ ~inProgress[tgen[t]]
    /\ inProgress' = [inProgress EXCEPT ![tgen[t]] = TRUE]
    /\ target' = [target EXCEPT ![t] = written[tgen[t]]]
    /\ pc' = [pc EXCEPT ![t] = "sync"]
    /\ UNCHANGED <<gate, state, durable, written, file, tgen, base, ver,
                   cover, released, acked>>

\* pager.sync(): an fdatasync covers what was written before the call.
SyncCall(t) ==
    /\ pc[t] = "sync"
    /\ cover' = [cover EXCEPT ![t] = pages[tgen[t]]]
    /\ pc' = [pc EXCEPT ![t] = "syncing"]
    /\ UNCHANGED <<gate, state, group, file, tgen, base, ver, target,
                   released, acked>>

SyncOk(t) ==
    /\ pc[t] = "syncing"
    /\ synced' = [synced EXCEPT ![tgen[t]] = Max2(synced[tgen[t]], cover[t])]
    /\ pc' = [pc EXCEPT ![t] = "meta"]
    /\ UNCHANGED <<gate, state, group, pages, place, named, ngen, local, acked>>

SyncFails(t) ==
    /\ pc[t] = "syncing"
    /\ "fsync" \in Faults
    /\ pc' = [pc EXCEPT ![t] = "failed"]
    /\ UNCHANGED <<gate, state, group, file, local, acked>>

\* pager.write_meta(meta_for(target_head)).
WriteMeta(t) ==
    /\ pc[t] = "meta"
    /\ \/ pc' = [pc EXCEPT ![t] = "sealed"]
       \/ /\ "meta" \in Faults
          /\ pc' = [pc EXCEPT ![t] = "failed"]
    /\ UNCHANGED <<gate, state, group, file, local, acked>>

\* pc after the leader t of generation g goes on at `next` and calls notify_all.
NotifyAll(t, next) ==
    pc' = [u \in Threads |->
             IF u = t THEN next
             ELSE IF pc[u] = "follow" /\ tgen[u] = tgen[t] THEN "seal"
             ELSE pc[u]]

\* Variant of FinishSeal: what is written at the second lock counts as sealed.
FinishSealAll(t) ==
    /\ pc[t] = "sealed"
    /\ inProgress' = [inProgress EXCEPT ![tgen[t]] = FALSE]
    /\ durable' = [durable EXCEPT ![tgen[t]] = written[tgen[t]]]
    /\ NotifyAll(t, "seal")
    /\ UNCHANGED <<gate, state, written, file, local, acked>>

\* The leader re-locks after a good seal and loops.
FinishSeal(t) ==
    /\ pc[t] = "sealed"
    /\ inProgress' = [inProgress EXCEPT ![tgen[t]] = FALSE]
    /\ durable' = [durable EXCEPT ![tgen[t]] = Max2(durable[tgen[t]], target[t])]
    /\ NotifyAll(t, "seal")
    /\ UNCHANGED <<gate, state, written, file, local, acked>>

\* Variants of FailSeal: the error returns without notify_all, and without
\* clearing in_progress.
FailSealSilent(t) ==
    /\ pc[t] = "failed"
    /\ inProgress' = [inProgress EXCEPT ![tgen[t]] = FALSE]
    /\ pc' = [pc EXCEPT ![t] = "drop"]
    /\ UNCHANGED <<gate, state, durable, written, file, local, acked>>

FailSealInProgress(t) ==
    /\ pc[t] = "failed"
    /\ NotifyAll(t, "drop")
    /\ UNCHANGED <<gate, state, group, file, local, acked>>

\* The leader re-locks after an error and returns it to its own caller.
FailSeal(t) ==
    /\ pc[t] = "failed"
    /\ inProgress' = [inProgress EXCEPT ![tgen[t]] = FALSE]
    /\ NotifyAll(t, "drop")
    /\ UNCHANGED <<gate, state, durable, written, file, local, acked>>

----------------------------------------------------------------------------
(***************************************************************************)
(* create_branch, drop_branch and merge: try_acquire, one synchronous      *)
(* commit (publish_commit), publish the head, release.  They bypass the    *)
(* SyncGroup.                                                              *)
(***************************************************************************)
BeginMaintenance(t) ==
    /\ pc[t] = "idle"
    /\ ~held
    /\ held' = TRUE
    /\ pc' = [pc EXCEPT ![t] = "m_build"]
    /\ UNCHANGED <<state, group, file, local, acked>>

\* The operation, a commit of the meta tree or a vacuum, reads DbState.
CaptureState(t) ==
    /\ pc[t] = "m_build"
    /\ tgen' = [tgen EXCEPT ![t] = gen]
    /\ base' = [base EXCEPT ![t] = head]
    /\ \E next \in {"m_tx", "v_copy"} : pc' = [pc EXCEPT ![t] = next]
    /\ UNCHANGED <<gate, state, group, file, ver, target, cover, released,
                   acked>>

\* BranchExists, BranchNotFound, Conflict, nothing to merge: no commit.  A
\* vacuum with other branches alive, or whose build_compacted fails, removes
\* its temporary and leaves the store as it was.
MaintenanceStops(t) ==
    /\ pc[t] \in {"m_tx", "v_copy"}
    /\ GateRelease(t, "idle")
    /\ Forget(t)
    /\ UNCHANGED <<state, group, file, acked>>

MaintenanceWrites(t) == pc[t] = "m_tx" /\ WriteRecord(t, "m_wrote")

\* pager.sync(): the writer is held, so nothing is written during the call.
MaintenanceSync(t) ==
    /\ pc[t] = "m_wrote"
    /\ synced' = [synced EXCEPT ![tgen[t]] = pages[tgen[t]]]
    /\ pc' = [pc EXCEPT ![t] = "m_synced"]
    /\ UNCHANGED <<gate, state, group, pages, place, named, ngen, local, acked>>

\* sync or write_meta of publish_commit fails: the record stays in the file,
\* covered or not, the head stays below it, and the next commit takes the same
\* version.
MaintenanceFails(t) ==
    /\ \/ pc[t] = "m_wrote" /\ "fsync" \in Faults
       \/ pc[t] = "m_synced" /\ "meta" \in Faults
    /\ GateRelease(t, "idle")
    /\ Forget(t)
    /\ UNCHANGED <<state, group, file, acked>>

\* write_meta, then self.lock().head = head.
MaintenancePublishes(t) ==
    /\ pc[t] = "m_synced"
    /\ head' = ver[t]
    /\ pc' = [pc EXCEPT ![t] = "m_publ"]
    /\ UNCHANGED <<gate, gen, group, file, local, acked>>

MaintenanceReturns(t) ==
    /\ pc[t] = "m_publ"
    /\ GateRelease(t, "idle")
    /\ acked' = acked \cup {ver[t]}
    /\ Forget(t)
    /\ UNCHANGED <<state, group, file>>

----------------------------------------------------------------------------
(***************************************************************************)
(* vacuum.                                                                 *)
(***************************************************************************)
\* Variant of BuildCompacted: the new file is renamed without an fdatasync.
BuildUnsynced(t) ==
    /\ pc[t] = "v_copy"
    /\ ngen < MaxGen
    /\ ngen' = ngen + 1
    /\ pages' = [pages EXCEPT ![ngen + 1] = base[t]]
    /\ place' = [place EXCEPT ![ngen + 1] = InSequence(base[t])]
    /\ pc' = [pc EXCEPT ![t] = "v_built"]
    /\ UNCHANGED <<gate, state, group, synced, named, local, acked>>

\* build_compacted: every version of the new file is a publish_commit of the
\* temporary, which no other thread can reach, so all of it is synced.
BuildCompacted(t) ==
    /\ pc[t] = "v_copy"
    /\ ngen < MaxGen
    /\ ngen' = ngen + 1
    /\ pages' = [pages EXCEPT ![ngen + 1] = base[t]]
    /\ synced' = [synced EXCEPT ![ngen + 1] = base[t]]
    /\ place' = [place EXCEPT ![ngen + 1] = InSequence(base[t])]
    /\ pc' = [pc EXCEPT ![t] = "v_built"]
    /\ UNCHANGED <<gate, state, group, named, local, acked>>

\* rename: from here the path names the compacted file.
RenameOk(t) ==
    /\ pc[t] = "v_built"
    /\ named' = ngen
    /\ pc' = [pc EXCEPT ![t] = "v_renamed"]
    /\ UNCHANGED <<gate, state, group, pages, synced, place, ngen, local, acked>>

RenameFails(t) ==
    /\ pc[t] = "v_built"
    /\ "rename" \in Faults
    /\ GateRelease(t, "idle")
    /\ Forget(t)
    /\ UNCHANGED <<state, group, file, acked>>

\* sync_parent_dir fails after the rename: vacuum_locked returns the error
\* and the Store keeps the old pager.
SyncParentDirFails(t) ==
    /\ pc[t] = "v_renamed"
    /\ "dirsync" \in Faults
    /\ GateRelease(t, "idle")
    /\ Forget(t)
    /\ UNCHANGED <<state, group, file, acked>>

\* The swap of pager, head and SyncGroup under one lock of DbState.
SwapState(t) ==
    /\ pc[t] = "v_renamed"
    /\ gen' = ngen
    /\ head' = base[t]
    /\ durable' = [durable EXCEPT ![ngen] = base[t]]
    /\ written' = [written EXCEPT ![ngen] = base[t]]
    /\ inProgress' = [inProgress EXCEPT ![ngen] = FALSE]
    /\ pc' = [pc EXCEPT ![t] = "v_swapped"]
    /\ UNCHANGED <<gate, file, local, acked>>

VacuumReturns(t) ==
    /\ pc[t] = "v_swapped"
    /\ GateRelease(t, "idle")
    /\ Forget(t)
    /\ UNCHANGED <<state, group, file, acked>>

----------------------------------------------------------------------------
GateStep(t) ==
    \/ BeginOn(t) \/ BeginOnBlocking(t) \/ WakeUp(t) \/ AcquireTimeout(t)

TxStep(t) ==
    \/ BuildWriteTx(t) \/ BuildWriteTxFails(t) \/ Rollback(t)
    \/ WriteCommitPages(t) \/ PublishHead(t) \/ MarkWritten(t)
    \/ ReleaseWriter(t) \/ DropTx(t)

SealStep(t) ==
    \/ AlreadyDurable(t) \/ Follow(t) \/ Lead(t) \/ SyncCall(t) \/ SyncOk(t)
    \/ SyncFails(t) \/ WriteMeta(t) \/ FinishSeal(t) \/ FailSeal(t)

MaintenanceStep(t) ==
    \/ BeginMaintenance(t) \/ CaptureState(t) \/ MaintenanceStops(t)
    \/ MaintenanceWrites(t) \/ MaintenanceSync(t) \/ MaintenanceFails(t)
    \/ MaintenancePublishes(t) \/ MaintenanceReturns(t)

VacuumStep(t) ==
    \/ BuildCompacted(t) \/ RenameOk(t) \/ RenameFails(t)
    \/ SyncParentDirFails(t) \/ SwapState(t) \/ VacuumReturns(t)

Step(t) ==
    \/ GateStep(t) \/ TxStep(t) \/ SealStep(t) \/ MaintenanceStep(t)
    \/ VacuumStep(t)

Next == \E t \in Threads : Step(t)

Spec == Init /\ [][Next]_vars

(***************************************************************************)
(* Fairness.  A thread inside make_durable keeps running: its fdatasync    *)
(* returns and a notified follower looks again.  Nobody has to begin or to *)
(* finish a transaction, and a wait on the gate need not time out.         *)
(***************************************************************************)
Sealing(t) == SealStep(t) \/ DropTx(t)

FairSpec == Spec /\ \A t \in Threads : WF_vars(Sealing(t))

----------------------------------------------------------------------------
(***************************************************************************)
(* Properties.                                                             *)
(***************************************************************************)
\* Type invariant.
TypeOK ==
    /\ held \in BOOLEAN
    /\ gen \in Gens
    /\ head \in Versions
    /\ inProgress \in [Gens -> BOOLEAN]
    /\ durable \in [Gens -> Versions]
    /\ written \in [Gens -> Versions]
    /\ pages \in [Gens -> Records]
    /\ synced \in [Gens -> Records]
    /\ place \in Places
    /\ named \in Gens
    /\ ngen \in Gens
    /\ pc \in [Threads -> PCs]
    /\ tgen \in [Threads -> Gens]
    /\ base \in [Threads -> Versions]
    /\ ver \in [Threads -> Versions]
    /\ target \in [Threads -> Versions]
    /\ cover \in [Threads -> Records]
    /\ released \in [Threads -> BOOLEAN]
    /\ acked \subseteq Versions

\* t owns the writer: inside an operation that took the gate and has not
\* given it back.
Holding(t) ==
    \/ pc[t] \in TxPCs \cup MaintPCs \cup VacPCs
    \/ pc[t] = "drop" /\ ~released[t]

\* At most one thread is between acquiring and releasing the writer, and the
\* flag of the gate says whether one is: a Drop that released the writer a
\* second time, after commit already had, would let a third thread in.
SingleWriter ==
    /\ \A t, u \in Threads : Holding(t) /\ Holding(u) => t = u
    /\ held <=> \E t \in Threads : Holding(t)

\* writer_released is set exactly from the release of the write phase to the
\* end of the drop.
ReleasedFlag ==
    \A t \in Threads :
        /\ pc[t] \in SealPCs => released[t]
        /\ released[t] => pc[t] \in SealPCs \cup {"drop"}

\* While a WriteTx lives, the pager and the head it captured at begin are
\* still those of the Store ("`pager` y `state.pager` coinciden al commit"):
\* no vacuum and no other commit slips in between begin and publication.
CaptureIsCurrent ==
    \A t \in Threads :
        /\ pc[t] \in {"tx", "wrote", "m_tx", "m_wrote", "m_synced",
                       "v_copy", "v_built", "v_renamed"}
              => tgen[t] = gen /\ base[t] = head
        /\ pc[t] \in {"published", "marked", "m_publ"}
              => tgen[t] = gen /\ ver[t] = head

\* The first n records of file g have every version up to v.
Covers(g, v, n) == \A u \in 0 .. v : place[g][u] <= n

\* A version told to a caller, and every version it builds on, is on stable
\* storage in the file the path names now, whoever's fdatasync covered it,
\* whichever vacuum replaced the file and however many abandoned records of
\* the same numbers lie between theirs.
AckDurable == \A v \in acked : Covers(named, v, synced[named])

\* A version number has one owner: two commits in flight never carry the same
\* version, and none carries a version already acknowledged to someone else.
InFlight(t) ==
    pc[t] \in SealPCs \cup {"wrote", "published", "marked", "m_wrote",
                            "m_synced", "m_publ"}

OneOwnerPerVersion ==
    \A t \in Threads :
        InFlight(t) =>
            /\ ver[t] \notin acked
            /\ \A u \in Threads \ {t} : InFlight(u) => ver[u] # ver[t]

\* How the files stand to what the threads believe: the records up to the
\* durable version of a SyncGroup are covered, those up to its written version
\* and up to the head are in its file, the target of a leader is covered by its
\* fdatasync, the path names the current file except between rename and swap,
\* and a commit that still seals in a replaced file is already hard in its
\* replacement.
Leading(t) == pc[t] \in {"sync", "syncing", "meta", "sealed", "failed"}
Unpublished(t) == pc[t] \in {"wrote", "m_wrote", "m_synced"}
Replacing(t) == pc[t] \in {"v_built", "v_renamed"}
Published(t) == pc[t] \in SealPCs \cup {"published", "marked", "m_publ"}

FilesInv ==
    /\ \A g \in Gens :
          /\ synced[g] <= pages[g]
          /\ Covers(g, durable[g], synced[g])
          /\ Covers(g, written[g], pages[g])
          /\ durable[g] <= head /\ written[g] <= head
    /\ gen <= ngen /\ named <= ngen
    /\ Covers(gen, head, pages[gen])

ThreadInv(t) ==
    /\ tgen[t] <= gen
    /\ Unpublished(t) => ver[t] = head + 1 /\ Covers(gen, head + 1, pages[gen])
    /\ pc[t] = "m_synced" => Covers(gen, head + 1, synced[gen])
    /\ pc[t] = "m_publ" => Covers(gen, head, synced[gen])
    /\ Published(t) => ver[t] \in 1 .. head
    /\ Leading(t) => target[t] <= head
    /\ pc[t] = "sync" => Covers(tgen[t], target[t], pages[tgen[t]])
    /\ pc[t] = "syncing" =>
          Covers(tgen[t], target[t], cover[t]) /\ cover[t] <= pages[tgen[t]]
    /\ pc[t] \in {"meta", "sealed"} => Covers(tgen[t], target[t], synced[tgen[t]])
    /\ Replacing(t) => gen < ngen /\ Covers(ngen, head, synced[ngen])

ThreadsInv == \A t \in Threads : ThreadInv(t)

ReplacementInv ==
    /\ named # gen => \E t \in Threads : pc[t] = "v_renamed"
    /\ \A t \in Threads : pc[t] = "v_renamed" => named = ngen
    /\ \A t \in Threads :
          pc[t] \in SealPCs /\ tgen[t] # named =>
             Covers(named, ver[t], synced[named])
    /\ \A v \in acked : v <= head

DurabilityInv == ReleasedFlag /\ FilesInv /\ ThreadsInv /\ ReplacementInv

\* No wake-up of the gate is lost: when the writer is free and some thread is
\* still asleep in the condvar, another waiter has been notified and has yet
\* to look (it will take the writer, and notify again when it releases it).
NoLostWakeup ==
    ~held /\ Parked # {} => \E t \in Threads : pc[t] = "woken"

\* A generation seals one fdatasync at a time, and a follower never sleeps
\* without a leader of its own generation that will call notify_all.
FollowersHaveALeader ==
    /\ \A t \in Threads :
          pc[t] = "follow" =>
              \E u \in Threads : Leading(u) /\ tgen[u] = tgen[t]
    /\ \A t, u \in Threads :
          Leading(t) /\ Leading(u) /\ tgen[t] = tgen[u] => t = u

\* Nobody sleeps without someone who will wake him: neither at the gate, where
\* time-outs take notifications along, nor in make_durable, where a leader fails.
NoStrandedThread == NoLostWakeup /\ FollowersHaveALeader

\* The head moves one version at a time and never back, also across a vacuum.
HeadAdvancesByOne == [][head' \in {head, head + 1}]_head

\* The versions up to the head whose records, and those of all versions
\* before, an fdatasync of the named file covers.
Hardened == {v \in 1 .. head : Covers(named, v, synced[named])}

\* The store implements DurableLog: the log is what was published, and neither
\* an abandoned record nor a rename to a compacted file loses a hardened version.
Promise == INSTANCE DurableLog
              WITH log <- head, hard <- Hardened, told <- acked

ImplementsDurableLog == Promise!DSpec

\* A commit whose pages are written returns to its caller (with Ok or with
\* the error of the fdatasync it led), however the seals of others end.
CommitReturns == \A t \in Threads : pc[t] = "seal" ~> pc[t] = "idle"
============================================================================
