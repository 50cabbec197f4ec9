------------------------- MODULE GroupCommit_proofs -------------------------
(***************************************************************************)
(* Proofs about GroupCommit, for every set of threads and every bound.     *)
(***************************************************************************)
EXTENDS GroupCommit, TLAPS

\* The program counters, so that PCs need not be expanded elsewhere.
LEMMA PCsElements ==
    /\ {"idle", "parked", "woken", "drop", "build", "tx", "wrote", "published",
        "marked"} \subseteq PCs
    /\ {"m_build", "m_tx", "m_wrote", "m_synced", "m_publ", "v_copy",
        "v_built", "v_renamed", "v_swapped"} \subseteq PCs
    /\ {"seal", "follow", "sync", "syncing", "meta", "sealed", "failed"}
          \subseteq PCs
  BY DEF PCs, TxPCs, MaintPCs, VacPCs, SealPCs

\* The places of a new file are places.
LEMMA SequenceIsTyped ==
    ASSUME NEW v \in Versions
    PROVE  v \in Records /\ InSequence(v) \in [Versions -> Records \cup {Nowhere}]
<1>1. \A u \in Versions : u \in Records
  BY MaxVersionAssumption, MaxRecordsAssumption DEF Versions, Records
<1> QED BY <1>1 DEF InSequence

\* A new record has a place in the file.
LEMMA RecordIsTyped ==
    ASSUME TypeOK, NEW t \in Threads, NEW next \in PCs, WriteRecord(t, next)
    PROVE  TypeOK'
<1> USE DEF TypeOK, gate, state, group
<1>1. base[t] + 1 \in Versions
  BY MaxVersionAssumption DEF WriteRecord, Versions
<1>2. pages[tgen[t]] + 1 \in Records
  BY MaxRecordsAssumption DEF WriteRecord, Records
<1> QED BY <1>1, <1>2 DEF WriteRecord, Places

\* The gate is given back with its type.
LEMMA ReleaseIsTyped ==
    ASSUME pc \in [Threads -> PCs], NEW t \in Threads, NEW next \in PCs,
           GateRelease(t, next)
    PROVE  held' \in BOOLEAN /\ pc' \in [Threads -> PCs]
  BY PCsElements DEF GateRelease, Parked

\* The type invariant is inductive on its own.
LEMMA TypeStep ==
    ASSUME TypeOK, NEW t \in Threads, Step(t)
    PROVE  TypeOK'
<1>z. 0 \in Gens /\ 0 \in Versions /\ 0 \in Records
  BY MaxVersionAssumption, MaxRecordsAssumption, MaxGenAssumption
     DEF Gens, Versions, Records
<1> USE PCsElements, <1>z DEF TypeOK, gate, state, group, file, local
<1>1. CASE GateStep(t)
  BY <1>1 DEF GateStep, BeginOn, BeginOnBlocking, WakeUp, AcquireTimeout
<1>2. CASE TxStep(t)
  <2>1. CASE BuildWriteTx(t)       BY <2>1 DEF BuildWriteTx
  <2>2. CASE BuildWriteTxFails(t)  BY <2>2, ReleaseIsTyped DEF BuildWriteTxFails
  <2>3. CASE Rollback(t)           BY <2>3 DEF Rollback
  <2>4. CASE WriteCommitPages(t)
    <3>1. "wrote" \in PCs
      OBVIOUS
    <3> QED BY <2>4, <3>1, RecordIsTyped DEF WriteCommitPages
  <2>5. CASE PublishHead(t)        BY <2>5 DEF PublishHead
  <2>6. CASE MarkWritten(t)        BY <2>6 DEF MarkWritten
  <2>7. CASE ReleaseWriter(t)      BY <2>7, ReleaseIsTyped DEF ReleaseWriter
  <2>8. CASE DropTx(t)             
    <3>1. CASE released[t]
      BY <2>8, <3>1 DEF DropTx, Forget
    <3>2. CASE ~released[t]
      BY <2>8, <3>2, ReleaseIsTyped DEF DropTx, Forget
    <3> QED BY <3>1, <3>2
  <2> QED BY <1>2, <2>1, <2>2, <2>3, <2>4, <2>5, <2>6, <2>7, <2>8 DEF TxStep
<1>3. CASE SealStep(t)
  <2>1. CASE AlreadyDurable(t)     BY <2>1 DEF AlreadyDurable
  <2>2. CASE Follow(t)             BY <2>2 DEF Follow
  <2>3. CASE Lead(t)               BY <2>3 DEF Lead
  <2>4. CASE SyncCall(t)           BY <2>4 DEF SyncCall
  <2>5. CASE SyncOk(t)             BY <2>5 DEF SyncOk, Max2
  <2>6. CASE SyncFails(t)          BY <2>6 DEF SyncFails
  <2>7. CASE WriteMeta(t)          BY <2>7 DEF WriteMeta
  <2>8. CASE FinishSeal(t)         BY <2>8 DEF FinishSeal, Max2, NotifyAll
  <2>9. CASE FailSeal(t)           BY <2>9 DEF FailSeal, NotifyAll
  <2> QED
    BY <1>3, <2>1, <2>2, <2>3, <2>4, <2>5, <2>6, <2>7, <2>8, <2>9 DEF SealStep
<1>4. CASE MaintenanceStep(t)
  <2>0. CASE BeginMaintenance(t)     BY <2>0 DEF BeginMaintenance
  <2>1. CASE CaptureState(t)         BY <2>1 DEF CaptureState
  <2>2. CASE MaintenanceStops(t)     BY <2>2, ReleaseIsTyped DEF MaintenanceStops, Forget
  <2>3. CASE MaintenanceWrites(t)
    <3>1. "m_wrote" \in PCs
      OBVIOUS
    <3> QED BY <2>3, <3>1, RecordIsTyped DEF MaintenanceWrites
  <2>4. CASE MaintenanceSync(t)      BY <2>4 DEF MaintenanceSync
  <2>5. CASE MaintenancePublishes(t) BY <2>5 DEF MaintenancePublishes
  <2>6. CASE MaintenanceReturns(t)   BY <2>6, ReleaseIsTyped DEF MaintenanceReturns, Forget
  <2>7. CASE MaintenanceFails(t)     BY <2>7, ReleaseIsTyped DEF MaintenanceFails, Forget
  <2> QED
    BY <1>4, <2>0, <2>1, <2>2, <2>3, <2>4, <2>5, <2>6, <2>7 DEF MaintenanceStep
<1>5. CASE VacuumStep(t)
  <2>1. CASE BuildCompacted(t)
    <3>1. ngen + 1 \in Gens
      BY <2>1, MaxGenAssumption DEF BuildCompacted, Gens
    <3>2. /\ base[t] \in Versions /\ base[t] \in Records
          /\ InSequence(base[t]) \in [Versions -> Records \cup {Nowhere}]
      BY SequenceIsTyped
    <3> QED BY <2>1, <3>1, <3>2 DEF BuildCompacted, Places
  <2>2. CASE RenameOk(t)             BY <2>2 DEF RenameOk
  <2>3. CASE RenameFails(t)          BY <2>3, ReleaseIsTyped DEF RenameFails, Forget
  <2>4. CASE SyncParentDirFails(t)   BY <2>4, ReleaseIsTyped DEF SyncParentDirFails, Forget
  <2>5. CASE SwapState(t)            BY <2>5 DEF SwapState
  <2>6. CASE VacuumReturns(t)        BY <2>6, ReleaseIsTyped DEF VacuumReturns, Forget
  <2> QED
    BY <1>5, <2>1, <2>2, <2>3, <2>4, <2>5, <2>6 DEF VacuumStep
<1> QED
  BY <1>1, <1>2, <1>3, <1>4, <1>5 DEF Step

\* The initial state is well typed.
LEMMA TypeInit == Init => TypeOK
<1>1. 0 \in Gens /\ 0 \in Versions /\ 0 \in Records
  BY MaxVersionAssumption, MaxRecordsAssumption, MaxGenAssumption
     DEF Gens, Versions, Records
<1>2. InSequence(0) \in [Versions -> Records \cup {Nowhere}]
  BY <1>1, SequenceIsTyped
<1> QED BY <1>1, <1>2, PCsElements DEF Init, TypeOK, Places

\* Every variable of the store keeps its type in every behaviour.
THEOREM TypeCorrect == Spec => []TypeOK
<1>2. TypeOK /\ [Next]_vars => TypeOK'
  <2>1. TypeOK /\ Next => TypeOK'
    BY TypeStep DEF Next
  <2>2. TypeOK /\ UNCHANGED vars => TypeOK'
    BY DEF TypeOK, vars
  <2> QED BY <2>1, <2>2
<1> QED
  BY TypeInit, <1>2, PTL DEF Spec

\* The gate excludes: taking it needs it free, and each owner gives it back
\* once, at the step that ends its ownership.
LEMMA GateExcludes ==
    ASSUME TypeOK, SingleWriter, ReleasedFlag, NEW t \in Threads, Step(t)
    PROVE  SingleWriter' /\ ReleasedFlag'
<1> USE DEF TypeOK, SingleWriter, Holding, ReleasedFlag, Parked, TxPCs,
            MaintPCs, VacPCs, SealPCs, gate, state, group, file, local
<1>1. CASE GateStep(t)
  <2>1. CASE BeginOn(t)
    BY <2>1 DEF BeginOn
  <2>2. CASE BeginOnBlocking(t)
    BY <2>2 DEF BeginOnBlocking
  <2>3. CASE WakeUp(t)
    BY <2>3 DEF WakeUp
  <2>4. CASE AcquireTimeout(t)
    BY <2>4 DEF AcquireTimeout
  <2> QED
    BY <1>1, <2>1, <2>2, <2>3, <2>4 DEF GateStep
<1>2. CASE TxStep(t)
  <2>1. CASE BuildWriteTx(t)
    BY <2>1 DEF BuildWriteTx
  <2>2. CASE BuildWriteTxFails(t)
    BY <2>2 DEF BuildWriteTxFails, GateRelease
  <2>3. CASE Rollback(t)
    BY <2>3 DEF Rollback
  <2>4. CASE WriteCommitPages(t)
    BY <2>4 DEF WriteCommitPages, WriteRecord
  <2>5. CASE PublishHead(t)
    BY <2>5 DEF PublishHead
  <2>6. CASE MarkWritten(t)
    BY <2>6 DEF MarkWritten
  <2>7. CASE ReleaseWriter(t)
    BY <2>7 DEF ReleaseWriter, GateRelease
  <2>8. CASE DropTx(t)
    BY <2>8 DEF DropTx, GateRelease, Forget
  <2> QED
    BY <1>2, <2>1, <2>2, <2>3, <2>4, <2>5, <2>6, <2>7, <2>8 DEF TxStep
<1>3. CASE SealStep(t)
  <2>1. CASE AlreadyDurable(t)
    BY <2>1 DEF AlreadyDurable
  <2>2. CASE Follow(t)
    BY <2>2 DEF Follow
  <2>3. CASE Lead(t)
    BY <2>3 DEF Lead
  <2>4. CASE SyncCall(t)
    BY <2>4 DEF SyncCall
  <2>5. CASE SyncOk(t)
    BY <2>5 DEF SyncOk
  <2>6. CASE SyncFails(t)
    BY <2>6 DEF SyncFails
  <2>7. CASE WriteMeta(t)
    BY <2>7 DEF WriteMeta
  <2>8. CASE FinishSeal(t)
    BY <2>8 DEF FinishSeal, NotifyAll
  <2>9. CASE FailSeal(t)
    BY <2>9 DEF FailSeal, NotifyAll
  <2> QED
    BY <1>3, <2>1, <2>2, <2>3, <2>4, <2>5, <2>6, <2>7, <2>8, <2>9 DEF SealStep
<1>4. CASE MaintenanceStep(t)
  <2>1. CASE BeginMaintenance(t)
    BY <2>1 DEF BeginMaintenance
  <2>2. CASE CaptureState(t)
    BY <2>2 DEF CaptureState
  <2>3. CASE MaintenanceStops(t)
    BY <2>3 DEF MaintenanceStops, GateRelease, Forget
  <2>4. CASE MaintenanceWrites(t)
    BY <2>4 DEF MaintenanceWrites, WriteRecord
  <2>5. CASE MaintenanceSync(t)
    BY <2>5 DEF MaintenanceSync
  <2>6. CASE MaintenancePublishes(t)
    BY <2>6 DEF MaintenancePublishes
  <2>7. CASE MaintenanceReturns(t)
    BY <2>7 DEF MaintenanceReturns, GateRelease, Forget
  <2>8. CASE MaintenanceFails(t)
    BY <2>8 DEF MaintenanceFails, GateRelease, Forget
  <2> QED
    BY <1>4, <2>1, <2>2, <2>3, <2>4, <2>5, <2>6, <2>7, <2>8 DEF MaintenanceStep
<1>5. CASE VacuumStep(t)
  <2>1. CASE BuildCompacted(t)
    BY <2>1 DEF BuildCompacted
  <2>2. CASE RenameOk(t)
    BY <2>2 DEF RenameOk
  <2>3. CASE RenameFails(t)
    BY <2>3 DEF RenameFails, GateRelease, Forget
  <2>4. CASE SyncParentDirFails(t)
    BY <2>4 DEF SyncParentDirFails, GateRelease, Forget
  <2>5. CASE SwapState(t)
    BY <2>5 DEF SwapState
  <2>6. CASE VacuumReturns(t)
    BY <2>6 DEF VacuumReturns, GateRelease, Forget
  <2> QED
    BY <1>5, <2>1, <2>2, <2>3, <2>4, <2>5, <2>6 DEF VacuumStep
<1> QED
  BY <1>1, <1>2, <1>3, <1>4, <1>5 DEF Step

\* What an operation captured at its begin stays current while it owns the
\* writer, because only an owner publishes a head or swaps the file.
LEMMA CaptureStays ==
    ASSUME TypeOK, SingleWriter, CaptureIsCurrent, NEW t \in Threads, Step(t)
    PROVE  CaptureIsCurrent'
<1> USE DEF TypeOK, SingleWriter, Holding, CaptureIsCurrent, Parked, TxPCs,
            MaintPCs, VacPCs, gate, state, group, file, local
<1>1. CASE GateStep(t)
  <2>1. CASE BeginOn(t)
    BY <2>1 DEF BeginOn
  <2>2. CASE BeginOnBlocking(t)
    BY <2>2 DEF BeginOnBlocking
  <2>3. CASE WakeUp(t)
    BY <2>3 DEF WakeUp
  <2>4. CASE AcquireTimeout(t)
    BY <2>4 DEF AcquireTimeout
  <2> QED
    BY <1>1, <2>1, <2>2, <2>3, <2>4 DEF GateStep
<1>2. CASE TxStep(t)
  <2>1. CASE BuildWriteTx(t)
    BY <2>1 DEF BuildWriteTx
  <2>2. CASE BuildWriteTxFails(t)
    BY <2>2 DEF BuildWriteTxFails, GateRelease
  <2>3. CASE Rollback(t)
    BY <2>3 DEF Rollback
  <2>4. CASE WriteCommitPages(t)
    BY <2>4 DEF WriteCommitPages, WriteRecord
  <2>5. CASE PublishHead(t)
    BY <2>5 DEF PublishHead
  <2>6. CASE MarkWritten(t)
    BY <2>6 DEF MarkWritten
  <2>7. CASE ReleaseWriter(t)
    BY <2>7 DEF ReleaseWriter, GateRelease
  <2>8. CASE DropTx(t)
    BY <2>8 DEF DropTx, GateRelease, Forget
  <2> QED
    BY <1>2, <2>1, <2>2, <2>3, <2>4, <2>5, <2>6, <2>7, <2>8 DEF TxStep
<1>3. CASE SealStep(t)
  <2>1. CASE AlreadyDurable(t)
    BY <2>1 DEF AlreadyDurable
  <2>2. CASE Follow(t)
    BY <2>2 DEF Follow
  <2>3. CASE Lead(t)
    BY <2>3 DEF Lead
  <2>4. CASE SyncCall(t)
    BY <2>4 DEF SyncCall
  <2>5. CASE SyncOk(t)
    BY <2>5 DEF SyncOk, Max2
  <2>6. CASE SyncFails(t)
    BY <2>6 DEF SyncFails
  <2>7. CASE WriteMeta(t)
    BY <2>7 DEF WriteMeta
  <2>8. CASE FinishSeal(t)
    BY <2>8 DEF FinishSeal, NotifyAll, Max2
  <2>9. CASE FailSeal(t)
    BY <2>9 DEF FailSeal, NotifyAll
  <2> QED
    BY <1>3, <2>1, <2>2, <2>3, <2>4, <2>5, <2>6, <2>7, <2>8, <2>9 DEF SealStep
<1>4. CASE MaintenanceStep(t)
  <2>1. CASE BeginMaintenance(t)
    BY <2>1 DEF BeginMaintenance
  <2>2. CASE CaptureState(t)
    BY <2>2 DEF CaptureState
  <2>3. CASE MaintenanceStops(t)
    BY <2>3 DEF MaintenanceStops, GateRelease, Forget
  <2>4. CASE MaintenanceWrites(t)
    BY <2>4 DEF MaintenanceWrites, WriteRecord
  <2>5. CASE MaintenanceSync(t)
    BY <2>5 DEF MaintenanceSync
  <2>6. CASE MaintenancePublishes(t)
    BY <2>6 DEF MaintenancePublishes
  <2>7. CASE MaintenanceReturns(t)
    BY <2>7 DEF MaintenanceReturns, GateRelease, Forget
  <2>8. CASE MaintenanceFails(t)
    BY <2>8 DEF MaintenanceFails, GateRelease, Forget
  <2> QED
    BY <1>4, <2>1, <2>2, <2>3, <2>4, <2>5, <2>6, <2>7, <2>8 DEF MaintenanceStep
<1>5. CASE VacuumStep(t)
  <2>1. CASE BuildCompacted(t)
    BY <2>1 DEF BuildCompacted
  <2>2. CASE RenameOk(t)
    BY <2>2 DEF RenameOk
  <2>3. CASE RenameFails(t)
    BY <2>3 DEF RenameFails, GateRelease, Forget
  <2>4. CASE SyncParentDirFails(t)
    BY <2>4 DEF SyncParentDirFails, GateRelease, Forget
  <2>5. CASE SwapState(t)
    BY <2>5 DEF SwapState
  <2>6. CASE VacuumReturns(t)
    BY <2>6 DEF VacuumReturns, GateRelease, Forget
  <2> QED
    BY <1>5, <2>1, <2>2, <2>3, <2>4, <2>5, <2>6 DEF VacuumStep
<1> QED
  BY <1>1, <1>2, <1>3, <1>4, <1>5 DEF Step

\* Generations and versions are natural numbers.
LEMMA Numbers ==
    /\ \A g \in Gens : g \in Nat
    /\ \A v \in Versions : v \in Nat
    /\ \A n \in Records \cup {Nowhere} : n \in Nat
  BY MaxVersionAssumption, MaxRecordsAssumption, MaxGenAssumption
     DEF Gens, Versions, Records, Nowhere

\* A step of t leaves the locals of every other thread alone; at most it
\* wakes a waiter of the gate or a follower.
LEMMA OthersStay ==
    ASSUME TypeOK, NEW t \in Threads, Step(t), NEW u \in Threads, u # t
    PROVE  /\ tgen'[u] = tgen[u] /\ base'[u] = base[u] /\ ver'[u] = ver[u]
           /\ target'[u] = target[u] /\ cover'[u] = cover[u]
           /\ released'[u] = released[u]
           /\ \/ pc'[u] = pc[u]
              \/ pc[u] = "parked" /\ pc'[u] = "woken"
              \/ pc[u] = "follow" /\ pc'[u] = "seal"
<1> USE DEF TypeOK, gate, state, group, file, local, Parked
<1>1. CASE GateStep(t)
  BY <1>1 DEF GateStep, BeginOn, BeginOnBlocking, WakeUp, AcquireTimeout
<1>2. CASE TxStep(t)
  BY <1>2 DEF TxStep, BuildWriteTx, BuildWriteTxFails, Rollback,
        WriteCommitPages, WriteRecord, PublishHead, MarkWritten, ReleaseWriter, DropTx,
        GateRelease, Forget
<1>3. CASE SealStep(t)
  BY <1>3 DEF SealStep, AlreadyDurable, Follow, Lead, SyncCall, SyncOk,
        SyncFails, WriteMeta, FinishSeal, FailSeal, NotifyAll
<1>4. CASE MaintenanceStep(t)
  BY <1>4 DEF MaintenanceStep, BeginMaintenance, CaptureState,
        MaintenanceStops, MaintenanceWrites, WriteRecord, MaintenanceSync,
        MaintenanceFails, MaintenancePublishes, MaintenanceReturns, GateRelease, Forget
<1>5. CASE VacuumStep(t)
  BY <1>5 DEF VacuumStep, BuildCompacted, RenameOk, RenameFails,
        SyncParentDirFails, SwapState, VacuumReturns, GateRelease, Forget
<1> QED
  BY <1>1, <1>2, <1>3, <1>4, <1>5 DEF Step

\* Which steps change which shared variables.
LEMMA WhoWrites ==
    ASSUME NEW t \in Threads, Step(t)
    PROVE  /\ \/ pages' = pages
              \/ WriteCommitPages(t) \/ MaintenanceWrites(t) \/ BuildCompacted(t)
           /\ \/ place' = place
              \/ WriteCommitPages(t) \/ MaintenanceWrites(t) \/ BuildCompacted(t)
           /\ \/ synced' = synced
              \/ SyncOk(t) \/ MaintenanceSync(t) \/ BuildCompacted(t)
           /\ \/ head' = head
              \/ PublishHead(t) \/ MaintenancePublishes(t) \/ SwapState(t)
           /\ gen' = gen \/ SwapState(t)
           /\ ngen' = ngen \/ BuildCompacted(t)
           /\ named' = named \/ RenameOk(t)
           /\ durable' = durable \/ FinishSeal(t) \/ SwapState(t)
           /\ written' = written \/ MarkWritten(t) \/ SwapState(t)
           /\ acked' = acked \/ AlreadyDurable(t) \/ MaintenanceReturns(t)
<1> USE DEF gate, state, group, file, local
<1>1. CASE GateStep(t)
  BY <1>1 DEF GateStep, BeginOn, BeginOnBlocking, WakeUp, AcquireTimeout
<1>2. CASE TxStep(t)
  BY <1>2 DEF TxStep, BuildWriteTx, BuildWriteTxFails, Rollback,
        WriteCommitPages, WriteRecord, PublishHead, MarkWritten, ReleaseWriter, DropTx
<1>3. CASE SealStep(t)
  BY <1>3 DEF SealStep, AlreadyDurable, Follow, Lead, SyncCall, SyncOk,
        SyncFails, WriteMeta, FinishSeal, FailSeal
<1>4. CASE MaintenanceStep(t)
  BY <1>4 DEF MaintenanceStep, BeginMaintenance, CaptureState,
        MaintenanceStops, MaintenanceWrites, WriteRecord, MaintenanceSync,
        MaintenanceFails, MaintenancePublishes, MaintenanceReturns
<1>5. CASE VacuumStep(t)
  BY <1>5 DEF VacuumStep, BuildCompacted, RenameOk, RenameFails,
        SyncParentDirFails, SwapState, VacuumReturns
<1> QED
  BY <1>1, <1>2, <1>3, <1>4, <1>5 DEF Step

\* Only the owner of the writer changes the head, the current file, its
\* pages or the name.
LEMMA OwnersOnly ==
    ASSUME NEW t \in Threads, Step(t), ~Holding(t)
    PROVE  /\ pages' = pages /\ place' = place /\ head' = head /\ gen' = gen
           /\ ngen' = ngen /\ named' = named
           /\ synced' = synced \/ SyncOk(t)
  BY WhoWrites DEF Holding, TxPCs, MaintPCs, VacPCs, WriteCommitPages,
     MaintenanceWrites, BuildCompacted, MaintenanceSync, PublishHead,
     MaintenancePublishes, SwapState, RenameOk

\* Which step leads to which program counter.
LEMMA WhoArrives ==
    ASSUME TypeOK, NEW t \in Threads, Step(t)
    PROVE  /\ pc'[t] = "wrote" => WriteCommitPages(t)
           /\ pc'[t] = "m_wrote" => MaintenanceWrites(t)
           /\ pc'[t] = "m_synced" => MaintenanceSync(t)
           /\ pc'[t] = "m_publ" => MaintenancePublishes(t)
           /\ pc'[t] = "published" => PublishHead(t)
           /\ pc'[t] = "marked" => MarkWritten(t)
           /\ pc'[t] = "v_built" => BuildCompacted(t)
           /\ pc'[t] = "v_renamed" => RenameOk(t)
           /\ pc'[t] = "sync" => Lead(t)
           /\ pc'[t] = "syncing" => SyncCall(t)
           /\ pc'[t] = "meta" => SyncOk(t)
           /\ pc'[t] = "sealed" => WriteMeta(t)
           /\ pc'[t] = "failed" => SyncFails(t) \/ WriteMeta(t)
           /\ pc'[t] \in SealPCs =>
                 ReleaseWriter(t) \/ (pc[t] \in SealPCs /\ SealStep(t))
           /\ pc[t] = "wrote" => PublishHead(t)
           /\ pc[t] = "m_wrote" => MaintenanceSync(t) \/ MaintenanceFails(t)
           /\ pc[t] = "m_synced" => MaintenancePublishes(t) \/ MaintenanceFails(t)
           /\ pc[t] = "v_renamed" => SwapState(t) \/ SyncParentDirFails(t)
<1> USE DEF TypeOK, gate, state, group, file, local, Parked, SealPCs
<1>1. CASE GateStep(t)
  BY <1>1 DEF GateStep, BeginOn, BeginOnBlocking, WakeUp, AcquireTimeout
<1>2. CASE TxStep(t)
  BY <1>2 DEF TxStep, BuildWriteTx, BuildWriteTxFails, Rollback,
        WriteCommitPages, WriteRecord, PublishHead, MarkWritten, ReleaseWriter, DropTx,
        GateRelease
<1>3. CASE SealStep(t)
  BY <1>3 DEF SealStep, AlreadyDurable, Follow, Lead, SyncCall, SyncOk,
        SyncFails, WriteMeta, FinishSeal, FailSeal, NotifyAll
<1>4. CASE MaintenanceStep(t)
  BY <1>4 DEF MaintenanceStep, BeginMaintenance, CaptureState,
        MaintenanceStops, MaintenanceWrites, WriteRecord, MaintenanceSync,
        MaintenanceFails, MaintenancePublishes, MaintenanceReturns, GateRelease
<1>5. CASE VacuumStep(t)
  BY <1>5 DEF VacuumStep, BuildCompacted, RenameOk, RenameFails,
        SyncParentDirFails, SwapState, VacuumReturns, GateRelease
<1> QED
  BY <1>1, <1>2, <1>3, <1>4, <1>5 DEF Step

\* No version was told to anybody before it was published.
AckedBelowHead == \A v \in acked : v <= head

\* What holds whatever fails: files, threads and head are in step.
FlowInv ==
    /\ TypeOK /\ SingleWriter /\ ReleasedFlag /\ CaptureIsCurrent
    /\ FilesInv /\ ThreadsInv /\ AckedBelowHead

\* The inductive invariant: acknowledgements together with what they rest on.
StoreInv == FlowInv /\ ReplacementInv /\ AckDurable

\* Two owners of the writer are the same thread.
LEMMA Owner ==
    ASSUME SingleWriter, NEW t \in Threads, NEW u \in Threads,
           Holding(t), Holding(u)
    PROVE  t = u
  BY DEF SingleWriter

\* Below a version are versions, and their records are numbered.
LEMMA PlacesBelow ==
    ASSUME TypeOK, NEW g \in Gens, NEW v \in Versions, NEW u \in 0 .. v
    PROVE  u \in Versions /\ u \in Nat /\ u <= v /\ place[g][u] \in Nat
<1>1. u \in Versions /\ u \in Nat /\ u <= v
  BY MaxVersionAssumption DEF Versions
<1> QED BY <1>1, Numbers DEF TypeOK, Places

\* A commit appends one record to the current file, for the version after the
\* head.
LEMMA RecordEffect ==
    ASSUME FlowInv, NEW t \in Threads, WriteCommitPages(t) \/ MaintenanceWrites(t)
    PROVE  /\ pages' = [pages EXCEPT ![gen] = pages[gen] + 1]
           /\ place' = [place EXCEPT ![gen][head + 1] = pages[gen] + 1]
           /\ ver' = [ver EXCEPT ![t] = head + 1]
           /\ head + 1 \in Versions
           /\ tgen[t] = gen
           /\ UNCHANGED <<head, gen, durable, written, synced, named, ngen, acked, tgen>>
<1> USE DEF FlowInv, TypeOK
<1>1. tgen[t] = gen /\ base[t] = head
  BY DEF WriteCommitPages, MaintenanceWrites, CaptureIsCurrent
<1>2. \E next \in {"wrote", "m_wrote"} : WriteRecord(t, next)
  BY DEF WriteCommitPages, MaintenanceWrites
<1>3. head + 1 \in Versions
  BY <1>1, <1>2, MaxVersionAssumption DEF WriteRecord, Versions
<1> QED BY <1>1, <1>2, <1>3 DEF WriteRecord, state, group

\* The record of a published version stays where it is in every file that is
\* not just being built.
LEMMA RecordsStay ==
    ASSUME FlowInv, NEW t \in Threads, Step(t), NEW g \in Gens,
           NEW u \in Versions, u <= head,
           ~(BuildCompacted(t) /\ g = ngen + 1)
    PROVE  place'[g][u] = place[g][u]
<1> USE Numbers DEF FlowInv, TypeOK, Places
<1>1. CASE WriteCommitPages(t) \/ MaintenanceWrites(t)
  <2>1. place' = [place EXCEPT ![gen][head + 1] = pages[gen] + 1]
    BY <1>1, RecordEffect
  <2>2. u # head + 1
    OBVIOUS
  <2>3. place'[g] = IF g = gen THEN [place[g] EXCEPT ![head + 1] = pages[gen] + 1]
                               ELSE place[g]
    BY <2>1
  <2>4. place[g] \in [Versions -> Records \cup {Nowhere}]
    OBVIOUS
  <2> QED BY <2>2, <2>3, <2>4
<1>2. CASE BuildCompacted(t)
  BY <1>2 DEF BuildCompacted
<1>3. CASE place' = place
  BY <1>3
<1> QED BY <1>1, <1>2, <1>3, WhoWrites

\* The file that a vacuum builds has the versions of the head in order, all
\* of them covered.
LEMMA BuiltFile ==
    ASSUME FlowInv, NEW t \in Threads, BuildCompacted(t)
    PROVE  /\ ngen' = ngen + 1 /\ ngen + 1 \in Gens /\ gen <= ngen
           /\ pages' = [pages EXCEPT ![ngen + 1] = head]
           /\ synced' = [synced EXCEPT ![ngen + 1] = head]
           /\ \A u \in Versions : u <= head => place'[ngen + 1][u] = u
           /\ UNCHANGED <<head, gen, durable, written, named, acked, tgen>>
<1> USE Numbers DEF FlowInv, TypeOK
<1>1. base[t] = head /\ gen <= ngen
  BY DEF BuildCompacted, CaptureIsCurrent, FilesInv
<1>2. ngen + 1 \in Gens
  BY <1>1, MaxGenAssumption DEF BuildCompacted, Gens
<1>3. place'[ngen + 1] = InSequence(head)
  BY <1>1, <1>2 DEF BuildCompacted, Places
<1> QED BY <1>1, <1>2, <1>3 DEF BuildCompacted, state, group, local, InSequence

\* Heads, generations and the contents of existing files only grow.
LEMMA Monotone ==
    ASSUME FlowInv, NEW t \in Threads, Step(t)
    PROVE  /\ head <= head' /\ gen <= gen'
           /\ ngen <= ngen'
           /\ \A g \in Gens : ~(BuildCompacted(t) /\ g = ngen + 1) =>
                 pages[g] <= pages'[g] /\ synced[g] <= synced'[g]
<1> USE Numbers DEF FlowInv, TypeOK
<1>1. head <= head'
  <2>1. CASE PublishHead(t)
    BY <2>1 DEF PublishHead, ThreadsInv, ThreadInv, Unpublished
  <2>2. CASE MaintenancePublishes(t)
    BY <2>2 DEF MaintenancePublishes, ThreadsInv, ThreadInv, Unpublished
  <2>3. CASE SwapState(t)
    BY <2>3 DEF SwapState, CaptureIsCurrent
  <2> QED BY <2>1, <2>2, <2>3, WhoWrites
<1>2. gen <= gen' /\ ngen <= ngen'
  <2>1. CASE SwapState(t)
    BY <2>1 DEF SwapState, FilesInv, file
  <2>2. CASE BuildCompacted(t)
    BY <2>2 DEF BuildCompacted, state
  <2> QED BY <2>1, <2>2, WhoWrites
<1>3. ASSUME NEW g \in Gens, ~(BuildCompacted(t) /\ g = ngen + 1)
      PROVE  pages[g] <= pages'[g]
  <2>1. CASE WriteCommitPages(t) \/ MaintenanceWrites(t)
    BY <2>1, RecordEffect
  <2>2. CASE BuildCompacted(t)
    BY <2>2, <1>3, BuiltFile
  <2> QED BY <2>1, <2>2, WhoWrites
<1>4. ASSUME NEW g \in Gens, ~(BuildCompacted(t) /\ g = ngen + 1)
      PROVE  synced[g] <= synced'[g]
  <2>1. CASE SyncOk(t)
    BY <2>1 DEF SyncOk, Max2
  <2>2. CASE MaintenanceSync(t)
    BY <2>2 DEF MaintenanceSync, FilesInv
  <2>3. CASE BuildCompacted(t)
    BY <2>3, <1>4, BuiltFile
  <2> QED BY <2>1, <2>2, <2>3, WhoWrites
<1> QED BY <1>1, <1>2, <1>3, <1>4

\* So what the first n records of a file have, they keep.
LEMMA CoversStay ==
    ASSUME FlowInv, NEW t \in Threads, Step(t), NEW g \in Gens,
           ~(BuildCompacted(t) /\ g = ngen + 1),
           NEW v \in Versions, v <= head, NEW n \in Nat, NEW m \in Nat, n <= m,
           Covers(g, v, n)
    PROVE  \A u \in 0 .. v : place'[g][u] <= m
<1> SUFFICES ASSUME NEW u \in 0 .. v PROVE place'[g][u] <= m
  OBVIOUS
<1>1. u \in Versions /\ u \in Nat /\ u <= v /\ place[g][u] \in Nat
  BY PlacesBelow DEF FlowInv
<1>2. u <= head
  BY <1>1, Numbers DEF FlowInv, TypeOK
<1>3. place'[g][u] = place[g][u]
  BY <1>1, <1>2, RecordsStay
<1> QED BY <1>1, <1>3 DEF Covers

\* More records cover no less, and fewer versions are covered by the same.
LEMMA CoversMore ==
    ASSUME TypeOK, NEW g \in Gens, NEW v \in Versions, NEW n \in Nat,
           Covers(g, v, n), NEW w \in Versions, w <= v, NEW m \in Nat, n <= m
    PROVE  Covers(g, w, m)
<1> SUFFICES ASSUME NEW u \in 0 .. w PROVE place[g][u] <= m
  BY DEF Covers
<1>1. u \in 0 .. v
  BY Numbers
<1> QED BY <1>1, PlacesBelow DEF Covers

\* The built file of a vacuum that is about to replace covers the head.
LEMMA ReplacementCovers ==
    ASSUME FlowInv, NEW t \in Threads, SwapState(t)
    PROVE  /\ base[t] = head
           /\ Covers(ngen, head, synced[ngen]) /\ Covers(ngen, head, pages[ngen])
<1> USE Numbers DEF FlowInv, TypeOK
<1>1. base[t] = head /\ Covers(ngen, head, synced[ngen])
  BY DEF SwapState, CaptureIsCurrent, ThreadsInv, ThreadInv, Replacing
<1>2. /\ synced[ngen] \in Nat /\ pages[ngen] \in Nat /\ synced[ngen] <= pages[ngen]
      /\ head <= head
  BY DEF FilesInv
<1> QED BY <1>1, <1>2, CoversMore

\* The watermarks of a SyncGroup stay behind its file and behind the head.
LEMMA WatermarksBehind ==
    ASSUME FlowInv, TypeOK', NEW t \in Threads, Step(t), NEW g \in Gens
    PROVE  /\ synced'[g] <= pages'[g]
           /\ \A u \in 0 .. durable'[g] : place'[g][u] <= synced'[g]
           /\ \A u \in 0 .. written'[g] : place'[g][u] <= pages'[g]
           /\ durable'[g] <= head' /\ written'[g] <= head'
<1> USE Numbers DEF FlowInv, TypeOK
<1>0. /\ synced[g] <= pages[g]
      /\ Covers(g, durable[g], synced[g]) /\ Covers(g, written[g], pages[g])
      /\ durable[g] <= head /\ written[g] <= head /\ head <= head'
  BY Monotone DEF FilesInv
<1>1. CASE BuildCompacted(t) /\ g = ngen + 1
  <2>1. /\ pages'[g] = head /\ synced'[g] = head
        /\ \A u \in Versions : u <= head => place'[g][u] = u
        /\ UNCHANGED <<head, durable, written>>
    BY <1>1, BuiltFile
  <2>2. ASSUME NEW v \in Versions, v <= head, NEW u \in 0 .. v
        PROVE  place'[g][u] <= head
    <3>1. u \in Versions /\ u <= v
      BY <2>2, PlacesBelow
    <3> QED BY <2>1, <2>2, <3>1
  <2> QED BY <1>0, <2>1, <2>2
<1>2. CASE ~(BuildCompacted(t) /\ g = ngen + 1)
  <2>1. pages[g] <= pages'[g] /\ synced[g] <= synced'[g]
    BY <1>2, Monotone
  <2>2. synced'[g] <= pages'[g]
    <3>1. CASE SyncOk(t)
      <4>1. cover[t] <= pages[tgen[t]] /\ pages' = pages
        BY <3>1 DEF SyncOk, ThreadsInv, ThreadInv
      <4> QED BY <1>0, <3>1, <4>1 DEF SyncOk, Max2
    <3>2. CASE MaintenanceSync(t)
      BY <1>0, <3>2 DEF MaintenanceSync
    <3>3. CASE synced'[g] = synced[g]
      BY <1>0, <2>1, <3>3
    <3>4. CASE BuildCompacted(t)
      BY <1>0, <1>2, <3>4, BuiltFile
    <3> QED BY <3>1, <3>2, <3>3, <3>4, WhoWrites
  <2>3. ASSUME NEW v \in Versions, v <= head, Covers(g, v, synced[g])
        PROVE  \A u \in 0 .. v : place'[g][u] <= synced'[g]
    BY <1>2, <2>1, <2>3, CoversStay
  <2>4. ASSUME NEW v \in Versions, v <= head, Covers(g, v, pages[g])
        PROVE  \A u \in 0 .. v : place'[g][u] <= pages'[g]
    BY <1>2, <2>1, <2>4, CoversStay
  <2>5. durable'[g] <= head /\ Covers(g, durable'[g], synced[g])
    <3>1. CASE FinishSeal(t)
      <4>1. Covers(tgen[t], target[t], synced[tgen[t]]) /\ target[t] <= head
        BY <3>1 DEF FinishSeal, ThreadsInv, ThreadInv, Leading
      <4>2. durable'[g] = durable[g] \/ (durable'[g] = target[t] /\ tgen[t] = g)
        BY <3>1 DEF FinishSeal, Max2
      <4> QED BY <1>0, <4>1, <4>2
    <3>2. CASE SwapState(t)
      <4>1. base[t] = head /\ Covers(ngen, head, synced[ngen])
        BY <3>2, ReplacementCovers
      <4>2. durable'[g] = durable[g] \/ (durable'[g] = base[t] /\ ngen = g)
        BY <3>2 DEF SwapState
      <4> QED BY <1>0, <4>1, <4>2
    <3> QED BY <1>0, <3>1, <3>2, WhoWrites
  <2>6. written'[g] <= head /\ Covers(g, written'[g], pages[g])
    <3>1. CASE MarkWritten(t)
      <4>1. tgen[t] = gen /\ ver[t] = head /\ Covers(gen, head, pages[gen])
        BY <3>1 DEF MarkWritten, CaptureIsCurrent, FilesInv
      <4>2. written'[g] = written[g] \/ (written'[g] = ver[t] /\ tgen[t] = g)
        BY <3>1 DEF MarkWritten
      <4> QED BY <1>0, <4>1, <4>2
    <3>2. CASE SwapState(t)
      <4>1. base[t] = head /\ Covers(ngen, head, pages[ngen])
        BY <3>2, ReplacementCovers
      <4>2. written'[g] = written[g] \/ (written'[g] = base[t] /\ ngen = g)
        BY <3>2 DEF SwapState
      <4> QED BY <1>0, <4>1, <4>2
    <3> QED BY <1>0, <3>1, <3>2, WhoWrites
  <2> QED BY <1>0, <2>2, <2>3, <2>4, <2>5, <2>6
<1> QED BY <1>1, <1>2

\* The current file has every version up to the head.
LEMMA HeadIsWritten ==
    ASSUME FlowInv, TypeOK', NEW t \in Threads, Step(t)
    PROVE  \A u \in 0 .. head' : place'[gen'][u] <= pages'[gen']
<1> USE Numbers DEF FlowInv, TypeOK
<1>0. Covers(gen, head, pages[gen]) /\ gen <= ngen
  BY DEF FilesInv
<1>1. CASE PublishHead(t) \/ MaintenancePublishes(t)
  <2>1. ver[t] = head + 1 /\ Covers(gen, head + 1, pages[gen])
    BY <1>1 DEF PublishHead, MaintenancePublishes, ThreadsInv, ThreadInv, Unpublished
  <2>2. head' = head + 1 /\ UNCHANGED <<place, pages, gen>>
    BY <1>1, <2>1 DEF PublishHead, MaintenancePublishes, file
  <2> QED BY <2>1, <2>2 DEF Covers
<1>2. CASE SwapState(t)
  <2>1. base[t] = head /\ Covers(ngen, head, pages[ngen])
    BY <1>2, ReplacementCovers
  <2> QED BY <1>2, <2>1 DEF SwapState, Covers, file
<1>3. CASE head' = head /\ gen' = gen
  <2>1. ~(BuildCompacted(t) /\ gen = ngen + 1)
    BY <1>0
  <2>2. /\ pages[gen] <= pages'[gen] /\ pages[gen] \in Nat /\ pages'[gen] \in Nat
        /\ head <= head
    BY <2>1, Monotone
  <2>3. \A u \in 0 .. head : place'[gen][u] <= pages'[gen]
    BY <1>0, <2>1, <2>2, CoversStay
  <2> QED BY <1>3, <2>3
<1> QED BY <1>1, <1>2, <1>3, WhoWrites

\* What a thread relies on survives the steps of the others: an owner of the
\* writer is alone, and a sealing thread relies on quantities that only grow.
LEMMA OthersThreadInv ==
    ASSUME FlowInv, TypeOK', NEW t \in Threads, Step(t),
           NEW u \in Threads, u # t
    PROVE  ThreadInv(u)'
<1> USE Numbers DEF FlowInv, TypeOK
<1>0. ThreadInv(u)
  BY DEF ThreadsInv
<1>1. /\ tgen'[u] = tgen[u] /\ ver'[u] = ver[u]
      /\ target'[u] = target[u] /\ cover'[u] = cover[u]
      /\ \/ pc'[u] = pc[u]
         \/ pc[u] = "parked" /\ pc'[u] = "woken"
         \/ pc[u] = "follow" /\ pc'[u] = "seal"
  BY OthersStay
<1>2. /\ head <= head' /\ gen <= gen' /\ tgen[u] <= gen /\ gen <= ngen
      /\ pages[tgen[u]] <= pages'[tgen[u]]
      /\ synced[tgen[u]] <= synced'[tgen[u]]
      /\ ~(BuildCompacted(t) /\ tgen[u] = ngen + 1)
  <2>1. tgen[u] <= gen /\ gen <= ngen
    BY <1>0 DEF ThreadInv, FilesInv
  <2>2. ~(BuildCompacted(t) /\ tgen[u] = ngen + 1)
    BY <2>1
  <2> QED BY <2>1, <2>2, Monotone
<1>3. ASSUME Leading(u), NEW n \in Nat, NEW m \in Nat, n <= m,
             Covers(tgen[u], target[u], n)
      PROVE  \A w \in 0 .. target[u] : place'[tgen[u]][w] <= m
  <2>1. target[u] <= head /\ target[u] \in Versions /\ tgen[u] \in Gens
    BY <1>0, <1>3 DEF ThreadInv
  <2> QED BY <1>2, <1>3, <2>1, CoversStay
<1>4. /\ tgen'[u] <= gen'
      /\ Published(u)' => ver'[u] \in 1 .. head'
      /\ Leading(u)' => target'[u] <= head'
  BY <1>0, <1>1, <1>2 DEF ThreadInv, Published, SealPCs, Leading
<1>5. CASE Leading(u)'
  <2>1. pc'[u] = pc[u] /\ Leading(u)
    BY <1>1, <1>5 DEF Leading
  <2>2. ~Unpublished(u)' /\ pc'[u] # "m_publ" /\ ~Replacing(u)'
    BY <1>5 DEF Leading, Unpublished, Replacing
  <2>3. pc'[u] = "sync" => Covers(tgen[u], target[u], pages[tgen[u]])'
    BY <1>0, <1>1, <1>2, <1>3, <2>1 DEF ThreadInv, Covers
  <2>4. pc'[u] = "syncing" =>
          /\ \A w \in 0 .. target'[u] : place'[tgen'[u]][w] <= cover'[u]
          /\ cover'[u] <= pages'[tgen'[u]]
    BY <1>0, <1>1, <1>2, <1>3, <2>1 DEF ThreadInv
  <2>5. pc'[u] \in {"meta", "sealed"} =>
          \A w \in 0 .. target'[u] : place'[tgen'[u]][w] <= synced'[tgen'[u]]
    BY <1>0, <1>1, <1>2, <1>3, <2>1 DEF ThreadInv
  <2> QED BY <1>1, <1>4, <2>2, <2>3, <2>4, <2>5 DEF ThreadInv, Covers, Unpublished
<1>6. CASE ~Leading(u)' /\ Holding(u)
  <2>1. ~Holding(t)
    BY <1>6, Owner
  <2>2. /\ pages' = pages /\ place' = place /\ head' = head /\ gen' = gen
        /\ ngen' = ngen
        /\ synced[gen] <= synced'[gen] /\ synced[ngen] <= synced'[ngen]
    <3>1. /\ pages' = pages /\ place' = place /\ head' = head /\ gen' = gen
          /\ ngen' = ngen
      BY <2>1, OwnersOnly
    <3>2. ~BuildCompacted(t)
      BY <3>1 DEF BuildCompacted
    <3> QED BY <3>1, <3>2, Monotone
  <2>3. pc'[u] = pc[u]
    BY <1>1, <1>6 DEF Holding, TxPCs, MaintPCs, VacPCs
  <2>4. ASSUME NEW v \in Versions, NEW g \in {gen, ngen}, Covers(g, v, synced[g])
        PROVE  \A w \in 0 .. v : place'[g][w] <= synced'[g]
    <3>1. /\ g \in Gens /\ synced[g] \in Nat /\ synced'[g] \in Nat
          /\ synced[g] <= synced'[g] /\ v <= v
      BY <2>2
    <3>2. Covers(g, v, synced'[g])
      BY <2>4, <3>1, CoversMore
    <3> QED BY <2>2, <3>2 DEF Covers
  <2>5. Unpublished(u)' => /\ ver'[u] = head' + 1
                           /\ Covers(gen, head + 1, pages[gen])'
    BY <1>0, <1>1, <2>2, <2>3 DEF ThreadInv, Unpublished, Covers
  <2>6. pc'[u] = "m_synced" => \A w \in 0 .. head' + 1 : place'[gen'][w] <= synced'[gen']
    <3>1. CASE pc[u] = "m_synced"
      <4>1. head + 1 = ver[u] /\ Covers(gen, head + 1, synced[gen])
        BY <1>0, <3>1 DEF ThreadInv, Unpublished
      <4> QED BY <2>2, <2>4, <4>1
    <3> QED BY <2>3, <3>1
  <2>7. pc'[u] = "m_publ" => \A w \in 0 .. head' : place'[gen'][w] <= synced'[gen']
    BY <1>0, <2>2, <2>3, <2>4 DEF ThreadInv
  <2>8. Replacing(u)' => /\ gen' < ngen'
                         /\ \A w \in 0 .. head' : place'[ngen'][w] <= synced'[ngen']
    BY <1>0, <2>2, <2>3, <2>4 DEF ThreadInv, Replacing
  <2> QED
    BY <1>4, <1>6, <2>5, <2>6, <2>7, <2>8 DEF ThreadInv, Covers, Leading
<1>7. CASE ~Leading(u)' /\ ~Holding(u)
  <2>1. /\ ~Unpublished(u)' /\ ~Replacing(u)'
        /\ pc'[u] \notin {"m_synced", "m_publ"}
    BY <1>1, <1>7 DEF Holding, TxPCs, MaintPCs, VacPCs, Unpublished, Replacing
  <2> QED BY <1>4, <1>7, <2>1 DEF ThreadInv, Leading
<1> QED BY <1>5, <1>6, <1>7

\* The generation a thread works on is one it had, the current one or none.
LEMMA OwnGeneration ==
    ASSUME TypeOK, NEW t \in Threads, Step(t)
    PROVE  tgen'[t] \in {tgen[t], gen, 0}
<1> USE DEF TypeOK, local
<1>1. CASE GateStep(t)
  BY <1>1 DEF GateStep, BeginOn, BeginOnBlocking, WakeUp, AcquireTimeout
<1>2. CASE TxStep(t)
  BY <1>2 DEF TxStep, BuildWriteTx, BuildWriteTxFails, Rollback,
        WriteCommitPages, WriteRecord, PublishHead, MarkWritten, ReleaseWriter, DropTx,
        Forget
<1>3. CASE SealStep(t)
  BY <1>3 DEF SealStep, AlreadyDurable, Follow, Lead, SyncCall, SyncOk,
        SyncFails, WriteMeta, FinishSeal, FailSeal
<1>4. CASE MaintenanceStep(t)
  BY <1>4 DEF MaintenanceStep, BeginMaintenance, CaptureState,
        MaintenanceStops, MaintenanceWrites, WriteRecord, MaintenanceSync,
        MaintenanceFails, MaintenancePublishes, MaintenanceReturns, Forget
<1>5. CASE VacuumStep(t)
  BY <1>5 DEF VacuumStep, BuildCompacted, RenameOk, RenameFails,
        SyncParentDirFails, SwapState, VacuumReturns, Forget
<1> QED
  BY <1>1, <1>2, <1>3, <1>4, <1>5 DEF Step

\* What a thread relies on after its own step.
LEMMA OwnThreadInv ==
    ASSUME FlowInv, TypeOK', NEW t \in Threads, Step(t)
    PROVE  ThreadInv(t)'
<1> USE Numbers DEF FlowInv, TypeOK
<1>0. ThreadInv(t)
  BY DEF ThreadsInv
<1>1. tgen'[t] <= gen'
  <2>1. 0 <= gen /\ gen <= gen' /\ tgen[t] <= gen
    BY <1>0, Monotone DEF ThreadInv
  <2>2. tgen'[t] \in {tgen[t], gen, 0}
    BY OwnGeneration
  <2> HIDE DEF TypeOK
  <2>3. tgen[t] \in Nat /\ gen \in Nat /\ gen' \in Nat
    BY DEF TypeOK
  <2> QED BY <2>1, <2>2, <2>3
<1>2. Unpublished(t)' =>
        /\ ver'[t] = head' + 1
        /\ \A u \in 0 .. head' + 1 : place'[gen'][u] <= pages'[gen']
  <2>1. CASE WriteCommitPages(t) \/ MaintenanceWrites(t)
    <3>1. /\ pages' = [pages EXCEPT ![gen] = pages[gen] + 1]
          /\ place' = [place EXCEPT ![gen][head + 1] = pages[gen] + 1]
          /\ ver'[t] = head + 1 /\ head + 1 \in Versions
          /\ head' = head /\ gen' = gen
      BY <2>1, RecordEffect
    <3>2. pages'[gen] = pages[gen] + 1
      BY <3>1
    <3>3. place'[gen][head + 1] = pages[gen] + 1
      BY <3>1 DEF Places
    <3>4. ASSUME NEW u \in 0 .. head PROVE place'[gen][u] <= pages[gen] + 1
      <4>1. Covers(gen, head, pages[gen]) /\ gen <= ngen
        BY DEF FilesInv
      <4>2. /\ ~(BuildCompacted(t) /\ gen = ngen + 1) /\ head <= head
            /\ pages[gen] \in Nat /\ pages[gen] + 1 \in Nat
            /\ pages[gen] <= pages[gen] + 1
        BY <4>1
      <4>3. \A w \in 0 .. head : place'[gen][w] <= pages[gen] + 1
        BY <4>1, <4>2, CoversStay
      <4> QED BY <4>3
    <3>5. \A u \in 0 .. head + 1 : u \in 0 .. head \/ u = head + 1
      OBVIOUS
    <3> QED BY <3>1, <3>2, <3>3, <3>4, <3>5
  <2>2. CASE MaintenanceSync(t)
    <3>1. Unpublished(t) /\ UNCHANGED <<ver, head, place, pages, gen>>
      BY <2>2 DEF MaintenanceSync, Unpublished, state, local
    <3> QED BY <1>0, <3>1 DEF ThreadInv, Covers
  <2> QED BY <2>1, <2>2, WhoArrives DEF Unpublished
<1>3. pc'[t] = "m_synced" => \A u \in 0 .. head' + 1 : place'[gen'][u] <= synced'[gen']
  <2>1. ASSUME MaintenanceSync(t)
        PROVE  \A u \in 0 .. head' + 1 : place'[gen'][u] <= synced'[gen']
    <3>1. tgen[t] = gen /\ Covers(gen, head + 1, pages[gen])
      BY <2>1, <1>0 DEF MaintenanceSync, CaptureIsCurrent, ThreadInv, Unpublished
    <3>2. synced'[gen] = pages[gen] /\ UNCHANGED <<head, gen, place>>
      BY <2>1, <3>1 DEF MaintenanceSync, state
    <3> QED BY <3>1, <3>2 DEF Covers
  <2> QED BY <2>1, WhoArrives
<1>4. pc'[t] = "m_publ" => \A u \in 0 .. head' : place'[gen'][u] <= synced'[gen']
  <2>1. ASSUME MaintenancePublishes(t)
        PROVE  \A u \in 0 .. head' : place'[gen'][u] <= synced'[gen']
    <3>1. head' = head + 1 /\ Covers(gen, head + 1, synced[gen])
      BY <2>1, <1>0 DEF MaintenancePublishes, ThreadInv, Unpublished
    <3> QED BY <2>1, <3>1 DEF MaintenancePublishes, Covers, file
  <2> QED BY <2>1, WhoArrives
<1>5. Published(t)' => ver'[t] \in 1 .. head'
  <2>1. CASE PublishHead(t)
    BY <2>1, <1>0 DEF PublishHead, ThreadInv, Unpublished, local
  <2>2. CASE MaintenancePublishes(t)
    BY <2>2, <1>0 DEF MaintenancePublishes, ThreadInv, Unpublished, local
  <2>3. CASE MarkWritten(t) \/ ReleaseWriter(t) \/ SealStep(t)
    <3>1. Published(t)
      BY <2>3 DEF MarkWritten, ReleaseWriter, Published, SealStep,
         AlreadyDurable, Follow, Lead, SyncCall, SyncOk, SyncFails, WriteMeta,
         FinishSeal, FailSeal, SealPCs
    <3>2. head' = head /\ ver' = ver
      BY <2>3 DEF MarkWritten, ReleaseWriter, state, local, SealStep,
         AlreadyDurable, Follow, Lead, SyncCall, SyncOk, SyncFails, WriteMeta,
         FinishSeal, FailSeal
    <3> QED BY <1>0, <3>1, <3>2 DEF ThreadInv
  <2>4. pc'[t] = "published" => PublishHead(t)
    BY WhoArrives
  <2>5. pc'[t] = "marked" => MarkWritten(t)
    BY WhoArrives
  <2> QED BY <2>1, <2>2, <2>3, <2>4, <2>5, WhoArrives DEF Published
<1>6. Leading(t)' => target'[t] <= head'
  <2>1. CASE Lead(t)
    BY <2>1 DEF Lead, FilesInv, state
  <2>2. CASE SyncCall(t) \/ SyncOk(t) \/ SyncFails(t) \/ WriteMeta(t)
    <3>1. Leading(t) /\ head' = head /\ target' = target
      BY <2>2 DEF SyncCall, SyncOk, SyncFails, WriteMeta, Leading, state, local
    <3> QED BY <1>0, <3>1 DEF ThreadInv
  <2>3. pc'[t] = "failed" => SyncFails(t) \/ WriteMeta(t)
    BY WhoArrives
  <2>4. pc'[t] \in {"sync", "syncing", "meta", "sealed"} =>
          Lead(t) \/ SyncCall(t) \/ SyncOk(t) \/ WriteMeta(t)
    BY WhoArrives
  <2> QED BY <2>1, <2>2, <2>3, <2>4 DEF Leading
<1>7. pc'[t] = "sync" => \A u \in 0 .. target'[t] : place'[tgen'[t]][u] <= pages'[tgen'[t]]
  <2>1. ASSUME Lead(t)
        PROVE  \A u \in 0 .. target'[t] : place'[tgen'[t]][u] <= pages'[tgen'[t]]
    <3>1. Covers(tgen[t], written[tgen[t]], pages[tgen[t]])
      BY DEF FilesInv
    <3> QED BY <2>1, <3>1 DEF Lead, Covers, file
  <2> QED BY <2>1, WhoArrives
<1>8. pc'[t] = "syncing" =>
        /\ \A u \in 0 .. target'[t] : place'[tgen'[t]][u] <= cover'[t]
        /\ cover'[t] <= pages'[tgen'[t]]
  <2>1. ASSUME SyncCall(t)
        PROVE  /\ \A u \in 0 .. target'[t] : place'[tgen'[t]][u] <= cover'[t]
               /\ cover'[t] <= pages'[tgen'[t]]
    BY <2>1, <1>0 DEF SyncCall, ThreadInv, Covers, file
  <2> QED BY <2>1, WhoArrives
<1>9. pc'[t] \in {"meta", "sealed"} =>
        \A u \in 0 .. target'[t] : place'[tgen'[t]][u] <= synced'[tgen'[t]]
  <2>1. CASE SyncOk(t)
    <3>1. /\ tgen[t] \in Gens /\ target[t] \in Versions
          /\ Covers(tgen[t], target[t], cover[t])
      BY <2>1, <1>0 DEF SyncOk, ThreadInv
    <3>2. /\ cover[t] <= synced'[tgen[t]] /\ cover[t] \in Nat
          /\ synced'[tgen[t]] \in Nat /\ target[t] <= target[t]
      BY <2>1 DEF SyncOk, Max2
    <3>3. Covers(tgen[t], target[t], synced'[tgen[t]])
      BY <3>1, <3>2, CoversMore
    <3> QED BY <2>1, <3>3 DEF SyncOk, Covers, local
  <2>2. CASE WriteMeta(t)
    <3>1. Covers(tgen[t], target[t], synced[tgen[t]])
      BY <2>2, <1>0 DEF WriteMeta, ThreadInv
    <3> QED BY <2>2, <3>1 DEF WriteMeta, Covers, local, file
  <2> QED BY <2>1, <2>2, WhoArrives
<1>10. Replacing(t)' =>
         gen' < ngen' /\ \A u \in 0 .. head' : place'[ngen'][u] <= synced'[ngen']
  <2>1. CASE BuildCompacted(t)
    <3>1. /\ ngen' = ngen + 1 /\ gen' = gen /\ gen <= ngen /\ head' = head
          /\ synced'[ngen + 1] = head
          /\ \A u \in Versions : u <= head => place'[ngen + 1][u] = u
      BY <2>1, BuiltFile
    <3>2. \A u \in 0 .. head : u \in Versions /\ u <= head
      BY PlacesBelow
    <3> QED BY <3>1, <3>2
  <2>2. CASE RenameOk(t)
    BY <2>2, <1>0 DEF RenameOk, ThreadInv, Replacing, Covers, state
  <2> QED BY <2>1, <2>2, WhoArrives DEF Replacing
<1> QED
  BY <1>1, <1>2, <1>3, <1>4, <1>5, <1>6, <1>7, <1>8, <1>9, <1>10
     DEF ThreadInv, Covers

\* When t owns the writer and is not about to swap, the path names the
\* current file.
LEMMA NamedIsCurrent ==
    ASSUME StoreInv, NEW t \in Threads, Holding(t), pc[t] # "v_renamed"
    PROVE  named = gen
  BY Owner DEF StoreInv, FlowInv, ReplacementInv, Holding, VacPCs

\* A version is told after it is published.
LEMMA BelowHead ==
    ASSUME FlowInv, TypeOK', NEW t \in Threads, Step(t)
    PROVE  AckedBelowHead'
<1> USE Numbers DEF FlowInv, TypeOK
<1> SUFFICES ASSUME NEW v \in acked' PROVE v <= head'
  BY DEF AckedBelowHead
<1>1. CASE v \in acked
  BY <1>1, Monotone DEF AckedBelowHead
<1>2. CASE v \notin acked
  <2>1. v = ver[t] /\ Published(t)
    BY <1>2, WhoWrites DEF AlreadyDurable, MaintenanceReturns,
       Published, SealPCs
  <2> QED
    BY <2>1, Monotone DEF ThreadsInv, ThreadInv
<1> QED BY <1>1, <1>2

\* The version a thread is about to be told is hard in the named file.
LEMMA ToldIsHard ==
    ASSUME StoreInv, NEW t \in Threads,
           AlreadyDurable(t) \/ MaintenanceReturns(t)
    PROVE  Covers(named, ver[t], synced[named]) /\ ver[t] \in 1 .. head
<1> USE Numbers DEF StoreInv, FlowInv, TypeOK
<1>1. ver[t] \in 1 .. head
  BY DEF AlreadyDurable, MaintenanceReturns, ThreadsInv, ThreadInv, Published,
     SealPCs
<1>2. CASE AlreadyDurable(t)
  <2>1. Covers(tgen[t], durable[tgen[t]], synced[tgen[t]])
    BY DEF FilesInv
  <2>2. Covers(tgen[t], ver[t], synced[tgen[t]])
    BY <1>2, <2>1, CoversMore DEF AlreadyDurable
  <2> QED BY <1>1, <1>2, <2>2 DEF AlreadyDurable, ReplacementInv, SealPCs
<1>3. CASE MaintenanceReturns(t)
  <2>1. ver[t] = head /\ Covers(gen, head, synced[gen])
    BY <1>3 DEF MaintenanceReturns, CaptureIsCurrent, ThreadsInv, ThreadInv
  <2>2. named = gen
    BY <1>3, NamedIsCurrent DEF MaintenanceReturns, Holding, MaintPCs
  <2> QED BY <1>1, <2>1, <2>2
<1> QED BY <1>2, <1>3

\* The path and the current file part only between rename and swap, and a
\* commit that still seals in a replaced file is hard in its replacement.
LEMMA ReplacementStep ==
    ASSUME StoreInv, TypeOK', "dirsync" \notin Faults,
           NEW t \in Threads, Step(t)
    PROVE  ReplacementInv'
<1> USE Numbers DEF StoreInv, FlowInv, TypeOK
<1>0. ReplacementInv
  OBVIOUS
<1>1. named' # gen' => \E u \in Threads : pc'[u] = "v_renamed"
  <2>1. CASE RenameOk(t)
    BY <2>1 DEF RenameOk
  <2>2. CASE SwapState(t)
    BY <2>2, <1>0 DEF SwapState, ReplacementInv, file
  <2>3. CASE UNCHANGED <<named, gen>>
    <3>1. ASSUME named # gen
          PROVE  \E u \in Threads : pc'[u] = "v_renamed"
      <4>1. PICK u \in Threads : pc[u] = "v_renamed"
        BY <1>0, <3>1 DEF ReplacementInv
      <4>2. CASE u = t
        BY <2>2, <2>3, <3>1, <4>1, <4>2, WhoArrives
           DEF SyncParentDirFails, SwapState
      <4>3. CASE u # t
        BY <4>1, <4>3, OthersStay
      <4> QED BY <4>2, <4>3
    <3> QED BY <2>3, <3>1
  <2> QED BY <2>1, <2>2, <2>3, WhoWrites
<1>2. ASSUME NEW u \in Threads, pc'[u] = "v_renamed"
      PROVE  named' = ngen'
  <2>1. CASE u = t
    BY <1>2, <2>1, WhoArrives DEF RenameOk
  <2>2. CASE u # t
    <3>1. pc[u] = "v_renamed"
      BY <1>2, <2>2, OthersStay
    <3>2. named' = named /\ ngen' = ngen
      BY <2>2, <3>1, Owner, OwnersOnly DEF Holding, VacPCs
    <3> QED BY <1>0, <3>1, <3>2 DEF ReplacementInv
  <2> QED BY <2>1, <2>2
<1>3. named \in Gens /\ named <= ngen /\ synced[named] <= synced'[named]
  BY Monotone DEF FilesInv
<1>4. ASSUME NEW u \in Threads, pc'[u] \in SealPCs, tgen'[u] # named'
      PROVE  \A w \in 0 .. ver'[u] : place'[named'][w] <= synced'[named']
  <2>1. CASE u = t /\ ReleaseWriter(t)
    <3>1. tgen[t] = gen /\ named = gen
      BY <2>1, NamedIsCurrent DEF ReleaseWriter, CaptureIsCurrent, Holding, TxPCs
    <3> QED BY <1>4, <2>1, <3>1 DEF ReleaseWriter, file
  <2>2. CASE ~(u = t /\ ReleaseWriter(t))
    <3>1. pc[u] \in SealPCs /\ tgen'[u] = tgen[u] /\ ver'[u] = ver[u]
      <4>1. CASE u = t
        <5>1. pc[t] \in SealPCs /\ SealStep(t)
          BY <1>4, <2>2, <4>1, WhoArrives
        <5> QED
          BY <4>1, <5>1 DEF SealStep, AlreadyDurable, Follow, Lead, SyncCall,
             SyncOk, SyncFails, WriteMeta, FinishSeal, FailSeal, local
      <4>2. CASE u # t
        BY <1>4, <4>2, OthersStay DEF SealPCs
      <4> QED BY <4>1, <4>2
    <3>2. ver[u] <= head /\ ver[u] \in Versions
      BY <3>1 DEF ThreadsInv, ThreadInv, Published
    <3>3. CASE RenameOk(t)
      <4>1. /\ named' = ngen /\ synced' = synced /\ place' = place
            /\ Covers(ngen, head, synced[ngen])
        BY <3>3 DEF RenameOk, ThreadsInv, ThreadInv, Replacing
      <4>2. Covers(ngen, ver[u], synced[ngen])
        BY <3>2, <4>1, CoversMore
      <4> QED BY <3>1, <4>1, <4>2 DEF Covers
    <3>4. CASE named' = named
      <4>1. Covers(named, ver[u], synced[named])
        BY <1>0, <1>4, <3>1, <3>4 DEF ReplacementInv
      <4>2. ~(BuildCompacted(t) /\ named = ngen + 1)
        BY <1>3
      <4> QED BY <1>3, <3>1, <3>2, <3>4, <4>1, <4>2, CoversStay
    <3> QED BY <3>3, <3>4, WhoWrites
  <2> QED BY <2>1, <2>2
<1>5. \A v \in acked' : v <= head'
  BY BelowHead DEF AckedBelowHead
<1> QED
  BY <1>1, <1>2, <1>4, <1>5 DEF ReplacementInv, Covers

\* No step acknowledges a version that is not hard, or loses one that was.
LEMMA AckStep ==
    ASSUME StoreInv, TypeOK', NEW t \in Threads, Step(t)
    PROVE  AckDurable'
<1> USE Numbers DEF StoreInv, FlowInv, TypeOK
<1>0. /\ named \in Gens /\ synced[named] <= synced'[named]
      /\ ~(BuildCompacted(t) /\ named = ngen + 1)
  <2>1. named <= ngen
    BY DEF FilesInv
  <2> QED BY <2>1, Monotone
<1> SUFFICES ASSUME NEW v \in acked'
             PROVE  \A w \in 0 .. v : place'[named'][w] <= synced'[named']
  BY DEF AckDurable, Covers
<1>1. CASE RenameOk(t)
  <2>1. /\ named' = ngen /\ synced' = synced /\ acked' = acked /\ place' = place
        /\ Covers(ngen, head, synced[ngen])
    BY <1>1 DEF RenameOk, ThreadsInv, ThreadInv, Replacing
  <2>2. v <= head /\ v \in Versions /\ synced[ngen] \in Nat /\ synced[ngen] <= synced[ngen]
    BY <2>1 DEF ReplacementInv
  <2>3. Covers(ngen, v, synced[ngen])
    BY <2>1, <2>2, CoversMore
  <2> QED BY <2>1, <2>3 DEF Covers
<1>2. CASE v \in acked /\ named' = named
  <2>1. v <= head /\ v \in Versions /\ Covers(named, v, synced[named])
    BY <1>2 DEF ReplacementInv, AckDurable
  <2> QED BY <1>0, <1>2, <2>1, CoversStay
<1>3. CASE v \notin acked /\ (AlreadyDurable(t) \/ MaintenanceReturns(t))
  <2>1. v = ver[t] /\ UNCHANGED <<place, synced, named>>
    BY <1>3 DEF AlreadyDurable, MaintenanceReturns, file
  <2> QED BY <1>3, <2>1, ToldIsHard DEF Covers
<1> QED BY <1>1, <1>2, <1>3, WhoWrites DEF AlreadyDurable, MaintenanceReturns, file

----------------------------------------------------------------------------
\* At most one thread owns the writer, the flag of the gate is exact, and a
\* writer works on the head and the file that are current.
WriterInv == TypeOK /\ SingleWriter /\ ReleasedFlag /\ CaptureIsCurrent

\* The part of the invariant that exclusion and capture need is inductive.
LEMMA WriterInductive == Spec => []WriterInv
<1>1. Init => WriterInv
  BY TypeInit DEF Init, WriterInv, SingleWriter, Holding, ReleasedFlag,
     CaptureIsCurrent, TxPCs, MaintPCs, VacPCs, SealPCs
<1>2. WriterInv /\ [Next]_vars => WriterInv'
  <2>1. WriterInv /\ Next => WriterInv'
    BY TypeStep, GateExcludes, CaptureStays DEF Next, WriterInv
  <2>2. WriterInv /\ UNCHANGED vars => WriterInv'
    BY DEF WriterInv, TypeOK, SingleWriter, Holding, ReleasedFlag,
       CaptureIsCurrent, vars
  <2> QED BY <2>1, <2>2
<1> QED
  BY <1>1, <1>2, PTL DEF Spec

\* One owner of the writer at a time, in every behaviour: commit and Drop
\* between them release the gate once per acquisition.
THEOREM OneWriter == Spec => []SingleWriter
  BY WriterInductive, PTL DEF WriterInv

\* What WriteTx captured at begin is what it publishes over: no commit and no
\* vacuum comes in between.
THEOREM CapturesStayCurrent == Spec => []CaptureIsCurrent
  BY WriterInductive, PTL DEF WriterInv

\* Everything starts at version 0 with an idle gate.
LEMMA FlowInit == Init => FlowInv
<1>1. Init => TypeOK /\ SingleWriter /\ CaptureIsCurrent /\ ReleasedFlag
  BY TypeInit DEF Init, SingleWriter, Holding, ReleasedFlag,
     CaptureIsCurrent, TxPCs, MaintPCs, VacPCs, SealPCs
<1>2. Init => FilesInv
  <2>1. 0 \in Gens /\ 0 \in Versions
    BY MaxVersionAssumption, MaxGenAssumption DEF Gens, Versions
  <2>2. InSequence(0)[0] = 0 /\ \A u \in 0 .. 0 : u = 0
    BY <2>1 DEF InSequence
  <2> QED BY <2>1, <2>2 DEF Init, FilesInv, Covers
<1>3. Init => ThreadsInv
  BY DEF Init, ThreadsInv, ThreadInv, Unpublished, Published, Replacing,
         Leading, SealPCs
<1>4. Init => AckedBelowHead
  BY DEF Init, AckedBelowHead
<1> QED BY <1>1, <1>2, <1>3, <1>4 DEF FlowInv

\* Every step of every thread keeps files, threads and head in step.
LEMMA FlowStep ==
    ASSUME FlowInv, NEW t \in Threads, Step(t)
    PROVE  FlowInv'
<1>1. TypeOK'
  BY TypeStep DEF FlowInv
<1>2. SingleWriter' /\ ReleasedFlag' /\ CaptureIsCurrent'
  BY GateExcludes, CaptureStays DEF FlowInv
<1>3. FilesInv'
  <2>1. gen' <= ngen' /\ named' <= ngen'
    <3> USE Numbers DEF FlowInv, TypeOK, FilesInv
    <3>1. CASE SwapState(t)     BY <3>1 DEF SwapState, file
    <3>2. CASE BuildCompacted(t) BY <3>2 DEF BuildCompacted, state
    <3>3. CASE RenameOk(t)      BY <3>3 DEF RenameOk, state
    <3>4. CASE UNCHANGED <<gen, ngen, named>> BY <3>4
    <3> QED BY <3>1, <3>2, <3>3, <3>4, WhoWrites
  <2> QED
    BY <1>1, <2>1, WatermarksBehind, HeadIsWritten DEF FilesInv, Covers
<1>4. ThreadsInv'
  BY <1>1, OthersThreadInv, OwnThreadInv DEF ThreadsInv
<1>5. AckedBelowHead'
  BY <1>1, BelowHead
<1> QED BY <1>1, <1>2, <1>3, <1>4, <1>5 DEF FlowInv

\* Files, threads and head are in step in every behaviour.
LEMMA FlowInductive == Spec => []FlowInv
<1>1. FlowInv /\ [Next]_vars => FlowInv'
  <2>1. FlowInv /\ Next => FlowInv'
    BY FlowStep DEF Next
  <2>2. FlowInv /\ UNCHANGED vars => FlowInv'
    BY DEF FlowInv, TypeOK, SingleWriter, Holding, ReleasedFlag,
       CaptureIsCurrent, FilesInv, ThreadsInv, ThreadInv, AckedBelowHead,
       Covers, Leading,
       Unpublished, Published, Replacing, vars
  <2> QED BY <2>1, <2>2
<1> QED
  BY <1>1, FlowInit, PTL DEF Spec

\* The inductive invariant behind the durability of acknowledged commits.
LEMMA StoreInductive ==
    ASSUME "dirsync" \notin Faults
    PROVE  Spec => []StoreInv
<1>1. Init => StoreInv
  <2>1. Init => ReplacementInv /\ AckDurable
    BY DEF Init, ReplacementInv, AckDurable, SealPCs
  <2> QED BY <2>1, FlowInit DEF StoreInv
<1>2. StoreInv /\ [Next]_vars => StoreInv'
  <2>1. ASSUME StoreInv, NEW t \in Threads, Step(t)
        PROVE  StoreInv'
    <3>1. FlowInv'
      BY <2>1, FlowStep DEF StoreInv
    <3>2. ReplacementInv' /\ AckDurable'
      BY <2>1, <3>1, ReplacementStep, AckStep DEF FlowInv
    <3> QED BY <3>1, <3>2 DEF StoreInv
  <2>2. StoreInv /\ UNCHANGED vars => StoreInv'
    BY DEF StoreInv, FlowInv, TypeOK, SingleWriter, Holding, ReleasedFlag,
       CaptureIsCurrent, FilesInv, ThreadsInv, ThreadInv, AckedBelowHead,
       Covers, Leading,
       ReplacementInv, AckDurable, Unpublished, Published, Replacing, vars
  <2> QED BY <2>1, <2>2 DEF Next
<1> QED
  BY <1>1, <1>2, PTL DEF Spec

\* Provided sync_parent_dir does not fail, a version told to a caller is on
\* stable storage in the file the path names, at every later moment.
THEOREM AckedIsDurable ==
    ASSUME "dirsync" \notin Faults
    PROVE  Spec => []AckDurable
  BY StoreInductive, PTL DEF StoreInv

\* How files, watermarks and threads stand to each other, for every number of
\* threads, versions and vacuums.
THEOREM DurabilityHolds ==
    ASSUME "dirsync" \notin Faults
    PROVE  Spec => []DurabilityInv
<1>1. StoreInv => DurabilityInv
  BY DEF StoreInv, FlowInv, DurabilityInv
<1> QED BY <1>1, StoreInductive, PTL

\* A step moves the head by at most one version, also the swap of a vacuum.
LEMMA HeadStep ==
    ASSUME FlowInv, NEW t \in Threads, Step(t)
    PROVE  head' \in {head, head + 1}
<1> USE DEF FlowInv, ThreadsInv, ThreadInv, Unpublished
<1>1. CASE PublishHead(t)          BY <1>1 DEF PublishHead
<1>2. CASE MaintenancePublishes(t) BY <1>2 DEF MaintenancePublishes
<1>3. CASE SwapState(t)            BY <1>3 DEF SwapState, CaptureIsCurrent
<1> QED BY <1>1, <1>2, <1>3, WhoWrites

\* The head of the store moves one version at a time and never back.
THEOREM HeadMovesByOne == Spec => HeadAdvancesByOne
<1>1. FlowInv /\ [Next]_vars => [head' \in {head, head + 1}]_head
  BY HeadStep DEF Next, vars
<1> QED
  BY <1>1, FlowInductive, PTL DEF Spec, HeadAdvancesByOne

----------------------------------------------------------------------------
\* A version number has one owner: the next number is taken by the owner of
\* the writer, over a head that everything published or told is not above.
LEMMA OwnerStep ==
    ASSUME FlowInv, OneOwnerPerVersion, NEW t \in Threads, Step(t)
    PROVE  OneOwnerPerVersion'
<1> USE Numbers DEF FlowInv, TypeOK
<1>1. ASSUME NEW u \in Threads, InFlight(u)
      PROVE  ver[u] \in 1 .. head \/ Unpublished(u)
  BY <1>1 DEF InFlight, ThreadsInv, ThreadInv, Published, Unpublished, SealPCs
<1>2. CASE WriteCommitPages(t) \/ MaintenanceWrites(t)
  <2>1. Holding(t) /\ ~InFlight(t) /\ InFlight(t)' /\ base[t] = head
    BY <1>2 DEF WriteCommitPages, MaintenanceWrites, WriteRecord, Holding, TxPCs,
       MaintPCs, InFlight, SealPCs, CaptureIsCurrent
  <2>2. ver'[t] = head + 1 /\ acked' = acked
    BY <1>2, RecordEffect
  <2>3. ASSUME NEW u \in Threads \ {t}, InFlight(u)'
        PROVE  InFlight(u) /\ ver'[u] = ver[u] /\ ver[u] \in 1 .. head
    <3>1. InFlight(u) /\ ver'[u] = ver[u]
      BY <2>3, <1>2 DEF WriteCommitPages, MaintenanceWrites, WriteRecord, InFlight
    <3>2. ~Unpublished(u)
      BY <2>1, Owner DEF Unpublished, Holding, TxPCs, MaintPCs
    <3> QED BY <1>1, <3>1, <3>2
  <2>4. head + 1 \notin acked
    BY DEF AckedBelowHead
  <2> QED BY <2>2, <2>3, <2>4 DEF OneOwnerPerVersion
<1>3. CASE ~(WriteCommitPages(t) \/ MaintenanceWrites(t))
  <2>1. ASSUME NEW u \in Threads, InFlight(u)'
        PROVE  InFlight(u) /\ ver'[u] = ver[u]
    <3>1. CASE u # t
      BY <2>1, <3>1, OthersStay DEF InFlight, SealPCs
    <3>2. CASE u = t
      <4>1. \/ PublishHead(t) \/ MarkWritten(t) \/ ReleaseWriter(t)
            \/ MaintenanceSync(t) \/ MaintenancePublishes(t)
            \/ pc[t] \in SealPCs /\ SealStep(t)
        BY <1>3, <2>1, <3>2, WhoArrives DEF InFlight
      <4> QED
        BY <3>2, <4>1 DEF PublishHead, MarkWritten, ReleaseWriter,
           MaintenanceSync, MaintenancePublishes, InFlight, SealPCs, SealStep,
           AlreadyDurable, Follow, Lead, SyncCall, SyncOk, SyncFails,
           WriteMeta, FinishSeal, FailSeal, local
    <3> QED BY <3>1, <3>2
  <2>2. CASE acked' = acked
    BY <2>1, <2>2 DEF OneOwnerPerVersion
  <2>3. CASE AlreadyDurable(t) \/ MaintenanceReturns(t)
    <3>1. acked' = acked \cup {ver[t]} /\ InFlight(t)
      BY <2>3 DEF AlreadyDurable, MaintenanceReturns, InFlight, SealPCs
    <3>2. ~InFlight(t)'
      BY <2>3 DEF AlreadyDurable, MaintenanceReturns, GateRelease, InFlight,
         SealPCs, Parked
    <3> QED BY <2>1, <3>1, <3>2 DEF OneOwnerPerVersion
  <2> QED BY <2>2, <2>3, WhoWrites
<1> QED BY <1>2, <1>3

\* No two commits in flight carry one version number, and none carries a
\* number that some caller was told about, whatever fails.
THEOREM VersionsHaveOneOwner == Spec => []OneOwnerPerVersion
<1>1. Init => OneOwnerPerVersion
  BY DEF Init, OneOwnerPerVersion, InFlight, SealPCs
<1>2. FlowInv /\ OneOwnerPerVersion /\ [Next]_vars => OneOwnerPerVersion'
  <2>1. FlowInv /\ OneOwnerPerVersion /\ Next => OneOwnerPerVersion'
    BY OwnerStep DEF Next
  <2>2. OneOwnerPerVersion /\ UNCHANGED vars => OneOwnerPerVersion'
    BY DEF OneOwnerPerVersion, InFlight, vars
  <2> QED BY <2>1, <2>2
<1> QED
  BY <1>1, <1>2, FlowInductive, PTL DEF Spec

----------------------------------------------------------------------------
(***************************************************************************)
(* Nobody sleeps without someone who will wake him.                        *)
(***************************************************************************)
\* What a step can do to the gate: take it, give it back, or leave flag and
\* waiters as they are.
LEMMA GateSteps ==
    ASSUME TypeOK, NEW t \in Threads, Step(t)
    PROVE  \/ held' = TRUE
           \/ GateRelease(t, "idle") \/ GateRelease(t, "seal")
           \/ /\ held' = held
              /\ \A u \in Threads :
                    /\ pc[u] = "parked" <=> pc'[u] = "parked"
                    /\ pc[u] = "woken" => pc'[u] = "woken"
<1> USE DEF TypeOK, gate, local
<1>1. CASE GateStep(t)
  BY <1>1 DEF GateStep, BeginOn, BeginOnBlocking, WakeUp, AcquireTimeout
<1>2. CASE TxStep(t)
  BY <1>2 DEF TxStep, BuildWriteTx, BuildWriteTxFails, Rollback,
        WriteCommitPages, WriteRecord, PublishHead, MarkWritten, ReleaseWriter, DropTx
<1>3. CASE SealStep(t)
  BY <1>3 DEF SealStep, AlreadyDurable, Follow, Lead, SyncCall, SyncOk,
        SyncFails, WriteMeta, FinishSeal, FailSeal, NotifyAll
<1>4. CASE MaintenanceStep(t)
  BY <1>4 DEF MaintenanceStep, BeginMaintenance, CaptureState,
        MaintenanceStops, MaintenanceWrites, WriteRecord, MaintenanceSync,
        MaintenanceFails, MaintenancePublishes, MaintenanceReturns
<1>5. CASE VacuumStep(t)
  BY <1>5 DEF VacuumStep, BuildCompacted, RenameOk, RenameFails,
        SyncParentDirFails, SwapState, VacuumReturns
<1> QED
  BY <1>1, <1>2, <1>3, <1>4, <1>5 DEF Step

\* The gate: whoever clears the flag notifies a waiter, and whoever takes the
\* place of a notified one sets it.
LEMMA GateWakes ==
    ASSUME TypeOK, NoLostWakeup, NEW t \in Threads, Step(t)
    PROVE  NoLostWakeup'
<1> USE DEF TypeOK
<1>1. ASSUME NEW next \in {"idle", "seal"}, GateRelease(t, next)
      PROVE  NoLostWakeup'
  <2>1. CASE Parked \ {t} = {} /\ pc' = [pc EXCEPT ![t] = next]
    BY <2>1 DEF NoLostWakeup, Parked
  <2>2. ASSUME NEW w \in Parked \ {t},
               pc' = [pc EXCEPT ![t] = next, ![w] = "woken"]
        PROVE  NoLostWakeup'
    BY <2>2 DEF NoLostWakeup, Parked
  <2> QED BY <1>1, <2>1, <2>2 DEF GateRelease
<1>2. CASE /\ held' = held
           /\ \A u \in Threads :
                 /\ pc[u] = "parked" <=> pc'[u] = "parked"
                 /\ pc[u] = "woken" => pc'[u] = "woken"
  BY <1>2 DEF NoLostWakeup, Parked
<1>3. CASE held' = TRUE
  BY <1>3 DEF NoLostWakeup
<1> QED BY <1>1, <1>2, <1>3, GateSteps

\* in_progress of a generation is set while one of its threads leads, and one
\* thread leads at a time.
LeadersInv ==
    /\ \A t, u \in Threads :
          Leading(t) /\ Leading(u) /\ tgen[t] = tgen[u] => t = u
    /\ \A t \in Threads : Leading(t) => inProgress[tgen[t]]
    /\ \A g \in Gens :
          inProgress[g] => \E t \in Threads : Leading(t) /\ tgen[t] = g
    /\ \A t \in Threads : pc[t] = "follow" => inProgress[tgen[t]]

\* Followers sleep on a flag that only their leader clears, and he wakes them.
LEMMA LeadersStep ==
    ASSUME FlowInv, LeadersInv, NEW t \in Threads, Step(t)
    PROVE  LeadersInv'
<1> USE DEF FlowInv, TypeOK, Leading, LeadersInv
<1>1. CASE Lead(t)
  BY <1>1 DEF Lead
<1>2. CASE Follow(t)
  BY <1>2 DEF Follow, group, local
<1>3. CASE FinishSeal(t) \/ FailSeal(t)
  <2>1. /\ Leading(t) /\ inProgress' = [inProgress EXCEPT ![tgen[t]] = FALSE]
        /\ pc'[t] \in {"seal", "drop"} /\ tgen' = tgen
        /\ \A u \in Threads \ {t} :
              pc'[u] = IF pc[u] = "follow" /\ tgen[u] = tgen[t]
                       THEN "seal" ELSE pc[u]
    BY <1>3 DEF FinishSeal, FailSeal, NotifyAll, local
  <2> HIDE DEF TypeOK
  <2>2. inProgress \in [Gens -> BOOLEAN] /\ tgen \in [Threads -> Gens]
    BY DEF TypeOK
  <2> QED BY <2>1, <2>2
<1>4. CASE SwapState(t)
  <2>1. \A u \in Threads : tgen[u] # ngen
    BY <1>4, Numbers DEF SwapState, ThreadsInv, ThreadInv, Replacing
  <2>2. /\ inProgress' = [inProgress EXCEPT ![ngen] = FALSE]
        /\ pc' = [pc EXCEPT ![t] = "v_swapped"] /\ tgen' = tgen
        /\ pc[t] = "v_renamed"
    BY <1>4 DEF SwapState, local
  <2> QED BY <2>1, <2>2
<1>5. CASE SyncCall(t) \/ SyncOk(t) \/ SyncFails(t) \/ WriteMeta(t)
  BY <1>5 DEF SyncCall, SyncOk, SyncFails, WriteMeta, group, local
<1>6. CASE /\ inProgress' = inProgress
           /\ ~Leading(t) /\ ~Leading(t)' /\ pc'[t] # "follow"
  BY <1>6, OthersStay
<1>7. \/ Lead(t) \/ Follow(t) \/ FinishSeal(t) \/ FailSeal(t) \/ SwapState(t)
      \/ SyncCall(t) \/ SyncOk(t) \/ SyncFails(t) \/ WriteMeta(t)
      \/ /\ inProgress' = inProgress
         /\ ~Leading(t) /\ ~Leading(t)' /\ pc'[t] # "follow"
  <2> USE DEF group
  <2>1. CASE GateStep(t)
    BY <2>1 DEF GateStep, BeginOn, BeginOnBlocking, WakeUp, AcquireTimeout
  <2>2. CASE TxStep(t)
    BY <2>2 DEF TxStep, BuildWriteTx, BuildWriteTxFails, Rollback,
          WriteCommitPages, WriteRecord, PublishHead, MarkWritten, ReleaseWriter, DropTx,
          GateRelease, Parked
  <2>3. CASE SealStep(t)
    BY <2>3 DEF SealStep, AlreadyDurable
  <2>4. CASE MaintenanceStep(t)
    BY <2>4 DEF MaintenanceStep, BeginMaintenance, CaptureState,
          MaintenanceStops, MaintenanceWrites, WriteRecord, MaintenanceSync,
          MaintenanceFails, MaintenancePublishes, MaintenanceReturns, GateRelease, Parked
  <2>5. CASE VacuumStep(t)
    BY <2>5 DEF VacuumStep, BuildCompacted, RenameOk, RenameFails,
          SyncParentDirFails, VacuumReturns, GateRelease, Parked
  <2> QED BY <2>1, <2>2, <2>3, <2>4, <2>5 DEF Step
<1> QED BY <1>1, <1>2, <1>3, <1>4, <1>5, <1>6, <1>7

\* Whoever sleeps, at the gate or behind a leader, has someone left who will
\* wake him, also after time-outs and seals that fail.
THEOREM NobodyIsStranded == Spec => []NoStrandedThread
<1> DEFINE WakeInv == NoLostWakeup /\ LeadersInv
<1>1. Init => WakeInv
  BY DEF Init, NoLostWakeup, Parked, LeadersInv, Leading
<1>2. FlowInv /\ WakeInv /\ [Next]_vars => WakeInv'
  <2>1. FlowInv /\ WakeInv /\ Next => WakeInv'
    BY GateWakes, LeadersStep DEF Next, FlowInv
  <2>2. WakeInv /\ UNCHANGED vars => WakeInv'
    BY DEF NoLostWakeup, Parked, LeadersInv, Leading, vars
  <2> QED BY <2>1, <2>2
<1>3. FlowInv /\ WakeInv => NoStrandedThread
  BY DEF FlowInv, TypeOK, NoStrandedThread, FollowersHaveALeader, LeadersInv
<1> QED
  BY <1>1, <1>2, <1>3, FlowInductive, PTL DEF Spec

----------------------------------------------------------------------------
(***************************************************************************)
(* Refinement: each step is a step of DurableLog or leaves it alone.       *)
(***************************************************************************)
\* An empty file is an empty log.
LEMMA RefinementInit == Init => Promise!DInit
  BY DEF Init, Promise!DInit, Hardened

\* The hardened versions are a prefix of those published, in every state.
LEMMA HardenedIsPrefix ==
    TypeOK => Hardened \subseteq 1 .. head /\ Promise!IsPrefix(Hardened)
<1> SUFFICES ASSUME TypeOK
             PROVE  Hardened \subseteq 1 .. head /\ Promise!IsPrefix(Hardened)
  OBVIOUS
<1> USE Numbers DEF TypeOK
<1>1. ASSUME NEW v \in Hardened, NEW w \in 1 .. v PROVE w \in Hardened
  <2>1. v \in 1 .. head /\ Covers(named, v, synced[named])
    BY DEF Hardened
  <2>2. v \in Versions /\ w \in Versions /\ w <= v /\ w \in 1 .. head
    BY <2>1, MaxVersionAssumption DEF Versions
  <2>3. Covers(named, w, synced[named])
    BY <2>1, <2>2, CoversMore
  <2> QED BY <2>2, <2>3 DEF Hardened
<1> QED BY <1>1 DEF Hardened, Promise!IsPrefix

\* No step loses a hardened version, a rename to a compacted file included.
LEMMA HardenedGrows ==
    ASSUME StoreInv, TypeOK', NEW t \in Threads, Step(t)
    PROVE  Hardened \subseteq Hardened'
<1> USE Numbers DEF StoreInv, FlowInv, TypeOK
<1> SUFFICES ASSUME NEW v \in Hardened
             PROVE  /\ v \in 1 .. head'
                    /\ \A w \in 0 .. v : place'[named'][w] <= synced'[named']
  BY DEF Hardened, Covers
<1>1. v \in 1 .. head /\ v \in Versions /\ Covers(named, v, synced[named])
  BY MaxVersionAssumption DEF Hardened, Versions
<1>2. v \in 1 .. head'
  BY <1>1, Monotone
<1>3. CASE RenameOk(t)
  <2>1. /\ named' = ngen /\ synced' = synced /\ place' = place
        /\ Covers(ngen, head, synced[ngen])
    BY <1>3 DEF RenameOk, ThreadsInv, ThreadInv, Replacing
  <2>2. Covers(ngen, v, synced[ngen])
    BY <1>1, <2>1, CoversMore
  <2> QED BY <1>2, <2>1, <2>2 DEF Covers
<1>4. CASE named' = named
  <2>1. named <= ngen
    BY DEF FilesInv
  <2>2. ~(BuildCompacted(t) /\ named = ngen + 1)
    BY <2>1
  <2>3. synced[named] <= synced'[named]
    BY <2>2, Monotone
  <2> QED BY <1>1, <1>2, <1>4, <2>2, <2>3, CoversStay
<1> QED BY <1>3, <1>4, WhoWrites

\* Publishing a head appends, an fdatasync hardens, returning tells; a rename
\* exchanges the named file for one that has hardened the whole log; the rest
\* hardens nothing more.
LEMMA RefinementStep ==
    ASSUME StoreInv, TypeOK', NEW t \in Threads, Step(t)
    PROVE  Promise!DNext
<1> USE DEF StoreInv, FlowInv
<1>1. Promise!Hardens
  <2>1. (Hardened \subseteq 1 .. head /\ Promise!IsPrefix(Hardened))'
    BY HardenedIsPrefix, PTL
  <2> QED BY <2>1, HardenedGrows DEF Promise!Hardens
<1>2. CASE acked' = acked
  BY <1>1, <1>2, HeadStep DEF Promise!DNext, Promise!Append, Promise!Harden
<1>3. CASE AlreadyDurable(t) \/ MaintenanceReturns(t)
  <2>1. /\ acked' = acked \cup {ver[t]}
        /\ UNCHANGED <<head, place, synced, named>>
    BY <1>3 DEF AlreadyDurable, MaintenanceReturns, state, file
  <2>2. Hardened' = Hardened
    BY <2>1 DEF Hardened, Covers
  <2>3. ver[t] \in Hardened
    BY <1>3, ToldIsHard DEF Hardened
  <2> QED BY <2>1, <2>2, <2>3 DEF Promise!DNext, Promise!Acknowledge
<1> QED BY <1>2, <1>3, WhoWrites

\* The store, with its threads, group commit and vacuum, keeps the promise
\* DurableLog makes to the callers of commit.
THEOREM StoreImplementsDurableLog ==
    ASSUME "dirsync" \notin Faults
    PROVE  Spec => ImplementsDurableLog
<1>1. StoreInv /\ [Next]_vars => [Promise!DNext]_Promise!dvars
  <2>1. StoreInv /\ Next => Promise!DNext
    BY RefinementStep, TypeStep DEF Next, StoreInv, FlowInv
  <2>2. UNCHANGED vars => UNCHANGED Promise!dvars
    BY DEF vars, Promise!dvars, Hardened, Covers
  <2> QED BY <2>1, <2>2
<1> QED
  BY <1>1, RefinementInit, StoreInductive, PTL
     DEF Spec, ImplementsDurableLog, Promise!DSpec
============================================================================
