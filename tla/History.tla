------------------------------ MODULE History ------------------------------
(***************************************************************************)
(* The versions and branches of a Store (src/src/tx.rs): the transactions  *)
(* of a branch, create_branch, drop_branch, the 3-way merge, AS OF reads,  *)
(* diff and changes, and the history a vacuum keeps.                       *)
(*                                                                         *)
(* GroupCommit shows that one operation at a time owns the writer and that *)
(* the head it captured stays current, so an operation is one action here  *)
(* and only a transaction lasts.                                           *)
(*                                                                         *)
(* A data tree is a map from keys to values, 0 where the key is absent:    *)
(* key r >= 1 is the row with rowid r of one table, key 0 the counter of   *)
(* that table (next_rowid).  The catalog entries of the table are left     *)
(* out; they make the tree of any version but genesis non-empty.  page     *)
(* names the root page of a tree by the version that wrote it (0 is        *)
(* NO_ROOT), because commit compares roots by page and not by content.     *)
(***************************************************************************)
EXTENDS Integers, FiniteSets, FiniteSetsExt

CONSTANTS
    Branches,       \* branch names
    Main,           \* MAIN_BRANCH
    MaxVersion,     \* bound: versions published
    MaxRow,         \* bound: rowids
    MaxValue,       \* row values are 1 .. MaxValue
    Times,          \* what now_ms may return; the clock may go back
    MaxVacuums      \* bound: vacuums

ASSUME MainAssumption == Main \in Branches
ASSUME BoundsAssumption ==
    /\ MaxVersion \in Nat /\ MaxRow \in Nat /\ MaxValue \in Nat
    /\ MaxVacuums \in Nat
ASSUME TimesAssumption == Times \subseteq Nat

VARIABLES
    version,    \* Head.version, the global one
    head,       \* Head.data_root: [page, tree]
    hist,       \* META_HIST: version -> [page, tree, ts, parent] or NoEntry
    refs,       \* META_REF: branch -> version, 0 when the branch has no ref
    tx,         \* the open WriteTx, or NoTx
    vacuums,    \* vacuums so far
    origin,     \* history variable: version -> the parent it was published with
    before,     \* history variable: what each key the open transaction wrote
                \* held when it was first written
    changed     \* history variable: version -> the keys its operation changed

vars == <<version, head, hist, refs, tx, vacuums, origin, before, changed>>

Versions == 1 .. MaxVersion
Rows == 1 .. MaxRow
Counter == 0
Keys == 0 .. MaxRow
Absent == 0
Trees == [Keys -> 0 .. (IF MaxValue > MaxRow THEN MaxValue ELSE MaxRow + 1)]

NotWritten == -1
NoImages == [k \in Keys |-> NotWritten]

EmptyTree == [k \in Keys |-> Absent]
Genesis == [page |-> 0, tree |-> EmptyTree]

\* The root of a tree written by version v; an emptied tree has NO_ROOT.
Root(tree, v) == [page |-> IF tree = EmptyTree THEN 0 ELSE v, tree |-> tree]

NoEntry == [page |-> 0, tree |-> EmptyTree, ts |-> 0, parent |-> -1]
NoTx == [branch |-> Main, parent |-> -1, page |-> 0, tree |-> EmptyTree,
         next |-> 0, dirty |-> FALSE]

----------------------------------------------------------------------------
(***************************************************************************)
(* Reading the meta tree.                                                  *)
(***************************************************************************)
Retained(v) == v \in Versions /\ hist[v] # NoEntry

\* read_data_root succeeds, and its result (version 0 is genesis).
HasRoot(v) == v = 0 \/ Retained(v)
DataRoot(v) ==
    IF v = 0 THEN Genesis ELSE [page |-> hist[v].page, tree |-> hist[v].tree]

\* resolve_branch_head: main exists even before it has a ref.
Exists(b) == b = Main \/ refs[b] # 0
BranchRoot(b) == IF refs[b] = version THEN head ELSE DataRoot(refs[b])
View(b) == BranchRoot(b).tree

\* The versions met walking parent_version from v down to genesis; a missing
\* entry (VersionNotFound) shows as -1.
Walk(v) ==
    LET w[u \in 0 .. MaxVersion] ==
            IF u = 0 THEN {0}
            ELSE IF ~Retained(u) THEN {u, -1}
            ELSE {u} \cup w[hist[u].parent]
    IN w[v]

\* is_ancestor.
IsAncestor(from, target) == target \in Walk(from)

\* merge_base: the first version of the walk from vi that the walk from vf met.
\* It ends at genesis, or at a missing entry (an error of merge; no walk meets
\* one, see WalksReachGenesis).
MergeBase(vf, vi) ==
    LET b[u \in 0 .. MaxVersion] ==
            IF u \in Walk(vf) \/ ~Retained(u) THEN u ELSE b[hist[u].parent]
    IN b[vi]

\* btree::diff: the keys that differ, with the state `to` gives them
\* (target_of), and its application to a tree.
Diff(from, to) == [k \in {q \in Keys : from[q] # to[q]} |-> to[k]]
Apply(tree, changes) ==
    [k \in Keys |-> IF k \in DOMAIN changes THEN changes[k] ELSE tree[k]]

----------------------------------------------------------------------------
(***************************************************************************)
(* AS OF reads: NotFound, or the version read.                             *)
(***************************************************************************)
NotFound == -1

\* snapshot_at_version, on the global history.
SnapshotAtVersion(v) ==
    IF v = version \/ v = 0 THEN v
    ELSE IF v > version \/ ~Retained(v) THEN NotFound
    ELSE v

\* snapshot_at_timestamp: the greatest version with ts <= t, else genesis.
SnapshotAtTimestamp(t) ==
    Max({0} \cup {v \in Versions : Retained(v) /\ hist[v].ts <= t})

\* Variant of VersionOn: AS OF on a branch reads any version of the store.
VersionOnAnyBranch(b, v) == IF v > refs[b] THEN NotFound ELSE v

\* snapshot_at_on, bounded to the ancestry of the branch.
VersionOn(b, v) ==
    IF v = refs[b] THEN v
    ELSE IF v > refs[b] \/ ~IsAncestor(refs[b], v) THEN NotFound
    ELSE v

TimestampOn(b, t) ==
    LET w[u \in 0 .. MaxVersion] ==
            IF u = 0 \/ hist[u].ts <= t THEN u ELSE w[hist[u].parent]
    IN w[refs[b]]

\* What a snapshot of version v reads.
TreeAt(v) == IF v = version THEN head.tree ELSE DataRoot(v).tree

\* Variant of ChangedKeys: the version before v is taken for its parent.
ChangedKeysBefore(v) == DOMAIN Diff(DataRoot(v - 1).tree, DataRoot(v).tree)

\* Store::changes: the delta of v against its recorded parent.
ChangedKeys(v) == DOMAIN Diff(DataRoot(hist[v].parent).tree, DataRoot(v).tree)

----------------------------------------------------------------------------
(***************************************************************************)
(* Publishing: write_meta_indices for a commit of branch b with the given  *)
(* parent version, and the new head.                                       *)
(***************************************************************************)
PublishVersion(b, root, ts, parent, newRefs) ==
    LET v == version + 1
    IN /\ version < MaxVersion
       /\ version' = v
       /\ head' = root
       /\ hist' = [hist EXCEPT ![v] = [page |-> root.page, tree |-> root.tree,
                                       ts |-> ts, parent |-> parent]]
       /\ refs' = [newRefs EXCEPT ![b] = v]
       /\ origin' = [origin EXCEPT ![v] = parent]

\* The operation that publishes changed the keys it wrote, less those it left
\* with the value it had found (log).
Changes(log) ==
    /\ changed' = [changed EXCEPT ![version + 1] =
                      {k \in Keys : log[k] \notin {NotWritten, head'.tree[k]}}]
    /\ before' = NoImages

(***************************************************************************)
(* Transactions.                                                           *)
(***************************************************************************)
Idle == tx = NoTx

\* build_writetx on an existing branch.
BeginOn(b) ==
    /\ Idle
    /\ Exists(b)
    /\ tx' = [branch |-> b, parent |-> refs[b], page |-> BranchRoot(b).page,
              tree |-> View(b), next |-> 0, dirty |-> FALSE]
    /\ before' = NoImages
    /\ UNCHANGED <<version, head, hist, refs, vacuums, origin, changed>>

\* A key of the transaction is written; only its first value is logged.
Writes(k) ==
    before' = [before EXCEPT ![k] = IF @ = NotWritten THEN tx.tree[k] ELSE @]

\* The counter insert_row works with: rowid_cache, else read_counter.
NextRowid ==
    IF tx.next # 0 THEN tx.next ELSE Max({1, tx.tree[Counter]})

\* resolve_rowid: a rowid the counter gives is not looked up, an explicit one
\* only when it lies below the counter.
ResolveRowid(explicit) ==
    LET rowid == IF explicit = 0 THEN NextRowid ELSE explicit
    IN [rowid |-> rowid,
        next |-> Max({NextRowid, rowid + 1}),
        duplicate |-> /\ explicit # 0
                      /\ explicit < NextRowid
                      /\ tx.tree[explicit] # Absent]

\* insert_row; the counter is kept in rowid_cache until the commit.
InsertRow(explicit, value) ==
    /\ ~Idle
    /\ LET r == ResolveRowid(explicit)
       IN /\ r.rowid \in Rows
          /\ ~r.duplicate
          /\ tx' = [tx EXCEPT !.tree[r.rowid] = value, !.dirty = TRUE,
                              !.next = r.next]
          /\ Writes(r.rowid)
    /\ UNCHANGED <<version, head, hist, refs, vacuums, origin, changed>>

UpdateRow(rowid, value) ==
    /\ ~Idle
    /\ tx.tree[rowid] # Absent
    /\ tx' = [tx EXCEPT !.tree[rowid] = value, !.dirty = TRUE]
    /\ Writes(rowid)
    /\ UNCHANGED <<version, head, hist, refs, vacuums, origin, changed>>

DeleteRow(rowid) ==
    /\ ~Idle
    /\ tx.tree[rowid] # Absent
    /\ tx' = [tx EXCEPT !.tree[rowid] = Absent, !.dirty = TRUE]
    /\ Writes(rowid)
    /\ UNCHANGED <<version, head, hist, refs, vacuums, origin, changed>>

\* WriteTx::commit returns the head of the branch and writes nothing.
NothingToCommit == ~tx.dirty /\ tx.page = head.page

\* write_counter of the cached counter, if an insert used it.
FlushedTree ==
    IF tx.next = 0 THEN tx.tree ELSE [tx.tree EXCEPT ![Counter] = tx.next]

\* Dirty pages get new ids; an untouched tree keeps its root.
Commit(ts) ==
    /\ ~Idle
    /\ ~NothingToCommit
    /\ PublishVersion(tx.branch,
                      IF tx.dirty THEN Root(FlushedTree, version + 1)
                      ELSE [page |-> tx.page, tree |-> tx.tree],
                      ts, tx.parent, refs)
    /\ Changes(IF tx.next = 0 THEN before
               ELSE [before EXCEPT ![Counter] = tx.tree[Counter]])
    /\ tx' = NoTx
    /\ UNCHANGED vacuums

\* Dropping the transaction, and a commit that returns early.
EndTx ==
    /\ ~Idle
    /\ tx' = NoTx
    /\ before' = NoImages
    /\ UNCHANGED <<version, head, hist, refs, vacuums, origin, changed>>

----------------------------------------------------------------------------
(***************************************************************************)
(* Branches.                                                               *)
(***************************************************************************)
\* The versions snapshot_at resolves an AsOf to, on the global history.
AsOfTargets ==
    {SnapshotAtVersion(v) : v \in 0 .. MaxVersion}
        \cup {SnapshotAtTimestamp(t) : t \in Times}

\* create_branch_locked: ref[name] at a new version that shares the root of
\* the version `from`; main itself can be created until it has a ref.
CreateBranch(b, from, ts) ==
    /\ Idle
    /\ refs[b] = 0
    /\ from \in AsOfTargets \ {NotFound}
    /\ HasRoot(from)
    /\ PublishVersion(b, DataRoot(from), ts, from, refs)
    /\ Changes(NoImages)
    /\ UNCHANGED <<tx, vacuums>>

\* Variant of DropBranch: the commit on main carries the data of the global head.
DropBranchOnHead(b, ts) ==
    /\ Idle
    /\ b # Main
    /\ refs[b] # 0
    /\ PublishVersion(Main, head, ts, refs[Main], [refs EXCEPT ![b] = 0])
    /\ Changes(NoImages)
    /\ UNCHANGED <<tx, vacuums>>

\* drop_branch_locked: a commit on main, with the data of main.
DropBranch(b, ts) ==
    /\ Idle
    /\ b # Main
    /\ refs[b] # 0
    /\ PublishVersion(Main, BranchRoot(Main), ts, refs[Main],
                      [refs EXCEPT ![b] = 0])
    /\ Changes(NoImages)
    /\ UNCHANGED <<tx, vacuums>>

\* merge_locked: the changes of each side since the merge base.
MergeBranches(f, i) == refs[f] # 0 /\ refs[i] # 0
BaseTree(f, i) == DataRoot(MergeBase(refs[f], refs[i])).tree
FromChanges(f, i) == Diff(BaseTree(f, i), DataRoot(refs[f]).tree)
IntoChanges(f, i) == Diff(BaseTree(f, i), DataRoot(refs[i]).tree)

\* Both sides set the counter: the greater one wins, without a conflict.
Reconciles(k, from, into) ==
    k = Counter /\ from[k] # Absent /\ into[k] # Absent

\* Variant of Conflicts: `into` wins wherever both sides changed a key.
ConflictsIgnored(f, i) == {}

\* Keys both sides took to different states.
Conflicts(f, i) ==
    LET from == FromChanges(f, i)
        into == IntoChanges(f, i)
    IN {k \in DOMAIN from \cap DOMAIN into :
           ~Reconciles(k, from, into) /\ from[k] # into[k]}

\* Variant of ToApply: the counter of `from` wins.
ToApplyFrom(f, i) ==
    LET from == FromChanges(f, i)
        into == IntoChanges(f, i)
    IN [k \in {q \in DOMAIN from :
                  q \notin DOMAIN into \/ Reconciles(q, from, into)} |-> from[k]]

\* The changes to apply on `into`.
ToApply(f, i) ==
    LET from == FromChanges(f, i)
        into == IntoChanges(f, i)
    IN [k \in {q \in DOMAIN from :
                  q \notin DOMAIN into \/ Reconciles(q, from, into)} |->
           IF k \in DOMAIN into THEN Max({from[k], into[k]}) ELSE from[k]]

Merge(f, i, ts) ==
    /\ Idle
    /\ MergeBranches(f, i)
    /\ Conflicts(f, i) = {}
    /\ DOMAIN ToApply(f, i) # {}
    /\ PublishVersion(i,
                      Root(Apply(DataRoot(refs[i]).tree, ToApply(f, i)),
                           version + 1),
                      ts, refs[i], refs)
    /\ Changes([k \in Keys |-> IF k \in DOMAIN ToApply(f, i)
                               THEN DataRoot(refs[i]).tree[k] ELSE NotWritten])
    /\ UNCHANGED <<tx, vacuums>>

----------------------------------------------------------------------------
(***************************************************************************)
(* vacuum.                                                                 *)
(***************************************************************************)
OnlyMain == \A b \in Branches \ {Main} : refs[b] = 0

\* vacuum_frontier of KeepAll, KeepLast(n) and KeepSince(t); the last one
\* reads the entries from version 1 on and fails on the first it misses.
KeepAllFrontier == 1
KeepLastFrontier(n) == Max({version - Max({n - 1, 0}), 1})
KeepSinceFrontier(t) ==
    LET stops == {v \in 1 .. version : ~Retained(v) \/ hist[v].ts >= t}
    IN IF stops = {} THEN version ELSE Min(stops)

\* build_compacted finds every entry it reads.
CanCompact(k) == \A v \in k .. version : Retained(v)

\* Variant of Replay: the deletions of a diff are not replayed.
ReplayInserts(k) ==
    LET r[v \in k .. version] ==
            IF v = k THEN Root(hist[k].tree, k)
            ELSE LET changes == Diff(hist[v - 1].tree, hist[v].tree)
                     kept == {q \in DOMAIN changes : changes[q] # Absent}
                 IN Root(Apply(r[v - 1].tree, [q \in kept |-> changes[q]]), v)
    IN r

\* build_compacted: the tree of k materialised, the rest replayed as diffs.
Replay(k) ==
    LET r[v \in k .. version] ==
            IF v = k THEN Root(hist[k].tree, k)
            ELSE LET changes == Diff(hist[v - 1].tree, hist[v].tree)
                 IN IF DOMAIN changes = {} THEN r[v - 1]
                    ELSE Root(Apply(r[v - 1].tree, changes), v)
    IN r

\* Variant of Vacuum: the checkpoint keeps the parent it had.
VacuumKeepsParent(k) ==
    /\ Idle
    /\ version > 0
    /\ OnlyMain
    /\ CanCompact(k)
    /\ vacuums < MaxVacuums
    /\ vacuums' = vacuums + 1
    /\ head' = Replay(k)[version]
    /\ hist' = [v \in Versions |->
                  IF v \notin k .. version THEN NoEntry
                  ELSE [page |-> Replay(k)[v].page, tree |-> Replay(k)[v].tree,
                        ts |-> hist[v].ts, parent |-> v - 1]]
    /\ refs' = [b \in Branches |-> IF b = Main THEN version ELSE 0]
    /\ UNCHANGED <<version, tx, origin, before, changed>>

Vacuum(k) ==
    /\ Idle
    /\ version > 0
    /\ OnlyMain
    /\ CanCompact(k)
    /\ vacuums < MaxVacuums
    /\ vacuums' = vacuums + 1
    /\ head' = Replay(k)[version]
    /\ hist' = [v \in Versions |->
                  IF v \notin k .. version THEN NoEntry
                  ELSE [page |-> Replay(k)[v].page, tree |-> Replay(k)[v].tree,
                        ts |-> hist[v].ts,
                        parent |-> IF v = k THEN 0 ELSE v - 1]]
    /\ refs' = [b \in Branches |-> IF b = Main THEN version ELSE 0]
    /\ UNCHANGED <<version, tx, origin, before, changed>>

----------------------------------------------------------------------------
Init ==
    /\ version = 0
    /\ head = Genesis
    /\ hist = [v \in Versions |-> NoEntry]
    /\ refs = [b \in Branches |-> 0]
    /\ tx = NoTx
    /\ vacuums = 0
    /\ origin = [v \in Versions |-> 0]
    /\ before = NoImages
    /\ changed = [v \in Versions |-> {}]

TxNext ==
    \/ \E b \in Branches : BeginOn(b)
    \/ \E explicit \in 0 .. MaxRow, value \in 1 .. MaxValue :
          InsertRow(explicit, value)
    \/ \E rowid \in Rows, value \in 1 .. MaxValue : UpdateRow(rowid, value)
    \/ \E rowid \in Rows : DeleteRow(rowid)
    \/ \E ts \in Times : Commit(ts)
    \/ EndTx

BranchNext ==
    \E ts \in Times :
        \/ \E b \in Branches, from \in 0 .. MaxVersion : CreateBranch(b, from, ts)
        \/ \E b \in Branches : DropBranch(b, ts)
        \/ \E f, i \in Branches : Merge(f, i, ts)

VacuumNext ==
    \/ Vacuum(KeepAllFrontier)
    \/ \E n \in Versions : Vacuum(KeepLastFrontier(n))
    \/ \E t \in Times : Vacuum(KeepSinceFrontier(t))

Next == TxNext \/ BranchNext \/ VacuumNext

Spec == Init /\ [][Next]_vars

----------------------------------------------------------------------------
(***************************************************************************)
(* Properties.                                                             *)
(***************************************************************************)
RootType(r) == r.page \in 0 .. MaxVersion /\ r.tree \in Trees

\* Type invariant.
TypeOK ==
    /\ version \in 0 .. MaxVersion
    /\ RootType(head)
    /\ \A v \in Versions :
          hist[v] # NoEntry =>
             RootType(hist[v]) /\ hist[v].ts \in Times /\ hist[v].parent \in 0 .. v - 1
    /\ refs \in [Branches -> 0 .. MaxVersion]
    /\ tx # NoTx => tx.branch \in Branches /\ RootType(tx)
    /\ vacuums \in 0 .. MaxVacuums

\* The counter of a table stays above every rowid, in every version, on every
\* branch and after every merge: resolve_rowid hands out the counter without
\* looking whether the row exists, so a lower one would overwrite a row.  A
\* vacuum makes the versions of dropped branches ancestors of main, so a branch
\* made from one of them may bring an older counter into a later merge; this is
\* said of a store without one.
RowidsBelowCounter ==
    vacuums = 0 =>
        /\ \A v \in Versions : Retained(v) =>
              \A r \in Rows : hist[v].tree[r] # Absent => r < hist[v].tree[Counter]
        /\ ~Idle => \A r \in Rows : tx.tree[r] # Absent => r < NextRowid

\* Every ref and every recorded parent can be followed down to genesis: no
\* walk of merge_base, is_ancestor or AS OF meets a compacted version.
WalksReachGenesis ==
    \A b \in Branches : -1 \notin Walk(refs[b])

\* When main is the only branch its head is the global head, so a vacuum,
\* which rebuilds main from the global head, does not change what main reads.
MainIsTheTip == OnlyMain /\ version > 0 => refs[Main] = version

\* Timelines are whole: they can be walked to their beginning, and when main is
\* alone it ends at the global head, whatever was dropped or compacted before.
TimelinesWhole == TypeOK /\ WalksReachGenesis /\ MainIsTheTip

\* The operations that may change what branch b reads; main can be created
\* while it still reads genesis.
MovesBranch(b) ==
    \E ts \in Times :
        \/ tx.branch = b /\ Commit(ts)
        \/ \E f \in Branches : Merge(f, b, ts)
        \/ \E from \in 0 .. version : CreateBranch(b, from, ts)

\* A branch is isolated: what it reads changes by a commit on it or a merge
\* into it and never by an operation on another branch, by dropping one or by
\* a vacuum.
BranchesAreIsolated ==
    [][\A b \in Branches :
          Exists(b) /\ Exists(b)' /\ View(b)' # View(b) => MovesBranch(b)]_vars

\* The versions a branch descends from, as they were published.
Lineage(v) ==
    LET w[u \in 0 .. MaxVersion] ==
            IF u = 0 THEN {0} ELSE {u} \cup w[origin[u]]
    IN w[v]

\* A merge keeps what each side did since their last common ancestor: a row
\* changed by one side only has the state of that side, a row changed by both
\* was taken to the same state, and the others are untouched.  A vacuum makes
\* the versions of dropped branches ancestors of main, and what a merge then
\* takes for the common ancestor need not be one.
MergeKeepsBothSides ==
    [][\A f, i \in Branches, ts \in Times :
          Merge(f, i, ts) /\ vacuums = 0 =>
             LET base == TreeAt(Max(Lineage(refs[f]) \cap Lineage(refs[i])))
                 from == View(f)
                 into == View(i)
             IN \A r \in Rows :
                   /\ from[r] # base[r] => View(i)'[r] = from[r]
                   /\ into[r] # base[r] => View(i)'[r] = into[r]
                   /\ from[r] = base[r] /\ into[r] = base[r]
                         => View(i)'[r] = base[r]]_vars

\* What AS OF VERSION reads on the global history refines TimeTravel: a
\* version keeps its content, also through the replay of a vacuum, until it is
\* compacted, and compaction takes a prefix.
Status(v) ==
    CASE v > version -> "unborn"
      [] v <= version /\ SnapshotAtVersion(v) = NotFound -> "gone"
      [] OTHER -> "reads"

Promise == INSTANCE TimeTravel
    WITH Contents <- Trees, Nothing <- EmptyTree, Horizon <- MaxVersion,
         now <- version,
         past <- [v \in Versions |->
                     [status |-> Status(v),
                      content |-> IF Status(v) = "reads" THEN TreeAt(v)
                                  ELSE EmptyTree]]

ImplementsTimeTravel == Promise!TTSpec

\* AS OF on a branch that was never compacted reads a version of the timeline
\* of that branch, and the newest such version for a timestamp.
AsOfStaysOnBranch ==
    vacuums = 0 =>
        \A b \in Branches : Exists(b) =>
            /\ \A v \in 0 .. version :
                  VersionOn(b, v) # NotFound <=> v \in Lineage(refs[b])
            /\ \A t \in Times :
                  TimestampOn(b, t) =
                     Max({0} \cup {v \in Lineage(refs[b]) \ {0} : hist[v].ts <= t})

\* "El delta de un commit es contra su padre registrado" (tx.rs:655): as long as
\* v is recorded under the parent it was published with, changes(v) names exactly
\* the keys whose value its operation left different from the one it found when
\* it first wrote them, on branches, after merges, beside commits on other
\* branches and through the replay of vacuums.  `changed` comes from a log of
\* the writes, changes(v) from two trees that are read back later.
ChangesAreProvenance ==
    \A v \in Versions :
        Retained(v) /\ hist[v].parent = origin[v] => ChangedKeys(v) = changed[v]
============================================================================
