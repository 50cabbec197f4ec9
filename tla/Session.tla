------------------------------ MODULE Session -------------------------------
(***************************************************************************)
(* Connections over one store: src/src/api.rs with the transaction and       *)
(* savepoint operations of src/src/tx.rs it calls.  A connection runs        *)
(* statements in autocommit, or inside BEGIN ... COMMIT with savepoints, or   *)
(* through a Transaction object; it can be pinned to a version; its queries   *)
(* stream from a snapshot or are buffered from the open transaction.          *)
(*                                                                          *)
(* One branch is modelled (History.tla has the others), and the writer gate   *)
(* is taken or free (GroupCommit.tla has its waiting, its timeout and the     *)
(* durability of a commit).                                                  *)
(***************************************************************************)
EXTENDS Rows

CONSTANTS
    Conns,               \* connections
    Statements,          \* the write statements they send
    Loads,               \* the batches of bulk_insert: [on, rows]
    Names,               \* names of savepoints
    Windows,             \* <<offset, limit>> of the streamed queries
    MaxVersions,         \* bound: versions of the store
    MaxSteps             \* bound: statements in one transaction

ASSUME StatementsAssumption ==
    /\ Statements \subseteq Writes
    /\ \A l \in Loads : l.on \in Tables /\ IsBatch(l.rows)
    /\ Windows \subseteq Nat \X Nat

VARIABLES
    versions,  \* the committed trees, the last one is the head
    work,      \* the write transaction that holds the gate, or None
    tainted,   \* some version has what a failed statement of BEGIN wrote
    pin,       \* [Conns -> the version a connection is pinned to, 0: none]
    rows       \* [Conns -> the Rows iterator it is reading, or None]

vars == <<versions, work, tainted, pin, rows>>

None == [none |-> TRUE]
HeadTree == versions[Len(versions)]

Init ==
    /\ versions = <<EmptyTree>>
    /\ work = None
    /\ tainted = FALSE
    /\ pin = [c \in Conns |-> 0]
    /\ rows = [c \in Conns |-> None]

\* The transaction that a statement of this connection runs in.
InTransaction(c) == work # None /\ work.conn = c /\ work.kind = "begin"

Writable(c) == pin[c] = 0

-----------------------------------------------------------------------------
(* Publishing.                                                               *)

\* A commit that owns no page publishes nothing; pages left by a failed
\* statement are enough for a new version.
Publishes(tx) == tx.pages # "clean"

Publish(tx) ==
    versions' = IF Publishes(tx) THEN Append(versions, WriteCounters(tx)) ELSE versions

\* Autocommit: the transaction is begun, used and committed, or dropped when
\* the statement fails, while the gate is held.
CommitOrDrop(r) == IF r.ok THEN Publish(r.tx) ELSE UNCHANGED versions

AutocommitWith(c, r) ==
    /\ Writable(c) /\ work = None
    /\ Len(versions) < MaxVersions
    /\ CommitOrDrop(r)
    /\ UNCHANGED <<work, tainted, pin, rows>>

Autocommit(c, s) == AutocommitWith(c, Executed(s)[Begun(HeadTree)])

BulkInsert(c, l) == AutocommitWith(c, InsertRows(l.on, l.rows)[Begun(HeadTree)])

-----------------------------------------------------------------------------
(* Explicit transactions.                                                    *)

\* SQL BEGIN, or Connection::begin, which hands out a Transaction object.
Begin(c, kind) ==
    /\ Writable(c) /\ work = None
    /\ Len(versions) < MaxVersions
    /\ work' = [conn |-> c, kind |-> kind, tx |-> Begun(HeadTree), saves |-> <<>>,
                failed |-> FALSE, steps |-> 0]
    /\ UNCHANGED <<versions, tainted, pin, rows>>

Owned(c) == work # None /\ work.conn = c /\ work.steps < MaxSteps

\* A statement inside the transaction; nothing undoes what a failed one wrote.
Execute(c, s) ==
    /\ Owned(c)
    /\ LET r == Executed(s)[work.tx] IN
       work' = [work EXCEPT !.tx = r.tx, !.failed = @ \/ ~r.ok, !.steps = @ + 1]
    /\ UNCHANGED <<versions, tainted, pin, rows>>

Commit(c) ==
    /\ work # None /\ work.conn = c
    /\ Publish(work.tx)
    /\ tainted' = (tainted \/ work.failed)
    /\ work' = None
    /\ UNCHANGED <<pin, rows>>

\* Dropping the WriteTx is the rollback.
Rollback(c) ==
    /\ work # None /\ work.conn = c
    /\ work' = None
    /\ UNCHANGED <<versions, tainted, pin, rows>>

\* Only the connection handles savepoints: a Transaction object refuses them.
SetSavepoint(c, name) ==
    /\ Owned(c) /\ InTransaction(c)
    /\ work' = [work EXCEPT !.saves = Append(@, [name |-> name, tx |-> work.tx,
                                                 failed |-> work.failed]),
                            !.steps = @ + 1]
    /\ UNCHANGED <<versions, tainted, pin, rows>>

\* The innermost savepoint of that name.
Position(name) ==
    LET hit == { i \in 1 .. Len(work.saves) : work.saves[i].name = name }
    IN  IF hit = {} THEN 0 ELSE CHOOSE i \in hit : \A j \in hit : j <= i

\* Root, dirty pages and rowid cache go back; the savepoint stays.
RollbackTo(c, name) ==
    /\ InTransaction(c) /\ Position(name) # 0
    /\ work' = [work EXCEPT !.tx = work.saves[Position(name)].tx,
                            !.failed = work.saves[Position(name)].failed,
                            !.saves = SubSeq(@, 1, Position(name))]
    /\ UNCHANGED <<versions, tainted, pin, rows>>

Release(c, name) ==
    /\ InTransaction(c) /\ Position(name) # 0
    /\ work' = [work EXCEPT !.saves = SubSeq(@, 1, Position(name) - 1)]
    /\ UNCHANGED <<versions, tainted, pin, rows>>

-----------------------------------------------------------------------------
(* Reading.                                                                  *)

\* Connection::snapshot: a read-only connection fixed to a version.
Pin(c, v) ==
    /\ Writable(c) /\ rows[c] = None
    /\ work # None => work.conn # c
    /\ pin' = [pin EXCEPT ![c] = v]
    /\ UNCHANGED <<versions, work, tainted, rows>>

Window(ids, w) == SubSeq(ids, w[1] + 1, IF w[1] + w[2] < Len(ids) THEN w[1] + w[2] ELSE Len(ids))

\* A streamed SELECT keeps its snapshot and a place in the scan; OFFSET and
\* LIMIT are counted down as rows go by.
Streaming(v, t, w) ==
    [kind |-> "stream", version |-> v, on |-> t, at |-> 0, window |-> w,
     skip |-> w[1], remaining |-> w[2], got |-> <<>>]

\* Inside BEGIN the result is computed at once.
Buffered(t, w) ==
    [kind |-> "buffered", on |-> t, window |-> w, got |-> <<>>,
     left |-> Window(Ascending(RowidsOf(work.tx.tree, t)), w)]

\* The version a SELECT reads: the pinned one, the one of AS OF, or the head.
Source(c, asOf) == IF pin[c] # 0 THEN pin[c] ELSE IF asOf # 0 THEN asOf ELSE Len(versions)

Query(c, t, w, asOf) ==
    /\ rows[c] = None
    /\ pin[c] # 0 => asOf = 0
    /\ rows' = [rows EXCEPT ![c] = IF asOf = 0 /\ InTransaction(c)
                                     THEN Buffered(t, w)
                                     ELSE Streaming(Source(c, asOf), t, w)]
    /\ UNCHANGED <<versions, work, tainted, pin>>

\* The rows of the scan that are still ahead.
Ahead(s) == Ascending({ n \in RowidsOf(versions[s.version], s.on) : n > s.at })

\* Variant of Step: a skipped row also uses up the LIMIT.
StepSpendsSkipped(s) ==
    LET ids == Ahead(s)
        k == s.skip + 1
    IN  IF s.remaining < k \/ Len(ids) < k THEN None
        ELSE [s EXCEPT !.at = ids[k], !.skip = 0, !.remaining = @ - k,
                       !.got = Append(@, ids[k])]

\* One call of next(): rows the OFFSET skips are passed over in the same call.
\* The iterator is dropped once it has returned None.
Step(s) ==
    LET ids == Ahead(s)
        k == s.skip + 1
    IN  IF s.remaining = 0 \/ Len(ids) < k THEN None
        ELSE [s EXCEPT !.at = ids[k], !.skip = 0, !.remaining = @ - 1,
                       !.got = Append(@, ids[k])]

\* A buffered result hands out what it has left.
Pop(r) == IF r.left = <<>> THEN None
          ELSE [r EXCEPT !.left = Tail(@), !.got = Append(@, Head(r.left))]

Fetch(c) ==
    /\ rows[c] # None
    /\ rows' = [rows EXCEPT ![c] = IF rows[c].kind = "stream" THEN Step(rows[c]) ELSE Pop(rows[c])]
    /\ UNCHANGED <<versions, work, tainted, pin>>

-----------------------------------------------------------------------------

Next ==
    \E c \in Conns :
        \/ \E s \in Statements : Autocommit(c, s) \/ Execute(c, s)
        \/ \E l \in Loads : BulkInsert(c, l)
        \/ \E kind \in {"begin", "object"} : Begin(c, kind)
        \/ Commit(c)
        \/ Rollback(c)
        \/ \E n \in Names : SetSavepoint(c, n) \/ RollbackTo(c, n) \/ Release(c, n)
        \/ \E v \in 1 .. Len(versions) : Pin(c, v)
        \/ \E t \in Tables, w \in Windows, v \in 0 .. Len(versions) : Query(c, t, w, v)
        \/ Fetch(c)

Spec == Init /\ [][Next]_vars

-----------------------------------------------------------------------------
(* Properties.                                                               *)

\* The trees a reader can reach: the head, and the open transaction as its own
\* connection sees it.  Nothing undoes a statement that fails inside BEGIN, so
\* what it leaves is not judged until ROLLBACK, or ROLLBACK TO, takes it away.
Trees ==
    (IF tainted THEN {} ELSE {HeadTree})
    \union (IF tainted \/ work = None \/ work.failed THEN {}
                    ELSE {[work.tx.tree EXCEPT !.counter = WriteCounters(work.tx).counter]})

\* Versions and the open transaction have rows of the schema and counters of the
\* width of a rowid, and every savepoint belongs to an open BEGIN.
TypeOK ==
    /\ HeadTree \in AllTrees
    /\ work # None => /\ work.tx \in Txs
                      /\ work.saves # <<>> => work.kind = "begin"
    /\ \A c \in Conns : pin[c] \in 0 .. Len(versions)

\* The entries of every secondary index are exactly those of the rows: after
\* inserts, updates, upserts, cascades, triggers, bulk loads and rollbacks to a
\* savepoint (catalog.rs: insert_index_entries, delete_index_entries).
IndexesMatchRows ==
    \A tree \in Trees :
        tree.entries = UNION { UNION { EntriesOf(t, n, tree.rows[t][n]) :
                                           n \in RowidsOf(tree, t) } : t \in Tables }

\* No two rows share a non-NULL value of a UNIQUE column, whichever path wrote
\* them: row by row, in a batch, or by a cascade (value_held_by_other).
UniqueHolds ==
    \A tree \in Trees, t \in Tables : \A i \in 1 .. Len(Indexes[t]) :
        Indexes[t][i].unique =>
            \A m, n \in RowidsOf(tree, t) :
                LET c == Indexes[t][i].col IN
                (tree.rows[t][m][c] = tree.rows[t][n][c] /\ tree.rows[t][m][c] # Null)
                    => m = n

\* Every non-NULL reference of a child has its parent row, after deletes and
\* updates of parents with RESTRICT, CASCADE and SET NULL, self-references
\* included (fk_handle_parent_delete, fk_handle_parent_update).
NoDanglingChild ==
    \A tree \in Trees : \A i \in 1 .. Len(ForeignKeys) :
        LET fk == ForeignKeys[i] IN
        \A n \in RowidsOf(tree, fk.child) :
            LET v == tree.rows[fk.child][n][fk.col] IN
            v # Null => \E m \in RowidsOf(tree, fk.parent) :
                            RefOf(fk, m, tree.rows[fk.parent][m]) = v

\* The claim resolve_rowid relies on when it skips the duplicate probe: every
\* rowid is below the counter, unless the counter has saturated.
RowidsBelowCounter ==
    \A tree \in Trees, t \in Tables :
        \/ tree.counter[t] = MaxRowid
        \/ \A n \in RowidsOf(tree, t) : n < tree.counter[t]

\* No committed row fails a CHECK of its table (check_row in the three DML
\* paths; the columns of the CHECKs are not written by cascades here).
ChecksHold ==
    \A tree \in Trees, t \in Tables : \A n \in RowidsOf(tree, t) :
        CheckRow(t, tree.rows[t][n])

\* What statements, their cascades and their triggers leave satisfies every
\* constraint of the schema at once.  A bulk load skips the foreign keys and the
\* CHECKs, and a cascade the CHECKs, as the code does: what is claimed of those
\* two paths is UNIQUE, and the batches and cascades of an instance are ones
\* that respect the rest.
ConstraintsHold == TypeOK /\ UniqueHolds /\ NoDanglingChild /\ ChecksHold

\* A streamed query that has come to its end has returned exactly the rows of
\* its window in the snapshot it started from.  That later commits do not show
\* in it follows from versions that are only appended; what a mistake in the
\* cursor would break is the counting of OFFSET and LIMIT, row by row.
StreamExact ==
    [][\A c \in Conns :
          (rows[c] # None /\ rows[c].kind = "stream" /\ rows'[c] = None) =>
              rows[c].got = Window(Ascending(RowidsOf(versions[rows[c].version], rows[c].on)),
                                   rows[c].window)]_vars
=============================================================================
