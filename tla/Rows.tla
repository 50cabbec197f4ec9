-------------------------------- MODULE Rows --------------------------------
(***************************************************************************)
(* What one SQL write does to the tree of its write transaction:            *)
(* src/src/catalog.rs (rows, index entries, rowid counters), the relational *)
(* layer of WriteTx in src/src/tx.rs (foreign keys, bulk load) and the DML   *)
(* part of src/src/exec.rs (INSERT / UPDATE / DELETE, UPSERT, CHECK,         *)
(* triggers, INSTEAD OF).                                                    *)
(*                                                                          *)
(* The tree is abstracted to the keys the layers above tell apart: rows by   *)
(* table and rowid, index entries <<table, column, value, rowid>>, and one   *)
(* counter per table.  Values of every column are members of one small set;  *)
(* the types of the columns and the encodings are left out.                  *)
(*                                                                          *)
(* A step is a function from the transaction to a result [ok, tx]; what the  *)
(* code does in a loop or one thing after the other are steps InTurn.  A     *)
(* failed result carries the writes made before the failure: pages of the    *)
(* tree that the transaction already owns are changed in place, so they stay  *)
(* (see Settle).                                                             *)
(***************************************************************************)
EXTENDS Ranking

CONSTANTS
    Tables,          \* names of the tables
    Cols,            \* the columns of every table, the rowid alias left out
    Values,          \* what a column can hold
    Null,            \* SQL NULL
    MaxRowid,        \* i64::MAX
    Indexes,         \* [Tables -> Seq([col, unique])], in the order of the schema
    ForeignKeys,     \* Seq([child, col, parent, pcol, onDelete, onUpdate]), list_tables order
    NotNull,         \* [Tables -> SUBSET Cols]
    Default,         \* [Tables -> [Cols -> value]]
    Forbidden,       \* [Tables -> set of <<col, value>>]: rows its CHECKs reject
    Views,           \* [view -> the table it shows]
    Triggers,        \* Seq([on, event, timing, each, body])
    Body(_, _, _),   \* Body(trigger, OLD, NEW): its statements, OLD/NEW substituted
    Writes,          \* the statements that are sent and those of the bodies
    MaxTriggerDepth, \* the bound of enter_trigger
    MaxCascade       \* bound: how deep the cascades of one write go

Rowids == 1 .. MaxRowid
Records == [Cols -> Values]
\* Values for some of the columns.
Assignments == UNION {[S -> Values] : S \in SUBSET Cols}
\* No row; also OLD or NEW where there is none.
NoRow == [c \in {"rowid"} |-> Null]

AllTrees == [rows : [Tables -> [Rowids -> Records \union {NoRow}]],
             entries : SUBSET (Tables \X Cols \X Values \X Rowids),
             counter : [Tables -> Rowids]]

\* The tree; the rowid_cache of the transaction (0: not cached); whether the
\* root page is one of its own ("dirty"), or only pages that no root reaches
\* are ("leaked").
Txs == [tree : AllTrees, cache : [Tables -> 0 .. MaxRowid],
        pages : {"clean", "dirty", "leaked"}]
Results == [ok : BOOLEAN, tx : Txs]

ASSUME SchemaAssumption ==
    /\ MaxRowid \in Nat \ {0} /\ MaxTriggerDepth \in Nat /\ MaxCascade \in Nat
    /\ Null \in Values /\ "rowid" \notin Cols
    /\ Indexes \in [Tables -> Seq([col : Cols, unique : BOOLEAN])]
    /\ ForeignKeys \in Seq([child : Tables, col : Cols, parent : Tables,
                            pcol : Cols \union {"rowid"},
                            onDelete : {"restrict", "cascade", "setnull"},
                            onUpdate : {"restrict", "cascade", "setnull"}])
    /\ Default \in [Tables -> Records]
    /\ \A v \in DOMAIN Views : Views[v] \in Tables
    /\ \A t \in Tables : NotNull[t] \subseteq Cols
    /\ Len(Triggers) \in Nat

\* What a statement can say:
\*   [op |-> "insert", on, rows, conflict]   rows: Seq([id, vals, update, when])
\*   [op |-> "update", on, where, set]
\*   [op |-> "delete", on, where]
\* where and when are sets of pairs <<column, value>>, all of which the row must
\* hold (the column "rowid" is the alias); conflict is "fail", "nothing" or
\* "update", and a row of an INSERT carries the assignments and the WHERE of its
\* DO UPDATE.
IsBatch(rows) ==
    /\ Len(rows) \in Nat
    /\ \A i \in 1 .. Len(rows) :
          /\ rows[i].id \in Rowids \union {Null}
          /\ rows[i].vals \in Assignments /\ rows[i].update \in Assignments

IsWrite(s) ==
    \/ s.op = "insert" /\ IsBatch(s.rows)
    \/ s.op = "update" /\ s.set \in Assignments
    \/ s.op = "delete"

\* OLD and NEW that a trigger can be fired with.
Firings(g) ==
    IF g.each = "statement" /\ g.timing # "instead" THEN {<<NoRow, NoRow>>}
    ELSE (IF g.event = "insert" THEN {NoRow} ELSE Records)
         \X (IF g.event = "delete" THEN {NoRow} ELSE Records)

ASSUME WritesAssumption ==
    /\ \A s \in Writes : IsWrite(s)
    /\ \A i \in 1 .. Len(Triggers) : \A f \in Firings(Triggers[i]) :
          Body(Triggers[i], f[1], f[2]) \in Seq(Writes)

-----------------------------------------------------------------------------
(* The transaction.                                                          *)

EmptyTree == [rows |-> [t \in Tables |-> [n \in Rowids |-> NoRow]], entries |-> {},
              counter |-> [t \in Tables |-> 1]]

Begun(tree) == [tree |-> tree, cache |-> [t \in Tables |-> 0], pages |-> "clean"]

Good(tx) == [ok |-> TRUE, tx |-> tx]
Bad(tx)  == [ok |-> FALSE, tx |-> tx]

Skip   == [tx \in Txs |-> Good(tx)]
Refuse == [tx \in Txs |-> Bad(tx)]

\* The steps one after the other, up to the first that fails.
InTurn(steps) ==
    [tx \in Txs |->
        LET done[k \in 0 .. Len(steps)] ==
                IF k = 0 THEN Good(tx)
                ELSE LET r == done[k - 1] IN IF r.ok THEN steps[k][r.tx] ELSE r
        IN  done[Len(steps)]]

RowOf(tx, t, n) == tx.tree.rows[t][n]
HasRow(tx, t, n) == n \in Rowids /\ RowOf(tx, t, n) # NoRow
RowidsOf(tree, t) == { n \in Rowids : tree.rows[t][n] # NoRow }

\* Set of rowids, or of places in the schema, as the sequence a scan visits.
Ascending(S) == SortedNumbers(S)

PutKey(tx, t, n, row) == [tx EXCEPT !.tree.rows[t][n] = row, !.pages = "dirty"]

DropKey(tx, t, n) == [tx EXCEPT !.tree.rows[t][n] = NoRow, !.pages = "dirty"]

WithEntries(tx, add, del) ==
    [tx EXCEPT !.tree.entries = (@ \ del) \union add, !.pages = "dirty"]

\* WriteTx takes the root an operation returns only when it succeeds.  Pages
\* that were dirty before have been changed in place, so the writes of a
\* failed operation stay when the root was among them; otherwise they hang
\* from a root nobody keeps.
Settle(before, r) ==
    IF r.ok \/ before.pages = "dirty" THEN r
    ELSE Bad([before EXCEPT !.pages = IF r.tx.pages = "dirty" THEN "leaked" ELSE @])

-----------------------------------------------------------------------------
(* catalog.rs: index entries, rows and counters.                             *)

EntryOf(t, i, n, row) == <<t, Indexes[t][i].col, row[Indexes[t][i].col], n>>
EntriesOf(t, n, row) == { EntryOf(t, i, n, row) : i \in 1 .. Len(Indexes[t]) }

\* Another row of the table already holds the value in that index.
ValueHeldByOther(tx, t, c, v, n) ==
    \E e \in tx.tree.entries : e[1] = t /\ e[2] = c /\ e[3] = v /\ e[4] # n

\* Index by index, the entries of the rows; stops at the first index whose
\* UNIQUE one of them would break.
AddEntries(tx, t, new, clashing) ==
    LET before == { i \in 1 .. Len(Indexes[t]) : \A j \in clashing : i < j }
    IN  [ok |-> clashing = {},
         tx |-> WithEntries(tx, { EntryOf(t, i, n, RowOf(tx, t, n)) :
                                      i \in before, n \in new }, {})]

InsertIndexEntries(tx, t, n) ==
    AddEntries(tx, t, {n}, { i \in 1 .. Len(Indexes[t]) :
        LET ix == Indexes[t][i]
            v == RowOf(tx, t, n)[ix.col]
        IN  ix.unique /\ v # Null /\ ValueHeldByOther(tx, t, ix.col, v, n) })

ResolveCol(t, vals, c) == IF c \in DOMAIN vals THEN vals[c] ELSE Default[t][c]

ValidatedRecord(t, vals) == [c \in Cols |-> ResolveCol(t, vals, c)]

RecordValid(t, vals) == \A c \in NotNull[t] : ResolveCol(t, vals, c) # Null

ReadCounter(tx, t) == tx.tree.counter[t]

\* The rowid and the next counter; the probe for a duplicate is skipped when
\* the counter proves there is none.
ResolveRowid(tx, t, explicit, next) ==
    IF explicit = Null
      THEN IF next = MaxRowid THEN [ok |-> FALSE]
           ELSE [ok |-> TRUE, rowid |-> next, next |-> next + 1]
      ELSE IF (explicit < next \/ next = MaxRowid) /\ HasRow(tx, t, explicit)
        THEN [ok |-> FALSE]
        ELSE [ok |-> TRUE, rowid |-> explicit,
              next |-> IF explicit < next THEN next
                       ELSE IF explicit = MaxRowid THEN MaxRowid ELSE explicit + 1]

PutRow(tx, t, n, vals) ==
    IF ~RecordValid(t, vals) THEN Bad(tx)
    ELSE InsertIndexEntries(PutKey(tx, t, n, ValidatedRecord(t, vals)), t, n)

\* Variant of CatalogUpdate: the entries of the row as it will be are deleted, not the old ones.
CatalogUpdateForgets(tx, t, n, vals) ==
    IF ~HasRow(tx, t, n) THEN Good(tx)
    ELSE IF ~RecordValid(t, vals) THEN Bad(tx)
    ELSE PutRow(WithEntries(tx, {}, EntriesOf(t, n, ValidatedRecord(t, vals))), t, n, vals)

\* Deletes the entries of the old row, overwrites it and adds the new ones.
CatalogUpdate(tx, t, n, vals) ==
    IF ~HasRow(tx, t, n) THEN Good(tx)
    ELSE IF ~RecordValid(t, vals) THEN Bad(tx)
    ELSE PutRow(WithEntries(tx, {}, EntriesOf(t, n, RowOf(tx, t, n))), t, n, vals)

CatalogDelete(tx, t, n) ==
    IF ~HasRow(tx, t, n) THEN Good(tx)
    ELSE Good(WithEntries(DropKey(tx, t, n), {}, EntriesOf(t, n, RowOf(tx, t, n))))

-----------------------------------------------------------------------------
(* tx.rs: foreign keys around every row write.                               *)

\* INSERT / UPDATE: the parent of every non-NULL reference exists.  The values
\* are looked at before defaults are applied.
FkParentsExist(tx, t, vals) ==
    \A i \in 1 .. Len(ForeignKeys) :
        LET fk == ForeignKeys[i] IN
        (fk.child = t /\ fk.col \in DOMAIN vals) =>
            \/ vals[fk.col] = Null
            \/ fk.pcol = "rowid" /\ HasRow(tx, fk.parent, vals[fk.col])
            \/ fk.pcol # "rowid" /\ \E e \in tx.tree.entries :
                   e[1] = fk.parent /\ e[2] = fk.pcol /\ e[3] = vals[fk.col]

\* The foreign keys that refer to the table.
FkReferencing(t) ==
    LET at == Ascending({ i \in 1 .. Len(ForeignKeys) : ForeignKeys[i].parent = t })
    IN  [i \in 1 .. Len(at) |-> ForeignKeys[at[i]]]

\* The value of the parent row that the foreign key refers to; none (as for
\* NULL, no child matches) when the row is not there.
RefOf(fk, n, row) ==
    IF fk.pcol = "rowid" THEN n ELSE IF row = NoRow THEN Null ELSE row[fk.pcol]

\* The child rows that hold the value.
FkChildrenMatching(tx, fk, ref) ==
    { n \in RowidsOf(tx.tree, fk.child) :
          ref # Null /\ RowOf(tx, fk.child, n)[fk.col] = ref }

\* Changes of a row that a cascade asks for.
Rewrite(t, n, row) == [do |-> "update", on |-> t, id |-> n, row |-> row]
Removal(t, n) == [do |-> "delete", on |-> t, id |-> n]
Changes == [do : {"update"}, on : Tables, id : Rowids, row : Records]
           \union [do : {"delete"}, on : Tables, id : Rowids]

\* follow gives the step of a change, one level of cascades down.
Cascade(changes, follow) ==
    LET ids == Ascending(DOMAIN changes)
    IN  InTurn([j \in 1 .. Len(ids) |-> follow[changes[ids[j]]]])

\* ON UPDATE: RESTRICT before the parent is written, the others after it.
OnUpdate(fk, n, old, new, restrictOnly, follow) ==
    [tx \in Txs |->
        LET hits == FkChildrenMatching(tx, fk, RefOf(fk, n, old))
            ref == IF fk.onUpdate = "cascade" THEN RefOf(fk, n, new) ELSE Null
            pointed == [m \in hits |->
                Rewrite(fk.child, m, [RowOf(tx, fk.child, m) EXCEPT ![fk.col] = ref])]
        IN  IF RefOf(fk, n, old) = RefOf(fk, n, new) \/ hits = {} THEN Good(tx)
            ELSE IF fk.onUpdate = "restrict" THEN Bad(tx)
            ELSE IF restrictOnly THEN Good(tx)
            ELSE Cascade(pointed, follow)[tx]]

FkHandleParentUpdate(t, n, old, new, restrictOnly, follow) ==
    LET fks == FkReferencing(t)
    IN  InTurn([i \in 1 .. Len(fks) |-> OnUpdate(fks[i], n, old, new, restrictOnly, follow)])

\* ON DELETE, before the parent is deleted.
OnDelete(fk, n, row, follow) ==
    [tx \in Txs |->
        LET hits == FkChildrenMatching(tx, fk, RefOf(fk, n, row))
            gone == [m \in hits |->
                IF fk.onDelete = "cascade" THEN Removal(fk.child, m)
                ELSE Rewrite(fk.child, m, [RowOf(tx, fk.child, m) EXCEPT ![fk.col] = Null])]
        IN  IF hits = {} THEN Good(tx)
            ELSE IF fk.onDelete = "restrict" THEN Bad(tx)
            ELSE Cascade(gone, follow)[tx]]

\* Variant of FkHandleParentDelete: cascades follow only references by value, not those by rowid.
FkHandleParentDeleteByValue(t, n, follow) ==
    LET fks == FkReferencing(t)
    IN  [tx \in Txs |->
            InTurn([i \in 1 .. Len(fks) |->
                IF fks[i].pcol = "rowid" THEN Skip
                ELSE OnDelete(fks[i], n, RowOf(tx, t, n), follow)])[tx]]

\* The parent row is read once.
FkHandleParentDelete(t, n, follow) ==
    LET fks == FkReferencing(t)
    IN  [tx \in Txs |->
            InTurn([i \in 1 .. Len(fks) |->
                OnDelete(fks[i], n, RowOf(tx, t, n), follow)])[tx]]

Overwrite(t, n, vals) == [tx \in Txs |-> Settle(tx, CatalogUpdate(tx, t, n, vals))]
Erase(t, n) == [tx \in Txs |-> Settle(tx, CatalogDelete(tx, t, n))]

UpdateRow(t, n, vals, follow) ==
    [tx \in Txs |->
        IF ~FkParentsExist(tx, t, vals) THEN Bad(tx)
        ELSE IF ~HasRow(tx, t, n) THEN Good(tx)
        ELSE InTurn(<<FkHandleParentUpdate(t, n, RowOf(tx, t, n), vals, TRUE, follow),
                      Overwrite(t, n, vals),
                      FkHandleParentUpdate(t, n, RowOf(tx, t, n), vals, FALSE, follow)>>)[tx]]

DeleteRow(t, n, follow) == InTurn(<<FkHandleParentDelete(t, n, follow), Erase(t, n)>>)

Change(c, follow) ==
    IF c.do = "delete" THEN DeleteRow(c.on, c.id, follow)
    ELSE UpdateRow(c.on, c.id, c.row, follow)

\* The step of a change whose cascades go at most k deep.  The code has no
\* such bound: around a cycle of ON DELETE CASCADE delete_row never returns.
Cascades[k \in 0 .. MaxCascade] ==
    [c \in Changes |-> IF k = 0 THEN Refuse ELSE Change(c, Cascades[k - 1])]

Changed(c) == Cascades[MaxCascade][c]

\* The counter comes from the transaction's cache, and goes back to it only
\* after the row is written.
NextRowid(tx, t) == IF tx.cache[t] # 0 THEN tx.cache[t] ELSE ReadCounter(tx, t)

Cached(r, t, next) == IF r.ok THEN Good([r.tx EXCEPT !.cache[t] = next]) ELSE r

\* Variant of InsertRow: an explicit rowid does not move the cached counter.
InsertRowKeepsCounter(t, id, vals) ==
    [tx \in Txs |->
        LET rid == ResolveRowid(tx, t, id, NextRowid(tx, t)) IN
        IF ~FkParentsExist(tx, t, vals) \/ ~rid.ok THEN Bad(tx)
        ELSE Cached(Settle(tx, PutRow(tx, t, rid.rowid, vals)), t,
                    IF id = Null THEN rid.next ELSE NextRowid(tx, t))]

InsertRow(t, id, vals) ==
    [tx \in Txs |->
        LET rid == ResolveRowid(tx, t, id, NextRowid(tx, t)) IN
        IF ~FkParentsExist(tx, t, vals) \/ ~rid.ok THEN Bad(tx)
        ELSE Cached(Settle(tx, PutRow(tx, t, rid.rowid, vals)), t, rid.next)]

\* Bulk load: no foreign key, CHECK or trigger; rows first, then the entries
\* of each index in one block after its UNIQUE check.
PutRowData(t, r) ==
    [tx \in Txs |->
        LET rid == ResolveRowid(tx, t, r.id, NextRowid(tx, t)) IN
        IF ~rid.ok \/ ~RecordValid(t, r.vals) THEN Bad(tx)
        ELSE Cached(Good(PutKey(tx, t, rid.rowid, ValidatedRecord(t, r.vals))), t, rid.next)]

BulkPut(t, rows) == InTurn([i \in 1 .. Len(rows) |-> PutRowData(t, rows[i])])

FlushIndexEntries(tx, t, new) ==
    LET clash(ix) == \E m \in new :
            LET v == RowOf(tx, t, m)[ix.col] IN
            /\ v # Null
            /\ \/ \E n \in new : n # m /\ RowOf(tx, t, n)[ix.col] = v
               \/ ValueHeldByOther(tx, t, ix.col, v, m)
    IN  IF new = {} THEN Good(tx)
        ELSE AddEntries(tx, t, new, { i \in 1 .. Len(Indexes[t]) :
                                          Indexes[t][i].unique /\ clash(Indexes[t][i]) })

InsertRows(t, rows) ==
    [tx \in Txs |->
        LET put == BulkPut(t, rows)[tx]
        IN  IF ~put.ok THEN put
            ELSE FlushIndexEntries(put.tx, t, RowidsOf(put.tx.tree, t) \ RowidsOf(tx.tree, t))]

\* Commit flushes the cached counters into the tree.
WriteCounters(tx) ==
    [tx.tree EXCEPT !.counter = [t \in Tables |-> NextRowid(tx, t)]]

-----------------------------------------------------------------------------
(* exec.rs: the statements.                                                  *)

Overlay(row, set) == [c \in Cols |-> IF c \in DOMAIN set THEN set[c] ELSE row[c]]

Matches(n, row, where) ==
    \A w \in where : w[2] # Null /\ (IF w[1] = "rowid" THEN n ELSE row[w[1]]) = w[2]

\* The rows the WHERE selects, materialised before any is written.
Doomed(tx, t, where) ==
    LET ids == Ascending({ n \in RowidsOf(tx.tree, t) : Matches(n, RowOf(tx, t, n), where) })
    IN  [i \in 1 .. Len(ids) |-> [id |-> ids[i], row |-> RowOf(tx, t, ids[i])]]

\* CHECK fails on FALSE; NULL passes.
CheckRow(t, row) == \A c \in Cols : <<c, row[c]>> \notin Forbidden[t]

TriggersFor(on, event, timing, each) ==
    { i \in 1 .. Len(Triggers) :
          LET g == Triggers[i] IN
          g.on = on /\ g.event = event /\ g.timing = timing /\ g.each \in each }

\* enter_trigger bounds the depth: deeper gives the step of a statement one
\* level down, and is empty at the bound.  A body runs like any statement.
NoDeeper == [s \in {} |-> Refuse]

RunAll(stmts, deeper) == InTurn([j \in 1 .. Len(stmts) |-> deeper[stmts[j]]])

FireAll(trigs, old, new, deeper) ==
    LET at == Ascending(trigs)
    IN  IF trigs = {} THEN Skip
        ELSE IF DOMAIN deeper = {} THEN Refuse
        ELSE InTurn([i \in 1 .. Len(at) |-> RunAll(Body(Triggers[at[i]], old, new), deeper)])

Fire(on, event, timing, old, new, deeper) ==
    FireAll(TriggersFor(on, event, timing, {"row"}), old, new, deeper)

FireStatement(on, event, timing, deeper) ==
    FireAll(TriggersFor(on, event, timing, {"statement"}), NoRow, NoRow, deeper)

\* The rowid in conflict with the proposed row, or Null: that of the row, or
\* the lowest that holds its value in the first index in conflict.
FindConflict(tx, t, id, vals) ==
    LET held(i) == { n \in Rowids :
                       LET c == Indexes[t][i].col IN
                       /\ Indexes[t][i].unique /\ vals[c] # Null
                       /\ <<t, c, vals[c], n>> \in tx.tree.entries }
        clashing == { i \in 1 .. Len(Indexes[t]) : held(i) # {} }
    IN  IF id # Null /\ HasRow(tx, t, id) THEN id
        ELSE IF clashing = {} THEN Null
        ELSE Ascending(held(Ascending(clashing)[1]))[1]

\* DO UPDATE; its WHERE may leave the row in conflict as it is.
UpsertUpdate(t, n, r, deeper) ==
    [tx \in Txs |->
        LET old == RowOf(tx, t, n)
            new == Overlay(old, r.update)
        IN  IF ~HasRow(tx, t, n) THEN Bad(tx)
            ELSE IF ~Matches(n, old, r.when) THEN Good(tx)
            ELSE IF ~CheckRow(t, new) THEN Bad(tx)
            ELSE InTurn(<<Fire(t, "update", "before", old, new, deeper),
                          Changed(Rewrite(t, n, new)),
                          Fire(t, "update", "after", old, new, deeper)>>)[tx]]

InsertOne(t, r, conflict, deeper) ==
    [tx \in Txs |->
        LET vals == ValidatedRecord(t, r.vals)
            rival == IF conflict = "fail" THEN Null ELSE FindConflict(tx, t, r.id, vals)
        IN  IF rival # Null
              THEN IF conflict = "nothing" THEN Good(tx)
                   ELSE UpsertUpdate(t, rival, r, deeper)[tx]
            ELSE IF ~CheckRow(t, vals) THEN Bad(tx)
            ELSE InTurn(<<Fire(t, "insert", "before", NoRow, vals, deeper),
                          InsertRow(t, r.id, vals),
                          Fire(t, "insert", "after", NoRow, vals, deeper)>>)[tx]]

UpdateOne(t, u, deeper) ==
    IF ~CheckRow(t, u.new) THEN Refuse
    ELSE InTurn(<<Fire(t, "update", "before", u.row, u.new, deeper),
                  Changed(Rewrite(t, u.id, u.new)),
                  Fire(t, "update", "after", u.row, u.new, deeper)>>)

DeleteOne(t, d, deeper) ==
    InTurn(<<Fire(t, "delete", "before", d.row, NoRow, deeper),
             Changed(Removal(t, d.id)),
             Fire(t, "delete", "after", d.row, NoRow, deeper)>>)

\* The rows an INSERT adds, an UPDATE rewrites or a DELETE removes are known
\* before the first of them is written.
Planned(tx, s, t) ==
    CASE s.op = "insert" -> s.rows
      [] s.op = "update" ->
         LET hit == Doomed(tx, t, s.where) IN
         [i \in 1 .. Len(hit) |->
             [id |-> hit[i].id, row |-> hit[i].row, new |-> Overlay(hit[i].row, s.set)]]
      [] s.op = "delete" -> Doomed(tx, t, s.where)

RunOne(s, p, deeper) ==
    CASE s.op = "insert" -> InsertOne(s.on, p, s.conflict, deeper)
      [] s.op = "update" -> UpdateOne(s.on, p, deeper)
      [] s.op = "delete" -> DeleteOne(s.on, p, deeper)

RunOnTable(s, deeper) ==
    [tx \in Txs |->
        LET plan == Planned(tx, s, s.on)
        IN  InTurn(<<FireStatement(s.on, s.op, "before", deeper),
                     InTurn([i \in 1 .. Len(plan) |-> RunOne(s, plan[i], deeper)]),
                     FireStatement(s.on, s.op, "after", deeper)>>)[tx]]

\* A write on a view runs its INSTEAD OF triggers, once for each row of the
\* view it would have touched, and needs at least one.
RunInsteadOf(s, deeper) ==
    LET trigs == TriggersFor(s.on, s.op, "instead", {"row", "statement"})
        old(p) == IF s.op = "insert" THEN NoRow ELSE p.row
        new(p) == CASE s.op = "insert" -> Overlay([c \in Cols |-> Null], p.vals)
                    [] s.op = "update" -> p.new
                    [] s.op = "delete" -> NoRow
    IN  [tx \in Txs |->
            LET plan == Planned(tx, s, Views[s.on])
            IN  IF trigs = {} THEN Bad(tx)
                ELSE InTurn([i \in 1 .. Len(plan) |->
                         FireAll(trigs, old(plan[i]), new(plan[i]), deeper)])[tx]]

RunExecute(s, deeper) ==
    CASE s.on \in Tables -> RunOnTable(s, deeper)
      [] s.on \in DOMAIN Views /\ s.on \notin Tables -> RunInsteadOf(s, deeper)
      [] OTHER -> Refuse

\* The step of a statement with so many levels of triggers left.
Runs[left \in 0 .. MaxTriggerDepth] ==
    [s \in Writes |-> RunExecute(s, IF left = 0 THEN NoDeeper ELSE Runs[left - 1])]

Executed(s) == Runs[MaxTriggerDepth][s]

=============================================================================
