------------------------------ MODULE Catalog ------------------------------
(***************************************************************************)
(* The schema of a database and the statements that change it:               *)
(* src/src/catalog.rs (tables, views, triggers, secondary indexes, ALTER     *)
(* TABLE, the record a schema is stored as) under the DDL half of WriteTx in *)
(* src/src/tx.rs, with its schema cache and its trigger cache.               *)
(*                                                                          *)
(* ALTER TABLE never rewrites a row: a row is as long as the schema was when *)
(* it was written, and reads finish it with the defaults of the columns      *)
(* added since.  DROP COLUMN only marks the column.                          *)
(*                                                                          *)
(* A statement that fails leaves nothing (its transaction is dropped), so    *)
(* the early returns of the code are guards.  Rowids are the caller's        *)
(* (Rows.tla models the counters) and the contents of full-text and vector   *)
(* indexes are left to FullText.tla and Vectors.tla: here they have a name,  *)
(* an id and columns.                                                        *)
(***************************************************************************)
EXTENDS Integers, Sequences, FiniteSets, SequencesExt

CONSTANTS
    Names,        \* names of tables, views and triggers
    ColNames,     \* names of columns
    IndexNames,   \* names of indexes
    Values,       \* column values
    Null,         \* SQL NULL
    NoDefault,    \* a column without DEFAULT
    None,         \* absent
    TableSpecs,   \* CREATE TABLE statements: [name, columns, pk, uniques, fks]
    NewColumns,   \* ADD COLUMN statements
    TriggerDefs,  \* CREATE TRIGGER statements: [name, table, timing, each]
    OldRecords,   \* schema records an older version left in the file, by name
    OldRow,       \* the row it left
    MaxColumns,   \* MAX_COLUMNS
    Inserts,      \* INSERT statements: <<column or None, value>>
    Updates,      \* UPDATE statements: <<column, value>>
    MaxRow,       \* bound: rowids used
    MaxChanges,   \* bound: statements that change the schema
    SavepointsAt  \* bound: after how many of them a savepoint is set

VARIABLES
    tree,         \* the catalog, the rows and the index entries of the transaction
    schemaCache,  \* schema_cache: [table name -> definition]
    triggerCache, \* trigger_cache: None or the set of triggers
    saved,        \* the savepoint: None or a tree
    changes       \* schema statements so far

vars == <<tree, schemaCache, triggerCache, saved, changes>>

Kinds == {"index", "fts", "vector"}
Empty == [x \in {} |-> None]

\* Put and remove a key of a map kept in the tree.
With(f, k, v) == [x \in DOMAIN f \union {k} |-> IF x = k THEN v ELSE f[x]]
Without(f, k) == [x \in DOMAIN f \ {k} |-> f[x]]

-----------------------------------------------------------------------------
(* The record of a schema.                                                   *)

Identity(n) == [i \in 1 .. n |-> i]

\* is_permutation
IsPermutation(order, n) == Len(order) = n /\ ToSet(order) = 1 .. n

\* encode_def: the current version; the order of presentation is written only
\* when it is not the physical one.
EncodeDef(def) ==
    [version |-> 10, id |-> def.id, alias |-> def.alias, columns |-> def.columns,
     indexes |-> def.indexes, fks |-> def.fks,
     order |-> IF def.order = Identity(Len(def.columns)) THEN <<>> ELSE def.order]

\* ColType, ColumnDef.
ColumnTypes == {"integer", "real", "text", "blob", "boolean"}

ColumnDefs ==
    [name : ColNames, type : ColumnTypes, notNull : BOOLEAN,
     default : Values \union {NoDefault}, dropped : BOOLEAN]

Corrupt == [id |-> 0]

Section(record, since, section, missing) ==
    IF record.version >= since THEN section ELSE missing

\* The columns of the foreign keys are columns there are.
FksInRange(fks, n) == \A k \in 1 .. Len(fks) : ToSet(fks[k].columns) \subseteq 1 .. n

\* decode_def: what an older record lacks has a fixed reading.
DecodeDef(record) ==
    LET columns == [i \in 1 .. Len(record.columns) |->
                       IF record.version >= 5 THEN record.columns[i]
                       ELSE [record.columns[i] EXCEPT !.dropped = FALSE]]
        order == IF record.version < 3 \/ record.order = <<>>
                 THEN Identity(Len(columns)) ELSE record.order
        indexes == IF record.version >= 9 THEN record.indexes
                   ELSE SelectSeq(record.indexes,
                           LAMBDA ix : ix.kind = "index" \/ (ix.kind = "fts" /\ record.version = 8))
        fks == Section(record, 4, record.fks, <<>>)
    IN  IF /\ record.version \in 2 .. 10
           /\ Len(columns) <= MaxColumns
           /\ IsPermutation(order, Len(columns))
           /\ record.alias <= Len(columns)
           /\ \A i \in 1 .. Len(indexes) :
                 /\ indexes[i].columns # <<>>
                 /\ ToSet(indexes[i].columns) \subseteq 1 .. Len(columns)
           /\ FksInRange(fks, Len(columns))
        THEN [id |-> record.id, alias |-> record.alias, columns |-> columns,
              indexes |-> indexes, order |-> order, fks |-> fks]
        ELSE Corrupt

HasTable(tr, name) == name \in DOMAIN tr.tables
GetTable(tr, name) == DecodeDef(tr.tables[name])
PutTable(tr, name, def) == [tr EXCEPT !.tables = With(@, name, EncodeDef(def))]

\* The physical position of a name: the first column that has it, dropped or not.
Position(def, name) == SelectInSeq(def.columns, LAMBDA c : c.name = name)

\* The lookup of RENAME COLUMN and DROP COLUMN, which skips dropped columns.
VisiblePosition(def, name) ==
    SelectInSeq(def.columns, LAMBDA c : ~c.dropped /\ c.name = name)

Visible(def) == {i \in 1 .. Len(def.columns) : ~def.columns[i].dropped}

\* TableDef: what a schema is after decoding.  No two columns that can be seen
\* share a name, and no two indexes of a kind an id.
IsDef(def) ==
    /\ def = [id |-> def.id, alias |-> def.alias, columns |-> def.columns,
              indexes |-> def.indexes, order |-> def.order, fks |-> def.fks]
    /\ def.id \in Nat \ {0}
    /\ def.columns \in Seq(ColumnDefs) /\ Len(def.columns) \in 1 .. MaxColumns
    /\ \A i, j \in Visible(def) : def.columns[i].name = def.columns[j].name => i = j
    /\ def.alias \in 0 .. Len(def.columns)
    /\ def.order \in Seq(Nat) /\ IsPermutation(def.order, Len(def.columns))
    /\ def.indexes \in Seq(ToSet(def.indexes))
    /\ \A i \in 1 .. Len(def.indexes) :
          /\ def.indexes[i].kind \in Kinds /\ def.indexes[i].id \in Nat \ {0}
          /\ def.indexes[i].columns \in Seq(1 .. Len(def.columns)) \ {<<>>}
    /\ \A i, j \in 1 .. Len(def.indexes) :
          def.indexes[i].kind = def.indexes[j].kind /\ def.indexes[i].id = def.indexes[j].id => i = j
    /\ FksInRange(def.fks, Len(def.columns))

ASSUME BoundsAssumption ==
    /\ MaxColumns \in Nat /\ MaxChanges \in Nat
    /\ MaxRow \in Nat \ {0}

\* What the statements carry; a column is born visible.
ASSUME StatementsAssumption ==
    /\ Null \in Values
    /\ Inserts \subseteq (ColNames \union {None}) \X Values
    /\ Updates \subseteq ColNames \X Values
    /\ NewColumns \subseteq ColumnDefs
    /\ \A spec \in TableSpecs :
          /\ spec.name \in Names
          /\ spec.columns \in Seq(ColumnDefs)
          /\ spec.uniques \in Seq(ColNames)
          /\ spec.fks \in Seq([cols : Seq(ColNames), parent : Names, pcols : Seq(ColNames)])

\* An older version left schemas that can be read, with the ids its counters gave.
ASSUME OldAssumption ==
    /\ OldRow \in Seq(Values)
    /\ DOMAIN OldRecords \subseteq Names
    /\ \A n \in DOMAIN OldRecords :
          LET def == DecodeDef(OldRecords[n]) IN
          /\ IsDef(def)
          /\ \A i, j \in 1 .. Len(def.indexes) :
                /\ def.indexes[i].id <= Len(def.indexes)
                /\ def.indexes[i].kind = def.indexes[j].kind /\ def.indexes[i].name = def.indexes[j].name
                      => i = j

-----------------------------------------------------------------------------
(* Rows and their index entries.                                             *)

DefaultOf(col) == IF col.default = NoDefault THEN Null ELSE col.default

\* finish_row: the columns added after the row was written read their DEFAULT.
FinishRow(def, row) ==
    [i \in 1 .. Len(def.columns) |->
        IF i <= Len(row) THEN row[i] ELSE DefaultOf(def.columns[i])]

\* resolve_col and validated_record: a column that is not given takes its
\* DEFAULT, the alias of the rowid is stored as NULL; NOT NULL is checked on
\* every other column, dropped ones included.
Record(def, given) ==
    [i \in 1 .. Len(def.columns) |->
        IF i = def.alias THEN Null
        ELSE IF i \in DOMAIN given THEN given[i] ELSE DefaultOf(def.columns[i])]

RecordValid(def, record) ==
    \A i \in 1 .. Len(def.columns) :
        def.columns[i].notNull /\ i # def.alias => record[i] # Null

RowsOf(tr, id) == {r \in tr.rows : r.table = id}

IndexValues(ix, record) == [k \in 1 .. Len(ix.columns) |-> record[ix.columns[k]]]
Entry(ix, record, rowid) == [id |-> ix.id, values |-> IndexValues(ix, record), rowid |-> rowid]

OfKind(def, kind) ==
    {def.indexes[i] : i \in {j \in 1 .. Len(def.indexes) : def.indexes[j].kind = kind}}

Secondary(def) == OfKind(def, "index")

EntriesOf(def, record, rowid) == {Entry(ix, record, rowid) : ix \in Secondary(def)}

\* value_held_by_other; a NULL among the values exempts the row.
HeldByOther(entries, ix, record, rowid) ==
    /\ Null \notin ToSet(IndexValues(ix, record))
    /\ \E e \in entries : e.id = ix.id /\ e.values = IndexValues(ix, record) /\ e.rowid # rowid

UniqueAllows(tr, def, record, rowid) ==
    \A ix \in Secondary(def) : ix.unique => ~HeldByOther(tr.entries, ix, record, rowid)

-----------------------------------------------------------------------------
(* Foreign keys of CREATE TABLE: resolve_foreign_keys.                       *)

SpecPosition(spec, name) == SelectInSeq(spec.columns, LAMBDA c : c.name = name)

ParentOf(tr, spec, fk) ==
    IF fk.parent = spec.name
    THEN [columns |-> spec.columns, alias |-> SpecPosition(spec, spec.pk), indexes |-> <<>>]
    ELSE GetTable(tr, fk.parent)

ParentPositions(parent, fk) == [k \in 1 .. Len(fk.pcols) |-> Position(parent, fk.pcols[k])]

\* A reference to the primary key, or to nothing, is kept as a reference to the rowid.
IsPkRef(parent, positions) ==
    \/ positions = <<>>
    \/ Len(positions) = 1 /\ positions[1] = parent.alias

FkResolves(tr, spec, fk) ==
    /\ \A k \in 1 .. Len(fk.cols) : SpecPosition(spec, fk.cols[k]) > 0
    /\ fk.parent = spec.name \/ HasTable(tr, fk.parent)
    /\ LET parent == ParentOf(tr, spec, fk)
           positions == ParentPositions(parent, fk)
       IN  /\ 0 \notin ToSet(positions)
           /\ IF IsPkRef(parent, positions)
              THEN Len(fk.cols) = 1 /\ parent.alias > 0
              ELSE /\ Len(fk.cols) = Len(positions)
                   /\ \E i \in 1 .. Len(parent.indexes) :
                         /\ parent.indexes[i].kind = "index"
                         /\ parent.indexes[i].unique
                         /\ Len(parent.indexes[i].columns) = Len(positions)
                         /\ ToSet(positions) \subseteq ToSet(parent.indexes[i].columns)

ResolvedFk(tr, spec, fk) ==
    LET parent == ParentOf(tr, spec, fk)
        positions == ParentPositions(parent, fk)
    IN  [columns |-> [k \in 1 .. Len(fk.cols) |-> SpecPosition(spec, fk.cols[k])],
         parent |-> fk.parent,
         pcols |-> IF IsPkRef(parent, positions) THEN <<>> ELSE positions]

-----------------------------------------------------------------------------
(* What the statements do to the tree.                                       *)

\* CREATE INDEX of the three kinds: the id comes from the counter of the kind,
\* the rows there are get their entries, the name is registered and the schema
\* is rewritten.
CanCreateIndex(tr, table, kind, name, columns, unique) ==
    /\ HasTable(tr, table)
    /\ name \notin DOMAIN tr.refs[kind]
    /\ LET def == GetTable(tr, table) IN
          /\ columns # <<>> /\ Len(columns) <= MaxColumns
          /\ ToSet(columns) \subseteq 1 .. Len(def.columns)
          /\ kind = "index" => def.alias \notin ToSet(columns)
          /\ kind = "fts" => \A c \in ToSet(columns) : def.columns[c].type = "text"
          /\ kind = "vector" => Len(columns) = 1 /\ def.columns[columns[1]].type = "blob"
          /\ unique =>
                \A r, q \in RowsOf(tr, def.id) :
                   LET values == [k \in 1 .. Len(columns) |-> FinishRow(def, r.row)[columns[k]]]
                       others == [k \in 1 .. Len(columns) |-> FinishRow(def, q.row)[columns[k]]]
                   IN  r # q /\ Null \notin ToSet(values) => values # others

\* Variant of CreateIndexIn: only the rows that store the column get an entry.
CreateIndexInStored(tr, table, kind, name, columns, unique) ==
    LET def == GetTable(tr, table)
        ix  == [kind |-> kind, name |-> name, id |-> tr.next[kind],
                columns |-> columns, unique |-> unique]
        stored == {r \in RowsOf(tr, def.id) : \A c \in ToSet(columns) : c <= Len(r.row)}
    IN  PutTable([tr EXCEPT !.next[kind] = @ + 1,
                            !.refs[kind] = With(@, name, table),
                            !.entries = @ \union
                                (IF kind = "index"
                                 THEN {Entry(ix, FinishRow(def, r.row), r.rowid) : r \in stored}
                                 ELSE {})],
                 table, [def EXCEPT !.indexes = Append(@, ix)])

CreateIndexIn(tr, table, kind, name, columns, unique) ==
    LET def == GetTable(tr, table)
        ix  == [kind |-> kind, name |-> name, id |-> tr.next[kind],
                columns |-> columns, unique |-> unique]
    IN  PutTable([tr EXCEPT !.next[kind] = @ + 1,
                            !.refs[kind] = With(@, name, table),
                            !.entries = @ \union
                                (IF kind = "index"
                                 THEN {Entry(ix, FinishRow(def, r.row), r.rowid) :
                                          r \in RowsOf(tr, def.id)}
                                 ELSE {})],
                 table, [def EXCEPT !.indexes = Append(@, ix)])

\* drop_index, drop_fts_index, drop_vector_index: the first of that name.
IndexPosition(def, kind, name) ==
    SelectInSeq(def.indexes, LAMBDA ix : ix.kind = kind /\ ix.name = name)

DropIndexIn(tr, kind, name) ==
    LET table == tr.refs[kind][name]
        def == GetTable(tr, table)
        pos == IndexPosition(def, kind, name)
    IN  PutTable([tr EXCEPT !.refs[kind] = Without(@, name),
                            !.entries = IF kind = "index"
                                        THEN {e \in @ : e.id # def.indexes[pos].id} ELSE @],
                 table, [def EXCEPT !.indexes = RemoveAt(@, pos)])

\* The name an UNIQUE constraint gives its index.
UniqueName(spec, k) == <<"uq", spec.name, k>>

\* create_table: names and keys are checked, the id comes from the counter, one
\* unique index is made for every UNIQUE that is not the primary key's.
CanCreateTable(tr, spec) ==
    /\ spec.columns # <<>> /\ Len(spec.columns) <= MaxColumns
    /\ \A i, j \in 1 .. Len(spec.columns) :
          spec.columns[i].name = spec.columns[j].name => i = j
    /\ \A i \in 1 .. Len(spec.columns) :
          spec.columns[i].name = spec.pk => spec.columns[i].type = "integer"
    /\ ~HasTable(tr, spec.name)
    /\ spec.name \notin tr.views
    /\ \A k \in 1 .. Len(spec.fks) : FkResolves(tr, spec, spec.fks[k])
    /\ \A k \in 1 .. Len(spec.uniques) :
          /\ SpecPosition(spec, spec.uniques[k]) > 0
          /\ UniqueName(spec, k) \notin DOMAIN tr.refs["index"]

NewDef(tr, spec) ==
    [id |-> tr.next.table,
     alias |-> SpecPosition(spec, spec.pk),
     columns |-> [i \in 1 .. Len(spec.columns) |->
                    [spec.columns[i] EXCEPT !.notNull = @ \/ spec.columns[i].name = spec.pk]],
     indexes |-> <<>>,
     order |-> Identity(Len(spec.columns)),
     fks |-> [k \in 1 .. Len(spec.fks) |-> ResolvedFk(tr, spec, spec.fks[k])]]

\* The table alone, and with the index of its k-th UNIQUE.
BareTable(tr, spec) == PutTable([tr EXCEPT !.next.table = @ + 1], spec.name, NewDef(tr, spec))

WithUnique(tr, spec, k) ==
    IF spec.uniques[k] = spec.pk THEN tr
    ELSE CreateIndexIn(tr, spec.name, "index", UniqueName(spec, k),
                       <<SpecPosition(spec, spec.uniques[k])>>, TRUE)

CreateTableIn(tr, spec) ==
    LET made[k \in 0 .. Len(spec.uniques)] ==
            IF k = 0 THEN BareTable(tr, spec) ELSE WithUnique(made[k - 1], spec, k)
    IN  made[Len(spec.uniques)]

\* Variant of DropTableIn: the entries of the indexes stay.
DropTableInKeepsEntries(tr, name) ==
    LET def == GetTable(tr, name) IN
    [tr EXCEPT !.tables = Without(@, name),
               !.rows = {r \in @ : r.table # def.id},
               !.refs["index"] = [n \in {m \in DOMAIN @ : @[m] # name} |-> @[n]]]

\* drop_table: rows, the secondary indexes with their names, the schema.  The
\* names and the contents of full-text and vector indexes stay.
DropTableIn(tr, name) ==
    LET def == GetTable(tr, name)
        gone == {ix.name : ix \in Secondary(def)}
    IN  [tr EXCEPT !.tables = Without(@, name),
                   !.rows = {r \in @ : r.table # def.id},
                   !.entries = {e \in @ : \A ix \in Secondary(def) : e.id # ix.id},
                   !.refs["index"] = [n \in DOMAIN @ \ gone |-> @[n]]]

-----------------------------------------------------------------------------
(* ALTER TABLE: every one rewrites the record of the schema and nothing else. *)

\* add_column
CanAddColumn(def, col) ==
    /\ Position(def, col.name) = 0
    /\ Len(def.columns) < MaxColumns
    /\ col.notNull => col.default # NoDefault

AddColumnTo(def, col) ==
    [def EXCEPT !.columns = Append(@, col), !.order = Append(@, Len(def.columns) + 1)]

\* move_column: taken out of the order, which has it once, then put at the start,
\* before or after the reference.
MoveColumnIn(def, name, where, ref) ==
    LET phys == Position(def, name)
        seq  == RemoveFirst(def.order, phys)
        at == IF where = "first" THEN 1
              ELSE SelectInSeq(seq, LAMBDA p : p = Position(def, ref)) + (IF where = "after" THEN 1 ELSE 0)
    IN  [def EXCEPT !.order = InsertAt(seq, at, phys)]

CanMove(def, name, where, ref) ==
    /\ Position(def, name) > 0
    /\ where # "first" => ref # name /\ Position(def, ref) > 0

\* reorder_columns: every column, dropped ones included, exactly once.
CanReorder(def, names) ==
    /\ Len(names) = Len(def.columns)
    /\ \A k \in 1 .. Len(names) : Position(def, names[k]) > 0
    /\ \A j, k \in 1 .. Len(names) : Position(def, names[j]) = Position(def, names[k]) => j = k

ReorderIn(def, names) ==
    [def EXCEPT !.order = [k \in 1 .. Len(names) |-> Position(def, names[k])]]

\* rename_column
CanRename(def, old, new) == VisiblePosition(def, old) > 0 /\ VisiblePosition(def, new) = 0

RenameIn(def, old, new) == [def EXCEPT !.columns[VisiblePosition(def, old)].name = new]

\* drop_column: neither the key, nor the last one, nor an indexed one, nor a
\* foreign key; full-text and vector indexes are not looked at.
CanDropColumn(def, name) ==
    LET phys == VisiblePosition(def, name) IN
    /\ phys > 0
    /\ phys # def.alias
    /\ Cardinality(Visible(def)) > 1
    /\ \A ix \in Secondary(def) : phys \notin ToSet(ix.columns)
    /\ \A k \in 1 .. Len(def.fks) : phys \notin ToSet(def.fks[k].columns)

\* Variant of DropColumnIn: the columns that are left close up.
DropColumnInShifts(def, name) ==
    LET phys == VisiblePosition(def, name) IN
    [def EXCEPT !.columns = Append(RemoveAt(@, phys), [@[phys] EXCEPT !.dropped = TRUE])]

DropColumnIn(def, name) == [def EXCEPT !.columns[VisiblePosition(def, name)].dropped = TRUE]

-----------------------------------------------------------------------------
(* The transaction.                                                          *)

EmptyTree ==
    [tables |-> Empty, views |-> {}, triggers |-> {},
     refs |-> [k \in Kinds |-> Empty],
     next |-> [k \in Kinds \union {"table"} |-> 1],
     rows |-> {}, entries |-> {}]

\* What an older version left: a table, its indexes with their names, and a row
\* with its entries.
OldTree(n) ==
    LET def == DecodeDef(OldRecords[n]) IN
    [EmptyTree EXCEPT
        !.tables = With(@, n, OldRecords[n]),
        !.refs = [k \in Kinds |-> [m \in {ix.name : ix \in OfKind(def, k)} |-> n]],
        !.next = [k \in DOMAIN @ |-> 1 + (IF k = "table" THEN def.id ELSE Len(def.indexes))],
        !.rows = {[table |-> def.id, rowid |-> 1, row |-> OldRow]},
        !.entries = EntriesOf(def, FinishRow(def, OldRow), 1)]

\* An empty file, or one an older version left with a table.
Init ==
    /\ tree \in {EmptyTree} \union {OldTree(n) : n \in DOMAIN OldRecords}
    /\ schemaCache = Empty
    /\ triggerCache = None
    /\ saved = None
    /\ changes = 0

\* A statement that changes the schema empties the schema cache first.
Alters(tr) ==
    /\ changes' = changes + 1
    /\ tree' = tr
    /\ schemaCache' = Empty
    /\ UNCHANGED <<triggerCache, saved>>

CreateTable(spec) == CanCreateTable(tree, spec) /\ Alters(CreateTableIn(tree, spec))

DropTable(name) == HasTable(tree, name) /\ Alters(DropTableIn(tree, name))

CreateIndex(table, kind, name, columns, unique) ==
    /\ CanCreateIndex(tree, table, kind, name, columns, unique)
    /\ Alters(CreateIndexIn(tree, table, kind, name, columns, unique))

\* The executor resolves the names of CREATE INDEX to positions.
CreateIndexOn(table, kind, name, column, unique) ==
    /\ HasTable(tree, table)
    /\ Position(GetTable(tree, table), column) > 0
    /\ CreateIndex(table, kind, name, <<Position(GetTable(tree, table), column)>>, unique)

\* A name whose table or whose entry in the schema is gone is an error
\* (CorruptRecord).
DropIndex(kind, name) ==
    /\ name \in DOMAIN tree.refs[kind]
    /\ HasTable(tree, tree.refs[kind][name])
    /\ IndexPosition(GetTable(tree, tree.refs[kind][name]), kind, name) > 0
    /\ Alters(DropIndexIn(tree, kind, name))

AlterTable(name, Can(_), Altered(_)) ==
    /\ HasTable(tree, name)
    /\ Can(GetTable(tree, name))
    /\ Alters(PutTable(tree, name, Altered(GetTable(tree, name))))

AddColumn(t, col) == AlterTable(t, LAMBDA d : CanAddColumn(d, col), LAMBDA d : AddColumnTo(d, col))

MoveColumn(t, name, where, ref) ==
    AlterTable(t, LAMBDA d : CanMove(d, name, where, ref),
                  LAMBDA d : MoveColumnIn(d, name, where, ref))

ReorderColumns(t, names) ==
    AlterTable(t, LAMBDA d : CanReorder(d, names), LAMBDA d : ReorderIn(d, names))

RenameColumn(t, old, new) ==
    AlterTable(t, LAMBDA d : CanRename(d, old, new), LAMBDA d : RenameIn(d, old, new))

DropColumn(t, name) ==
    AlterTable(t, LAMBDA d : CanDropColumn(d, name), LAMBDA d : DropColumnIn(d, name))

\* Views and triggers leave the schema cache alone; only the statements on
\* triggers drop the trigger cache.
AltersNames(tr, triggers) ==
    /\ changes' = changes + 1
    /\ tree' = tr
    /\ triggerCache' = triggers
    /\ UNCHANGED <<schemaCache, saved>>

CreateView(name) ==
    /\ ~HasTable(tree, name)
    /\ name \notin tree.views
    /\ AltersNames([tree EXCEPT !.views = @ \union {name}], triggerCache)

DropView(name) ==
    /\ name \in tree.views
    /\ AltersNames([tree EXCEPT !.views = @ \ {name}], triggerCache)

\* create_trigger: INSTEAD OF needs a view and a row, the others a table.
CreateTrigger(t) ==
    /\ \A u \in tree.triggers : u.name # t.name
    /\ IF t.timing = "instead" THEN t.table \in tree.views /\ t.each = "row"
                               ELSE HasTable(tree, t.table)
    /\ AltersNames([tree EXCEPT !.triggers = @ \union {t}], None)

DropTrigger(name) ==
    /\ \E u \in tree.triggers : u.name = name
    /\ AltersNames([tree EXCEPT !.triggers = {u \in @ : u.name # name}], None)

\* A statement on rows: table_cached and all_triggers fill the caches, and the
\* definition it uses is the cached one.
Cached(name) == IF name \in DOMAIN schemaCache THEN schemaCache[name] ELSE GetTable(tree, name)

Uses(name, tr) ==
    /\ schemaCache' = With(schemaCache, name, Cached(name))
    /\ triggerCache' = IF triggerCache = None THEN tree.triggers ELSE triggerCache
    /\ tree' = tr
    /\ UNCHANGED <<saved, changes>>

\* insert_values_into: VALUES alone gives one value per visible column and
\* leaves the dropped ones NULL; with a list of columns the others take their
\* DEFAULT.
Positional(def, value) ==
    [i \in 1 .. Len(def.columns) |-> IF i \in Visible(def) THEN value ELSE Null]

Named(def, column, value) == [i \in {VisiblePosition(def, column)} |-> value]

InsertRow(name, rowid, column, value) ==
    /\ name \in DOMAIN schemaCache \/ HasTable(tree, name)
    /\ LET def == Cached(name)
           record == IF column = None THEN Record(def, Positional(def, value))
                     ELSE Record(def, Named(def, column, value))
       IN  /\ column # None => VisiblePosition(def, column) > 0
           /\ \A r \in RowsOf(tree, def.id) : r.rowid # rowid
           /\ RecordValid(def, record)
           /\ UniqueAllows(tree, def, record, rowid)
           /\ Uses(name, [tree EXCEPT
                 !.rows = @ \union {[table |-> def.id, rowid |-> rowid, row |-> record]},
                 !.entries = @ \union EntriesOf(def, record, rowid)])

\* update_row: the old record is read back whole, so the new one is as long as
\* the schema.
UpdateRow(name, rowid, column, value) ==
    /\ name \in DOMAIN schemaCache \/ HasTable(tree, name)
    /\ LET def == Cached(name)
       IN  /\ VisiblePosition(def, column) > 0
           /\ VisiblePosition(def, column) # def.alias
           /\ \E r \in RowsOf(tree, def.id) :
                 LET old == FinishRow(def, r.row)
                     new == [old EXCEPT ![VisiblePosition(def, column)] = value]
                     rest == tree.entries \ EntriesOf(def, old, rowid)
                 IN  /\ r.rowid = rowid
                     /\ RecordValid(def, new)
                     /\ UniqueAllows([tree EXCEPT !.entries = rest], def, new, rowid)
                     /\ Uses(name, [tree EXCEPT
                           !.rows = (@ \ {r}) \union {[r EXCEPT !.row = new]},
                           !.entries = rest \union EntriesOf(def, new, rowid)])

DeleteRow(name, rowid) ==
    /\ name \in DOMAIN schemaCache \/ HasTable(tree, name)
    /\ LET def == Cached(name)
       IN  \E r \in RowsOf(tree, def.id) :
              /\ r.rowid = rowid
              /\ Uses(name, [tree EXCEPT
                    !.rows = @ \ {r},
                    !.entries = @ \ EntriesOf(def, FinishRow(def, r.row), rowid)])

SetSavepoint ==
    /\ saved = None
    /\ changes \in SavepointsAt
    /\ saved' = tree
    /\ UNCHANGED <<tree, schemaCache, triggerCache, changes>>

\* Variant of RollbackTo: the triggers read since the savepoint stay cached.
RollbackToKeepsTriggers ==
    /\ saved # None
    /\ tree' = saved
    /\ schemaCache' = Empty
    /\ UNCHANGED <<triggerCache, saved, changes>>

\* rollback_to: the tree of the savepoint, and nothing derived from the other.
RollbackTo ==
    /\ saved # None
    /\ tree' = saved
    /\ schemaCache' = Empty
    /\ triggerCache' = None
    /\ UNCHANGED <<saved, changes>>

\* COMMIT and the BEGIN of the next transaction.
NewTx ==
    /\ schemaCache' = Empty
    /\ triggerCache' = None
    /\ saved' = None
    /\ UNCHANGED <<tree, changes>>

Tuples(n) == [1 .. n -> ColNames]

SchemaStep ==
    /\ changes < MaxChanges
    /\ \/ \E spec \in TableSpecs : CreateTable(spec)
       \/ \E t \in Names, k \in Kinds, n \in IndexNames, c \in ColNames, u \in BOOLEAN :
             (u => k = "index") /\ CreateIndexOn(t, k, n, c, u)
       \/ \E k \in Kinds : \E n \in DOMAIN tree.refs[k] : DropIndex(k, n)
       \/ \E t \in Names :
             \/ DropTable(t)
             \/ \E col \in NewColumns : AddColumn(t, col)
             \/ \E c, d \in ColNames, w \in {"first", "before", "after"} :
                   (w = "first" => d = c) /\ MoveColumn(t, c, w, d)
             \/ HasTable(tree, t) /\ \E names \in Tuples(Len(tree.tables[t].columns)) : ReorderColumns(t, names)
             \/ \E c, d \in ColNames : RenameColumn(t, c, d)
             \/ \E c \in ColNames : DropColumn(t, c)
             \/ CreateView(t)
             \/ DropView(t)
             \/ DropTrigger(t)
       \/ \E t \in TriggerDefs : CreateTrigger(t)

RowStep ==
    \E t \in Names, n \in 1 .. MaxRow :
        \/ \E i \in Inserts : InsertRow(t, n, i[1], i[2])
        \/ \E u \in Updates : UpdateRow(t, n, u[1], u[2])
        \/ DeleteRow(t, n)

Next == SchemaStep \/ RowStep \/ SetSavepoint \/ RollbackTo \/ NewTx

Spec == Init /\ [][Next]_vars

-----------------------------------------------------------------------------
(* Properties.                                                               *)

\* Tables, views, triggers and both caches name what the statements can name, and
\* a stored row holds values only: DEFAULT is resolved before it is written.
TypeOK ==
    /\ DOMAIN tree.tables \subseteq Names
    /\ tree.views \subseteq Names
    /\ tree.triggers \subseteq TriggerDefs
    /\ \A r \in tree.rows : r.rowid \in 1 .. MaxRow /\ r.row \in Seq(Values)
    /\ DOMAIN schemaCache \subseteq Names
    /\ triggerCache = None \/ triggerCache \subseteq TriggerDefs
    /\ changes \in 0 .. MaxChanges

\* Every schema in the catalog can be read back: whatever sequence of ALTER
\* TABLE wrote it, decode_def accepts it (the order of the columns is a
\* permutation, every index names columns there are) and a second writing
\* changes nothing.
SchemasLoad ==
    \A t \in DOMAIN tree.tables :
        LET def == GetTable(tree, t) IN
        /\ def # Corrupt
        /\ DecodeDef(EncodeDef(def)) = def

\* The caches of the transaction say what the tree says, after every DDL
\* statement and every ROLLBACK TO (table_cached and all_triggers trust them).
CachesFresh ==
    /\ \A t \in DOMAIN schemaCache :
          HasTable(tree, t) /\ schemaCache[t] = GetTable(tree, t)
    /\ triggerCache # None => triggerCache = tree.triggers

\* Every secondary index has exactly one entry per row of its table, with the
\* values a reader of the row sees: also when the row is older than the column,
\* the index than the row, or the schema was altered in between.
EntriesMatchRows ==
    \A t \in DOMAIN tree.tables :
        LET def == GetTable(tree, t) IN
        \A ix \in Secondary(def) :
            {e \in tree.entries : e.id = ix.id} =
                {Entry(ix, FinishRow(def, r.row), r.rowid) : r \in RowsOf(tree, def.id)}

\* No row and no index entry outlives its owner: every row belongs to a table of
\* the catalog and every index entry to an index of one (ids are never given twice,
\* so what a DROP leaves behind would only be found by a table with the same id).
NoOrphans ==
    LET defs == {GetTable(tree, t) : t \in DOMAIN tree.tables} IN
    /\ \A r \in tree.rows : \E d \in defs : d.id = r.table
    /\ \A e \in tree.entries : \E d \in defs : \E ix \in Secondary(d) : ix.id = e.id
    /\ \A c, d \in defs : c.id = d.id => c = d

\* The global name of a secondary index leads to the table that has it (DROP
\* INDEX finds it), and every secondary index has its name.
SecondaryNamesLead ==
    {<<n, tree.refs["index"][n]>> : n \in DOMAIN tree.refs["index"]} =
    UNION {{<<ix.name, t>> : ix \in Secondary(GetTable(tree, t))} : t \in DOMAIN tree.tables}

\* The relational part of the catalog is whole after any sequence of CREATE, ALTER
\* and DROP: every schema can be read back, every row has a table, every entry of a
\* secondary index has its index, and the names of secondary indexes are those of
\* the schemas.  DROP TABLE leaves the triggers of the table and the names and
\* contents of its full-text and vector indexes (catalog.rs:1365-1384); nothing is
\* said of those.
CatalogWhole == TypeOK /\ SchemasLoad /\ NoOrphans /\ SecondaryNamesLead

\* What a row holds survives every change of the schema: no ALTER TABLE, no
\* index and no other statement changes what a column that is visible before and
\* after reads in a row that is not written (ROLLBACK TO aside).
ValuesSurviveAlter ==
    [][tree' # saved /\ tree'.tables # tree.tables =>
         \A r \in tree.rows \intersect tree'.rows :
         \A t \in DOMAIN tree.tables \intersect DOMAIN tree'.tables :
            LET was == GetTable(tree, t)
                is  == GetTable(tree', t)
            IN  was.id = r.table /\ is.id = r.table =>
                  \A n \in ColNames :
                     VisiblePosition(was, n) > 0 /\ VisiblePosition(is, n) > 0 =>
                        FinishRow(is, r.row)[VisiblePosition(is, n)] =
                        FinishRow(was, r.row)[VisiblePosition(was, n)]]_vars
=============================================================================
