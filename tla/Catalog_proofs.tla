--------------------------- MODULE Catalog_proofs ---------------------------
(***************************************************************************)
(* The catalog is whole, its caches are fresh, every index entry is of a    *)
(* row and every row has its entries, and ALTER TABLE keeps what the rows  *)
(* hold: for any tables, columns, indexes, rows and statements.            *)
(***************************************************************************)
EXTENDS SchemaLemmas

----------------------------------------------------------------------------
(***************************************************************************)
(* The invariant.  Its parts speak of the schemas D of the tables, by name. *)
(***************************************************************************)
Defs(tr) == [t \in DOMAIN tr.tables |-> GetTable(tr, t)]

\* The shape of a tree, and the names it has.
TreeShape(tr) ==
    tr = [tables |-> tr.tables, views |-> tr.views, triggers |-> tr.triggers,
          refs |-> tr.refs, next |-> tr.next, rows |-> tr.rows, entries |-> tr.entries]

IsTree(tr) ==
    /\ TreeShape(tr)
    /\ tr.refs = [k \in Kinds |-> tr.refs[k]]
    /\ tr.next \in [Kinds \union {"table"} -> Nat \ {0}]
    /\ DOMAIN tr.tables \subseteq Names
    /\ tr.views \subseteq Names
    /\ tr.triggers \subseteq TriggerDefs

\* Every schema can be read, and the counters are past every id.
Numbered(D, next) ==
    \A t \in DOMAIN D :
        /\ IsDef(D[t]) /\ D[t].id < next["table"]
        /\ \A k \in Kinds : \A ix \in OfKind(D[t], k) : ix.id < next[k]

\* No two tables share an id, no two secondary indexes an id or a name.
Apart(D) ==
    /\ \A t, u \in DOMAIN D : D[t].id = D[u].id => t = u
    /\ \A t, u \in DOMAIN D : \A ix \in Secondary(D[t]), jx \in Secondary(D[u]) :
          ix.id = jx.id \/ ix.name = jx.name => t = u /\ ix = jx

\* The names of the secondary indexes lead to their tables.
NamesLead(D, names) ==
    /\ \A t \in DOMAIN D : \A ix \in Secondary(D[t]) : ix.name \in DOMAIN names /\ names[ix.name] = t
    /\ \A n \in DOMAIN names :
          names[n] \in DOMAIN D /\ \E ix \in Secondary(D[names[n]]) : ix.name = n

\* Every row belongs to a table, which has no other of its rowid.
RowsOwned(D, rows) ==
    /\ \A r \in rows :
          /\ r = [table |-> r.table, rowid |-> r.rowid, row |-> r.row]
          /\ r.rowid \in 1 .. MaxRow /\ r.row \in Seq(Values)
          /\ \E t \in DOMAIN D : D[t].id = r.table
    /\ \A r, q \in rows : r.table = q.table /\ r.rowid = q.rowid => r = q

\* The entry of a row in an index of a schema.
EntryOf(def, ix, r) == Entry(ix, FinishRow(def, r.row), r.rowid)

\* The entries are those of the rows, no more and no less.
EntriesExact(D, rows, entries) ==
    /\ \A e \in entries : \E t \in DOMAIN D : \E ix \in Secondary(D[t]), r \in rows :
          r.table = D[t].id /\ e = EntryOf(D[t], ix, r)
    /\ \A t \in DOMAIN D : \A ix \in Secondary(D[t]), r \in rows :
          r.table = D[t].id => EntryOf(D[t], ix, r) \in entries

TreeInv(tr) ==
    /\ IsTree(tr)
    /\ Numbered(Defs(tr), tr.next)
    /\ Apart(Defs(tr))
    /\ NamesLead(Defs(tr), tr.refs["index"])
    /\ RowsOwned(Defs(tr), tr.rows)
    /\ EntriesExact(Defs(tr), tr.rows, tr.entries)

\* The inductive invariant: the transaction's tree and that of its savepoint are
\* whole, and the caches say what the tree says.
IInv ==
    /\ TreeInv(tree)
    /\ saved # None => TreeInv(saved)
    /\ CachesFresh
    /\ changes \in 0 .. MaxChanges

----------------------------------------------------------------------------
(***************************************************************************)
(* Keys put and removed, and the record of one table rewritten.            *)
(***************************************************************************)
LEMMA WithIs ==
    ASSUME NEW f, NEW k, NEW v
    PROVE  /\ DOMAIN With(f, k, v) = DOMAIN f \union {k}
           /\ With(f, k, v)[k] = v
           /\ \A x \in DOMAIN f : x # k => With(f, k, v)[x] = f[x]
  BY DEF With

LEMMA WithoutIs ==
    ASSUME NEW f, NEW k
    PROVE  /\ DOMAIN Without(f, k) = DOMAIN f \ {k}
           /\ \A x \in DOMAIN f : x # k => Without(f, k)[x] = f[x]
  BY DEF Without

\* A schema that is put is the one that is read.
LEMMA PutTableIs ==
    ASSUME NEW tr, IsTree(tr), NEW n \in Names, NEW def, IsDef(def)
    PROVE  /\ IsTree(PutTable(tr, n, def))
           /\ Defs(PutTable(tr, n, def)) = With(Defs(tr), n, def)
           /\ PutTable(tr, n, def).views = tr.views
           /\ PutTable(tr, n, def).triggers = tr.triggers
           /\ PutTable(tr, n, def).refs = tr.refs
           /\ PutTable(tr, n, def).next = tr.next
           /\ PutTable(tr, n, def).rows = tr.rows
           /\ PutTable(tr, n, def).entries = tr.entries
<1> DEFINE tables == With(tr.tables, n, EncodeDef(def))
           new == PutTable(tr, n, def)
<1>1. tr = [tables |-> tr.tables, views |-> tr.views, triggers |-> tr.triggers,
            refs |-> tr.refs, next |-> tr.next, rows |-> tr.rows, entries |-> tr.entries]
  BY DEF IsTree, TreeShape
<1>2. new = [tr EXCEPT !.tables = tables]
  BY DEF PutTable
<1>3. /\ DOMAIN tables = DOMAIN tr.tables \union {n}
      /\ tables[n] = EncodeDef(def)
      /\ \A t \in DOMAIN tr.tables : t # n => tables[t] = tr.tables[t]
  BY DEF With
<1> HIDE DEF tables, new
<1>4. /\ new = [tables |-> new.tables, views |-> new.views, triggers |-> new.triggers,
                refs |-> new.refs, next |-> new.next, rows |-> new.rows, entries |-> new.entries]
      /\ new.tables = tables /\ new.views = tr.views /\ new.triggers = tr.triggers
      /\ new.refs = tr.refs /\ new.next = tr.next
      /\ new.rows = tr.rows /\ new.entries = tr.entries
  BY <1>1, <1>2
<1>5. IsTree(new)
  BY <1>3, <1>4 DEF IsTree, TreeShape
<1>6. \A t \in DOMAIN tables : GetTable(new, t) = IF t = n THEN def ELSE GetTable(tr, t)
  BY <1>3, <1>4, DecodeEncode DEF GetTable
<1>7. Defs(new) = [t \in DOMAIN tables |-> IF t = n THEN def ELSE GetTable(tr, t)]
  BY <1>4, <1>6 DEF Defs
<1>8. With(Defs(tr), n, def) = [t \in DOMAIN tables |-> IF t = n THEN def ELSE GetTable(tr, t)]
  BY <1>3 DEF With, Defs
<1> QED BY <1>4, <1>5, <1>7, <1>8 DEF new

----------------------------------------------------------------------------
(***************************************************************************)
(* What the rows of a table read.                                          *)
(***************************************************************************)
\* The columns a schema had keep their places and their defaults.
Kept(def, new) ==
    /\ Len(def.columns) <= Len(new.columns)
    /\ \A i \in 1 .. Len(def.columns) : new.columns[i].default = def.columns[i].default
    /\ \A name : VisiblePosition(def, name) # 0 /\ VisiblePosition(new, name) # 0
                    => VisiblePosition(new, name) = VisiblePosition(def, name)

LEMMA KeptReads ==
    ASSUME NEW def, NEW new, IsDef(def), IsDef(new), Kept(def, new), NEW row, NEW i \in 1 .. Len(def.columns)
    PROVE  FinishRow(new, row)[i] = FinishRow(def, row)[i]
<1>1. Len(def.columns) \in Nat /\ Len(new.columns) \in Nat
  BY DefFacts
<1>2. i \in 1 .. Len(new.columns) /\ new.columns[i].default = def.columns[i].default
  BY <1>1 DEF Kept
<1>3. DefaultOf(new.columns[i]) = DefaultOf(def.columns[i])
  BY <1>2 DEF DefaultOf
<1> QED BY <1>2, <1>3 DEF FinishRow

\* An index of a schema names columns of it.
LEMMA IndexColumns ==
    ASSUME NEW def, IsDef(def), NEW k, NEW ix \in OfKind(def, k)
    PROVE  /\ ix.kind = k /\ ix.id \in Nat \ {0}
           /\ \A j \in 1 .. Len(ix.columns) : ix.columns[j] \in 1 .. Len(def.columns)
<1>1. PICK i \in 1 .. Len(def.indexes) : ix = def.indexes[i] /\ def.indexes[i].kind = k
  BY DEF OfKind
<1>2. ix.columns \in Seq(1 .. Len(def.columns)) /\ ix.id \in Nat \ {0}
  BY <1>1 DEF IsDef
<1> QED BY <1>1, <1>2

LEMMA KeptEntry ==
    ASSUME NEW def, NEW new, IsDef(def), IsDef(new), Kept(def, new),
           NEW ix \in Secondary(def), NEW r
    PROVE  EntryOf(new, ix, r) = EntryOf(def, ix, r)
<1>1. \A j \in 1 .. Len(ix.columns) : ix.columns[j] \in 1 .. Len(def.columns)
  BY IndexColumns DEF Secondary
<1>2. \A j \in 1 .. Len(ix.columns) :
         FinishRow(new, r.row)[ix.columns[j]] = FinishRow(def, r.row)[ix.columns[j]]
  BY <1>1, KeptReads
<1>3. IndexValues(ix, FinishRow(new, r.row)) = IndexValues(ix, FinishRow(def, r.row))
  BY <1>2 DEF IndexValues
<1> QED BY <1>3 DEF EntryOf, Entry

LEMMA SameColumnsKept ==
    ASSUME NEW def, NEW new, IsDef(def), new.columns = def.columns
    PROVE  Kept(def, new)
<1>1. Len(def.columns) \in Nat
  BY DefFacts
<1>2. \A name : VisiblePosition(new, name) = VisiblePosition(def, name)
  BY DEF VisiblePosition
<1> QED BY <1>1, <1>2 DEF Kept

LEMMA AlteredKept ==
    ASSUME NEW def, NEW new, Altered(def, new)
    PROVE  /\ IsDef(new) /\ new.id = def.id /\ Kept(def, new)
           /\ \A k : OfKind(new, k) = OfKind(def, k)
  BY DEF Altered, Kept, OfKind

\* What a statement does to the schemas it leaves in the catalog.
AllKept(tr, new) ==
    \A t \in DOMAIN tr.tables \intersect DOMAIN new.tables : Kept(GetTable(tr, t), GetTable(new, t))

----------------------------------------------------------------------------
(***************************************************************************)
(* ALTER TABLE keeps the tree.                                             *)
(***************************************************************************)
\* Two catalogs with the same tables, ids, secondary indexes and entries.
Alike(D, E) ==
    /\ DOMAIN E = DOMAIN D
    /\ \A t \in DOMAIN D : IsDef(E[t]) /\ E[t].id = D[t].id
    /\ \A t \in DOMAIN D : Secondary(E[t]) = Secondary(D[t])
    /\ \A t \in DOMAIN D : \A ix \in Secondary(D[t]) : \A r : EntryOf(E[t], ix, r) = EntryOf(D[t], ix, r)

LEMMA AlikeKeeps ==
    ASSUME NEW D, NEW E, Alike(D, E)
    PROVE  /\ Apart(D) => Apart(E)
           /\ \A names : NamesLead(D, names) => NamesLead(E, names)
           /\ \A rows : RowsOwned(D, rows) => RowsOwned(E, rows)
           /\ \A rows, entries : EntriesExact(D, rows, entries) => EntriesExact(E, rows, entries)
<1>1. DOMAIN E = DOMAIN D /\ \A t \in DOMAIN D : IsDef(E[t]) /\ E[t].id = D[t].id
  BY DEF Alike
<1>3. \A t \in DOMAIN D : Secondary(E[t]) = Secondary(D[t])
  BY DEF Alike
<1>4. \A t \in DOMAIN D : \A ix \in Secondary(D[t]) : \A r : EntryOf(E[t], ix, r) = EntryOf(D[t], ix, r)
  BY DEF Alike
<1>6. Apart(D) => Apart(E)
  BY <1>1, <1>3 DEF Apart
<1>7. \A names : NamesLead(D, names) => NamesLead(E, names)
  BY <1>1, <1>3 DEF NamesLead
<1>8. \A rows : RowsOwned(D, rows) => RowsOwned(E, rows)
  BY <1>1 DEF RowsOwned
<1>9. ASSUME NEW rows, NEW entries, EntriesExact(D, rows, entries)
      PROVE  EntriesExact(E, rows, entries)
  <2>1. ASSUME NEW e \in entries
        PROVE  \E t \in DOMAIN E : \E ix \in Secondary(E[t]), r \in rows :
                  r.table = E[t].id /\ e = EntryOf(E[t], ix, r)
    <3>1. PICK t \in DOMAIN D : \E ix \in Secondary(D[t]), r \in rows :
                  r.table = D[t].id /\ e = EntryOf(D[t], ix, r)
      BY <1>9 DEF EntriesExact
    <3>2. PICK ix \in Secondary(D[t]), r \in rows : r.table = D[t].id /\ e = EntryOf(D[t], ix, r)
      BY <3>1
    <3>3. t \in DOMAIN E /\ ix \in Secondary(E[t]) /\ r.table = E[t].id /\ e = EntryOf(E[t], ix, r)
      BY <3>2, <1>1, <1>3, <1>4
    <3> QED BY <3>3
  <2>2. ASSUME NEW t \in DOMAIN E, NEW ix \in Secondary(E[t]), NEW r \in rows, r.table = E[t].id
        PROVE  EntryOf(E[t], ix, r) \in entries
    <3>1. t \in DOMAIN D /\ ix \in Secondary(D[t]) /\ r.table = D[t].id
      BY <2>2, <1>1, <1>3
    <3>2. EntryOf(D[t], ix, r) \in entries
      BY <3>1, <1>9 DEF EntriesExact
    <3> QED BY <3>1, <3>2, <1>4
  <2> QED BY <2>1, <2>2 DEF EntriesExact
<1> QED BY <1>6, <1>7, <1>8, <1>9

LEMMA DefOf ==
    ASSUME NEW tr, TreeInv(tr), NEW n \in DOMAIN tr.tables
    PROVE  /\ n \in Names /\ n \in DOMAIN Defs(tr) /\ Defs(tr)[n] = GetTable(tr, n)
           /\ IsDef(GetTable(tr, n))
<1>1. n \in DOMAIN Defs(tr) /\ Defs(tr)[n] = GetTable(tr, n)
  BY DEF Defs
<1>2. IsDef(Defs(tr)[n])
  BY <1>1 DEF TreeInv, Numbered
<1> QED BY <1>1, <1>2 DEF TreeInv, IsTree

\* Only the tables with a schema that was put can have lost a column.
LEMMA PutKept ==
    ASSUME NEW tr, NEW tr2, NEW n, NEW new, TreeInv(tr), Defs(tr2) = With(Defs(tr), n, new),
           n \in DOMAIN tr.tables => Kept(GetTable(tr, n), new)
    PROVE  AllKept(tr, tr2)
<1>1. ASSUME NEW t \in DOMAIN tr.tables, t \in DOMAIN tr2.tables
      PROVE  Kept(GetTable(tr, t), GetTable(tr2, t))
  <2>1. Defs(tr)[t] = GetTable(tr, t) /\ Defs(tr2)[t] = GetTable(tr2, t) /\ t \in DOMAIN Defs(tr)
    BY <1>1 DEF Defs
  <2>2. CASE t = n
    <3> DEFINE D == Defs(tr)
    <3> HIDE DEF D
    <3>1. Defs(tr2) = With(D, n, new) /\ t \in DOMAIN D
      BY <2>1 DEF D
    <3>2. GetTable(tr2, t) = new
      BY <3>1, <2>1, <2>2 DEF With
    <3> QED BY <3>2, <2>2
  <2>3. CASE t # n
    <3>1. GetTable(tr2, t) = GetTable(tr, t)
      <4> DEFINE D == Defs(tr)
      <4> HIDE DEF D
      <4>1. Defs(tr2) = With(D, n, new) /\ t \in DOMAIN D /\ D[t] = GetTable(tr, t)
        BY <2>1 DEF D
      <4> QED BY <4>1, <2>1, <2>3 DEF With
    <3>2. IsDef(GetTable(tr, t))
      BY DefOf
    <3> QED BY <3>1, <3>2, SameColumnsKept
  <2> QED BY <2>2, <2>3
<1> QED BY <1>1 DEF AllKept

LEMMA AlterKeeps ==
    ASSUME NEW tr, TreeInv(tr), NEW n \in DOMAIN tr.tables, NEW new, Altered(GetTable(tr, n), new)
    PROVE  /\ TreeInv(PutTable(tr, n, new))
           /\ PutTable(tr, n, new).triggers = tr.triggers
           /\ AllKept(tr, PutTable(tr, n, new))
<1> DEFINE D == Defs(tr)
           E == With(D, n, new)
           tr2 == PutTable(tr, n, new)
<1>1. IsTree(tr) /\ n \in Names /\ n \in DOMAIN D /\ D[n] = GetTable(tr, n) /\ IsDef(D[n])
  BY DefOf DEF TreeInv
<1>2. /\ IsDef(new) /\ new.id = D[n].id /\ Kept(D[n], new)
      /\ \A k : OfKind(new, k) = OfKind(D[n], k)
  BY <1>1, AlteredKept
<1>3. /\ IsTree(tr2) /\ Defs(tr2) = E /\ tr2.refs = tr.refs /\ tr2.next = tr.next
      /\ tr2.rows = tr.rows /\ tr2.entries = tr.entries /\ tr2.triggers = tr.triggers
  BY <1>1, <1>2, PutTableIs
<1>4. DOMAIN E = DOMAIN D /\ E[n] = new /\ \A t \in DOMAIN D : t # n => E[t] = D[t]
  <2> HIDE DEF D
  <2> QED BY <1>1 DEF With
<1>5. \A t \in DOMAIN D : IsDef(D[t])
  BY DEF TreeInv, Numbered
<1>6. AllKept(tr, tr2)
  BY <1>1, <1>2, <1>3, PutKept
<1>7. TreeInv(tr) <=> /\ IsTree(tr) /\ Numbered(D, tr.next) /\ Apart(D)
                      /\ NamesLead(D, tr.refs["index"]) /\ RowsOwned(D, tr.rows)
                      /\ EntriesExact(D, tr.rows, tr.entries)
  BY DEF TreeInv
<1> HIDE DEF D, E, tr2
<1>8. Alike(D, E)
  <2>1. \A t \in DOMAIN D : IsDef(E[t]) /\ E[t].id = D[t].id
    BY <1>2, <1>4, <1>5
  <2>2. \A t \in DOMAIN D : Secondary(E[t]) = Secondary(D[t])
    BY <1>2, <1>4 DEF Secondary
  <2>3. ASSUME NEW t \in DOMAIN D, NEW ix \in Secondary(D[t]), NEW r
        PROVE  EntryOf(E[t], ix, r) = EntryOf(D[t], ix, r)
    BY <1>1, <1>2, <1>4, KeptEntry
  <2> QED BY <2>1, <2>2, <2>3, <1>4 DEF Alike
<1>9. Numbered(E, tr.next)
  BY <1>1, <1>2, <1>4, <1>7 DEF Numbered
<1>10. TreeInv(tr2)
  BY <1>3, <1>7, <1>8, <1>9, AlikeKeeps DEF TreeInv
<1> QED BY <1>3, <1>6, <1>10 DEF tr2

----------------------------------------------------------------------------
(***************************************************************************)
(* CREATE INDEX and DROP INDEX keep the tree.                              *)
(***************************************************************************)
LEMMA SameColumnsEntry ==
    ASSUME NEW def, NEW new, new.columns = def.columns, NEW ix, NEW r
    PROVE  EntryOf(new, ix, r) = EntryOf(def, ix, r)
  BY DEF EntryOf, FinishRow

\* The catalog E is D but for the indexes of the table n.
Reindexed(D, E, n) ==
    /\ n \in DOMAIN D /\ DOMAIN E = DOMAIN D
    /\ \A t \in DOMAIN D : t # n => E[t] = D[t]
    /\ IsDef(E[n]) /\ E[n].id = D[n].id /\ E[n].columns = D[n].columns

LEMMA ReindexedIs ==
    ASSUME NEW D, NEW E, NEW n, Reindexed(D, E, n)
    PROVE  /\ DOMAIN E = DOMAIN D
           /\ \A t \in DOMAIN D : E[t].id = D[t].id
           /\ \A t \in DOMAIN D : \A ix, r : EntryOf(E[t], ix, r) = EntryOf(D[t], ix, r)
           /\ \A t \in DOMAIN D : IsDef(D[t]) => IsDef(E[t])
<1>1. \A t \in DOMAIN D : E[t].id = D[t].id /\ E[t].columns = D[t].columns
  BY DEF Reindexed
<1>2. \A t \in DOMAIN D : \A ix, r : EntryOf(E[t], ix, r) = EntryOf(D[t], ix, r)
  BY <1>1, SameColumnsEntry
<1> QED BY <1>1, <1>2 DEF Reindexed

\* A full-text or a vector index is no matter of the secondary indexes.
LEMMA OtherReindexed ==
    ASSUME NEW D, NEW E, NEW n, Reindexed(D, E, n), \A t \in DOMAIN D : IsDef(D[t]),
           Secondary(E[n]) = Secondary(D[n])
    PROVE  Alike(D, E)
<1>1. \A t \in DOMAIN D : Secondary(E[t]) = Secondary(D[t])
  BY DEF Reindexed
<1>2. /\ \A t \in DOMAIN D : IsDef(E[t]) /\ E[t].id = D[t].id
      /\ \A t \in DOMAIN D : \A ix, r : EntryOf(E[t], ix, r) = EntryOf(D[t], ix, r)
      /\ DOMAIN E = DOMAIN D
  BY ReindexedIs
<1> QED BY <1>1, <1>2 DEF Alike

\* The entries CREATE INDEX makes for the rows of the table n.
AddedFor(D, n, ix, rows) == {EntryOf(D[n], ix, r) : r \in {q \in rows : q.table = D[n].id}}

\* The table n has one secondary index more.
LEMMA SecondaryMore ==
    ASSUME NEW D, NEW E, NEW n, Reindexed(D, E, n), \A t \in DOMAIN D : IsDef(D[t]),
           NEW ix, Secondary(E[n]) = Secondary(D[n]) \union {ix},
           Apart(D), \A t \in DOMAIN D : \A jx \in Secondary(D[t]) : jx.id # ix.id,
           NEW names, NamesLead(D, names), ix.name \notin DOMAIN names,
           NEW rows, NEW entries, RowsOwned(D, rows), EntriesExact(D, rows, entries)
    PROVE  /\ Apart(E)
           /\ NamesLead(E, With(names, ix.name, n))
           /\ RowsOwned(E, rows)
           /\ EntriesExact(E, rows, entries \union AddedFor(D, n, ix, rows))
<1>1. /\ n \in DOMAIN D /\ DOMAIN E = DOMAIN D
      /\ \A t \in DOMAIN D : E[t].id = D[t].id
      /\ \A t \in DOMAIN D : \A jx, r : EntryOf(E[t], jx, r) = EntryOf(D[t], jx, r)
  BY ReindexedIs DEF Reindexed
<1>2. \A t \in DOMAIN D : \A jx : jx \in Secondary(E[t]) <=> jx \in Secondary(D[t]) \/ (t = n /\ jx = ix)
  BY DEF Reindexed
<1>3. \A t \in DOMAIN D : \A jx \in Secondary(D[t]) : jx.name \in DOMAIN names /\ jx.name # ix.name
  BY DEF NamesLead
<1>4. Apart(E)
  <2>1. ASSUME NEW t \in DOMAIN E, NEW u \in DOMAIN E, NEW jx \in Secondary(E[t]), NEW kx \in Secondary(E[u]),
               jx.id = kx.id \/ jx.name = kx.name
        PROVE  t = u /\ jx = kx
    <3>1. CASE jx \in Secondary(D[t]) /\ kx \in Secondary(D[u])
      BY <3>1, <2>1, <1>1 DEF Apart
    <3>2. CASE jx \in Secondary(D[t]) /\ u = n /\ kx = ix
      BY <3>2, <2>1, <1>1, <1>3
    <3>3. CASE t = n /\ jx = ix /\ kx \in Secondary(D[u])
      BY <3>3, <2>1, <1>1, <1>3
    <3>4. CASE t = n /\ jx = ix /\ u = n /\ kx = ix
      BY <3>4
    <3> QED BY <3>1, <3>2, <3>3, <3>4, <1>1, <1>2
  <2>2. \A t, u \in DOMAIN E : E[t].id = E[u].id => t = u
    BY <1>1 DEF Apart
  <2> QED BY <2>1, <2>2 DEF Apart
<1>5. NamesLead(E, With(names, ix.name, n))
  <2> DEFINE new == With(names, ix.name, n)
  <2>1. /\ DOMAIN new = DOMAIN names \union {ix.name} /\ new[ix.name] = n
        /\ \A m \in DOMAIN names : m # ix.name /\ new[m] = names[m]
    BY DEF With
  <2> HIDE DEF new
  <2>2. ASSUME NEW t \in DOMAIN E, NEW jx \in Secondary(E[t])
        PROVE  jx.name \in DOMAIN new /\ new[jx.name] = t
    <3>1. CASE jx \in Secondary(D[t])
      <4>1. jx.name \in DOMAIN names /\ names[jx.name] = t
        BY <3>1, <1>1 DEF NamesLead
      <4> QED BY <4>1, <2>1
    <3>2. CASE t = n /\ jx = ix
      BY <3>2, <2>1
    <3> QED BY <3>1, <3>2, <1>1, <1>2
  <2>3. ASSUME NEW m \in DOMAIN new
        PROVE  new[m] \in DOMAIN E /\ \E jx \in Secondary(E[new[m]]) : jx.name = m
    <3>1. CASE m \in DOMAIN names
      <4>1. names[m] \in DOMAIN D /\ \E jx \in Secondary(D[names[m]]) : jx.name = m
        BY <3>1 DEF NamesLead
      <4>2. new[m] = names[m]
        BY <3>1, <2>1
      <4> QED BY <4>1, <4>2, <1>1, <1>2
    <3>2. CASE m = ix.name
      BY <3>2, <2>1, <1>1, <1>2
    <3> QED BY <3>1, <3>2, <2>1
  <2>4. NamesLead(E, new)
    BY <2>2, <2>3 DEF NamesLead
  <2> QED BY <2>4 DEF new
<1>6. RowsOwned(E, rows)
  BY <1>1 DEF RowsOwned
<1>7. EntriesExact(E, rows, entries \union AddedFor(D, n, ix, rows))
  <2> DEFINE more == AddedFor(D, n, ix, rows)
             new == entries \union more
  <2>1. ASSUME NEW e \in new
        PROVE  \E t \in DOMAIN E : \E jx \in Secondary(E[t]), r \in rows :
                  r.table = E[t].id /\ e = EntryOf(E[t], jx, r)
    <3>1. CASE e \in entries
      <4>1. PICK t \in DOMAIN D : \E jx \in Secondary(D[t]), r \in rows :
                    r.table = D[t].id /\ e = EntryOf(D[t], jx, r)
        BY <3>1 DEF EntriesExact
      <4>2. PICK jx \in Secondary(D[t]), r \in rows : r.table = D[t].id /\ e = EntryOf(D[t], jx, r)
        BY <4>1
      <4>3. t \in DOMAIN E /\ jx \in Secondary(E[t]) /\ r.table = E[t].id /\ e = EntryOf(E[t], jx, r)
        BY <4>2, <1>1, <1>2
      <4> QED BY <4>3
    <3>2. CASE e \in more
      <4>1. PICK r \in rows : r.table = D[n].id /\ e = EntryOf(D[n], ix, r)
        BY <3>2 DEF AddedFor
      <4>2. n \in DOMAIN E /\ ix \in Secondary(E[n]) /\ r.table = E[n].id /\ e = EntryOf(E[n], ix, r)
        BY <4>1, <1>1, <1>2
      <4> QED BY <4>2
    <3> QED BY <3>1, <3>2
  <2>2. ASSUME NEW t \in DOMAIN E, NEW jx \in Secondary(E[t]), NEW r \in rows, r.table = E[t].id
        PROVE  EntryOf(E[t], jx, r) \in new
    <3>1. t \in DOMAIN D /\ r.table = D[t].id /\ EntryOf(E[t], jx, r) = EntryOf(D[t], jx, r)
      BY <2>2, <1>1
    <3>2. CASE jx \in Secondary(D[t])
      <4>1. EntryOf(D[t], jx, r) \in entries
        BY <3>1, <3>2 DEF EntriesExact
      <4> QED BY <3>1, <4>1
    <3>3. CASE t = n /\ jx = ix
      <4>1. EntryOf(D[n], ix, r) \in more
        BY <3>1, <3>3 DEF AddedFor
      <4> QED BY <3>1, <3>3, <4>1
    <3> QED BY <3>1, <3>2, <3>3, <1>2
  <2> HIDE DEF new
  <2>3. EntriesExact(E, rows, new)
    BY <2>1, <2>2 DEF EntriesExact
  <2> QED BY <2>3 DEF new, more
<1> QED BY <1>4, <1>5, <1>6, <1>7

\* The entries that are not of an index.
EntriesWithout(entries, id) == {e \in entries : e.id # id}

\* The table n has one secondary index less.
LEMMA SecondaryLess ==
    ASSUME NEW D, NEW E, NEW n, Reindexed(D, E, n), \A t \in DOMAIN D : IsDef(D[t]),
           NEW ix \in Secondary(D[n]), Secondary(E[n]) = Secondary(D[n]) \ {ix},
           Apart(D), NEW names, NamesLead(D, names),
           NEW rows, NEW entries, RowsOwned(D, rows), EntriesExact(D, rows, entries)
    PROVE  /\ Apart(E)
           /\ NamesLead(E, Without(names, ix.name))
           /\ RowsOwned(E, rows)
           /\ EntriesExact(E, rows, EntriesWithout(entries, ix.id))
<1>1. /\ n \in DOMAIN D /\ DOMAIN E = DOMAIN D
      /\ \A t \in DOMAIN D : E[t].id = D[t].id
      /\ \A t \in DOMAIN D : \A jx, r : EntryOf(E[t], jx, r) = EntryOf(D[t], jx, r)
  BY ReindexedIs DEF Reindexed
<1>2. \A t \in DOMAIN D : \A jx : jx \in Secondary(E[t]) => jx \in Secondary(D[t])
  BY DEF Reindexed
<1>3. \A t, u \in DOMAIN D : \A jx \in Secondary(D[t]), kx \in Secondary(D[u]) :
         jx.id = kx.id \/ jx.name = kx.name => t = u /\ jx = kx
  BY DEF Apart
<1>4. \A t \in DOMAIN D : \A jx \in Secondary(E[t]) : jx.id # ix.id /\ jx.name # ix.name
  <2> TAKE t \in DOMAIN D
  <2> TAKE jx \in Secondary(E[t])
  <2>1. t = n => jx # ix
    OBVIOUS
  <2> QED BY <2>1, <1>1, <1>2, <1>3
<1>5. \A t \in DOMAIN D : \A jx \in Secondary(D[t]) : jx.id # ix.id \/ jx.name # ix.name => jx \in Secondary(E[t])
  BY DEF Reindexed
<1>6. Apart(E)
  <2>1. \A t, u \in DOMAIN E : E[t].id = E[u].id => t = u
    BY <1>1 DEF Apart
  <2> QED BY <2>1, <1>1, <1>2, <1>3 DEF Apart
<1>7. NamesLead(E, Without(names, ix.name))
  <2> DEFINE new == Without(names, ix.name)
  <2>1. /\ DOMAIN new = DOMAIN names \ {ix.name}
        /\ \A m \in DOMAIN names : m # ix.name => new[m] = names[m]
    BY DEF Without
  <2> HIDE DEF new
  <2>2. ASSUME NEW t \in DOMAIN E, NEW jx \in Secondary(E[t])
        PROVE  jx.name \in DOMAIN new /\ new[jx.name] = t
    <3>1. jx.name \in DOMAIN names /\ names[jx.name] = t
      BY <1>1, <1>2 DEF NamesLead
    <3> QED BY <3>1, <2>1, <1>1, <1>4
  <2>3. ASSUME NEW m \in DOMAIN new
        PROVE  new[m] \in DOMAIN E /\ \E jx \in Secondary(E[new[m]]) : jx.name = m
    <3>1. PICK jx \in Secondary(D[names[m]]) : names[m] \in DOMAIN D /\ jx.name = m
      BY <2>1 DEF NamesLead
    <3>2. new[m] = names[m] /\ jx.name # ix.name
      BY <3>1, <2>1
    <3> QED BY <3>1, <3>2, <1>1, <1>5
  <2>4. NamesLead(E, new)
    BY <2>2, <2>3 DEF NamesLead
  <2> QED BY <2>4 DEF new
<1>8. RowsOwned(E, rows)
  BY <1>1 DEF RowsOwned
<1>9. EntriesExact(E, rows, EntriesWithout(entries, ix.id))
  <2>1. ASSUME NEW e \in entries, e.id # ix.id
        PROVE  \E t \in DOMAIN E : \E jx \in Secondary(E[t]), r \in rows :
                  r.table = E[t].id /\ e = EntryOf(E[t], jx, r)
    <3>1. PICK t \in DOMAIN D : \E jx \in Secondary(D[t]), r \in rows :
                  r.table = D[t].id /\ e = EntryOf(D[t], jx, r)
      BY DEF EntriesExact
    <3>2. PICK jx \in Secondary(D[t]), r \in rows : r.table = D[t].id /\ e = EntryOf(D[t], jx, r)
      BY <3>1
    <3>3. jx.id # ix.id
      BY <3>2, <2>1 DEF EntryOf, Entry
    <3>4. t \in DOMAIN E /\ jx \in Secondary(E[t]) /\ r.table = E[t].id /\ e = EntryOf(E[t], jx, r)
      BY <3>2, <3>3, <1>1, <1>5
    <3> QED BY <3>4
  <2>2. ASSUME NEW t \in DOMAIN E, NEW jx \in Secondary(E[t]), NEW r \in rows, r.table = E[t].id
        PROVE  EntryOf(E[t], jx, r) \in entries /\ EntryOf(E[t], jx, r).id # ix.id
    <3>1. t \in DOMAIN D /\ r.table = D[t].id /\ EntryOf(E[t], jx, r) = EntryOf(D[t], jx, r)
      BY <2>2, <1>1
    <3>2. jx \in Secondary(D[t]) /\ jx.id # ix.id
      BY <3>1, <1>2, <1>4
    <3>3. EntryOf(D[t], jx, r) \in entries
      BY <3>1, <3>2 DEF EntriesExact
    <3>4. EntryOf(D[t], jx, r).id = jx.id
      BY DEF EntryOf, Entry
    <3> QED BY <3>1, <3>2, <3>3, <3>4
  <2> QED BY <2>1, <2>2 DEF EntriesExact, EntriesWithout
<1> QED BY <1>6, <1>7, <1>8, <1>9

\* What CREATE INDEX asks of its arguments (CanCreateIndex).
IndexFits(tr, table, kind, name, columns) ==
    /\ table \in DOMAIN tr.tables /\ kind \in Kinds
    /\ name \notin DOMAIN tr.refs[kind]
    /\ columns \in Seq(1 .. Len(GetTable(tr, table).columns)) \ {<<>>}

LEMMA CreateIndexKeeps ==
    ASSUME NEW tr, TreeInv(tr), NEW table, NEW kind, NEW name, NEW columns, NEW unique,
           IndexFits(tr, table, kind, name, columns)
    PROVE  LET tr2 == CreateIndexIn(tr, table, kind, name, columns, unique) IN
           /\ TreeInv(tr2)
           /\ tr2.triggers = tr.triggers /\ tr2.views = tr.views
           /\ AllKept(tr, tr2)
           /\ DOMAIN tr2.tables = DOMAIN tr.tables
           /\ \A t \in DOMAIN tr.tables : GetTable(tr2, t).columns = GetTable(tr, t).columns
           /\ DOMAIN tr2.refs["index"] \subseteq DOMAIN tr.refs["index"] \union {name}
<1> DEFINE D == Defs(tr)
           def == GetTable(tr, table)
           ix == [kind |-> kind, name |-> name, id |-> tr.next[kind],
                  columns |-> columns, unique |-> unique]
           next == [tr.next EXCEPT ![kind] = @ + 1]
           refs == [tr.refs EXCEPT ![kind] = With(@, name, table)]
           added == {Entry(ix, FinishRow(def, r.row), r.rowid) : r \in RowsOf(tr, def.id)}
           entries == tr.entries \union (IF kind = "index" THEN added ELSE {})
           base == [tr EXCEPT !.next = next, !.refs = refs, !.entries = entries]
           new == [def EXCEPT !.indexes = Append(@, ix)]
           tr2 == PutTable(base, table, new)
           E == With(D, table, new)
<1>1. CreateIndexIn(tr, table, kind, name, columns, unique) = tr2
  BY DEF CreateIndexIn
<1>2. /\ IsTree(tr) /\ Numbered(D, tr.next) /\ Apart(D) /\ NamesLead(D, tr.refs["index"])
      /\ RowsOwned(D, tr.rows) /\ EntriesExact(D, tr.rows, tr.entries)
  BY DEF TreeInv
<1>3. table \in Names /\ table \in DOMAIN D /\ D[table] = def /\ IsDef(def)
  BY DefOf DEF IndexFits
<1>4. /\ kind \in Kinds /\ name \notin DOMAIN tr.refs[kind]
      /\ columns \in Seq(1 .. Len(def.columns)) \ {<<>>}
  BY DEF IndexFits
<1>5. ix.kind = kind /\ ix.name = name /\ ix.id = tr.next[kind] /\ ix.columns = columns
  OBVIOUS
<1>6. added = AddedFor(D, table, ix, tr.rows)
  BY <1>3 DEF RowsOf, EntryOf, AddedFor
<1>7. tr.next \in [Kinds \union {"table"} -> Nat \ {0}] /\ tr.refs = [k \in Kinds |-> tr.refs[k]]
  BY <1>2 DEF IsTree
<1>a. next \in [Kinds \union {"table"} -> Nat \ {0}] /\ refs = [k \in Kinds |-> refs[k]]
  <2>1. kind \in Kinds
    BY <1>4
  <2>2. tr.next[kind] + 1 \in Nat \ {0}
    BY <2>1, <1>7
  <2> QED BY <2>1, <2>2, <1>7
<1>b. /\ TreeShape(base) /\ base.tables = tr.tables /\ base.views = tr.views
      /\ base.triggers = tr.triggers /\ base.refs = refs /\ base.next = next
      /\ base.rows = tr.rows /\ base.entries = entries
  <2>1. TreeShape(tr)
    BY <1>2 DEF IsTree
  <2>2. base = [tr EXCEPT !.next = next, !.refs = refs, !.entries = entries]
    OBVIOUS
  <2> HIDE DEF next, refs, entries, base
  <2> QED BY <2>1, <2>2 DEF TreeShape
<1>c. \A k \in Kinds \union {"table"} :
         next[k] = (IF k = kind THEN tr.next[k] + 1 ELSE tr.next[k]) /\ tr.next[k] \in Nat
  BY <1>4, <1>7
<1>d. \A k \in Kinds : refs[k] = IF k = kind THEN With(tr.refs[kind], name, table) ELSE tr.refs[k]
  BY <1>4, <1>7
<1>e. entries = tr.entries \union (IF kind = "index" THEN added ELSE {})
  OBVIOUS
<1>f. new = [def EXCEPT !.indexes = Append(@, ix)]
  OBVIOUS
<1> HIDE DEF D, ix, def, added, next, refs, entries, base, new
<1>8. /\ \A t \in DOMAIN D : IsDef(D[t]) /\ D[t].id < tr.next["table"]
      /\ \A t \in DOMAIN D : \A k \in Kinds : \A jx \in OfKind(D[t], k) : jx.id < tr.next[k]
  BY <1>2 DEF Numbered
<1>9. /\ IsDef(new) /\ new.id = def.id /\ new.columns = def.columns
      /\ \A k : OfKind(new, k) = OfKind(def, k) \union (IF k = kind THEN {ix} ELSE {})
  <2>1. \A jx \in OfKind(def, kind) : jx.id # ix.id
    <3> TAKE jx \in OfKind(def, kind)
    <3>1. jx.id < tr.next[kind] /\ jx.id \in Nat /\ tr.next[kind] \in Nat
      BY <1>3, <1>4, <1>7, <1>8, IndexColumns
    <3> QED BY <3>1, <1>5
  <2>2. ix.kind \in Kinds /\ ix.id \in Nat \ {0} /\ ix.columns \in Seq(1 .. Len(def.columns)) \ {<<>>}
    BY <1>4, <1>5, <1>7
  <2>3. \A jx \in OfKind(def, ix.kind) : jx.id # ix.id
    BY <2>1, <1>5
  <2>4. IsDef(def)
    BY <1>3
  <2>5. WithIndexes(def, new, Append(def.indexes, ix))
    BY <2>4, <1>f, WithIndexesIs
  <2>6. IsDef(new) /\ \A k : OfKind(new, k) = OfKind(def, k) \union (IF k = ix.kind THEN {ix} ELSE {})
    BY <2>2, <2>3, <2>4, <2>5, AddIndexIs
  <2> QED BY <2>5, <2>6, <1>5 DEF WithIndexes
<1>10. /\ IsTree(base) /\ base.tables = tr.tables /\ base.views = tr.views
       /\ base.triggers = tr.triggers /\ base.refs = refs /\ base.next = next
       /\ base.rows = tr.rows /\ base.entries = entries
  BY <1>a, <1>b, <1>2 DEF IsTree
<1>11. Defs(base) = D
  BY <1>10 DEF Defs, GetTable, D
<1>12. /\ IsTree(tr2) /\ Defs(tr2) = E /\ tr2.views = tr.views /\ tr2.triggers = tr.triggers
       /\ tr2.refs = refs /\ tr2.next = next /\ tr2.rows = tr.rows /\ tr2.entries = entries
  BY <1>3, <1>9, <1>10, <1>11, PutTableIs
<1>13. DOMAIN E = DOMAIN D /\ E[table] = new /\ \A t \in DOMAIN D : t # table => E[t] = D[t]
  BY <1>3 DEF With
<1>14. AllKept(tr, tr2)
  <2>1. Kept(def, new)
    BY <1>3, <1>9, SameColumnsKept
  <2> QED BY <2>1, <1>12, PutKept DEF D, def
<1>15. DOMAIN tr2.tables = DOMAIN tr.tables /\ GetTable(tr2, table) = new
  <2>1. DOMAIN Defs(tr2) = DOMAIN tr2.tables /\ DOMAIN Defs(tr) = DOMAIN tr.tables
    BY DEF Defs
  <2>2. DOMAIN tr2.tables = DOMAIN tr.tables
    BY <2>1, <1>12, <1>13 DEF D
  <2>3. Defs(tr2)[table] = GetTable(tr2, table)
    BY <2>1, <1>3, <1>12, <1>13 DEF Defs
  <2> QED BY <2>2, <2>3, <1>12, <1>13
<1> HIDE DEF tr2, E
<1>16. Reindexed(D, E, table)
  BY <1>3, <1>9, <1>13 DEF Reindexed
<1>17. Numbered(E, next)
  <2>2. "table" \notin Kinds
    BY DEF Kinds
  <2>3. \A t \in DOMAIN E : IsDef(E[t]) /\ E[t].id < next["table"]
    BY <1>c, <2>2, <1>3, <1>4, <1>8, <1>9, <1>13
  <2>4. ASSUME NEW t \in DOMAIN E, NEW k \in Kinds, NEW jx \in OfKind(E[t], k)
        PROVE  jx.id < next[k]
    <3>1. CASE jx \in OfKind(D[t], k)
      <4>1. jx.id < tr.next[k] /\ jx.id \in Nat
        BY <3>1, <1>8, <1>13, IndexColumns
      <4> QED BY <4>1, <1>c
    <3>2. CASE k = kind /\ jx = ix
      BY <3>2, <1>c, <1>5
    <3>3. jx \in OfKind(D[t], k) \/ (k = kind /\ jx = ix)
      BY <1>3, <1>9, <1>13
    <3> QED BY <3>1, <3>2, <3>3
  <2> QED BY <2>3, <2>4 DEF Numbered
<1>g. "index" \in Kinds
  BY DEF Kinds
<1>18. TreeInv(tr2) /\ DOMAIN tr2.refs["index"] \subseteq DOMAIN tr.refs["index"] \union {name}
  <2>1. CASE kind = "index"
    <3>1. Secondary(E[table]) = Secondary(D[table]) \union {ix}
      BY <1>3, <1>9, <1>13, <2>1 DEF Secondary
    <3>2. \A t \in DOMAIN D : \A jx \in Secondary(D[t]) : jx.id # ix.id
      <4> TAKE t \in DOMAIN D
      <4> TAKE jx \in Secondary(D[t])
      <4>1. jx.id < tr.next[kind] /\ jx.id \in Nat /\ tr.next[kind] \in Nat
        BY <1>4, <1>7, <1>8, <2>1, IndexColumns DEF Secondary
      <4> QED BY <4>1, <1>5
    <3>3. ix.name \notin DOMAIN tr.refs["index"]
      BY <1>4, <1>5, <2>1
    <3>4. \A t \in DOMAIN D : IsDef(D[t])
      BY <1>8
    <3>5. /\ Apart(E) /\ NamesLead(E, With(tr.refs["index"], ix.name, table)) /\ RowsOwned(E, tr.rows)
          /\ EntriesExact(E, tr.rows, tr.entries \union AddedFor(D, table, ix, tr.rows))
      BY <3>1, <3>2, <3>3, <3>4, <1>2, <1>16, SecondaryMore
    <3>6. tr2.refs["index"] = With(tr.refs["index"], ix.name, table)
      BY <1>5, <1>d, <1>g, <1>12, <2>1
    <3>7. tr2.entries = tr.entries \union AddedFor(D, table, ix, tr.rows)
      BY <1>6, <1>e, <1>12, <2>1
    <3>8. TreeInv(tr2)
      BY <3>5, <3>6, <3>7, <1>12, <1>17 DEF TreeInv
    <3>9. DOMAIN tr2.refs["index"] \subseteq DOMAIN tr.refs["index"] \union {name}
      BY <3>6, <1>5 DEF With
    <3> QED BY <3>8, <3>9
  <2>2. CASE kind # "index"
    <3>1. Secondary(E[table]) = Secondary(D[table])
      BY <1>3, <1>9, <1>13, <2>2 DEF Secondary
    <3>2. Alike(D, E)
      BY <3>1, <1>8, <1>16, OtherReindexed
    <3>3. tr2.refs["index"] = tr.refs["index"] /\ tr2.entries = tr.entries
      BY <1>d, <1>e, <1>g, <1>12, <2>2
    <3>4. TreeInv(tr2)
      BY <3>2, <3>3, <1>2, <1>12, <1>17, AlikeKeeps DEF TreeInv
    <3> QED BY <3>3, <3>4
  <2> QED BY <2>1, <2>2
<1>19. \A t \in DOMAIN tr.tables : GetTable(tr2, t).columns = GetTable(tr, t).columns
  <2> TAKE t \in DOMAIN tr.tables
  <2>1. t \in DOMAIN D /\ D[t] = GetTable(tr, t)
    BY DEF D, Defs
  <2>2. t \in DOMAIN E /\ E[t] = GetTable(tr2, t)
    BY <1>12, <1>15 DEF Defs
  <2> QED BY <2>1, <2>2, <1>3, <1>9, <1>13
<1> QED BY <1>1, <1>12, <1>14, <1>15, <1>18, <1>19

\* The index DROP INDEX finds.
LEMMA IndexPositionIs ==
    ASSUME NEW def, IsDef(def), NEW kind, NEW name
    PROVE  /\ IndexPosition(def, kind, name) \in 0 .. Len(def.indexes)
           /\ IndexPosition(def, kind, name) # 0 =>
                 /\ def.indexes[IndexPosition(def, kind, name)].kind = kind
                 /\ def.indexes[IndexPosition(def, kind, name)].name = name
<1> DEFINE n == Len(def.indexes)
           I == {i \in 1 .. n : def.indexes[i].kind = kind /\ def.indexes[i].name = name}
<1>1. n \in Nat /\ I \in SUBSET (1 .. n)
  BY DEF IsDef
<1>2. IndexPosition(def, kind, name) = IF I # {} THEN Min(I) ELSE 0
  BY DEF IndexPosition, SelectInSeq
<1>3. I # {} => Min(I) \in I
  <2> HIDE DEF I
  <2> QED BY <1>1, MinOfPositions
<1> QED BY <1>1, <1>2, <1>3

LEMMA DropIndexKeeps ==
    ASSUME NEW tr, TreeInv(tr), NEW kind \in Kinds, NEW name \in DOMAIN tr.refs[kind],
           tr.refs[kind][name] \in DOMAIN tr.tables,
           IndexPosition(GetTable(tr, tr.refs[kind][name]), kind, name) > 0
    PROVE  LET tr2 == DropIndexIn(tr, kind, name) IN
           TreeInv(tr2) /\ tr2.triggers = tr.triggers /\ AllKept(tr, tr2)
<1> DEFINE D == Defs(tr)
           table == tr.refs[kind][name]
           def == GetTable(tr, table)
           pos == IndexPosition(def, kind, name)
           ix == def.indexes[pos]
           refs == [tr.refs EXCEPT ![kind] = Without(@, name)]
           entries == IF kind = "index" THEN {e \in tr.entries : e.id # ix.id} ELSE tr.entries
           base == [tr EXCEPT !.refs = refs, !.entries = entries]
           new == [def EXCEPT !.indexes = RemoveAt(@, pos)]
           tr2 == PutTable(base, table, new)
           E == With(D, table, new)
<1>1. DropIndexIn(tr, kind, name) = tr2
  BY DEF DropIndexIn
<1>2. /\ IsTree(tr) /\ Numbered(D, tr.next) /\ Apart(D) /\ NamesLead(D, tr.refs["index"])
      /\ RowsOwned(D, tr.rows) /\ EntriesExact(D, tr.rows, tr.entries)
  BY DEF TreeInv
<1>3. table \in Names /\ table \in DOMAIN D /\ D[table] = def /\ IsDef(def)
  BY DefOf
<1>4. pos \in 1 .. Len(def.indexes) /\ ix.kind = kind /\ ix.name = name
  <2>1. pos > 0
    OBVIOUS
  <2>2. /\ pos \in 0 .. Len(def.indexes)
        /\ pos # 0 => ix.kind = kind /\ ix.name = name
    BY <1>3, IndexPositionIs
  <2> HIDE DEF def, pos, ix
  <2> QED BY <2>1, <2>2
<1>5. tr.refs = [k \in Kinds |-> tr.refs[k]]
  BY <1>2 DEF IsTree
<1>6. refs = [k \in Kinds |-> refs[k]]
      /\ \A k \in Kinds : refs[k] = IF k = kind THEN Without(tr.refs[kind], name) ELSE tr.refs[k]
  BY <1>5
<1>7. entries = IF kind = "index" THEN {e \in tr.entries : e.id # ix.id} ELSE tr.entries
  OBVIOUS
<1>8. new = [def EXCEPT !.indexes = RemoveAt(@, pos)]
  OBVIOUS
<1>9. /\ TreeShape(base) /\ base.tables = tr.tables /\ base.views = tr.views
      /\ base.triggers = tr.triggers /\ base.refs = refs /\ base.next = tr.next
      /\ base.rows = tr.rows /\ base.entries = entries
  <2>1. TreeShape(tr)
    BY <1>2 DEF IsTree
  <2>2. base = [tr EXCEPT !.refs = refs, !.entries = entries]
    OBVIOUS
  <2> HIDE DEF refs, entries, base
  <2> QED BY <2>1, <2>2 DEF TreeShape
<1>a. ix = def.indexes[pos]
  OBVIOUS
<1> HIDE DEF D, def, pos, ix, refs, entries, base, new, table
<1>10. IsTree(base) /\ Defs(base) = D
  BY <1>2, <1>6, <1>9 DEF IsTree, Defs, GetTable, D
<1>11. /\ IsDef(new) /\ new.id = def.id /\ new.columns = def.columns
       /\ \A k : OfKind(new, k) = IF k = kind THEN OfKind(def, k) \ {ix} ELSE OfKind(def, k)
  <2>1. WithIndexes(def, new, RemoveAt(def.indexes, pos))
    BY <1>3, <1>8, WithIndexesIs
  <2>2. /\ IsDef(new)
        /\ \A k : OfKind(new, k) = IF k = def.indexes[pos].kind
                                   THEN OfKind(def, k) \ {def.indexes[pos]} ELSE OfKind(def, k)
    BY <1>3, <1>4, <2>1, RemoveIndexIs
  <2> QED BY <2>1, <2>2, <1>4, <1>a DEF WithIndexes
<1>12. /\ IsTree(tr2) /\ Defs(tr2) = E /\ tr2.triggers = tr.triggers
       /\ tr2.refs = refs /\ tr2.next = tr.next /\ tr2.rows = tr.rows /\ tr2.entries = entries
  BY <1>3, <1>9, <1>10, <1>11, PutTableIs
<1>13. DOMAIN E = DOMAIN D /\ E[table] = new /\ \A t \in DOMAIN D : t # table => E[t] = D[t]
  BY <1>3 DEF With
<1>14. AllKept(tr, tr2)
  <2>1. Kept(def, new)
    BY <1>3, <1>11, SameColumnsKept
  <2> QED BY <2>1, <1>12, PutKept DEF D, def
<1> HIDE DEF tr2, E
<1>15. Reindexed(D, E, table)
  BY <1>3, <1>11, <1>13 DEF Reindexed
<1>16. \A t \in DOMAIN D : IsDef(D[t])
  BY <1>2 DEF Numbered
<1>17. Numbered(E, tr.next)
  <2>1. ASSUME NEW t \in DOMAIN E
        PROVE  /\ IsDef(E[t]) /\ E[t].id < tr.next["table"]
               /\ \A k \in Kinds : \A jx \in OfKind(E[t], k) : jx.id < tr.next[k]
    <3>1. /\ IsDef(D[t]) /\ D[t].id < tr.next["table"]
          /\ \A k \in Kinds : \A jx \in OfKind(D[t], k) : jx.id < tr.next[k]
      BY <1>2, <1>13 DEF Numbered
    <3>2. \A k : OfKind(E[t], k) \subseteq OfKind(D[t], k)
      BY <1>3, <1>11, <1>13
    <3> QED BY <3>1, <3>2, <1>3, <1>11, <1>13
  <2> QED BY <2>1 DEF Numbered
<1>18. "index" \in Kinds
  BY DEF Kinds
<1>19. TreeInv(tr2)
  <2>1. CASE kind = "index"
    <3>1. Secondary(E[table]) = Secondary(D[table]) \ {ix}
      BY <1>3, <1>11, <1>13, <2>1 DEF Secondary
    <3>2. ix \in Secondary(D[table])
      BY <1>3, <1>4, <1>a, <2>1 DEF Secondary, OfKind
    <3>3. /\ Apart(E) /\ NamesLead(E, Without(tr.refs["index"], ix.name)) /\ RowsOwned(E, tr.rows)
          /\ EntriesExact(E, tr.rows, EntriesWithout(tr.entries, ix.id))
      BY <3>1, <3>2, <1>2, <1>15, <1>16, SecondaryLess
    <3>4. tr2.refs["index"] = Without(tr.refs["index"], ix.name)
      BY <1>4, <1>6, <1>12, <1>18, <2>1
    <3>5. tr2.entries = EntriesWithout(tr.entries, ix.id)
      BY <1>7, <1>12, <2>1 DEF EntriesWithout
    <3> QED BY <3>3, <3>4, <3>5, <1>12, <1>17 DEF TreeInv
  <2>2. CASE kind # "index"
    <3>1. Secondary(E[table]) = Secondary(D[table])
      BY <1>3, <1>11, <1>13, <2>2 DEF Secondary
    <3>2. Alike(D, E)
      BY <3>1, <1>15, <1>16, OtherReindexed
    <3>3. tr2.refs["index"] = tr.refs["index"] /\ tr2.entries = tr.entries
      BY <1>6, <1>7, <1>12, <1>18, <2>2
    <3> QED BY <3>2, <3>3, <1>2, <1>12, <1>17, AlikeKeeps DEF TreeInv
  <2> QED BY <2>1, <2>2
<1> QED BY <1>1, <1>12, <1>14, <1>19

----------------------------------------------------------------------------
(***************************************************************************)
(* CREATE TABLE keeps the tree.                                            *)
(***************************************************************************)
\* The schema of a new table.
LEMMA NewDefIs ==
    ASSUME NEW tr, TreeInv(tr), NEW spec \in TableSpecs, CanCreateTable(tr, spec)
    PROVE  /\ IsDef(NewDef(tr, spec))
           /\ NewDef(tr, spec).id = tr.next["table"]
           /\ NewDef(tr, spec).indexes = <<>>
           /\ Len(NewDef(tr, spec).columns) = Len(spec.columns)
<1> DEFINE def == NewDef(tr, spec)
           n == Len(spec.columns)
           columns == [i \in 1 .. n |->
                         [spec.columns[i] EXCEPT !.notNull = @ \/ spec.columns[i].name = spec.pk]]
<1>1. spec.columns \in Seq(ColumnDefs) /\ n \in Nat /\ n # 0 /\ n <= MaxColumns
  <2>1. spec.columns \in Seq(ColumnDefs)
    BY StatementsAssumption
  <2>2. spec.columns # <<>> /\ n <= MaxColumns
    BY DEF CanCreateTable
  <2> QED BY <2>1, <2>2
<1>2. /\ Shaped(def) /\ def.columns = columns /\ def.alias = SpecPosition(spec, spec.pk)
      /\ def.id = tr.next["table"] /\ def.indexes = <<>> /\ def.order = Identity(n)
  BY DEF NewDef, Shaped
<1>3. \A i, j \in 1 .. n : spec.columns[i].name = spec.columns[j].name => i = j
  BY DEF CanCreateTable
<1>4. tr.next["table"] \in Nat \ {0}
  BY DEF TreeInv, IsTree
<1>5. SpecPosition(spec, spec.pk) \in 0 .. n
  BY <1>1, SpecPositionIs
<1>6. \A i \in 1 .. n : spec.columns[i] \in ColumnDefs
  BY <1>1
<1>7. \A i \in 1 .. n : columns[i] \in ColumnDefs /\ columns[i].name = spec.columns[i].name
  <2> TAKE i \in 1 .. n
  <2>1. spec.columns[i] \in ColumnDefs
    BY <1>6
  <2> DEFINE c == spec.columns[i]
             b == (c.notNull \/ c.name = spec.pk)
  <2>2. columns[i] = [c EXCEPT !.notNull = b]
    OBVIOUS
  <2>3. b \in BOOLEAN
    BY <2>1 DEF ColumnDefs
  <2> HIDE DEF b, c, columns
  <2> QED BY <2>1, <2>2, <2>3 DEF ColumnDefs, c
<1> HIDE DEF n, columns, def
<1>8. columns \in Seq(ColumnDefs) /\ Len(columns) = n
  <2>1. columns = [i \in 1 .. n |-> columns[i]]
    BY DEF columns
  <2>2. [i \in 1 .. n |-> columns[i]] \in Seq(ColumnDefs)
    BY <1>1, <1>7, IsASeq
  <2>3. DOMAIN columns = 1 .. n
    BY DEF columns
  <2> QED BY <1>1, <2>1, <2>2, <2>3, LenProperties
<1>9. IsPermutation(Identity(n), n) /\ Identity(n) \in Seq(Nat)
  <2>1. Identity(n) \in Seq(Nat) /\ Len(Identity(n)) = n /\ \A i \in 1 .. n : Identity(n)[i] = i
    BY <1>1 DEF Identity
  <2>2. Covers(Identity(n), n)
    BY <2>1 DEF Covers
  <2> QED BY <1>1, <2>1, <2>2, PermutationIs
<1>10. \A i, j \in Visible(def) : def.columns[i].name = def.columns[j].name => i = j
  BY <1>2, <1>3, <1>7, <1>8 DEF Visible
<1>11. IndexesOf(def)
  <2>1. Len(def.indexes) = 0
    BY <1>2
  <2> QED BY <1>2, <2>1 DEF IndexesOf
<1>12. IsDef(def)
  <2>1. Len(def.columns) \in 1 .. MaxColumns /\ Len(def.columns) = n
    BY <1>1, <1>2, <1>8, BoundsAssumption
  <2>2. FksInRange(def.fks, n)
    <3>1. def.fks = [k \in 1 .. Len(spec.fks) |-> ResolvedFk(tr, spec, spec.fks[k])]
      BY DEF def, NewDef
    <3>2. Len(spec.fks) \in Nat
      BY StatementsAssumption
    <3>3. DOMAIN def.fks = 1 .. Len(def.fks) /\ Len(def.fks) = Len(spec.fks)
      BY <3>1, <3>2
    <3> SUFFICES ASSUME NEW k \in 1 .. Len(spec.fks)
                 PROVE  ToSet(def.fks[k].columns) \subseteq 1 .. n
      BY <3>3 DEF FksInRange
    <3>4. def.fks[k].columns =
             [j \in 1 .. Len(spec.fks[k].cols) |-> SpecPosition(spec, spec.fks[k].cols[j])]
      BY <3>1 DEF ResolvedFk
    <3>5. \A j \in 1 .. Len(spec.fks[k].cols) : SpecPosition(spec, spec.fks[k].cols[j]) \in 1 .. n
      <4> TAKE j \in 1 .. Len(spec.fks[k].cols)
      <4>1. SpecPosition(spec, spec.fks[k].cols[j]) > 0
        BY DEF CanCreateTable, FkResolves
      <4>2. PICK p \in 0 .. n : p = SpecPosition(spec, spec.fks[k].cols[j])
        BY <1>1, SpecPositionIs DEF n
      <4> QED BY <1>1, <4>1, <4>2
    <3> QED BY <3>4, <3>5 DEF ToSet
  <2> QED BY <1>2, <1>4, <1>5, <1>8, <1>9, <1>10, <1>11, <2>1, <2>2 DEF IsDef, Shaped, IndexesOf
<1> QED BY <1>2, <1>8, <1>12 DEF def, n

LEMMA BareTableKeeps ==
    ASSUME NEW tr, TreeInv(tr), NEW spec \in TableSpecs, CanCreateTable(tr, spec)
    PROVE  LET tr2 == BareTable(tr, spec) IN
           /\ TreeInv(tr2)
           /\ tr2.triggers = tr.triggers /\ AllKept(tr, tr2)
           /\ DOMAIN tr2.tables = DOMAIN tr.tables \union {spec.name}
           /\ GetTable(tr2, spec.name) = NewDef(tr, spec)
           /\ \A t \in DOMAIN tr.tables : GetTable(tr2, t).columns = GetTable(tr, t).columns
           /\ tr2.refs = tr.refs
<1> DEFINE D == Defs(tr)
           n == spec.name
           new == NewDef(tr, spec)
           next == [tr.next EXCEPT !["table"] = @ + 1]
           base == [tr EXCEPT !.next = next]
           tr2 == PutTable(base, n, new)
           E == With(D, n, new)
<1>1. BareTable(tr, spec) = tr2
  BY DEF BareTable
<1>2. /\ IsTree(tr) /\ Numbered(D, tr.next) /\ Apart(D) /\ NamesLead(D, tr.refs["index"])
      /\ RowsOwned(D, tr.rows) /\ EntriesExact(D, tr.rows, tr.entries)
  BY DEF TreeInv
<1>3. n \in Names /\ n \notin DOMAIN tr.tables
  BY StatementsAssumption DEF CanCreateTable, HasTable
<1>4. IsDef(new) /\ new.id = tr.next["table"] /\ new.indexes = <<>>
  BY NewDefIs
<1>5. \A k : OfKind(new, k) = {}
  <2>1. Len(new.indexes) = 0
    BY <1>4
  <2> HIDE DEF new
  <2> QED BY <2>1 DEF OfKind
<1>6. tr.next \in [Kinds \union {"table"} -> Nat \ {0}] /\ "table" \notin Kinds
  BY <1>2 DEF IsTree, Kinds
<1>7. /\ next \in [Kinds \union {"table"} -> Nat \ {0}]
      /\ next["table"] = tr.next["table"] + 1 /\ \A k \in Kinds : next[k] = tr.next[k]
  BY <1>6
<1>8. /\ TreeShape(base) /\ base.tables = tr.tables /\ base.views = tr.views
      /\ base.triggers = tr.triggers /\ base.refs = tr.refs /\ base.next = next
      /\ base.rows = tr.rows /\ base.entries = tr.entries
  <2>1. TreeShape(tr)
    BY <1>2 DEF IsTree
  <2>2. base = [tr EXCEPT !.next = next]
    OBVIOUS
  <2> HIDE DEF next, base
  <2> QED BY <2>1, <2>2 DEF TreeShape
<1> HIDE DEF D, new, next, base, n
<1>9. IsTree(base) /\ Defs(base) = D
  BY <1>2, <1>7, <1>8 DEF IsTree, Defs, GetTable, D
<1>10. /\ IsTree(tr2) /\ Defs(tr2) = E /\ tr2.triggers = tr.triggers
       /\ tr2.refs = tr.refs /\ tr2.next = next /\ tr2.rows = tr.rows /\ tr2.entries = tr.entries
  BY <1>3, <1>4, <1>8, <1>9, PutTableIs
<1>11. DOMAIN D = DOMAIN tr.tables
  BY DEF D, Defs
<1>12. DOMAIN E = DOMAIN D \union {n} /\ E[n] = new /\ \A t \in DOMAIN D : E[t] = D[t]
  BY <1>3, <1>11 DEF With
<1>13. AllKept(tr, tr2)
  BY <1>3, <1>10, PutKept DEF D
<1>14. DOMAIN tr2.tables = DOMAIN tr.tables \union {n} /\ GetTable(tr2, n) = new
  <2>1. DOMAIN Defs(tr2) = DOMAIN tr2.tables
    BY DEF Defs
  <2>2. n \in DOMAIN tr2.tables
    BY <2>1, <1>10, <1>12
  <2>3. Defs(tr2)[n] = GetTable(tr2, n)
    BY <2>2 DEF Defs
  <2> QED BY <2>1, <2>3, <1>10, <1>11, <1>12
<1> HIDE DEF tr2, E
<1>15. \A t \in DOMAIN D : IsDef(D[t]) /\ D[t].id \in Nat /\ D[t].id < tr.next["table"]
  BY <1>2 DEF Numbered, IsDef
<1>16. \A t \in DOMAIN E : \A k : \A ix \in OfKind(E[t], k) : t \in DOMAIN D /\ ix \in OfKind(D[t], k)
  BY <1>5, <1>12
<1>17. tr.next["table"] \in Nat
  BY <1>6
<1>18. Numbered(E, next)
  <2>1. \A t \in DOMAIN E : IsDef(E[t]) /\ E[t].id < next["table"]
    BY <1>4, <1>7, <1>12, <1>15, <1>17
  <2>2. ASSUME NEW t \in DOMAIN E, NEW k \in Kinds, NEW ix \in OfKind(E[t], k)
        PROVE  ix.id < next[k]
    BY <1>2, <1>7, <1>16 DEF Numbered
  <2> QED BY <2>1, <2>2 DEF Numbered
<1>19. \A t \in DOMAIN E : \A ix \in Secondary(E[t]) : t \in DOMAIN D /\ ix \in Secondary(D[t])
  BY <1>16 DEF Secondary
<1>20. Apart(E)
  <2>1. ASSUME NEW t \in DOMAIN E, NEW u \in DOMAIN E, E[t].id = E[u].id
        PROVE  t = u
    <3>1. CASE t \in DOMAIN D /\ u \in DOMAIN D
      BY <3>1, <2>1, <1>2, <1>12 DEF Apart
    <3>2. CASE t = n /\ u \in DOMAIN D
      BY <3>2, <2>1, <1>4, <1>12, <1>15, <1>17
    <3>3. CASE t \in DOMAIN D /\ u = n
      BY <3>3, <2>1, <1>4, <1>12, <1>15, <1>17
    <3> QED BY <3>1, <3>2, <3>3, <1>12
  <2>2. ASSUME NEW t \in DOMAIN E, NEW u \in DOMAIN E, NEW ix \in Secondary(E[t]), NEW jx \in Secondary(E[u]),
               ix.id = jx.id \/ ix.name = jx.name
        PROVE  t = u /\ ix = jx
    BY <2>2, <1>2, <1>19 DEF Apart
  <2> QED BY <2>1, <2>2 DEF Apart
<1>21. NamesLead(E, tr.refs["index"])
  BY <1>2, <1>12, <1>19 DEF NamesLead
<1>22. RowsOwned(E, tr.rows)
  BY <1>2, <1>12 DEF RowsOwned
<1>23. EntriesExact(E, tr.rows, tr.entries)
  <2>1. ASSUME NEW e \in tr.entries
        PROVE  \E t \in DOMAIN E : \E ix \in Secondary(E[t]), r \in tr.rows :
                  r.table = E[t].id /\ e = EntryOf(E[t], ix, r)
    <3>1. PICK t \in DOMAIN D : \E ix \in Secondary(D[t]), r \in tr.rows :
                  r.table = D[t].id /\ e = EntryOf(D[t], ix, r)
      BY <1>2 DEF EntriesExact
    <3>2. t \in DOMAIN E /\ E[t] = D[t]
      BY <1>12
    <3> QED BY <3>1, <3>2
  <2>2. ASSUME NEW t \in DOMAIN E, NEW ix \in Secondary(E[t]), NEW r \in tr.rows, r.table = E[t].id
        PROVE  EntryOf(E[t], ix, r) \in tr.entries
    <3>1. t \in DOMAIN D /\ ix \in Secondary(D[t]) /\ E[t] = D[t]
      BY <1>12, <1>19
    <3> QED BY <2>2, <3>1, <1>2 DEF EntriesExact
  <2> QED BY <2>1, <2>2 DEF EntriesExact
<1>24. TreeInv(tr2)
  BY <1>10, <1>18, <1>20, <1>21, <1>22, <1>23 DEF TreeInv
<1>25. \A t \in DOMAIN tr.tables : GetTable(tr2, t).columns = GetTable(tr, t).columns
  <2> TAKE t \in DOMAIN tr.tables
  <2>1. t \in DOMAIN D /\ D[t] = GetTable(tr, t)
    BY DEF D, Defs
  <2>2. t \in DOMAIN E /\ E[t] = GetTable(tr2, t)
    BY <1>10, <1>14 DEF Defs
  <2> QED BY <2>1, <2>2, <1>12
<1> QED BY <1>1, <1>10, <1>13, <1>14, <1>24, <1>25 DEF n, new

\* The trees of CREATE TABLE: the table alone, then with the index of one UNIQUE
\* more each time.
LEMMA MadeAre ==
    ASSUME NEW tr, NEW spec, Len(spec.uniques) \in Nat
    PROVE  \E made :
             /\ made[0] = BareTable(tr, spec)
             /\ \A k \in 1 .. Len(spec.uniques) : made[k] = WithUnique(made[k - 1], spec, k)
             /\ CreateTableIn(tr, spec) = made[Len(spec.uniques)]
<1> DEFINE N == Len(spec.uniques)
           F(g, k) == IF k = 0 THEN BareTable(tr, spec) ELSE WithUnique(g[k - 1], spec, k)
           Upto(g, n) == g = [k \in 0 .. n |-> F(g, k)]
           S == {n \in 0 .. N : \E g : Upto(g, n)}
           made == CHOOSE g : g = [k \in 0 .. N |-> F(g, k)]
<1>a. N \in Nat
  OBVIOUS
<1>1. CreateTableIn(tr, spec) = made[N]
  BY DEF CreateTableIn
<1> HIDE DEF N
<1>2. 0 \in S
  <2> DEFINE g == [k \in 0 .. 0 |-> BareTable(tr, spec)]
  <2>1. \A k \in 0 .. 0 : g[k] = F(g, k)
    OBVIOUS
  <2>2. Upto(g, 0)
    <3> HIDE DEF F
    <3> QED BY <2>1
  <2>3. \E f : Upto(f, 0)
    <3> HIDE DEF Upto, g
    <3> QED BY <2>2
  <2> HIDE DEF Upto, g
  <2> QED BY <2>3, <1>a
<1>3. ASSUME NEW n \in 0 .. N - 1, n \in S
      PROVE  n + 1 \in S
  <2>1. PICK g : Upto(g, n)
    BY <1>3
  <2>2. \A k \in 0 .. n : g[k] = F(g, k)
    <3> HIDE DEF F
    <3> QED BY <2>1
  <2> DEFINE h == [k \in 0 .. n + 1 |-> IF k = n + 1 THEN F(g, n + 1) ELSE g[k]]
  <2>3. ASSUME NEW k \in 0 .. n + 1 PROVE h[k] = F(h, k)
    <3>1. k # 0 => k - 1 \in 0 .. n + 1 /\ k - 1 # n + 1 /\ k - 1 \in 0 .. n
      BY <1>a
    <3>2. k # 0 => h[k - 1] = g[k - 1]
      <4> HIDE DEF F
      <4> QED BY <3>1
    <3>3. F(h, k) = F(g, k)
      <4> HIDE DEF h
      <4> QED BY <3>2
    <3>4. h[k] = F(g, k)
      <4> HIDE DEF F
      <4> QED BY <2>2, <1>a
    <3> HIDE DEF F, h
    <3> QED BY <3>3, <3>4
  <2>4. Upto(h, n + 1)
    <3> HIDE DEF F
    <3> QED BY <2>3
  <2>5. \E f : Upto(f, n + 1)
    <3> HIDE DEF Upto, h
    <3> QED BY <2>4
  <2> HIDE DEF Upto, h
  <2> QED BY <2>5, <1>a
<1>4. N \in S
  <2> HIDE DEF S
  <2>1. N \in 0 .. N
    BY <1>a
  <2> QED BY <2>1, <1>2, <1>3, <1>a, BoundedInduction
<1>5. \E g : Upto(g, N)
  BY <1>4
<1> HIDE DEF F
<1>6. made = [k \in 0 .. N |-> F(made, k)]
  BY <1>5
<1> HIDE DEF made
<1>7. \A k \in 0 .. N : made[k] = F(made, k)
  BY <1>6
<1>8. made[0] = BareTable(tr, spec)
  BY <1>7, <1>a DEF F
<1>9. \A k \in 1 .. N : made[k] = WithUnique(made[k - 1], spec, k)
  BY <1>7, <1>a DEF F
<1> QED BY <1>1, <1>8, <1>9 DEF N

LEMMA UniqueNames ==
    ASSUME NEW spec, NEW j \in Nat, NEW k \in Nat, UniqueName(spec, j) = UniqueName(spec, k)
    PROVE  j = k
<1>1. UniqueName(spec, j)[3] = j /\ UniqueName(spec, k)[3] = k
  BY DEF UniqueName
<1> QED BY <1>1

LEMMA CreateTableKeeps ==
    ASSUME NEW tr, TreeInv(tr), NEW spec \in TableSpecs, CanCreateTable(tr, spec)
    PROVE  LET tr2 == CreateTableIn(tr, spec) IN
           TreeInv(tr2) /\ tr2.triggers = tr.triggers /\ AllKept(tr, tr2)
<1> DEFINE N == Len(spec.uniques)
           P(k, x) == /\ TreeInv(x) /\ x.triggers = tr.triggers
                      /\ DOMAIN x.tables = DOMAIN tr.tables \union {spec.name}
                      /\ \A t \in DOMAIN tr.tables : GetTable(x, t).columns = GetTable(tr, t).columns
                      /\ Len(GetTable(x, spec.name).columns) = Len(spec.columns)
                      /\ \A j \in k + 1 .. N : UniqueName(spec, j) \notin DOMAIN x.refs["index"]
<1>1. N \in Nat /\ spec.uniques \in Seq(ColNames) /\ spec.columns \in Seq(ColumnDefs)
  BY StatementsAssumption
<1>2. PICK made :
         /\ made[0] = BareTable(tr, spec)
         /\ \A k \in 1 .. N : made[k] = WithUnique(made[k - 1], spec, k)
         /\ CreateTableIn(tr, spec) = made[N]
  BY <1>1, MadeAre
<1>3. spec.name \notin DOMAIN tr.tables
      /\ \A k \in 1 .. N : /\ SpecPosition(spec, spec.uniques[k]) > 0
                           /\ UniqueName(spec, k) \notin DOMAIN tr.refs["index"]
  BY DEF CanCreateTable, HasTable
<1>4. P(0, made[0])
  <2>1. /\ TreeInv(made[0]) /\ made[0].triggers = tr.triggers
        /\ DOMAIN made[0].tables = DOMAIN tr.tables \union {spec.name}
        /\ GetTable(made[0], spec.name) = NewDef(tr, spec)
        /\ \A t \in DOMAIN tr.tables : GetTable(made[0], t).columns = GetTable(tr, t).columns
        /\ made[0].refs = tr.refs
    BY <1>2, BareTableKeeps
  <2>2. Len(NewDef(tr, spec).columns) = Len(spec.columns)
    BY NewDefIs
  <2> QED BY <2>1, <2>2, <1>1, <1>3
<1>5. ASSUME NEW k \in 0 .. N - 1, P(k, made[k])
      PROVE  P(k + 1, made[k + 1])
  <2> DEFINE x == made[k]
             y == made[k + 1]
             m == k + 1
             name == UniqueName(spec, m)
             columns == <<SpecPosition(spec, spec.uniques[m])>>
  <2>1. m \in 1 .. N /\ m - 1 = k /\ m \in Nat
    BY <1>1
  <2>2. y = WithUnique(x, spec, m)
    BY <2>1, <1>2
  <2>3. /\ TreeInv(x) /\ x.triggers = tr.triggers
        /\ DOMAIN x.tables = DOMAIN tr.tables \union {spec.name}
        /\ \A t \in DOMAIN tr.tables : GetTable(x, t).columns = GetTable(tr, t).columns
        /\ Len(GetTable(x, spec.name).columns) = Len(spec.columns)
        /\ \A j \in m .. N : UniqueName(spec, j) \notin DOMAIN x.refs["index"]
    BY <1>5
  <2>4. \A j \in m + 1 .. N : j \in m .. N /\ j \in Nat /\ j # m
    BY <2>1, <1>1
  <2>5. SpecPosition(spec, spec.uniques[m]) \in 1 .. Len(spec.columns)
    <3>1. SpecPosition(spec, spec.uniques[m]) \in 0 .. Len(spec.columns)
      BY <1>1, SpecPositionIs
    <3>2. SpecPosition(spec, spec.uniques[m]) > 0
      BY <1>3, <2>1
    <3> QED BY <3>1, <3>2
  <2>6. columns \in Seq(1 .. Len(spec.columns)) \ {<<>>}
    BY <2>5
  <2>7. m \in m .. N
    BY <2>1, <1>1
  <2> HIDE DEF x, y, columns, m
  <2>8. CASE spec.uniques[m] = spec.pk
    <3>1. y = x
      BY <2>2, <2>8 DEF WithUnique
    <3>2. P(m, y)
      BY <3>1, <2>3, <2>4
    <3> QED BY <3>2 DEF y, m
  <2>9. CASE spec.uniques[m] # spec.pk
    <3>1. y = CreateIndexIn(x, spec.name, "index", name, columns, TRUE)
      BY <2>2, <2>9 DEF WithUnique, columns
    <3>2. IndexFits(x, spec.name, "index", name, columns)
      BY <2>3, <2>6, <2>7 DEF IndexFits, Kinds
    <3>3. /\ TreeInv(y) /\ y.triggers = x.triggers
          /\ DOMAIN y.tables = DOMAIN x.tables
          /\ \A t \in DOMAIN x.tables : GetTable(y, t).columns = GetTable(x, t).columns
          /\ DOMAIN y.refs["index"] \subseteq DOMAIN x.refs["index"] \union {name}
      <4> DEFINE nm == name
                 u == TRUE
                 z == CreateIndexIn(x, spec.name, "index", nm, columns, u)
      <4>1. TreeInv(x) /\ IndexFits(x, spec.name, "index", nm, columns)
        BY <2>3, <3>2
      <4> HIDE DEF nm, u
      <4>2. /\ TreeInv(z) /\ z.triggers = x.triggers
            /\ DOMAIN z.tables = DOMAIN x.tables
            /\ \A t \in DOMAIN x.tables : GetTable(z, t).columns = GetTable(x, t).columns
            /\ DOMAIN z.refs["index"] \subseteq DOMAIN x.refs["index"] \union {nm}
        BY <4>1, CreateIndexKeeps
      <4>3. y = z
        BY <3>1, Zenon DEF nm, u
      <4> HIDE DEF z
      <4> QED BY <4>2, <4>3 DEF nm
    <3>4. \A j \in m + 1 .. N : UniqueName(spec, j) \notin DOMAIN y.refs["index"]
      <4> TAKE j \in m + 1 .. N
      <4>1. UniqueName(spec, j) # name
        BY <2>1, <2>4, UniqueNames
      <4> QED BY <4>1, <2>3, <2>4, <3>3
    <3>5. P(m, y)
      <4> HIDE DEF name
      <4> QED BY <2>3, <3>3, <3>4
    <3> QED BY <3>5 DEF y, m
  <2> QED BY <2>8, <2>9
<1> DEFINE S == {k \in 0 .. N : P(k, made[k])}
<1>6. 0 .. N \subseteq S
  <2>1. 0 \in S
    BY <1>1, <1>4
  <2>2. \A k \in 0 .. N - 1 : k \in S => k + 1 \in S
    <3> TAKE k \in 0 .. N - 1
    <3> HAVE k \in S
    <3>1. P(k, made[k]) /\ k + 1 \in 0 .. N
      BY <1>1
    <3> HIDE DEF P
    <3>2. P(k + 1, made[k + 1])
      BY <3>1, <1>5
    <3> QED BY <3>1, <3>2
  <2> HIDE DEF S
  <2> QED BY <2>1, <2>2, <1>1, BoundedInduction
<1>7. P(N, made[N])
  <2>1. N \in 0 .. N
    BY <1>1
  <2> HIDE DEF P
  <2> QED BY <2>1, <1>6
<1> DEFINE tr2 == made[N]
<1>8. AllKept(tr, tr2)
  <2>1. ASSUME NEW t \in DOMAIN tr.tables
        PROVE  Kept(GetTable(tr, t), GetTable(tr2, t))
    <3>1. GetTable(tr2, t).columns = GetTable(tr, t).columns
      BY <1>7
    <3>2. IsDef(GetTable(tr, t))
      BY DefOf
    <3> QED BY <3>1, <3>2, SameColumnsKept
  <2> QED BY <2>1 DEF AllKept
<1> QED BY <1>2, <1>7, <1>8

----------------------------------------------------------------------------
(***************************************************************************)
(* DROP TABLE keeps the tree.                                              *)
(***************************************************************************)
\* What DROP TABLE leaves of the rows, the entries and the names.
RowsWithout(rows, id) == {r \in rows : r.table # id}
EntriesOutside(entries, indexes) == {e \in entries : \A ix \in indexes : e.id # ix.id}
NamesWithout(names, gone) == [m \in DOMAIN names \ gone |-> names[m]]
NamesOf(indexes) == {ix.name : ix \in indexes}

LEMMA FewerTables ==
    ASSUME NEW D, NEW E, NEW n \in DOMAIN D, DOMAIN E = DOMAIN D \ {n}, \A t \in DOMAIN E : E[t] = D[t],
           Apart(D), NEW names, NamesLead(D, names),
           NEW rows, NEW entries, RowsOwned(D, rows), EntriesExact(D, rows, entries)
    PROVE  /\ Apart(E)
           /\ NamesLead(E, NamesWithout(names, NamesOf(Secondary(D[n]))))
           /\ RowsOwned(E, RowsWithout(rows, D[n].id))
           /\ EntriesExact(E, RowsWithout(rows, D[n].id), EntriesOutside(entries, Secondary(D[n])))
<1>1. /\ \A t, u \in DOMAIN D : D[t].id = D[u].id => t = u
      /\ \A t, u \in DOMAIN D : \A ix \in Secondary(D[t]), jx \in Secondary(D[u]) :
            ix.id = jx.id \/ ix.name = jx.name => t = u /\ ix = jx
  BY DEF Apart
<1>2. Apart(E)
  BY <1>1 DEF Apart
<1>3. NamesLead(E, NamesWithout(names, NamesOf(Secondary(D[n]))))
  <2> DEFINE gone == NamesOf(Secondary(D[n]))
             new == NamesWithout(names, gone)
  <2>1. DOMAIN new = DOMAIN names \ gone /\ \A m \in DOMAIN new : new[m] = names[m]
    BY DEF NamesWithout
  <2>2. \A m : m \in gone <=> \E ix \in Secondary(D[n]) : m = ix.name
    BY DEF NamesOf
  <2> HIDE DEF gone, new
  <2>3. ASSUME NEW t \in DOMAIN E, NEW jx \in Secondary(E[t])
        PROVE  jx.name \in DOMAIN new /\ new[jx.name] = t
    <3>1. t \in DOMAIN D /\ t # n /\ jx \in Secondary(D[t])
      OBVIOUS
    <3>2. jx.name \in DOMAIN names /\ names[jx.name] = t
      BY <3>1 DEF NamesLead
    <3>3. jx.name \notin gone
      BY <3>1, <2>2, <1>1
    <3> QED BY <3>2, <3>3, <2>1
  <2>4. ASSUME NEW m \in DOMAIN new
        PROVE  new[m] \in DOMAIN E /\ \E jx \in Secondary(E[new[m]]) : jx.name = m
    <3>1. m \in DOMAIN names /\ m \notin gone /\ new[m] = names[m]
      BY <2>1
    <3>2. PICK jx \in Secondary(D[names[m]]) : names[m] \in DOMAIN D /\ jx.name = m
      BY <3>1 DEF NamesLead
    <3>3. names[m] # n
      BY <3>1, <3>2, <2>2
    <3> QED BY <3>1, <3>2, <3>3
  <2>5. NamesLead(E, new)
    BY <2>3, <2>4 DEF NamesLead
  <2> QED BY <2>5 DEF new, gone
<1>4. \A r \in RowsWithout(rows, D[n].id) : \E t \in DOMAIN E : E[t].id = r.table
  <2> TAKE r \in RowsWithout(rows, D[n].id)
  <2>1. r \in rows /\ r.table # D[n].id
    BY DEF RowsWithout
  <2>2. PICK t \in DOMAIN D : D[t].id = r.table
    BY <2>1 DEF RowsOwned
  <2> QED BY <2>1, <2>2
<1>5. RowsOwned(E, RowsWithout(rows, D[n].id))
  <2>1. RowsWithout(rows, D[n].id) \subseteq rows
    BY DEF RowsWithout
  <2> QED BY <1>4, <2>1 DEF RowsOwned
<1>6. EntriesExact(E, RowsWithout(rows, D[n].id), EntriesOutside(entries, Secondary(D[n])))
  <2> DEFINE rows2 == RowsWithout(rows, D[n].id)
             entries2 == EntriesOutside(entries, Secondary(D[n]))
  <2>1. \A r : r \in rows2 <=> r \in rows /\ r.table # D[n].id
    BY DEF RowsWithout
  <2>2. \A e : e \in entries2 <=> e \in entries /\ \A ix \in Secondary(D[n]) : e.id # ix.id
    BY DEF EntriesOutside
  <2>3. \A t, jx, r : EntryOf(D[t], jx, r).id = jx.id
    BY DEF EntryOf, Entry
  <2> HIDE DEF rows2, entries2
  <2>4. ASSUME NEW e \in entries2
        PROVE  \E t \in DOMAIN E : \E jx \in Secondary(E[t]), r \in rows2 :
                  r.table = E[t].id /\ e = EntryOf(E[t], jx, r)
    <3>1. PICK t \in DOMAIN D : \E jx \in Secondary(D[t]), r \in rows :
                  r.table = D[t].id /\ e = EntryOf(D[t], jx, r)
      BY <2>2 DEF EntriesExact
    <3>2. PICK jx \in Secondary(D[t]), r \in rows : r.table = D[t].id /\ e = EntryOf(D[t], jx, r)
      BY <3>1
    <3>3. t # n
      <4>1. e.id = jx.id
        BY <3>2, <2>3
      <4>2. \A ix \in Secondary(D[n]) : e.id # ix.id
        BY <2>2
      <4> QED BY <4>1, <4>2
    <3>4. t \in DOMAIN E /\ E[t] = D[t] /\ r \in rows2
      BY <3>2, <3>3, <2>1, <1>1
    <3> QED BY <3>2, <3>4
  <2>5. ASSUME NEW t \in DOMAIN E, NEW jx \in Secondary(E[t]), NEW r \in rows2, r.table = E[t].id
        PROVE  EntryOf(E[t], jx, r) \in entries2
    <3>1. t \in DOMAIN D /\ t # n /\ E[t] = D[t] /\ r \in rows
      BY <2>1
    <3>2. EntryOf(D[t], jx, r) \in entries
      BY <2>5, <3>1 DEF EntriesExact
    <3>3. \A ix \in Secondary(D[n]) : jx.id # ix.id
      BY <3>1, <1>1
    <3> QED BY <3>1, <3>2, <3>3, <2>2, <2>3
  <2>6. EntriesExact(E, rows2, entries2)
    BY <2>4, <2>5 DEF EntriesExact
  <2> QED BY <2>6 DEF rows2, entries2
<1> QED BY <1>2, <1>3, <1>5, <1>6

LEMMA DropTableKeeps ==
    ASSUME NEW tr, TreeInv(tr), NEW n \in DOMAIN tr.tables
    PROVE  LET tr2 == DropTableIn(tr, n) IN
           TreeInv(tr2) /\ tr2.triggers = tr.triggers /\ AllKept(tr, tr2)
<1> DEFINE D == Defs(tr)
           def == GetTable(tr, n)
           tables == Without(tr.tables, n)
           rows == RowsWithout(tr.rows, def.id)
           entries == EntriesOutside(tr.entries, Secondary(def))
           names == NamesWithout(tr.refs["index"], NamesOf(Secondary(def)))
           refs == [tr.refs EXCEPT !["index"] = names]
           tr2 == DropTableIn(tr, n)
           E == Defs(tr2)
<1>1. tr2 = [tr EXCEPT !.tables = tables, !.rows = rows, !.entries = entries, !.refs = refs]
  <2>1. tr2 = [tr EXCEPT !.tables = tables, !.rows = rows, !.entries = entries, !.refs["index"] = names]
    BY DEF DropTableIn, RowsWithout, EntriesOutside, NamesWithout, NamesOf
  <2>2. tr = [tables |-> tr.tables, views |-> tr.views, triggers |-> tr.triggers,
              refs |-> tr.refs, next |-> tr.next, rows |-> tr.rows, entries |-> tr.entries]
    BY DEF TreeInv, IsTree, TreeShape
  <2> HIDE DEF tr2, tables, rows, entries, names
  <2> QED BY <2>1, <2>2
<1>2. /\ IsTree(tr) /\ Numbered(D, tr.next) /\ Apart(D) /\ NamesLead(D, tr.refs["index"])
      /\ RowsOwned(D, tr.rows) /\ EntriesExact(D, tr.rows, tr.entries)
  BY DEF TreeInv
<1>3. n \in Names /\ n \in DOMAIN D /\ D[n] = def
  BY DefOf
<1>4. "index" \in Kinds /\ tr.refs = [k \in Kinds |-> tr.refs[k]]
  BY <1>2 DEF Kinds, IsTree
<1>5. refs["index"] = names /\ refs = [k \in Kinds |-> refs[k]]
  BY <1>4
<1>6. DOMAIN tables = DOMAIN tr.tables \ {n} /\ \A t \in DOMAIN tables : tables[t] = tr.tables[t]
  BY DEF Without
<1>7. TreeShape(tr)
  BY <1>2 DEF IsTree
<1> HIDE DEF tr2, tables, rows, entries, names, refs
<1>8. /\ TreeShape(tr2) /\ tr2.tables = tables /\ tr2.views = tr.views /\ tr2.triggers = tr.triggers
      /\ tr2.refs = refs /\ tr2.next = tr.next /\ tr2.rows = rows /\ tr2.entries = entries
  BY <1>1, <1>7 DEF TreeShape
<1>9. IsTree(tr2)
  BY <1>2, <1>5, <1>6, <1>8 DEF IsTree
<1>10. DOMAIN D = DOMAIN tr.tables /\ DOMAIN E = DOMAIN D \ {n} /\ \A t \in DOMAIN E : E[t] = D[t]
  BY <1>6, <1>8 DEF Defs, GetTable
<1>11. AllKept(tr, tr2)
  <2>1. ASSUME NEW t \in DOMAIN tr.tables, t \in DOMAIN tr2.tables
        PROVE  Kept(GetTable(tr, t), GetTable(tr2, t))
    <3>1. GetTable(tr2, t) = GetTable(tr, t)
      BY <1>6, <1>8, <2>1 DEF GetTable
    <3>2. IsDef(GetTable(tr, t))
      BY DefOf
    <3> QED BY <3>1, <3>2, SameColumnsKept
  <2> QED BY <2>1 DEF AllKept
<1> HIDE DEF D, E
<1>12. Numbered(E, tr.next)
  BY <1>2, <1>10 DEF Numbered
<1>13. /\ Apart(E) /\ NamesLead(E, names) /\ RowsOwned(E, rows) /\ EntriesExact(E, rows, entries)
  BY <1>2, <1>3, <1>10, FewerTables DEF names, rows, entries
<1>14. TreeInv(tr2)
  BY <1>5, <1>8, <1>9, <1>12, <1>13 DEF TreeInv, E
<1> QED BY <1>8, <1>11, <1>14 DEF tr2

----------------------------------------------------------------------------
(***************************************************************************)
(* The statements on views and triggers, and the trees of Init.            *)
(***************************************************************************)
\* A tree with other views and triggers.
Renamed(tr, views, triggers) == [tr EXCEPT !.views = views, !.triggers = triggers]

LEMMA NamesKeep ==
    ASSUME NEW tr, TreeInv(tr), NEW views \in SUBSET Names, NEW triggers \in SUBSET TriggerDefs,
           NEW tr2, tr2 = Renamed(tr, views, triggers)
    PROVE  TreeInv(tr2) /\ tr2.triggers = triggers /\ tr2.tables = tr.tables /\ AllKept(tr, tr2)
<1>1. IsTree(tr) /\ TreeShape(tr)
  BY DEF TreeInv, IsTree
<1>2. /\ TreeShape(tr2) /\ tr2.tables = tr.tables /\ tr2.views = views /\ tr2.triggers = triggers
      /\ tr2.refs = tr.refs /\ tr2.next = tr.next /\ tr2.rows = tr.rows /\ tr2.entries = tr.entries
  BY <1>1 DEF TreeShape, Renamed
<1>3. IsTree(tr2)
  BY <1>1, <1>2 DEF IsTree
<1>4. Defs(tr2) = Defs(tr)
  BY <1>2 DEF Defs, GetTable
<1>5. TreeInv(tr2)
  BY <1>2, <1>3, <1>4 DEF TreeInv
<1>6. AllKept(tr, tr2)
  <2>1. ASSUME NEW t \in DOMAIN tr.tables
        PROVE  Kept(GetTable(tr, t), GetTable(tr2, t))
    <3>1. GetTable(tr2, t) = GetTable(tr, t)
      BY <1>2 DEF GetTable
    <3>2. IsDef(GetTable(tr, t))
      BY DefOf
    <3> QED BY <3>1, <3>2, SameColumnsKept
  <2> QED BY <2>1, <1>2 DEF AllKept
<1> QED BY <1>2, <1>5, <1>6

LEMMA EmptyIs == TreeInv(EmptyTree)
<1> DEFINE tr == EmptyTree
<1>1. /\ TreeShape(tr) /\ tr.tables = Empty /\ tr.views = {} /\ tr.triggers = {}
      /\ tr.refs = [k \in Kinds |-> Empty] /\ tr.next = [k \in Kinds \union {"table"} |-> 1]
      /\ tr.rows = {} /\ tr.entries = {}
  BY DEF EmptyTree, TreeShape
<1>2. DOMAIN Empty = {}
  BY DEF Empty
<1>3. DOMAIN Defs(tr) = {}
  BY <1>1, <1>2 DEF Defs
<1>4. tr.refs["index"] = Empty
  BY <1>1 DEF Kinds
<1>5. IsTree(tr)
  BY <1>1, <1>2 DEF IsTree
<1> HIDE DEF tr
<1>6. Numbered(Defs(tr), tr.next) /\ Apart(Defs(tr))
  BY <1>3 DEF Numbered, Apart
<1>7. NamesLead(Defs(tr), tr.refs["index"])
  BY <1>2, <1>3, <1>4 DEF NamesLead
<1>8. RowsOwned(Defs(tr), tr.rows) /\ EntriesExact(Defs(tr), tr.rows, tr.entries)
  BY <1>1, <1>3 DEF RowsOwned, EntriesExact
<1> QED BY <1>5, <1>6, <1>7, <1>8 DEF TreeInv, tr

\* What an older version left: its indexes have ids no greater than their number.
LEMMA OldIs == ASSUME NEW n \in DOMAIN OldRecords PROVE TreeInv(OldTree(n))
<1> DEFINE tr == OldTree(n)
           def == DecodeDef(OldRecords[n])
           D == Defs(tr)
           tables == With(Empty, n, OldRecords[n])
           refs == [k \in Kinds |-> [m \in {ix.name : ix \in OfKind(def, k)} |-> n]]
           next == [k \in Kinds \union {"table"} |-> 1 + (IF k = "table" THEN def.id ELSE Len(def.indexes))]
           row == [table |-> def.id, rowid |-> 1, row |-> OldRow]
           entries == EntriesOf(def, FinishRow(def, OldRow), 1)
<1>1. n \in Names /\ IsDef(def) /\ OldRow \in Seq(Values) /\ MaxRow \in Nat \ {0}
      /\ \A i, j \in 1 .. Len(def.indexes) :
            /\ def.indexes[i].id <= Len(def.indexes)
            /\ def.indexes[i].kind = def.indexes[j].kind /\ def.indexes[i].name = def.indexes[j].name
                  => i = j
  BY OldAssumption, BoundsAssumption
<1>2. def.id \in Nat \ {0} /\ Len(def.indexes) \in Nat
  BY <1>1 DEF IsDef
<1>3. "index" \in Kinds /\ "table" \notin Kinds
  BY DEF Kinds
<1>4. tr = [tables |-> tables, views |-> {}, triggers |-> {}, refs |-> refs, next |-> next,
            rows |-> {row}, entries |-> entries]
  <2>1. DOMAIN EmptyTree.next = Kinds \union {"table"}
    BY DEF EmptyTree
  <2>2. EmptyTree.tables = Empty
    BY DEF EmptyTree
  <2>3. tr = [EmptyTree EXCEPT !.tables = tables, !.refs = refs, !.next = next, !.rows = {row},
                               !.entries = entries]
    BY <2>1, <2>2 DEF OldTree
  <2> HIDE DEF tr, tables, refs, next, row, entries
  <2> QED BY <2>3 DEF EmptyTree
<1>5. DOMAIN tables = {n} /\ tables[n] = OldRecords[n]
  BY DEF With, Empty
<1>6. next \in [Kinds \union {"table"} -> Nat \ {0}] /\ next["table"] = 1 + def.id
      /\ \A k \in Kinds : next[k] = 1 + Len(def.indexes)
  <2> HIDE DEF def
  <2> QED BY <1>2, <1>3
<1>7. refs = [k \in Kinds |-> refs[k]]
      /\ DOMAIN refs["index"] = {ix.name : ix \in Secondary(def)}
      /\ \A m \in DOMAIN refs["index"] : refs["index"][m] = n
  <2>1. refs["index"] = [m \in {ix.name : ix \in Secondary(def)} |-> n]
    BY <1>3 DEF Secondary
  <2> HIDE DEF def
  <2> QED BY <2>1
<1>8. row.table = def.id /\ row.rowid = 1 /\ row.row = OldRow
      /\ row = [table |-> row.table, rowid |-> row.rowid, row |-> row.row]
  OBVIOUS
<1>9. \A e : e \in entries <=> \E ix \in Secondary(def) : e = EntryOf(def, ix, row)
  BY DEF EntriesOf, EntryOf
<1> HIDE DEF tr, tables, refs, next, row, entries
<1>10. /\ TreeShape(tr) /\ tr.tables = tables /\ tr.views = {} /\ tr.triggers = {}
       /\ tr.refs = refs /\ tr.next = next /\ tr.rows = {row} /\ tr.entries = entries
  BY <1>4 DEF TreeShape
<1>11. IsTree(tr)
  BY <1>1, <1>5, <1>6, <1>7, <1>10 DEF IsTree
<1>12. DOMAIN D = {n} /\ D[n] = def
  BY <1>5, <1>10 DEF Defs, GetTable
<1> HIDE DEF D, def
<1>13. \A k : \A ix \in OfKind(def, k) : ix.id \in Nat /\ ix.id <= Len(def.indexes)
  <2> TAKE k
  <2> TAKE ix \in OfKind(def, k)
  <2>1. PICK i \in 1 .. Len(def.indexes) : ix = def.indexes[i]
    BY DEF OfKind
  <2> QED BY <2>1, <1>1, IndexColumns
<1>14. Numbered(D, next)
  <2>1. \A t \in DOMAIN D : IsDef(D[t]) /\ D[t].id < next["table"]
    BY <1>1, <1>2, <1>6, <1>12
  <2>2. \A t \in DOMAIN D : \A k \in Kinds : \A ix \in OfKind(D[t], k) : ix.id < next[k]
    BY <1>2, <1>6, <1>12, <1>13
  <2> QED BY <2>1, <2>2 DEF Numbered
<1>15. Apart(D)
  <2>1. ASSUME NEW ix \in Secondary(def), NEW jx \in Secondary(def), ix.id = jx.id \/ ix.name = jx.name
        PROVE  ix = jx
    <3>1. PICK i \in 1 .. Len(def.indexes) : ix = def.indexes[i] /\ def.indexes[i].kind = "index"
      BY DEF Secondary, OfKind
    <3>2. PICK j \in 1 .. Len(def.indexes) : jx = def.indexes[j] /\ def.indexes[j].kind = "index"
      BY DEF Secondary, OfKind
    <3>3. i = j
      <4>1. CASE ix.id = jx.id
        BY <4>1, <3>1, <3>2, <1>1 DEF IsDef
      <4>2. CASE ix.name = jx.name
        BY <4>2, <3>1, <3>2, <1>1
      <4> QED BY <4>1, <4>2, <2>1
    <3> QED BY <3>1, <3>2, <3>3
  <2> QED BY <2>1, <1>12 DEF Apart
<1>16. NamesLead(D, refs["index"])
  BY <1>7, <1>12 DEF NamesLead
<1>17. RowsOwned(D, {row})
  <2>1. 1 \in 1 .. MaxRow
    BY <1>1
  <2> QED BY <2>1, <1>1, <1>8, <1>12 DEF RowsOwned
<1>18. EntriesExact(D, {row}, entries)
  BY <1>8, <1>9, <1>12 DEF EntriesExact
<1> QED BY <1>10, <1>11, <1>14, <1>15, <1>16, <1>17, <1>18 DEF TreeInv, D, tr

----------------------------------------------------------------------------
(***************************************************************************)
(* INSERT, UPDATE and DELETE keep the tree.                                *)
(***************************************************************************)
EntriesFor(def, r) == {EntryOf(def, ix, r) : ix \in Secondary(def)}

\* A stored row of the table of an id.
IsRow(r, id) ==
    /\ r = [table |-> r.table, rowid |-> r.rowid, row |-> r.row]
    /\ r.table = id /\ r.rowid \in 1 .. MaxRow /\ r.row \in Seq(Values)

LEMMA RowAdded ==
    ASSUME NEW D, NEW n \in DOMAIN D, NEW rows, NEW entries, Apart(D), RowsOwned(D, rows), EntriesExact(D, rows, entries),
           NEW r, IsRow(r, D[n].id), \A q \in rows : q.table = D[n].id => q.rowid # r.rowid
    PROVE  /\ RowsOwned(D, rows \union {r})
           /\ EntriesExact(D, rows \union {r}, entries \union EntriesFor(D[n], r))
<1>1. RowsOwned(D, rows \union {r})
  <2>1. r.table = D[n].id
    BY DEF IsRow
  <2>2. \A q \in rows \union {r} : q \in rows \/ q = r
    OBVIOUS
  <2> QED BY <2>1, <2>2 DEF RowsOwned, IsRow
<1>2. EntriesExact(D, rows \union {r}, entries \union EntriesFor(D[n], r))
  <2> DEFINE entries2 == entries \union EntriesFor(D[n], r)
  <2>1. r.table = D[n].id
    BY DEF IsRow
  <2>2. ASSUME NEW e \in entries2
        PROVE  \E t \in DOMAIN D : \E ix \in Secondary(D[t]), q \in rows \union {r} :
                  q.table = D[t].id /\ e = EntryOf(D[t], ix, q)
    <3>1. CASE e \in entries
      BY <3>1 DEF EntriesExact
    <3>2. CASE e \in EntriesFor(D[n], r)
      BY <3>2, <2>1 DEF EntriesFor
    <3> QED BY <3>1, <3>2
  <2>3. ASSUME NEW t \in DOMAIN D, NEW ix \in Secondary(D[t]), NEW q \in rows \union {r}, q.table = D[t].id
        PROVE  EntryOf(D[t], ix, q) \in entries2
    <3>1. CASE q \in rows
      BY <3>1, <2>3 DEF EntriesExact
    <3>2. CASE q = r
      <4>1. t = n
        BY <3>2, <2>1, <2>3 DEF Apart
      <4>2. ix \in Secondary(D[n])
        BY <4>1
      <4>3. EntryOf(D[n], ix, r) \in EntriesFor(D[n], r)
        BY <4>2 DEF EntriesFor
      <4> QED BY <4>1, <4>3, <3>2
    <3> QED BY <3>1, <3>2
  <2> HIDE DEF entries2
  <2>4. EntriesExact(D, rows \union {r}, entries2)
    BY <2>2, <2>3 DEF EntriesExact
  <2> QED BY <2>4 DEF entries2
<1> QED BY <1>1, <1>2

LEMMA RowRemoved ==
    ASSUME NEW D, NEW n \in DOMAIN D, NEW rows, NEW entries, Apart(D), RowsOwned(D, rows), EntriesExact(D, rows, entries),
           NEW r \in rows, r.table = D[n].id
    PROVE  /\ RowsOwned(D, rows \ {r})
           /\ EntriesExact(D, rows \ {r}, entries \ EntriesFor(D[n], r))
           /\ \A q \in rows \ {r} : q.table = D[n].id => q.rowid # r.rowid
<1>1. RowsOwned(D, rows \ {r})
  BY DEF RowsOwned
<1>2. \A q \in rows \ {r} : q.table = D[n].id => q.rowid # r.rowid
  BY DEF RowsOwned
<1>3. EntriesExact(D, rows \ {r}, entries \ EntriesFor(D[n], r))
  <2> DEFINE entries2 == entries \ EntriesFor(D[n], r)
  <2>1. ASSUME NEW e \in entries2
        PROVE  \E t \in DOMAIN D : \E ix \in Secondary(D[t]), q \in rows \ {r} :
                  q.table = D[t].id /\ e = EntryOf(D[t], ix, q)
    <3>1. e \in entries /\ e \notin EntriesFor(D[n], r)
      OBVIOUS
    <3>2. PICK t \in DOMAIN D : \E ix \in Secondary(D[t]), q \in rows :
                  q.table = D[t].id /\ e = EntryOf(D[t], ix, q)
      BY <3>1 DEF EntriesExact
    <3>3. PICK ix \in Secondary(D[t]), q \in rows : q.table = D[t].id /\ e = EntryOf(D[t], ix, q)
      BY <3>2
    <3>4. q # r
      <4> SUFFICES ASSUME q = r PROVE FALSE
        OBVIOUS
      <4>1. t = n
        BY <3>3 DEF Apart
      <4> QED BY <4>1, <3>1, <3>3 DEF EntriesFor
    <3> QED BY <3>3, <3>4
  <2>2. ASSUME NEW t \in DOMAIN D, NEW ix \in Secondary(D[t]), NEW q \in rows, q # r, q.table = D[t].id
        PROVE  EntryOf(D[t], ix, q) \in entries2
    <3>1. EntryOf(D[t], ix, q) \in entries
      BY <2>2 DEF EntriesExact
    <3>2. ASSUME NEW jx \in Secondary(D[n])
          PROVE  EntryOf(D[t], ix, q) # EntryOf(D[n], jx, r)
      <4> SUFFICES ASSUME EntryOf(D[t], ix, q) = EntryOf(D[n], jx, r) PROVE FALSE
        OBVIOUS
      <4>1. ix.id = jx.id /\ q.rowid = r.rowid
        BY DEF EntryOf, Entry
      <4>2. t = n
        BY <4>1 DEF Apart
      <4> QED BY <4>1, <4>2, <2>2, <1>2
    <3> QED BY <3>1, <3>2 DEF EntriesFor
  <2> HIDE DEF entries2
  <2>3. EntriesExact(D, rows \ {r}, entries2)
    BY <2>1, <2>2 DEF EntriesExact
  <2> QED BY <2>3 DEF entries2
<1> QED BY <1>1, <1>2, <1>3

\* A row as long as the schema reads as it is stored.
LEMMA WholeRow ==
    ASSUME NEW def, Len(def.columns) \in Nat, NEW row, row = [i \in 1 .. Len(def.columns) |-> row[i]]
    PROVE  FinishRow(def, row) = row
<1>1. Len(row) = Len(def.columns)
  BY LenProperties, IsASeq
<1> QED BY <1>1 DEF FinishRow

LEMMA DefaultsAre ==
    ASSUME NEW def, IsDef(def), NEW i \in 1 .. Len(def.columns)
    PROVE  DefaultOf(def.columns[i]) \in Values
<1>1. def.columns[i] \in ColumnDefs
  BY DEF IsDef
<1>2. def.columns[i].default \in Values \union {NoDefault}
  BY <1>1 DEF ColumnDefs
<1> QED BY <1>2, StatementsAssumption DEF DefaultOf

\* What a statement stores is a row of values, one per column.
LEMMA RowsAre ==
    ASSUME NEW def, IsDef(def)
    PROVE  /\ \A row \in Seq(Values) : FinishRow(def, row) \in Seq(Values)
           /\ \A row : FinishRow(def, row) = [i \in 1 .. Len(def.columns) |-> FinishRow(def, row)[i]]
           /\ \A given : (\A i \in DOMAIN given : given[i] \in Values) =>
                 Record(def, given) \in Seq(Values)
           /\ \A given : Record(def, given) = [i \in 1 .. Len(def.columns) |-> Record(def, given)[i]]
<1> DEFINE n == Len(def.columns)
<1>1. n \in Nat
  BY DefFacts
<1>2. \A i \in 1 .. n : DefaultOf(def.columns[i]) \in Values
  BY DefaultsAre
<1>3. ASSUME NEW row \in Seq(Values)
      PROVE  FinishRow(def, row) \in Seq(Values)
  <2>1. ASSUME NEW i \in 1 .. n
        PROVE  (IF i <= Len(row) THEN row[i] ELSE DefaultOf(def.columns[i])) \in Values
    <3>1. CASE i <= Len(row)
      <4>1. i \in 1 .. Len(row)
        BY <3>1, <1>1
      <4> QED BY <3>1, <4>1, ElementOfSeq
    <3>2. CASE ~(i <= Len(row))
      BY <3>2, <1>2
    <3> QED BY <3>1, <3>2
  <2> QED BY <2>1, <1>1 DEF FinishRow
<1>4. ASSUME NEW given, \A i \in DOMAIN given : given[i] \in Values
      PROVE  Record(def, given) \in Seq(Values)
  <2>1. ASSUME NEW i \in 1 .. n
        PROVE  (IF i = def.alias THEN Null
                ELSE IF i \in DOMAIN given THEN given[i] ELSE DefaultOf(def.columns[i])) \in Values
    BY <1>2, <1>4, StatementsAssumption
  <2> QED BY <2>1, <1>1 DEF Record
<1>5. \A row : FinishRow(def, row) = [i \in 1 .. n |-> FinishRow(def, row)[i]]
  BY DEF FinishRow
<1>6. \A given : Record(def, given) = [i \in 1 .. n |-> Record(def, given)[i]]
  BY DEF Record
<1> QED BY <1>3, <1>4, <1>5, <1>6

\* A tree with other rows and entries.
Rewritten(tr, rows, entries) == [tr EXCEPT !.rows = rows, !.entries = entries]

LEMMA RowsKeep ==
    ASSUME NEW tr, TreeInv(tr), NEW rows, NEW entries,
           RowsOwned(Defs(tr), rows), EntriesExact(Defs(tr), rows, entries),
           NEW tr2, tr2 = Rewritten(tr, rows, entries)
    PROVE  TreeInv(tr2) /\ tr2.triggers = tr.triggers /\ tr2.tables = tr.tables
<1>1. IsTree(tr) /\ TreeShape(tr)
  BY DEF TreeInv, IsTree
<1>2. /\ TreeShape(tr2) /\ tr2.tables = tr.tables /\ tr2.views = tr.views /\ tr2.triggers = tr.triggers
      /\ tr2.refs = tr.refs /\ tr2.next = tr.next /\ tr2.rows = rows /\ tr2.entries = entries
  BY <1>1 DEF TreeShape, Rewritten
<1>3. IsTree(tr2)
  BY <1>1, <1>2 DEF IsTree
<1>4. Defs(tr2) = Defs(tr)
  BY <1>2 DEF Defs, GetTable
<1> QED BY <1>2, <1>3, <1>4 DEF TreeInv

----------------------------------------------------------------------------
(***************************************************************************)
(* The steps.  Each keeps the tree, the truth of the caches and what the   *)
(* rows of the tables that stay read.                                      *)
(***************************************************************************)
StepKeeps == TreeInv(tree') /\ CachesFresh' /\ AllKept(tree, tree')

LEMMA AltersSteps ==
    ASSUME IInv, NEW tr, Alters(tr), TreeInv(tr), tr.triggers = tree.triggers, AllKept(tree, tr)
    PROVE  StepKeeps /\ saved' = saved /\ changes' = changes + 1
<1>1. /\ tree' = tr /\ schemaCache' = Empty /\ triggerCache' = triggerCache
      /\ saved' = saved /\ changes' = changes + 1
  BY DEF Alters
<1>2. DOMAIN Empty = {}
  BY DEF Empty
<1>3. triggerCache # None => triggerCache = tree.triggers
  BY DEF IInv, CachesFresh
<1>4. CachesFresh'
  BY <1>1, <1>2, <1>3 DEF CachesFresh
<1> QED BY <1>1, <1>4 DEF StepKeeps

LEMMA AlterTableSteps ==
    ASSUME IInv, NEW t, HasTable(tree, t), NEW new, Altered(GetTable(tree, t), new), Alters(PutTable(tree, t, new))
    PROVE  StepKeeps /\ saved' = saved /\ changes' = changes + 1
<1>1. t \in DOMAIN tree.tables /\ TreeInv(tree)
  BY DEF HasTable, IInv
<1> DEFINE tr == PutTable(tree, t, new)
<1>2. TreeInv(tr) /\ tr.triggers = tree.triggers /\ AllKept(tree, tr)
  BY <1>1, AlterKeeps
<1>3. Alters(tr)
  OBVIOUS
<1> HIDE DEF tr
<1> QED BY <1>2, <1>3, AltersSteps

LEMMA AltersNamesSteps ==
    ASSUME IInv, NEW tr, NEW views \in SUBSET Names, NEW triggers \in SUBSET TriggerDefs,
           tr = Renamed(tree, views, triggers),
           NEW cache, AltersNames(tr, cache), cache = None \/ (cache = triggerCache /\ triggers = tree.triggers)
    PROVE  StepKeeps /\ saved' = saved /\ changes' = changes + 1
<1>1. /\ tree' = tr /\ schemaCache' = schemaCache /\ triggerCache' = cache
      /\ saved' = saved /\ changes' = changes + 1
  BY DEF AltersNames
<1>2. TreeInv(tr) /\ tr.triggers = triggers /\ tr.tables = tree.tables /\ AllKept(tree, tr)
  <2>1. TreeInv(tree)
    BY DEF IInv
  <2> QED BY <2>1, NamesKeep
<1>3. /\ \A n \in DOMAIN schemaCache : HasTable(tree, n) /\ schemaCache[n] = GetTable(tree, n)
      /\ triggerCache # None => triggerCache = tree.triggers
  BY DEF IInv, CachesFresh
<1>4. CachesFresh'
  BY <1>1, <1>2, <1>3 DEF CachesFresh, HasTable, GetTable
<1> QED BY <1>1, <1>2, <1>4 DEF StepKeeps

\* Every statement that changes the schema.
LEMMA SchemaSteps ==
    ASSUME IInv, SchemaStep
    PROVE  StepKeeps /\ saved' = saved /\ changes' = changes + 1
<1> DEFINE Goal == StepKeeps /\ saved' = saved /\ changes' = changes + 1
<1> USE DEF Goal
<1>1. TreeInv(tree) /\ IsTree(tree) /\ TreeShape(tree)
  BY DEF IInv, TreeInv, IsTree
<1>2. ASSUME NEW spec \in TableSpecs, CreateTable(spec)
      PROVE  Goal
  <2> DEFINE tr == CreateTableIn(tree, spec)
  <2>1. CanCreateTable(tree, spec) /\ Alters(tr)
    BY <1>2 DEF CreateTable
  <2>2. TreeInv(tr) /\ tr.triggers = tree.triggers /\ AllKept(tree, tr)
    BY <1>1, <2>1, CreateTableKeeps
  <2> HIDE DEF tr
  <2> QED BY <2>1, <2>2, AltersSteps
<1>3. ASSUME NEW t \in Names, NEW k \in Kinds, NEW n \in IndexNames, NEW c \in ColNames, NEW u \in BOOLEAN,
             CreateIndexOn(t, k, n, c, u)
      PROVE  Goal
  <2> DEFINE columns == <<Position(GetTable(tree, t), c)>>
             tr == CreateIndexIn(tree, t, k, n, columns, u)
  <2>1. CanCreateIndex(tree, t, k, n, columns, u) /\ Alters(tr)
    BY <1>3 DEF CreateIndexOn, CreateIndex
  <2>2. IndexFits(tree, t, k, n, columns)
    <3>1. /\ t \in DOMAIN tree.tables /\ n \notin DOMAIN tree.refs[k]
          /\ ToSet(columns) \subseteq 1 .. Len(GetTable(tree, t).columns)
      BY <2>1 DEF CanCreateIndex, HasTable
    <3>2. Position(GetTable(tree, t), c) \in ToSet(columns)
      BY DEF ToSet
    <3>3. columns \in Seq(1 .. Len(GetTable(tree, t).columns)) \ {<<>>}
      BY <3>1, <3>2
    <3> HIDE DEF columns
    <3> QED BY <3>1, <3>3 DEF IndexFits
  <2> HIDE DEF columns
  <2>3. TreeInv(tr) /\ tr.triggers = tree.triggers /\ AllKept(tree, tr)
    BY <1>1, <2>2, CreateIndexKeeps
  <2> HIDE DEF tr
  <2> QED BY <2>1, <2>3, AltersSteps
<1>4. ASSUME NEW k \in Kinds, NEW n \in DOMAIN tree.refs[k], DropIndex(k, n)
      PROVE  Goal
  <2> DEFINE tr == DropIndexIn(tree, k, n)
  <2>1. /\ tree.refs[k][n] \in DOMAIN tree.tables /\ Alters(tr)
        /\ IndexPosition(GetTable(tree, tree.refs[k][n]), k, n) > 0
    BY <1>4 DEF DropIndex, HasTable
  <2>2. TreeInv(tr) /\ tr.triggers = tree.triggers /\ AllKept(tree, tr)
    BY <1>1, <2>1, DropIndexKeeps
  <2> HIDE DEF tr
  <2> QED BY <2>1, <2>2, AltersSteps
<1>5. ASSUME NEW t \in Names, DropTable(t)
      PROVE  Goal
  <2> DEFINE tr == DropTableIn(tree, t)
  <2>1. t \in DOMAIN tree.tables /\ Alters(tr)
    BY <1>5 DEF DropTable, HasTable
  <2>2. TreeInv(tr) /\ tr.triggers = tree.triggers /\ AllKept(tree, tr)
    BY <1>1, <2>1, DropTableKeeps
  <2> HIDE DEF tr
  <2> QED BY <2>1, <2>2, AltersSteps
<1>6. \A t : HasTable(tree, t) => IsDef(GetTable(tree, t))
  BY <1>1, DefOf DEF HasTable
<1>7. ASSUME NEW t \in Names, NEW col \in NewColumns, AddColumn(t, col)
      PROVE  Goal
  <2>1. /\ HasTable(tree, t) /\ CanAddColumn(GetTable(tree, t), col)
        /\ Alters(PutTable(tree, t, AddColumnTo(GetTable(tree, t), col)))
    BY <1>7 DEF AddColumn, AlterTable
  <2>2. Altered(GetTable(tree, t), AddColumnTo(GetTable(tree, t), col))
    BY <1>6, <2>1, AddColumnAlters, StatementsAssumption
  <2> QED BY <2>1, <2>2, AlterTableSteps
<1>8. ASSUME NEW t \in Names, NEW c \in ColNames, NEW d \in ColNames, NEW w, MoveColumn(t, c, w, d)
      PROVE  Goal
  <2>1. /\ HasTable(tree, t) /\ CanMove(GetTable(tree, t), c, w, d)
        /\ Alters(PutTable(tree, t, MoveColumnIn(GetTable(tree, t), c, w, d)))
    BY <1>8 DEF MoveColumn, AlterTable
  <2>2. Altered(GetTable(tree, t), MoveColumnIn(GetTable(tree, t), c, w, d))
    BY <1>6, <2>1, MoveColumnAlters
  <2> QED BY <2>1, <2>2, AlterTableSteps
<1>9. ASSUME NEW t \in Names, NEW names, ReorderColumns(t, names)
      PROVE  Goal
  <2>1. /\ HasTable(tree, t) /\ CanReorder(GetTable(tree, t), names)
        /\ Alters(PutTable(tree, t, ReorderIn(GetTable(tree, t), names)))
    BY <1>9 DEF ReorderColumns, AlterTable
  <2>2. Altered(GetTable(tree, t), ReorderIn(GetTable(tree, t), names))
    BY <1>6, <2>1, ReorderAlters
  <2> QED BY <2>1, <2>2, AlterTableSteps
<1>10. ASSUME NEW t \in Names, NEW c \in ColNames, NEW d \in ColNames, RenameColumn(t, c, d)
       PROVE  Goal
  <2>1. /\ HasTable(tree, t) /\ CanRename(GetTable(tree, t), c, d)
        /\ Alters(PutTable(tree, t, RenameIn(GetTable(tree, t), c, d)))
    BY <1>10 DEF RenameColumn, AlterTable
  <2>2. Altered(GetTable(tree, t), RenameIn(GetTable(tree, t), c, d))
    BY <1>6, <2>1, RenameAlters
  <2> QED BY <2>1, <2>2, AlterTableSteps
<1>11. ASSUME NEW t \in Names, NEW c \in ColNames, DropColumn(t, c)
       PROVE  Goal
  <2>1. /\ HasTable(tree, t) /\ CanDropColumn(GetTable(tree, t), c)
        /\ Alters(PutTable(tree, t, DropColumnIn(GetTable(tree, t), c)))
    BY <1>11 DEF DropColumn, AlterTable
  <2>2. Altered(GetTable(tree, t), DropColumnIn(GetTable(tree, t), c))
    BY <1>6, <2>1, DropColumnAlters
  <2> QED BY <2>1, <2>2, AlterTableSteps
<1>12. tree.views \in SUBSET Names /\ tree.triggers \in SUBSET TriggerDefs
  BY <1>1 DEF IsTree
<1>13. ASSUME NEW t \in Names, CreateView(t)
       PROVE  Goal
  <2> DEFINE tr == [tree EXCEPT !.views = @ \union {t}]
             views == tree.views \union {t}
  <2>1. AltersNames(tr, triggerCache)
    BY <1>13 DEF CreateView
  <2>2. views \in SUBSET Names
    BY <1>12
  <2>3. tr = Renamed(tree, views, tree.triggers)
    BY <1>1 DEF TreeShape, Renamed
  <2> HIDE DEF tr, views
  <2> QED BY <1>12, <2>1, <2>2, <2>3, AltersNamesSteps
<1>14. ASSUME NEW t \in Names, DropView(t)
       PROVE  Goal
  <2> DEFINE tr == [tree EXCEPT !.views = @ \ {t}]
             views == tree.views \ {t}
  <2>1. AltersNames(tr, triggerCache)
    BY <1>14 DEF DropView
  <2>2. views \in SUBSET Names
    BY <1>12
  <2>3. tr = Renamed(tree, views, tree.triggers)
    BY <1>1 DEF TreeShape, Renamed
  <2> HIDE DEF tr, views
  <2> QED BY <1>12, <2>1, <2>2, <2>3, AltersNamesSteps
<1>15. ASSUME NEW t \in Names, DropTrigger(t)
       PROVE  Goal
  <2> DEFINE tr == [tree EXCEPT !.triggers = {u \in @ : u.name # t}]
             triggers == {u \in tree.triggers : u.name # t}
             cache == None
  <2>1. AltersNames(tr, cache)
    BY <1>15 DEF DropTrigger
  <2>2. triggers \in SUBSET TriggerDefs
    BY <1>12
  <2>3. tr = Renamed(tree, tree.views, triggers)
    BY <1>1 DEF TreeShape, Renamed
  <2>4. cache = None
    OBVIOUS
  <2> HIDE DEF tr, triggers, cache
  <2> QED BY <1>12, <2>1, <2>2, <2>3, <2>4, AltersNamesSteps
<1>16. ASSUME NEW t \in TriggerDefs, CreateTrigger(t)
       PROVE  Goal
  <2> DEFINE tr == [tree EXCEPT !.triggers = @ \union {t}]
             triggers == tree.triggers \union {t}
             cache == None
  <2>1. AltersNames(tr, cache)
    BY <1>16 DEF CreateTrigger
  <2>2. triggers \in SUBSET TriggerDefs
    BY <1>12
  <2>3. tr = Renamed(tree, tree.views, triggers)
    BY <1>1 DEF TreeShape, Renamed
  <2>4. cache = None
    OBVIOUS
  <2> HIDE DEF tr, triggers, cache
  <2> QED BY <1>12, <2>1, <2>2, <2>3, <2>4, AltersNamesSteps
<1> HIDE DEF Goal
<1>17. Goal
  BY <1>2, <1>3, <1>4, <1>5, <1>7, <1>8, <1>9, <1>10, <1>11, <1>13, <1>14, <1>15, <1>16 DEF SchemaStep
<1> QED BY <1>17 DEF Goal

\* A statement on rows, with the definition the cache or the tree gives.
LEMMA UsesSteps ==
    ASSUME IInv, NEW name, name \in DOMAIN schemaCache \/ HasTable(tree, name),
           NEW tr, TreeInv(tr), tr.triggers = tree.triggers, tr.tables = tree.tables, Uses(name, tr)
    PROVE  StepKeeps /\ saved' = saved /\ changes' = changes /\ tree'.tables = tree.tables
<1>1. /\ \A n \in DOMAIN schemaCache : HasTable(tree, n) /\ schemaCache[n] = GetTable(tree, n)
      /\ triggerCache # None => triggerCache = tree.triggers
  BY DEF IInv, CachesFresh
<1>2. HasTable(tree, name) /\ Cached(name) = GetTable(tree, name)
  BY <1>1 DEF Cached
<1>3. /\ schemaCache' = With(schemaCache, name, Cached(name))
      /\ triggerCache' = (IF triggerCache = None THEN tree.triggers ELSE triggerCache)
      /\ tree' = tr /\ saved' = saved /\ changes' = changes
  BY DEF Uses
<1>4. \A n : (HasTable(tree, n) <=> HasTable(tr, n)) /\ GetTable(tr, n) = GetTable(tree, n)
  BY DEF HasTable, GetTable
<1>5. ASSUME NEW n \in DOMAIN schemaCache'
      PROVE  HasTable(tr, n) /\ schemaCache'[n] = GetTable(tr, n)
  <2> DEFINE def == Cached(name)
             C == schemaCache
             W == With(C, name, def)
  <2>1. /\ schemaCache' = W /\ def = GetTable(tree, name)
        /\ \A m \in DOMAIN C : HasTable(tree, m) /\ C[m] = GetTable(tree, m)
    BY <1>1, <1>2, <1>3
  <2> HIDE DEF def, C
  <2>a. /\ DOMAIN W = DOMAIN C \union {name} /\ W[name] = def
        /\ \A x \in DOMAIN C : x # name => W[x] = C[x]
    BY DEF With
  <2> HIDE DEF W
  <2>2. n = name \/ n \in DOMAIN C
    BY <2>1, <2>a
  <2>3. n = name => schemaCache'[n] = def
    BY <2>1, <2>a
  <2>4. n # name /\ n \in DOMAIN C => schemaCache'[n] = C[n]
    BY <2>1, <2>a
  <2> QED BY <1>2, <1>4, <2>1, <2>2, <2>3, <2>4
<1>6. triggerCache' # None => triggerCache' = tr.triggers
  BY <1>1, <1>3
<1>7. CachesFresh'
  BY <1>3, <1>5, <1>6 DEF CachesFresh
<1>8. AllKept(tree, tr)
  <2>1. ASSUME NEW t \in DOMAIN tree.tables
        PROVE  Kept(GetTable(tree, t), GetTable(tr, t))
    <3>1. IsDef(GetTable(tree, t))
      BY DefOf DEF IInv
    <3> QED BY <3>1, <1>4, SameColumnsKept
  <2> QED BY <2>1 DEF AllKept
<1> QED BY <1>3, <1>7, <1>8 DEF StepKeeps

\* The entries a statement writes are those of the row it stores.
LEMMA EntriesOfRow ==
    ASSUME NEW def, NEW row, NEW r, FinishRow(def, r.row) = row
    PROVE  EntriesOf(def, row, r.rowid) = EntriesFor(def, r)
  BY DEF EntriesOf, EntriesFor, EntryOf

LEMMA RowSteps ==
    ASSUME IInv, RowStep
    PROVE  StepKeeps /\ saved' = saved /\ changes' = changes /\ tree'.tables = tree.tables
<1> DEFINE Goal == StepKeeps /\ saved' = saved /\ changes' = changes /\ tree'.tables = tree.tables
<1>1. PICK name \in Names, rowid \in 1 .. MaxRow :
         \/ \E i \in Inserts : InsertRow(name, rowid, i[1], i[2])
         \/ \E u \in Updates : UpdateRow(name, rowid, u[1], u[2])
         \/ DeleteRow(name, rowid)
  BY DEF RowStep
<1>2. name \in DOMAIN schemaCache \/ HasTable(tree, name)
  BY <1>1 DEF InsertRow, UpdateRow, DeleteRow
<1> DEFINE def == Cached(name)
           D == Defs(tree)
           n == Len(def.columns)
<1>3. /\ TreeInv(tree) /\ TreeShape(tree) /\ Apart(D) /\ RowsOwned(D, tree.rows)
      /\ EntriesExact(D, tree.rows, tree.entries)
  BY DEF IInv, TreeInv, IsTree
<1>4. name \in DOMAIN D /\ D[name] = def /\ IsDef(def)
  <2>1. HasTable(tree, name) /\ Cached(name) = GetTable(tree, name)
    BY <1>2 DEF IInv, CachesFresh, Cached
  <2> QED BY <1>3, <2>1, DefOf DEF HasTable
<1>5. n \in Nat
  BY <1>4, DefFacts
<1>6. \A r \in RowsOf(tree, def.id) : r \in tree.rows /\ r.table = def.id
  BY DEF RowsOf
<1>7. ASSUME NEW rows, NEW entries, RowsOwned(D, rows), EntriesExact(D, rows, entries),
             NEW tr, tr = Rewritten(tree, rows, entries), Uses(name, tr)
      PROVE  Goal
  <2>1. TreeInv(tr) /\ tr.triggers = tree.triggers /\ tr.tables = tree.tables
    BY <1>3, <1>7, RowsKeep
  <2> QED BY <2>1, <1>2, <1>7, UsesSteps
<1>8. ASSUME NEW i \in Inserts, InsertRow(name, rowid, i[1], i[2])
      PROVE  Goal
  <2> DEFINE given == IF i[1] = None THEN Positional(def, i[2]) ELSE Named(def, i[1], i[2])
             record == Record(def, given)
             r == [table |-> def.id, rowid |-> rowid, row |-> record]
             rows == tree.rows \union {r}
             entries == tree.entries \union EntriesOf(def, record, rowid)
             tr == [tree EXCEPT !.rows = rows, !.entries = entries]
  <2>1. Uses(name, tr) /\ \A q \in RowsOf(tree, def.id) : q.rowid # rowid
    BY <1>8 DEF InsertRow
  <2>2. i[2] \in Values
    BY StatementsAssumption
  <2>3. \A k \in DOMAIN given : given[k] \in Values
    BY <2>2, StatementsAssumption DEF Positional, Named
  <2> HIDE DEF given
  <2>4. record \in Seq(Values) /\ record = [k \in 1 .. n |-> record[k]]
    BY <2>3, <1>4, RowsAre
  <2> HIDE DEF record, def
  <2>5. /\ r = [table |-> r.table, rowid |-> r.rowid, row |-> r.row]
        /\ r.table = def.id /\ r.rowid = rowid /\ r.row = record
    OBVIOUS
  <2> HIDE DEF r
  <2>6. IsRow(r, D[name].id)
    BY <2>4, <2>5, <1>4 DEF IsRow
  <2>7. FinishRow(def, r.row) = record
    BY <2>4, <2>5, <1>5, WholeRow
  <2>8. EntriesOf(def, record, rowid) = EntriesFor(D[name], r)
    BY <2>5, <2>7, <1>4, EntriesOfRow
  <2>9. \A q \in tree.rows : q.table = D[name].id => q.rowid # r.rowid
    BY <2>1, <2>5, <1>4 DEF RowsOf
  <2>10. RowsOwned(D, rows) /\ EntriesExact(D, rows, entries)
    <3> HIDE DEF D
    <3> QED BY <2>6, <2>8, <2>9, <1>3, <1>4, RowAdded
  <2>11. tr = Rewritten(tree, rows, entries)
    BY DEF Rewritten
  <2> HIDE DEF tr, rows, entries, D, Goal
  <2> QED BY <2>1, <2>10, <2>11, <1>7
<1>9. ASSUME NEW u \in Updates, UpdateRow(name, rowid, u[1], u[2])
      PROVE  Goal
  <2> DEFINE pos == VisiblePosition(def, u[1])
  <2>1. PICK r \in RowsOf(tree, def.id) :
           LET old == FinishRow(def, r.row)
               new == [old EXCEPT ![pos] = u[2]]
               rest == tree.entries \ EntriesOf(def, old, rowid)
           IN  /\ r.rowid = rowid
               /\ Uses(name, [tree EXCEPT !.rows = (@ \ {r}) \union {[r EXCEPT !.row = new]},
                                          !.entries = rest \union EntriesOf(def, new, rowid)])
    BY <1>9 DEF UpdateRow
  <2> DEFINE old == FinishRow(def, r.row)
             new == [old EXCEPT ![pos] = u[2]]
             q == [r EXCEPT !.row = new]
             kept == tree.rows \ {r}
             rest == tree.entries \ EntriesOf(def, old, rowid)
             rows == kept \union {q}
             entries == rest \union EntriesOf(def, new, rowid)
             tr == [tree EXCEPT !.rows = rows, !.entries = entries]
  <2>2. r.rowid = rowid /\ Uses(name, tr)
    BY <2>1
  <2>3. r \in tree.rows /\ r.table = D[name].id
    BY <1>4, <1>6
  <2>4. r = [table |-> r.table, rowid |-> r.rowid, row |-> r.row] /\ r.row \in Seq(Values)
    BY <2>3, <1>3 DEF RowsOwned
  <2>5. u[2] \in Values
    BY StatementsAssumption
  <2>6. old \in Seq(Values) /\ old = [k \in 1 .. n |-> old[k]]
    BY <2>4, <1>4, RowsAre
  <2> HIDE DEF old
  <2>7. new \in Seq(Values) /\ new = [k \in 1 .. n |-> new[k]]
    <3>1. Len(old) = n
      BY <2>6, <1>5, LenProperties, IsASeq
    <3>2. \A k \in 1 .. n : old[k] \in Values
      BY <2>6, <3>1, ElementOfSeq
    <3> HIDE DEF n, pos
    <3>3. new = [k \in 1 .. n |-> IF k = pos THEN u[2] ELSE old[k]]
      BY <2>6
    <3>4. \A k \in 1 .. n : new[k] \in Values
      BY <2>5, <3>2, <3>3
    <3>5. new = [k \in 1 .. n |-> new[k]]
      BY <3>3
    <3> HIDE DEF new
    <3> QED BY <3>4, <3>5, <1>5, IsASeq
  <2> HIDE DEF new
  <2>8. q = [table |-> r.table, rowid |-> r.rowid, row |-> new]
    BY <2>4
  <2> HIDE DEF q, def, pos
  <2>9. IsRow(q, D[name].id)
    BY <2>2, <2>3, <2>7, <2>8 DEF IsRow
  <2>10. EntriesOf(def, old, rowid) = EntriesFor(D[name], r)
    BY <2>2, <1>4, EntriesOfRow DEF old
  <2>11. EntriesOf(def, new, rowid) = EntriesFor(D[name], q)
    <3>1. FinishRow(def, new) = new
      BY <2>7, <1>5, WholeRow
    <3>2. FinishRow(def, q.row) = new /\ q.rowid = rowid
      BY <3>1, <2>2, <2>8
    <3> QED BY <3>2, <1>4, EntriesOfRow
  <2>12. /\ RowsOwned(D, kept) /\ EntriesExact(D, kept, rest)
         /\ \A p \in kept : p.table = D[name].id => p.rowid # r.rowid
    <3> HIDE DEF D
    <3> QED BY <2>3, <2>10, <1>3, <1>4, RowRemoved
  <2> HIDE DEF kept, rest
  <2>13. RowsOwned(D, rows) /\ EntriesExact(D, rows, entries)
    <3>1. \A p \in kept : p.table = D[name].id => p.rowid # q.rowid
      BY <2>8, <2>12
    <3> HIDE DEF D
    <3> QED BY <2>9, <2>11, <2>12, <3>1, <1>3, <1>4, RowAdded
  <2>14. tr = Rewritten(tree, rows, entries)
    BY DEF Rewritten
  <2> HIDE DEF tr, rows, entries, D, Goal
  <2> QED BY <2>2, <2>13, <2>14, <1>7
<1>10. ASSUME DeleteRow(name, rowid)
       PROVE  Goal
  <2>1. PICK r \in RowsOf(tree, def.id) :
           /\ r.rowid = rowid
           /\ Uses(name, [tree EXCEPT !.rows = @ \ {r},
                                      !.entries = @ \ EntriesOf(def, FinishRow(def, r.row), rowid)])
    BY <1>10 DEF DeleteRow
  <2> DEFINE rows == tree.rows \ {r}
             entries == tree.entries \ EntriesOf(def, FinishRow(def, r.row), rowid)
             tr == [tree EXCEPT !.rows = rows, !.entries = entries]
  <2>2. r.rowid = rowid /\ Uses(name, tr)
    BY <2>1
  <2>3. r \in tree.rows /\ r.table = D[name].id
    BY <1>4, <1>6
  <2>4. EntriesOf(def, FinishRow(def, r.row), rowid) = EntriesFor(D[name], r)
    BY <2>2, <1>4, EntriesOfRow
  <2>5. RowsOwned(D, rows) /\ EntriesExact(D, rows, entries)
    <3> HIDE DEF D, def
    <3> QED BY <2>3, <2>4, <1>3, <1>4, RowRemoved
  <2>6. tr = Rewritten(tree, rows, entries)
    BY DEF Rewritten
  <2> HIDE DEF tr, rows, entries, D, Goal
  <2> QED BY <2>2, <2>5, <2>6, <1>7
<1> HIDE DEF Goal
<1>11. Goal
  BY <1>1, <1>8, <1>9, <1>10
<1> QED BY <1>11 DEF Goal

----------------------------------------------------------------------------
(***************************************************************************)
(* The invariant is inductive, and what follows from it.                   *)
(***************************************************************************)
LEMMA InitIInv == Init => IInv
<1> SUFFICES ASSUME Init PROVE IInv
  OBVIOUS
<1>1. TreeInv(tree)
  <2>1. CASE tree = EmptyTree
    BY <2>1, EmptyIs
  <2>2. CASE \E n \in DOMAIN OldRecords : tree = OldTree(n)
    BY <2>2, OldIs
  <2> QED BY <2>1, <2>2 DEF Init
<1>2. schemaCache = Empty /\ triggerCache = None /\ saved = None /\ changes = 0
  BY DEF Init
<1>3. DOMAIN Empty = {}
  BY DEF Empty
<1>4. CachesFresh
  BY <1>2, <1>3 DEF CachesFresh
<1> QED BY <1>1, <1>2, <1>4, BoundsAssumption DEF IInv

LEMMA NextIInv == IInv /\ [Next]_vars => IInv'
<1> SUFFICES ASSUME IInv, [Next]_vars PROVE IInv'
  OBVIOUS
<1>1. /\ TreeInv(tree) /\ (saved # None => TreeInv(saved)) /\ CachesFresh
      /\ changes \in Nat /\ changes <= MaxChanges /\ MaxChanges \in Nat
  BY BoundsAssumption DEF IInv
<1>2. DOMAIN Empty = {}
  BY DEF Empty
<1>3. CASE SchemaStep
  <2>1. StepKeeps /\ saved' = saved /\ changes' = changes + 1
    BY <1>3, SchemaSteps
  <2>2. changes < MaxChanges
    BY <1>3 DEF SchemaStep
  <2>3. changes' \in 0 .. MaxChanges
    BY <2>1, <2>2, <1>1
  <2> QED BY <2>1, <2>3, <1>1 DEF StepKeeps, IInv
<1>4. CASE RowStep
  <2>1. StepKeeps /\ saved' = saved /\ changes' = changes
    BY <1>4, RowSteps
  <2> QED BY <2>1, <1>1 DEF StepKeeps, IInv
<1>5. CASE SetSavepoint
  <2>1. /\ saved' = tree /\ tree' = tree /\ schemaCache' = schemaCache
        /\ triggerCache' = triggerCache /\ changes' = changes
    BY <1>5 DEF SetSavepoint
  <2>2. CachesFresh'
    BY <2>1, <1>1 DEF CachesFresh
  <2> QED BY <2>1, <2>2, <1>1 DEF IInv
<1>6. CASE RollbackTo
  <2>1. /\ saved # None /\ tree' = saved /\ schemaCache' = Empty /\ triggerCache' = None
        /\ saved' = saved /\ changes' = changes
    BY <1>6 DEF RollbackTo
  <2>2. CachesFresh'
    BY <2>1, <1>2 DEF CachesFresh
  <2> QED BY <2>1, <2>2, <1>1 DEF IInv
<1>7. CASE NewTx
  <2>1. /\ schemaCache' = Empty /\ triggerCache' = None /\ saved' = None
        /\ tree' = tree /\ changes' = changes
    BY <1>7 DEF NewTx
  <2>2. CachesFresh'
    BY <2>1, <1>2 DEF CachesFresh
  <2> QED BY <2>1, <2>2, <1>1 DEF IInv
<1>8. CASE UNCHANGED vars
  <2>1. /\ tree' = tree /\ saved' = saved /\ schemaCache' = schemaCache
        /\ triggerCache' = triggerCache /\ changes' = changes
    BY <1>8 DEF vars
  <2>2. CachesFresh'
    BY <2>1, <1>1 DEF CachesFresh
  <2> QED BY <2>1, <2>2, <1>1 DEF IInv
<1> QED BY <1>3, <1>4, <1>5, <1>6, <1>7, <1>8 DEF Next

\* The inductive invariant holds of every transaction, whatever the tables, the
\* statements and the records an older version left.
THEOREM TreesAreWhole == Spec => []IInv
<1> QED BY InitIInv, NextIInv, PTL DEF Spec

\* CatalogWhole, of the relational part of the catalog: after any sequence of CREATE,
\* ALTER, DROP, rows and savepoints every schema can be read back, every row has a
\* table, every entry of a secondary index has its index, and the names of secondary
\* indexes are those of the schemas.  The triggers and the full-text and vector
\* indexes that DROP TABLE leaves (catalog.rs:1365-1384) are outside of it.
THEOREM CatalogIsWhole == Spec => []CatalogWhole
<1>1. IInv => CatalogWhole
  <2> SUFFICES ASSUME IInv PROVE CatalogWhole
    OBVIOUS
  <2> DEFINE D == Defs(tree)
             names == tree.refs["index"]
  <2>1. /\ IsTree(tree) /\ Numbered(D, tree.next) /\ Apart(D) /\ NamesLead(D, names)
        /\ RowsOwned(D, tree.rows) /\ EntriesExact(D, tree.rows, tree.entries)
    BY DEF IInv, TreeInv
  <2>2. DOMAIN D = DOMAIN tree.tables /\ \A t \in DOMAIN tree.tables : D[t] = GetTable(tree, t)
    BY DEF Defs
  <2>3. TypeOK
    <3>1. /\ DOMAIN tree.tables \subseteq Names /\ tree.views \subseteq Names
          /\ tree.triggers \subseteq TriggerDefs
      BY <2>1 DEF IsTree
    <3>2. \A r \in tree.rows : r.rowid \in 1 .. MaxRow /\ r.row \in Seq(Values)
      BY <2>1 DEF RowsOwned
    <3>3. DOMAIN schemaCache \subseteq Names
      BY <3>1 DEF IInv, CachesFresh, HasTable
    <3>4. triggerCache = None \/ triggerCache \subseteq TriggerDefs
      BY <3>1 DEF IInv, CachesFresh
    <3> QED BY <3>1, <3>2, <3>3, <3>4 DEF TypeOK, IInv
  <2>4. SchemasLoad
    <3>1. ASSUME NEW t \in DOMAIN tree.tables
          PROVE  GetTable(tree, t) # Corrupt /\ DecodeDef(EncodeDef(GetTable(tree, t))) = GetTable(tree, t)
      <4>1. IsDef(GetTable(tree, t))
        BY DefOf DEF IInv
      <4>2. GetTable(tree, t).id # 0
        BY <4>1 DEF IsDef
      <4> QED BY <4>1, <4>2, DecodeEncode DEF Corrupt
    <3> QED BY <3>1 DEF SchemasLoad
  <2>5. NoOrphans
    <3> DEFINE defs == {GetTable(tree, t) : t \in DOMAIN tree.tables}
    <3>1. \A t \in DOMAIN D : D[t] \in defs
      BY <2>2
    <3>2. \A d \in defs : \E t \in DOMAIN D : d = D[t]
      BY <2>2
    <3> HIDE DEF defs, D
    <3>3. \A r \in tree.rows : \E d \in defs : d.id = r.table
      BY <2>1, <3>1 DEF RowsOwned
    <3>4. ASSUME NEW e \in tree.entries
          PROVE  \E d \in defs : \E ix \in Secondary(d) : ix.id = e.id
      <4>1. PICK t \in DOMAIN D : \E ix \in Secondary(D[t]), r \in tree.rows :
                    r.table = D[t].id /\ e = EntryOf(D[t], ix, r)
        BY <2>1 DEF EntriesExact
      <4>2. PICK ix \in Secondary(D[t]), r \in tree.rows : e = EntryOf(D[t], ix, r)
        BY <4>1
      <4>3. ix.id = e.id
        BY <4>2 DEF EntryOf, Entry
      <4> QED BY <4>3, <3>1
    <3>5. \A c, d \in defs : c.id = d.id => c = d
      BY <2>1, <3>2 DEF Apart
    <3>6. /\ \A r \in tree.rows : \E d \in defs : d.id = r.table
          /\ \A e \in tree.entries : \E d \in defs : \E ix \in Secondary(d) : ix.id = e.id
          /\ \A c, d \in defs : c.id = d.id => c = d
      BY <3>3, <3>4, <3>5
    <3> QED BY <3>6 DEF NoOrphans, defs
  <2>6. SecondaryNamesLead
    <3> DEFINE left == {<<n, names[n]>> : n \in DOMAIN names}
               of(t) == {<<ix.name, t>> : ix \in Secondary(GetTable(tree, t))}
               right == UNION {of(t) : t \in DOMAIN tree.tables}
    <3>1. ASSUME NEW p \in left
          PROVE  p \in right
      <4>1. PICK n \in DOMAIN names : p = <<n, names[n]>>
        OBVIOUS
      <4>2. PICK ix \in Secondary(D[names[n]]) : names[n] \in DOMAIN D /\ ix.name = n
        BY <2>1 DEF NamesLead
      <4>3. names[n] \in DOMAIN tree.tables /\ p \in of(names[n])
        BY <4>1, <4>2, <2>2
      <4> HIDE DEF of
      <4> QED BY <4>3
    <3>2. ASSUME NEW p \in right
          PROVE  p \in left
      <4>1. PICK t \in DOMAIN tree.tables : p \in of(t)
        <5> HIDE DEF of
        <5> QED OBVIOUS
      <4>2. PICK ix \in Secondary(D[t]) : p = <<ix.name, t>>
        BY <4>1, <2>2
      <4>3. ix.name \in DOMAIN names /\ names[ix.name] = t
        BY <2>1, <2>2 DEF NamesLead
      <4> QED BY <4>2, <4>3
    <3>3. left = right
      <4> HIDE DEF left, right
      <4> QED BY <3>1, <3>2
    <3> QED BY <3>3 DEF SecondaryNamesLead
  <2> QED BY <2>3, <2>4, <2>5, <2>6 DEF CatalogWhole
<1> QED BY <1>1, TreesAreWhole, PTL

\* CachesFresh: no statement, no ROLLBACK TO and no transaction that begins leaves
\* a schema or the triggers in a cache that the tree does not have.
THEOREM CachesAreFresh == Spec => []CachesFresh
<1>1. IInv => CachesFresh
  BY DEF IInv
<1> QED BY <1>1, TreesAreWhole, PTL

\* EntriesMatchRows: a secondary index has one entry per row of its table, with the
\* values a reader of the row sees, also of rows older than the index or a column.
THEOREM IndexesMatchTables == Spec => []EntriesMatchRows
<1>1. IInv => EntriesMatchRows
  <2> SUFFICES ASSUME IInv, NEW t \in DOMAIN tree.tables, NEW ix \in Secondary(GetTable(tree, t))
               PROVE  {e \in tree.entries : e.id = ix.id} =
                         {Entry(ix, FinishRow(GetTable(tree, t), r.row), r.rowid) :
                             r \in RowsOf(tree, GetTable(tree, t).id)}
    BY DEF EntriesMatchRows
  <2> DEFINE D == Defs(tree)
             def == GetTable(tree, t)
             those == {Entry(ix, FinishRow(def, r.row), r.rowid) : r \in RowsOf(tree, def.id)}
  <2>1. Apart(D) /\ EntriesExact(D, tree.rows, tree.entries)
    BY DEF IInv, TreeInv
  <2>2. t \in DOMAIN D /\ D[t] = def /\ ix \in Secondary(D[t])
    BY DEF Defs
  <2>3. \A e : e \in those <=> \E r \in tree.rows : r.table = def.id /\ e = EntryOf(def, ix, r)
    BY DEF RowsOf, EntryOf
  <2> HIDE DEF D, def, those
  <2>4. ASSUME NEW e \in tree.entries, e.id = ix.id
        PROVE  e \in those
    <3>1. PICK u \in DOMAIN D : \E jx \in Secondary(D[u]), r \in tree.rows :
                  r.table = D[u].id /\ e = EntryOf(D[u], jx, r)
      BY <2>1 DEF EntriesExact
    <3>2. PICK jx \in Secondary(D[u]), r \in tree.rows : r.table = D[u].id /\ e = EntryOf(D[u], jx, r)
      BY <3>1
    <3>3. jx.id = ix.id
      BY <3>2, <2>4 DEF EntryOf, Entry
    <3>4. u = t /\ jx = ix
      BY <3>3, <2>1, <2>2 DEF Apart
    <3> QED BY <3>2, <3>4, <2>2, <2>3
  <2>5. ASSUME NEW e \in those
        PROVE  e \in tree.entries /\ e.id = ix.id
    <3>1. PICK r \in tree.rows : r.table = def.id /\ e = EntryOf(def, ix, r)
      BY <2>3
    <3>2. EntryOf(D[t], ix, r) \in tree.entries
      BY <3>1, <2>1, <2>2 DEF EntriesExact
    <3>3. e.id = ix.id
      BY <3>1 DEF EntryOf, Entry
    <3> QED BY <3>1, <3>2, <3>3, <2>2
  <2>6. {e \in tree.entries : e.id = ix.id} = those
    BY <2>4, <2>5
  <2> QED BY <2>6 DEF those, def
<1> QED BY <1>1, TreesAreWhole, PTL

\* ValuesSurviveAlter: no ALTER TABLE, no index and no other statement changes what
\* a column that can be seen before and after reads in a row nobody writes.
THEOREM ValuesSurvive == Spec => ValuesSurviveAlter
<1> DEFINE Survive ==
      \A r \in tree.rows \intersect tree'.rows :
      \A t \in DOMAIN tree.tables \intersect DOMAIN tree'.tables :
         LET was == GetTable(tree, t)
             is  == GetTable(tree', t)
         IN  was.id = r.table /\ is.id = r.table =>
               \A n \in ColNames :
                  VisiblePosition(was, n) > 0 /\ VisiblePosition(is, n) > 0 =>
                     FinishRow(is, r.row)[VisiblePosition(is, n)] =
                     FinishRow(was, r.row)[VisiblePosition(was, n)]
<1>1. ASSUME IInv, IInv', AllKept(tree, tree')
      PROVE  Survive
  <2> SUFFICES ASSUME NEW r, NEW t, t \in DOMAIN tree.tables, t \in DOMAIN tree'.tables, NEW n \in ColNames,
                      VisiblePosition(GetTable(tree, t), n) > 0, VisiblePosition(GetTable(tree', t), n) > 0
               PROVE  FinishRow(GetTable(tree', t), r.row)[VisiblePosition(GetTable(tree', t), n)] =
                      FinishRow(GetTable(tree, t), r.row)[VisiblePosition(GetTable(tree, t), n)]
    OBVIOUS
  <2> DEFINE was == GetTable(tree, t)
             is == GetTable(tree', t)
             p == VisiblePosition(was, n)
             q == VisiblePosition(is, n)
  <2>1. TreeInv(tree) /\ TreeInv(tree')
    BY <1>1 DEF IInv
  <2>2. IsDef(was) /\ IsDef(is)
    <3>1. IsDef(was)
      BY <2>1, DefOf
    <3>2. IsDef(is)
      BY <2>1, DefOf
    <3> QED BY <3>1, <3>2
  <2>3. Kept(was, is)
    BY <1>1 DEF AllKept
  <2>4. p > 0 /\ q > 0
    OBVIOUS
  <2> HIDE DEF was, is
  <2>5. p \in 0 .. Len(was.columns) /\ q \in 0 .. Len(is.columns)
    BY <2>2, VisiblePositionIs
  <2>6. p # 0 /\ q # 0
    BY <2>4, <2>5
  <2>7. q = p
    BY <2>3, <2>6 DEF Kept
  <2>8. p \in 1 .. Len(was.columns)
    BY <2>5, <2>6
  <2> HIDE DEF p, q
  <2>9. FinishRow(is, r.row)[p] = FinishRow(was, r.row)[p]
    BY <2>2, <2>3, <2>8, KeptReads
  <2> QED BY <2>7, <2>9 DEF was, is, p, q
<1>2. IInv /\ [Next]_vars => [tree' # saved /\ tree'.tables # tree.tables => Survive]_vars
  <2> SUFFICES ASSUME IInv, Next, tree' # saved, tree'.tables # tree.tables
               PROVE  Survive
    OBVIOUS
  <2>1. IInv'
    BY NextIInv
  <2>2. AllKept(tree, tree')
    <3>1. CASE SchemaStep
      BY <3>1, SchemaSteps DEF StepKeeps
    <3>2. CASE RowStep
      BY <3>2, RowSteps DEF StepKeeps
    <3>3. CASE SetSavepoint \/ RollbackTo \/ NewTx
      BY <3>3 DEF SetSavepoint, RollbackTo, NewTx
    <3> QED BY <3>1, <3>2, <3>3 DEF Next
  <2> HIDE DEF Survive
  <2> QED BY <2>1, <2>2, <1>1
<1>3. IInv /\ [Next]_vars =>
        [tree' # saved /\ tree'.tables # tree.tables =>
           \A r \in tree.rows \intersect tree'.rows :
           \A t \in DOMAIN tree.tables \intersect DOMAIN tree'.tables :
              LET was == GetTable(tree, t)
                  is  == GetTable(tree', t)
              IN  was.id = r.table /\ is.id = r.table =>
                    \A n \in ColNames :
                       VisiblePosition(was, n) > 0 /\ VisiblePosition(is, n) > 0 =>
                          FinishRow(is, r.row)[VisiblePosition(is, n)] =
                          FinishRow(was, r.row)[VisiblePosition(was, n)]]_vars
  BY <1>2
<1> HIDE DEF Survive
<1> QED BY <1>3, TreesAreWhole, PTL DEF Spec, ValuesSurviveAlter
============================================================================
