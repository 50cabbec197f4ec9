------------------------------- MODULE Search -------------------------------
(***************************************************************************)
(* A table with a full-text index and a vector index, kept in step with its  *)
(* rows by every write (src/src/catalog.rs: put_row, update_row, delete_row  *)
(* and the index DDL) and read by the plans of src/src/exec.rs.              *)
(***************************************************************************)
EXTENDS FullText, Vectors

CONSTANTS
    MaxRow,      \* rowids are 1 .. MaxRow
    Contents,    \* what a row may hold: [text |-> [field -> text], vec |-> vector or NoVector]
    Training,    \* the sequences of centroids k-means may end with
    Settings,    \* vector indexes: [nprobe, rerank]
    Targets,     \* the vectors given to ORDER BY distance
    None         \* no such index

\* A row has a text for each of its indexed columns, and a vector or none, and the
\* code of a vector is a vector.
ASSUME ContentsAssumption ==
    \A c \in Contents :
        /\ IsFiniteSet(DOMAIN c.text) /\ DOMAIN c.text \subseteq Nat
        /\ \A f \in DOMAIN c.text : Len(c.text[f]) \in Nat
        /\ c.vec = NoVector \/ (c.vec \in Int /\ Quant[c.vec] \in Int)

\* The bound on rowids, and what the statements may give.
ASSUME StatementsAssumption ==
    /\ MaxRow \in Nat
    /\ \A c \in Training : c \in Seq(Int)
    /\ \A s \in Settings : s.nprobe \in Nat
    /\ \A v \in Targets : v \in Int

VARIABLES
    rows,    \* [rowid -> content]
    fts,     \* the full-text index, or None
    vec      \* the vector index: [nprobe, rerank, centroids, posts], or None

vars == <<rows, fts, vec>>

Docs == [n \in DOMAIN rows |-> Doc(rows[n].text)]
Column == [n \in DOMAIN rows |-> rows[n].vec]

Init == rows = <<>> /\ fts = None /\ vec = None

-----------------------------------------------------------------------------
(* The table's writes.  Old entries leave before new ones come.              *)

\* delete_fts_entries and delete_vector_entries
Unindexed(rowid, content) ==
    [fts |-> IF fts = None THEN None ELSE ApplyRow(fts, rowid, Doc(content.text), FALSE),
     vec |-> IF vec = None THEN None ELSE ApplyVector(vec, rowid, content.vec, FALSE)]

\* insert_fts_entries and insert_vector_entries
Indexed(ixs, rowid, content) ==
    /\ fts' = IF ixs.fts = None THEN None ELSE ApplyRow(ixs.fts, rowid, Doc(content.text), TRUE)
    /\ vec' = IF ixs.vec = None THEN None ELSE ApplyVector(ixs.vec, rowid, content.vec, TRUE)

InsertRow(rowid, content) ==
    /\ ~Has(rows, rowid)
    /\ rows' = Put(rows, rowid, content)
    /\ Indexed([fts |-> fts, vec |-> vec], rowid, content)

UpdateRow(rowid, content) ==
    /\ Has(rows, rowid) /\ rows[rowid] # content
    /\ rows' = [rows EXCEPT ![rowid] = content]
    /\ Indexed(Unindexed(rowid, rows[rowid]), rowid, content)

DeleteRow(rowid) ==
    /\ Has(rows, rowid)
    /\ rows' = Drop(rows, rowid)
    /\ fts' = Unindexed(rowid, rows[rowid]).fts
    /\ vec' = Unindexed(rowid, rows[rowid]).vec

-----------------------------------------------------------------------------
(* The indexes' own statements.                                              *)

CreateFts == fts = None /\ fts' = Backfill(Docs) /\ UNCHANGED <<rows, vec>>
DropFts   == fts # None /\ fts' = None /\ UNCHANGED <<rows, vec>>

\* build_vector_clusters
Built(setting, centroids) ==
    LET b == BuildClusters(Column, centroids) IN
    [nprobe |-> setting.nprobe, rerank |-> setting.rerank,
     centroids |-> b.centroids, posts |-> b.posts]

CreateVector(setting, centroids) ==
    vec = None /\ vec' = Built(setting, centroids) /\ UNCHANGED <<rows, fts>>

DropVector == vec # None /\ vec' = None /\ UNCHANGED <<rows, fts>>

\* rebuild_vector_index: everything of the old index is removed first.
RebuildVector(centroids) ==
    vec # None /\ vec' = Built(vec, centroids) /\ UNCHANGED <<rows, fts>>

Next ==
    \/ \E n \in 1 .. MaxRow, c \in Contents : InsertRow(n, c)
    \/ \E n \in 1 .. MaxRow, c \in Contents : UpdateRow(n, c)
    \/ \E n \in 1 .. MaxRow : DeleteRow(n)
    \/ CreateFts
    \/ DropFts
    \/ \E s \in Settings, c \in Training : CreateVector(s, c)
    \/ DropVector
    \/ \E c \in Training : RebuildVector(c)

Spec == Init /\ [][Next]_vars

-----------------------------------------------------------------------------
(* Properties.                                                               *)

\* Counters never fall below one: a term or a document that is gone has no key.
TypeOK ==
    /\ DOMAIN rows \subseteq 1 .. MaxRow
    /\ fts # None =>
          /\ \A t \in DOMAIN fts.df : fts.df[t] \in 1 .. MaxRow
          /\ \A n \in DOMAIN fts.doclen : fts.doclen[n] \in Nat \ {0}
          /\ fts.docs \in 0 .. MaxRow /\ fts.total \in Nat
          /\ \A s, t \in DOMAIN fts.dict : fts.dict[s] = fts.dict[t] => s = t
          /\ \A t \in DOMAIN fts.dict : fts.dict[t] < fts.next

\* After any sequence of writes the statistics BM25 reads are those of the rows that
\* are there, whether the index was filled by CREATE or row by row.
StatsExact ==
    TypeOK /\ (fts # None =>
        LET terms == UNION {TermsOf(Docs[n]) : n \in DOMAIN rows}
        IN  /\ fts.docs = Cardinality(DOMAIN rows)
            /\ fts.total = Cardinality(Tokens(Docs))
            /\ DOMAIN fts.df = terms
            /\ \A t \in terms :
                  /\ fts.df[t] = Cardinality({n \in DOMAIN rows : t \in TermsOf(Docs[n])})
                  /\ TermPostings(fts, t) =
                        {<<x[1], x[2][2], x[2][3]>> : x \in {y \in Tokens(Docs) : y[2][1] = t}}
            /\ \A n \in DOMAIN rows : At(fts.doclen, n) = Cardinality(Docs[n])
            /\ \A k \in DOMAIN fts.posts : k[2] \in DOMAIN rows)

\* With centroids, every row with a vector has one posting: under the centroid nearest
\* to the vector it has now, with the code of that vector.
PostingsExact ==
    (vec # None /\ vec.centroids # <<>>) =>
        vec.posts = {[cid |-> Nearest(vec.centroids, rows[n].vec), rowid |-> n, code |-> Quant[rows[n].vec]] :
                        n \in Vectored(Column)}

\* With every cluster probed and a shortlist wider than the table, the index answers
\* ORDER BY distance LIMIT k with the distances of the exact plan.
AllProbesExact ==
    (vec # None /\ vec.centroids # <<>> /\ vec.nprobe >= Len(vec.centroids) /\ ~vec.rerank) =>
        \A v \in Targets, k \in 1 .. 2 :
            LET found == VectorPlan(vec, Column, v, k, MaxRow)
                exact == KnnExact(Column, v, k)
            IN  [i \in 1 .. Len(found) |-> Dist(Column[found[i]], v)]
                  = [i \in 1 .. Len(exact) |-> Dist(Column[exact[i]], v)]

\* The vector index follows the rows, and probing all of it is the exact plan.
VectorsExact == PostingsExact /\ AllProbesExact
=============================================================================
