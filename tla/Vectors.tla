------------------------------ MODULE Vectors ------------------------------
(***************************************************************************)
(* Vector search: the IVF index of src/src/catalog.rs over src/src/ivf.rs,   *)
(* src/src/pq.rs and src/src/vector.rs, and the plans of src/src/exec.rs for *)
(* ORDER BY distance LIMIT k.                                                *)
(*                                                                          *)
(* A vector is a number.  Training is a choice of centroids: what holds must *)
(* hold whatever k-means finds.  The code of a posting (product quantisation *)
(* or int8) is the vector rounded by Quant.                                  *)
(***************************************************************************)
EXTENDS Ranking, SequencesExt

CONSTANTS
    Quant,        \* [vector -> vector]: what the code of a posting keeps
    NoVector      \* NULL

\* l2_sq
Dist(a, b) == (a - b) * (a - b)

\* nearest, nearest_centroid: the first of the nearest centroids.
Nearest(centroids, v) ==
    CHOOSE c \in 1 .. Len(centroids) :
        /\ \A d \in 1 .. Len(centroids) : Dist(centroids[c], v) <= Dist(centroids[d], v)
        /\ \A d \in 1 .. c - 1 : Dist(centroids[d], v) > Dist(centroids[c], v)

\* row_vector: rows without a vector are not indexed.
Vectored(rows) == {n \in DOMAIN rows : rows[n] # NoVector}

\* build_vector_clusters, after training: the centroids and one posting per row
\* with a vector, under its nearest centroid.
BuildClusters(rows, centroids) ==
    IF Vectored(rows) = {} THEN [centroids |-> <<>>, posts |-> {}]
    ELSE [centroids |-> centroids,
          posts |-> {[cid |-> Nearest(centroids, rows[n]), rowid |-> n, code |-> Quant[rows[n]]] :
                        n \in Vectored(rows)}]

\* Variant of ApplyVector: a row that leaves is looked for under the first centroid.
ApplyVectorFirst(ix, rowid, v, add) ==
    IF v = NoVector \/ ix.centroids = <<>> THEN ix
    ELSE IF add
         THEN [ix EXCEPT !.posts =
                 {p \in @ : p.cid # Nearest(ix.centroids, v) \/ p.rowid # rowid} \union
                    {[cid |-> Nearest(ix.centroids, v), rowid |-> rowid, code |-> Quant[v]]}]
         ELSE [ix EXCEPT !.posts = {p \in @ : p.cid # 1 \/ p.rowid # rowid}]

\* apply_vector_row: nothing to keep without a vector or without centroids.
ApplyVector(ix, rowid, v, add) ==
    IF v = NoVector \/ ix.centroids = <<>> THEN ix
    ELSE LET cid == Nearest(ix.centroids, v) IN
         IF add
         THEN [ix EXCEPT !.posts =
                 {p \in @ : p.cid # cid \/ p.rowid # rowid} \union
                    {[cid |-> cid, rowid |-> rowid, code |-> Quant[v]]}]
         ELSE [ix EXCEPT !.posts = {p \in @ : p.cid # cid \/ p.rowid # rowid}]

\* vector_search, vector_search_with and scan_clusters: the clusters of the
\* nprobe nearest centroids, the best `limit` of them by the distance of the code.
VectorSearch(ix, query, nprobe, limit) ==
    IF ix.centroids = <<>> THEN <<>>
    ELSE LET probe == IF nprobe > Len(ix.centroids) THEN Len(ix.centroids) ELSE nprobe
             near == ToSet(Closest(1 .. Len(ix.centroids),
                                   [c \in 1 .. Len(ix.centroids) |-> Dist(ix.centroids[c], query)],
                                   probe))
             hits == {p \in ix.posts : p.cid \in near}
         IN  Closest({p.rowid : p \in hits},
                     [n \in {p.rowid : p \in hits} |->
                         Dist((CHOOSE p \in hits : p.rowid = n).code, query)],
                     limit)

\* knn_exact: every row with a vector, by its distance.
KnnExact(rows, query, k) ==
    Closest(Vectored(rows), [n \in Vectored(rows) |-> Dist(rows[n], query)], k)

\* vector_plan: the shortlist of the index, ranked by the stored vectors; with
\* int8 re-rank the index is asked for k rows only.
VectorPlan(ix, rows, query, k, wide) ==
    LET shortlist == VectorSearch(ix, query, ix.nprobe, IF ix.rerank THEN k ELSE wide)
        found == {n \in ToSet(shortlist) : n \in Vectored(rows)}
    IN  Closest(found, [n \in found |-> Dist(rows[n], query)], k)
=============================================================================
