--------------------------- MODULE Session_proofs ---------------------------
(***************************************************************************)
(* Whatever statements a connection runs, with the cascades and triggers     *)
(* they set off, in transactions with savepoints or alone: the entries of    *)
(* every index are those of the rows, UNIQUE holds, and every rowid is below *)
(* the counter of its table.                                                 *)
(***************************************************************************)
EXTENDS Session, NatLemmas

----------------------------------------------------------------------------
(***************************************************************************)
(* Steps.                                                                    *)
(***************************************************************************)
\* The steps that, when they succeed, stay in S.
Keeping(S) == {f \in [Txs -> Results] : \A x \in S : f[x].ok => f[x].tx \in S}

LEMMA ResultsAre ==
    ASSUME NEW tx \in Txs
    PROVE  /\ Good(tx) \in Results /\ Good(tx).ok /\ Good(tx).tx = tx
           /\ Bad(tx) \in Results /\ ~Bad(tx).ok /\ Bad(tx).tx = tx
  BY DEF Good, Bad, Results

LEMMA SkipKeeps ==
    ASSUME NEW S \in SUBSET Txs
    PROVE  Skip \in Keeping(S) /\ Refuse \in Keeping(S)
<1>1. \A x \in Txs : Skip[x] = Good(x) /\ Refuse[x] = Bad(x)
  BY DEF Skip, Refuse
<1>2. Skip \in [Txs -> Results] /\ Refuse \in [Txs -> Results]
  BY ResultsAre DEF Skip, Refuse
<1> QED BY <1>1, <1>2, ResultsAre DEF Keeping

\* Steps in turn stay where each of them stays.
LEMMA InTurnKeeps ==
    ASSUME NEW S \in SUBSET Txs, NEW steps, Len(steps) \in Nat,
           \A k \in 1 .. Len(steps) : steps[k] \in Keeping(S)
    PROVE  InTurn(steps) \in Keeping(S)
<1> DEFINE N == Len(steps)
           E(r, k) == IF r.ok THEN steps[k][r.tx] ELSE r
           F(g, tx, k) == IF k = 0 THEN Good(tx) ELSE E(g[k - 1], k)
           done(tx) == CHOOSE g : g = [k \in 0 .. N |-> F(g, tx, k)]
<1>1. \A tx \in Txs : InTurn(steps)[tx] = done(tx)[N]
  BY DEF InTurn
<1>2. DOMAIN InTurn(steps) = Txs /\ InTurn(steps) = [tx \in Txs |-> InTurn(steps)[tx]]
  BY DEF InTurn
<1> HIDE DEF N
<1>a. N \in Nat
  BY DEF N
<1>3. ASSUME NEW k \in 1 .. N, NEW r \in Results
      PROVE  /\ E(r, k) \in Results
             /\ (r.ok => r.tx \in S) => (E(r, k).ok => E(r, k).tx \in S)
  <2>1. steps[k] \in [Txs -> Results] /\ \A x \in S : steps[k][x].ok => steps[k][x].tx \in S
    BY DEF N, Keeping
  <2>2. r.tx \in Txs
    BY DEF Results
  <2> QED BY <2>1, <2>2
<1>4. ASSUME NEW tx \in Txs
      PROVE  /\ done(tx)[N] \in Results
             /\ tx \in S => (done(tx)[N].ok => done(tx)[N].tx \in S)
  <2> DEFINE G == [k \in 1 .. N |-> [r \in Results |-> E(r, k)]]
             d == done(tx)
  <2>1. Within(N, Results, G)
    <3> HIDE DEF E
    <3> QED BY <1>3 DEF Within
  <2>2. \A k \in 1 .. N, r \in Results : G[k][r] = E(r, k)
    <3> HIDE DEF E
    <3> QED OBVIOUS
  <2> HIDE DEF G
  <2>0. PICK g : Follows(N, Results, Good(tx), G, g)
    <3>1. Good(tx) \in Results
      BY ResultsAre
    <3> HIDE DEF d, done, F, E
    <3> QED BY <2>1, <1>a, <3>1, Iterates
  <2>3. /\ g \in [0 .. N -> Results] /\ g[0] = Good(tx)
        /\ \A k \in 1 .. N : g[k] = G[k][g[k - 1]]
    BY <2>0 DEF Follows
  <2>4. ASSUME NEW k \in 0 .. N PROVE g[k] = F(g, tx, k)
    <3>1. CASE k = 0
      BY <3>1, <2>3
    <3>2. CASE k # 0
      <4>1. k \in 1 .. N /\ k - 1 \in 0 .. N
        BY <3>2, <1>a
      <4>2. g[k - 1] \in Results
        BY <4>1, <2>3
      <4>3. g[k] = E(g[k - 1], k)
        <5> HIDE DEF E
        <5> QED BY <4>1, <4>2, <2>2, <2>3
      <4> HIDE DEF E
      <4> QED BY <4>3, <3>2
    <3> QED BY <3>1, <3>2
  <2>5. g = [k \in 0 .. N |-> F(g, tx, k)]
    <3> HIDE DEF F
    <3> QED BY <2>4, <2>3
  <2>6. \E f : f = [k \in 0 .. N |-> F(f, tx, k)]
    <3> HIDE DEF F
    <3> QED BY <2>5
  <2>7. d = [k \in 0 .. N |-> F(d, tx, k)]
    <3> HIDE DEF F
    <3> QED BY <2>6
  <2> HIDE DEF d
  <2>8. \A k \in 0 .. N : d[k] = F(d, tx, k)
    <3> HIDE DEF F
    <3> QED BY <2>7
  <2> DEFINE P(k) == d[k] \in Results /\ (tx \in S => (d[k].ok => d[k].tx \in S))
             T == {k \in 0 .. N : P(k)}
  <2>9. 0 \in T
    <3>1. d[0] = Good(tx) /\ 0 \in 0 .. N
      BY <2>8, <1>a
    <3> QED BY <3>1, ResultsAre
  <2>10. ASSUME NEW k \in 0 .. N - 1, k \in T PROVE k + 1 \in T
    <3>1. k + 1 \in 0 .. N /\ k + 1 # 0 /\ (k + 1) - 1 = k /\ k + 1 \in 1 .. N
      BY <1>a
    <3>2. d[k + 1] = E(d[k], k + 1)
      <4> HIDE DEF E
      <4> QED BY <3>1, <2>8
    <3> HIDE DEF E
    <3>3. P(k)
      BY <2>10
    <3>4. P(k + 1)
      BY <3>1, <3>2, <3>3, <1>3
    <3> QED BY <3>1, <3>4
  <2>11. N \in T
    <3> HIDE DEF T
    <3>1. N \in 0 .. N
      BY <1>a
    <3> QED BY <3>1, <2>9, <2>10, <1>a, BoundedInduction
  <2> QED BY <2>11 DEF d
<1> HIDE DEF done
<1>5. InTurn(steps) \in [Txs -> Results]
  BY <1>1, <1>2, <1>4
<1> QED BY <1>1, <1>4, <1>5 DEF Keeping

----------------------------------------------------------------------------
(***************************************************************************)
(* The transaction.                                                          *)
(***************************************************************************)
LEMMA IndexTypes ==
    ASSUME NEW t \in Tables
    PROVE  /\ Len(Indexes[t]) \in Nat
           /\ \A i \in 1 .. Len(Indexes[t]) : Indexes[t][i].col \in Cols
           /\ \A r \in Records : DOMAIN r = Cols /\ \A c \in Cols : r[c] \in Values
           /\ NoRow \notin Records
<1>1. Indexes[t] \in Seq([col : Cols, unique : BOOLEAN])
  BY SchemaAssumption
<1>2. DOMAIN NoRow = {"rowid"} /\ "rowid" \notin Cols
  BY SchemaAssumption DEF NoRow
<1>3. \A r \in Records : DOMAIN r = Cols /\ \A c \in Cols : r[c] \in Values
  BY DEF Records
<1>4. NoRow \notin Records
  BY <1>2, <1>3
<1>5. Len(Indexes[t]) \in Nat /\ \A i \in 1 .. Len(Indexes[t]) : Indexes[t][i].col \in Cols
  <2> DEFINE s == Indexes[t]
             R == [col : Cols, unique : BOOLEAN]
  <2>1. s \in Seq(R) /\ \A r \in R : r.col \in Cols
    BY <1>1
  <2> HIDE DEF s, R
  <2>2. Len(s) \in Nat /\ \A i \in 1 .. Len(s) : s[i] \in R
    BY <2>1
  <2>3. Len(s) \in Nat /\ \A i \in 1 .. Len(s) : s[i].col \in Cols
    BY <2>1, <2>2
  <2> QED BY <2>3 DEF s
<1> QED BY <1>3, <1>4, <1>5

LEMMA TxParts ==
    ASSUME NEW tx \in Txs
    PROVE  /\ tx.tree.rows \in [Tables -> [Rowids -> Records \union {NoRow}]]
           /\ tx.tree.entries \in SUBSET (Tables \X Cols \X Values \X Rowids)
           /\ tx.tree.counter \in [Tables -> Rowids]
           /\ tx.cache \in [Tables -> 0 .. MaxRowid]
           /\ \A t \in Tables, n \in Rowids : RowOf(tx, t, n) \in Records \union {NoRow}
           /\ \A t \in Tables : \A n : HasRow(tx, t, n) => n \in Rowids /\ RowOf(tx, t, n) \in Records
  BY DEF Txs, AllTrees, RowOf, HasRow

\* y is x with one row written or dropped.
RowWritten(x, y, t, n, row) ==
    /\ y \in Txs /\ y.cache = x.cache /\ y.tree.counter = x.tree.counter
    /\ y.tree.entries = x.tree.entries
    /\ \A u \in Tables, m \in Rowids :
          RowOf(y, u, m) = IF u = t /\ m = n THEN row ELSE RowOf(x, u, m)

LEMMA PutKeyIs ==
    ASSUME NEW tx \in Txs, NEW t \in Tables, NEW n \in Rowids, NEW row \in Records
    PROVE  RowWritten(tx, PutKey(tx, t, n, row), t, n, row)
<1> DEFINE y == PutKey(tx, t, n, row)
<1>1. y \in Txs
  BY DEF PutKey, Txs, AllTrees
<1>2. /\ y.cache = tx.cache /\ y.tree.counter = tx.tree.counter
      /\ y.tree.entries = tx.tree.entries
      /\ y.tree.rows = [tx.tree.rows EXCEPT ![t][n] = row]
  BY DEF PutKey, Txs, AllTrees
<1>3. \A u \in Tables, m \in Rowids :
          RowOf(y, u, m) = IF u = t /\ m = n THEN row ELSE RowOf(tx, u, m)
  BY <1>2, TxParts DEF RowOf
<1> QED BY <1>1, <1>2, <1>3 DEF RowWritten

LEMMA DropKeyIs ==
    ASSUME NEW tx \in Txs, NEW t \in Tables, NEW n \in Rowids
    PROVE  RowWritten(tx, DropKey(tx, t, n), t, n, NoRow)
<1> DEFINE y == DropKey(tx, t, n)
<1>1. y \in Txs
  BY DEF DropKey, Txs, AllTrees
<1>2. /\ y.cache = tx.cache /\ y.tree.counter = tx.tree.counter
      /\ y.tree.entries = tx.tree.entries
      /\ y.tree.rows = [tx.tree.rows EXCEPT ![t][n] = NoRow]
  BY DEF DropKey, Txs, AllTrees
<1>3. \A u \in Tables, m \in Rowids :
          RowOf(y, u, m) = IF u = t /\ m = n THEN NoRow ELSE RowOf(tx, u, m)
  BY <1>2, TxParts DEF RowOf
<1> QED BY <1>1, <1>2, <1>3 DEF RowWritten

LEMMA WithEntriesIs ==
    ASSUME NEW tx \in Txs, NEW add \in SUBSET (Tables \X Cols \X Values \X Rowids), NEW del
    PROVE  LET y == WithEntries(tx, add, del) IN
           /\ y \in Txs /\ y.cache = tx.cache
           /\ y.tree.counter = tx.tree.counter /\ y.tree.rows = tx.tree.rows
           /\ y.tree.entries = (tx.tree.entries \ del) \union add
  BY DEF WithEntries, Txs, AllTrees

LEMMA WithoutEntriesIs ==
    ASSUME NEW tx \in Txs, NEW del
    PROVE  LET y == WithEntries(tx, {}, del) IN
           /\ y \in Txs /\ y.cache = tx.cache
           /\ y.tree.counter = tx.tree.counter /\ y.tree.rows = tx.tree.rows
           /\ y.tree.entries = tx.tree.entries \ del
  BY DEF WithEntries, Txs, AllTrees

LEMMA EntryTypes ==
    ASSUME NEW t \in Tables, NEW i \in 1 .. Len(Indexes[t]), NEW n \in Rowids, NEW row \in Records
    PROVE  EntryOf(t, i, n, row) \in Tables \X Cols \X Values \X Rowids
  BY IndexTypes DEF EntryOf

LEMMA SettleIs ==
    ASSUME NEW before \in Txs, NEW r \in Results
    PROVE  Settle(before, r) \in Results /\ (r.ok <=> Settle(before, r).ok)
           /\ (r.ok => Settle(before, r) = r)
  BY DEF Settle, Results, Txs, Bad

LEMMA CachedIs ==
    ASSUME NEW r \in Results, NEW t \in Tables, NEW next \in Rowids
    PROVE  LET s == Cached(r, t, next) IN
           /\ s \in Results /\ (s.ok <=> r.ok)
           /\ r.ok => /\ s.tx.tree = r.tx.tree
                      /\ s.tx.cache = [r.tx.cache EXCEPT ![t] = next]
<1>1. Rowids \subseteq 0 .. MaxRowid
  BY SchemaAssumption DEF Rowids
<1>2. CASE r.ok
  BY <1>1, <1>2 DEF Cached, Results, Txs, Good
<1>3. CASE ~r.ok
  BY <1>3 DEF Cached
<1> QED BY <1>2, <1>3

----------------------------------------------------------------------------
(***************************************************************************)
(* What a sound transaction is, and rows whose entries are still to come.    *)
(***************************************************************************)
\* The row has the value in a column with an index.
Held(tx, t, c, v, n) ==
    /\ HasRow(tx, t, n) /\ RowOf(tx, t, n)[c] = v
    /\ \E i \in 1 .. Len(Indexes[t]) : Indexes[t][i].col = c

\* The entries are those of the rows, the new rows of u left out.
ExactBut(tx, u, new) ==
    \A t \in Tables, c \in Cols, v \in Values, n \in Rowids :
        <<t, c, v, n>> \in tx.tree.entries <=> (Held(tx, t, c, v, n) /\ ~(t = u /\ n \in new))

\* UNIQUE holds among the rows, the new rows of u left out.
UniqueBut(tx, u, new) ==
    \A t \in Tables : \A i \in 1 .. Len(Indexes[t]) : Indexes[t][i].unique =>
        \A m, n \in Rowids :
            /\ HasRow(tx, t, m) /\ HasRow(tx, t, n)
            /\ ~(t = u /\ (m \in new \/ n \in new))
            /\ RowOf(tx, t, m)[Indexes[t][i].col] = RowOf(tx, t, n)[Indexes[t][i].col]
            /\ RowOf(tx, t, m)[Indexes[t][i].col] # Null
            => m = n

\* Every rowid is below the counter, unless it has saturated.
Below(tx) ==
    \A t \in Tables : \/ NextRowid(tx, t) = MaxRowid
                      \/ \A n \in Rowids : HasRow(tx, t, n) => n < NextRowid(tx, t)

Sound(tx) == (\A t \in Tables : ExactBut(tx, t, {}) /\ UniqueBut(tx, t, {})) /\ Below(tx)

SoundTxs == {tx \in Txs : Sound(tx)}

\* No new row breaks UNIQUE with another new one or with an entry.
NoClash(tx, t, new) ==
    \A i \in 1 .. Len(Indexes[t]) : Indexes[t][i].unique =>
        \A m \in new :
            LET c == Indexes[t][i].col
                v == RowOf(tx, t, m)[c]
            IN  v # Null => /\ \A n \in new : RowOf(tx, t, n)[c] = v => n = m
                            /\ ~ValueHeldByOther(tx, t, c, v, m)

\* The entries of rows.
AllEntries(tx, t, new) ==
    {EntryOf(t, i, m, RowOf(tx, t, m)) : i \in 1 .. Len(Indexes[t]), m \in new}

\* y is x with other entries.
EntriesChanged(x, y) ==
    /\ y \in Txs /\ y.cache = x.cache
    /\ y.tree.counter = x.tree.counter /\ y.tree.rows = x.tree.rows

LEMMA SoundKeeping ==
    ASSUME NEW f \in [Txs -> Results],
           \A tx \in Txs : Sound(tx) /\ f[tx].ok => Sound(f[tx].tx)
    PROVE  f \in Keeping(SoundTxs)
<1>1. \A tx \in Txs : f[tx].tx \in Txs
  BY DEF Results
<1>2. \A tx \in SoundTxs : f[tx].ok => f[tx].tx \in SoundTxs
  BY <1>1 DEF SoundTxs
<1> QED BY <1>2 DEF Keeping

\* Entries and UNIQUE are not about the counters.
LEMMA SameTree ==
    ASSUME NEW x, NEW y, y.tree.rows = x.tree.rows, y.tree.entries = x.tree.entries,
           NEW u, ExactBut(x, u, {}), UniqueBut(x, u, {})
    PROVE  ExactBut(y, u, {}) /\ UniqueBut(y, u, {})
<1>1. \A t, n : RowOf(y, t, n) = RowOf(x, t, n)
  BY DEF RowOf
<1>2. \A t, n : HasRow(y, t, n) <=> HasRow(x, t, n)
  BY <1>1 DEF HasRow
<1>3. \A t, c, v, n : Held(y, t, c, v, n) <=> Held(x, t, c, v, n)
  BY <1>1, <1>2 DEF Held
<1>4. ExactBut(y, u, {})
  BY <1>3 DEF ExactBut
<1>5. UniqueBut(y, u, {})
  BY <1>1, <1>2 DEF UniqueBut
<1> QED BY <1>4, <1>5

LEMMA AddEntriesIs ==
    ASSUME NEW tx \in Txs, NEW t \in Tables, NEW new \in SUBSET RowidsOf(tx.tree, t), NEW clashing
    PROVE  LET r == AddEntries(tx, t, new, clashing) IN
           /\ r \in Results /\ r.ok = (clashing = {}) /\ EntriesChanged(tx, r.tx)
           /\ r.ok => r.tx.tree.entries = tx.tree.entries \union AllEntries(tx, t, new)
<1> DEFINE before == { i \in 1 .. Len(Indexes[t]) : \A j \in clashing : i < j }
           added(I) == {EntryOf(t, i, m, RowOf(tx, t, m)) : i \in I, m \in new}
           y == WithEntries(tx, added(before), {})
           r == AddEntries(tx, t, new, clashing)
<1>1. r = [ok |-> clashing = {}, tx |-> y]
  BY DEF AddEntries
<1>2. added(before) \in SUBSET (Tables \X Cols \X Values \X Rowids)
  <2> SUFFICES ASSUME NEW i \in before, NEW n \in new
               PROVE  EntryOf(t, i, n, RowOf(tx, t, n)) \in Tables \X Cols \X Values \X Rowids
    OBVIOUS
  <2>1. n \in Rowids /\ RowOf(tx, t, n) \in Records
    BY TxParts DEF RowidsOf, RowOf
  <2> QED BY <2>1, EntryTypes
<1> HIDE DEF added
<1>3. EntriesChanged(tx, y) /\ y.tree.entries = tx.tree.entries \union added(before)
  <2> HIDE DEF before
  <2> QED BY <1>2, WithEntriesIs DEF EntriesChanged
<1>4. clashing = {} => before = 1 .. Len(Indexes[t])
  OBVIOUS
<1> HIDE DEF y, before, r
<1>5. r \in Results /\ r.ok = (clashing = {}) /\ r.tx = y
  BY <1>1, <1>3 DEF Results, EntriesChanged
<1>6. r.ok => r.tx.tree.entries = tx.tree.entries \union added(1 .. Len(Indexes[t]))
  BY <1>3, <1>4, <1>5
<1>7. added(1 .. Len(Indexes[t])) = AllEntries(tx, t, new)
  BY DEF added, AllEntries
<1> QED BY <1>3, <1>5, <1>6, <1>7 DEF r

\* With the entries of the new rows, the entries are those of all rows.
LEMMA EntriesAdded ==
    ASSUME NEW tx \in Txs, NEW t \in Tables, NEW new \in SUBSET RowidsOf(tx.tree, t), NEW y,
           EntriesChanged(tx, y), ExactBut(tx, t, new),
           y.tree.entries = tx.tree.entries \union AllEntries(tx, t, new)
    PROVE  \A u \in Tables : ExactBut(y, u, {})
<1>1. \A u \in Tables, n \in Rowids : RowOf(y, u, n) = RowOf(tx, u, n) /\ (HasRow(y, u, n) <=> HasRow(tx, u, n))
  BY DEF EntriesChanged, RowOf, HasRow
<1> SUFFICES ASSUME NEW u \in Tables, NEW c \in Cols, NEW v \in Values, NEW n \in Rowids
             PROVE  <<u, c, v, n>> \in y.tree.entries <=> Held(y, u, c, v, n)
  BY DEF ExactBut
<1>2. Held(y, u, c, v, n) <=> Held(tx, u, c, v, n)
  BY <1>1 DEF Held
<1>3. <<u, c, v, n>> \in tx.tree.entries <=> (Held(tx, u, c, v, n) /\ ~(u = t /\ n \in new))
  BY DEF ExactBut
<1>4. <<u, c, v, n>> \in AllEntries(tx, t, new) <=> (u = t /\ n \in new /\ Held(tx, u, c, v, n))
  <2>1. \A i \in 1 .. Len(Indexes[t]), m \in new :
            <<u, c, v, n>> = EntryOf(t, i, m, RowOf(tx, t, m))
            <=> (u = t /\ c = Indexes[t][i].col /\ v = RowOf(tx, t, m)[c] /\ n = m)
    BY DEF EntryOf
  <2>2. \A m \in new : m \in Rowids /\ HasRow(tx, t, m)
    BY DEF RowidsOf, HasRow, RowOf
  <2> DEFINE e == <<u, c, v, n>>
  <2>3. e \in AllEntries(tx, t, new)
        <=> \E i \in 1 .. Len(Indexes[t]), m \in new : e = EntryOf(t, i, m, RowOf(tx, t, m))
    <3> HIDE DEF e
    <3> QED BY DEF AllEntries
  <2>4. (\E i \in 1 .. Len(Indexes[t]), m \in new : e = EntryOf(t, i, m, RowOf(tx, t, m)))
        <=> (u = t /\ n \in new /\ Held(tx, u, c, v, n))
    BY <2>1, <2>2 DEF Held
  <2> QED BY <2>3, <2>4
<1> QED BY <1>2, <1>3, <1>4

\* If no new row clashes, UNIQUE holds for all rows.
LEMMA UniqueAdded ==
    ASSUME NEW tx \in Txs, NEW t \in Tables, NEW new \in SUBSET RowidsOf(tx.tree, t), NEW y,
           EntriesChanged(tx, y), ExactBut(tx, t, new), UniqueBut(tx, t, new), NoClash(tx, t, new)
    PROVE  \A u \in Tables : UniqueBut(y, u, {})
<1>1. \A u \in Tables, n \in Rowids : RowOf(y, u, n) = RowOf(tx, u, n) /\ (HasRow(y, u, n) <=> HasRow(tx, u, n))
  BY DEF EntriesChanged, RowOf, HasRow
<1> SUFFICES ASSUME NEW u \in Tables, NEW i \in 1 .. Len(Indexes[u]), Indexes[u][i].unique,
                    NEW m \in Rowids, NEW n \in Rowids, HasRow(tx, u, m), HasRow(tx, u, n),
                    RowOf(tx, u, m)[Indexes[u][i].col] = RowOf(tx, u, n)[Indexes[u][i].col],
                    RowOf(tx, u, m)[Indexes[u][i].col] # Null
             PROVE  m = n
  BY <1>1 DEF UniqueBut
<1>2. CASE ~(u = t /\ (m \in new \/ n \in new))
  BY <1>2 DEF UniqueBut
<1> DEFINE c == Indexes[t][i].col
<1>3. ASSUME u = t, NEW p \in Rowids, NEW q \in Rowids, p \in new, HasRow(tx, t, q),
             RowOf(tx, t, p)[c] = RowOf(tx, t, q)[c], RowOf(tx, t, p)[c] # Null
      PROVE  p = q
  <2>1. CASE q \in new
    BY <2>1, <1>3 DEF NoClash
  <2>2. CASE q \notin new
    <3>1. c \in Cols /\ RowOf(tx, t, q)[c] \in Values
      <4>1. RowOf(tx, t, q) \in Records
        BY <1>3, TxParts
      <4> QED BY <1>3, <4>1, IndexTypes
    <3>2. Held(tx, t, c, RowOf(tx, t, q)[c], q)
      BY <1>3 DEF Held
    <3>3. <<t, c, RowOf(tx, t, q)[c], q>> \in tx.tree.entries
      <4> HIDE DEF c
      <4> QED BY <3>1, <3>2, <2>2 DEF ExactBut
    <3>4. q # p => ValueHeldByOther(tx, t, c, RowOf(tx, t, p)[c], p)
      <4> DEFINE e == <<t, c, RowOf(tx, t, q)[c], q>>
      <4>1. e \in tx.tree.entries /\ e[1] = t /\ e[2] = c /\ e[3] = RowOf(tx, t, p)[c] /\ e[4] = q
        BY <3>3, <1>3
      <4> HIDE DEF e, c
      <4> QED BY <4>1 DEF ValueHeldByOther
    <3>5. ~ValueHeldByOther(tx, t, c, RowOf(tx, t, p)[c], p)
      BY <1>3 DEF NoClash
    <3> QED BY <3>4, <3>5
  <2> QED BY <2>1, <2>2
<1>4. CASE u = t /\ m \in new
  BY <1>3, <1>4
<1>5. CASE u = t /\ n \in new
  BY <1>3, <1>5
<1> QED BY <1>2, <1>4, <1>5

----------------------------------------------------------------------------
(***************************************************************************)
(* One row: put_row, update_row, delete_row, insert_row.                     *)
(***************************************************************************)
LEMMA InsertEntriesKeep ==
    ASSUME NEW tx \in Txs, NEW t \in Tables, NEW n \in Rowids, HasRow(tx, t, n)
    PROVE  LET r == InsertIndexEntries(tx, t, n) IN
           /\ r \in Results /\ EntriesChanged(tx, r.tx)
           /\ r.ok /\ ExactBut(tx, t, {n}) /\ UniqueBut(tx, t, {n})
              => \A u \in Tables : ExactBut(r.tx, u, {}) /\ UniqueBut(r.tx, u, {})
<1> DEFINE clashing == { i \in 1 .. Len(Indexes[t]) :
                LET ix == Indexes[t][i]
                    v == RowOf(tx, t, n)[ix.col]
                IN  ix.unique /\ v # Null /\ ValueHeldByOther(tx, t, ix.col, v, n) }
           r == AddEntries(tx, t, {n}, clashing)
<1>1. InsertIndexEntries(tx, t, n) = r
  BY DEF InsertIndexEntries
<1>2. {n} \in SUBSET RowidsOf(tx.tree, t)
  BY DEF HasRow, RowOf, RowidsOf
<1>3. clashing = {} => NoClash(tx, t, {n})
  BY DEF NoClash
<1> HIDE DEF clashing
<1>4. /\ r \in Results /\ r.ok = (clashing = {}) /\ EntriesChanged(tx, r.tx)
      /\ r.ok => r.tx.tree.entries = tx.tree.entries \union AllEntries(tx, t, {n})
  BY <1>2, AddEntriesIs
<1> HIDE DEF r
<1>5. ASSUME r.ok, ExactBut(tx, t, {n}), UniqueBut(tx, t, {n})
      PROVE  \A u \in Tables : ExactBut(r.tx, u, {}) /\ UniqueBut(r.tx, u, {})
  <2>1. \A u \in Tables : ExactBut(r.tx, u, {})
    BY <1>2, <1>4, <1>5, EntriesAdded
  <2>2. \A u \in Tables : UniqueBut(r.tx, u, {})
    BY <1>2, <1>3, <1>4, <1>5, UniqueAdded
  <2> QED BY <2>1, <2>2
<1> QED BY <1>1, <1>4, <1>5

LEMMA ValidatedIs ==
    ASSUME NEW t \in Tables, NEW vals \in Assignments
    PROVE  ValidatedRecord(t, vals) \in Records
<1>1. PICK S \in SUBSET Cols : vals \in [S -> Values]
  BY DEF Assignments
<1>2. Default[t] \in Records
  BY SchemaAssumption
<1>3. \A c \in Cols : ResolveCol(t, vals, c) \in Values
  BY <1>1, <1>2, IndexTypes DEF ResolveCol
<1> QED BY <1>3 DEF ValidatedRecord, Records

LEMMA RecordsAreAssignments ==
    \A r \in Records : r \in Assignments
  BY DEF Records, Assignments

\* The rows of y are those of x and one more.
RowPut(x, y, t, n) ==
    /\ y.cache = x.cache /\ y.tree.counter = x.tree.counter
    /\ \A u \in Tables, m \in Rowids :
          HasRow(y, u, m) <=> (HasRow(x, u, m) \/ (u = t /\ m = n))

LEMMA PutRowKeeps ==
    ASSUME NEW tx \in Txs, NEW t \in Tables, NEW n \in Rowids, NEW vals \in Assignments
    PROVE  LET r == PutRow(tx, t, n, vals) IN
           /\ r \in Results
           /\ r.ok => RowPut(tx, r.tx, t, n)
           /\ r.ok /\ ExactBut(tx, t, {n}) /\ UniqueBut(tx, t, {n})
              => \A u \in Tables : ExactBut(r.tx, u, {}) /\ UniqueBut(r.tx, u, {})
<1> DEFINE row == ValidatedRecord(t, vals)
           y == PutKey(tx, t, n, row)
           r == InsertIndexEntries(y, t, n)
<1>1. row \in Records /\ row # NoRow
  BY ValidatedIs, IndexTypes
<1> HIDE DEF row
<1>2. RowWritten(tx, y, t, n, row)
  BY <1>1, PutKeyIs
<1> HIDE DEF y
<1>3. /\ y \in Txs /\ y.cache = tx.cache /\ y.tree.counter = tx.tree.counter
      /\ y.tree.entries = tx.tree.entries
      /\ \A u \in Tables, m \in Rowids :
            RowOf(y, u, m) = IF u = t /\ m = n THEN row ELSE RowOf(tx, u, m)
  BY <1>2 DEF RowWritten
<1>4. \A u \in Tables, m \in Rowids : HasRow(y, u, m) <=> (HasRow(tx, u, m) \/ (u = t /\ m = n))
  BY <1>1, <1>3 DEF HasRow
<1>5. HasRow(y, t, n)
  BY <1>4
<1>6. ASSUME ExactBut(tx, t, {n}) PROVE ExactBut(y, t, {n})
  <2> SUFFICES ASSUME NEW u \in Tables, NEW c \in Cols, NEW v \in Values, NEW m \in Rowids
               PROVE  <<u, c, v, m>> \in y.tree.entries
                      <=> (Held(y, u, c, v, m) /\ ~(u = t /\ m \in {n}))
    BY DEF ExactBut
  <2>1. <<u, c, v, m>> \in tx.tree.entries <=> (Held(tx, u, c, v, m) /\ ~(u = t /\ m \in {n}))
    BY <1>6 DEF ExactBut
  <2>2. ~(u = t /\ m = n) => (Held(y, u, c, v, m) <=> Held(tx, u, c, v, m))
    BY <1>3, <1>4 DEF Held
  <2> QED BY <1>3, <2>1, <2>2
<1>7. UniqueBut(tx, t, {n}) => UniqueBut(y, t, {n})
  BY <1>3, <1>4 DEF UniqueBut
<1>8. /\ r \in Results /\ EntriesChanged(y, r.tx)
      /\ r.ok /\ ExactBut(y, t, {n}) /\ UniqueBut(y, t, {n})
         => \A u \in Tables : ExactBut(r.tx, u, {}) /\ UniqueBut(r.tx, u, {})
  BY <1>3, <1>5, InsertEntriesKeep
<1>9. RowPut(tx, r.tx, t, n)
  BY <1>3, <1>4, <1>8 DEF RowPut, EntriesChanged, HasRow, RowOf
<1>10. PutRow(tx, t, n, vals) = IF ~RecordValid(t, vals) THEN Bad(tx) ELSE r
  BY DEF PutRow, r, y, row
<1> HIDE DEF r
<1> QED BY <1>6, <1>7, <1>8, <1>9, <1>10, ResultsAre

\* Counters bound the same rowids.
LEMMA BelowSame ==
    ASSUME NEW x \in Txs, NEW y \in Txs, Below(x),
           y.cache = x.cache, y.tree.counter = x.tree.counter,
           \A u \in Tables, m \in Rowids : HasRow(y, u, m) => HasRow(x, u, m)
    PROVE  Below(y)
<1>1. \A t \in Tables : NextRowid(y, t) = NextRowid(x, t)
  BY DEF NextRowid, ReadCounter
<1> QED BY <1>1 DEF Below

LEMMA CatalogUpdateKeeps ==
    ASSUME NEW tx \in Txs, NEW t \in Tables, NEW n \in Rowids, NEW vals \in Records
    PROVE  LET r == CatalogUpdate(tx, t, n, vals) IN
           r \in Results /\ (r.ok /\ Sound(tx) => Sound(r.tx))
<1> DEFINE old == RowOf(tx, t, n)
           y == WithEntries(tx, {}, EntriesOf(t, n, old))
           r == PutRow(y, t, n, vals)
<1>1. CASE ~HasRow(tx, t, n) \/ ~RecordValid(t, vals)
  BY <1>1, ResultsAre DEF CatalogUpdate
<1>2. CASE HasRow(tx, t, n) /\ RecordValid(t, vals)
  <2>1. CatalogUpdate(tx, t, n, vals) = r
    BY <1>2 DEF CatalogUpdate
  <2>2. old \in Records
    BY <1>2, TxParts
  <2> HIDE DEF old
  <2>3. /\ EntriesChanged(tx, y) /\ y \in Txs
        /\ y.tree.entries = tx.tree.entries \ EntriesOf(t, n, old)
    <3> QED BY WithoutEntriesIs DEF EntriesChanged
  <2> HIDE DEF y
  <2>4. \A u \in Tables, m \in Rowids :
            RowOf(y, u, m) = RowOf(tx, u, m) /\ (HasRow(y, u, m) <=> HasRow(tx, u, m))
    BY <2>3 DEF EntriesChanged, RowOf, HasRow
  <2>5. ASSUME Sound(tx) PROVE ExactBut(y, t, {n})
    <3> SUFFICES ASSUME NEW u \in Tables, NEW c \in Cols, NEW v \in Values, NEW m \in Rowids
                 PROVE  <<u, c, v, m>> \in y.tree.entries
                        <=> (Held(y, u, c, v, m) /\ ~(u = t /\ m \in {n}))
      BY DEF ExactBut
    <3>1. <<u, c, v, m>> \in tx.tree.entries <=> Held(tx, u, c, v, m)
      BY <2>5 DEF Sound, ExactBut
    <3>2. Held(y, u, c, v, m) <=> Held(tx, u, c, v, m)
      BY <2>4 DEF Held
    <3>3. ASSUME Held(tx, u, c, v, m)
          PROVE  <<u, c, v, m>> \in EntriesOf(t, n, old) <=> (u = t /\ m = n)
      BY <3>3 DEF EntriesOf, EntryOf, Held, old
    <3> QED BY <2>3, <3>1, <3>2, <3>3
  <2>6. Sound(tx) => UniqueBut(y, t, {n})
    BY <2>4 DEF Sound, UniqueBut
  <2>7. /\ r \in Results /\ (r.ok => RowPut(y, r.tx, t, n))
        /\ r.ok /\ ExactBut(y, t, {n}) /\ UniqueBut(y, t, {n})
           => \A u \in Tables : ExactBut(r.tx, u, {}) /\ UniqueBut(r.tx, u, {})
    BY <2>3, PutRowKeeps, RecordsAreAssignments
  <2> HIDE DEF r
  <2>8. r.ok /\ Sound(tx) => Below(r.tx)
    <3>1. ASSUME r.ok
          PROVE  /\ r.tx \in Txs /\ r.tx.cache = tx.cache /\ r.tx.tree.counter = tx.tree.counter
                 /\ \A u \in Tables, m \in Rowids : HasRow(r.tx, u, m) => HasRow(tx, u, m)
      BY <3>1, <2>3, <2>4, <2>7, <1>2 DEF RowPut, EntriesChanged, Results
    <3> QED BY <3>1, BelowSame DEF Sound
  <2> QED BY <2>1, <2>5, <2>6, <2>7, <2>8 DEF Sound
<1> QED BY <1>1, <1>2

LEMMA CatalogDeleteKeeps ==
    ASSUME NEW tx \in Txs, NEW t \in Tables, NEW n \in Rowids
    PROVE  LET r == CatalogDelete(tx, t, n) IN
           r \in Results /\ (r.ok /\ Sound(tx) => Sound(r.tx))
<1> DEFINE old == RowOf(tx, t, n)
           x == DropKey(tx, t, n)
           y == WithEntries(x, {}, EntriesOf(t, n, old))
<1>1. CASE ~HasRow(tx, t, n)
  BY <1>1, ResultsAre DEF CatalogDelete
<1>2. CASE HasRow(tx, t, n)
  <2>1. CatalogDelete(tx, t, n) = Good(y)
    BY <1>2 DEF CatalogDelete
  <2>2. old \in Records
    BY <1>2, TxParts
  <2> HIDE DEF old
  <2>3. RowWritten(tx, x, t, n, NoRow)
    BY DropKeyIs
  <2> HIDE DEF x
  <2>4. /\ EntriesChanged(x, y) /\ y \in Txs
        /\ y.tree.entries = x.tree.entries \ EntriesOf(t, n, old)
    <3>1. x \in Txs
      BY <2>3 DEF RowWritten
    <3> QED BY <3>1, WithoutEntriesIs DEF EntriesChanged
  <2> HIDE DEF y
  <2>5. \A u \in Tables, m \in Rowids :
            RowOf(y, u, m) = IF u = t /\ m = n THEN NoRow ELSE RowOf(tx, u, m)
    BY <2>3, <2>4 DEF EntriesChanged, RowWritten, RowOf
  <2>6. \A u \in Tables, m \in Rowids : HasRow(y, u, m) <=> (HasRow(tx, u, m) /\ ~(u = t /\ m = n))
    BY <2>5 DEF HasRow
  <2>7. y.cache = tx.cache /\ y.tree.counter = tx.tree.counter
        /\ y.tree.entries = tx.tree.entries \ EntriesOf(t, n, old)
    BY <2>3, <2>4 DEF EntriesChanged, RowWritten
  <2>8. ASSUME Sound(tx), NEW w \in Tables PROVE ExactBut(y, w, {})
    <3> SUFFICES ASSUME NEW u \in Tables, NEW c \in Cols, NEW v \in Values, NEW m \in Rowids
                 PROVE  <<u, c, v, m>> \in y.tree.entries <=> Held(y, u, c, v, m)
      BY DEF ExactBut
    <3>1. <<u, c, v, m>> \in tx.tree.entries <=> Held(tx, u, c, v, m)
      BY <2>8 DEF Sound, ExactBut
    <3>2. Held(y, u, c, v, m) <=> (Held(tx, u, c, v, m) /\ ~(u = t /\ m = n))
      BY <2>5, <2>6 DEF Held
    <3>3. ASSUME Held(tx, u, c, v, m)
          PROVE  <<u, c, v, m>> \in EntriesOf(t, n, old) <=> (u = t /\ m = n)
      BY <3>3 DEF EntriesOf, EntryOf, Held, old
    <3> QED BY <2>7, <3>1, <3>2, <3>3
  <2>9. ASSUME Sound(tx), NEW w \in Tables PROVE UniqueBut(y, w, {})
    <3>1. UniqueBut(tx, w, {})
      BY <2>9 DEF Sound
    <3> QED BY <3>1, <2>5, <2>6 DEF UniqueBut
  <2>10. Sound(tx) => Below(y)
    BY <2>4, <2>6, <2>7, BelowSame DEF Sound
  <2> QED BY <2>1, <2>4, <2>8, <2>9, <2>10, ResultsAre DEF Sound
<1> QED BY <1>1, <1>2

LEMMA NextRowidIs ==
    ASSUME NEW tx \in Txs, NEW t \in Tables
    PROVE  NextRowid(tx, t) \in Rowids /\ 0 \notin Rowids /\ Rowids \subseteq Nat
           /\ \A n \in Rowids : n <= MaxRowid
  BY TxParts, SchemaAssumption DEF NextRowid, ReadCounter, Rowids

\* The rowid is new, and the next counter leaves it and all others behind.
LEMMA ResolveRowidIs ==
    ASSUME NEW tx \in Txs, NEW t \in Tables, NEW explicit \in Rowids \union {Null},
           ResolveRowid(tx, t, explicit, NextRowid(tx, t)).ok
    PROVE  LET rid == ResolveRowid(tx, t, explicit, NextRowid(tx, t)) IN
           /\ rid.rowid \in Rowids /\ rid.next \in Rowids
           /\ Below(tx) => ~HasRow(tx, t, rid.rowid)
           /\ rid.next = MaxRowid \/ rid.rowid < rid.next
           /\ rid.next = MaxRowid \/ (NextRowid(tx, t) # MaxRowid /\ NextRowid(tx, t) <= rid.next)
<1> DEFINE next == NextRowid(tx, t)
           rid == ResolveRowid(tx, t, explicit, next)
<1>1. next \in Rowids /\ MaxRowid \in Nat /\ \A k : k \in Rowids <=> k \in Nat /\ 1 <= k /\ k <= MaxRowid
  BY NextRowidIs, SchemaAssumption DEF Rowids
<1>2. Below(tx) => \/ next = MaxRowid
                   \/ \A n \in Rowids : HasRow(tx, t, n) => n < next
  BY DEF Below
<1> HIDE DEF next
<1>3. CASE explicit = Null
  <2>1. next # MaxRowid /\ rid = [ok |-> TRUE, rowid |-> next, next |-> next + 1]
    BY <1>3 DEF ResolveRowid, next
  <2>2. rid.rowid = next /\ rid.next = next + 1
    BY <2>1
  <2>3. next + 1 \in Rowids
    BY <1>1, <2>1
  <2> HIDE DEF rid
  <2> QED BY <1>1, <1>2, <2>1, <2>2, <2>3 DEF next, rid
<1>4. CASE explicit # Null
  <2> DEFINE up == IF explicit < next THEN next
                   ELSE IF explicit = MaxRowid THEN MaxRowid ELSE explicit + 1
  <2>1. /\ ~((explicit < next \/ next = MaxRowid) /\ HasRow(tx, t, explicit))
        /\ rid = [ok |-> TRUE, rowid |-> explicit, next |-> up]
    BY <1>4 DEF ResolveRowid, next
  <2>2. rid.rowid = explicit /\ rid.next = up /\ explicit \in Rowids
    BY <2>1, <1>4
  <2>3. /\ up \in Rowids
        /\ up = MaxRowid \/ explicit < up
        /\ up = MaxRowid \/ (next # MaxRowid /\ next <= up)
    BY <1>1, <2>2
  <2>4. Below(tx) => ~HasRow(tx, t, explicit)
    BY <1>1, <1>2, <2>1, <2>2
  <2> HIDE DEF rid, up
  <2> QED BY <2>2, <2>3, <2>4 DEF next, rid
<1> QED BY <1>3, <1>4

\* A row with the resolved rowid, and its counter.
LEMMA BelowPut ==
    ASSUME NEW tx \in Txs, NEW t \in Tables, NEW explicit \in Rowids \union {Null},
           ResolveRowid(tx, t, explicit, NextRowid(tx, t)).ok, Below(tx), NEW y \in Txs,
           RowPut(tx, y, t, ResolveRowid(tx, t, explicit, NextRowid(tx, t)).rowid),
           NEW z \in Txs, z.tree = y.tree,
           z.cache = [y.cache EXCEPT ![t] = ResolveRowid(tx, t, explicit, NextRowid(tx, t)).next]
    PROVE  Below(z)
<1> DEFINE next == NextRowid(tx, t)
           rid == ResolveRowid(tx, t, explicit, next)
<1>1. /\ rid.rowid \in Rowids /\ rid.next \in Rowids
      /\ rid.next = MaxRowid \/ rid.rowid < rid.next
      /\ rid.next = MaxRowid \/ (next # MaxRowid /\ next <= rid.next)
  BY ResolveRowidIs
<1>2. RowPut(tx, y, t, rid.rowid) /\ z.cache = [y.cache EXCEPT ![t] = rid.next]
  OBVIOUS
<1> HIDE DEF rid
<1>3. y.cache = tx.cache /\ z.cache = [tx.cache EXCEPT ![t] = rid.next]
  BY <1>2 DEF RowPut
<1>4. /\ NextRowid(z, t) = rid.next
      /\ \A u \in Tables : u # t => NextRowid(z, u) = NextRowid(tx, u)
  BY <1>1, <1>2, <1>3, TxParts, NextRowidIs DEF NextRowid, ReadCounter, RowPut
<1>5. \A u \in Tables, m \in Rowids :
          HasRow(z, u, m) <=> (HasRow(tx, u, m) \/ (u = t /\ m = rid.rowid))
  BY <1>2 DEF RowPut, HasRow, RowOf
<1> SUFFICES ASSUME NEW u \in Tables, NextRowid(z, u) # MaxRowid, NEW m \in Rowids, HasRow(z, u, m)
             PROVE  m < NextRowid(z, u)
  BY DEF Below
<1>6. CASE u # t
  BY <1>4, <1>5, <1>6 DEF Below
<1>7. CASE u = t
  <2>1. next \in Nat /\ rid.next \in Nat /\ m \in Nat
    BY <1>1, NextRowidIs
  <2>2. HasRow(tx, t, m) => m < next
    BY <1>1, <1>4, <1>7 DEF Below
  <2> HIDE DEF next
  <2> QED BY <1>1, <1>4, <1>5, <1>7, <2>1, <2>2
<1> QED BY <1>6, <1>7

LEMMA InsertRowKeeps ==
    ASSUME NEW t \in Tables, NEW id \in Rowids \union {Null}, NEW vals \in Assignments
    PROVE  InsertRow(t, id, vals) \in Keeping(SoundTxs)
<1> DEFINE f == InsertRow(t, id, vals)
<1> SUFFICES ASSUME NEW tx \in Txs
             PROVE  f[tx] \in Results /\ (Sound(tx) /\ f[tx].ok => Sound(f[tx].tx))
  <2>1. DOMAIN f = Txs /\ f = [x \in Txs |-> f[x]]
    BY DEF InsertRow
  <2>2. f \in [Txs -> Results]
    BY <2>1
  <2> HIDE DEF f
  <2> QED BY <2>2, SoundKeeping DEF f
<1> DEFINE rid == ResolveRowid(tx, t, id, NextRowid(tx, t))
           put == PutRow(tx, t, rid.rowid, vals)
           kept == Settle(tx, put)
           r == Cached(kept, t, rid.next)
<1>1. f[tx] = IF ~FkParentsExist(tx, t, vals) \/ ~rid.ok THEN Bad(tx) ELSE r
  BY DEF InsertRow
<1> HIDE DEF f
<1>2. CASE ~FkParentsExist(tx, t, vals) \/ ~rid.ok
  BY <1>1, <1>2, ResultsAre
<1>3. CASE FkParentsExist(tx, t, vals) /\ rid.ok
  <2>1. f[tx] = r
    BY <1>1, <1>3
  <2>2. /\ rid.rowid \in Rowids /\ rid.next \in Rowids
        /\ Below(tx) => ~HasRow(tx, t, rid.rowid)
    BY <1>3, ResolveRowidIs
  <2> HIDE DEF rid
  <2>3. /\ put \in Results
        /\ put.ok => RowPut(tx, put.tx, t, rid.rowid)
        /\ put.ok /\ ExactBut(tx, t, {rid.rowid}) /\ UniqueBut(tx, t, {rid.rowid})
           => \A u \in Tables : ExactBut(put.tx, u, {}) /\ UniqueBut(put.tx, u, {})
    BY <2>2, PutRowKeeps
  <2> HIDE DEF put
  <2>4. kept \in Results /\ (put.ok <=> kept.ok) /\ (put.ok => kept = put)
    BY <2>3, SettleIs
  <2> HIDE DEF kept
  <2>5. /\ r \in Results /\ (r.ok <=> kept.ok)
        /\ kept.ok => r.tx.tree = kept.tx.tree /\ r.tx.cache = [kept.tx.cache EXCEPT ![t] = rid.next]
    BY <2>2, <2>4, CachedIs
  <2> HIDE DEF r
  <2>6. ASSUME r.ok, Sound(tx) PROVE Sound(r.tx)
    <3>1. put.ok /\ put.tx \in Txs /\ r.tx \in Txs /\ r.tx.tree = put.tx.tree
          /\ r.tx.cache = [put.tx.cache EXCEPT ![t] = rid.next]
      BY <2>3, <2>4, <2>5, <2>6 DEF Results
    <3>2. ExactBut(tx, t, {rid.rowid}) /\ UniqueBut(tx, t, {rid.rowid})
      <4>1. ExactBut(tx, t, {}) /\ UniqueBut(tx, t, {}) /\ ~HasRow(tx, t, rid.rowid)
        BY <2>2, <2>6 DEF Sound
      <4> QED BY <4>1 DEF ExactBut, UniqueBut, Held
    <3>3. \A u \in Tables : ExactBut(put.tx, u, {}) /\ UniqueBut(put.tx, u, {})
      BY <2>3, <3>1, <3>2
    <3>4. \A u \in Tables : ExactBut(r.tx, u, {}) /\ UniqueBut(r.tx, u, {})
      BY <3>1, <3>3, SameTree
    <3>5. Below(r.tx)
      BY <1>3, <2>3, <2>6, <3>1, BelowPut DEF Sound, rid
    <3> QED BY <3>4, <3>5 DEF Sound
  <2> QED BY <2>1, <2>5, <2>6
<1> QED BY <1>2, <1>3

----------------------------------------------------------------------------
(***************************************************************************)
(* Bulk load: insert_rows.                                                   *)
(***************************************************************************)
\* What a batch for t has made of b before its index entries are written.
Loaded(b, t) ==
    {x \in Txs :
        /\ x.tree.entries = b.tree.entries /\ Below(x)
        /\ \A u \in Tables, m \in Rowids :
              (u # t \/ HasRow(b, u, m)) => RowOf(x, u, m) = RowOf(b, u, m)}

LEMMA PutRowDataKeeps ==
    ASSUME NEW b \in Txs, NEW t \in Tables, NEW r, r.id \in Rowids \union {Null},
           r.vals \in Assignments
    PROVE  PutRowData(t, r) \in Keeping(Loaded(b, t))
<1> DEFINE f == PutRowData(t, r)
<1>1. ASSUME NEW tx \in Txs
      PROVE  f[tx] \in Results /\ (tx \in Loaded(b, t) /\ f[tx].ok => f[tx].tx \in Loaded(b, t))
  <2> DEFINE rid == ResolveRowid(tx, t, r.id, NextRowid(tx, t))
             row == ValidatedRecord(t, r.vals)
             y == PutKey(tx, t, rid.rowid, row)
             s == Cached(Good(y), t, rid.next)
  <2>1. f[tx] = IF ~rid.ok \/ ~RecordValid(t, r.vals) THEN Bad(tx) ELSE s
    BY DEF PutRowData
  <2> HIDE DEF f
  <2>2. CASE ~rid.ok \/ ~RecordValid(t, r.vals)
    BY <2>1, <2>2, ResultsAre
  <2>3. CASE rid.ok /\ RecordValid(t, r.vals)
    <3>1. f[tx] = s
      BY <2>1, <2>3
    <3>2. /\ rid.rowid \in Rowids /\ rid.next \in Rowids
          /\ Below(tx) => ~HasRow(tx, t, rid.rowid)
      BY <2>3, ResolveRowidIs
    <3> HIDE DEF rid
    <3>3. row \in Records /\ row # NoRow
      BY ValidatedIs, IndexTypes
    <3> HIDE DEF row
    <3>4. RowWritten(tx, y, t, rid.rowid, row)
      BY <3>2, <3>3, PutKeyIs
    <3> HIDE DEF y
    <3>5. /\ y \in Txs /\ y.cache = tx.cache /\ y.tree.counter = tx.tree.counter
          /\ y.tree.entries = tx.tree.entries
          /\ \A u \in Tables, m \in Rowids :
                RowOf(y, u, m) = IF u = t /\ m = rid.rowid THEN row ELSE RowOf(tx, u, m)
      BY <3>4 DEF RowWritten
    <3>6. RowPut(tx, y, t, rid.rowid)
      BY <3>2, <3>3, <3>5 DEF RowPut, HasRow
    <3>7. /\ s \in Results /\ s.ok /\ s.tx.tree = y.tree
          /\ s.tx.cache = [y.cache EXCEPT ![t] = rid.next]
      BY <3>2, <3>5, ResultsAre, CachedIs
    <3> HIDE DEF s
    <3>8. s.tx \in Txs
      BY <3>7 DEF Results
    <3>9. ASSUME tx \in Loaded(b, t) PROVE s.tx \in Loaded(b, t)
      <4>1. /\ Below(tx) /\ tx.tree.entries = b.tree.entries
            /\ \A u \in Tables, m \in Rowids :
                  (u # t \/ HasRow(b, u, m)) => RowOf(tx, u, m) = RowOf(b, u, m)
        BY <3>9 DEF Loaded
      <4>2. Below(s.tx)
        BY <2>3, <3>5, <3>6, <3>7, <3>8, <4>1, BelowPut DEF rid
      <4>3. ~HasRow(b, t, rid.rowid)
        BY <3>2, <4>1 DEF HasRow
      <4>4. \A u \in Tables, m \in Rowids : RowOf(s.tx, u, m) = RowOf(y, u, m)
        BY <3>7 DEF RowOf
      <4>5. \A u \in Tables, m \in Rowids :
                (u # t \/ HasRow(b, u, m)) => RowOf(s.tx, u, m) = RowOf(b, u, m)
        BY <3>5, <4>1, <4>3, <4>4
      <4> QED BY <3>5, <3>7, <3>8, <4>1, <4>2, <4>5 DEF Loaded
    <3> QED BY <3>1, <3>7, <3>9
  <2> QED BY <2>2, <2>3
<1>2. DOMAIN f = Txs /\ f = [x \in Txs |-> f[x]]
  BY DEF PutRowData
<1> HIDE DEF f
<1>3. f \in [Txs -> Results]
  BY <1>1, <1>2
<1>4. Loaded(b, t) \subseteq Txs
  BY DEF Loaded
<1> QED BY <1>1, <1>3, <1>4 DEF Keeping, f

LEMMA BulkPutKeeps ==
    ASSUME NEW b \in Txs, NEW t \in Tables, NEW batch, IsBatch(batch)
    PROVE  BulkPut(t, batch) \in Keeping(Loaded(b, t))
<1> DEFINE N == Len(batch)
           steps == [i \in 1 .. N |-> PutRowData(t, batch[i])]
<1>1. N \in Nat /\ \A i \in 1 .. N : batch[i].id \in Rowids \union {Null} /\ batch[i].vals \in Assignments
  BY DEF IsBatch
<1>2. \A i \in 1 .. N : steps[i] \in Keeping(Loaded(b, t))
  <2> HIDE DEF N
  <2> QED BY <1>1, PutRowDataKeeps
<1>3. BulkPut(t, batch) = InTurn(steps)
  BY DEF BulkPut
<1>4. Len(steps) = N
  <2> HIDE DEF N
  <2> QED BY <1>1
<1> HIDE DEF steps, N
<1>5. Loaded(b, t) \in SUBSET Txs
  BY DEF Loaded
<1> QED BY <1>1, <1>2, <1>3, <1>4, <1>5, InTurnKeeps

LEMMA FlushKeeps ==
    ASSUME NEW tx \in Txs, NEW t \in Tables, NEW new \in SUBSET RowidsOf(tx.tree, t)
    PROVE  LET r == FlushIndexEntries(tx, t, new) IN
           /\ r \in Results /\ EntriesChanged(tx, r.tx)
           /\ r.ok /\ ExactBut(tx, t, new) /\ UniqueBut(tx, t, new)
              => \A u \in Tables : ExactBut(r.tx, u, {}) /\ UniqueBut(r.tx, u, {})
<1> DEFINE clash(ix) == \E m \in new :
                LET v == RowOf(tx, t, m)[ix.col] IN
                /\ v # Null
                /\ \/ \E n \in new : n # m /\ RowOf(tx, t, n)[ix.col] = v
                   \/ ValueHeldByOther(tx, t, ix.col, v, m)
           clashing == { i \in 1 .. Len(Indexes[t]) : Indexes[t][i].unique /\ clash(Indexes[t][i]) }
           r == AddEntries(tx, t, new, clashing)
<1>1. CASE new = {}
  <2>1. FlushIndexEntries(tx, t, new) = Good(tx)
    BY <1>1 DEF FlushIndexEntries
  <2>2. ExactBut(tx, t, new) /\ UniqueBut(tx, t, new)
        => \A u \in Tables : ExactBut(tx, u, {}) /\ UniqueBut(tx, u, {})
    BY <1>1 DEF ExactBut, UniqueBut
  <2> QED BY <2>1, <2>2, ResultsAre DEF EntriesChanged
<1>2. CASE new # {}
  <2>1. FlushIndexEntries(tx, t, new) = r
    BY <1>2 DEF FlushIndexEntries
  <2>2. clashing = {} => NoClash(tx, t, new)
    BY DEF NoClash
  <2> HIDE DEF clashing
  <2>3. /\ r \in Results /\ r.ok = (clashing = {}) /\ EntriesChanged(tx, r.tx)
        /\ r.ok => r.tx.tree.entries = tx.tree.entries \union AllEntries(tx, t, new)
    BY AddEntriesIs
  <2> HIDE DEF r
  <2>4. ASSUME r.ok, ExactBut(tx, t, new), UniqueBut(tx, t, new)
        PROVE  \A u \in Tables : ExactBut(r.tx, u, {}) /\ UniqueBut(r.tx, u, {})
    <3>1. \A u \in Tables : ExactBut(r.tx, u, {})
      BY <2>3, <2>4, EntriesAdded
    <3>2. \A u \in Tables : UniqueBut(r.tx, u, {})
      BY <2>2, <2>3, <2>4, UniqueAdded
    <3> QED BY <3>1, <3>2
  <2> QED BY <2>1, <2>3, <2>4
<1> QED BY <1>1, <1>2

LEMMA InsertRowsKeeps ==
    ASSUME NEW t \in Tables, NEW batch, IsBatch(batch)
    PROVE  InsertRows(t, batch) \in Keeping(SoundTxs)
<1> DEFINE f == InsertRows(t, batch)
<1>1. ASSUME NEW tx \in Txs
      PROVE  f[tx] \in Results /\ (Sound(tx) /\ f[tx].ok => Sound(f[tx].tx))
  <2> DEFINE put == BulkPut(t, batch)[tx]
             y == put.tx
             new == RowidsOf(y.tree, t) \ RowidsOf(tx.tree, t)
             r == FlushIndexEntries(y, t, new)
  <2>1. f[tx] = IF ~put.ok THEN put ELSE r
    BY DEF InsertRows
  <2> HIDE DEF f
  <2>2. put \in Results /\ (put.ok /\ tx \in Loaded(tx, t) => y \in Loaded(tx, t))
    BY BulkPutKeeps DEF Keeping
  <2> HIDE DEF put
  <2>3. y \in Txs
    BY <2>2 DEF Results
  <2> HIDE DEF y
  <2>4. new \in SUBSET RowidsOf(y.tree, t)
    OBVIOUS
  <2>5. \A m : m \in new <=> (m \in Rowids /\ HasRow(y, t, m) /\ ~HasRow(tx, t, m))
    BY DEF RowidsOf, HasRow, RowOf
  <2> HIDE DEF new
  <2>6. /\ r \in Results /\ EntriesChanged(y, r.tx)
        /\ r.ok /\ ExactBut(y, t, new) /\ UniqueBut(y, t, new)
           => \A u \in Tables : ExactBut(r.tx, u, {}) /\ UniqueBut(r.tx, u, {})
    BY <2>3, <2>4, FlushKeeps
  <2> HIDE DEF r
  <2>7. ASSUME Sound(tx), put.ok, r.ok PROVE Sound(r.tx)
    <3>1. tx \in Loaded(tx, t)
      BY <2>7 DEF Loaded, Sound
    <3>2. /\ y.tree.entries = tx.tree.entries /\ Below(y)
          /\ \A u \in Tables, m \in Rowids :
                (u # t \/ HasRow(tx, u, m)) => RowOf(y, u, m) = RowOf(tx, u, m)
      BY <2>2, <2>7, <3>1 DEF Loaded
    <3>3. ASSUME NEW u \in Tables, NEW m \in Rowids, ~(u = t /\ m \in new)
          PROVE  RowOf(y, u, m) = RowOf(tx, u, m) /\ (HasRow(y, u, m) <=> HasRow(tx, u, m))
      <4>1. CASE u # t \/ HasRow(tx, u, m)
        BY <3>2, <4>1 DEF HasRow
      <4>2. CASE u = t /\ ~HasRow(tx, u, m)
        <5>1. ~HasRow(y, u, m)
          BY <2>5, <3>3, <4>2
        <5> QED BY <4>2, <5>1 DEF HasRow
      <4> QED BY <4>1, <4>2
    <3>4. ExactBut(y, t, new)
      <4> SUFFICES ASSUME NEW u \in Tables, NEW c \in Cols, NEW v \in Values, NEW m \in Rowids
                   PROVE  <<u, c, v, m>> \in y.tree.entries
                          <=> (Held(y, u, c, v, m) /\ ~(u = t /\ m \in new))
        BY DEF ExactBut
      <4>1. <<u, c, v, m>> \in tx.tree.entries <=> Held(tx, u, c, v, m)
        BY <2>7 DEF Sound, ExactBut
      <4>2. CASE u = t /\ m \in new
        BY <2>5, <3>2, <4>1, <4>2 DEF Held
      <4>3. CASE ~(u = t /\ m \in new)
        <5>1. Held(y, u, c, v, m) <=> Held(tx, u, c, v, m)
          BY <3>3, <4>3 DEF Held
        <5> QED BY <3>2, <4>1, <4>3, <5>1
      <4> QED BY <4>2, <4>3
    <3>5. UniqueBut(y, t, new)
      <4>1. UniqueBut(tx, t, {})
        BY <2>7 DEF Sound
      <4> QED BY <3>3, <4>1 DEF UniqueBut
    <3>6. Below(r.tx)
      <4>1. \A u \in Tables, m \in Rowids : HasRow(r.tx, u, m) => HasRow(y, u, m)
        BY <2>6 DEF EntriesChanged, HasRow, RowOf
      <4> QED BY <2>3, <2>6, <3>2, <4>1, BelowSame DEF EntriesChanged
    <3> QED BY <2>6, <2>7, <3>4, <3>5, <3>6 DEF Sound
  <2> QED BY <2>1, <2>2, <2>6, <2>7
<1>2. DOMAIN f = Txs /\ f = [x \in Txs |-> f[x]]
  BY DEF InsertRows
<1> HIDE DEF f
<1>3. f \in [Txs -> Results]
  BY <1>1, <1>2
<1> QED BY <1>1, <1>3, SoundKeeping DEF f

----------------------------------------------------------------------------
(***************************************************************************)
(* Cascades: update_row, delete_row and what they do to the children.        *)
(***************************************************************************)
LEMMA KeepingIs ==
    ASSUME NEW f \in Keeping(SoundTxs), NEW tx \in Txs
    PROVE  f[tx] \in Results /\ (Sound(tx) /\ f[tx].ok => Sound(f[tx].tx))
  BY DEF Keeping, SoundTxs

LEMMA InTurnTwo ==
    ASSUME NEW S \in SUBSET Txs, NEW a \in Keeping(S), NEW b \in Keeping(S)
    PROVE  InTurn(<<a, b>>) \in Keeping(S)
<1> DEFINE s == <<a, b>>
<1>1. Len(s) = 2 /\ s[1] = a /\ s[2] = b
  OBVIOUS
<1> HIDE DEF s
<1>2. Len(s) \in Nat /\ \A k \in 1 .. Len(s) : s[k] \in Keeping(S)
  BY <1>1
<1>3. InTurn(s) \in Keeping(S)
  BY <1>2, InTurnKeeps
<1> QED BY <1>3 DEF s

LEMMA InTurnThree ==
    ASSUME NEW S \in SUBSET Txs, NEW a \in Keeping(S), NEW b \in Keeping(S), NEW c \in Keeping(S)
    PROVE  InTurn(<<a, b, c>>) \in Keeping(S)
<1> DEFINE s == <<a, b, c>>
<1>1. Len(s) = 3 /\ s[1] = a /\ s[2] = b /\ s[3] = c
  OBVIOUS
<1> HIDE DEF s
<1>2. Len(s) \in Nat /\ \A k \in 1 .. Len(s) : s[k] \in Keeping(S)
  BY <1>1
<1>3. InTurn(s) \in Keeping(S)
  BY <1>2, InTurnKeeps
<1> QED BY <1>3 DEF s

LEMMA SoundIsTx ==
    SoundTxs \in SUBSET Txs
  BY DEF SoundTxs

\* A scan visits the members of a set.
LEMMA AscendingIs ==
    ASSUME NEW N \in Nat, NEW S \in SUBSET (1 .. N)
    PROVE  /\ Len(Ascending(S)) \in Nat
           /\ \A i \in 1 .. Len(Ascending(S)) : Ascending(S)[i] \in S
           /\ S # {} => 1 \in 1 .. Len(Ascending(S))
<1>1. IsFiniteSet(S) /\ S \in SUBSET Nat
  <2>1. IsFiniteSet(1 .. N)
    BY FS_Interval
  <2>2. IsFiniteSet(S)
    BY <2>1, FS_Subset
  <2>3. S \in SUBSET Nat
    OBVIOUS
  <2> QED BY <2>2, <2>3
<1> DEFINE s == Ascending(S)
<1>2. Enumerates(s, S)
  BY <1>1, SortedNumbersIs DEF Ascending
<1> HIDE DEF s
<1>3. /\ Len(s) \in Nat /\ \A i \in 1 .. Len(s) : s[i] \in S
      /\ \A x \in S : \E i \in 1 .. Len(s) : s[i] = x
  BY <1>2 DEF Enumerates
<1>4. ASSUME S # {} PROVE 1 \in 1 .. Len(s)
  <2>1. PICK x \in S : TRUE
    BY <1>4
  <2>2. PICK i \in 1 .. Len(s) : s[i] = x
    BY <1>3
  <2> QED BY <1>3
<1> QED BY <1>3, <1>4 DEF s

LEMMA KeysAre ==
    ASSUME NEW t \in Tables
    PROVE  /\ Len(FkReferencing(t)) \in Nat
           /\ \A i \in 1 .. Len(FkReferencing(t)) :
                 LET fk == FkReferencing(t)[i] IN
                 /\ fk.child \in Tables /\ fk.col \in Cols /\ fk.pcol \in Cols \union {"rowid"}
<1> DEFINE R == [child : Tables, col : Cols, parent : Tables, pcol : Cols \union {"rowid"},
                 onDelete : {"restrict", "cascade", "setnull"},
                 onUpdate : {"restrict", "cascade", "setnull"}]
           n == Len(ForeignKeys)
           S == { i \in 1 .. n : ForeignKeys[i].parent = t }
           at == Ascending(S)
<1>1. ForeignKeys \in Seq(R)
  BY SchemaAssumption
<1>2. \A r \in R : r.child \in Tables /\ r.col \in Cols /\ r.pcol \in Cols \union {"rowid"}
  OBVIOUS
<1> HIDE DEF R
<1>3. n \in Nat /\ \A i \in 1 .. n : ForeignKeys[i] \in R
  BY <1>1
<1>4. FkReferencing(t) = [i \in 1 .. Len(at) |-> ForeignKeys[at[i]]]
  BY DEF FkReferencing
<1>5. Len(at) \in Nat /\ \A i \in 1 .. Len(at) : at[i] \in 1 .. n
  <2>1. S \in SUBSET (1 .. n)
    OBVIOUS
  <2> HIDE DEF n, S
  <2>2. Len(at) \in Nat /\ \A i \in 1 .. Len(at) : at[i] \in S
    BY <1>3, <2>1, AscendingIs
  <2> QED BY <2>1, <2>2
<1> HIDE DEF at, n
<1>6. Len(FkReferencing(t)) = Len(at) /\ \A i \in 1 .. Len(at) : FkReferencing(t)[i] \in R
  BY <1>3, <1>4, <1>5
<1> QED BY <1>2, <1>5, <1>6

\* The steps of changes one level down.
Followers == [Changes -> Keeping(SoundTxs)]

LEMMA ChangesAre ==
    ASSUME NEW t \in Tables, NEW n \in Rowids
    PROVE  /\ Removal(t, n) \in Changes
           /\ \A row \in Records : Rewrite(t, n, row) \in Changes
  BY DEF Removal, Rewrite, Changes

LEMMA CascadeKeeps ==
    ASSUME NEW follow \in Followers, NEW changes, DOMAIN changes \in SUBSET Rowids,
           \A m \in DOMAIN changes : changes[m] \in Changes
    PROVE  Cascade(changes, follow) \in Keeping(SoundTxs)
<1> DEFINE ids == Ascending(DOMAIN changes)
           n == Len(ids)
           steps == [j \in 1 .. n |-> follow[changes[ids[j]]]]
<1>1. n \in Nat /\ \A j \in 1 .. n : ids[j] \in DOMAIN changes
  BY AscendingIs, SchemaAssumption DEF Rowids
<1>2. Cascade(changes, follow) = InTurn(steps)
  BY DEF Cascade
<1> HIDE DEF ids, n
<1>3. Len(steps) = n /\ \A j \in 1 .. n : steps[j] \in Keeping(SoundTxs)
  BY <1>1 DEF Followers
<1> HIDE DEF steps
<1> QED BY <1>1, <1>2, <1>3, SoundIsTx, InTurnKeeps

\* A child with its reference replaced is a record.
LEMMA ReferenceReplaced ==
    ASSUME NEW r \in Records, NEW c \in Cols, NEW v \in Values
    PROVE  [r EXCEPT ![c] = v] \in Records
  BY DEF Records

LEMMA ChildrenAre ==
    ASSUME NEW tx \in Txs, NEW fk, fk.child \in Tables, NEW ref
    PROVE  /\ FkChildrenMatching(tx, fk, ref) \in SUBSET Rowids
           /\ \A m \in FkChildrenMatching(tx, fk, ref) : RowOf(tx, fk.child, m) \in Records
<1>1. \A m \in RowidsOf(tx.tree, fk.child) : m \in Rowids /\ HasRow(tx, fk.child, m)
  BY DEF RowidsOf, HasRow, RowOf
<1> QED BY <1>1, TxParts DEF FkChildrenMatching

LEMMA OnUpdateKeeps ==
    ASSUME NEW fk, fk.child \in Tables, fk.col \in Cols, fk.pcol \in Cols \union {"rowid"},
           NEW n \in Rowids, NEW old \in Records, NEW new \in Records, NEW restrictOnly,
           NEW follow \in Followers
    PROVE  OnUpdate(fk, n, old, new, restrictOnly, follow) \in Keeping(SoundTxs)
<1> DEFINE f == OnUpdate(fk, n, old, new, restrictOnly, follow)
<1>1. ASSUME NEW tx \in Txs
      PROVE  f[tx] \in Results /\ (Sound(tx) /\ f[tx].ok => Sound(f[tx].tx))
  <2> DEFINE hits == FkChildrenMatching(tx, fk, RefOf(fk, n, old))
             ref == IF fk.onUpdate = "cascade" THEN RefOf(fk, n, new) ELSE Null
             pointed == [m \in hits |->
                 Rewrite(fk.child, m, [RowOf(tx, fk.child, m) EXCEPT ![fk.col] = ref])]
             c == Cascade(pointed, follow)
  <2>1. f[tx] = IF RefOf(fk, n, old) = RefOf(fk, n, new) \/ hits = {} THEN Good(tx)
                ELSE IF fk.onUpdate = "restrict" THEN Bad(tx)
                ELSE IF restrictOnly THEN Good(tx)
                ELSE c[tx]
    BY DEF OnUpdate
  <2> HIDE DEF f
  <2>2. CASE RefOf(fk, n, old) = RefOf(fk, n, new)
    BY <2>1, <2>2, ResultsAre
  <2>3. CASE RefOf(fk, n, old) # RefOf(fk, n, new)
    <3>1. ref \in Values
      <4>1. fk.pcol \in Cols
        BY <2>3 DEF RefOf
      <4>2. fk.pcol # "rowid" /\ new # NoRow
        BY <4>1, SchemaAssumption, IndexTypes
      <4>3. RefOf(fk, n, new) \in Values
        BY <4>1, <4>2, IndexTypes DEF RefOf
      <4> QED BY <4>3, SchemaAssumption
    <3>2. hits \in SUBSET Rowids /\ \A m \in hits : RowOf(tx, fk.child, m) \in Records
      BY ChildrenAre
    <3> HIDE DEF ref, hits
    <3>3. DOMAIN pointed = hits /\ \A m \in hits : pointed[m] \in Changes
      BY <3>1, <3>2, ReferenceReplaced, ChangesAre
    <3> HIDE DEF pointed
    <3>4. c \in Keeping(SoundTxs)
      BY <3>2, <3>3, CascadeKeeps
    <3> HIDE DEF c
    <3> QED BY <2>1, <3>4, KeepingIs, ResultsAre
  <2> QED BY <2>2, <2>3
<1>2. DOMAIN f = Txs /\ f = [x \in Txs |-> f[x]]
  BY DEF OnUpdate
<1> HIDE DEF f
<1>3. f \in [Txs -> Results]
  BY <1>1, <1>2
<1> QED BY <1>1, <1>3, SoundKeeping DEF f

LEMMA OnDeleteKeeps ==
    ASSUME NEW fk, fk.child \in Tables, fk.col \in Cols,
           NEW n \in Rowids, NEW row, NEW follow \in Followers
    PROVE  OnDelete(fk, n, row, follow) \in Keeping(SoundTxs)
<1> DEFINE f == OnDelete(fk, n, row, follow)
<1>1. ASSUME NEW tx \in Txs
      PROVE  f[tx] \in Results /\ (Sound(tx) /\ f[tx].ok => Sound(f[tx].tx))
  <2> DEFINE hits == FkChildrenMatching(tx, fk, RefOf(fk, n, row))
             gone == [m \in hits |->
                 IF fk.onDelete = "cascade" THEN Removal(fk.child, m)
                 ELSE Rewrite(fk.child, m, [RowOf(tx, fk.child, m) EXCEPT ![fk.col] = Null])]
             c == Cascade(gone, follow)
  <2>1. f[tx] = IF hits = {} THEN Good(tx)
                ELSE IF fk.onDelete = "restrict" THEN Bad(tx)
                ELSE c[tx]
    BY DEF OnDelete
  <2> HIDE DEF f
  <2>2. hits \in SUBSET Rowids /\ \A m \in hits : RowOf(tx, fk.child, m) \in Records
    BY ChildrenAre
  <2> HIDE DEF hits
  <2>3. DOMAIN gone = hits /\ \A m \in hits : gone[m] \in Changes
    <3>1. Null \in Values
      BY SchemaAssumption
    <3> QED BY <2>2, <3>1, ReferenceReplaced, ChangesAre
  <2> HIDE DEF gone
  <2>4. c \in Keeping(SoundTxs)
    BY <2>2, <2>3, CascadeKeeps
  <2> HIDE DEF c
  <2> QED BY <2>1, <2>4, KeepingIs, ResultsAre
<1>2. DOMAIN f = Txs /\ f = [x \in Txs |-> f[x]]
  BY DEF OnDelete
<1> HIDE DEF f
<1>3. f \in [Txs -> Results]
  BY <1>1, <1>2
<1> QED BY <1>1, <1>3, SoundKeeping DEF f

LEMMA ParentUpdateKeeps ==
    ASSUME NEW t \in Tables, NEW n \in Rowids, NEW old \in Records, NEW new \in Records,
           NEW restrictOnly, NEW follow \in Followers
    PROVE  FkHandleParentUpdate(t, n, old, new, restrictOnly, follow) \in Keeping(SoundTxs)
<1> DEFINE fks == FkReferencing(t)
           N == Len(fks)
           steps == [i \in 1 .. N |-> OnUpdate(fks[i], n, old, new, restrictOnly, follow)]
<1>1. FkHandleParentUpdate(t, n, old, new, restrictOnly, follow) = InTurn(steps)
  BY DEF FkHandleParentUpdate
<1>2. N \in Nat /\ \A i \in 1 .. N : /\ fks[i].child \in Tables /\ fks[i].col \in Cols
                                     /\ fks[i].pcol \in Cols \union {"rowid"}
  BY KeysAre
<1> HIDE DEF fks, N
<1>3. ASSUME NEW i \in 1 .. N PROVE steps[i] \in Keeping(SoundTxs)
  <2>1. OnUpdate(fks[i], n, old, new, restrictOnly, follow) \in Keeping(SoundTxs)
    BY <1>2, OnUpdateKeeps
  <2> QED BY <2>1
<1>4. Len(steps) = N
  BY <1>2
<1> HIDE DEF steps
<1> QED BY <1>1, <1>2, <1>3, <1>4, SoundIsTx, InTurnKeeps

LEMMA ParentDeleteKeeps ==
    ASSUME NEW t \in Tables, NEW n \in Rowids, NEW follow \in Followers
    PROVE  FkHandleParentDelete(t, n, follow) \in Keeping(SoundTxs)
<1> DEFINE fks == FkReferencing(t)
           N == Len(fks)
           steps(tx) == [i \in 1 .. N |-> OnDelete(fks[i], n, RowOf(tx, t, n), follow)]
           f == FkHandleParentDelete(t, n, follow)
<1>1. f = [tx \in Txs |-> InTurn(steps(tx))[tx]]
  BY DEF FkHandleParentDelete
<1>2. N \in Nat /\ \A i \in 1 .. N : fks[i].child \in Tables /\ fks[i].col \in Cols
  BY KeysAre
<1> HIDE DEF fks, N, f
<1>3. ASSUME NEW tx \in Txs PROVE InTurn(steps(tx)) \in Keeping(SoundTxs)
  <2> DEFINE s == steps(tx)
  <2>1. ASSUME NEW i \in 1 .. N PROVE s[i] \in Keeping(SoundTxs)
    <3>1. OnDelete(fks[i], n, RowOf(tx, t, n), follow) \in Keeping(SoundTxs)
      BY <1>2, OnDeleteKeeps
    <3> QED BY <3>1
  <2>2. Len(s) = N
    BY <1>2
  <2> HIDE DEF s, steps
  <2>3. InTurn(s) \in Keeping(SoundTxs)
    BY <1>2, <2>1, <2>2, SoundIsTx, InTurnKeeps
  <2> QED BY <2>3 DEF s
<1> HIDE DEF steps
<1>4. ASSUME NEW tx \in Txs
      PROVE  f[tx] \in Results /\ (Sound(tx) /\ f[tx].ok => Sound(f[tx].tx))
  BY <1>1, <1>3, KeepingIs
<1>5. f \in [Txs -> Results]
  BY <1>1, <1>3, KeepingIs
<1>6. f \in Keeping(SoundTxs)
  BY <1>4, <1>5, SoundKeeping
<1> QED BY <1>6 DEF f

LEMMA OverwriteKeeps ==
    ASSUME NEW t \in Tables, NEW n \in Rowids, NEW vals \in Records
    PROVE  Overwrite(t, n, vals) \in Keeping(SoundTxs)
<1> DEFINE f == Overwrite(t, n, vals)
<1>1. ASSUME NEW tx \in Txs
      PROVE  f[tx] \in Results /\ (Sound(tx) /\ f[tx].ok => Sound(f[tx].tx))
  <2>1. f[tx] = Settle(tx, CatalogUpdate(tx, t, n, vals))
    BY DEF Overwrite
  <2> HIDE DEF f
  <2> QED BY <2>1, CatalogUpdateKeeps, SettleIs
<1>2. DOMAIN f = Txs /\ f = [x \in Txs |-> f[x]]
  BY DEF Overwrite
<1> HIDE DEF f
<1>3. f \in [Txs -> Results]
  BY <1>1, <1>2
<1> QED BY <1>1, <1>3, SoundKeeping DEF f

LEMMA EraseKeeps ==
    ASSUME NEW t \in Tables, NEW n \in Rowids
    PROVE  Erase(t, n) \in Keeping(SoundTxs)
<1> DEFINE f == Erase(t, n)
<1>1. ASSUME NEW tx \in Txs
      PROVE  f[tx] \in Results /\ (Sound(tx) /\ f[tx].ok => Sound(f[tx].tx))
  <2>1. f[tx] = Settle(tx, CatalogDelete(tx, t, n))
    BY DEF Erase
  <2> HIDE DEF f
  <2> QED BY <2>1, CatalogDeleteKeeps, SettleIs
<1>2. DOMAIN f = Txs /\ f = [x \in Txs |-> f[x]]
  BY DEF Erase
<1> HIDE DEF f
<1>3. f \in [Txs -> Results]
  BY <1>1, <1>2
<1> QED BY <1>1, <1>3, SoundKeeping DEF f

\* A step that looks at the transaction and then takes one of the steps that stay.
LEMMA ChosenKeeps ==
    ASSUME NEW f, DOMAIN f = Txs, f = [tx \in Txs |-> f[tx]],
           \A tx \in Txs : \/ f[tx] = Good(tx) \/ f[tx] = Bad(tx)
                           \/ \E g \in Keeping(SoundTxs) : f[tx] = g[tx]
    PROVE  f \in Keeping(SoundTxs)
<1>1. ASSUME NEW tx \in Txs
      PROVE  f[tx] \in Results /\ (Sound(tx) /\ f[tx].ok => Sound(f[tx].tx))
  BY ResultsAre, KeepingIs
<1>2. f \in [Txs -> Results]
  BY <1>1
<1> QED BY <1>1, <1>2, SoundKeeping

LEMMA UpdateRowKeeps ==
    ASSUME NEW t \in Tables, NEW n \in Rowids, NEW vals \in Records, NEW follow \in Followers
    PROVE  UpdateRow(t, n, vals, follow) \in Keeping(SoundTxs)
<1> DEFINE f == UpdateRow(t, n, vals, follow)
           up(tx, r) == FkHandleParentUpdate(t, n, RowOf(tx, t, n), vals, r, follow)
           g(tx) == InTurn(<<up(tx, TRUE), Overwrite(t, n, vals), up(tx, FALSE)>>)
<1>1. \A tx \in Txs : f[tx] = IF ~FkParentsExist(tx, t, vals) THEN Bad(tx)
                              ELSE IF ~HasRow(tx, t, n) THEN Good(tx) ELSE g(tx)[tx]
  BY DEF UpdateRow
<1>2. DOMAIN f = Txs /\ f = [x \in Txs |-> f[x]]
  BY DEF UpdateRow
<1> HIDE DEF f
<1>3. ASSUME NEW tx \in Txs, HasRow(tx, t, n) PROVE g(tx) \in Keeping(SoundTxs)
  <2>1. RowOf(tx, t, n) \in Records
    BY <1>3, TxParts
  <2>2. up(tx, TRUE) \in Keeping(SoundTxs) /\ up(tx, FALSE) \in Keeping(SoundTxs)
    BY <2>1, ParentUpdateKeeps
  <2> HIDE DEF up
  <2> QED BY <2>2, OverwriteKeeps, SoundIsTx, InTurnThree
<1> HIDE DEF g
<1>4. \A tx \in Txs : \/ f[tx] = Good(tx) \/ f[tx] = Bad(tx)
                      \/ \E h \in Keeping(SoundTxs) : f[tx] = h[tx]
  BY <1>1, <1>3
<1>5. f \in Keeping(SoundTxs)
  BY <1>2, <1>4, ChosenKeeps
<1> QED BY <1>5 DEF f

LEMMA ChangeKeeps ==
    ASSUME NEW c \in Changes, NEW follow \in Followers
    PROVE  Change(c, follow) \in Keeping(SoundTxs)
<1>1. CASE c.do = "delete"
  <2>1. c.on \in Tables /\ c.id \in Rowids
    BY DEF Changes
  <2>2. DeleteRow(c.on, c.id, follow) \in Keeping(SoundTxs)
    BY <2>1, ParentDeleteKeeps, EraseKeeps, SoundIsTx, InTurnTwo DEF DeleteRow
  <2> QED BY <1>1, <2>2 DEF Change
<1>2. CASE c.do # "delete"
  <2>1. c.on \in Tables /\ c.id \in Rowids /\ c.row \in Records
    BY <1>2 DEF Changes
  <2> QED BY <1>2, <2>1, UpdateRowKeeps DEF Change
<1> QED BY <1>1, <1>2

\* However deep the cascades may go.
LEMMA CascadesKeep ==
    /\ Cascades[MaxCascade] \in Followers
    /\ \A c \in Changes : Changed(c) \in Keeping(SoundTxs)
<1> DEFINE N == MaxCascade
           E(v) == [c \in Changes |-> Change(c, v)]
           base == [c \in Changes |-> Refuse]
           G == [k \in 1 .. N |-> [v \in Followers |-> E(v)]]
           F(g, k) == [c \in Changes |-> IF k = 0 THEN Refuse ELSE Change(c, g[k - 1])]
           d == CHOOSE g : g = [k \in 0 .. N |-> F(g, k)]
<1>1. N \in Nat
  BY SchemaAssumption
<1>2. Cascades = d
  BY DEF Cascades
<1>3. \A v \in Followers : E(v) \in Followers
  BY ChangeKeeps DEF Followers
<1>4. base \in Followers
  BY SkipKeeps, SoundIsTx DEF Followers
<1>5. Within(N, Followers, G) /\ \A k \in 1 .. N, v \in Followers : G[k][v] = E(v)
  <2> HIDE DEF E
  <2> QED BY <1>3 DEF Within
<1> HIDE DEF G, N
<1>6. PICK g : Follows(N, Followers, base, G, g)
  <2> HIDE DEF d, F, E, base
  <2> QED BY <1>1, <1>4, <1>5, Iterates
<1>7. /\ g \in [0 .. N -> Followers] /\ g[0] = base
      /\ \A k \in 1 .. N : g[k] = G[k][g[k - 1]]
  BY <1>6 DEF Follows
<1>8. ASSUME NEW k \in 0 .. N PROVE g[k] = F(g, k)
  <2>1. CASE k = 0
    BY <2>1, <1>7
  <2>2. CASE k # 0
    <3>1. k \in 1 .. N /\ k - 1 \in 0 .. N
      BY <2>2, <1>1
    <3>2. g[k] = E(g[k - 1])
      <4> HIDE DEF E
      <4> QED BY <3>1, <1>5, <1>7
    <3> QED BY <3>2, <2>2
  <2> QED BY <2>1, <2>2
<1>9. g = [k \in 0 .. N |-> F(g, k)]
  <2> HIDE DEF F
  <2> QED BY <1>7, <1>8
<1>10. \E h : h = [k \in 0 .. N |-> F(h, k)]
  <2> HIDE DEF F
  <2> QED BY <1>9
<1>11. d = [k \in 0 .. N |-> F(d, k)]
  <2> HIDE DEF F
  <2> QED BY <1>10
<1> HIDE DEF d
<1>12. \A k \in 0 .. N : d[k] = F(d, k)
  <2> HIDE DEF F
  <2> QED BY <1>11
<1> DEFINE T == {k \in 0 .. N : d[k] \in Followers}
<1>13. 0 \in T
  <2>1. d[0] = base /\ 0 \in 0 .. N
    BY <1>1, <1>12
  <2> HIDE DEF base, F
  <2> QED BY <2>1, <1>4
<1>14. ASSUME NEW k \in 0 .. N - 1, k \in T PROVE k + 1 \in T
  <2>1. k + 1 \in 0 .. N /\ k + 1 # 0 /\ (k + 1) - 1 = k /\ d[k] \in Followers
    BY <1>1, <1>14
  <2>2. d[k + 1] = E(d[k])
    BY <2>1, <1>12
  <2> HIDE DEF E, F
  <2> QED BY <2>1, <2>2, <1>3
<1>15. d[N] \in Followers
  <2> HIDE DEF T, F, E
  <2>1. N \in 0 .. N
    BY <1>1
  <2>2. N \in T
    BY <2>1, <1>1, <1>13, <1>14, BoundedInduction
  <2> QED BY <2>2 DEF T
<1>16. Cascades[MaxCascade] \in Followers
  BY <1>2, <1>15 DEF N
<1> QED BY <1>16 DEF Changed, Followers

----------------------------------------------------------------------------
(***************************************************************************)
(* Statements and triggers.                                                  *)
(***************************************************************************)
\* The steps of the statements one level down.
Deepers == {NoDeeper} \union [Writes -> Keeping(SoundTxs)]

LEMMA RunAllKeeps ==
    ASSUME NEW stmts \in Seq(Writes), NEW deeper \in [Writes -> Keeping(SoundTxs)]
    PROVE  RunAll(stmts, deeper) \in Keeping(SoundTxs)
<1> DEFINE N == Len(stmts)
           steps == [j \in 1 .. N |-> deeper[stmts[j]]]
<1>1. RunAll(stmts, deeper) = InTurn(steps)
  BY DEF RunAll
<1>2. N \in Nat /\ \A j \in 1 .. N : stmts[j] \in Writes
  OBVIOUS
<1> HIDE DEF N
<1>3. Len(steps) = N /\ \A j \in 1 .. N : steps[j] \in Keeping(SoundTxs)
  BY <1>2
<1> HIDE DEF steps
<1> QED BY <1>1, <1>2, <1>3, SoundIsTx, InTurnKeeps

LEMMA FireAllKeeps ==
    ASSUME NEW trigs \in SUBSET (1 .. Len(Triggers)), NEW old, NEW new, NEW deeper \in Deepers,
           \A i \in trigs : <<old, new>> \in Firings(Triggers[i])
    PROVE  FireAll(trigs, old, new, deeper) \in Keeping(SoundTxs)
<1> DEFINE at == Ascending(trigs)
           N == Len(at)
           B(i) == Body(Triggers[i], old, new)
           steps == [i \in 1 .. N |-> RunAll(B(at[i]), deeper)]
<1>1. FireAll(trigs, old, new, deeper) =
          IF trigs = {} THEN Skip ELSE IF DOMAIN deeper = {} THEN Refuse ELSE InTurn(steps)
  BY DEF FireAll
<1>2. CASE trigs = {} \/ DOMAIN deeper = {}
  BY <1>1, <1>2, SkipKeeps, SoundIsTx
<1>3. CASE trigs # {} /\ DOMAIN deeper # {}
  <2>1. deeper \in [Writes -> Keeping(SoundTxs)]
    BY <1>3 DEF Deepers, NoDeeper
  <2>2. N \in Nat /\ \A i \in 1 .. N : at[i] \in trigs
    BY AscendingIs, SchemaAssumption
  <2>3. \A i \in trigs : B(i) \in Seq(Writes)
    <3> SUFFICES ASSUME NEW i \in trigs PROVE B(i) \in Seq(Writes)
      OBVIOUS
    <3>1. \A f \in Firings(Triggers[i]) : Body(Triggers[i], f[1], f[2]) \in Seq(Writes)
      BY WritesAssumption
    <3> DEFINE f == <<old, new>>
    <3>2. f \in Firings(Triggers[i]) /\ f[1] = old /\ f[2] = new
      OBVIOUS
    <3> HIDE DEF f
    <3> QED BY <3>1, <3>2
  <2> HIDE DEF N, at, B
  <2>4. \A i \in 1 .. N : RunAll(B(at[i]), deeper) \in Keeping(SoundTxs)
    BY <2>1, <2>2, <2>3, RunAllKeeps
  <2>5. Len(steps) = N /\ \A i \in 1 .. N : steps[i] \in Keeping(SoundTxs)
    BY <2>2, <2>4
  <2> HIDE DEF steps
  <2> QED BY <1>1, <1>3, <2>2, <2>5, SoundIsTx, InTurnKeeps
<1> QED BY <1>2, <1>3

LEMMA FireKeeps ==
    ASSUME NEW on, NEW event, NEW timing, NEW old, NEW new, NEW deeper \in Deepers,
           IF event = "insert" THEN old = NoRow ELSE old \in Records,
           IF event = "delete" THEN new = NoRow ELSE new \in Records
    PROVE  Fire(on, event, timing, old, new, deeper) \in Keeping(SoundTxs)
<1> DEFINE trigs == TriggersFor(on, event, timing, {"row"})
<1>1. trigs \in SUBSET (1 .. Len(Triggers))
      /\ \A i \in trigs : Triggers[i].event = event /\ Triggers[i].each = "row"
  BY DEF TriggersFor
<1> HIDE DEF trigs
<1>2. \A i \in trigs : <<old, new>> \in Firings(Triggers[i])
  BY <1>1 DEF Firings
<1>3. FireAll(trigs, old, new, deeper) \in Keeping(SoundTxs)
  BY <1>1, <1>2, FireAllKeeps
<1> QED BY <1>3 DEF Fire, trigs

LEMMA FireStatementKeeps ==
    ASSUME NEW on, NEW event, NEW timing, timing # "instead", NEW deeper \in Deepers
    PROVE  FireStatement(on, event, timing, deeper) \in Keeping(SoundTxs)
<1> DEFINE trigs == TriggersFor(on, event, timing, {"statement"})
<1>1. trigs \in SUBSET (1 .. Len(Triggers))
      /\ \A i \in trigs : Triggers[i].timing = timing /\ Triggers[i].each = "statement"
  BY DEF TriggersFor
<1> HIDE DEF trigs
<1>2. \A i \in trigs : <<NoRow, NoRow>> \in Firings(Triggers[i])
  BY <1>1 DEF Firings
<1>3. FireAll(trigs, NoRow, NoRow, deeper) \in Keeping(SoundTxs)
  BY <1>1, <1>2, FireAllKeeps
<1> QED BY <1>3 DEF FireStatement, trigs

LEMMA OverlayIs ==
    ASSUME NEW row \in Records, NEW set \in Assignments
    PROVE  Overlay(row, set) \in Records
<1>1. \A c \in DOMAIN set : set[c] \in Values
  BY DEF Assignments
<1> QED BY <1>1 DEF Overlay, Records

LEMMA DoomedIs ==
    ASSUME NEW tx \in Txs, NEW t \in Tables, NEW where
    PROVE  /\ Len(Doomed(tx, t, where)) \in Nat
           /\ \A i \in 1 .. Len(Doomed(tx, t, where)) :
                 /\ Doomed(tx, t, where)[i].id \in Rowids
                 /\ Doomed(tx, t, where)[i].row \in Records
<1> DEFINE S == { n \in RowidsOf(tx.tree, t) : Matches(n, RowOf(tx, t, n), where) }
           ids == Ascending(S)
           N == Len(ids)
           D == [i \in 1 .. N |-> [id |-> ids[i], row |-> RowOf(tx, t, ids[i])]]
<1>1. Doomed(tx, t, where) = D
  BY DEF Doomed
<1>2. S \in SUBSET Rowids /\ \A n \in S : RowOf(tx, t, n) \in Records
  BY TxParts DEF RowidsOf, RowOf, HasRow
<1> HIDE DEF S
<1>3. N \in Nat /\ \A i \in 1 .. N : ids[i] \in S
  BY <1>2, AscendingIs, SchemaAssumption DEF Rowids
<1> HIDE DEF N, ids
<1>4. Len(D) = N /\ \A i \in 1 .. N : D[i].id \in Rowids /\ D[i].row \in Records
  BY <1>2, <1>3
<1> QED BY <1>1, <1>3, <1>4

\* A write between the triggers before it and those after it.
LEMMA UpsertUpdateKeeps ==
    ASSUME NEW t \in Tables, NEW n, NEW r, r.update \in Assignments, NEW deeper \in Deepers
    PROVE  UpsertUpdate(t, n, r, deeper) \in Keeping(SoundTxs)
<1> DEFINE f == UpsertUpdate(t, n, r, deeper)
           old(tx) == RowOf(tx, t, n)
           new(tx) == Overlay(old(tx), r.update)
           g(tx) == InTurn(<<Fire(t, "update", "before", old(tx), new(tx), deeper),
                             Changed(Rewrite(t, n, new(tx))),
                             Fire(t, "update", "after", old(tx), new(tx), deeper)>>)
<1>1. \A tx \in Txs : f[tx] = IF ~HasRow(tx, t, n) THEN Bad(tx)
                              ELSE IF ~Matches(n, old(tx), r.when) THEN Good(tx)
                              ELSE IF ~CheckRow(t, new(tx)) THEN Bad(tx)
                              ELSE g(tx)[tx]
  BY DEF UpsertUpdate
<1>2. DOMAIN f = Txs /\ f = [x \in Txs |-> f[x]]
  BY DEF UpsertUpdate
<1> HIDE DEF f
<1>3. ASSUME NEW tx \in Txs, HasRow(tx, t, n) PROVE g(tx) \in Keeping(SoundTxs)
  <2>1. n \in Rowids /\ old(tx) \in Records
    BY <1>3, TxParts
  <2>2. new(tx) \in Records
    BY <2>1, OverlayIs
  <2> HIDE DEF old, new
  <2>3. Changed(Rewrite(t, n, new(tx))) \in Keeping(SoundTxs)
    BY <2>1, <2>2, ChangesAre, CascadesKeep
  <2>4. /\ Fire(t, "update", "before", old(tx), new(tx), deeper) \in Keeping(SoundTxs)
        /\ Fire(t, "update", "after", old(tx), new(tx), deeper) \in Keeping(SoundTxs)
    BY <2>1, <2>2, FireKeeps
  <2> QED BY <2>3, <2>4, SoundIsTx, InTurnThree
<1> HIDE DEF g, new, old
<1>4. \A tx \in Txs : \/ f[tx] = Good(tx) \/ f[tx] = Bad(tx)
                      \/ \E h \in Keeping(SoundTxs) : f[tx] = h[tx]
  BY <1>1, <1>3
<1>5. f \in Keeping(SoundTxs)
  BY <1>2, <1>4, ChosenKeeps
<1> QED BY <1>5 DEF f

LEMMA InsertOneKeeps ==
    ASSUME NEW t \in Tables, NEW r, r.id \in Rowids \union {Null}, r.vals \in Assignments,
           r.update \in Assignments, NEW conflict, NEW deeper \in Deepers
    PROVE  InsertOne(t, r, conflict, deeper) \in Keeping(SoundTxs)
<1> DEFINE f == InsertOne(t, r, conflict, deeper)
           vals == ValidatedRecord(t, r.vals)
           rival(tx) == IF conflict = "fail" THEN Null ELSE FindConflict(tx, t, r.id, vals)
           up(tx) == UpsertUpdate(t, rival(tx), r, deeper)
           g == InTurn(<<Fire(t, "insert", "before", NoRow, vals, deeper),
                         InsertRow(t, r.id, vals),
                         Fire(t, "insert", "after", NoRow, vals, deeper)>>)
<1>1. \A tx \in Txs : f[tx] = IF rival(tx) # Null
                                THEN IF conflict = "nothing" THEN Good(tx) ELSE up(tx)[tx]
                              ELSE IF ~CheckRow(t, vals) THEN Bad(tx)
                              ELSE g[tx]
  BY DEF InsertOne
<1>2. DOMAIN f = Txs /\ f = [x \in Txs |-> f[x]]
  BY DEF InsertOne
<1> HIDE DEF f
<1>3. \A tx \in Txs : up(tx) \in Keeping(SoundTxs)
  BY UpsertUpdateKeeps
<1>4. vals \in Records
  BY ValidatedIs
<1> HIDE DEF up, rival, vals
<1>5. g \in Keeping(SoundTxs)
  <2>1. InsertRow(t, r.id, vals) \in Keeping(SoundTxs)
    BY <1>4, RecordsAreAssignments, InsertRowKeeps
  <2>2. /\ Fire(t, "insert", "before", NoRow, vals, deeper) \in Keeping(SoundTxs)
        /\ Fire(t, "insert", "after", NoRow, vals, deeper) \in Keeping(SoundTxs)
    BY <1>4, FireKeeps
  <2> QED BY <2>1, <2>2, SoundIsTx, InTurnThree
<1> HIDE DEF g
<1>6. \A tx \in Txs : \/ f[tx] = Good(tx) \/ f[tx] = Bad(tx)
                      \/ \E h \in Keeping(SoundTxs) : f[tx] = h[tx]
  BY <1>1, <1>3, <1>5
<1>7. f \in Keeping(SoundTxs)
  BY <1>2, <1>6, ChosenKeeps
<1> QED BY <1>7 DEF f

LEMMA UpdateOneKeeps ==
    ASSUME NEW t \in Tables, NEW u, u.id \in Rowids, u.row \in Records, u.new \in Records,
           NEW deeper \in Deepers
    PROVE  UpdateOne(t, u, deeper) \in Keeping(SoundTxs)
<1>1. Changed(Rewrite(t, u.id, u.new)) \in Keeping(SoundTxs)
  BY ChangesAre, CascadesKeep
<1>2. /\ Fire(t, "update", "before", u.row, u.new, deeper) \in Keeping(SoundTxs)
      /\ Fire(t, "update", "after", u.row, u.new, deeper) \in Keeping(SoundTxs)
  BY FireKeeps
<1> QED BY <1>1, <1>2, SoundIsTx, SkipKeeps, InTurnThree DEF UpdateOne

LEMMA DeleteOneKeeps ==
    ASSUME NEW t \in Tables, NEW d, d.id \in Rowids, d.row \in Records, NEW deeper \in Deepers
    PROVE  DeleteOne(t, d, deeper) \in Keeping(SoundTxs)
<1>1. Changed(Removal(t, d.id)) \in Keeping(SoundTxs)
  BY ChangesAre, CascadesKeep
<1>2. /\ Fire(t, "delete", "before", d.row, NoRow, deeper) \in Keeping(SoundTxs)
      /\ Fire(t, "delete", "after", d.row, NoRow, deeper) \in Keeping(SoundTxs)
  BY FireKeeps
<1> QED BY <1>1, <1>2, SoundIsTx, InTurnThree DEF DeleteOne

\* The rows a write is going to touch.
IsPlan(s, p) ==
    CASE s.op = "insert" -> /\ p.id \in Rowids \union {Null} /\ p.vals \in Assignments
                            /\ p.update \in Assignments
      [] s.op = "update" -> p.id \in Rowids /\ p.row \in Records /\ p.new \in Records
      [] s.op = "delete" -> p.id \in Rowids /\ p.row \in Records

LEMMA PlannedIs ==
    ASSUME NEW tx \in Txs, NEW s, IsWrite(s), NEW t \in Tables
    PROVE  /\ Len(Planned(tx, s, t)) \in Nat
           /\ \A i \in 1 .. Len(Planned(tx, s, t)) : IsPlan(s, Planned(tx, s, t)[i])
<1>1. CASE s.op = "insert"
  <2>1. Planned(tx, s, t) = s.rows /\ IsBatch(s.rows)
    BY <1>1 DEF Planned, IsWrite
  <2> QED BY <1>1, <2>1 DEF IsBatch, IsPlan
<1>2. CASE s.op = "update"
  <2> DEFINE hit == Doomed(tx, t, s.where)
             N == Len(hit)
             P == [i \in 1 .. N |->
                      [id |-> hit[i].id, row |-> hit[i].row, new |-> Overlay(hit[i].row, s.set)]]
  <2>1. Planned(tx, s, t) = P /\ s.set \in Assignments
    BY <1>2 DEF Planned, IsWrite
  <2>2. N \in Nat /\ \A i \in 1 .. N : hit[i].id \in Rowids /\ hit[i].row \in Records
    BY DoomedIs
  <2> HIDE DEF N, hit
  <2>3. \A i \in 1 .. N : Overlay(hit[i].row, s.set) \in Records
    BY <2>1, <2>2, OverlayIs
  <2>4. Len(P) = N /\ \A i \in 1 .. N : IsPlan(s, P[i])
    BY <1>2, <2>2, <2>3 DEF IsPlan
  <2> QED BY <2>1, <2>2, <2>4
<1>3. CASE s.op = "delete"
  <2>1. Planned(tx, s, t) = Doomed(tx, t, s.where)
    BY <1>3 DEF Planned
  <2> QED BY <1>3, <2>1, DoomedIs DEF IsPlan
<1> QED BY <1>1, <1>2, <1>3 DEF IsWrite

LEMMA RunOneKeeps ==
    ASSUME NEW s, IsWrite(s), s.on \in Tables, NEW p, IsPlan(s, p), NEW deeper \in Deepers
    PROVE  RunOne(s, p, deeper) \in Keeping(SoundTxs)
<1>1. CASE s.op = "insert"
  BY <1>1, InsertOneKeeps DEF RunOne, IsPlan
<1>2. CASE s.op = "update"
  BY <1>2, UpdateOneKeeps DEF RunOne, IsPlan
<1>3. CASE s.op = "delete"
  BY <1>3, DeleteOneKeeps DEF RunOne, IsPlan
<1> QED BY <1>1, <1>2, <1>3 DEF IsWrite

LEMMA RunOnTableKeeps ==
    ASSUME NEW s, IsWrite(s), s.on \in Tables, NEW deeper \in Deepers
    PROVE  RunOnTable(s, deeper) \in Keeping(SoundTxs)
<1> DEFINE f == RunOnTable(s, deeper)
           plan(tx) == Planned(tx, s, s.on)
           before == FireStatement(s.on, s.op, "before", deeper)
           after == FireStatement(s.on, s.op, "after", deeper)
           steps(tx) == [i \in 1 .. Len(plan(tx)) |-> RunOne(s, plan(tx)[i], deeper)]
           g(tx) == InTurn(<<before, InTurn(steps(tx)), after>>)
<1>1. \A tx \in Txs : f[tx] = g(tx)[tx]
  BY DEF RunOnTable
<1>2. DOMAIN f = Txs /\ f = [x \in Txs |-> f[x]]
  BY DEF RunOnTable
<1> HIDE DEF f
<1>3. before \in Keeping(SoundTxs) /\ after \in Keeping(SoundTxs)
  BY FireStatementKeeps
<1> HIDE DEF before, after
<1>4. ASSUME NEW tx \in Txs PROVE g(tx) \in Keeping(SoundTxs)
  <2> DEFINE p == plan(tx)
             N == Len(p)
             S == [i \in 1 .. N |-> RunOne(s, p[i], deeper)]
  <2>1. N \in Nat /\ \A i \in 1 .. N : IsPlan(s, p[i])
    BY PlannedIs
  <2>2. steps(tx) = S
    OBVIOUS
  <2> HIDE DEF p, N, plan, steps
  <2>3. \A i \in 1 .. N : RunOne(s, p[i], deeper) \in Keeping(SoundTxs)
    BY <2>1, RunOneKeeps
  <2>4. Len(S) = N /\ \A i \in 1 .. N : S[i] \in Keeping(SoundTxs)
    BY <2>1, <2>3
  <2> HIDE DEF S
  <2>5. InTurn(S) \in Keeping(SoundTxs)
    BY <2>1, <2>4, SoundIsTx, InTurnKeeps
  <2>6. InTurn(<<before, InTurn(S), after>>) \in Keeping(SoundTxs)
    BY <1>3, <2>5, SoundIsTx, InTurnThree
  <2> QED BY <2>2, <2>6
<1> HIDE DEF g
<1>5. f \in Keeping(SoundTxs)
  BY <1>1, <1>2, <1>4, ChosenKeeps
<1> QED BY <1>5 DEF f

LEMMA RunInsteadOfKeeps ==
    ASSUME NEW s, IsWrite(s), Views[s.on] \in Tables, NEW deeper \in Deepers
    PROVE  RunInsteadOf(s, deeper) \in Keeping(SoundTxs)
<1> DEFINE f == RunInsteadOf(s, deeper)
           trigs == TriggersFor(s.on, s.op, "instead", {"row", "statement"})
           nulls == [c \in Cols |-> Null]
           old(p) == IF s.op = "insert" THEN NoRow ELSE p.row
           new(p) == CASE s.op = "insert" -> Overlay(nulls, p.vals)
                       [] s.op = "update" -> p.new
                       [] s.op = "delete" -> NoRow
           plan(tx) == Planned(tx, s, Views[s.on])
           steps(tx) == [i \in 1 .. Len(plan(tx)) |->
                             FireAll(trigs, old(plan(tx)[i]), new(plan(tx)[i]), deeper)]
           g(tx) == InTurn(steps(tx))
<1>1. \A tx \in Txs : f[tx] = IF trigs = {} THEN Bad(tx) ELSE g(tx)[tx]
  BY DEF RunInsteadOf
<1>2. DOMAIN f = Txs /\ f = [x \in Txs |-> f[x]]
  BY DEF RunInsteadOf
<1> HIDE DEF f
<1>3. trigs \in SUBSET (1 .. Len(Triggers))
      /\ \A i \in trigs : Triggers[i].event = s.op /\ Triggers[i].timing = "instead"
  BY DEF TriggersFor
<1>4. nulls \in Records
  BY SchemaAssumption DEF Records
<1> HIDE DEF trigs, nulls
<1>5. ASSUME NEW p, IsPlan(s, p) PROVE FireAll(trigs, old(p), new(p), deeper) \in Keeping(SoundTxs)
  <2>1. CASE s.op = "insert"
    <3>1. new(p) = Overlay(nulls, p.vals) /\ p.vals \in Assignments
      BY <2>1, <1>5 DEF IsPlan
    <3>2. old(p) = NoRow /\ new(p) \in Records
      BY <2>1, <3>1, <1>4, OverlayIs
    <3> HIDE DEF old, new
    <3>3. \A i \in trigs : <<old(p), new(p)>> \in Firings(Triggers[i])
      BY <3>2, <2>1, <1>3 DEF Firings
    <3> QED BY <3>3, <1>3, FireAllKeeps
  <2>2. CASE s.op = "update"
    <3>2. old(p) \in Records /\ new(p) \in Records
      BY <2>2, <1>5 DEF IsPlan
    <3> HIDE DEF old, new
    <3>3. \A i \in trigs : <<old(p), new(p)>> \in Firings(Triggers[i])
      BY <3>2, <2>2, <1>3 DEF Firings
    <3> QED BY <3>3, <1>3, FireAllKeeps
  <2>3. CASE s.op = "delete"
    <3>2. old(p) \in Records /\ new(p) = NoRow
      BY <2>3, <1>5 DEF IsPlan
    <3> HIDE DEF old, new
    <3>3. \A i \in trigs : <<old(p), new(p)>> \in Firings(Triggers[i])
      BY <3>2, <2>3, <1>3 DEF Firings
    <3> QED BY <3>3, <1>3, FireAllKeeps
  <2> QED BY <2>1, <2>2, <2>3 DEF IsWrite
<1> HIDE DEF old, new
<1>6. ASSUME NEW tx \in Txs PROVE g(tx) \in Keeping(SoundTxs)
  <2> DEFINE p == plan(tx)
             N == Len(p)
             S == [i \in 1 .. N |-> FireAll(trigs, old(p[i]), new(p[i]), deeper)]
  <2>1. N \in Nat /\ \A i \in 1 .. N : IsPlan(s, p[i])
    BY PlannedIs
  <2>2. steps(tx) = S
    OBVIOUS
  <2> HIDE DEF p, N, plan, steps
  <2>3. \A i \in 1 .. N : FireAll(trigs, old(p[i]), new(p[i]), deeper) \in Keeping(SoundTxs)
    BY <2>1, <1>5
  <2>4. Len(S) = N /\ \A i \in 1 .. N : S[i] \in Keeping(SoundTxs)
    BY <2>1, <2>3
  <2> HIDE DEF S
  <2>5. InTurn(S) \in Keeping(SoundTxs)
    BY <2>1, <2>4, SoundIsTx, InTurnKeeps
  <2> QED BY <2>2, <2>5
<1> HIDE DEF g
<1>7. \A tx \in Txs : \/ f[tx] = Good(tx) \/ f[tx] = Bad(tx)
                      \/ \E h \in Keeping(SoundTxs) : f[tx] = h[tx]
  BY <1>1, <1>6
<1>8. f \in Keeping(SoundTxs)
  BY <1>2, <1>7, ChosenKeeps
<1> QED BY <1>8 DEF f

LEMMA RunExecuteKeeps ==
    ASSUME NEW s \in Writes, NEW deeper \in Deepers
    PROVE  RunExecute(s, deeper) \in Keeping(SoundTxs)
<1>1. IsWrite(s)
  BY WritesAssumption
<1>2. CASE s.on \in Tables
  BY <1>1, <1>2, RunOnTableKeeps DEF RunExecute
<1>3. CASE s.on \notin Tables /\ s.on \in DOMAIN Views
  <2>1. Views[s.on] \in Tables
    BY <1>3, SchemaAssumption
  <2> QED BY <1>1, <1>3, <2>1, RunInsteadOfKeeps DEF RunExecute
<1>4. CASE s.on \notin Tables /\ s.on \notin DOMAIN Views
  <2>1. RunExecute(s, deeper) = Refuse
    BY <1>4 DEF RunExecute
  <2> QED BY <2>1, SkipKeeps, SoundIsTx
<1> QED BY <1>2, <1>3, <1>4

\* A statement that succeeds, with everything it sets off, leaves a sound
\* transaction sound.
LEMMA ExecutedKeeps ==
    \A s \in Writes : Executed(s) \in Keeping(SoundTxs)
<1> DEFINE N == MaxTriggerDepth
           V == [Writes -> Keeping(SoundTxs)]
           E(v) == [s \in Writes |-> RunExecute(s, v)]
           base == [s \in Writes |-> RunExecute(s, NoDeeper)]
           G == [k \in 1 .. N |-> [v \in V |-> E(v)]]
           F(g, k) == [s \in Writes |-> RunExecute(s, IF k = 0 THEN NoDeeper ELSE g[k - 1])]
           d == CHOOSE g : g = [k \in 0 .. N |-> F(g, k)]
<1>1. N \in Nat
  BY SchemaAssumption
<1>2. Runs = d
  BY DEF Runs
<1>3. \A v \in V : E(v) \in V
  BY RunExecuteKeeps DEF Deepers
<1>4. base \in V
  BY RunExecuteKeeps DEF Deepers
<1>5. Within(N, V, G) /\ \A k \in 1 .. N, v \in V : G[k][v] = E(v)
  <2> HIDE DEF E, V
  <2> QED BY <1>3 DEF Within
<1> HIDE DEF G, N
<1>6. PICK g : Follows(N, V, base, G, g)
  <2> HIDE DEF d, F, E, base, V
  <2> QED BY <1>1, <1>4, <1>5, Iterates
<1>7. /\ g \in [0 .. N -> V] /\ g[0] = base
      /\ \A k \in 1 .. N : g[k] = G[k][g[k - 1]]
  BY <1>6 DEF Follows
<1> HIDE DEF V
<1>8. ASSUME NEW k \in 0 .. N PROVE g[k] = F(g, k)
  <2>1. CASE k = 0
    BY <2>1, <1>7
  <2>2. CASE k # 0
    <3>1. k \in 1 .. N /\ k - 1 \in 0 .. N
      BY <2>2, <1>1
    <3>2. g[k] = E(g[k - 1])
      <4> HIDE DEF E
      <4> QED BY <3>1, <1>5, <1>7
    <3> QED BY <3>2, <2>2
  <2> QED BY <2>1, <2>2
<1>9. g = [k \in 0 .. N |-> F(g, k)]
  <2> HIDE DEF F
  <2> QED BY <1>7, <1>8
<1>10. \E h : h = [k \in 0 .. N |-> F(h, k)]
  <2> HIDE DEF F
  <2> QED BY <1>9
<1>11. d = [k \in 0 .. N |-> F(d, k)]
  <2> HIDE DEF F
  <2> QED BY <1>10
<1> HIDE DEF d
<1>12. \A k \in 0 .. N : d[k] = F(d, k)
  <2> HIDE DEF F
  <2> QED BY <1>11
<1> DEFINE T == {k \in 0 .. N : d[k] \in V}
<1>13. 0 \in T
  <2>1. d[0] = base /\ 0 \in 0 .. N
    BY <1>1, <1>12
  <2> HIDE DEF base, F
  <2> QED BY <2>1, <1>4
<1>14. ASSUME NEW k \in 0 .. N - 1, k \in T PROVE k + 1 \in T
  <2>1. k + 1 \in 0 .. N /\ k + 1 # 0 /\ (k + 1) - 1 = k /\ d[k] \in V
    BY <1>1, <1>14
  <2>2. d[k + 1] = E(d[k])
    BY <2>1, <1>12
  <2> HIDE DEF E, F
  <2> QED BY <2>1, <2>2, <1>3
<1>15. d[N] \in V
  <2> HIDE DEF T, F, E
  <2>1. N \in 0 .. N
    BY <1>1
  <2>2. N \in T
    BY <2>1, <1>1, <1>13, <1>14, BoundedInduction
  <2> QED BY <2>2 DEF T
<1>16. Runs[MaxTriggerDepth] \in V
  BY <1>2, <1>15 DEF N
<1> QED BY <1>16 DEF Executed, V

----------------------------------------------------------------------------
(***************************************************************************)
(* Connections.                                                              *)
(***************************************************************************)
LEMMA BegunIs ==
    ASSUME NEW tree \in AllTrees
    PROVE  /\ Begun(tree) \in Txs /\ Begun(tree).tree = tree
           /\ \A t \in Tables : NextRowid(Begun(tree), t) = tree.counter[t]
<1>1. 0 \in 0 .. MaxRowid
  BY SchemaAssumption
<1>2. Begun(tree) \in Txs /\ Begun(tree).tree = tree /\ Begun(tree).cache = [t \in Tables |-> 0]
  BY <1>1 DEF Begun, Txs
<1> QED BY <1>2 DEF NextRowid, ReadCounter

LEMMA EmptyTreeIs ==
    EmptyTree \in AllTrees /\ Sound(Begun(EmptyTree))
<1>1. 1 \in Rowids
  BY SchemaAssumption DEF Rowids
<1>2. EmptyTree \in AllTrees
  BY <1>1 DEF EmptyTree, AllTrees
<1> DEFINE tx == Begun(EmptyTree)
<1>3. tx \in Txs /\ tx.tree = EmptyTree
  BY <1>2, BegunIs
<1> HIDE DEF tx
<1>4. \A t \in Tables : \A n : ~HasRow(tx, t, n)
  BY <1>3 DEF HasRow, RowOf, EmptyTree
<1>5. tx.tree.entries = {}
  BY <1>3 DEF EmptyTree
<1>6. \A t \in Tables : ExactBut(tx, t, {})
  BY <1>4, <1>5 DEF ExactBut, Held
<1>7. \A t \in Tables : UniqueBut(tx, t, {})
  BY <1>4 DEF UniqueBut
<1>8. Below(tx)
  BY <1>4 DEF Below
<1> QED BY <1>2, <1>6, <1>7, <1>8 DEF Sound, tx

\* What is committed is as sound as the transaction was.
LEMMA CountersWritten ==
    ASSUME NEW tx \in Txs
    PROVE  /\ WriteCounters(tx) \in AllTrees
           /\ WriteCounters(tx).rows = tx.tree.rows
           /\ WriteCounters(tx).entries = tx.tree.entries
           /\ \A t \in Tables : WriteCounters(tx).counter[t] = NextRowid(tx, t)
           /\ Sound(tx) => Sound(Begun(WriteCounters(tx)))
<1> DEFINE w == WriteCounters(tx)
<1>1. \A t \in Tables : NextRowid(tx, t) \in Rowids
  BY NextRowidIs
<1>2. /\ w \in AllTrees /\ w.rows = tx.tree.rows /\ w.entries = tx.tree.entries
      /\ w.counter = [t \in Tables |-> NextRowid(tx, t)]
  BY <1>1 DEF WriteCounters, Txs, AllTrees
<1> HIDE DEF w
<1> DEFINE y == Begun(w)
<1>3. y \in Txs /\ y.tree = w /\ \A t \in Tables : NextRowid(y, t) = w.counter[t]
  BY <1>2, BegunIs
<1> HIDE DEF y
<1>4. \A t \in Tables : \A n : HasRow(y, t, n) <=> HasRow(tx, t, n)
  BY <1>2, <1>3 DEF HasRow, RowOf
<1>5. Below(tx) => Below(y)
  BY <1>2, <1>3, <1>4 DEF Below
<1>6. ASSUME NEW t \in Tables, ExactBut(tx, t, {}), UniqueBut(tx, t, {})
      PROVE  ExactBut(y, t, {}) /\ UniqueBut(y, t, {})
  BY <1>2, <1>3, <1>6, SameTree
<1>7. Sound(tx) => Sound(y)
  BY <1>5, <1>6 DEF Sound
<1> QED BY <1>2, <1>7 DEF w, y

Savepoints == [name : Names, tx : Txs, failed : BOOLEAN]
Works == [conn : Conns, kind : {"begin", "object"}, tx : Txs, saves : Seq(Savepoints),
          failed : BOOLEAN, steps : Nat]

\* The open transaction, and what every savepoint goes back to, are sound
\* unless a statement failed in them.
WorkSound(w) ==
    /\ ~w.failed => Sound(w.tx)
    /\ \A i \in 1 .. Len(w.saves) : ~w.saves[i].failed => Sound(w.saves[i].tx)

SessionTypes ==
    /\ versions \in Seq(AllTrees) /\ Len(versions) # 0
    /\ tainted \in BOOLEAN
    /\ work = None \/ (work \in Works /\ (work.saves # <<>> => work.kind = "begin"))
    /\ \A c \in Conns : pin[c] \in 0 .. Len(versions)

SessionSound ==
    ~tainted => /\ Sound(Begun(HeadTree))
                /\ work # None => WorkSound(work)

SessionInv == SessionTypes /\ SessionSound

LEMMA HeadIs ==
    ASSUME SessionInv
    PROVE  HeadTree \in AllTrees /\ Begun(HeadTree) \in Txs
  BY BegunIs DEF SessionInv, SessionTypes, HeadTree

LEMMA WorkIs ==
    ASSUME NEW w \in Works
    PROVE  w # None
<1>1. DOMAIN w = {"conn", "kind", "tx", "saves", "failed", "steps"}
  BY DEF Works
<1>2. DOMAIN None = {"none"}
  BY DEF None
<1> QED BY <1>1, <1>2

\* Publishing a transaction.
LEMMA PublishKeeps ==
    ASSUME SessionInv, NEW tx \in Txs, Publish(tx)
    PROVE  /\ versions' \in Seq(AllTrees) /\ Len(versions') # 0
           /\ Len(versions) <= Len(versions')
           /\ HeadTree' = IF Publishes(tx) THEN WriteCounters(tx) ELSE HeadTree
<1>1. versions \in Seq(AllTrees) /\ Len(versions) # 0
  BY DEF SessionInv, SessionTypes
<1>2. CASE Publishes(tx)
  <2>1. versions' = Append(versions, WriteCounters(tx)) /\ WriteCounters(tx) \in AllTrees
    BY <1>2, CountersWritten DEF Publish
  <2> DEFINE v == WriteCounters(tx)
  <2> HIDE DEF v
  <2>2. versions' = Append(versions, v) /\ v \in AllTrees
    BY <2>1 DEF v
  <2>3. /\ versions' \in Seq(AllTrees) /\ Len(versions') = Len(versions) + 1
        /\ versions'[Len(versions')] = v
    BY <1>1, <2>2
  <2> QED BY <1>1, <1>2, <2>3 DEF HeadTree, v
<1>3. CASE ~Publishes(tx)
  <2>1. versions' = versions
    BY <1>3 DEF Publish
  <2> QED BY <1>1, <1>3, <2>1 DEF HeadTree
<1> QED BY <1>2, <1>3

LEMMA AutocommitKeeps ==
    ASSUME SessionInv, NEW c \in Conns, NEW f \in Keeping(SoundTxs),
           AutocommitWith(c, f[Begun(HeadTree)])
    PROVE  SessionInv'
<1> DEFINE r == f[Begun(HeadTree)]
<1>1. r \in Results /\ (Sound(Begun(HeadTree)) /\ r.ok => Sound(r.tx))
  BY HeadIs, KeepingIs
<1>2. /\ work = None /\ work' = work /\ tainted' = tainted /\ pin' = pin
      /\ IF r.ok THEN Publish(r.tx) ELSE versions' = versions
  BY DEF AutocommitWith, CommitOrDrop
<1> HIDE DEF r
<1>3. r.tx \in Txs
  BY <1>1 DEF Results
<1>4. CASE r.ok
  <2>1. /\ versions' \in Seq(AllTrees) /\ Len(versions') # 0
        /\ Len(versions) <= Len(versions')
        /\ HeadTree' = IF Publishes(r.tx) THEN WriteCounters(r.tx) ELSE HeadTree
    BY <1>2, <1>3, <1>4, PublishKeeps
  <2>2. SessionTypes'
    <3>1. Len(versions) \in Nat /\ Len(versions') \in Nat
      BY <2>1 DEF SessionInv, SessionTypes
    <3> QED BY <1>2, <2>1, <3>1 DEF SessionInv, SessionTypes
  <2>3. SessionSound'
    <3>1. Sound(Begun(HeadTree)) => Sound(Begun(HeadTree)')
      <4>1. Sound(r.tx) => Sound(Begun(WriteCounters(r.tx)))
        BY <1>3, CountersWritten
      <4>2. CASE Publishes(r.tx)
        BY <4>1, <4>2, <2>1, <1>1, <1>4
      <4>3. CASE ~Publishes(r.tx)
        BY <4>3, <2>1
      <4> QED BY <4>2, <4>3
    <3> QED BY <1>2, <3>1 DEF SessionInv, SessionSound
  <2> QED BY <2>2, <2>3 DEF SessionInv
<1>5. CASE ~r.ok
  <2>1. versions' = versions /\ HeadTree' = HeadTree
    BY <1>2, <1>5 DEF HeadTree
  <2> QED BY <1>2, <2>1 DEF SessionInv, SessionTypes, SessionSound
<1> QED BY <1>4, <1>5

\* Actions that leave the versions and the pins alone.
LEMMA SameVersions ==
    ASSUME SessionInv, UNCHANGED <<versions, tainted, pin>>,
           work' = None \/ /\ work' \in Works /\ (work'.saves # <<>> => work'.kind = "begin")
                           /\ ~tainted => WorkSound(work')
    PROVE  SessionInv'
<1>1. HeadTree' = HeadTree
  BY DEF HeadTree
<1>2. SessionTypes'
  BY DEF SessionInv, SessionTypes
<1>3. SessionSound'
  <2>1. CASE work' = None
    BY <1>1, <2>1 DEF SessionInv, SessionSound
  <2>2. CASE ~tainted => WorkSound(work')
    <3>1. ~tainted => WorkSound(work)'
      BY <2>2 DEF WorkSound
    <3> QED BY <1>1, <3>1 DEF SessionInv, SessionSound
  <2> QED BY <2>1, <2>2
<1> QED BY <1>2, <1>3 DEF SessionInv

LEMMA OpenWork ==
    ASSUME SessionInv, work # None
    PROVE  /\ work \in Works /\ work.tx \in Txs /\ work.saves \in Seq(Savepoints)
           /\ Len(work.saves) \in Nat
           /\ \A i \in 1 .. Len(work.saves) : work.saves[i] \in Savepoints
           /\ work.saves # <<>> => work.kind = "begin"
           /\ ~tainted => WorkSound(work)
<1>1. work \in Works
  BY DEF SessionInv, SessionTypes
<1>2. work.saves \in Seq(Savepoints) /\ work.tx \in Txs
  BY <1>1 DEF Works
<1> QED BY <1>1, <1>2 DEF SessionInv, SessionTypes, SessionSound

LEMMA BeginKeeps ==
    ASSUME SessionInv, NEW c \in Conns, NEW kind \in {"begin", "object"}, Begin(c, kind)
    PROVE  SessionInv'
<1> DEFINE w == [conn |-> c, kind |-> kind, tx |-> Begun(HeadTree), saves |-> <<>>,
                 failed |-> FALSE, steps |-> 0]
<1>1. work' = w /\ UNCHANGED <<versions, tainted, pin>>
  BY DEF Begin
<1>2. w \in Works /\ w.saves = <<>> /\ w.tx = Begun(HeadTree) /\ ~w.failed
  BY HeadIs DEF Works
<1> HIDE DEF w
<1>3. ~tainted => Sound(Begun(HeadTree))
  BY DEF SessionInv, SessionSound
<1>4. ~tainted => WorkSound(w)
  BY <1>2, <1>3 DEF WorkSound
<1> QED BY <1>1, <1>2, <1>4, SameVersions

LEMMA ExecuteKeeps ==
    ASSUME SessionInv, NEW c \in Conns, NEW s \in Statements, Execute(c, s)
    PROVE  SessionInv'
<1> DEFINE f == Executed(s)
           r == f[work.tx]
           b == work.failed \/ ~r.ok
           n == work.steps + 1
           w == [work EXCEPT !.tx = r.tx, !.failed = b, !.steps = n]
<1>1. work # None /\ work' = w /\ UNCHANGED <<versions, tainted, pin>>
  BY DEF Execute, Owned
<1>2. f \in Keeping(SoundTxs)
  BY ExecutedKeeps, StatementsAssumption
<1>3. work \in Works /\ work.tx \in Txs
  BY <1>1, OpenWork
<1> HIDE DEF f
<1>4. r \in Results /\ (Sound(work.tx) /\ r.ok => Sound(r.tx))
  BY <1>2, <1>3, KeepingIs
<1>5. r.tx \in Txs /\ b \in BOOLEAN /\ n \in Nat
  <2>1. r.tx \in Txs
    BY <1>4 DEF Results
  <2>2. b \in BOOLEAN
    OBVIOUS
  <2>3. n \in Nat
    BY <1>3 DEF Works
  <2> QED BY <2>1, <2>2, <2>3
<1> HIDE DEF r, b, n
<1>6. /\ w \in Works /\ w.tx = r.tx /\ w.saves = work.saves /\ w.kind = work.kind
      /\ w.failed = b
  BY <1>3, <1>5 DEF Works
<1> HIDE DEF w
<1>7. ~tainted => WorkSound(w)
  BY <1>1, <1>4, <1>6, OpenWork DEF WorkSound, b
<1>8. w.saves # <<>> => w.kind = "begin"
  BY <1>1, <1>6, OpenWork
<1> QED BY <1>1, <1>6, <1>7, <1>8, SameVersions

LEMMA CommitKeeps ==
    ASSUME SessionInv, NEW c \in Conns, Commit(c)
    PROVE  SessionInv'
<1>1. /\ work # None /\ work' = None /\ pin' = pin /\ Publish(work.tx)
      /\ tainted' = (tainted \/ work.failed)
  BY DEF Commit
<1>2. work \in Works /\ work.tx \in Txs /\ (~tainted => WorkSound(work))
  BY <1>1, OpenWork
<1>3. /\ versions' \in Seq(AllTrees) /\ Len(versions') # 0 /\ Len(versions) <= Len(versions')
      /\ HeadTree' = IF Publishes(work.tx) THEN WriteCounters(work.tx) ELSE HeadTree
  BY <1>1, <1>2, PublishKeeps
<1>4. SessionTypes'
  <2>1. Len(versions) \in Nat /\ Len(versions') \in Nat
    BY <1>3 DEF SessionInv, SessionTypes
  <2>2. tainted' \in BOOLEAN
    BY <1>1, <1>2 DEF SessionInv, SessionTypes, Works
  <2> QED BY <1>1, <1>3, <2>1, <2>2 DEF SessionInv, SessionTypes
<1>5. SessionSound'
  <2>1. ASSUME ~tainted, ~work.failed PROVE Sound(Begun(HeadTree)')
    <3>1. Sound(Begun(WriteCounters(work.tx)))
      BY <2>1, <1>2, CountersWritten DEF WorkSound
    <3>2. Sound(Begun(HeadTree))
      BY <2>1 DEF SessionInv, SessionSound
    <3>3. CASE Publishes(work.tx)
      BY <3>1, <3>3, <1>3
    <3>4. CASE ~Publishes(work.tx)
      BY <3>2, <3>4, <1>3
    <3> QED BY <3>3, <3>4
  <2> QED BY <1>1, <2>1 DEF SessionSound
<1> QED BY <1>4, <1>5 DEF SessionInv

LEMMA SetSavepointKeeps ==
    ASSUME SessionInv, NEW c \in Conns, NEW name \in Names, SetSavepoint(c, name)
    PROVE  SessionInv'
<1> DEFINE p == [name |-> name, tx |-> work.tx, failed |-> work.failed]
           q == Append(work.saves, p)
           n == work.steps + 1
           w == [work EXCEPT !.saves = q, !.steps = n]
<1>1. /\ work # None /\ work.kind = "begin" /\ work' = w
      /\ UNCHANGED <<versions, tainted, pin>>
  BY DEF SetSavepoint, Owned, InTransaction
<1>2. /\ work \in Works /\ work.tx \in Txs /\ work.saves \in Seq(Savepoints)
      /\ (~tainted => WorkSound(work))
  BY <1>1, OpenWork
<1>3. p \in Savepoints /\ p.tx = work.tx /\ p.failed = work.failed
  BY <1>2 DEF Savepoints, Works
<1> HIDE DEF p
<1>4. q \in Seq(Savepoints)
  BY <1>2, <1>3
<1>5. n \in Nat
  BY <1>2 DEF Works
<1> HIDE DEF q, n
<1>6. /\ w \in Works /\ w.tx = work.tx /\ w.failed = work.failed /\ w.kind = "begin"
      /\ w.saves = q
  BY <1>1, <1>2, <1>4, <1>5 DEF Works
<1>7. /\ Len(w.saves) = Len(work.saves) + 1 /\ Len(work.saves) \in Nat
      /\ \A i \in 1 .. Len(work.saves) : w.saves[i] = work.saves[i]
      /\ w.saves[Len(work.saves) + 1] = p
  BY <1>2, <1>6 DEF q
<1> HIDE DEF w
<1>8. ASSUME ~tainted PROVE WorkSound(w)
  <2>1. WorkSound(work)
    BY <1>2, <1>8
  <2>2. ASSUME NEW i \in 1 .. Len(w.saves), ~w.saves[i].failed PROVE Sound(w.saves[i].tx)
    <3>1. CASE i = Len(work.saves) + 1
      BY <3>1, <2>1, <2>2, <1>3, <1>7 DEF WorkSound
    <3>2. CASE i # Len(work.saves) + 1
      <4>1. i \in 1 .. Len(work.saves)
        BY <3>2, <1>7
      <4> QED BY <4>1, <2>1, <2>2, <1>7 DEF WorkSound
    <3> QED BY <3>1, <3>2
  <2>3. ~w.failed => Sound(w.tx)
    BY <2>1, <1>6 DEF WorkSound
  <2> QED BY <2>2, <2>3 DEF WorkSound
<1> QED BY <1>1, <1>6, <1>8, SameVersions

\* The innermost savepoint of a name, when there is one.
LEMMA PositionIs ==
    ASSUME SessionInv, work # None, NEW name, Position(name) # 0
    PROVE  Position(name) \in 1 .. Len(work.saves)
<1> DEFINE n == Len(work.saves)
           hit == { i \in 1 .. n : work.saves[i].name = name }
           D == {n - i : i \in hit}
<1>1. n \in Nat
  BY OpenWork
<1>2. Position(name) = CHOOSE i \in hit : \A j \in hit : j <= i
  BY DEF Position
<1>3. hit # {} /\ hit \subseteq 1 .. n
  BY DEF Position
<1> HIDE DEF hit, n
<1>4. D \in SUBSET Nat /\ D # {}
  <2>1. \A i \in hit : n - i \in Nat
    BY <1>1, <1>3
  <2> QED BY <2>1, <1>3
<1>5. \E d \in D : \A e \in D : d <= e
  <2> HIDE DEF D
  <2> QED BY <1>4, LeastElement
<1>6. PICK i \in hit : \A j \in hit : n - i <= n - j
  BY <1>5
<1>7. \A j \in hit : j <= i
  BY <1>1, <1>3, <1>6
<1>8. Position(name) \in hit
  BY <1>2, <1>7
<1> QED BY <1>3, <1>8 DEF n

LEMMA RollbackToKeeps ==
    ASSUME SessionInv, NEW c \in Conns, NEW name \in Names, RollbackTo(c, name)
    PROVE  SessionInv'
<1> DEFINE k == Position(name)
           p == work.saves[k]
           w == [work EXCEPT !.tx = p.tx, !.failed = p.failed, !.saves = SubSeq(@, 1, k)]
<1>1. /\ work # None /\ work.kind = "begin" /\ work' = w /\ k # 0
      /\ UNCHANGED <<versions, tainted, pin>>
  BY DEF RollbackTo, InTransaction
<1>2. /\ work \in Works /\ work.saves \in Seq(Savepoints) /\ Len(work.saves) \in Nat
      /\ (~tainted => WorkSound(work))
  BY <1>1, OpenWork
<1>3. k \in 1 .. Len(work.saves)
  BY <1>1, PositionIs
<1> HIDE DEF k
<1>4. p \in Savepoints /\ p.tx \in Txs /\ p.failed \in BOOLEAN
  BY <1>1, <1>3, OpenWork DEF Savepoints
<1>5. /\ SubSeq(work.saves, 1, k) \in Seq(Savepoints)
      /\ Len(SubSeq(work.saves, 1, k)) = k
      /\ \A i \in 1 .. k : SubSeq(work.saves, 1, k)[i] = work.saves[i]
  BY <1>2, <1>3
<1> HIDE DEF p
<1>6. /\ w \in Works /\ w.tx = p.tx /\ w.failed = p.failed /\ w.kind = "begin"
      /\ w.saves = SubSeq(work.saves, 1, k)
  BY <1>1, <1>2, <1>4, <1>5 DEF Works
<1> HIDE DEF w
<1>7. ASSUME ~tainted PROVE WorkSound(w)
  <2>1. WorkSound(work)
    BY <1>2, <1>7
  <2>2. \A i \in 1 .. Len(w.saves) : ~w.saves[i].failed => Sound(w.saves[i].tx)
    BY <2>1, <1>2, <1>3, <1>5, <1>6 DEF WorkSound
  <2>3. ~w.failed => Sound(w.tx)
    BY <2>1, <1>3, <1>6 DEF WorkSound, p
  <2> QED BY <2>2, <2>3 DEF WorkSound
<1> QED BY <1>1, <1>6, <1>7, SameVersions

LEMMA ReleaseKeeps ==
    ASSUME SessionInv, NEW c \in Conns, NEW name \in Names, Release(c, name)
    PROVE  SessionInv'
<1> DEFINE k == Position(name) - 1
           w == [work EXCEPT !.saves = SubSeq(@, 1, k)]
<1>1. /\ work # None /\ work.kind = "begin" /\ work' = w /\ Position(name) # 0
      /\ UNCHANGED <<versions, tainted, pin>>
  BY DEF Release, InTransaction
<1>2. /\ work \in Works /\ work.saves \in Seq(Savepoints) /\ Len(work.saves) \in Nat
      /\ (~tainted => WorkSound(work))
  BY <1>1, OpenWork
<1>3. k \in 0 .. Len(work.saves)
  BY <1>1, <1>2, PositionIs
<1> HIDE DEF k
<1>5. /\ SubSeq(work.saves, 1, k) \in Seq(Savepoints)
      /\ Len(SubSeq(work.saves, 1, k)) = k
      /\ \A i \in 1 .. k : SubSeq(work.saves, 1, k)[i] = work.saves[i]
  BY <1>2, <1>3
<1>6. /\ w \in Works /\ w.tx = work.tx /\ w.failed = work.failed /\ w.kind = "begin"
      /\ w.saves = SubSeq(work.saves, 1, k)
  BY <1>1, <1>2, <1>5 DEF Works
<1> HIDE DEF w
<1>7. ASSUME ~tainted PROVE WorkSound(w)
  <2>1. WorkSound(work)
    BY <1>2, <1>7
  <2>2. \A i \in 1 .. Len(w.saves) : ~w.saves[i].failed => Sound(w.saves[i].tx)
    BY <2>1, <1>2, <1>3, <1>5, <1>6 DEF WorkSound
  <2>3. ~w.failed => Sound(w.tx)
    BY <2>1, <1>6 DEF WorkSound
  <2> QED BY <2>2, <2>3 DEF WorkSound
<1> QED BY <1>1, <1>6, <1>7, SameVersions

LEMMA PinKeeps ==
    ASSUME SessionInv, NEW c \in Conns, NEW v \in 1 .. Len(versions), Pin(c, v)
    PROVE  SessionInv'
<1>1. /\ UNCHANGED <<versions, work, tainted>> /\ pin' = [pin EXCEPT ![c] = v]
      /\ HeadTree' = HeadTree
  BY DEF Pin, HeadTree
<1>2. SessionTypes'
  <2>1. Len(versions) \in Nat /\ v \in 0 .. Len(versions)
    BY DEF SessionInv, SessionTypes
  <2> QED BY <1>1, <2>1 DEF SessionInv, SessionTypes
<1>3. SessionSound'
  BY <1>1 DEF SessionInv, SessionSound, WorkSound
<1> QED BY <1>2, <1>3 DEF SessionInv

\* Actions of the readers leave the writer alone.
LEMMA SameWork ==
    ASSUME SessionInv, UNCHANGED <<versions, work, tainted, pin>>
    PROVE  SessionInv'
<1>1. HeadTree' = HeadTree
  BY DEF HeadTree
<1>2. SessionTypes'
  BY DEF SessionInv, SessionTypes
<1>3. SessionSound'
  BY <1>1 DEF SessionInv, SessionSound, WorkSound
<1> QED BY <1>2, <1>3 DEF SessionInv

LEMMA InitSound ==
    ASSUME Init
    PROVE  SessionInv
<1>1. versions = <<EmptyTree>> /\ work = None /\ tainted = FALSE /\ pin = [c \in Conns |-> 0]
  BY DEF Init
<1> DEFINE e == EmptyTree
<1>2. e \in AllTrees /\ Sound(Begun(e))
  BY EmptyTreeIs
<1> HIDE DEF e
<1>3. versions = <<e>>
  BY <1>1 DEF e
<1>4. versions \in Seq(AllTrees) /\ Len(versions) = 1 /\ HeadTree = e
  BY <1>2, <1>3 DEF HeadTree
<1>5. \A c \in Conns : pin[c] \in 0 .. Len(versions)
  BY <1>1, <1>4
<1>6. SessionTypes
  <2>1. Len(versions) # 0
    BY <1>4
  <2>2. tainted \in BOOLEAN
    BY <1>1, Zenon
  <2> QED BY <1>1, <1>4, <1>5, <2>1, <2>2, Zenon DEF SessionTypes
<1>7. SessionSound
  BY <1>1, <1>2, <1>4 DEF SessionSound
<1> QED BY <1>6, <1>7 DEF SessionInv

LEMMA NextSound ==
    ASSUME SessionInv, [Next]_vars
    PROVE  SessionInv'
<1>1. CASE UNCHANGED vars
  BY <1>1, SameWork DEF vars
<1>2. ASSUME NEW c \in Conns, NEW s \in Statements, Autocommit(c, s) PROVE SessionInv'
  <2>1. Executed(s) \in Keeping(SoundTxs)
    BY ExecutedKeeps, StatementsAssumption
  <2> QED BY <1>2, <2>1, AutocommitKeeps DEF Autocommit
<1>3. ASSUME NEW c \in Conns, NEW l \in Loads, BulkInsert(c, l) PROVE SessionInv'
  <2>1. InsertRows(l.on, l.rows) \in Keeping(SoundTxs)
    BY StatementsAssumption, InsertRowsKeeps
  <2> QED BY <1>3, <2>1, AutocommitKeeps DEF BulkInsert
<1>4. ASSUME NEW c \in Conns, Rollback(c) PROVE SessionInv'
  BY <1>4, SameVersions DEF Rollback
<1>5. ASSUME NEW c \in Conns, NEW t \in Tables, NEW w \in Windows,
             NEW v \in 0 .. Len(versions), Query(c, t, w, v)
      PROVE  SessionInv'
  BY <1>5, SameWork DEF Query
<1>6. ASSUME NEW c \in Conns, Fetch(c) PROVE SessionInv'
  BY <1>6, SameWork DEF Fetch
<1> QED BY <1>1, <1>2, <1>3, <1>4, <1>5, <1>6, BeginKeeps, ExecuteKeeps, CommitKeeps,
           SetSavepointKeeps, RollbackToKeeps, ReleaseKeeps, PinKeeps DEF Next

THEOREM SessionIsSound == Spec => []SessionInv
  BY InitSound, NextSound, PTL DEF Spec

\* The trees a reader can reach are those of sound transactions.
LEMMA TreesAreSound ==
    ASSUME SessionInv, NEW tree \in Trees
    PROVE  \E tx \in Txs : /\ Sound(tx) /\ tree.rows = tx.tree.rows
                           /\ tree.entries = tx.tree.entries
                           /\ \A t \in Tables : tree.counter[t] = NextRowid(tx, t)
<1>1. CASE ~tainted /\ tree = HeadTree
  <2>1. Sound(Begun(HeadTree)) /\ HeadTree \in AllTrees /\ Begun(HeadTree) \in Txs
    BY <1>1, HeadIs DEF SessionInv, SessionSound
  <2>2. /\ Begun(HeadTree).tree = HeadTree
        /\ \A t \in Tables : NextRowid(Begun(HeadTree), t) = HeadTree.counter[t]
    BY <2>1, BegunIs
  <2> QED BY <1>1, <2>1, <2>2
<1>2. CASE /\ ~tainted /\ work # None /\ ~work.failed
           /\ tree = [work.tx.tree EXCEPT !.counter = WriteCounters(work.tx).counter]
  <2>1. work.tx \in Txs /\ Sound(work.tx)
    BY <1>2, OpenWork DEF WorkSound
  <2>2. /\ tree.rows = work.tx.tree.rows /\ tree.entries = work.tx.tree.entries
        /\ tree.counter = WriteCounters(work.tx).counter
    BY <1>2, <2>1 DEF Txs, AllTrees
  <2> QED BY <2>1, <2>2, CountersWritten
<1> QED BY <1>1, <1>2 DEF Trees

\* A statement, its cascades and its triggers maintain every index exactly, in
\* any transaction, whatever savepoints and rollbacks surround it.
THEOREM IndexesFollowWrites == Spec => []IndexesMatchRows
<1>1. SessionInv => IndexesMatchRows
  <2> SUFFICES ASSUME SessionInv, NEW tree \in Trees
               PROVE  tree.entries = UNION { UNION { EntriesOf(t, n, tree.rows[t][n]) :
                                           n \in RowidsOf(tree, t) } : t \in Tables }
    BY DEF IndexesMatchRows
  <2>1. PICK tx \in Txs : /\ Sound(tx) /\ tree.rows = tx.tree.rows
                          /\ tree.entries = tx.tree.entries
    BY TreesAreSound
  <2>2. \A t \in Tables : \A n : n \in RowidsOf(tree, t) <=> HasRow(tx, t, n)
    BY <2>1 DEF RowidsOf, HasRow, RowOf
  <2>3. \A t \in Tables, n \in Rowids : tree.rows[t][n] = RowOf(tx, t, n)
    BY <2>1 DEF RowOf
  <2> DEFINE all == UNION { UNION { EntriesOf(t, n, tree.rows[t][n]) :
                                           n \in RowidsOf(tree, t) } : t \in Tables }
  <2>4. ASSUME NEW e \in tree.entries PROVE e \in all
    <3>1. e \in Tables \X Cols \X Values \X Rowids
      BY <2>1, TxParts
    <3>2. PICK t \in Tables, c \in Cols, v \in Values, n \in Rowids : e = <<t, c, v, n>>
      BY <3>1
    <3>3. Held(tx, t, c, v, n)
      <4>1. ExactBut(tx, t, {})
        BY <2>1 DEF Sound
      <4> QED BY <4>1, <3>2, <2>1 DEF ExactBut
    <3>4. PICK i \in 1 .. Len(Indexes[t]) : Indexes[t][i].col = c
      BY <3>3 DEF Held
    <3>5. e = EntryOf(t, i, n, tree.rows[t][n]) /\ n \in RowidsOf(tree, t)
      BY <3>2, <3>3, <3>4, <2>2, <2>3 DEF Held, EntryOf
    <3>6. e \in EntriesOf(t, n, tree.rows[t][n])
      BY <3>5 DEF EntriesOf
    <3> QED BY <3>5, <3>6
  <2>5. ASSUME NEW e \in all PROVE e \in tree.entries
    <3>0. PICK t \in Tables : e \in UNION { EntriesOf(t, n, tree.rows[t][n]) :
                                                n \in RowidsOf(tree, t) }
      OBVIOUS
    <3>1. PICK n \in RowidsOf(tree, t) : e \in EntriesOf(t, n, tree.rows[t][n])
      BY <3>0
    <3>2. PICK i \in 1 .. Len(Indexes[t]) : e = EntryOf(t, i, n, tree.rows[t][n])
      BY <3>1 DEF EntriesOf
    <3>3. HasRow(tx, t, n) /\ n \in Rowids
      BY <3>1, <2>2 DEF RowidsOf
    <3> DEFINE c == Indexes[t][i].col
               v == RowOf(tx, t, n)[c]
    <3>4. e = <<t, c, v, n>>
      BY <3>2, <3>3, <2>3 DEF EntryOf
    <3>5. c \in Cols /\ v \in Values
      BY <3>3, TxParts, IndexTypes
    <3>6. Held(tx, t, c, v, n)
      BY <3>3 DEF Held
    <3>7. ExactBut(tx, t, {})
      BY <2>1 DEF Sound
    <3> HIDE DEF c, v
    <3> QED BY <3>3, <3>4, <3>5, <3>6, <3>7, <2>1 DEF ExactBut
  <2> HIDE DEF all
  <2>6. tree.entries = all
    BY <2>4, <2>5
  <2> QED BY <2>6 DEF all
<1> QED BY <1>1, SessionIsSound, PTL

\* No path writes a second row with a value that a UNIQUE index already holds:
\* not one row, not a batch, not a cascade and not a trigger.
THEOREM UniqueIsKept == Spec => []UniqueHolds
<1>1. SessionInv => UniqueHolds
  <2> SUFFICES ASSUME SessionInv, NEW tree \in Trees, NEW t \in Tables,
                      NEW i \in 1 .. Len(Indexes[t]), Indexes[t][i].unique,
                      NEW m \in RowidsOf(tree, t), NEW n \in RowidsOf(tree, t),
                      tree.rows[t][m][Indexes[t][i].col] = tree.rows[t][n][Indexes[t][i].col],
                      tree.rows[t][m][Indexes[t][i].col] # Null
               PROVE  m = n
    BY DEF UniqueHolds
  <2>1. PICK tx \in Txs : Sound(tx) /\ tree.rows = tx.tree.rows
    BY TreesAreSound
  <2>2. HasRow(tx, t, m) /\ HasRow(tx, t, n) /\ m \in Rowids /\ n \in Rowids
    BY <2>1 DEF RowidsOf, HasRow, RowOf
  <2>3. UniqueBut(tx, t, {})
    BY <2>1 DEF Sound
  <2> QED BY <2>1, <2>2, <2>3 DEF UniqueBut, RowOf
<1> QED BY <1>1, SessionIsSound, PTL

\* The probe that resolve_rowid skips would never have found a row.
THEOREM CountersBound == Spec => []RowidsBelowCounter
<1>1. SessionInv => RowidsBelowCounter
  <2> SUFFICES ASSUME SessionInv, NEW tree \in Trees, NEW t \in Tables
               PROVE  \/ tree.counter[t] = MaxRowid
                      \/ \A n \in RowidsOf(tree, t) : n < tree.counter[t]
    BY DEF RowidsBelowCounter
  <2>1. PICK tx \in Txs : /\ Sound(tx) /\ tree.rows = tx.tree.rows
                          /\ \A u \in Tables : tree.counter[u] = NextRowid(tx, u)
    BY TreesAreSound
  <2>2. \A n \in RowidsOf(tree, t) : n \in Rowids /\ HasRow(tx, t, n)
    BY <2>1 DEF RowidsOf, HasRow, RowOf
  <2> QED BY <2>1, <2>2 DEF Sound, Below
<1> QED BY <1>1, SessionIsSound, PTL

\* Every version and every open transaction have rows of the schema, and only an
\* open BEGIN has savepoints.
THEOREM SessionIsTyped == Spec => []TypeOK
<1>1. SessionInv => TypeOK
  <2> SUFFICES ASSUME SessionInv PROVE TypeOK
    OBVIOUS
  <2>1. work # None => work.tx \in Txs /\ (work.saves # <<>> => work.kind = "begin")
    BY OpenWork
  <2> QED BY <2>1, HeadIs DEF TypeOK, SessionInv, SessionTypes
<1> QED BY <1>1, SessionIsSound, PTL

----------------------------------------------------------------------------
(***************************************************************************)
(* Results.                                                                  *)
(***************************************************************************)
Streams == [kind : {"stream"}, version : Nat, on : Tables, at : Nat, window : Nat \X Nat,
            skip : Nat, remaining : Nat, got : Seq(Nat)]

\* The rows of the snapshot that s reads.
Snapshot(vs, s) == Ascending(RowidsOf(vs[s.version], s.on))

\* s has returned the first rows of its window and stands on the last of them.
StreamOK(vs, s) ==
    /\ s \in Streams /\ s.version \in 1 .. Len(vs)
    /\ Len(s.got) <= s.window[2] /\ s.remaining = s.window[2] - Len(s.got)
    /\ \/ Len(s.got) = 0 /\ s.at = 0 /\ s.skip = s.window[1]
       \/ /\ Len(s.got) # 0 /\ s.skip = 0
          /\ s.window[1] + Len(s.got) <= Len(Snapshot(vs, s))
          /\ s.at = Snapshot(vs, s)[s.window[1] + Len(s.got)]
    /\ \A i \in 1 .. Len(s.got) : s.got[i] = Snapshot(vs, s)[s.window[1] + i]

IsBuffered(r) == "kind" \in DOMAIN r /\ r.kind = "buffered"

RowsInv ==
    /\ DOMAIN rows = Conns
    /\ \A c \in Conns : \/ rows[c] = None
                        \/ IsBuffered(rows[c])
                        \/ StreamOK(versions, rows[c])

\* The rows of a snapshot, in order.
LEMMA SnapshotIs ==
    ASSUME NEW S \in SUBSET Rowids
    PROVE  LET all == Ascending(S) IN
           /\ Len(all) \in Nat /\ all \in Seq(Nat)
           /\ \A i \in 1 .. Len(all) : all[i] \in S /\ all[i] \in Nat /\ all[i] > 0
           /\ \A i, j \in 1 .. Len(all) : i < j => all[i] < all[j]
           /\ \A x \in S : \E i \in 1 .. Len(all) : all[i] = x
<1> DEFINE all == Ascending(S)
           n == Len(all)
<1>1. S \in SUBSET Nat /\ IsFiniteSet(S) /\ \A x \in S : x > 0
  <2>1. IsFiniteSet(Rowids)
    BY FS_Interval, SchemaAssumption DEF Rowids
  <2>2. IsFiniteSet(S)
    BY <2>1, FS_Subset
  <2>3. \A x \in S : x \in Nat /\ x > 0
    BY SchemaAssumption DEF Rowids
  <2> QED BY <2>2, <2>3
<1>2. Enumerates(all, S)
  BY <1>1, SortedNumbersIs DEF Ascending
<1>3. \A i, j \in 1 .. n : i < j => all[i] < all[j]
  BY <1>1, SortedNumbersAscend DEF Ascending
<1>4. all = [k \in 1 .. n |-> all[k]]
  <2> DEFINE d == [x \in S |-> x]
             m == IF Cardinality(S) < Cardinality(S) THEN Cardinality(S) ELSE Cardinality(S)
  <2>1. Cardinality(S) \in Nat
    BY <1>1, FS_CardinalityType
  <2>2. PICK left : LeavesBehind(left, S, d, Cardinality(S), m)
    <3> HIDE DEF d
    <3> QED BY <2>1, LeftAre
  <2>3. all = [k \in 1 .. m |-> Least(left[k - 1], d)]
    BY <2>2 DEF LeavesBehind, Ascending, SortedNumbers
  <2>4. m \in Nat
    BY <2>1
  <2> HIDE DEF m, all
  <2>5. Len(all) = m /\ DOMAIN all = 1 .. m
    BY <2>3, <2>4
  <2> QED BY <2>3, <2>5
<1> HIDE DEF all
<1>5. n \in Nat /\ (\A i \in 1 .. n : all[i] \in S) /\ \A x \in S : \E i \in 1 .. n : all[i] = x
  BY <1>2 DEF Enumerates
<1>6. \A i \in 1 .. n : all[i] \in Nat /\ all[i] > 0
  BY <1>1, <1>5
<1>7. all \in Seq(Nat)
  <2> HIDE DEF n
  <2>1. all \in [1 .. n -> Nat]
    BY <1>4, <1>6
  <2> QED BY <2>1, <1>5
<1> QED BY <1>3, <1>5, <1>6, <1>7 DEF all, n

\* What is ahead of a row of the snapshot begins with the next one.
LEMMA AheadIs ==
    ASSUME NEW S \in SUBSET Rowids, NEW j \in 1 .. Len(Ascending(S))
    PROVE  LET all == Ascending(S)
               ids == Ascending({n \in S : n > all[j]})
           IN  IF j = Len(all) THEN Len(ids) = 0
               ELSE Len(ids) # 0 /\ ids[1] = all[j + 1]
<1> DEFINE all == Ascending(S)
           N == Len(all)
           T == {n \in S : n > all[j]}
           ids == Ascending(T)
<1>1. /\ N \in Nat /\ \A i \in 1 .. N : all[i] \in S /\ all[i] \in Nat
      /\ \A i, k \in 1 .. N : i < k => all[i] < all[k]
      /\ \A x \in S : \E i \in 1 .. N : all[i] = x
  BY SnapshotIs
<1>2. /\ Len(ids) \in Nat /\ \A i \in 1 .. Len(ids) : ids[i] \in T /\ ids[i] \in Nat
      /\ \A i, k \in 1 .. Len(ids) : i < k => ids[i] < ids[k]
      /\ \A x \in T : \E i \in 1 .. Len(ids) : ids[i] = x
  BY SnapshotIs
<1> HIDE DEF all, ids
<1>0. j \in 1 .. N
  BY DEF all
<1> HIDE DEF N
<1>3. \A i \in 1 .. N : all[i] \in T <=> j < i
  <2> SUFFICES ASSUME NEW i \in 1 .. N PROVE all[i] \in T <=> j < i
    OBVIOUS
  <2>1. all[i] \in S /\ all[i] \in Nat /\ all[j] \in Nat
    BY <1>0, <1>1
  <2>2. CASE j < i
    BY <2>1, <2>2, <1>0, <1>1
  <2>3. CASE j = i
    BY <2>1, <2>3
  <2>4. CASE i < j
    BY <2>1, <2>4, <1>0, <1>1
  <2> QED BY <2>2, <2>3, <2>4, <1>0, <1>1
<1>4. ASSUME j = N PROVE Len(ids) = 0
  <2> SUFFICES ASSUME Len(ids) # 0 PROVE FALSE
    OBVIOUS
  <2>1. 1 \in 1 .. Len(ids)
    BY <1>2
  <2>2. ids[1] \in T
    BY <1>2, <2>1
  <2>3. ids[1] \in S
    BY <2>2
  <2>4. PICK i \in 1 .. N : all[i] = ids[1]
    BY <1>1, <2>3
  <2>5. all[i] \in T
    BY <2>2, <2>4
  <2>6. j < i
    BY <1>3, <2>5
  <2> QED BY <2>6, <1>4, <1>1
<1>5. ASSUME j # N PROVE Len(ids) # 0 /\ ids[1] = all[j + 1]
  <2>1. j + 1 \in 1 .. N
    BY <1>0, <1>1, <1>5
  <2>2. all[j + 1] \in T
    BY <1>0, <1>1, <1>3, <2>1
  <2>3. PICK k \in 1 .. Len(ids) : ids[k] = all[j + 1]
    BY <1>2, <2>2
  <2>4. 1 \in 1 .. Len(ids)
    BY <1>2
  <2>5. ids[1] \in T /\ ids[1] \in Nat
    BY <1>2, <2>4
  <2>6. PICK i \in 1 .. N : all[i] = ids[1]
    <3>1. ids[1] \in S
      BY <2>5
    <3> QED BY <1>1, <3>1
  <2>7. j < i
    <3>1. all[i] \in T
      BY <2>5, <2>6
    <3> QED BY <1>3, <3>1
  <2>8. CASE i = j + 1
    BY <2>4, <2>6, <2>8, <1>2
  <2>9. CASE i # j + 1
    <3>1. j + 1 < i
      BY <2>7, <2>9, <1>0, <1>1
    <3>2. all[j + 1] < all[i]
      BY <3>1, <2>1, <1>1
    <3>3. k # 1
      BY <3>2, <2>3, <2>6, <2>1, <1>1
    <3>4. ids[1] < ids[k]
      BY <3>3, <2>4, <1>2
    <3>5. all[i] < all[j + 1] /\ all[i] \in Nat /\ all[j + 1] \in Nat
      BY <3>4, <2>3, <2>6, <2>1, <1>1
    <3> QED BY <3>2, <3>5
  <2> QED BY <2>8, <2>9
<1> QED BY <1>4, <1>5 DEF all, ids, N

LEMMA SubSeqIs ==
    ASSUME NEW all \in Seq(Nat), NEW got \in Seq(Nat), NEW a \in Nat,
           a + Len(got) <= Len(all) \/ Len(got) = 0, NEW m \in Nat,
           IF Len(got) = 0 THEN m <= a ELSE m = a + Len(got),
           \A i \in 1 .. Len(got) : got[i] = all[a + i]
    PROVE  got = SubSeq(all, a + 1, m)
<1> DEFINE g == Len(got)
           sub == SubSeq(all, a + 1, m)
<1>1. got = [i \in 1 .. g |-> got[i]] /\ g \in Nat
  OBVIOUS
<1>2. sub = [i \in 1 .. (1 + m - (a + 1)) |-> all[i + (a + 1) - 1]]
  OBVIOUS
<1> HIDE DEF sub, g
<1>3. 1 .. (1 + m - (a + 1)) = 1 .. g
  BY <1>1 DEF g
<1>4. \A i \in 1 .. g : all[i + (a + 1) - 1] = got[i]
  <2> SUFFICES ASSUME NEW i \in 1 .. g PROVE all[i + (a + 1) - 1] = got[i]
    OBVIOUS
  <2>1. i + (a + 1) - 1 = a + i
    BY <1>1
  <2> QED BY <2>1 DEF g
<1>5. sub = [i \in 1 .. g |-> got[i]]
  BY <1>2, <1>3, <1>4
<1> QED BY <1>1, <1>5 DEF sub

\* One call of next: the end of the window, or its next row.
LEMMA StepIs ==
    ASSUME NEW s, StreamOK(versions, s)
    PROVE  \/ Step(s) = None /\ s.got = Window(Snapshot(versions, s), s.window)
           \/ Step(s) # None /\ StreamOK(versions, Step(s))
<1> DEFINE S == RowidsOf(versions[s.version], s.on)
           all == Ascending(S)
           N == Len(all)
           g == Len(s.got)
           a == s.window[1]
           b == s.window[2]
           ids == Ahead(s)
           L == Len(ids)
           k == s.skip + 1
           x == ids[k]
           t == [s EXCEPT !.at = x, !.skip = 0, !.remaining = @ - 1, !.got = Append(@, x)]
           m == IF a + b < N THEN a + b ELSE N
<1>1. Step(s) = IF s.remaining = 0 \/ L < k THEN None ELSE t
  BY DEF Step
<1>2. /\ s \in Streams /\ s.version \in 1 .. Len(versions) /\ g <= b /\ s.remaining = b - g
      /\ \/ g = 0 /\ s.at = 0 /\ s.skip = a
         \/ g # 0 /\ s.skip = 0 /\ a + g <= N /\ s.at = all[a + g]
      /\ \A i \in 1 .. g : s.got[i] = all[a + i]
  BY DEF StreamOK, Snapshot
<1>3. a \in Nat /\ b \in Nat /\ g \in Nat /\ s.got \in Seq(Nat) /\ s.at \in Nat /\ s.skip \in Nat
  BY <1>2 DEF Streams
<1>4. Snapshot(versions, s) = all /\ Window(all, s.window) = SubSeq(all, a + 1, m)
  BY DEF Snapshot, Window
<1>5. S \in SUBSET Rowids
  BY DEF RowidsOf
<1>6. ids = Ascending({n \in S : n > s.at})
  BY DEF Ahead
<1>7. N \in Nat /\ all \in Seq(Nat) /\ \A i \in 1 .. N : all[i] \in Nat
  <2> HIDE DEF S
  <2> QED BY <1>5, SnapshotIs
<1>8. L \in Nat
  <2> DEFINE R == {n \in S : n > s.at}
  <2>1. R \in SUBSET Rowids
    BY <1>5
  <2> HIDE DEF R
  <2> QED BY <2>1, <1>6, SnapshotIs DEF R
<1>9. k = s.skip + 1 /\ L = Len(ids) /\ N = Len(all) /\ g = Len(s.got)
  OBVIOUS
<1>10. m \in Nat /\ m = (IF a + b < N THEN a + b ELSE N)
  BY <1>3, <1>7
<1>11. x = ids[k] /\ s.window[1] = a /\ s.window[2] = b
  OBVIOUS
<1> HIDE DEF S, all, N, g, a, b, ids, L, k, x, m
<1>12. ASSUME g = 0 PROVE ids = all /\ L = N /\ k = a + 1
  <2>1. s.at = 0 /\ s.skip = a
    BY <1>2, <1>12
  <2>2. \A n \in S : n > 0
    BY <1>5, SchemaAssumption DEF Rowids
  <2>3. {n \in S : n > 0} = S
    BY <2>2
  <2>4. ids = all
    BY <2>1, <2>3, <1>6 DEF all
  <2> QED BY <2>1, <2>4, <1>9
<1>13. ASSUME g # 0
       PROVE  /\ k = 1 /\ a + g \in 1 .. N
              /\ IF a + g = N THEN L = 0 ELSE L # 0 /\ ids[1] = all[a + g + 1]
  <2>1. s.skip = 0 /\ a + g <= N /\ s.at = all[a + g]
    BY <1>2, <1>13
  <2>2. k = 1 /\ a + g \in 1 .. N
    BY <2>1, <1>3, <1>7, <1>9, <1>13
  <2> DEFINE j == a + g
  <2> HIDE DEF j
  <2>3. j \in 1 .. Len(Ascending(S)) /\ ids = Ascending({n \in S : n > Ascending(S)[j]})
    BY <2>1, <2>2, <1>6, <1>9 DEF j, all
  <2>4. IF j = N THEN L = 0 ELSE L # 0 /\ ids[1] = all[j + 1]
    BY <2>3, <1>5, <1>9, AheadIs DEF all
  <2> QED BY <2>2, <2>4 DEF j
<1>14. ASSUME s.remaining = 0 \/ L < k
       PROVE  s.got = SubSeq(all, a + 1, m)
  <2>1. g = b \/ L < k
    BY <1>2, <1>3, <1>14
  <2>2. IF g = 0 THEN m <= a ELSE m = a + g
    <3>1. CASE g = 0
      <4>1. b = 0 \/ N < a + 1
        BY <3>1, <2>1, <1>12
      <4> QED BY <3>1, <4>1, <1>3, <1>7, <1>10
    <3>2. CASE g # 0
      <4>1. g = b \/ a + g = N
        BY <3>2, <2>1, <1>8, <1>13
      <4>2. a + g <= N /\ g <= b
        BY <3>2, <1>2
      <4> QED BY <4>1, <4>2, <3>2, <1>3, <1>7, <1>10
    <3> QED BY <3>1, <3>2
  <2>3. a + Len(s.got) <= Len(all) \/ Len(s.got) = 0
    BY <1>2, <1>9
  <2>4. IF Len(s.got) = 0 THEN m <= a ELSE m = a + Len(s.got)
    BY <2>2, <1>9
  <2>5. \A i \in 1 .. Len(s.got) : s.got[i] = all[a + i]
    BY <1>2, <1>9
  <2> QED BY <2>3, <2>4, <2>5, <1>3, <1>7, <1>10, SubSeqIs
<1>15. ASSUME s.remaining # 0, ~(L < k)
       PROVE  t # None /\ StreamOK(versions, t)
  <2>1. g < b
    BY <1>2, <1>3, <1>15
  <2>2. a + g + 1 \in 1 .. N /\ x = all[a + g + 1]
    <3>1. CASE g = 0
      <4>1. ids = all /\ L = N /\ k = a + 1
        BY <3>1, <1>12
      <4>2. a + g + 1 = a + 1 /\ a + 1 \in 1 .. N
        BY <3>1, <4>1, <1>3, <1>7, <1>15
      <4> QED BY <4>1, <4>2, <1>11
    <3>2. CASE g # 0
      <4>1. k = 1 /\ a + g \in 1 .. N /\ a + g # N
        BY <3>2, <1>8, <1>13, <1>15
      <4>2. x = all[a + g + 1]
        BY <3>2, <4>1, <1>11, <1>13
      <4>3. a + g + 1 \in 1 .. N
        BY <4>1, <1>3, <1>7
      <4> QED BY <4>2, <4>3
    <3> QED BY <3>1, <3>2
  <2> DEFINE q == Append(s.got, x)
             r == s.remaining - 1
  <2>3. t = [s EXCEPT !.at = x, !.skip = 0, !.remaining = r, !.got = q]
    OBVIOUS
  <2>4. x \in Nat
    BY <2>2, <1>7
  <2>5. /\ q \in Seq(Nat) /\ Len(q) = g + 1 /\ q[g + 1] = x
        /\ \A i \in 1 .. g : q[i] = s.got[i]
    BY <2>4, <1>3, <1>9
  <2>6. r \in Nat /\ r = b - (g + 1)
    BY <2>1, <1>2, <1>3
  <2> HIDE DEF q, r, t
  <2>7. /\ t \in Streams /\ t.version = s.version /\ t.on = s.on /\ t.window = s.window
        /\ t.at = x /\ t.skip = 0 /\ t.remaining = r /\ t.got = q
    BY <2>3, <2>4, <2>5, <2>6, <1>2 DEF Streams
  <2>8. Snapshot(versions, t) = all
    BY <2>7, <1>4 DEF Snapshot
  <2>9. t # None
    <3>1. "kind" \in DOMAIN t
      BY <2>7 DEF Streams
    <3>2. "kind" \notin DOMAIN None
      BY DEF None
    <3> QED BY <3>1, <3>2
  <2>10. \A i \in 1 .. Len(t.got) : t.got[i] = all[a + i]
    <3> SUFFICES ASSUME NEW i \in 1 .. Len(t.got) PROVE t.got[i] = all[a + i]
      OBVIOUS
    <3>1. t.got = q /\ i \in 1 .. g + 1
      BY <2>5, <2>7
    <3>2. CASE i = g + 1
      <4>1. a + (g + 1) = a + g + 1
        BY <1>3
      <4> QED BY <3>1, <3>2, <4>1, <2>2, <2>5
    <3>3. CASE i # g + 1
      <4>1. i \in 1 .. g
        BY <3>1, <3>3, <1>3
      <4> QED BY <3>1, <4>1, <2>5, <1>2
    <3> QED BY <3>2, <3>3
  <2>11. Len(t.got) = g + 1 /\ a + (g + 1) = a + g + 1
    BY <2>5, <2>7, <1>3
  <2>12. t.window[1] = a /\ t.window[2] = b /\ t.version \in 1 .. Len(versions)
    BY <2>7, <1>2, <1>11
  <2>13. Len(t.got) <= t.window[2] /\ t.remaining = t.window[2] - Len(t.got)
    BY <2>1, <2>6, <2>7, <2>11, <2>12, <1>3
  <2>14. /\ Len(t.got) # 0 /\ t.skip = 0
         /\ t.window[1] + Len(t.got) <= Len(Snapshot(versions, t))
         /\ t.at = Snapshot(versions, t)[t.window[1] + Len(t.got)]
    BY <2>2, <2>7, <2>8, <2>11, <2>12, <1>3, <1>7, <1>9
  <2> QED BY <2>7, <2>8, <2>9, <2>10, <2>12, <2>13, <2>14 DEF StreamOK
<1> HIDE DEF t
<1> QED BY <1>1, <1>4, <1>14, <1>15

\* Publishing adds a version and leaves the others.
LEMMA PublishAdds ==
    ASSUME SessionInv, NEW tx, Publish(tx)
    PROVE  /\ Len(versions') \in Nat /\ Len(versions) <= Len(versions')
           /\ \A v \in 1 .. Len(versions) : versions'[v] = versions[v]
<1>1. versions \in Seq(AllTrees)
  BY DEF SessionInv, SessionTypes
<1>2. CASE Publishes(tx)
  <2> DEFINE e == WriteCounters(tx)
             S == AllTrees \union {e}
  <2>1. versions' = Append(versions, e)
    BY <1>2 DEF Publish
  <2> HIDE DEF e
  <2>2. versions \in Seq(S) /\ e \in S
    BY <1>1
  <2> HIDE DEF S
  <2> QED BY <2>1, <2>2
<1>3. CASE ~Publishes(tx)
  BY <1>1, <1>3 DEF Publish
<1> QED BY <1>2, <1>3

\* No step changes a version that exists.
LEMMA VersionsStay ==
    ASSUME SessionInv, [Next]_vars
    PROVE  /\ Len(versions') \in Nat /\ Len(versions) <= Len(versions')
           /\ \A v \in 1 .. Len(versions) : versions'[v] = versions[v]
<1>1. CASE versions' = versions
  BY <1>1 DEF SessionInv, SessionTypes
<1>2. ASSUME NEW c \in Conns, NEW r, AutocommitWith(c, r)
      PROVE  versions' = versions \/ \E tx : Publish(tx)
  BY <1>2 DEF AutocommitWith, CommitOrDrop
<1>3. ASSUME NEW c \in Conns, NEW s \in Statements, Autocommit(c, s)
      PROVE  versions' = versions \/ \E tx : Publish(tx)
  BY <1>2, <1>3 DEF Autocommit
<1>4. ASSUME NEW c \in Conns, NEW l \in Loads, BulkInsert(c, l)
      PROVE  versions' = versions \/ \E tx : Publish(tx)
  BY <1>2, <1>4 DEF BulkInsert
<1>5. ASSUME NEW c \in Conns, Commit(c)
      PROVE  versions' = versions \/ \E tx : Publish(tx)
  BY <1>5 DEF Commit
<1>6. ASSUME NEW c \in Conns, NEW kind \in {"begin", "object"}, Begin(c, kind)
      PROVE  versions' = versions
  BY <1>6 DEF Begin
<1>7. ASSUME NEW c \in Conns, NEW s \in Statements, Execute(c, s) PROVE versions' = versions
  BY <1>7 DEF Execute
<1>8. ASSUME NEW c \in Conns, NEW n \in Names,
             SetSavepoint(c, n) \/ RollbackTo(c, n) \/ Release(c, n)
      PROVE  versions' = versions
  BY <1>8 DEF SetSavepoint, RollbackTo, Release
<1>9. ASSUME NEW c \in Conns, Rollback(c) \/ Fetch(c) \/ \E v \in 1 .. Len(versions) : Pin(c, v)
      PROVE  versions' = versions
  BY <1>9 DEF Rollback, Fetch, Pin
<1>10. ASSUME NEW c \in Conns, NEW t \in Tables, NEW w \in Windows,
              NEW v \in 0 .. Len(versions), Query(c, t, w, v)
       PROVE  versions' = versions
  BY <1>10 DEF Query
<1>11. UNCHANGED vars => versions' = versions
  BY DEF vars
<1>12. versions' = versions \/ \E tx : Publish(tx)
  BY <1>3, <1>4, <1>5, <1>6, <1>7, <1>8, <1>9, <1>10, <1>11 DEF Next
<1> QED BY <1>1, <1>12, PublishAdds

\* A stream does not see what is committed after it began.
LEMMA StreamStays ==
    ASSUME NEW s, StreamOK(versions, s), SessionInv, [Next]_vars
    PROVE  StreamOK(versions', s)
<1>1. s \in Streams /\ s.version \in 1 .. Len(versions)
  BY DEF StreamOK
<1>2. versions'[s.version] = versions[s.version] /\ s.version \in 1 .. Len(versions')
  <2>1. Len(versions) \in Nat
    BY DEF SessionInv, SessionTypes
  <2> QED BY <1>1, <2>1, VersionsStay
<1>3. Snapshot(versions', s) = Snapshot(versions, s)
  BY <1>2 DEF Snapshot
<1> QED BY <1>2, <1>3 DEF StreamOK

\* A query starts before the first row of its window.
LEMMA QueryStarts ==
    ASSUME SessionInv, NEW c \in Conns, NEW t \in Tables, NEW w \in Windows,
           NEW asOf \in 0 .. Len(versions)
    PROVE  StreamOK(versions, Streaming(Source(c, asOf), t, w))
<1> DEFINE v == Source(c, asOf)
           s == Streaming(v, t, w)
<1>1. v \in 1 .. Len(versions) /\ v \in Nat
  <2>1. Len(versions) \in Nat /\ Len(versions) # 0 /\ pin[c] \in 0 .. Len(versions)
    BY DEF SessionInv, SessionTypes
  <2>2. CASE pin[c] # 0
    BY <2>1, <2>2 DEF Source
  <2>3. CASE pin[c] = 0 /\ asOf # 0
    BY <2>1, <2>3 DEF Source
  <2>4. CASE pin[c] = 0 /\ asOf = 0
    BY <2>1, <2>4 DEF Source
  <2> QED BY <2>2, <2>3, <2>4
<1> HIDE DEF v
<1>2. w \in Nat \X Nat /\ w[1] \in Nat /\ w[2] \in Nat
  BY StatementsAssumption
<1>3. /\ s.version = v /\ s.at = 0 /\ s.window = w /\ s.skip = w[1] /\ s.remaining = w[2]
      /\ s.got = <<>>
  BY DEF Streaming
<1>4. s \in Streams
  <2>1. <<>> \in Seq(Nat)
    OBVIOUS
  <2> QED BY <1>1, <1>2, <2>1 DEF Streaming, Streams
<1> HIDE DEF s
<1>5. Len(s.got) = 0
  BY <1>3
<1>6. \A i \in 1 .. Len(s.got) : s.got[i] = Snapshot(versions, s)[s.window[1] + i]
  BY <1>5
<1>7. Len(s.got) <= s.window[2] /\ s.remaining = s.window[2] - Len(s.got)
  BY <1>2, <1>3, <1>5
<1>8. StreamOK(versions, s)
  BY <1>1, <1>3, <1>4, <1>5, <1>6, <1>7 DEF StreamOK
<1> QED BY <1>8 DEF s, v

\* Steps that leave the iterators alone.
LEMMA SameRows ==
    ASSUME SessionInv, RowsInv, [Next]_vars, rows' = rows
    PROVE  RowsInv'
<1>1. \A c \in Conns : StreamOK(versions, rows[c]) => StreamOK(versions', rows[c])
  BY StreamStays
<1> QED BY <1>1 DEF RowsInv

LEMMA QueryKeepsRows ==
    ASSUME SessionInv, RowsInv, NEW c \in Conns, NEW t \in Tables, NEW w \in Windows,
           NEW asOf \in 0 .. Len(versions), Query(c, t, w, asOf)
    PROVE  RowsInv' /\ rows[c] = None /\ \A d \in Conns \ {c} : rows'[d] = rows[d]
<1> DEFINE r == IF asOf = 0 /\ InTransaction(c) THEN Buffered(t, w)
                ELSE Streaming(Source(c, asOf), t, w)
<1>1. rows' = [rows EXCEPT ![c] = r] /\ versions' = versions /\ rows[c] = None
  BY DEF Query
<1>2. IsBuffered(r) \/ StreamOK(versions, r)
  <2>1. CASE asOf = 0 /\ InTransaction(c)
    <3>1. r = Buffered(t, w)
      BY <2>1
    <3> QED BY <3>1 DEF IsBuffered, Buffered
  <2>2. CASE ~(asOf = 0 /\ InTransaction(c))
    BY <2>2, QueryStarts
  <2> QED BY <2>1, <2>2
<1> HIDE DEF r
<1>3. DOMAIN rows' = Conns /\ rows'[c] = r /\ \A d \in Conns \ {c} : rows'[d] = rows[d]
  BY <1>1 DEF RowsInv
<1>4. RowsInv'
  BY <1>1, <1>2, <1>3 DEF RowsInv, IsBuffered
<1> QED BY <1>1, <1>3, <1>4

LEMMA FetchKeepsRows ==
    ASSUME SessionInv, RowsInv, NEW c \in Conns, Fetch(c)
    PROVE  /\ RowsInv' /\ \A d \in Conns \ {c} : rows'[d] = rows[d]
           /\ rows[c].kind = "stream" /\ rows'[c] = None =>
                  rows[c].got = Window(Snapshot(versions, rows[c]), rows[c].window)
<1> DEFINE s == rows[c]
           b == [s EXCEPT !.left = Tail(@), !.got = Append(@, Head(s.left))]
           r == IF s.kind = "stream" THEN Step(s) ELSE Pop(s)
<1>1. rows' = [rows EXCEPT ![c] = r] /\ versions' = versions /\ s # None /\ DOMAIN rows = Conns
  BY DEF Fetch, RowsInv
<1>2. IsBuffered(s) \/ StreamOK(versions, s)
  BY <1>1 DEF RowsInv, IsBuffered
<1>3. /\ r = None \/ IsBuffered(r) \/ StreamOK(versions, r)
      /\ s.kind = "stream" /\ r = None => s.got = Window(Snapshot(versions, s), s.window)
  <2>1. CASE StreamOK(versions, s)
    <3>1. s.kind = "stream"
      BY <2>1 DEF StreamOK, Streams
    <3>2. r = Step(s)
      BY <3>1
    <3> HIDE DEF s, r
    <3> QED BY <2>1, <3>2, StepIs
  <2>2. CASE IsBuffered(s)
    <3>1. s.kind # "stream" /\ s.kind = "buffered" /\ "kind" \in DOMAIN s
      BY <2>2 DEF IsBuffered
    <3>2. r = None \/ r = b
      BY <3>1 DEF Pop
    <3>3. IsBuffered(b)
      BY <3>1 DEF IsBuffered
    <3> HIDE DEF s, b, r
    <3> QED BY <3>1, <3>2, <3>3
  <2> QED BY <1>2, <2>1, <2>2
<1>4. s = rows[c]
  OBVIOUS
<1> HIDE DEF r, s, b
<1>5. DOMAIN rows' = Conns /\ rows'[c] = r /\ \A d \in Conns \ {c} : rows'[d] = rows[d]
  BY <1>1
<1>6. RowsInv'
  BY <1>1, <1>3, <1>5 DEF RowsInv, IsBuffered
<1> QED BY <1>3, <1>4, <1>5, <1>6

\* What a step ends, and what it leaves of the iterators.
LEMMA ReadersKeep ==
    ASSUME SessionInv, RowsInv, [Next]_vars
    PROVE  /\ RowsInv'
           /\ \A c \in Conns :
                 (rows[c] # None /\ rows[c].kind = "stream" /\ rows'[c] = None) =>
                     rows[c].got = Window(Snapshot(versions, rows[c]), rows[c].window)
<1>1. CASE rows' = rows
  BY <1>1, SameRows
<1>2. ASSUME NEW c \in Conns, NEW s \in Statements, Autocommit(c, s) \/ Execute(c, s)
      PROVE  rows' = rows
  BY <1>2 DEF Autocommit, AutocommitWith, Execute
<1>3. ASSUME NEW c \in Conns, NEW l \in Loads, BulkInsert(c, l) PROVE rows' = rows
  BY <1>3 DEF BulkInsert, AutocommitWith
<1>4. ASSUME NEW c \in Conns, NEW kind \in {"begin", "object"}, Begin(c, kind) PROVE rows' = rows
  BY <1>4 DEF Begin
<1>5. ASSUME NEW c \in Conns, Commit(c) \/ Rollback(c) \/ \E v \in 1 .. Len(versions) : Pin(c, v)
      PROVE  rows' = rows
  BY <1>5 DEF Commit, Rollback, Pin
<1>6. ASSUME NEW c \in Conns, NEW n \in Names,
             SetSavepoint(c, n) \/ RollbackTo(c, n) \/ Release(c, n)
      PROVE  rows' = rows
  BY <1>6 DEF SetSavepoint, RollbackTo, Release
<1>7. UNCHANGED vars => rows' = rows
  BY DEF vars
<1>8. ASSUME NEW d \in Conns, NEW t \in Tables, NEW w \in Windows,
             NEW v \in 0 .. Len(versions), Query(d, t, w, v)
      PROVE  /\ RowsInv'
             /\ \A c \in Conns : rows[c] = None \/ rows'[c] = rows[c]
  BY <1>8, QueryKeepsRows
<1>9. ASSUME NEW d \in Conns, Fetch(d)
      PROVE  /\ RowsInv'
             /\ \A c \in Conns : \/ rows'[c] = rows[c]
                                 \/ (rows[c].kind = "stream" /\ rows'[c] = None) =>
                                       rows[c].got = Window(Snapshot(versions, rows[c]),
                                                            rows[c].window)
  BY <1>9, FetchKeepsRows
<1> QED BY <1>1, <1>2, <1>3, <1>4, <1>5, <1>6, <1>7, <1>8, <1>9 DEF Next

\* A streamed query that has come to its end has returned exactly the rows of its
\* window in the snapshot it started from, whatever was committed since.
THEOREM StreamsAreExact == Spec => StreamExact
<1>1. Init => RowsInv
  BY DEF Init, RowsInv
<1>2. SessionInv /\ RowsInv /\ [Next]_vars =>
          [\A c \in Conns :
              (rows[c] # None /\ rows[c].kind = "stream" /\ rows'[c] = None) =>
                  rows[c].got = Window(Ascending(RowidsOf(versions[rows[c].version], rows[c].on)),
                                       rows[c].window)]_vars
  BY ReadersKeep DEF Snapshot
<1>3. SessionInv /\ RowsInv /\ [Next]_vars => RowsInv'
  BY ReadersKeep
<1> QED BY <1>1, <1>2, <1>3, SessionIsSound, PTL DEF Spec, StreamExact
=============================================================================
