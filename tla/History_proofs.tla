--------------------------- MODULE History_proofs ---------------------------
(***************************************************************************)
(* Proofs about History, for any number of branches, versions, rows and    *)
(* vacuums.                                                                *)
(***************************************************************************)
EXTENDS History, NatLemmas

----------------------------------------------------------------------------
(***************************************************************************)
(* The walks over versions.                                                *)
(***************************************************************************)
\* Naturals among the constants.
LEMMA Constants ==
    /\ MaxVersion \in Nat /\ MaxRow \in Nat /\ MaxValue \in Nat /\ MaxVacuums \in Nat
    /\ Times \subseteq Nat /\ Main \in Branches
  BY BoundsAssumption, TimesAssumption, MainAssumption

\* The recorded parent of a version is older.
ParentsOlder == \A v \in Versions : Retained(v) => hist[v].parent \in 0 .. v - 1

\* One step of the walk over recorded parents.
LEMMA WalkAt ==
    ASSUME ParentsOlder, NEW v \in 0 .. MaxVersion
    PROVE  /\ v = 0 => Walk(v) = {0}
           /\ v # 0 /\ ~Retained(v) => Walk(v) = {v, -1}
           /\ Retained(v) => Walk(v) = {v} \cup Walk(hist[v].parent)
<1> DEFINE E(g, u) == IF u = 0 THEN {0}
                      ELSE IF ~Retained(u) THEN {u, -1}
                      ELSE {u} \cup g[hist[u].parent]
           W == CHOOSE g : g = [u \in 0 .. MaxVersion |-> E(g, u)]
<1>1. \A u : Walk(u) = W[u]
  BY DEF Walk
<1>2. \E g : g = [u \in 0 .. MaxVersion |-> E(g, u)]
  <2> DEFINE stop == {u \in 0 .. MaxVersion : u = 0 \/ ~Retained(u)}
             base == [u \in 0 .. MaxVersion |-> IF u = 0 THEN {0} ELSE {u, -1}]
             next == [u \in 0 .. MaxVersion |-> hist[u].parent]
             F(g, u) == IF u \in stop THEN base[u] ELSE {u} \cup g[next[u]]
  <2>1. \A u \in 0 .. MaxVersion : u \notin stop => next[u] \in 0 .. u - 1
    BY DEF ParentsOlder, Retained
  <2>2. \A g : \A u \in 0 .. MaxVersion : F(g, u) = E(g, u)
    OBVIOUS
  <2>3. \E V : \E g \in [0 .. MaxVersion -> V] : \A u \in 0 .. MaxVersion : g[u] = F(g, u)
    <3>1. Descends(MaxVersion, stop, next)
      BY <2>1 DEF Descends
    <3> HIDE DEF stop, base, next
    <3>2. Collects(MaxVersion, stop, base, next)
      BY <3>1, CollectExists, Constants
    <3> QED BY <3>2 DEF Collects
  <2>4. PICK V : \E g \in [0 .. MaxVersion -> V] : \A u \in 0 .. MaxVersion : g[u] = F(g, u)
    <3> HIDE DEF F
    <3> QED BY <2>3
  <2> HIDE DEF E, F
  <2>5. PICK g \in [0 .. MaxVersion -> V] : \A u \in 0 .. MaxVersion : g[u] = F(g, u)
    BY <2>4
  <2>6. g = [u \in 0 .. MaxVersion |-> E(g, u)]
    BY <2>2, <2>5
  <2> QED BY <2>6
<1> HIDE DEF E
<1>3. W = [u \in 0 .. MaxVersion |-> E(W, u)]
  BY <1>2
<1> HIDE DEF W
<1>4. W[v] = E(W, v)
  BY <1>3
<1> QED BY <1>1, <1>4 DEF E, Retained, Versions

\* The same walk over the parents as they were published.
OriginsOlder == \A v \in Versions : origin[v] \in 0 .. v - 1

\* One step of it.
LEMMA LineageAt ==
    ASSUME OriginsOlder, NEW v \in 0 .. MaxVersion
    PROVE  /\ v = 0 => Lineage(v) = {0}
           /\ v # 0 => Lineage(v) = {v} \cup Lineage(origin[v])
<1> DEFINE E(g, u) == IF u = 0 THEN {0} ELSE {u} \cup g[origin[u]]
           W == CHOOSE g : g = [u \in 0 .. MaxVersion |-> E(g, u)]
<1>1. \A u : Lineage(u) = W[u]
  BY DEF Lineage
<1>2. \E g : g = [u \in 0 .. MaxVersion |-> E(g, u)]
  <2> DEFINE stop == {0}
             base == [u \in 0 .. MaxVersion |-> {0}]
             next == [u \in 0 .. MaxVersion |-> origin[u]]
             F(g, u) == IF u \in stop THEN base[u] ELSE {u} \cup g[next[u]]
  <2>1. \A u \in 0 .. MaxVersion : u \notin stop => next[u] \in 0 .. u - 1
    BY Constants DEF OriginsOlder, Versions
  <2>2. \A g : \A u \in 0 .. MaxVersion : F(g, u) = E(g, u)
    OBVIOUS
  <2>3. \E V : \E g \in [0 .. MaxVersion -> V] : \A u \in 0 .. MaxVersion : g[u] = F(g, u)
    <3>1. Descends(MaxVersion, stop, next)
      BY <2>1 DEF Descends
    <3> HIDE DEF stop, base, next
    <3>2. Collects(MaxVersion, stop, base, next)
      BY <3>1, CollectExists, Constants
    <3> QED BY <3>2 DEF Collects
  <2>4. PICK V : \E g \in [0 .. MaxVersion -> V] : \A u \in 0 .. MaxVersion : g[u] = F(g, u)
    <3> HIDE DEF F
    <3> QED BY <2>3
  <2> HIDE DEF E, F
  <2>5. PICK g \in [0 .. MaxVersion -> V] : \A u \in 0 .. MaxVersion : g[u] = F(g, u)
    BY <2>4
  <2>6. g = [u \in 0 .. MaxVersion |-> E(g, u)]
    BY <2>2, <2>5
  <2> QED BY <2>6
<1> HIDE DEF E
<1>3. W = [u \in 0 .. MaxVersion |-> E(W, u)]
  BY <1>2
<1> HIDE DEF W
<1>4. W[v] = E(W, v)
  BY <1>3
<1> QED BY <1>1, <1>4 DEF E

\* One step of the search for the merge base.
LEMMA MergeBaseAt ==
    ASSUME ParentsOlder, NEW f \in 0 .. MaxVersion, NEW v \in 0 .. MaxVersion
    PROVE  MergeBase(f, v) = IF v \in Walk(f) \/ ~Retained(v) THEN v
                             ELSE MergeBase(f, hist[v].parent)
<1> DEFINE E(g, u) == IF u \in Walk(f) \/ ~Retained(u) THEN u ELSE g[hist[u].parent]
           W == CHOOSE g : g = [u \in 0 .. MaxVersion |-> E(g, u)]
<1>1. \A u : MergeBase(f, u) = W[u]
  BY DEF MergeBase
<1>2. \E g : g = [u \in 0 .. MaxVersion |-> E(g, u)]
  <2> DEFINE stop == {u \in 0 .. MaxVersion : u \in Walk(f) \/ ~Retained(u)}
             next == [u \in 0 .. MaxVersion |-> hist[u].parent]
             F(g, u) == IF u \in stop THEN u ELSE g[next[u]]
  <2>1. \A u \in 0 .. MaxVersion : u \notin stop => next[u] \in 0 .. u - 1
    BY DEF ParentsOlder, Retained
  <2>2. \A g : \A u \in 0 .. MaxVersion : F(g, u) = E(g, u)
    OBVIOUS
  <2>3. \E V : \E g \in [0 .. MaxVersion -> V] : \A u \in 0 .. MaxVersion : g[u] = F(g, u)
    <3>1. Descends(MaxVersion, stop, next)
      BY <2>1 DEF Descends
    <3> HIDE DEF stop, next
    <3>2. Seeks(MaxVersion, stop, next)
      BY <3>1, SeekExists, Constants
    <3> QED BY <3>2 DEF Seeks
  <2>4. PICK V : \E g \in [0 .. MaxVersion -> V] : \A u \in 0 .. MaxVersion : g[u] = F(g, u)
    <3> HIDE DEF F
    <3> QED BY <2>3
  <2> HIDE DEF E, F
  <2>5. PICK g \in [0 .. MaxVersion -> V] : \A u \in 0 .. MaxVersion : g[u] = F(g, u)
    BY <2>4
  <2>6. g = [u \in 0 .. MaxVersion |-> E(g, u)]
    BY <2>2, <2>5
  <2> QED BY <2>6
<1> HIDE DEF E
<1>3. W = [u \in 0 .. MaxVersion |-> E(W, u)]
  BY <1>2
<1> HIDE DEF W
<1>4. W[v] = E(W, v)
  BY <1>3
<1> QED BY <1>1, <1>4 DEF E

\* The version AS OF TIMESTAMP t finds from v.
Until(v, t) ==
    LET w[u \in 0 .. MaxVersion] ==
            IF u = 0 \/ hist[u].ts <= t THEN u ELSE w[hist[u].parent]
    IN w[v]

\* One step of the walk to a timestamp.
LEMMA UntilAt ==
    ASSUME NEW t, NEW v \in 0 .. MaxVersion,
           \A u \in Versions : hist[u].ts <= t \/ hist[u].parent \in 0 .. u - 1
    PROVE  Until(v, t) = IF v = 0 \/ hist[v].ts <= t THEN v ELSE Until(hist[v].parent, t)
<1> DEFINE E(g, u) == IF u = 0 \/ hist[u].ts <= t THEN u ELSE g[hist[u].parent]
           W == CHOOSE g : g = [u \in 0 .. MaxVersion |-> E(g, u)]
<1>1. \A u : Until(u, t) = W[u]
  BY DEF Until
<1>2. \E g : g = [u \in 0 .. MaxVersion |-> E(g, u)]
  <2> DEFINE stop == {u \in 0 .. MaxVersion : u = 0 \/ hist[u].ts <= t}
             next == [u \in 0 .. MaxVersion |-> hist[u].parent]
             F(g, u) == IF u \in stop THEN u ELSE g[next[u]]
  <2>1. \A u \in 0 .. MaxVersion : u \notin stop => next[u] \in 0 .. u - 1
    BY Constants DEF Versions
  <2>2. \A g : \A u \in 0 .. MaxVersion : F(g, u) = E(g, u)
    OBVIOUS
  <2>3. \E V : \E g \in [0 .. MaxVersion -> V] : \A u \in 0 .. MaxVersion : g[u] = F(g, u)
    <3>1. Descends(MaxVersion, stop, next)
      BY <2>1 DEF Descends
    <3> HIDE DEF stop, next
    <3>2. Seeks(MaxVersion, stop, next)
      BY <3>1, SeekExists, Constants
    <3> QED BY <3>2 DEF Seeks
  <2>4. PICK V : \E g \in [0 .. MaxVersion -> V] : \A u \in 0 .. MaxVersion : g[u] = F(g, u)
    <3> HIDE DEF F
    <3> QED BY <2>3
  <2> HIDE DEF E, F
  <2>5. PICK g \in [0 .. MaxVersion -> V] : \A u \in 0 .. MaxVersion : g[u] = F(g, u)
    BY <2>4
  <2>6. g = [u \in 0 .. MaxVersion |-> E(g, u)]
    BY <2>2, <2>5
  <2> QED BY <2>6
<1> HIDE DEF E
<1>3. W = [u \in 0 .. MaxVersion |-> E(W, u)]
  BY <1>2
<1> HIDE DEF W
<1>4. W[v] = E(W, v)
  BY <1>3
<1> QED BY <1>1, <1>4 DEF E

\* One step of the replay of a vacuum.
LEMMA ReplayAt ==
    ASSUME version \in Nat, NEW k \in Nat, k <= version, NEW v \in k .. version
    PROVE  /\ v = k => Replay(k)[v] = Root(hist[k].tree, k)
           /\ v # k /\ DOMAIN Diff(hist[v - 1].tree, hist[v].tree) = {} =>
                 Replay(k)[v] = Replay(k)[v - 1]
           /\ v # k /\ DOMAIN Diff(hist[v - 1].tree, hist[v].tree) # {} =>
                 Replay(k)[v] = Root(Apply(Replay(k)[v - 1].tree,
                                           Diff(hist[v - 1].tree, hist[v].tree)), v)
<1> DEFINE After(prior, u) ==
             LET changes == Diff(hist[u - 1].tree, hist[u].tree)
             IN IF DOMAIN changes = {} THEN prior ELSE Root(Apply(prior.tree, changes), u)
           E(g, u) == IF u = k THEN Root(hist[k].tree, k) ELSE After(g[u - 1], u)
           W == CHOOSE g : g = [u \in k .. version |-> E(g, u)]
<1>1. Replay(k) = W
  BY DEF Replay
<1>2. \E g : g = [u \in k .. version |-> E(g, u)]
  <2> HIDE DEF After
  <2> DEFINE Upto(g, n) == g = [u \in k .. k + n |-> E(g, u)]
             S == {n \in 0 .. version - k : \E g : Upto(g, n)}
  <2>1. 0 \in S
    <3> DEFINE g == [u \in k .. k + 0 |-> Root(hist[k].tree, k)]
    <3>1. Upto(g, 0)
      OBVIOUS
    <3>2. \E f : Upto(f, 0)
      <4> HIDE DEF Upto, g
      <4> QED BY <3>1
    <3> HIDE DEF Upto, g
    <3> QED BY <3>2
  <2>2. ASSUME NEW n \in 0 .. (version - k) - 1, n \in S
        PROVE  n + 1 \in S
    <3>1. PICK g : Upto(g, n)
      BY <2>2
    <3>2. \A u \in k .. k + n : g[u] = E(g, u)
      <4> HIDE DEF E
      <4> QED BY <3>1
    <3> DEFINE h == [u \in k .. k + (n + 1) |-> IF u = k + (n + 1) THEN E(g, u) ELSE g[u]]
    <3>3. ASSUME NEW u \in k .. k + (n + 1) PROVE h[u] = E(h, u)
      <4>1. u # k => h[u - 1] = g[u - 1]
        OBVIOUS
      <4>2. E(h, u) = E(g, u)
        <5> HIDE DEF h
        <5> QED BY <4>1
      <4>3. h[u] = E(g, u)
        <5> HIDE DEF E
        <5> QED BY <3>2
      <4> HIDE DEF E, h
      <4> QED BY <4>2, <4>3
    <3>4. Upto(h, n + 1)
      <4> HIDE DEF E
      <4> QED BY <3>3
    <3>5. \E f : Upto(f, n + 1)
      <4> HIDE DEF Upto, h
      <4> QED BY <3>4
    <3> HIDE DEF Upto, h
    <3> QED BY <3>5
  <2>3. version - k \in S
    <3>1. version - k \in Nat
      OBVIOUS
    <3> HIDE DEF S
    <3> QED BY <2>1, <2>2, <3>1, BoundedInduction
  <2>4. k + (version - k) = version
    OBVIOUS
  <2> HIDE DEF E
  <2> QED BY <2>3, <2>4
<1> HIDE DEF E
<1>3. W = [u \in k .. version |-> E(W, u)]
  BY <1>2
<1> HIDE DEF W
<1>4. W[v] = E(W, v)
  BY <1>3
<1>5. v # k => E(W, v) = After(W[v - 1], v)
  <2> HIDE DEF After
  <2> QED BY DEF E
<1>6. v = k => E(W, v) = Root(hist[k].tree, k)
  BY DEF E
<1> QED BY <1>1, <1>4, <1>5, <1>6

\* Applying the difference of two trees to the first gives the second.
LEMMA DiffApplies ==
    ASSUME NEW s \in Trees, NEW t \in Trees
    PROVE  /\ Apply(s, Diff(s, t)) = t
           /\ DOMAIN Diff(s, t) = {} => s = t
           /\ DOMAIN Diff(s, t) = {k \in Keys : s[k] # t[k]}
           /\ \A k \in Keys : s[k] # t[k] => Diff(s, t)[k] = t[k]
  BY DEF Apply, Diff, Trees

\* A replay keeps the content of every version.
LEMMA ReplayTrees ==
    ASSUME version \in 0 .. MaxVersion, NEW k \in 1 .. version,
           \A v \in k .. version : hist[v].tree \in Trees
    PROVE  \A v \in k .. version :
              /\ Replay(k)[v].tree = hist[v].tree
              /\ Replay(k)[v].page \in 0 .. MaxVersion
              /\ Replay(k)[v] = [page |-> Replay(k)[v].page, tree |-> Replay(k)[v].tree]
<1> USE Constants
<1> DEFINE R == Replay(k)
           OK(v) == /\ R[v].tree = hist[v].tree
                    /\ R[v].page \in 0 .. MaxVersion
                    /\ R[v] = [page |-> R[v].page, tree |-> R[v].tree]
           S == {n \in 0 .. version - k : OK(k + n)}
<1>1. \A tree, v : /\ Root(tree, v).tree = tree
                   /\ Root(tree, v).page \in {0, v}
                   /\ Root(tree, v) = [page |-> Root(tree, v).page, tree |-> Root(tree, v).tree]
  BY DEF Root
<1>2. 0 \in S
  <2>1. k + 0 = k /\ k \in k .. version /\ k \in 0 .. MaxVersion
    OBVIOUS
  <2>2. R[k] = Root(hist[k].tree, k)
    BY <2>1, ReplayAt
  <2> HIDE DEF R
  <2>3. OK(k)
    BY <1>1, <2>1, <2>2
  <2> QED BY <2>1, <2>3
<1>3. ASSUME NEW n \in 0 .. (version - k) - 1, n \in S
      PROVE  n + 1 \in S
  <2> DEFINE v == k + (n + 1)
  <2>1. v \in k .. version /\ v # k /\ v - 1 = k + n /\ v - 1 \in k .. version
        /\ v \in 0 .. MaxVersion
    OBVIOUS
  <2>2. OK(v - 1)
    BY <1>3, <2>1
  <2>3. hist[v].tree \in Trees /\ hist[v - 1].tree \in Trees
    BY <2>1
  <2>4. \/ R[v] = R[v - 1] /\ DOMAIN Diff(hist[v - 1].tree, hist[v].tree) = {}
        \/ R[v] = Root(Apply(R[v - 1].tree, Diff(hist[v - 1].tree, hist[v].tree)), v)
    <3>1. version \in Nat /\ k \in Nat /\ k <= version
      OBVIOUS
    <3> HIDE DEF v, OK, S
    <3>2. PICK u \in k .. version : u = v
      BY <2>1
    <3>3. /\ u # k /\ DOMAIN Diff(hist[u - 1].tree, hist[u].tree) = {} =>
                 Replay(k)[u] = Replay(k)[u - 1]
          /\ u # k /\ DOMAIN Diff(hist[u - 1].tree, hist[u].tree) # {} =>
                 Replay(k)[u] = Root(Apply(Replay(k)[u - 1].tree,
                                           Diff(hist[u - 1].tree, hist[u].tree)), u)
      BY <3>1, ReplayAt
    <3> QED BY <2>1, <3>2, <3>3, Zenon
  <2> HIDE DEF v, R
  <2>5. hist[v].tree = Apply(R[v - 1].tree, Diff(hist[v - 1].tree, hist[v].tree))
    <3>1. R[v - 1].tree = hist[v - 1].tree
      BY <2>2
    <3>2. Apply(hist[v - 1].tree, Diff(hist[v - 1].tree, hist[v].tree)) = hist[v].tree
      BY <2>3, DiffApplies, Zenon
    <3> QED BY <3>1, <3>2, Zenon
  <2>6. CASE R[v] = R[v - 1] /\ DOMAIN Diff(hist[v - 1].tree, hist[v].tree) = {}
    <3>1. hist[v].tree = hist[v - 1].tree
      BY <2>3, <2>6, DiffApplies
    <3> QED BY <2>2, <2>6, <3>1 DEF v
  <2>7. CASE R[v] = Root(Apply(R[v - 1].tree, Diff(hist[v - 1].tree, hist[v].tree)), v)
    <3>1. R[v] = Root(hist[v].tree, v)
      BY <2>5, <2>7
    <3>2. OK(v)
      BY <1>1, <2>1, <3>1
    <3> QED BY <3>2 DEF v
  <2> QED BY <2>4, <2>6, <2>7
<1>4. 0 .. version - k \subseteq S
  <2>1. version - k \in Nat
    OBVIOUS
  <2> HIDE DEF S
  <2> QED BY <1>2, <1>3, <2>1, BoundedInduction
<1>5. ASSUME NEW v \in k .. version
      PROVE  OK(v)
  <2>1. v - k \in 0 .. version - k /\ k + (v - k) = v
    OBVIOUS
  <2> HIDE DEF OK
  <2> QED BY <1>4, <2>1
<1> QED BY <1>5

----------------------------------------------------------------------------
(***************************************************************************)
(* The shape of the history.  What a vacuum leaves is a suffix of it, so   *)
(* no ref and no parent points to a version that was compacted; the head   *)
(* is the newest version; and a transaction starts from its branch.        *)
(***************************************************************************)
MaxCell == IF MaxValue > MaxRow THEN MaxValue ELSE MaxRow + 1

\* The entries of META_HIST.
EntriesOK ==
    /\ DOMAIN hist = Versions
    /\ \A v \in Versions : Retained(v) =>
          /\ v <= version
          /\ hist[v].page \in 0 .. MaxVersion /\ hist[v].tree \in Trees
          /\ hist[v].ts \in Times
          /\ hist[v].parent \in 0 .. v - 1 /\ HasRoot(hist[v].parent)
    /\ \A u, v \in Versions : Retained(u) /\ u <= v /\ v <= version => Retained(v)
    /\ HasRoot(version)

RefsOK ==
    /\ refs \in [Branches -> 0 .. MaxVersion]
    /\ \A b \in Branches : HasRoot(refs[b])
    /\ MainIsTheTip

TxOK ==
    /\ tx \in [branch : Branches, parent : -1 .. MaxVersion, page : 0 .. MaxVersion,
               tree : Trees, next : 0 .. MaxCell, dirty : BOOLEAN]
    /\ ~Idle => Exists(tx.branch) /\ tx.parent = refs[tx.branch]

StoreInv ==
    /\ version \in 0 .. MaxVersion /\ vacuums \in 0 .. MaxVacuums
    /\ EntriesOK /\ RefsOK /\ TxOK
    /\ head = DataRoot(version)

\* Before the first vacuum every version is there, with the parent it was
\* published with.
OriginInv ==
    /\ DOMAIN origin = Versions /\ OriginsOlder
    /\ vacuums = 0 =>
          \A v \in 1 .. version : /\ Retained(v)
                                  /\ hist[v].parent = origin[v]

\* A version has its rows below its counter, and the counter of no version is
\* below that of its parent.
CounterAhead(v) ==
    /\ \A r \in Rows : hist[v].tree[r] # Absent => r < hist[v].tree[Counter]
    /\ DataRoot(hist[v].parent).tree[Counter] <= hist[v].tree[Counter]

\* A transaction leaves the counter of the tree alone until it is flushed.
TxCounter ==
    /\ tx.tree[Counter] = DataRoot(tx.parent).tree[Counter]
    /\ tx.next # 0 => tx.next >= tx.tree[Counter]
    /\ \A r \in Rows : tx.tree[r] # Absent => r < NextRowid
    /\ ~tx.dirty => tx.next = 0 /\ tx.tree = DataRoot(tx.parent).tree

RowInv ==
    vacuums = 0 =>
       /\ \A v \in Versions : Retained(v) => CounterAhead(v)
       /\ ~Idle => TxCounter

\* A root of a tree.
IsRoot(r) ==
    /\ r = [page |-> r.page, tree |-> r.tree]
    /\ r.page \in 0 .. MaxVersion /\ r.tree \in Trees

\* Roots that operations make are roots.
LEMMA RootsMade ==
    /\ IsRoot(Genesis) /\ EmptyTree \in Trees
    /\ \A tree \in Trees, v \in 0 .. MaxVersion : IsRoot(Root(tree, v))
    /\ \A tree \in Trees, v \in 0 .. MaxVersion : IsRoot([page |-> v, tree |-> tree])
  BY Constants DEF IsRoot, Genesis, EmptyTree, Trees, Root, Absent, Keys

\* What the history gives a reader.
LEMMA RootsFound ==
    ASSUME StoreInv
    PROVE  /\ \A v : HasRoot(v) => v \in 0 .. version /\ IsRoot(DataRoot(v))
           /\ \A b \in Branches : BranchRoot(b) = DataRoot(refs[b]) /\ HasRoot(refs[b])
           /\ HasRoot(version) /\ IsRoot(head)
           /\ ParentsOlder
<1> USE Constants
<1>1. ASSUME NEW v, HasRoot(v)
      PROVE  v \in 0 .. version /\ IsRoot(DataRoot(v))
  <2>1. CASE v = 0
    BY <2>1, RootsMade DEF DataRoot, StoreInv
  <2>2. CASE v # 0
    <3>1. Retained(v) /\ v \in Versions
      BY <1>1, <2>2 DEF HasRoot, Retained
    <3>2. v <= version /\ hist[v].page \in 0 .. MaxVersion /\ hist[v].tree \in Trees
      BY <3>1 DEF StoreInv, EntriesOK
    <3> QED BY <2>2, <3>1, <3>2 DEF DataRoot, IsRoot, StoreInv, Versions
  <2> QED BY <2>1, <2>2
<1>2. HasRoot(version) /\ IsRoot(head)
  BY <1>1 DEF StoreInv, EntriesOK
<1>3. \A b \in Branches : BranchRoot(b) = DataRoot(refs[b]) /\ HasRoot(refs[b])
  BY DEF BranchRoot, StoreInv, RefsOK
<1>4. ParentsOlder
  BY DEF ParentsOlder, StoreInv, EntriesOK
<1> QED BY <1>1, <1>2, <1>3, <1>4

\* A version was appended: it has the given root and parent, one ref moves to
\* it, and the past stays.
Appended(b, root, ts, parent, newRefs) ==
    /\ version' = version + 1 /\ version' \in Versions
    /\ EntriesOK' /\ RefsOK'
    /\ root = DataRoot(version)' /\ head' = root
    /\ refs'[b] = version' /\ \A c \in Branches : c # b => refs'[c] = newRefs[c]
    /\ \A v : HasRoot(v) => HasRoot(v)' /\ DataRoot(v)' = DataRoot(v)
    /\ \A v \in Versions : v <= version => hist'[v] = hist[v]
    /\ hist'[version'].parent = parent
    /\ \A v \in Versions : Retained(v)' <=> Retained(v) \/ v = version'
    /\ origin' = [origin EXCEPT ![version'] = parent]

\* Publishing appends a version.
LEMMA Published ==
    ASSUME StoreInv, NEW b \in Branches, NEW root, IsRoot(root), NEW ts \in Times,
           NEW parent, HasRoot(parent), NEW newRefs \in [Branches -> 0 .. MaxVersion],
           \A c \in Branches : newRefs[c] \in {0, refs[c]},
           PublishVersion(b, root, ts, parent, newRefs)
    PROVE  Appended(b, root, ts, parent, newRefs)
<1> USE Constants DEF StoreInv
<1>0. PICK w : w = version + 1
  OBVIOUS
<1> DEFINE entry == [page |-> root.page, tree |-> root.tree, ts |-> ts, parent |-> parent]
<1>1. /\ version < MaxVersion /\ version' = w /\ head' = root
      /\ hist' = [hist EXCEPT ![w] = entry]
      /\ refs' = [newRefs EXCEPT ![b] = w]
  BY <1>0 DEF PublishVersion
<1>2. w \in Versions /\ w \in 0 .. MaxVersion /\ w > version
  BY <1>0, <1>1 DEF Versions
<1>3. parent \in 0 .. version
  BY RootsFound
<1>4. /\ entry # NoEntry
      /\ entry.page = root.page /\ entry.tree = root.tree /\ entry.ts = ts
      /\ entry.parent = parent
  <2>1. /\ entry.page = root.page /\ entry.tree = root.tree /\ entry.ts = ts
        /\ entry.parent = parent /\ NoEntry.parent = -1
    BY DEF NoEntry
  <2> QED BY <1>3, <2>1
<1> HIDE DEF entry
<1>5. /\ DOMAIN hist' = Versions /\ hist'[w] = entry
      /\ \A v \in Versions : v # w => hist'[v] = hist[v]
  BY <1>1, <1>2 DEF EntriesOK
<1>6. \A v \in Versions : Retained(v)' <=> Retained(v) \/ v = w
  BY <1>4, <1>5 DEF Retained
<1>7. \A v : HasRoot(v) => HasRoot(v)' /\ DataRoot(v)' = DataRoot(v) /\ v # w
  <2> SUFFICES ASSUME NEW v, HasRoot(v)
               PROVE  HasRoot(v)' /\ DataRoot(v)' = DataRoot(v) /\ v # w
    OBVIOUS
  <2>1. v \in 0 .. version /\ v # w
    BY <1>2, RootsFound
  <2>2. v # 0 => v \in Versions
    BY DEF HasRoot, Retained
  <2>3. v # 0 => hist'[v] = hist[v]
    BY <1>5, <2>1, <2>2
  <2> QED BY <1>6, <2>1, <2>2, <2>3 DEF HasRoot, DataRoot
<1>8. HasRoot(w)' /\ root = DataRoot(w)'
  BY <1>2, <1>4, <1>5, <1>6 DEF HasRoot, DataRoot, IsRoot, Versions
<1>9. EntriesOK'
  <2>1. ASSUME NEW v \in Versions, Retained(v)'
        PROVE  /\ v <= version'
               /\ hist'[v].page \in 0 .. MaxVersion /\ hist'[v].tree \in Trees
               /\ hist'[v].ts \in Times
               /\ hist'[v].parent \in 0 .. v - 1 /\ (HasRoot(hist[v].parent))'
    <3>0. PICK p : p = hist'[v].parent
      OBVIOUS
    <3> SUFFICES /\ v <= version'
                 /\ hist'[v].page \in 0 .. MaxVersion /\ hist'[v].tree \in Trees
                 /\ hist'[v].ts \in Times
                 /\ p \in 0 .. v - 1 /\ HasRoot(p)'
      BY <3>0 DEF HasRoot, Retained
    <3>1. CASE v = w
      BY <3>0, <1>0, <1>1, <1>2, <1>3, <1>4, <1>5, <1>7, <3>1 DEF IsRoot
    <3>2. CASE v # w
      <4>1. Retained(v) /\ hist'[v] = hist[v]
        BY <1>5, <1>6, <2>1, <3>2
      <4> QED BY <1>0, <1>1, <1>7, <3>0, <4>1 DEF EntriesOK, Versions
    <3> QED BY <3>1, <3>2
  <2>2. ASSUME NEW u \in Versions, NEW v \in Versions, Retained(u)', u <= v, v <= version'
        PROVE  Retained(v)'
    <3>1. CASE v = w
      BY <1>6, <3>1
    <3>2. CASE v # w
      <4>1. v <= version /\ u # w
        BY <1>0, <1>1, <1>2, <2>2, <3>2 DEF Versions
      <4> QED BY <1>6, <2>2, <4>1 DEF EntriesOK
    <3> QED BY <3>1, <3>2
  <2>3. HasRoot(version)'
    BY <1>1, <1>8 DEF HasRoot, Retained
  <2> QED BY <1>5, <2>1, <2>2, <2>3 DEF EntriesOK
<1>10. /\ refs' \in [Branches -> 0 .. MaxVersion] /\ refs'[b] = w
       /\ \A c \in Branches : c # b => refs'[c] = newRefs[c]
  BY <1>1, <1>2
<1>11. RefsOK'
  <2>1. ASSUME NEW c \in Branches
        PROVE  (HasRoot(refs[c]))'
    <3>0. PICK x : x = refs'[c]
      OBVIOUS
    <3> SUFFICES HasRoot(x)'
      BY <3>0 DEF HasRoot, Retained
    <3>1. CASE c = b
      BY <1>8, <1>10, <3>0, <3>1
    <3>2. CASE c # b
      <4>1. x \in {0, refs[c]}
        BY <1>10, <3>0, <3>2
      <4>2. HasRoot(refs[c])
        BY DEF RefsOK
      <4>3. HasRoot(0)
        BY DEF HasRoot
      <4> QED BY <1>7, <4>1, <4>2, <4>3
    <3> QED BY <3>1, <3>2
  <2>2. MainIsTheTip'
    <3>1. CASE b = Main
      BY <1>1, <1>10, <3>1 DEF MainIsTheTip
    <3>2. CASE b # Main
      BY <1>1, <1>2, <1>10, <3>2 DEF MainIsTheTip, OnlyMain, Versions
    <3> QED BY <3>1, <3>2
  <2> QED BY <1>10, <2>1, <2>2 DEF RefsOK
<1>12. root = DataRoot(version)'
  BY <1>1, <1>8 DEF DataRoot
<1>13. \A v \in Versions : v <= version => hist'[v] = hist[v]
  BY <1>2, <1>5
<1>14. origin' = [origin EXCEPT ![w] = parent]
  BY <1>0 DEF PublishVersion
<1> QED BY <1>0, <1>1, <1>2, <1>4, <1>5, <1>6, <1>7, <1>9, <1>10, <1>11, <1>12, <1>13, <1>14
        DEF Appended

\* What every commit has in common.
Commits(b, root, ts, parent, newRefs) ==
    /\ b \in Branches /\ IsRoot(root) /\ ts \in Times /\ HasRoot(parent)
    /\ Appended(b, root, ts, parent, newRefs)
    /\ TxOK' /\ Idle' /\ vacuums' = vacuums

\* No transaction is open.
LEMMA NoTxOK ==
    ASSUME StoreInv, tx' = NoTx
    PROVE  TxOK' /\ Idle'
  BY Constants, RootsMade DEF TxOK, Idle, NoTx, MaxCell

\* The tree a transaction commits, with its counter.
LEMMA FlushedTrees ==
    ASSUME StoreInv
    PROVE  /\ FlushedTree \in Trees
           /\ \A r \in Rows : FlushedTree[r] = tx.tree[r]
           /\ FlushedTree[Counter] = IF tx.next = 0 THEN tx.tree[Counter] ELSE tx.next
  BY Constants DEF StoreInv, TxOK, FlushedTree, Trees, MaxCell, Counter, Keys, Rows

CommitRoot ==
    IF tx.dirty THEN Root(FlushedTree, version + 1) ELSE [page |-> tx.page, tree |-> tx.tree]

\* WriteTx::commit appends to its branch.
LEMMA CommitAppends ==
    ASSUME StoreInv, NEW ts \in Times, Commit(ts)
    PROVE  Commits(tx.branch, CommitRoot, ts, tx.parent, refs)
<1> USE Constants
<1>1. ~Idle /\ tx' = NoTx /\ vacuums' = vacuums
      /\ PublishVersion(tx.branch, CommitRoot, ts, tx.parent, refs)
  BY DEF Commit, CommitRoot
<1>2. tx.branch \in Branches /\ tx.parent = refs[tx.branch] /\ HasRoot(tx.parent)
  BY <1>1 DEF StoreInv, TxOK, RefsOK
<1>3. IsRoot(CommitRoot)
  <2>1. tx.tree \in Trees /\ tx.page \in 0 .. MaxVersion
    BY DEF StoreInv, TxOK
  <2>2. version + 1 \in 0 .. MaxVersion
    BY <1>1 DEF StoreInv, PublishVersion
  <2> QED BY <2>1, <2>2, RootsMade, FlushedTrees DEF CommitRoot
<1>4. refs \in [Branches -> 0 .. MaxVersion]
  BY DEF StoreInv, RefsOK
<1>5. Appended(tx.branch, CommitRoot, ts, tx.parent, refs)
  BY <1>1, <1>2, <1>3, <1>4, Published
<1> QED BY <1>1, <1>2, <1>3, <1>5, NoTxOK DEF Commits

\* create_branch appends the root of the version it starts from.
LEMMA CreateAppends ==
    ASSUME StoreInv, NEW b \in Branches, NEW from, NEW ts \in Times, CreateBranch(b, from, ts)
    PROVE  Commits(b, DataRoot(from), ts, from, refs)
<1>1. Idle /\ tx' = tx /\ vacuums' = vacuums /\ HasRoot(from)
      /\ PublishVersion(b, DataRoot(from), ts, from, refs)
  BY DEF CreateBranch
<1>2. IsRoot(DataRoot(from)) /\ refs \in [Branches -> 0 .. MaxVersion]
  BY <1>1, RootsFound DEF StoreInv, RefsOK
<1>3. Appended(b, DataRoot(from), ts, from, refs)
  BY <1>1, <1>2, Published
<1> QED BY <1>1, <1>2, <1>3, NoTxOK DEF Commits, Idle

\* drop_branch appends to main what main reads, and drops the ref.
LEMMA DropAppends ==
    ASSUME StoreInv, NEW b \in Branches, NEW ts \in Times, DropBranch(b, ts)
    PROVE  Commits(Main, DataRoot(refs[Main]), ts, refs[Main], [refs EXCEPT ![b] = 0])
<1> USE Constants
<1>1. Idle /\ tx' = tx /\ vacuums' = vacuums
      /\ PublishVersion(Main, BranchRoot(Main), ts, refs[Main], [refs EXCEPT ![b] = 0])
  BY DEF DropBranch
<1>2. BranchRoot(Main) = DataRoot(refs[Main]) /\ HasRoot(refs[Main])
  BY RootsFound
<1>3. IsRoot(DataRoot(refs[Main]))
  BY <1>2, RootsFound
<1>4. PICK n : n = [refs EXCEPT ![b] = 0]
  OBVIOUS
<1>5. n \in [Branches -> 0 .. MaxVersion] /\ \A c \in Branches : n[c] \in {0, refs[c]}
  BY <1>4 DEF StoreInv, RefsOK
<1>6. Appended(Main, DataRoot(refs[Main]), ts, refs[Main], n)
  BY <1>1, <1>2, <1>3, <1>4, <1>5, Published
<1> QED BY <1>1, <1>2, <1>3, <1>4, <1>6, NoTxOK DEF Commits, Idle

MergeTree(f, i) == Apply(DataRoot(refs[i]).tree, ToApply(f, i))
\* A walk over the history stays in it, and ends at genesis.
LEMMA WalkFacts ==
    ASSUME StoreInv, NEW v, HasRoot(v)
    PROVE  /\ 0 \in Walk(v) /\ v \in Walk(v) /\ v \in Nat
           /\ \A u \in Walk(v) : HasRoot(u) /\ u \in 0 .. v
<1> USE Constants
<1> DEFINE OK(u) == /\ 0 \in Walk(u) /\ u \in Walk(u)
                    /\ \A x \in Walk(u) : HasRoot(x) /\ x \in 0 .. u
           S == {u \in Nat : HasRoot(u) => OK(u)}
<1>1. ASSUME NEW n \in Nat, \A m \in 0 .. n - 1 : m \in S
      PROVE  n \in S
  <2> SUFFICES ASSUME HasRoot(n) PROVE OK(n)
    OBVIOUS
  <2>1. n \in 0 .. MaxVersion /\ ParentsOlder
    BY RootsFound DEF StoreInv
  <2>2. CASE n = 0
    BY <2>1, <2>2, WalkAt
  <2>3. CASE n # 0
    <3>1. Retained(n) /\ n \in Versions
      BY <2>3 DEF HasRoot, Retained
    <3>2. PICK p : p = hist[n].parent
      OBVIOUS
    <3>3. p \in 0 .. n - 1 /\ HasRoot(p)
      BY <3>1, <3>2 DEF StoreInv, EntriesOK
    <3>4. Walk(n) = {n} \cup Walk(p)
      BY <2>1, <3>1, <3>2, WalkAt
    <3>5. OK(p)
      BY <1>1, <3>3
    <3> QED BY <3>3, <3>4, <3>5
  <2> QED BY <2>2, <2>3
<1>2. Nat \subseteq S
  <2> HIDE DEF S
  <2> QED BY <1>1, StrongInduction
<1>3. v \in Nat
  BY RootsFound DEF StoreInv
<1> QED BY <1>2, <1>3

\* What merge_base finds is an ancestor of both versions, and the newest one.
LEMMA MergeBaseFound ==
    ASSUME StoreInv, NEW f, HasRoot(f), NEW v, HasRoot(v)
    PROVE  /\ MergeBase(f, v) \in Walk(f) /\ MergeBase(f, v) \in Walk(v)
           /\ HasRoot(MergeBase(f, v))
           /\ \A u \in Walk(f) \cap Walk(v) : u <= MergeBase(f, v)
<1> USE Constants
<1> DEFINE OK(u) == /\ MergeBase(f, u) \in Walk(f) /\ MergeBase(f, u) \in Walk(u)
                    /\ \A x \in Walk(f) \cap Walk(u) : x <= MergeBase(f, u)
           S == {u \in Nat : HasRoot(u) => OK(u)}
<1>0. f \in 0 .. MaxVersion /\ ParentsOlder
  BY RootsFound DEF StoreInv
<1>1. ASSUME NEW n \in Nat, \A m \in 0 .. n - 1 : m \in S
      PROVE  n \in S
  <2> SUFFICES ASSUME HasRoot(n) PROVE OK(n)
    OBVIOUS
  <2>1. n \in 0 .. MaxVersion
    BY RootsFound DEF StoreInv
  <2>2. MergeBase(f, n) = IF n \in Walk(f) \/ ~Retained(n) THEN n
                          ELSE MergeBase(f, hist[n].parent)
    BY <1>0, <2>1, MergeBaseAt
  <2>3. CASE n \in Walk(f)
    BY <2>2, <2>3, WalkFacts
  <2>4. CASE n \notin Walk(f)
    <3>1. n # 0 /\ Retained(n) /\ n \in Versions
      BY <2>4, WalkFacts DEF HasRoot, Retained
    <3>2. PICK p : p = hist[n].parent
      OBVIOUS
    <3>3. p \in 0 .. n - 1 /\ HasRoot(p)
      BY <3>1, <3>2 DEF StoreInv, EntriesOK
    <3>4. Walk(n) = {n} \cup Walk(p)
      BY <1>0, <2>1, <3>1, <3>2, WalkAt
    <3>5. OK(p)
      BY <1>1, <3>3
    <3>6. MergeBase(f, n) = MergeBase(f, p)
      BY <2>2, <2>4, <3>1, <3>2
    <3> QED BY <2>4, <3>4, <3>5, <3>6
  <2> QED BY <2>3, <2>4
<1>2. Nat \subseteq S
  <2> HIDE DEF S
  <2> QED BY <1>1, StrongInduction
<1>3. v \in Nat
  BY RootsFound DEF StoreInv
<1>4. OK(v)
  BY <1>2, <1>3
<1> QED BY <1>4, WalkFacts

\* Cell k of a merge of two trees with the given base.
MergedCell(base, from, into, k) ==
    IF from[k] = base[k] THEN into[k]
    ELSE IF into[k] = base[k] THEN from[k]
    ELSE IF k = Counter /\ from[k] # Absent /\ into[k] # Absent
    THEN IF from[k] >= into[k] THEN from[k] ELSE into[k]
    ELSE into[k]

\* The tree a merge writes, cell by cell.
LEMMA MergedCells ==
    ASSUME StoreInv, NEW f \in Branches, NEW i \in Branches
    PROVE  /\ BaseTree(f, i) \in Trees
           /\ DataRoot(refs[f]).tree \in Trees /\ DataRoot(refs[i]).tree \in Trees
           /\ MergeTree(f, i) \in Trees
           /\ \A k \in Keys : MergeTree(f, i)[k] =
                 MergedCell(BaseTree(f, i), DataRoot(refs[f]).tree, DataRoot(refs[i]).tree, k)
           /\ Conflicts(f, i) = {} =>
                 \A k \in Keys \ {Counter} :
                    \/ DataRoot(refs[f]).tree[k] = BaseTree(f, i)[k]
                    \/ DataRoot(refs[i]).tree[k] = BaseTree(f, i)[k]
                    \/ DataRoot(refs[f]).tree[k] = DataRoot(refs[i]).tree[k]
<1> USE Constants
<1>1. HasRoot(refs[f]) /\ HasRoot(refs[i])
  BY RootsFound
<1>2. HasRoot(MergeBase(refs[f], refs[i]))
  BY <1>1, MergeBaseFound
<1>3. PICK b : b = BaseTree(f, i)
  OBVIOUS
<1>4. PICK s : s = DataRoot(refs[f]).tree
  OBVIOUS
<1>5. PICK t : t = DataRoot(refs[i]).tree
  OBVIOUS
<1>6. b \in Trees /\ s \in Trees /\ t \in Trees
  BY <1>1, <1>2, <1>3, <1>4, <1>5, RootsFound DEF BaseTree, IsRoot
<1>7. PICK from : from = Diff(b, s)
  OBVIOUS
<1>8. PICK into : into = Diff(b, t)
  OBVIOUS
<1>9. /\ DOMAIN from = {k \in Keys : s[k] # b[k]} /\ \A k \in DOMAIN from : from[k] = s[k]
      /\ DOMAIN into = {k \in Keys : t[k] # b[k]} /\ \A k \in DOMAIN into : into[k] = t[k]
  BY <1>6, <1>7, <1>8 DEF Diff
<1>10. FromChanges(f, i) = from /\ IntoChanges(f, i) = into
  BY <1>3, <1>4, <1>5, <1>7, <1>8 DEF FromChanges, IntoChanges
<1> DEFINE both == {q \in DOMAIN from : q \notin DOMAIN into \/ Reconciles(q, from, into)}
           todo == [k \in both |-> IF k \in DOMAIN into THEN Max({from[k], into[k]}) ELSE from[k]]
<1>11. ToApply(f, i) = todo
  BY <1>10 DEF ToApply
<1>12. MergeTree(f, i) = [k \in Keys |-> IF k \in both THEN todo[k] ELSE t[k]]
  BY <1>5, <1>11 DEF MergeTree, Apply
<1>13. \A k \in Keys : s[k] \in 0 .. MaxCell /\ t[k] \in 0 .. MaxCell /\ MaxCell \in Nat
  BY <1>6 DEF Trees, MaxCell
<1>14. ASSUME NEW k \in Keys
       PROVE  /\ MergeTree(f, i)[k] = MergedCell(b, s, t, k)
              /\ MergeTree(f, i)[k] \in 0 .. MaxCell
  <2>1. MergeTree(f, i)[k] = IF k \in both THEN todo[k] ELSE t[k]
    BY <1>12
  <2>2. CASE s[k] = b[k]
    BY <1>9, <1>13, <2>1, <2>2 DEF MergedCell
  <2>3. CASE s[k] # b[k] /\ t[k] = b[k]
    BY <1>9, <1>13, <2>1, <2>3 DEF MergedCell
  <2>4. CASE s[k] # b[k] /\ t[k] # b[k]
    <3>1. k \in DOMAIN from /\ k \in DOMAIN into /\ from[k] = s[k] /\ into[k] = t[k]
      BY <1>9, <2>4
    <3>2. k \in both <=> (k = Counter /\ s[k] # Absent /\ t[k] # Absent)
      BY <3>1 DEF Reconciles
    <3>3. k \in both => todo[k] = Max({s[k], t[k]})
      BY <3>1
    <3>4. Max({s[k], t[k]}) = IF s[k] >= t[k] THEN s[k] ELSE t[k]
      BY <1>13, MaxOfTwo
    <3> HIDE DEF both, todo
    <3> QED BY <1>13, <2>1, <2>4, <3>2, <3>3, <3>4 DEF MergedCell
  <2> QED BY <2>2, <2>3, <2>4
<1>15. MergeTree(f, i) \in Trees
  <2>1. MergeTree(f, i) = [k \in Keys |-> MergeTree(f, i)[k]]
    BY <1>12
  <2> QED BY <1>14, <2>1 DEF Trees, MaxCell
<1>16. Conflicts(f, i) = {} =>
          \A k \in Keys \ {Counter} : s[k] = b[k] \/ t[k] = b[k] \/ s[k] = t[k]
  <2>1. Conflicts(f, i) = {k \in DOMAIN from \cap DOMAIN into :
                             ~Reconciles(k, from, into) /\ from[k] # into[k]}
    BY <1>10 DEF Conflicts
  <2> QED BY <1>9, <2>1 DEF Reconciles
<1> QED BY <1>3, <1>4, <1>5, <1>6, <1>14, <1>15, <1>16

\* merge appends to the branch merged into.
LEMMA MergeAppends ==
    ASSUME StoreInv, NEW f \in Branches, NEW i \in Branches, NEW ts \in Times, Merge(f, i, ts)
    PROVE  Commits(i, Root(MergeTree(f, i), version + 1), ts, refs[i], refs)
<1> USE Constants
<1>1. PICK root : root = Root(MergeTree(f, i), version + 1)
  OBVIOUS
<1>2. Idle /\ tx' = tx /\ vacuums' = vacuums /\ PublishVersion(i, root, ts, refs[i], refs)
  BY <1>1 DEF Merge, MergeTree
<1>3. version + 1 \in 0 .. MaxVersion
  BY <1>2 DEF StoreInv, PublishVersion
<1>4. IsRoot(root) /\ HasRoot(refs[i]) /\ refs \in [Branches -> 0 .. MaxVersion]
  BY <1>1, <1>3, MergedCells, RootsMade, RootsFound DEF StoreInv, RefsOK
<1>5. Appended(i, root, ts, refs[i], refs)
  BY <1>2, <1>4, Published
<1> QED BY <1>1, <1>2, <1>4, <1>5, NoTxOK DEF Commits, Idle
\* A vacuum keeps the versions from k on as they read, on one line.
Compacted(k) ==
    /\ Idle /\ Idle' /\ TxOK' /\ OnlyMain /\ version > 0
    /\ vacuums' = vacuums + 1 /\ vacuums' \in 0 .. MaxVacuums
    /\ version' = version /\ EntriesOK' /\ RefsOK' /\ head' = DataRoot(version)'
    /\ refs[Main] = version /\ refs'[Main] = version
    /\ \A b \in Branches \ {Main} : refs[b] = 0 /\ refs'[b] = 0
    /\ \A v \in Versions : Retained(v)' <=> v \in k .. version
    /\ \A v \in k .. version : v \in Versions /\ Retained(v) /\ hist'[v].tree = hist[v].tree
    /\ origin' = origin

\* A vacuum from a version of the history compacts.
LEMMA VacuumCompacts ==
    ASSUME StoreInv, NEW k \in 1 .. version, Vacuum(k)
    PROVE  Compacted(k)
<1> USE Constants
<1>1. /\ Idle /\ version > 0 /\ OnlyMain /\ CanCompact(k) /\ vacuums < MaxVacuums
      /\ vacuums' = vacuums + 1 /\ version' = version /\ tx' = tx /\ origin' = origin
      /\ head' = Replay(k)[version]
      /\ refs' = [b \in Branches |-> IF b = Main THEN version ELSE 0]
  BY DEF Vacuum
<1>2. version \in 0 .. MaxVersion /\ vacuums \in 0 .. MaxVacuums /\ refs \in [Branches -> 0 .. MaxVersion]
  BY DEF StoreInv, RefsOK
<1>3. \A v \in k .. version : v \in Versions /\ v \in 1 .. version
  BY <1>2 DEF Versions
<1>4. \A v \in k .. version : /\ Retained(v) /\ hist[v].tree \in Trees /\ hist[v].ts \in Times
  BY <1>1, <1>3 DEF CanCompact, StoreInv, EntriesOK
<1>5. PICK R : R = Replay(k)
  OBVIOUS
<1>6. \A v \in k .. version : /\ R[v].tree = hist[v].tree
                              /\ R[v].page \in 0 .. MaxVersion
                              /\ R[v] = [page |-> R[v].page, tree |-> R[v].tree]
  BY <1>2, <1>4, <1>5, ReplayTrees
<1> DEFINE New(v) == [page |-> R[v].page, tree |-> R[v].tree, ts |-> hist[v].ts,
                      parent |-> IF v = k THEN 0 ELSE v - 1]
<1>7. hist' = [v \in Versions |-> IF v \notin k .. version THEN NoEntry ELSE New(v)]
  BY <1>5 DEF Vacuum
<1>8. /\ DOMAIN hist' = Versions
      /\ \A v \in Versions : v \notin k .. version => hist'[v] = NoEntry
      /\ \A v \in k .. version : hist'[v] = New(v)
  <2> HIDE DEF New
  <2> QED BY <1>3, <1>7
<1>9. ASSUME NEW v \in k .. version
      PROVE  /\ hist'[v] # NoEntry
             /\ hist'[v].page \in 0 .. MaxVersion /\ hist'[v].tree = hist[v].tree
             /\ hist'[v].tree \in Trees /\ hist'[v].ts \in Times
             /\ hist'[v].page = R[v].page /\ hist'[v].tree = R[v].tree
             /\ hist'[v].parent = IF v = k THEN 0 ELSE v - 1
  <2>1. /\ hist'[v].page = R[v].page /\ hist'[v].tree = R[v].tree
        /\ hist'[v].ts = hist[v].ts /\ hist'[v].parent = IF v = k THEN 0 ELSE v - 1
    <3>1. PICK e : e = hist'[v]
      OBVIOUS
    <3>2. e = New(v)
      <4> HIDE DEF New
      <4> QED BY <1>8, <3>1
    <3>3. /\ e.page = R[v].page /\ e.tree = R[v].tree /\ e.ts = hist[v].ts
          /\ e.parent = IF v = k THEN 0 ELSE v - 1
      BY <3>2
    <3> QED BY <3>1, <3>3
  <2>2. hist'[v].parent # -1 /\ NoEntry.parent = -1
    BY <2>1 DEF NoEntry
  <2> QED BY <1>4, <1>6, <2>1, <2>2
<1>10. \A v \in Versions : Retained(v)' <=> v \in k .. version
  BY <1>8, <1>9 DEF Retained
<1>11. \A v \in k .. version : HasRoot(v)'
  BY <1>3, <1>10 DEF HasRoot
<1>12. HasRoot(version)'
  <2>1. version \in k .. version
    BY <1>2
  <2>2. version \in Versions /\ hist'[version] # NoEntry
    BY <1>3, <1>9, <2>1
  <2> QED BY <1>1, <2>2 DEF HasRoot, Retained
<1>13. EntriesOK'
  <2>1. ASSUME NEW v \in Versions, Retained(v)'
        PROVE  /\ v <= version'
               /\ hist'[v].page \in 0 .. MaxVersion /\ hist'[v].tree \in Trees
               /\ hist'[v].ts \in Times
               /\ hist'[v].parent \in 0 .. v - 1 /\ (HasRoot(hist[v].parent))'
    <3>1. v \in k .. version
      BY <1>10, <2>1
    <3>2. PICK p : p = hist'[v].parent
      OBVIOUS
    <3>3. p = (IF v = k THEN 0 ELSE v - 1) /\ p \in 0 .. v - 1
      BY <1>9, <3>1, <3>2
    <3>4. p = 0 \/ p \in k .. version
      <4>1. version \in Nat /\ k \in Nat
        BY <1>2
      <4> QED BY <3>1, <3>3, <4>1
    <3>5. HasRoot(p)'
      BY <1>11, <3>4 DEF HasRoot
    <3>6. (HasRoot(hist[v].parent))'
      BY <3>2, <3>5 DEF HasRoot, Retained
    <3> QED BY <1>1, <1>9, <3>1, <3>2, <3>3, <3>6
  <2>2. ASSUME NEW u \in Versions, NEW v \in Versions, Retained(u)', u <= v, v <= version'
        PROVE  Retained(v)'
    <3>1. u \in k .. version /\ v <= version
      BY <1>1, <1>10, <2>2
    <3>2. v \in k .. version
      BY <1>2, <2>2, <3>1 DEF Versions
    <3> QED BY <1>10, <3>2
  <2> QED BY <1>8, <1>12, <2>1, <2>2 DEF EntriesOK
<1>14. refs'[Main] = version /\ \A b \in Branches \ {Main} : refs'[b] = 0
  BY <1>1
<1>15. RefsOK'
  <2>1. refs' \in [Branches -> 0 .. MaxVersion]
    BY <1>1, <1>2
  <2>2. ASSUME NEW b \in Branches
        PROVE  (HasRoot(refs[b]))'
    <3>1. CASE b = Main
      BY <1>1, <1>12, <1>14, <3>1 DEF HasRoot, Retained
    <3>2. CASE b # Main
      BY <1>14, <3>2 DEF HasRoot
    <3> QED BY <3>1, <3>2
  <2>3. MainIsTheTip'
    BY <1>1, <1>14 DEF MainIsTheTip
  <2> QED BY <2>1, <2>2, <2>3 DEF RefsOK
<1>16. head' = DataRoot(version)'
  <2>1. version \in k .. version /\ version # 0
    BY <1>1, <1>2
  <2>2. hist'[version].page = R[version].page /\ hist'[version].tree = R[version].tree
    BY <1>9, <2>1
  <2>3. head' = [page |-> R[version].page, tree |-> R[version].tree]
    BY <1>1, <1>5, <1>6, <2>1
  <2> QED BY <1>1, <2>1, <2>2, <2>3 DEF DataRoot
<1>17. Idle' /\ TxOK'
  BY <1>1, NoTxOK DEF Idle
<1>18. refs[Main] = version /\ \A b \in Branches \ {Main} : refs[b] = 0
  BY <1>1 DEF StoreInv, RefsOK, MainIsTheTip, OnlyMain
<1>19. vacuums' \in 0 .. MaxVacuums
  BY <1>1, <1>2
<1> HIDE DEF New
<1> QED BY <1>1, <1>3, <1>4, <1>9, <1>10, <1>13, <1>14, <1>15, <1>16, <1>17, <1>18, <1>19
        DEF Compacted

\* Every frontier is a version of the history.
LEMMA VacuumsCompact ==
    ASSUME StoreInv, VacuumNext
    PROVE  \E k \in 1 .. version : Compacted(k)
<1> USE Constants
<1>1. version \in Nat
  BY DEF StoreInv
<1>2. \A k : Vacuum(k) => version > 0
  BY DEF Vacuum
<1>3. CASE Vacuum(KeepAllFrontier)
  <2>1. 1 \in 1 .. version
    BY <1>1, <1>2, <1>3
  <2> QED BY <1>3, <2>1, VacuumCompacts DEF KeepAllFrontier
<1>4. CASE \E n \in Versions : Vacuum(KeepLastFrontier(n))
  <2>1. PICK n \in Versions : Vacuum(KeepLastFrontier(n))
    BY <1>4
  <2>2. PICK m \in Nat : m = Max({n - 1, 0})
    <3>1. n - 1 \in Nat
      BY DEF Versions
    <3> QED BY <3>1, MaxOfTwo
  <2>3. version - m \in Int /\ KeepLastFrontier(n) = Max({version - m, 1})
    BY <1>1, <2>2 DEF KeepLastFrontier
  <2>4. Max({version - m, 1}) = IF version - m >= 1 THEN version - m ELSE 1
    BY <2>3, MaxOfTwo
  <2>5. PICK k : k = KeepLastFrontier(n)
    OBVIOUS
  <2>6. k \in 1 .. version /\ Vacuum(k)
    BY <1>1, <1>2, <2>1, <2>2, <2>3, <2>4, <2>5
  <2> QED BY <2>6, VacuumCompacts
<1>5. CASE \E t \in Times : Vacuum(KeepSinceFrontier(t))
  <2>1. PICK t \in Times : Vacuum(KeepSinceFrontier(t))
    BY <1>5
  <2>2. PICK stops : stops = {v \in 1 .. version : ~Retained(v) \/ hist[v].ts >= t}
    OBVIOUS
  <2>3. PICK k : k = KeepSinceFrontier(t)
    OBVIOUS
  <2>4. k = IF stops = {} THEN version ELSE Min(stops)
    BY <2>2, <2>3 DEF KeepSinceFrontier
  <2>5. stops # {} => Min(stops) \in 1 .. version
    BY <2>2, MinOfNat
  <2>6. k \in 1 .. version /\ Vacuum(k)
    BY <1>1, <1>2, <2>1, <2>3, <2>4, <2>5
  <2> QED BY <2>6, VacuumCompacts
<1> QED BY <1>3, <1>4, <1>5 DEF VacuumNext
----------------------------------------------------------------------------
(***************************************************************************)
(* The shape is kept by every operation.                                   *)
(***************************************************************************)
\* The store starts in shape.
LEMMA StoreInit == Init => StoreInv
<1> SUFFICES ASSUME Init PROVE StoreInv
  OBVIOUS
<1> USE Constants DEF Init
<1>1. \A v \in Versions : ~Retained(v)
  BY DEF Retained
<1>2. EntriesOK
  BY <1>1 DEF EntriesOK, HasRoot
<1>3. RefsOK
  BY DEF RefsOK, HasRoot, MainIsTheTip
<1>4. TxOK
  BY RootsMade DEF TxOK, Idle, NoTx, MaxCell
<1> QED BY <1>2, <1>3, <1>4 DEF StoreInv, DataRoot

\* The part of the state a transaction works on.
WorkOK(t) ==
    t \in [branch : Branches, parent : -1 .. MaxVersion, page : 0 .. MaxVersion,
           tree : Trees, next : 0 .. MaxCell, dirty : BOOLEAN]

\* A statement of a transaction changes its tree, its counter and dirty.
LEMMA Worked ==
    ASSUME StoreInv, ~Idle, WorkOK(tx'), tx'.branch = tx.branch, tx'.parent = tx.parent,
           UNCHANGED <<version, head, hist, refs, vacuums, origin>>
    PROVE  StoreInv'
<1>1. EntriesOK' /\ RefsOK' /\ head' = DataRoot(version)'
  BY DEF StoreInv, EntriesOK, RefsOK, HasRoot, Retained, DataRoot, MainIsTheTip, OnlyMain
<1>2. TxOK'
  BY DEF StoreInv, TxOK, WorkOK, Exists
<1> QED BY <1>1, <1>2 DEF StoreInv

\* The counter a transaction works with.
LEMMA NextRowids ==
    ASSUME StoreInv
    PROVE  /\ tx.tree[Counter] \in 0 .. MaxCell /\ tx.next \in 0 .. MaxCell /\ MaxCell \in Nat
           /\ NextRowid = IF tx.next # 0 THEN tx.next
                          ELSE IF tx.tree[Counter] = 0 THEN 1 ELSE tx.tree[Counter]
           /\ NextRowid \in 1 .. MaxCell
<1> USE Constants
<1>1. tx.tree[Counter] \in 0 .. MaxCell /\ tx.next \in 0 .. MaxCell /\ MaxCell \in Nat /\ MaxCell >= 1
  BY DEF StoreInv, TxOK, Trees, MaxCell, Counter, Keys
<1>2. PICK c \in 0 .. MaxCell : c = tx.tree[Counter]
  BY <1>1
<1>3. Max({1, c}) = IF 1 >= c THEN 1 ELSE c
  BY <1>1, MaxOfTwo
<1> QED BY <1>1, <1>2, <1>3 DEF NextRowid

\* What resolve_rowid returns.
LEMMA Resolved ==
    ASSUME StoreInv, NEW explicit \in 0 .. MaxRow, ResolveRowid(explicit).rowid \in Rows
    PROVE  LET r == ResolveRowid(explicit)
           IN /\ r.rowid = IF explicit = 0 THEN NextRowid ELSE explicit
              /\ r.next = IF NextRowid >= r.rowid + 1 THEN NextRowid ELSE r.rowid + 1
              /\ r.next \in 1 .. MaxCell
              /\ r.duplicate <=> /\ explicit # 0 /\ explicit < NextRowid
                                 /\ tx.tree[explicit] # Absent
<1> USE Constants
<1>1. NextRowid \in 1 .. MaxCell /\ MaxCell \in Nat
  BY NextRowids
<1>2. PICK n \in 1 .. MaxCell : n = NextRowid
  BY <1>1
<1>3. PICK rowid \in Rows : rowid = IF explicit = 0 THEN n ELSE explicit
  BY <1>2 DEF ResolveRowid
<1>4. Max({n, rowid + 1}) = IF n >= rowid + 1 THEN n ELSE rowid + 1
  BY MaxOfTwo DEF Rows
<1>5. rowid + 1 \in 1 .. MaxCell
  BY DEF Rows, MaxCell
<1>6. /\ ResolveRowid(explicit).rowid = rowid
      /\ ResolveRowid(explicit).next = Max({n, rowid + 1})
      /\ ResolveRowid(explicit).duplicate <=>
            explicit # 0 /\ explicit < n /\ tx.tree[explicit] # Absent
  BY <1>2, <1>3 DEF ResolveRowid
<1> QED BY <1>2, <1>3, <1>4, <1>5, <1>6

\* A cell of a tree can be set.
LEMMA TreeSet ==
    ASSUME NEW tree \in Trees, NEW k \in Keys, NEW c \in 0 .. MaxCell
    PROVE  [tree EXCEPT ![k] = c] \in Trees
  BY DEF Trees, MaxCell

\* A row of the open transaction is set.
SetsRow(rowid, value) ==
    /\ ~Idle
    /\ tx' = [tx EXCEPT !.tree[rowid] = value, !.dirty = TRUE]
    /\ Writes(rowid)
    /\ UNCHANGED <<version, head, hist, refs, vacuums, origin, changed>>

\* Every step keeps the shape.
LEMMA StoreStep == StoreInv /\ [Next]_vars => StoreInv'
<1> SUFFICES ASSUME StoreInv, [Next]_vars PROVE StoreInv'
  OBVIOUS
<1> USE Constants
<1>1. ASSUME NEW b, NEW root, NEW ts, NEW parent, NEW newRefs,
             Commits(b, root, ts, parent, newRefs)
      PROVE  StoreInv'
  <2>1. Appended(b, root, ts, parent, newRefs) /\ TxOK' /\ vacuums' = vacuums
    BY <1>1 DEF Commits
  <2>2. version' \in 0 .. MaxVersion
    BY <2>1 DEF Appended, Versions
  <2> QED BY <2>1, <2>2 DEF StoreInv, Appended
<1>2. ASSUME NEW b \in Branches, BeginOn(b) PROVE StoreInv'
  <2>1. /\ UNCHANGED <<version, head, hist, refs, vacuums, origin>> /\ Exists(b)
        /\ tx' = [branch |-> b, parent |-> refs[b], page |-> BranchRoot(b).page,
                  tree |-> View(b), next |-> 0, dirty |-> FALSE]
    BY <1>2 DEF BeginOn
  <2>2. EntriesOK' /\ RefsOK' /\ head' = DataRoot(version)'
    BY <2>1 DEF StoreInv, EntriesOK, RefsOK, HasRoot, Retained, DataRoot, MainIsTheTip, OnlyMain
  <2>3. BranchRoot(b).page \in 0 .. MaxVersion /\ View(b) \in Trees /\ refs[b] \in 0 .. MaxVersion
    BY RootsFound DEF View, IsRoot, StoreInv, RefsOK
  <2>4. TxOK'
    BY <2>1, <2>3 DEF TxOK, MaxCell, Exists
  <2> QED BY <2>1, <2>2, <2>4 DEF StoreInv
<1>3. WorkOK(tx)
  BY DEF StoreInv, TxOK, WorkOK
<1>4. ASSUME NEW explicit \in 0 .. MaxRow, NEW value \in 1 .. MaxValue, InsertRow(explicit, value)
      PROVE  StoreInv'
  <2>1. PICK r : r = ResolveRowid(explicit)
    OBVIOUS
  <2>2. /\ ~Idle /\ r.rowid \in Rows
        /\ tx' = [tx EXCEPT !.tree[r.rowid] = value, !.dirty = TRUE, !.next = r.next]
        /\ UNCHANGED <<version, head, hist, refs, vacuums, origin>>
    BY <1>4, <2>1 DEF InsertRow
  <2>3. r.next \in 0 .. MaxCell
    BY <2>1, <2>2, Resolved
  <2>4. [tx.tree EXCEPT ![r.rowid] = value] \in Trees
    BY <1>3, <2>2, TreeSet DEF Rows, Keys, MaxCell, WorkOK
  <2>5. WorkOK(tx') /\ tx'.branch = tx.branch /\ tx'.parent = tx.parent
    BY <1>3, <2>2, <2>3, <2>4 DEF WorkOK
  <2> QED BY <2>2, <2>5, Worked
<1>5. ASSUME NEW rowid \in Rows, NEW value \in 0 .. MaxValue, SetsRow(rowid, value)
      PROVE  StoreInv'
  <2>1. [tx.tree EXCEPT ![rowid] = value] \in Trees
    BY <1>3, TreeSet DEF Rows, Keys, MaxCell, WorkOK
  <2>2. WorkOK(tx') /\ tx'.branch = tx.branch /\ tx'.parent = tx.parent
    BY <1>3, <1>5, <2>1 DEF WorkOK, SetsRow
  <2> QED BY <1>5, <2>2, Worked DEF SetsRow
<1>6. ASSUME NEW rowid \in Rows, NEW value \in 1 .. MaxValue, UpdateRow(rowid, value)
      PROVE  StoreInv'
  <2>1. SetsRow(rowid, value) /\ value \in 0 .. MaxValue
    BY <1>6 DEF UpdateRow, SetsRow
  <2> QED BY <1>5, <2>1
<1>7. ASSUME NEW rowid \in Rows, DeleteRow(rowid) PROVE StoreInv'
  <2>1. SetsRow(rowid, Absent) /\ Absent \in 0 .. MaxValue
    BY <1>7 DEF DeleteRow, SetsRow, Absent
  <2> QED BY <1>5, <2>1
<1>8. ASSUME NEW ts \in Times, Commit(ts) PROVE StoreInv'
  BY <1>1, <1>8, CommitAppends
<1>9. CASE EndTx \/ UNCHANGED vars
  <2>1. UNCHANGED <<version, head, hist, refs, vacuums>> /\ tx' \in {NoTx, tx}
    BY <1>9 DEF EndTx, vars
  <2>2. EntriesOK' /\ RefsOK' /\ head' = DataRoot(version)'
    BY <2>1 DEF StoreInv, EntriesOK, RefsOK, HasRoot, Retained, DataRoot, MainIsTheTip, OnlyMain
  <2>3. TxOK'
    <3>1. CASE tx' = NoTx
      BY <3>1, NoTxOK
    <3>2. CASE tx' = tx
      BY <2>1, <3>2 DEF StoreInv, TxOK, Idle, Exists
    <3> QED BY <2>1, <3>1, <3>2
  <2> QED BY <2>1, <2>2, <2>3 DEF StoreInv
<1>10. CASE TxNext
  BY <1>2, <1>4, <1>6, <1>7, <1>8, <1>9, <1>10 DEF TxNext
<1>11. CASE BranchNext
  BY <1>1, <1>11, CreateAppends, DropAppends, MergeAppends DEF BranchNext
<1>12. CASE VacuumNext
  BY <1>12, VacuumsCompact DEF Compacted, StoreInv
<1> QED BY <1>9, <1>10, <1>11, <1>12 DEF Next

\* The shape holds in every state.
LEMMA StoreAlways == Spec => []StoreInv
  BY StoreInit, StoreStep, PTL DEF Spec

\* Timelines are whole, whatever was dropped or compacted before: every walk
\* over recorded parents (merge_base, is_ancestor, AS OF) reaches genesis, and
\* when main is alone it is the tip that a vacuum rebuilds.
THEOREM TimelinesAreWhole == Spec => []TimelinesWhole
<1>1. StoreInv => TimelinesWhole
  <2> SUFFICES ASSUME StoreInv PROVE TimelinesWhole
    OBVIOUS
  <2>1. TypeOK
    <3>1. RootType(head)
      BY RootsFound DEF RootType, IsRoot
    <3>2. \A v \in Versions : hist[v] # NoEntry =>
             RootType(hist[v]) /\ hist[v].ts \in Times /\ hist[v].parent \in 0 .. v - 1
      BY DEF StoreInv, EntriesOK, Retained, RootType
    <3>3. tx # NoTx => tx.branch \in Branches /\ RootType(tx)
      BY DEF StoreInv, TxOK, RootType
    <3> QED BY <3>1, <3>2, <3>3 DEF TypeOK, StoreInv, RefsOK
  <2>2. WalksReachGenesis
    BY RootsFound, WalkFacts DEF WalksReachGenesis
  <2> QED BY <2>1, <2>2 DEF TimelinesWhole, StoreInv, RefsOK
<1> QED BY <1>1, StoreAlways, PTL
----------------------------------------------------------------------------
(***************************************************************************)
(* Branches are isolated.                                                  *)
(***************************************************************************)
\* A branch reads the root of its ref.
LEMMA ViewIsRoot ==
    ASSUME StoreInv, StoreInv', NEW b \in Branches
    PROVE  View(b) = DataRoot(refs[b]).tree /\ View(b)' = (DataRoot(refs[b]).tree)'
  BY DEF View, BranchRoot, DataRoot, StoreInv

\* A branch whose ref stays reads the same when versions keep their roots.
LEMMA ViewKept ==
    ASSUME StoreInv, StoreInv', NEW b \in Branches, refs'[b] = refs[b],
           \A v : HasRoot(v) => DataRoot(v)' = DataRoot(v)
    PROVE  View(b)' = View(b)
<1>1. PICK x : x = refs[b]
  OBVIOUS
<1>2. HasRoot(x)
  BY <1>1 DEF StoreInv, RefsOK
<1>3. DataRoot(x)' = DataRoot(x)
  BY <1>2
<1>4. (DataRoot(refs[b]))' = DataRoot(x)'
  BY <1>1 DEF DataRoot
<1> QED BY <1>1, <1>3, <1>4, ViewIsRoot

\* The same for a step that leaves the store alone.
LEMMA ViewsStay ==
    ASSUME NEW b \in Branches, UNCHANGED <<version, head, hist, refs>>
    PROVE  View(b)' = View(b)
  BY DEF View, BranchRoot, DataRoot

\* A branch is isolated: no operation on another branch, no drop of one and no
\* vacuum changes what it reads.
THEOREM BranchesStayIsolated == Spec => BranchesAreIsolated
<1>1. ASSUME StoreInv, StoreInv', Next, NEW b \in Branches,
             Exists(b), Exists(b)', View(b)' # View(b)
      PROVE  MovesBranch(b)
  <2> USE Constants
  <2>1. ASSUME NEW c, NEW root, NEW ts, NEW parent, NEW newRefs,
               Commits(c, root, ts, parent, newRefs), b # c, newRefs[b] = refs[b]
        PROVE  FALSE
    <3>1. refs'[b] = refs[b] /\ \A v : HasRoot(v) => DataRoot(v)' = DataRoot(v)
      BY <2>1 DEF Commits, Appended
    <3> QED BY <1>1, <3>1, ViewKept
  <2>2. CASE TxNext
    <3>1. CASE \E ts \in Times : Commit(ts)
      <4>1. PICK ts \in Times : Commit(ts)
        BY <3>1
      <4>2. tx.branch = b
        BY <1>1, <2>1, <4>1, CommitAppends
      <4> QED BY <4>1, <4>2 DEF MovesBranch
    <3>2. CASE UNCHANGED <<version, head, hist, refs>>
      BY <1>1, <3>2, ViewsStay
    <3> QED BY <2>2, <3>1, <3>2
            DEF TxNext, BeginOn, InsertRow, UpdateRow, DeleteRow, EndTx
  <2>3. CASE BranchNext
    <3>1. PICK ts \in Times :
             \/ \E c \in Branches, from \in 0 .. MaxVersion : CreateBranch(c, from, ts)
             \/ \E c \in Branches : DropBranch(c, ts)
             \/ \E f, i \in Branches : Merge(f, i, ts)
      BY <2>3 DEF BranchNext
    <3>2. ASSUME NEW c \in Branches, NEW from \in 0 .. MaxVersion, CreateBranch(c, from, ts)
          PROVE  MovesBranch(b)
      <4>1. c = b
        BY <1>1, <2>1, <3>2, CreateAppends
      <4>2. from \in 0 .. version
        BY <1>1, <3>2, RootsFound DEF CreateBranch
      <4> QED BY <3>2, <4>1, <4>2 DEF MovesBranch
    <3>3. ASSUME NEW c \in Branches, DropBranch(c, ts)
          PROVE  FALSE
      <4>1. PICK n : n = [refs EXCEPT ![c] = 0]
        OBVIOUS
      <4>2. PICK root : root = DataRoot(refs[Main])
        OBVIOUS
      <4>3. Commits(Main, root, ts, refs[Main], n)
        BY <1>1, <3>3, <4>1, <4>2, DropAppends
      <4>4. CASE b = Main
        <5>1. refs'[Main] = version' /\ root = DataRoot(version)'
          BY <4>3 DEF Commits, Appended
        <5>2. (DataRoot(refs[Main]))' = DataRoot(version)'
          BY <5>1 DEF DataRoot
        <5> QED BY <1>1, <4>2, <4>4, <5>1, <5>2, ViewIsRoot
      <4>5. CASE b = c /\ b # Main
        <5>1. n[c] = 0
          BY <1>1, <4>1 DEF StoreInv, RefsOK
        <5>2. refs'[b] = 0
          BY <4>3, <4>5, <5>1 DEF Commits, Appended
        <5> QED BY <1>1, <4>5, <5>2 DEF Exists
      <4>6. CASE b # c /\ b # Main
        <5>1. n[b] = refs[b]
          BY <1>1, <4>1, <4>6 DEF StoreInv, RefsOK
        <5> QED BY <2>1, <4>3, <4>6, <5>1
      <4> QED BY <4>4, <4>5, <4>6
    <3>4. ASSUME NEW f \in Branches, NEW i \in Branches, Merge(f, i, ts)
          PROVE  MovesBranch(b)
      <4>1. i = b
        BY <1>1, <2>1, <3>4, MergeAppends
      <4> QED BY <3>4, <4>1 DEF MovesBranch
    <3> QED BY <3>1, <3>2, <3>3, <3>4
  <2>4. CASE VacuumNext
    <3>1. PICK k \in 1 .. version : Compacted(k)
      BY <1>1, <2>4, VacuumsCompact
    <3>2. b = Main /\ refs[b] = version /\ refs'[b] = version /\ version' = version /\ version > 0
      BY <1>1, <3>1 DEF Compacted, Exists
    <3>3. hist'[version].tree = hist[version].tree
      BY <1>1, <3>1, <3>2 DEF Compacted, StoreInv
    <3> QED BY <1>1, <3>2, <3>3, ViewIsRoot DEF DataRoot
  <2> QED BY <1>1, <2>2, <2>3, <2>4 DEF Next
<1>2. ASSUME StoreInv, StoreInv', [Next]_vars
      PROVE  [\A b \in Branches :
                 Exists(b) /\ Exists(b)' /\ View(b)' # View(b) => MovesBranch(b)]_vars
  BY <1>1, <1>2
<1> QED BY <1>2, StoreAlways, PTL DEF Spec, BranchesAreIsolated
----------------------------------------------------------------------------
(***************************************************************************)
(* The history implements TimeTravel.                                      *)
(***************************************************************************)
Past == [v \in Versions |->
            [status |-> Status(v),
             content |-> IF Status(v) = "reads" THEN TreeAt(v) ELSE EmptyTree]]

\* What a reader of the past finds at a version.
LEMMA PastCell ==
    ASSUME StoreInv, NEW v \in Versions
    PROVE  /\ v > version => Past[v] = Promise!Unborn
           /\ v <= version /\ ~Retained(v) => Past[v] = Promise!Gone
           /\ v <= version /\ Retained(v) => Past[v] = Promise!Reads(hist[v].tree)
<1> USE Constants
<1>1. version \in Nat /\ v \in Nat /\ v # 0 /\ head = DataRoot(version) /\ NotFound # v
      /\ (v = version => Retained(v))
  BY DEF StoreInv, Versions, EntriesOK, HasRoot, NotFound
<1>2. Status(v) = IF v > version THEN "unborn" ELSE IF Retained(v) THEN "reads" ELSE "gone"
  <2>1. CASE v > version
    BY <1>1, <2>1 DEF Status
  <2>2. CASE ~(v > version)
    <3>1. SnapshotAtVersion(v) = NotFound <=> ~Retained(v)
      BY <1>1, <2>2 DEF SnapshotAtVersion
    <3>2. Status(v) = IF SnapshotAtVersion(v) = NotFound THEN "gone" ELSE "reads"
      BY <1>1, <2>2 DEF Status
    <3> QED BY <2>2, <3>1, <3>2
  <2> QED BY <2>1, <2>2
<1>3. TreeAt(v) = hist[v].tree
  BY <1>1 DEF TreeAt, DataRoot
<1>4. Past[v] = [status |-> Status(v),
                 content |-> IF Status(v) = "reads" THEN TreeAt(v) ELSE EmptyTree]
  BY DEF Past
<1> QED BY <1>1, <1>2, <1>3, <1>4 DEF Promise!Unborn, Promise!Gone, Promise!Reads

\* The same after a step.
LEMMA PastCellNext ==
    ASSUME StoreInv', NEW v \in Versions
    PROVE  /\ v > version' => Past'[v] = Promise!Unborn
           /\ v <= version' /\ ~Retained(v)' => Past'[v] = Promise!Gone
           /\ v <= version' /\ Retained(v)' => Past'[v] = Promise!Reads(hist'[v].tree)
<1> USE Constants
<1>1. version' \in Nat /\ v \in Nat /\ v # 0 /\ head' = DataRoot(version)' /\ NotFound # v
      /\ (v = version' => Retained(v)')
  BY DEF StoreInv, Versions, EntriesOK, HasRoot, Retained, NotFound
<1>2. Status(v)' = IF v > version' THEN "unborn" ELSE IF Retained(v)' THEN "reads" ELSE "gone"
  <2>1. CASE v > version'
    BY <1>1, <2>1 DEF Status
  <2>2. CASE ~(v > version')
    <3>1. SnapshotAtVersion(v)' = NotFound <=> ~Retained(v)'
      BY <1>1, <2>2 DEF SnapshotAtVersion
    <3>2. Status(v)' = IF SnapshotAtVersion(v)' = NotFound THEN "gone" ELSE "reads"
      BY <1>1, <2>2 DEF Status, NotFound
    <3> QED BY <2>2, <3>1, <3>2
  <2> QED BY <2>1, <2>2
<1>3. TreeAt(v)' = hist'[v].tree
  BY <1>1 DEF TreeAt, DataRoot
<1>4. Past'[v] = [status |-> Status(v)',
                  content |-> IF Status(v)' = "reads" THEN TreeAt(v)' ELSE EmptyTree]
  BY DEF Past, EmptyTree
<1> QED BY <1>1, <1>2, <1>3, <1>4 DEF Promise!Unborn, Promise!Gone, Promise!Reads

\* A commit, whatever it is for, publishes one version.
LEMMA CommitPublishes ==
    ASSUME StoreInv, StoreInv', NEW b, NEW root, NEW ts, NEW parent, NEW newRefs,
           Commits(b, root, ts, parent, newRefs)
    PROVE  Promise!Publish
<1> USE Constants
<1>0. PICK w : w = version + 1
  OBVIOUS
<1>1. /\ version \in 0 .. MaxVersion /\ version' = w /\ w \in Versions
      /\ \A v \in Versions : v <= version => hist'[v] = hist[v]
      /\ \A v \in Versions : Retained(v)' <=> Retained(v) \/ v = w
      /\ IsRoot(root) /\ head' = root
  BY <1>0 DEF Commits, Appended, StoreInv
<1>2. root.tree = hist'[w].tree /\ root.tree \in Trees
  BY <1>0, <1>1 DEF IsRoot, StoreInv, DataRoot
<1>3. ASSUME NEW v \in Versions
      PROVE  Past'[v] = IF v = w THEN Promise!Reads(root.tree) ELSE Past[v]
  <2>1. v \in Nat
    BY DEF Versions
  <2>2. CASE v > w
    BY <1>0, <1>1, <2>1, <2>2, PastCell, PastCellNext
  <2>3. CASE v = w
    BY <1>1, <1>2, <2>1, <2>3, PastCellNext
  <2>4. CASE v < w
    <3>1. v <= version /\ v <= version' /\ v # w /\ hist'[v] = hist[v]
          /\ (Retained(v)' <=> Retained(v))
      BY <1>0, <1>1, <2>1, <2>4
    <3> QED BY <3>1, PastCell, PastCellNext
  <2> QED BY <1>0, <1>1, <2>1, <2>2, <2>3, <2>4
<1>4. Past' = [Past EXCEPT ![w] = Promise!Reads(root.tree)]
  <2>1. Past = [v \in Versions |-> Past[v]] /\ Past' = [v \in Versions |-> Past'[v]]
    BY DEF Past
  <2> QED BY <1>1, <1>3, <2>1
<1>5. version < MaxVersion /\ version' = version + 1
      /\ \E c \in Trees : Past' = [Past EXCEPT ![version + 1] = Promise!Reads(c)]
  <2>1. version < MaxVersion /\ version' = version + 1
    BY <1>0, <1>1 DEF Versions
  <2>2. PICK c \in Trees : c = root.tree
    BY <1>2
  <2>3. Past' = [Past EXCEPT ![version + 1] = Promise!Reads(c)]
    BY <1>0, <1>4, <2>2
  <2> QED BY <2>1, <2>3
<1> QED BY <1>5 DEF Promise!Publish, Promise!Reads, Past

\* A vacuum takes the oldest versions away and leaves the others as they read.
LEMMA VacuumTakesPrefix ==
    ASSUME StoreInv, StoreInv', NEW k \in 1 .. version, Compacted(k)
    PROVE  Promise!Compact
<1> USE Constants
<1>1. /\ version \in 0 .. MaxVersion /\ version' = version
      /\ \A v \in Versions : Retained(v)' <=> v \in k .. version
      /\ \A v \in k .. version : Retained(v) /\ hist'[v].tree = hist[v].tree
  BY DEF Compacted, StoreInv
<1>2. ASSUME NEW v \in Versions
      PROVE  Past'[v] = IF v < k THEN Promise!Gone ELSE Past[v]
  <2>1. v \in Nat /\ k \in Nat
    BY DEF Versions
  <2>2. CASE v < k
    BY <1>1, <2>1, <2>2, PastCellNext
  <2>3. CASE v > version
    BY <1>1, <2>1, <2>3, PastCell, PastCellNext
  <2>4. CASE ~(v < k) /\ ~(v > version)
    <3>1. v \in k .. version /\ v <= version
      BY <1>1, <2>1, <2>4
    <3> QED BY <1>1, <2>1, <2>4, <3>1, PastCell, PastCellNext
  <2> QED BY <2>2, <2>3, <2>4
<1>3. Past' = [v \in Versions |-> IF v < k THEN Promise!Gone ELSE Past[v]]
  <2>1. Past' = [v \in Versions |-> Past'[v]]
    BY DEF Past
  <2> QED BY <1>2, <2>1
<1>4. /\ \E m \in 1 .. version :
           Past' = [v \in 1 .. MaxVersion |-> IF v < m THEN Promise!Gone ELSE Past[v]]
      /\ version' = version
  BY <1>1, <1>3 DEF Versions
<1> QED BY <1>4 DEF Promise!Compact, Promise!Gone, Past

\* A step of the store is a step of TimeTravel or changes nothing it shows.
LEMMA TimeTravelStep ==
    ASSUME StoreInv, StoreInv', [Next]_vars
    PROVE  Promise!TTNext \/ UNCHANGED <<version, Past>>
<1>1. CASE UNCHANGED <<version, head, hist>>
  BY <1>1 DEF Past, Status, SnapshotAtVersion, TreeAt, DataRoot, Retained, NotFound
<1>2. CASE \E ts \in Times : Commit(ts)
  BY <1>2, CommitAppends, CommitPublishes DEF Promise!TTNext
<1>3. CASE BranchNext
  <2>1. PICK ts \in Times :
             \/ \E c \in Branches, from \in 0 .. MaxVersion : CreateBranch(c, from, ts)
             \/ \E c \in Branches : DropBranch(c, ts)
             \/ \E f, i \in Branches : Merge(f, i, ts)
    BY <1>3 DEF BranchNext
  <2> QED BY <2>1, CreateAppends, DropAppends, MergeAppends, CommitPublishes DEF Promise!TTNext
<1>4. CASE VacuumNext
  BY <1>4, VacuumsCompact, VacuumTakesPrefix DEF Promise!TTNext
<1> QED BY <1>1, <1>2, <1>3, <1>4
        DEF Next, TxNext, BeginOn, InsertRow, UpdateRow, DeleteRow, EndTx, vars

\* The history of a Store refines TimeTravel: versions are published one after
\* the other, what one reads never changes, not through the replay of a vacuum
\* either, and a vacuum takes away a prefix, never the present.
THEOREM HistoryImplementsTimeTravel == Spec => ImplementsTimeTravel
<1>1. Init => version = 0 /\ Past = [v \in 1 .. MaxVersion |-> Promise!Unborn]
  <2> SUFFICES ASSUME Init PROVE version = 0 /\ Past = [v \in 1 .. MaxVersion |-> Promise!Unborn]
    OBVIOUS
  <2>1. StoreInv /\ version = 0
    BY StoreInit DEF Init
  <2>2. \A v \in Versions : Past[v] = Promise!Unborn
    BY <2>1, PastCell, Constants DEF Versions
  <2>3. Past = [v \in Versions |-> Past[v]]
    BY DEF Past
  <2> QED BY <2>1, <2>2, <2>3 DEF Versions
<1>2. Init => Promise!TTInit
  BY <1>1 DEF Promise!TTInit, Past
<1>3. StoreInv /\ StoreInv' /\ [Next]_vars => [Promise!TTNext]_<<version, Past>>
  BY TimeTravelStep
<1> QED BY <1>2, <1>3, StoreAlways, PTL DEF Spec, ImplementsTimeTravel, Promise!TTSpec, Past
----------------------------------------------------------------------------
(***************************************************************************)
(* Provenance: before the first vacuum the recorded parents are the ones   *)
(* the versions were published with.                                       *)
(***************************************************************************)
\* A step commits, vacuums, or changes nothing but the transaction.
LEMMA StepKinds ==
    ASSUME StoreInv, [Next]_vars
    PROVE  \/ UNCHANGED <<version, head, hist, refs, vacuums, origin>>
           \/ \E b, root, ts, parent, newRefs : Commits(b, root, ts, parent, newRefs)
           \/ \E k \in 1 .. version : Compacted(k)
<1>1. CASE \E ts \in Times : Commit(ts)
  BY <1>1, CommitAppends
<1>2. CASE BranchNext
  <2>1. PICK ts \in Times :
             \/ \E c \in Branches, from \in 0 .. MaxVersion : CreateBranch(c, from, ts)
             \/ \E c \in Branches : DropBranch(c, ts)
             \/ \E f, i \in Branches : Merge(f, i, ts)
    BY <1>2 DEF BranchNext
  <2> QED BY <2>1, CreateAppends, DropAppends, MergeAppends
<1>3. CASE VacuumNext
  BY <1>3, VacuumsCompact
<1> QED BY <1>1, <1>2, <1>3
        DEF Next, TxNext, BeginOn, InsertRow, UpdateRow, DeleteRow, EndTx, vars

\* A version is published with its parent, and keeps it.
LEMMA OriginAppended ==
    ASSUME StoreInv, OriginInv, NEW b, NEW root, NEW ts, NEW parent, NEW newRefs,
           Commits(b, root, ts, parent, newRefs)
    PROVE  OriginInv'
<1> USE Constants
<1>0. PICK w : w = version + 1
  OBVIOUS
<1>1. /\ version \in 0 .. MaxVersion /\ version' = w /\ w \in Versions /\ vacuums' = vacuums
      /\ \A v \in Versions : v <= version => hist'[v] = hist[v]
      /\ \A v \in Versions : Retained(v)' <=> Retained(v) \/ v = w
      /\ hist'[w].parent = parent /\ HasRoot(parent)
      /\ origin' = [origin EXCEPT ![w] = parent]
  BY <1>0 DEF Commits, Appended, StoreInv
<1>2. parent \in 0 .. w - 1
  BY <1>0, <1>1, RootsFound
<1>3. /\ DOMAIN origin' = Versions
      /\ origin'[w] = parent
      /\ \A v \in Versions : v # w => origin'[v] = origin[v]
  BY <1>1 DEF OriginInv
<1>4. OriginsOlder'
  BY <1>2, <1>3 DEF OriginInv, OriginsOlder
<1>5. ASSUME vacuums' = 0, NEW v \in 1 .. version'
      PROVE  Retained(v)' /\ hist'[v].parent = origin'[v]
  <2>1. v \in Versions /\ vacuums = 0
    BY <1>1, <1>5 DEF Versions
  <2>2. CASE v = w
    BY <1>1, <1>3, <2>2
  <2>3. CASE v # w
    <3>1. v \in 1 .. version /\ v <= version
      BY <1>0, <1>1, <1>5, <2>3
    <3> QED BY <1>1, <1>3, <2>1, <2>3, <3>1 DEF OriginInv
  <2> QED BY <2>2, <2>3
<1> QED BY <1>3, <1>4, <1>5 DEF OriginInv

\* The parents stay as published until a vacuum, in every state.
LEMMA OriginAlways == Spec => []OriginInv
<1> USE Constants
<1>1. Init => OriginInv
  BY DEF Init, OriginInv, OriginsOlder, Versions
<1>2. ASSUME StoreInv, OriginInv, [Next]_vars PROVE OriginInv'
  <2>1. CASE UNCHANGED <<version, head, hist, refs, vacuums, origin>>
    BY <1>2, <2>1 DEF OriginInv, OriginsOlder, Retained
  <2>2. CASE \E b, root, ts, parent, newRefs : Commits(b, root, ts, parent, newRefs)
    BY <1>2, <2>2, OriginAppended
  <2>3. CASE \E k \in 1 .. version : Compacted(k)
    <3>1. vacuums' # 0 /\ origin' = origin
      BY <1>2, <2>3 DEF Compacted, StoreInv
    <3> QED BY <1>2, <3>1 DEF OriginInv, OriginsOlder
  <2> QED BY <1>2, <2>1, <2>2, <2>3, StepKinds
<1> QED BY <1>1, <1>2, StoreAlways, PTL DEF Spec

(***************************************************************************)
(* What the operation that publishes a version changed, as its log of      *)
(* writes tells, and as the trees of the version and its parent tell.      *)
(***************************************************************************)
\* A log of the writes that took a tree from base: a key keeps what it held
\* when it was first written, and a key that was not written is as it was.
Logged(base, tree, log) ==
    \A k \in Keys : \/ log[k] = base[k]
                    \/ log[k] = NotWritten /\ tree[k] = base[k]

Differs(base, tree) == {k \in Keys : base[k] # tree[k]}

\* The changes of a version whose parent is still there are those between the
\* two trees, and the open transaction logs its writes on its rows.
ChangesInv ==
    /\ DOMAIN changed = Versions
    /\ \A v \in Versions :
          Retained(v) /\ HasRoot(origin[v]) =>
             changed[v] = Differs(DataRoot(origin[v]).tree, hist[v].tree)
    /\ DOMAIN before = Keys
    /\ ~Idle => /\ Logged(DataRoot(tx.parent).tree, tx.tree, before)
                /\ before[Counter] = NotWritten

\* The log of an operation tells what it changed.
LEMMA LogTells ==
    ASSUME NEW base \in Trees, NEW tree \in Trees, NEW log, Logged(base, tree, log)
    PROVE  {k \in Keys : log[k] \notin {NotWritten, tree[k]}} = Differs(base, tree)
<1>1. \A k \in Keys : base[k] # NotWritten
  BY Constants DEF Trees, NotWritten, Keys
<1> QED BY <1>1 DEF Logged, Differs

\* The first write of a key is logged, whatever is written.
LEMMA WriteLogged ==
    ASSUME ChangesInv, StoreInv, ~Idle, NEW r \in Rows, NEW c \in 0 .. MaxCell, Writes(r),
           tx'.tree = [tx.tree EXCEPT ![r] = c]
    PROVE  /\ Logged(DataRoot(tx.parent).tree, tx'.tree, before')
           /\ before'[Counter] = NotWritten /\ DOMAIN before' = Keys
<1>1. r \in Keys /\ r # Counter
  BY Constants DEF Rows, Keys, Counter
<1>2. DOMAIN tx.tree = Keys
  BY DEF StoreInv, TxOK, Trees
<1>3. /\ before'[r] = IF before[r] = NotWritten THEN tx.tree[r] ELSE before[r]
      /\ \A k \in Keys : k # r => before'[k] = before[k] /\ tx'.tree[k] = tx.tree[k]
      /\ DOMAIN before' = Keys
  BY <1>1, <1>2 DEF Writes, ChangesInv
<1>4. Logged(DataRoot(tx.parent).tree, tx.tree, before) /\ before[Counter] = NotWritten
  BY DEF ChangesInv
<1>5. Counter \in Keys
  BY Constants DEF Keys, Counter
<1>6. DataRoot(tx.parent).tree[r] # NotWritten
  <2>1. DataRoot(tx.parent).tree \in Trees
    BY RootsFound DEF StoreInv, TxOK, IsRoot
  <2> QED BY <1>1, <2>1, Constants DEF Trees, NotWritten
<1>7. before'[r] = DataRoot(tx.parent).tree[r]
  BY <1>1, <1>3, <1>4, <1>6 DEF Logged
<1> QED BY <1>1, <1>3, <1>4, <1>5, <1>7 DEF Logged

\* A step of the open transaction keeps the changes.
LEMMA ChangesWorked ==
    ASSUME StoreInv, ChangesInv, UNCHANGED <<version, head, hist, refs, vacuums, origin, changed>>,
           DOMAIN before' = Keys,
           ~Idle' => /\ Logged(DataRoot(tx'.parent).tree, tx'.tree, before')
                     /\ before'[Counter] = NotWritten
    PROVE  ChangesInv'
<1>1. \A v : (Retained(v)' <=> Retained(v)) /\ (HasRoot(v)' <=> HasRoot(v))
             /\ DataRoot(v)' = DataRoot(v)
  BY DEF Retained, HasRoot, DataRoot
<1>2. \A v \in Versions :
         Retained(v)' /\ HasRoot(origin[v])' =>
            changed[v] = Differs(DataRoot(origin[v])'.tree, hist[v].tree)
  BY <1>1 DEF ChangesInv, HasRoot, Retained, DataRoot
<1>3. ~Idle' => Logged(DataRoot(tx.parent)'.tree, tx'.tree, before')
  BY <1>1 DEF DataRoot
<1> QED BY <1>2, <1>3 DEF ChangesInv, HasRoot, Retained, DataRoot

\* A version is published with the changes of its operation, and keeps them.
LEMMA ChangesAppended ==
    ASSUME StoreInv, OriginInv, ChangesInv,
           NEW b, NEW root, NEW ts, NEW parent, NEW newRefs,
           Commits(b, root, ts, parent, newRefs),
           NEW log, Changes(log), Logged(DataRoot(parent).tree, root.tree, log)
    PROVE  ChangesInv'
<1> USE Constants
<1>0. PICK w : w = version + 1
  OBVIOUS
<1>1. /\ version' = w /\ w \in Versions /\ head' = root /\ version \in 0 .. MaxVersion
      /\ \A v : HasRoot(v) => HasRoot(v)' /\ DataRoot(v)' = DataRoot(v)
      /\ \A v \in Versions : v <= version => hist'[v] = hist[v]
      /\ \A v \in Versions : Retained(v)' <=> Retained(v) \/ v = w
      /\ root = DataRoot(w)' /\ HasRoot(parent) /\ IsRoot(root) /\ Idle'
      /\ origin' = [origin EXCEPT ![w] = parent]
  BY <1>0 DEF Commits, Appended, StoreInv, DataRoot
<1>2. /\ DOMAIN origin' = Versions /\ origin'[w] = parent /\ w # 0
      /\ \A v \in Versions : v # w => origin'[v] = origin[v]
  BY <1>1 DEF OriginInv, Versions
<1>3. hist'[w].tree = root.tree
  BY <1>1, <1>2 DEF DataRoot
<1>4. /\ DOMAIN changed' = Versions /\ before' = NoImages
      /\ changed'[w] = {k \in Keys : log[k] \notin {NotWritten, root.tree[k]}}
      /\ \A v \in Versions : v # w => changed'[v] = changed[v]
  BY <1>0, <1>1 DEF Changes, ChangesInv
<1>5. changed'[w] = Differs(DataRoot(parent).tree, root.tree)
  <2>1. DataRoot(parent).tree \in Trees /\ root.tree \in Trees
    BY <1>1, RootsFound DEF IsRoot
  <2> QED BY <1>4, <2>1, LogTells
<1>6. ASSUME NEW v \in Versions, NEW o, o = origin'[v], Retained(v)', HasRoot(o)'
      PROVE  changed'[v] = Differs(DataRoot(o)'.tree, hist'[v].tree)
  <2>1. CASE v = w
    <3>1. o = parent /\ DataRoot(o)' = DataRoot(parent)
      BY <1>1, <1>2, <1>6, <2>1
    <3> QED BY <1>3, <1>5, <2>1, <3>1
  <2>2. CASE v # w
    <3>1. Retained(v) /\ v <= version /\ hist'[v] = hist[v] /\ o = origin[v]
      BY <1>1, <1>2, <1>6, <2>2 DEF StoreInv, EntriesOK
    <3>2. o \in 0 .. v - 1
      BY <3>1 DEF OriginInv, OriginsOlder
    <3>3. HasRoot(o)
      BY <1>0, <1>1, <1>6, <3>1, <3>2 DEF HasRoot, Retained, Versions
    <3>4. DataRoot(o)' = DataRoot(o)
      BY <1>1, <3>3
    <3> QED BY <1>4, <2>2, <3>1, <3>3, <3>4 DEF ChangesInv
  <2> QED BY <2>1, <2>2
<1>7. DOMAIN before' = Keys
  BY <1>4 DEF NoImages
<1> QED BY <1>1, <1>4, <1>6, <1>7 DEF ChangesInv, HasRoot, Retained, DataRoot

\* A commit publishes with its log, which the counter it flushes joins.
LEMMA ChangesCommitted ==
    ASSUME StoreInv, OriginInv, ChangesInv, NEW ts \in Times, Commit(ts)
    PROVE  ChangesInv'
<1> DEFINE log == IF tx.next = 0 THEN before
                  ELSE [before EXCEPT ![Counter] = tx.tree[Counter]]
<1>1. ~Idle /\ Changes(log)
  BY DEF Commit
<1>2. /\ Logged(DataRoot(tx.parent).tree, tx.tree, before)
      /\ before[Counter] = NotWritten /\ DOMAIN before = Keys
  BY <1>1 DEF ChangesInv
<1>3. \A k \in Keys : /\ k # Counter => log[k] = before[k] /\ FlushedTree[k] = tx.tree[k]
                      /\ tx.next = 0 => log[k] = before[k] /\ FlushedTree[k] = tx.tree[k]
  <2>1. DOMAIN tx.tree = Keys
    BY DEF StoreInv, TxOK, Trees
  <2> QED BY <1>2, <2>1 DEF FlushedTree
<1>4. Counter \in Keys /\ (tx.next # 0 => log[Counter] = tx.tree[Counter])
  BY <1>2, Constants DEF Counter, Keys
<1>5. tx.tree[Counter] = DataRoot(tx.parent).tree[Counter]
  <2>1. DataRoot(tx.parent).tree \in Trees
    BY <1>1, RootsFound DEF StoreInv, TxOK, IsRoot
  <2>2. DataRoot(tx.parent).tree[Counter] # NotWritten
    BY <1>4, <2>1, Constants DEF Trees, NotWritten
  <2> QED BY <1>2, <1>4, <2>2 DEF Logged
<1>6. CommitRoot.tree = IF tx.dirty THEN FlushedTree ELSE tx.tree
  BY DEF CommitRoot, Root
<1> HIDE DEF log
<1>7. Logged(DataRoot(tx.parent).tree, CommitRoot.tree, log)
  BY <1>2, <1>3, <1>4, <1>5, <1>6 DEF Logged
<1>8. Commits(tx.branch, CommitRoot, ts, tx.parent, refs)
  BY CommitAppends
<1> QED BY <1>1, <1>7, <1>8, ChangesAppended

\* Creating and dropping a branch changes nothing; a merge changes what it
\* applies.
LEMMA ChangesOfBranches ==
    ASSUME StoreInv, OriginInv, ChangesInv, BranchNext
    PROVE  ChangesInv'
<1>1. ASSUME NEW tree PROVE Logged(tree, tree, NoImages)
  BY DEF Logged, NoImages
<1>2. ASSUME NEW c \in Branches, NEW from, NEW ts \in Times, CreateBranch(c, from, ts)
      PROVE  ChangesInv'
  <2>1. Changes(NoImages)
    BY <1>2 DEF CreateBranch
  <2> QED BY <1>1, <1>2, <2>1, CreateAppends, ChangesAppended
<1>3. ASSUME NEW c \in Branches, NEW ts \in Times, DropBranch(c, ts)
      PROVE  ChangesInv'
  <2>1. Changes(NoImages)
    BY <1>3 DEF DropBranch
  <2> QED BY <1>1, <1>3, <2>1, DropAppends, ChangesAppended
<1>4. ASSUME NEW f \in Branches, NEW i \in Branches, NEW ts \in Times, Merge(f, i, ts)
      PROVE  ChangesInv'
  <2> DEFINE into == DataRoot(refs[i]).tree
             log == [k \in Keys |-> IF k \in DOMAIN ToApply(f, i) THEN into[k] ELSE NotWritten]
  <2>1. Changes(log)
    BY <1>4 DEF Merge
  <2>2. PICK root : root = Root(MergeTree(f, i), version + 1)
    OBVIOUS
  <2>3. root.tree = Apply(into, ToApply(f, i))
    BY <2>2 DEF Root, MergeTree
  <2>4. DOMAIN into = Keys
    BY RootsFound DEF IsRoot, Trees
  <2>5. Logged(into, root.tree, log)
    BY <2>3, <2>4 DEF Logged, Apply
  <2>6. Commits(i, root, ts, refs[i], refs)
    BY <1>4, <2>2, MergeAppends
  <2> HIDE DEF log
  <2> QED BY <2>1, <2>5, <2>6, ChangesAppended
<1> QED BY <1>2, <1>3, <1>4 DEF BranchNext

\* A vacuum rebuilds the trees it keeps as they were.
LEMMA ChangesCompacted ==
    ASSUME StoreInv, OriginInv, ChangesInv, NEW k \in 1 .. version, Compacted(k),
           UNCHANGED <<before, changed>>
    PROVE  ChangesInv'
<1> USE Constants
<1>1. /\ origin' = origin /\ Idle' /\ version \in 0 .. MaxVersion
      /\ \A v \in Versions : Retained(v)' <=> v \in k .. version
      /\ \A v \in k .. version : Retained(v) /\ hist'[v].tree = hist[v].tree
  BY DEF Compacted, StoreInv
<1>2. ASSUME NEW v \in Versions, NEW o, o = origin[v], Retained(v)', HasRoot(o)'
      PROVE  changed[v] = Differs(DataRoot(o)'.tree, hist'[v].tree)
  <2>1. v \in k .. version /\ Retained(v) /\ hist'[v].tree = hist[v].tree
    BY <1>1, <1>2
  <2>2. o = 0 \/ (o \in Versions /\ o \in k .. version)
    BY <1>1, <1>2 DEF HasRoot, Retained
  <2>3. HasRoot(o) /\ DataRoot(o)'.tree = DataRoot(o).tree
    BY <1>1, <2>2 DEF HasRoot, DataRoot
  <2> QED BY <1>2, <2>1, <2>3 DEF ChangesInv
<1> QED BY <1>1, <1>2 DEF ChangesInv, HasRoot, Retained, DataRoot

\* The changes are told right in every state.
LEMMA ChangesAlways == Spec => []ChangesInv
<1> USE Constants
<1>1. Init => ChangesInv
  BY DEF Init, ChangesInv, Idle, Retained, NoImages
<1>2. ASSUME StoreInv, OriginInv, ChangesInv, [Next]_vars PROVE ChangesInv'
  <2>1. ASSUME NEW b \in Branches, BeginOn(b) PROVE ChangesInv'
    <3>1. /\ UNCHANGED <<version, head, hist, refs, vacuums, origin, changed>>
          /\ tx'.parent = refs[b] /\ tx'.tree = View(b) /\ before' = NoImages
      BY <2>1 DEF BeginOn
    <3>2. View(b) = DataRoot(refs[b]).tree
      BY <1>2, RootsFound DEF View
    <3>3. /\ Logged(DataRoot(refs[b]).tree, View(b), NoImages)
          /\ NoImages[Counter] = NotWritten /\ DOMAIN NoImages = Keys
      BY <3>2 DEF Logged, NoImages, Counter, Keys
    <3> QED BY <1>2, <3>1, <3>3, ChangesWorked
  <2>2. ASSUME NEW r \in Rows, NEW c \in 0 .. MaxCell, ~Idle, Writes(r),
               UNCHANGED <<version, head, hist, refs, vacuums, origin, changed>>,
               tx'.tree = [tx.tree EXCEPT ![r] = c], tx'.parent = tx.parent
        PROVE  ChangesInv'
    BY <1>2, <2>2, WriteLogged, ChangesWorked
  <2>3. ASSUME NEW explicit \in 0 .. MaxRow, NEW value \in 1 .. MaxValue,
               InsertRow(explicit, value)
        PROVE  ChangesInv'
    <3>1. PICK x : x = ResolveRowid(explicit)
      OBVIOUS
    <3>2. /\ ~Idle /\ x.rowid \in Rows /\ Writes(x.rowid)
          /\ tx' = [tx EXCEPT !.tree[x.rowid] = value, !.dirty = TRUE, !.next = x.next]
          /\ UNCHANGED <<version, head, hist, refs, vacuums, origin, changed>>
      BY <2>3, <3>1 DEF InsertRow
    <3>3. tx'.tree = [tx.tree EXCEPT ![x.rowid] = value] /\ tx'.parent = tx.parent
      BY <1>2, <3>2 DEF StoreInv, TxOK
    <3>4. value \in 0 .. MaxCell
      BY DEF MaxCell
    <3> QED BY <2>2, <3>2, <3>3, <3>4
  <2>4. ASSUME NEW rowid \in Rows, NEW value \in 0 .. MaxValue, SetsRow(rowid, value)
        PROVE  ChangesInv'
    <3>1. tx'.tree = [tx.tree EXCEPT ![rowid] = value] /\ tx'.parent = tx.parent
      BY <1>2, <2>4 DEF SetsRow, StoreInv, TxOK
    <3>2. value \in 0 .. MaxCell
      BY DEF MaxCell
    <3> QED BY <2>2, <2>4, <3>1, <3>2 DEF SetsRow
  <2>5. ASSUME NEW rowid \in Rows, NEW value \in 1 .. MaxValue, UpdateRow(rowid, value)
        PROVE  ChangesInv'
    <3>1. SetsRow(rowid, value) /\ value \in 0 .. MaxValue
      BY <2>5 DEF UpdateRow, SetsRow
    <3> QED BY <2>4, <3>1
  <2>6. ASSUME NEW rowid \in Rows, DeleteRow(rowid) PROVE ChangesInv'
    <3>1. SetsRow(rowid, Absent) /\ Absent \in 0 .. MaxValue
      BY <2>6 DEF DeleteRow, SetsRow, Absent
    <3> QED BY <2>4, <3>1
  <2>7. CASE EndTx
    <3>1. /\ UNCHANGED <<version, head, hist, refs, vacuums, origin, changed>>
          /\ DOMAIN before' = Keys /\ Idle'
      BY <2>7 DEF EndTx, NoImages, Idle
    <3> QED BY <1>2, <3>1, ChangesWorked
  <2>8. CASE UNCHANGED vars
    <3>1. UNCHANGED <<version, head, hist, refs, vacuums, origin, changed, tx, before>>
      BY <2>8 DEF vars
    <3> QED BY <1>2, <3>1, ChangesWorked DEF ChangesInv, Idle
  <2>9. CASE \E ts \in Times : Commit(ts)
    BY <1>2, <2>9, ChangesCommitted
  <2>10. CASE TxNext
    BY <2>1, <2>3, <2>5, <2>6, <2>7, <2>9, <2>10 DEF TxNext
  <2>11. CASE VacuumNext
    <3>1. UNCHANGED <<before, changed>>
      BY <2>11 DEF VacuumNext, Vacuum
    <3> QED BY <1>2, <2>11, <3>1, VacuumsCompact, ChangesCompacted
  <2> QED BY <1>2, <2>8, <2>10, <2>11, ChangesOfBranches DEF Next
<1> QED BY <1>1, <1>2, StoreAlways, OriginAlways, PTL DEF Spec

\* changes(v), read back from two trees, names the keys the operation of v left
\* different from what it found when it first wrote them, as long as v is
\* recorded under the parent it was published with: on branches, after merges
\* and through the replay of vacuums.
THEOREM ChangesStayProvenance == Spec => []ChangesAreProvenance
<1>1. ASSUME StoreInv, ChangesInv PROVE ChangesAreProvenance
  <2> SUFFICES ASSUME NEW v \in Versions, Retained(v), hist[v].parent = origin[v]
               PROVE  ChangedKeys(v) = changed[v]
    BY DEF ChangesAreProvenance
  <2>1. HasRoot(origin[v])
    BY <1>1 DEF StoreInv, EntriesOK
  <2>2. changed[v] = Differs(DataRoot(origin[v]).tree, hist[v].tree)
    BY <1>1, <2>1 DEF ChangesInv
  <2>3. v # 0 /\ DataRoot(v).tree = hist[v].tree
    BY Constants DEF Versions, DataRoot
  <2>4. ChangedKeys(v) = Differs(DataRoot(origin[v]).tree, hist[v].tree)
    BY <2>3 DEF ChangedKeys, Diff, Differs
  <2> QED BY <2>2, <2>4
<1> QED BY <1>1, StoreAlways, ChangesAlways, PTL

\* Before a vacuum the walk over recorded parents meets the lineage.
LEMMA WalkIsLineage ==
    ASSUME StoreInv, OriginInv, vacuums = 0, NEW v, HasRoot(v)
    PROVE  Walk(v) = Lineage(v)
<1> USE Constants
<1> DEFINE S == {u \in Nat : HasRoot(u) => Walk(u) = Lineage(u)}
<1>1. ASSUME NEW n \in Nat, \A m \in 0 .. n - 1 : m \in S
      PROVE  n \in S
  <2> SUFFICES ASSUME HasRoot(n) PROVE Walk(n) = Lineage(n)
    OBVIOUS
  <2>1. n \in 0 .. MaxVersion /\ n \in 0 .. version /\ ParentsOlder /\ OriginsOlder
    BY RootsFound DEF StoreInv, OriginInv
  <2>2. CASE n = 0
    BY <2>1, <2>2, WalkAt, LineageAt
  <2>3. CASE n # 0
    <3>1. Retained(n) /\ n \in Versions
      BY <2>3 DEF HasRoot, Retained
    <3>2. PICK p : p = hist[n].parent
      OBVIOUS
    <3>3. p \in 0 .. n - 1 /\ HasRoot(p)
      BY <3>1, <3>2 DEF StoreInv, EntriesOK
    <3>4. origin[n] = p
      BY <2>1, <2>3, <3>2 DEF OriginInv
    <3>5. Walk(n) = {n} \cup Walk(p)
      BY <2>1, <3>1, <3>2, WalkAt
    <3>6. Lineage(n) = {n} \cup Lineage(p)
      BY <2>1, <2>3, <3>4, LineageAt
    <3>7. Walk(p) = Lineage(p)
      BY <1>1, <3>3
    <3> QED BY <3>5, <3>6, <3>7
  <2> QED BY <2>2, <2>3
<1>2. Nat \subseteq S
  <2> HIDE DEF S
  <2> QED BY <1>1, StrongInduction
<1>3. v \in Nat
  BY RootsFound DEF StoreInv
<1> QED BY <1>2, <1>3
\* The versions of a walk that are not newer than t, and genesis.
UpTo(v, t) == {0} \cup {u \in Walk(v) \ {0} : hist[u].ts <= t}

\* AS OF TIMESTAMP finds the newest of them.
LEMMA UntilIsNewest ==
    ASSUME StoreInv, NEW t \in Times, NEW v, HasRoot(v)
    PROVE  Until(v, t) = Max(UpTo(v, t))
<1> USE Constants
<1> DEFINE OK(u) == Until(u, t) \in UpTo(u, t) /\ \A x \in UpTo(u, t) : x <= Until(u, t)
           S == {u \in Nat : HasRoot(u) => OK(u)}
<1>1. \A u \in Versions : hist[u].ts <= t \/ hist[u].parent \in 0 .. u - 1
  <2> SUFFICES ASSUME NEW u \in Versions
               PROVE  hist[u].ts <= t \/ hist[u].parent \in 0 .. u - 1
    OBVIOUS
  <2>1. CASE Retained(u)
    BY <2>1 DEF StoreInv, EntriesOK
  <2>2. CASE ~Retained(u)
    <3>1. hist[u].ts = 0
      BY <2>2 DEF Retained, NoEntry
    <3> QED BY <3>1
  <2> QED BY <2>1, <2>2
<1>2. ASSUME NEW n \in Nat, \A m \in 0 .. n - 1 : m \in S
      PROVE  n \in S
  <2> SUFFICES ASSUME HasRoot(n) PROVE OK(n)
    OBVIOUS
  <2>1. n \in 0 .. MaxVersion /\ ParentsOlder
    BY RootsFound DEF StoreInv
  <2>2. Until(n, t) = IF n = 0 \/ hist[n].ts <= t THEN n ELSE Until(hist[n].parent, t)
    BY <1>1, <2>1, UntilAt
  <2>3. n \in Walk(n) /\ \A x \in Walk(n) : x \in 0 .. n
    BY WalkFacts
  <2>4. CASE n = 0 \/ hist[n].ts <= t
    BY <2>2, <2>3, <2>4 DEF UpTo
  <2>5. CASE ~(n = 0 \/ hist[n].ts <= t)
    <3>1. Retained(n) /\ n \in Versions
      BY <2>5 DEF HasRoot, Retained
    <3>2. PICK p : p = hist[n].parent
      OBVIOUS
    <3>3. p \in 0 .. n - 1 /\ HasRoot(p)
      BY <3>1, <3>2 DEF StoreInv, EntriesOK
    <3>4. Walk(n) = {n} \cup Walk(p)
      BY <2>1, <3>1, <3>2, WalkAt
    <3>5. OK(p)
      BY <1>2, <3>3
    <3>6. UpTo(n, t) = UpTo(p, t)
      BY <2>5, <3>4 DEF UpTo
    <3>7. Until(n, t) = Until(p, t)
      BY <2>2, <2>5, <3>2
    <3> QED BY <3>5, <3>6, <3>7
  <2> QED BY <2>4, <2>5
<1>3. Nat \subseteq S
  <2> HIDE DEF S
  <2> QED BY <1>2, StrongInduction
<1>4. v \in Nat
  BY RootsFound DEF StoreInv
<1>5. OK(v)
  BY <1>3, <1>4
<1>6. UpTo(v, t) \in SUBSET (0 .. v) /\ UpTo(v, t) # {}
  BY <1>4, WalkFacts DEF UpTo
<1>7. Max(UpTo(v, t)) \in UpTo(v, t) /\ \A y \in UpTo(v, t) : Max(UpTo(v, t)) >= y
  BY <1>4, <1>6, MaxOfBounded
<1>8. PICK m \in 0 .. v : m = Max(UpTo(v, t))
  BY <1>6, <1>7
<1>9. PICK n \in 0 .. v : n = Until(v, t)
  BY <1>5, <1>6
<1>10. m <= n /\ n <= m
  BY <1>5, <1>7, <1>8, <1>9
<1> QED BY <1>4, <1>8, <1>9, <1>10

\* AS OF on a branch stays on the timeline of that branch, and finds its
\* newest version for a timestamp, until a vacuum.
THEOREM AsOfOnBranch == Spec => []AsOfStaysOnBranch
<1>1. ASSUME StoreInv, OriginInv PROVE AsOfStaysOnBranch
  <2> USE Constants
  <2> SUFFICES ASSUME vacuums = 0, NEW b \in Branches
               PROVE  /\ \A v \in 0 .. version :
                            VersionOn(b, v) # NotFound <=> v \in Lineage(refs[b])
                      /\ \A t \in Times : TimestampOn(b, t) =
                            Max({0} \cup {v \in Lineage(refs[b]) \ {0} : hist[v].ts <= t})
    BY DEF AsOfStaysOnBranch
  <2>1. PICK x : x = refs[b]
    OBVIOUS
  <2>2. HasRoot(x) /\ x \in Nat
    BY <1>1, <2>1, RootsFound, WalkFacts
  <2>3. Walk(x) = Lineage(x)
    BY <1>1, <2>2, WalkIsLineage
  <2>4. ASSUME NEW v \in 0 .. version
        PROVE  VersionOn(b, v) # NotFound <=> v \in Lineage(x)
    <3>1. x \in Walk(x) /\ \A u \in Walk(x) : u \in 0 .. x
      BY <1>1, <2>2, WalkFacts
    <3> QED BY <2>1, <2>2, <2>3, <3>1 DEF VersionOn, NotFound, IsAncestor
  <2>5. ASSUME NEW t \in Times
        PROVE  TimestampOn(b, t) = Max({0} \cup {v \in Lineage(x) \ {0} : hist[v].ts <= t})
    <3>1. TimestampOn(b, t) = Until(x, t)
      BY <2>1 DEF TimestampOn, Until
    <3>2. Until(x, t) = Max(UpTo(x, t))
      BY <1>1, <2>2, UntilIsNewest
    <3> QED BY <2>3, <3>1, <3>2 DEF UpTo
  <2> QED BY <2>1, <2>4, <2>5
<1> QED BY <1>1, StoreAlways, OriginAlways, PTL

\* A merge keeps what each side did since their newest common ancestor: a row
\* one side changed has the state of that side, a row both changed was taken to
\* the same state, the others are untouched.
THEOREM MergesKeepBothSides == Spec => MergeKeepsBothSides
<1>1. ASSUME StoreInv, StoreInv', OriginInv, NEW f \in Branches, NEW i \in Branches,
             NEW ts \in Times, Merge(f, i, ts), vacuums = 0, NEW r \in Rows
      PROVE  LET base == TreeAt(Max(Lineage(refs[f]) \cap Lineage(refs[i])))
                 from == View(f)
                 into == View(i)
             IN /\ from[r] # base[r] => View(i)'[r] = from[r]
                /\ into[r] # base[r] => View(i)'[r] = into[r]
                /\ from[r] = base[r] /\ into[r] = base[r] => View(i)'[r] = base[r]
  <2> USE Constants
  <2>1. PICK vf : vf = refs[f]
    OBVIOUS
  <2>2. PICK vi : vi = refs[i]
    OBVIOUS
  <2>3. HasRoot(vf) /\ HasRoot(vi) /\ vf \in Nat
    BY <1>1, <2>1, <2>2, RootsFound, WalkFacts
  <2>4. PICK X : X = Walk(vf) \cap Walk(vi)
    OBVIOUS
  <2>5. X = Lineage(refs[f]) \cap Lineage(refs[i])
    BY <1>1, <2>1, <2>2, <2>3, <2>4, WalkIsLineage
  <2>6. PICK mb : mb = MergeBase(vf, vi)
    OBVIOUS
  <2>7. mb \in X /\ HasRoot(mb) /\ \A u \in X : u <= mb
    BY <1>1, <2>3, <2>4, <2>6, MergeBaseFound
  <2>8. X \in SUBSET (0 .. vf)
    BY <1>1, <2>3, <2>4, WalkFacts
  <2>9. Max(X) = mb
    <3>1. Max(X) \in X /\ \A y \in X : Max(X) >= y
      BY <2>3, <2>7, <2>8, MaxOfBounded
    <3>2. PICK m \in 0 .. vf : m = Max(X)
      BY <2>8, <3>1
    <3>3. mb \in 0 .. vf
      BY <2>7, <2>8
    <3>4. m <= mb /\ mb <= m
      BY <2>7, <3>1, <3>2
    <3> QED BY <2>3, <3>2, <3>3, <3>4
  <2>10. BaseTree(f, i) = TreeAt(mb)
    BY <1>1, <2>1, <2>2, <2>6 DEF BaseTree, TreeAt, StoreInv
  <2>11. View(f) = DataRoot(refs[f]).tree /\ View(i) = DataRoot(refs[i]).tree
    BY <1>1, ViewIsRoot
  <2>12. View(i)' = MergeTree(f, i)
    <3>1. PICK root : root = Root(MergeTree(f, i), version + 1)
      OBVIOUS
    <3>2. Commits(i, root, ts, refs[i], refs)
      BY <1>1, <3>1, MergeAppends
    <3>3. refs'[i] = version' /\ root = DataRoot(version)'
      BY <3>2 DEF Commits, Appended
    <3>4. View(i)' = root.tree
      BY <1>1, <3>3, ViewIsRoot DEF DataRoot
    <3> QED BY <3>1, <3>4 DEF Root
  <2>13. r \in Keys \ {Counter} /\ Conflicts(f, i) = {}
    BY <1>1 DEF Rows, Keys, Counter, Merge
  <2>14. /\ MergeTree(f, i)[r] = MergedCell(TreeAt(mb), View(f), View(i), r)
         /\ \/ View(f)[r] = TreeAt(mb)[r]
            \/ View(i)[r] = TreeAt(mb)[r]
            \/ View(f)[r] = View(i)[r]
    BY <1>1, <2>10, <2>11, <2>13, MergedCells
  <2>15. PICK base : base = TreeAt(Max(Lineage(refs[f]) \cap Lineage(refs[i])))
    OBVIOUS
  <2>16. base = TreeAt(mb)
    BY <2>5, <2>9, <2>15
  <2>17. /\ View(f)[r] # base[r] => View(i)'[r] = View(f)[r]
         /\ View(i)[r] # base[r] => View(i)'[r] = View(i)[r]
         /\ View(f)[r] = base[r] /\ View(i)[r] = base[r] => View(i)'[r] = base[r]
    BY <2>12, <2>13, <2>14, <2>16 DEF MergedCell
  <2> QED BY <2>15, <2>17
<1>2. ASSUME StoreInv, StoreInv', OriginInv
      PROVE  [\A f, i \in Branches, ts \in Times :
                Merge(f, i, ts) /\ vacuums = 0 =>
                   LET base == TreeAt(Max(Lineage(refs[f]) \cap Lineage(refs[i])))
                       from == View(f)
                       into == View(i)
                   IN \A r \in Rows :
                         /\ from[r] # base[r] => View(i)'[r] = from[r]
                         /\ into[r] # base[r] => View(i)'[r] = into[r]
                         /\ from[r] = base[r] /\ into[r] = base[r]
                               => View(i)'[r] = base[r]]_vars
  BY <1>1, <1>2, Zenon
<1> QED BY <1>2, StoreAlways, OriginAlways, PTL DEF MergeKeepsBothSides
----------------------------------------------------------------------------
(***************************************************************************)
(* Rowids stay below the counter.  The counter never goes back along a     *)
(* timeline, so a merge base is not ahead of either side and the greater   *)
(* counter wins a merge.                                                   *)
(***************************************************************************)
\* Cells are natural numbers.
LEMMA Cells ==
    ASSUME StoreInv
    PROVE  /\ MaxCell \in Nat /\ Counter \in Keys /\ Rows \subseteq Keys /\ Counter \notin Rows
           /\ \A tree \in Trees, k \in Keys : tree[k] \in 0 .. MaxCell
           /\ \A v, k : HasRoot(v) /\ k \in Keys => DataRoot(v).tree[k] \in 0 .. MaxCell
<1>1. MaxCell \in Nat /\ Counter \in Keys /\ Rows \subseteq Keys /\ Counter \notin Rows
  BY Constants DEF MaxCell, Counter, Keys, Rows
<1>2. \A tree \in Trees, k \in Keys : tree[k] \in 0 .. MaxCell
  BY DEF Trees, MaxCell
<1> QED BY <1>1, <1>2, RootsFound DEF IsRoot

\* Rows of tree are below n.
RowsBelow(tree, n) == \A r \in Rows : tree[r] # Absent => r < n

\* The versions there are have their rows below their counters.
LEMMA RootsAhead ==
    ASSUME StoreInv, RowInv, vacuums = 0, NEW v, HasRoot(v)
    PROVE  RowsBelow(DataRoot(v).tree, DataRoot(v).tree[Counter])
<1>1. CASE v = 0
  BY <1>1, Cells DEF DataRoot, Genesis, EmptyTree, RowsBelow
<1>2. CASE v # 0
  <2>1. Retained(v) /\ v \in Versions
    BY <1>2 DEF HasRoot, Retained
  <2> QED BY <1>2, <2>1 DEF RowInv, CounterAhead, DataRoot, RowsBelow
<1> QED BY <1>1, <1>2

\* The counter of an ancestor is not ahead.
LEMMA CountersGrow ==
    ASSUME StoreInv, RowInv, vacuums = 0, NEW v, HasRoot(v), NEW a \in Walk(v)
    PROVE  DataRoot(a).tree[Counter] <= DataRoot(v).tree[Counter]
<1> USE Constants
<1> DEFINE C(u) == DataRoot(u).tree[Counter]
           S == {u \in Nat : HasRoot(u) => \A x \in Walk(u) : C(x) <= C(u)}
<1>0. \A u : HasRoot(u) => C(u) \in Nat
  BY Cells
<1>1. ASSUME NEW n \in Nat, \A m \in 0 .. n - 1 : m \in S
      PROVE  n \in S
  <2> SUFFICES ASSUME HasRoot(n), NEW x \in Walk(n) PROVE C(x) <= C(n)
    OBVIOUS
  <2>1. n \in 0 .. MaxVersion /\ ParentsOlder /\ HasRoot(x)
    BY RootsFound, WalkFacts DEF StoreInv
  <2>2. CASE x = n
    BY <1>0, <2>2
  <2>3. CASE x # n
    <3>1. n # 0
      BY <2>1, <2>3, WalkAt
    <3>2. Retained(n) /\ n \in Versions
      BY <3>1 DEF HasRoot, Retained
    <3>3. PICK p : p = hist[n].parent
      OBVIOUS
    <3>4. p \in 0 .. n - 1 /\ HasRoot(p)
      BY <3>2, <3>3 DEF StoreInv, EntriesOK
    <3>5. Walk(n) = {n} \cup Walk(p)
      BY <2>1, <3>2, <3>3, WalkAt
    <3>6. C(x) <= C(p)
      BY <1>1, <2>3, <3>4, <3>5
    <3>7. C(p) <= C(n)
      BY <3>1, <3>2, <3>3 DEF RowInv, CounterAhead, DataRoot
    <3>8. C(x) \in Nat /\ C(p) \in Nat /\ C(n) \in Nat
      BY <1>0, <2>1, <3>4
    <3> HIDE DEF C
    <3> QED BY <3>6, <3>7, <3>8
  <2> QED BY <2>2, <2>3
<1>2. Nat \subseteq S
  <2> HIDE DEF S
  <2> QED BY <1>1, StrongInduction
<1>3. v \in Nat
  BY RootsFound DEF StoreInv
<1> QED BY <1>2, <1>3

\* A commit of a tree with its rows below its counter, and that counter not
\* below its parent's, keeps the invariant.
LEMMA RowsAppended ==
    ASSUME StoreInv, RowInv, NEW b, NEW root, NEW ts, NEW parent, NEW newRefs,
           Commits(b, root, ts, parent, newRefs),
           vacuums = 0 => /\ RowsBelow(root.tree, root.tree[Counter])
                          /\ DataRoot(parent).tree[Counter] <= root.tree[Counter]
    PROVE  RowInv'
<1> USE Constants
<1>0. PICK w : w = version + 1
  OBVIOUS
<1>1. /\ version' = w /\ vacuums' = vacuums /\ Idle' /\ w \in Versions
      /\ \A v : HasRoot(v) => DataRoot(v)' = DataRoot(v)
      /\ \A v \in Versions : v <= version => hist'[v] = hist[v]
      /\ \A v \in Versions : Retained(v)' <=> Retained(v) \/ v = w
      /\ hist'[w].parent = parent /\ HasRoot(parent)
  BY <1>0 DEF Commits, Appended
<1>2. root = DataRoot(w)' /\ w # 0
  BY <1>0, <1>1 DEF Commits, Appended, DataRoot, Versions
<1> SUFFICES ASSUME vacuums = 0, NEW v \in Versions, Retained(v)'
             PROVE  CounterAhead(v)'
  BY <1>1 DEF RowInv
<1>3. CASE v = w
  <2>1. hist'[w].tree = root.tree
    BY <1>2 DEF DataRoot
  <2>2. (DataRoot(hist[w].parent))' = DataRoot(parent)
    BY <1>1 DEF DataRoot
  <2> QED BY <1>3, <2>1, <2>2 DEF CounterAhead, RowsBelow
<1>4. CASE v # w
  <2>1. Retained(v)
    BY <1>1, <1>4
  <2>2. v <= version /\ CounterAhead(v)
    BY <2>1 DEF StoreInv, EntriesOK, RowInv
  <2>3. hist'[v] = hist[v]
    BY <1>1, <2>2
  <2>4. PICK p : p = hist[v].parent
    OBVIOUS
  <2>5. HasRoot(p)
    BY <2>1, <2>4 DEF StoreInv, EntriesOK
  <2>6. (DataRoot(hist[v].parent))' = DataRoot(p)
    <3>1. (DataRoot(hist[v].parent))' = DataRoot(p)'
      BY <2>3, <2>4 DEF DataRoot
    <3> QED BY <1>1, <2>5, <3>1
  <2> QED BY <2>2, <2>3, <2>4, <2>6 DEF CounterAhead
<1> QED BY <1>3, <1>4

\* What a transaction commits.
LEMMA CommitRows ==
    ASSUME StoreInv, RowInv, vacuums = 0, ~Idle
    PROVE  /\ RowsBelow(CommitRoot.tree, CommitRoot.tree[Counter])
           /\ DataRoot(tx.parent).tree[Counter] <= CommitRoot.tree[Counter]
<1> USE Constants
<1>1. TxCounter
  BY DEF RowInv
<1>2. PICK tree : tree = CommitRoot.tree
  OBVIOUS
<1>3. /\ tree[Counter] = IF tx.next = 0 THEN tx.tree[Counter] ELSE tx.next
      /\ \A r \in Rows : tree[r] = tx.tree[r]
  <2>1. CASE tx.dirty
    <3>1. CommitRoot = Root(FlushedTree, version + 1)
      BY <2>1 DEF CommitRoot
    <3>2. tree = FlushedTree
      BY <1>2, <3>1 DEF Root
    <3> QED BY <3>2, FlushedTrees
  <2>2. CASE ~tx.dirty
    <3>1. CommitRoot = [page |-> tx.page, tree |-> tx.tree]
      BY <2>2 DEF CommitRoot
    <3>2. tree = tx.tree /\ tx.next = 0
      BY <1>1, <1>2, <2>2, <3>1 DEF TxCounter
    <3> QED BY <3>2
  <2> QED BY <2>1, <2>2
<1>4. /\ tx.tree[Counter] \in Nat /\ tx.next \in Nat
      /\ NextRowid = IF tx.next # 0 THEN tx.next
                     ELSE IF tx.tree[Counter] = 0 THEN 1 ELSE tx.tree[Counter]
  BY NextRowids
<1>5. ASSUME NEW r \in Rows, tree[r] # Absent PROVE r < tree[Counter]
  <2>1. r < NextRowid /\ r \in Nat /\ r >= 1
    BY <1>1, <1>3, <1>5 DEF TxCounter, Rows
  <2> QED BY <1>3, <1>4, <2>1
<1>6. DataRoot(tx.parent).tree[Counter] <= tree[Counter]
  BY <1>1, <1>3, <1>4 DEF TxCounter
<1> QED BY <1>2, <1>5, <1>6 DEF RowsBelow

\* What a merge writes.
LEMMA MergeRows ==
    ASSUME StoreInv, RowInv, vacuums = 0, NEW f \in Branches, NEW i \in Branches
    PROVE  /\ RowsBelow(MergeTree(f, i), MergeTree(f, i)[Counter])
           /\ DataRoot(refs[i]).tree[Counter] <= MergeTree(f, i)[Counter]
<1> USE Constants
<1>1. PICK s : s = DataRoot(refs[f]).tree
  OBVIOUS
<1>2. PICK t : t = DataRoot(refs[i]).tree
  OBVIOUS
<1>3. PICK base : base = BaseTree(f, i)
  OBVIOUS
<1>4. s \in Trees /\ t \in Trees /\ base \in Trees
      /\ \A k \in Keys : MergeTree(f, i)[k] = MergedCell(base, s, t, k)
  BY <1>1, <1>2, <1>3, MergedCells
<1>5. HasRoot(refs[f]) /\ HasRoot(refs[i])
  BY RootsFound
<1>6. RowsBelow(s, s[Counter]) /\ RowsBelow(t, t[Counter])
  BY <1>1, <1>2, <1>5, RootsAhead
<1>7. base[Counter] <= s[Counter] /\ base[Counter] <= t[Counter]
  <2>1. PICK mb : mb = MergeBase(refs[f], refs[i])
    OBVIOUS
  <2>2. mb \in Walk(refs[f]) /\ mb \in Walk(refs[i])
    BY <1>5, <2>1, MergeBaseFound
  <2> QED BY <1>1, <1>2, <1>3, <1>5, <2>1, <2>2, CountersGrow DEF BaseTree
<1>8. /\ s[Counter] \in Nat /\ t[Counter] \in Nat /\ base[Counter] \in Nat
      /\ Counter \in Keys /\ Rows \subseteq Keys /\ Counter \notin Rows
  BY <1>4, Cells
<1>9. MergeTree(f, i)[Counter] = IF s[Counter] >= t[Counter] THEN s[Counter] ELSE t[Counter]
  BY <1>4, <1>7, <1>8 DEF MergedCell, Absent
<1>10. \A r \in Rows : MergeTree(f, i)[r] \in {s[r], t[r]} /\ r \in Nat
  BY <1>4, <1>8 DEF MergedCell, Rows
<1> QED BY <1>2, <1>6, <1>8, <1>9, <1>10 DEF RowsBelow
\* A statement of a transaction that keeps the counter of its tree and has its
\* rows below the counter it works with.
LEMMA RowsWorked ==
    ASSUME StoreInv, RowInv, UNCHANGED <<version, head, hist, refs, vacuums, origin>>,
           vacuums = 0 /\ ~Idle' => TxCounter'
    PROVE  RowInv'
  BY DEF RowInv, Retained, CounterAhead, DataRoot

\* Setting a row of a transaction.
LEMMA RowsSet ==
    ASSUME StoreInv, RowInv, vacuums = 0, NEW rowid \in Rows, NEW value, SetsRow(rowid, value),
           tx.tree[rowid] # Absent
    PROVE  TxCounter'
<1> USE Constants
<1>1. TxCounter /\ ~Idle /\ hist' = hist
  BY DEF RowInv, SetsRow
<1>2. tx \in [branch : Branches, parent : -1 .. MaxVersion, page : 0 .. MaxVersion,
              tree : Trees, next : 0 .. MaxCell, dirty : BOOLEAN]
  BY DEF StoreInv, TxOK
<1>3. tx' = [tx EXCEPT !.tree[rowid] = value, !.dirty = TRUE]
  BY DEF SetsRow
<1>4. /\ tx'.tree = [tx.tree EXCEPT ![rowid] = value] /\ tx'.dirty = TRUE
      /\ tx'.next = tx.next /\ tx'.parent = tx.parent
  BY <1>2, <1>3
<1>5. tx.tree \in Trees /\ Rows \subseteq Keys /\ Counter \in Keys /\ Counter \notin Rows
  BY <1>2, Cells
<1>6. /\ tx'.tree[Counter] = tx.tree[Counter]
      /\ \A r \in Rows : r # rowid => tx'.tree[r] = tx.tree[r]
  BY <1>4, <1>5 DEF Trees
<1>7. NextRowid' = NextRowid
  BY <1>4, <1>6 DEF NextRowid
<1>8. (DataRoot(tx.parent))' = DataRoot(tx.parent)
  BY <1>1, <1>4 DEF DataRoot
<1>9. \A r \in Rows : tx'.tree[r] # Absent => r < NextRowid'
  BY <1>1, <1>6, <1>7 DEF TxCounter
<1> QED BY <1>1, <1>4, <1>6, <1>8, <1>9 DEF TxCounter

\* Inserting a row, which moves the counter past it.
LEMMA RowsInserted ==
    ASSUME StoreInv, RowInv, vacuums = 0, NEW explicit \in 0 .. MaxRow, NEW value,
           InsertRow(explicit, value)
    PROVE  TxCounter'
<1> USE Constants
<1>1. PICK q : q = ResolveRowid(explicit)
  OBVIOUS
<1>2. /\ ~Idle /\ q.rowid \in Rows /\ hist' = hist
      /\ tx' = [tx EXCEPT !.tree[q.rowid] = value, !.dirty = TRUE, !.next = q.next]
  BY <1>1 DEF InsertRow
<1>3. TxCounter
  BY <1>2 DEF RowInv
<1>4. PICK rowid \in Rows : rowid = q.rowid
  BY <1>2
<1>5. PICK next \in 1 .. MaxCell : next = q.next
  BY <1>1, <1>2, Resolved
<1>6. next = IF NextRowid >= rowid + 1 THEN NextRowid ELSE rowid + 1
  BY <1>1, <1>2, <1>4, <1>5, Resolved
<1>7. tx \in [branch : Branches, parent : -1 .. MaxVersion, page : 0 .. MaxVersion,
              tree : Trees, next : 0 .. MaxCell, dirty : BOOLEAN]
  BY DEF StoreInv, TxOK
<1>8. /\ tx'.tree = [tx.tree EXCEPT ![rowid] = value] /\ tx'.dirty = TRUE
      /\ tx'.next = next /\ tx'.parent = tx.parent
  BY <1>2, <1>4, <1>5, <1>7
<1>9. tx.tree \in Trees /\ Rows \subseteq Keys /\ Counter \in Keys /\ Counter \notin Rows
  BY <1>7, Cells
<1>10. /\ tx'.tree[Counter] = tx.tree[Counter]
       /\ \A r \in Rows : r # rowid => tx'.tree[r] = tx.tree[r]
  BY <1>8, <1>9 DEF Trees
<1>11. /\ tx.tree[Counter] \in Nat /\ tx.next \in Nat /\ NextRowid \in Nat /\ MaxCell \in Nat
       /\ NextRowid = IF tx.next # 0 THEN tx.next
                      ELSE IF tx.tree[Counter] = 0 THEN 1 ELSE tx.tree[Counter]
  BY NextRowids
<1>12. NextRowid >= tx.tree[Counter]
  BY <1>3, <1>11 DEF TxCounter
<1>13. next \in Nat /\ next # 0 /\ next >= NextRowid /\ next > rowid /\ rowid \in Nat
  BY <1>6, <1>11 DEF Rows
<1>14. NextRowid' = next
  BY <1>8, <1>13 DEF NextRowid
<1>15. ASSUME NEW r \in Rows, tx'.tree[r] # Absent PROVE r < NextRowid'
  <2>1. CASE r = rowid
    BY <1>13, <1>14, <2>1
  <2>2. CASE r # rowid
    <3>1. r < NextRowid /\ r \in Nat
      BY <1>3, <1>10, <1>15, <2>2 DEF TxCounter, Rows
    <3> QED BY <1>11, <1>13, <1>14, <3>1
  <2> QED BY <2>1, <2>2
<1>16. (DataRoot(tx.parent))' = DataRoot(tx.parent)
  BY <1>2, <1>8 DEF DataRoot
<1>17. tx'.next >= tx'.tree[Counter]
  BY <1>8, <1>10, <1>11, <1>12, <1>13
<1> QED BY <1>3, <1>8, <1>10, <1>15, <1>16, <1>17 DEF TxCounter

\* Every step keeps rows below counters.
LEMMA RowStep == StoreInv /\ RowInv /\ [Next]_vars => RowInv'
<1> SUFFICES ASSUME StoreInv, RowInv, [Next]_vars PROVE RowInv'
  OBVIOUS
<1> USE Constants
<1>1. ASSUME NEW b \in Branches, BeginOn(b) PROVE RowInv'
  <2>1. /\ UNCHANGED <<version, head, hist, refs, vacuums, origin>>
        /\ tx'.parent = refs[b] /\ tx'.tree = DataRoot(refs[b]).tree
        /\ tx'.next = 0 /\ tx'.dirty = FALSE
    BY <1>1, RootsFound DEF BeginOn, View
  <2>2. PICK x : x = refs[b]
    OBVIOUS
  <2>3. HasRoot(x)
    BY <2>2, RootsFound
  <2>4. (DataRoot(tx.parent))' = DataRoot(x)
    BY <2>1, <2>2 DEF DataRoot
  <2>5. PICK c \in 0 .. MaxCell : c = tx'.tree[Counter]
    BY <2>1, <2>2, <2>3, Cells
  <2>6. NextRowid' = Max({1, c})
    BY <2>1, <2>5 DEF NextRowid
  <2>7. Max({1, c}) = (IF 1 >= c THEN 1 ELSE c) /\ c \in Nat
    BY MaxOfTwo, Cells
  <2>8. vacuums = 0 => RowsBelow(tx'.tree, c)
    BY <2>1, <2>2, <2>3, <2>5, RootsAhead
  <2>9. ASSUME vacuums = 0, NEW r \in Rows, tx'.tree[r] # Absent PROVE r < NextRowid'
    <3>1. r < c /\ r \in Nat
      BY <2>8, <2>9 DEF RowsBelow, Rows
    <3> QED BY <2>6, <2>7, <3>1
  <2>10. vacuums = 0 => TxCounter'
    BY <2>1, <2>2, <2>4, <2>9 DEF TxCounter
  <2> QED BY <2>1, <2>10, RowsWorked
<1>2. ASSUME NEW explicit \in 0 .. MaxRow, NEW value \in 1 .. MaxValue, InsertRow(explicit, value)
      PROVE  RowInv'
  BY <1>2, RowsInserted, RowsWorked DEF InsertRow
<1>3. ASSUME NEW rowid \in Rows, NEW value, SetsRow(rowid, value), tx.tree[rowid] # Absent
      PROVE  RowInv'
  BY <1>3, RowsSet, RowsWorked DEF SetsRow
<1>4. ASSUME NEW rowid \in Rows, NEW value \in 1 .. MaxValue, UpdateRow(rowid, value)
      PROVE  RowInv'
  <2>1. SetsRow(rowid, value) /\ tx.tree[rowid] # Absent
    BY <1>4 DEF UpdateRow, SetsRow
  <2> QED BY <1>3, <2>1
<1>5. ASSUME NEW rowid \in Rows, DeleteRow(rowid) PROVE RowInv'
  <2>1. SetsRow(rowid, Absent) /\ tx.tree[rowid] # Absent
    BY <1>5 DEF DeleteRow, SetsRow
  <2> QED BY <1>3, <2>1
<1>6. ASSUME NEW ts \in Times, Commit(ts) PROVE RowInv'
  <2>1. ~Idle
    BY <1>6 DEF Commit
  <2> QED BY <1>6, <2>1, CommitAppends, CommitRows, RowsAppended
<1>7. CASE EndTx
  BY <1>7, RowsWorked DEF EndTx, Idle
<1>8. CASE UNCHANGED vars
  BY <1>8 DEF vars, RowInv, Retained, CounterAhead, DataRoot, Idle, TxCounter, NextRowid
<1>9. ASSUME NEW v, HasRoot(v)
      PROVE  vacuums = 0 => /\ RowsBelow(DataRoot(v).tree, DataRoot(v).tree[Counter])
                            /\ DataRoot(v).tree[Counter] <= DataRoot(v).tree[Counter]
  BY <1>9, RootsAhead, Cells
<1>10. ASSUME NEW ts \in Times, NEW b \in Branches, NEW from \in 0 .. MaxVersion,
              CreateBranch(b, from, ts)
       PROVE  RowInv'
  <2>1. HasRoot(from)
    BY <1>10 DEF CreateBranch
  <2> QED BY <1>9, <1>10, <2>1, CreateAppends, RowsAppended
<1>11. ASSUME NEW ts \in Times, NEW b \in Branches, DropBranch(b, ts) PROVE RowInv'
  <2>1. HasRoot(refs[Main])
    BY RootsFound
  <2> QED BY <1>9, <1>11, <2>1, DropAppends, RowsAppended
<1>12. ASSUME NEW ts \in Times, NEW f \in Branches, NEW i \in Branches, Merge(f, i, ts)
       PROVE  RowInv'
  <2>1. PICK root : root = Root(MergeTree(f, i), version + 1)
    OBVIOUS
  <2>2. root.tree = MergeTree(f, i)
    BY <2>1 DEF Root
  <2>3. Commits(i, root, ts, refs[i], refs)
    BY <1>12, <2>1, MergeAppends
  <2> QED BY <2>2, <2>3, MergeRows, RowsAppended
<1>13. CASE VacuumNext
  <2>1. vacuums' # 0
    BY <1>13, VacuumsCompact DEF Compacted, StoreInv
  <2> QED BY <2>1 DEF RowInv
<1> QED BY <1>1, <1>2, <1>4, <1>5, <1>6, <1>7, <1>8, <1>10, <1>11, <1>12, <1>13
        DEF Next, TxNext, BranchNext

\* The counter of a table stays above every rowid, in every version, on every
\* branch and after every merge, until a vacuum: resolve_rowid, which hands the
\* counter out without a look, overwrites no row.
THEOREM CountersStayAhead == Spec => []RowidsBelowCounter
<1>1. Init => RowInv
  BY DEF Init, RowInv, Retained, Idle
<1>2. RowInv => RowidsBelowCounter
  BY DEF RowInv, CounterAhead, TxCounter, RowidsBelowCounter
<1>3. Spec => []RowInv
  BY <1>1, RowStep, StoreAlways, PTL DEF Spec
<1> QED BY <1>2, <1>3, PTL
============================================================================
