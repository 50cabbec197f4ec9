------------------------------- MODULE BTree -------------------------------
(***************************************************************************)
(* The copy-on-write B-tree (src/src/btree/mod.rs, node.rs) over the pages *)
(* of a write transaction (TxStore of src/src/tx.rs): insert with the      *)
(* append cursor, split, delete, overflow chains, range scan, prefix scan, *)
(* diff, savepoints, commit and rollback.                                  *)
(*                                                                         *)
(* A key is a number; keys with the same Stem share a common prefix long   *)
(* enough to be stored once per leaf.  Sizes are counted in units: a stem  *)
(* takes StemSize, the rest of a cell one unit, so the size of a leaf      *)
(* depends on its keys as in encode_leaf.  A page id names a page of the   *)
(* file (below base) or a dirty page of the transaction.                   *)
(***************************************************************************)
EXTENDS Integers, Sequences, FiniteSets, SequencesExt

CONSTANTS
    Stems,           \* common prefixes, as numbers
    PerStem,         \* keys of each stem
    Values,          \* values stored in their cell
    BigValues,       \* values stored in an overflow chain
    BigStems,        \* stems whose keys may have big values
    StemSize,        \* length of a stem
    LeafSize,        \* room of a leaf
    InnerCells,      \* separators an inner node can hold
    ChainPages,      \* pages of an overflow chain
    MaxPage,         \* bound: page ids
    Loads,           \* keys that the first transaction inserts, in order
    MaxOps,          \* bound: inserts and deletes after them
    MaxCommits,      \* bound: commits
    MaxSavepoints,   \* bound: savepoints open at once
    StaleAppends     \* whether a key may be appended through a stale cursor

Keys == {10 * s + i : s \in Stems, i \in 1 .. PerStem}
Stem(k) == k \div 10
\* A stem, as a bound below every key that has it.
StemBound(s) == 10 * s
Infinity == 1000000
PageIds == 1 .. MaxPage + 12

ASSUME SizesAssumption ==
    /\ Stems \subseteq Nat \ {0} /\ PerStem \in 1 .. 9
    /\ Values \cap BigValues = {}
    /\ StemSize \in Nat /\ LeafSize >= 2 * (StemSize + 1)
    /\ InnerCells \in Nat \ {0, 1} /\ ChainPages \in Nat \ {0}

VARIABLES
    pages,       \* page id -> content, of the file and of the transaction
    dirty,       \* ids of TxStore.dirty
    freed,       \* TxStore.freed, a stack
    base, next,  \* TxStore.alloc_base, alloc_next
    cursor,      \* TxStore.append_cursor
    root,        \* WriteTx.data_root
    savepoints,  \* WriteTx.savepoints
    load,        \* inserts of Loads still to do
    ops,         \* inserts and deletes after them
    map,         \* the map the tree stands for (history)
    versions     \* committed roots with their maps (history)

vars == <<pages, dirty, freed, base, next, cursor, root, savepoints, load, ops,
          map, versions>>

----------------------------------------------------------------------------
(***************************************************************************)
(* Pages.                                                                  *)
(***************************************************************************)
NoRoot   == 0
Zeroed   == [kind |-> "zero"]
\* cut is a history field: a delete has moved the end of the leaf.
NoCursor == [root |-> NoRoot, leaf |-> NoRoot, end |-> 0, last |-> 0, cut |-> FALSE]
NoTail   == [leaf |-> NoRoot, end |-> 0]

\* The common prefix is stored once when first and last key share it.
Packs(cells) ==
    Len(cells) >= 2 /\ Stem(cells[1].key) = Stem(cells[Len(cells)].key)

\* Room that n cells take.
CellRoom(packed, n) ==
    IF packed THEN StemSize + n ELSE n * (StemSize + 1)

\* hole is unused room between cells, which parse_leaf cannot step over.
Leaf(cells, packed, hole) ==
    [kind |-> "leaf", cells |-> cells, packed |-> packed, hole |-> hole]
Used(leaf) == CellRoom(leaf.packed, Len(leaf.cells)) + leaf.hole

Inner(cells, rightmost) ==
    [kind |-> "inner", cells |-> cells, rightmost |-> rightmost]

Inline(v)  == [kind |-> "inline", value |-> v]
Chain(id)  == [kind |-> "chain", first |-> id]

LeafFits(cells) == CellRoom(Packs(cells), Len(cells)) <= LeafSize
InnerFits(cells) == Len(cells) <= InnerCells

\* The pages of a store, as a value that the operators below thread through.
Store == [pages |-> pages, dirty |-> dirty, freed |-> freed, next |-> next]

Alloc(s) ==
    LET id == IF s.freed = <<>> THEN s.next ELSE Last(s.freed)
    IN [id |-> id,
        s |-> [pages |-> [s.pages EXCEPT ![id] = Zeroed],
               dirty |-> s.dirty \cup {id},
               freed |-> IF s.freed = <<>> THEN <<>> ELSE Front(s.freed),
               next |-> IF s.freed = <<>> THEN s.next + 1 ELSE s.next]]

\* Variant of MakeDirty: a leaf is written where it is.
MakeDirtyInPlace(s, id) ==
    IF id \in s.dirty \/ s.pages[id].kind = "leaf" THEN [id |-> id, s |-> s]
    ELSE LET a == Alloc(s)
         IN [id |-> a.id, s |-> [a.s EXCEPT !.pages[a.id] = s.pages[id]]]

\* A copy of a page of the file; a page of the transaction is its own copy.
MakeDirty(s, id) ==
    IF id \in s.dirty THEN [id |-> id, s |-> s]
    ELSE LET a == Alloc(s)
         IN [id |-> a.id, s |-> [a.s EXCEPT !.pages[a.id] = s.pages[id]]]

Write(s, id, node) == [s EXCEPT !.pages[id] = node]

\* Only a page of the transaction is given back: the others are history.
Free(s, id) ==
    IF id \in s.dirty
    THEN [s EXCEPT !.dirty = @ \ {id}, !.freed = Append(@, id),
                   !.pages[id] = Zeroed]
    ELSE s

----------------------------------------------------------------------------
(***************************************************************************)
(* Reading.                                                                *)
(***************************************************************************)
\* Variant of ChildIndex: a separator belongs to the left of it.
ChildIndexLeft(node, k) ==
    1 + Cardinality({i \in DOMAIN node.cells : node.cells[i].key < k})

\* Index of the child of an inner node that covers k: one past the
\* separators that are at most k.
ChildIndex(node, k) ==
    1 + Cardinality({i \in DOMAIN node.cells : node.cells[i].key <= k})
ChildAt(node, i) ==
    IF i <= Len(node.cells) THEN node.cells[i].child ELSE node.rightmost

\* Index of the first cell of a leaf that is not below k.
LowerBound(leaf, k) ==
    1 + Cardinality({i \in DOMAIN leaf.cells : leaf.cells[i].key < k})

RECURSIVE ReadChain(_, _)
ReadChain(pg, id) ==
    IF id = NoRoot THEN {}
    ELSE {pg[id].data} \cup ReadChain(pg, pg[id].next)

ReadValue(pg, payload) ==
    IF payload.kind = "inline" THEN payload.value
    ELSE CHOOSE v \in ReadChain(pg, payload.first) : TRUE

NotFound == [found |-> FALSE]

RECURSIVE Get(_, _, _)
Get(pg, id, k) ==
    IF id = NoRoot THEN NotFound
    ELSE IF pg[id].kind = "inner"
    THEN Get(pg, ChildAt(pg[id], ChildIndex(pg[id], k)), k)
    ELSE LET i == LowerBound(pg[id], k)
         IN IF i <= Len(pg[id].cells) /\ pg[id].cells[i].key = k
            THEN [found |-> TRUE,
                  value |-> ReadValue(pg, pg[id].cells[i].payload)]
            ELSE NotFound

\* The cursor of a range scan: the inner nodes still to finish, each with its
\* next child, and the leaf with its next cell.
RECURSIVE Descend(_, _, _, _)
Descend(pg, stack, id, start) ==
    IF pg[id].kind = "inner"
    THEN LET i == ChildIndex(pg[id], start)
         IN Descend(pg, Append(stack, <<id, i + 1>>), ChildAt(pg[id], i), start)
    ELSE [stack |-> stack, leaf |-> id, at |-> LowerBound(pg[id], start)]

\* CursorState::advance to the end: every entry from the cursor on.
RECURSIVE Advance(_, _)
Advance(pg, c) ==
    IF c.leaf # NoRoot /\ c.at <= Len(pg[c.leaf].cells)
    THEN LET cell == pg[c.leaf].cells[c.at]
         IN <<[key |-> cell.key, value |-> ReadValue(pg, cell.payload)]>>
            \o Advance(pg, [c EXCEPT !.at = @ + 1])
    ELSE IF c.stack = <<>> THEN <<>>
    ELSE LET id == Last(c.stack)[1]
             i  == Last(c.stack)[2]
             up == Front(c.stack)
         IN IF i <= Len(pg[id].cells) + 1
            THEN Advance(pg, Descend(pg, Append(up, <<id, i + 1>>),
                                     ChildAt(pg[id], i), 0))
            ELSE Advance(pg, [stack |-> up, leaf |-> NoRoot, at |-> 1])

ScanFrom(pg, id, start) ==
    IF id = NoRoot THEN <<>> ELSE Advance(pg, Descend(pg, <<>>, id, start))

\* leaf_for_each_prefix: what the leaf has of the stem, and whether the
\* next leaf may have more.
LeafPrefix(leaf, s) ==
    LET lead == Stem(leaf.cells[1].key)
        from == LowerBound(leaf, StemBound(s))
        hits == SelectSeq(leaf.cells, LAMBDA c : Stem(c.key) = s)
    IN IF leaf.packed
       THEN [keys |-> hits, extends |-> s >= lead]
       ELSE [keys |-> hits,
             extends |-> from + Len(hits) > Len(leaf.cells)]

\* for_each_prefix: down to the first candidate leaf, then along the leaves
\* while the block reaches the end of its leaf.
RECURSIVE PrefixFrom(_, _, _)
PrefixFrom(pg, c, s) ==
    LET found == LeafPrefix(pg[c.leaf], s)
        open  == {n \in DOMAIN c.stack :
                     c.stack[n][2] <= Len(pg[c.stack[n][1]].cells) + 1}
    IN found.keys \o
       IF ~found.extends \/ open = {} THEN <<>>
       ELSE LET n  == CHOOSE n \in open : \A m \in open : m <= n
                id == c.stack[n][1]
                i  == c.stack[n][2]
            IN PrefixFrom(pg, Descend(pg, Append(SubSeq(c.stack, 1, n - 1),
                                                 <<id, i + 1>>),
                                      ChildAt(pg[id], i), 0), s)

ForEachPrefix(pg, id, s) ==
    IF id = NoRoot THEN <<>>
    ELSE PrefixFrom(pg, Descend(pg, <<>>, id, StemBound(s)), s)

----------------------------------------------------------------------------
(***************************************************************************)
(* Writing.                                                                *)
(***************************************************************************)
\* write_chain: the pages of a big value, the last one first.
AddToChain(a, v, after) ==
    [id |-> a.id, s |-> Write(a.s, a.id, [kind |-> "overflow", data |-> v,
                                          next |-> after])]
RECURSIVE ChainOf(_, _, _, _)
ChainOf(s, v, n, after) ==
    IF n = 0 THEN [id |-> after, s |-> s]
    ELSE LET link == AddToChain(Alloc(s), v, after)
         IN ChainOf(link.s, v, n - 1, link.id)
WriteChain(s, v) == ChainOf(s, v, ChainPages, NoRoot)

RECURSIVE FreeChain(_, _)
FreeChain(s, id) ==
    IF id = NoRoot THEN s
    ELSE LET after == s.pages[id].next IN FreeChain(Free(s, id), after)

\* Variant of FreePayload: the chain of an old value stays.
KeepPayload(s, payload) == s

\* A chain is dirty or durable as a whole.
FreePayload(s, payload) ==
    IF payload.kind = "chain" /\ payload.first \in s.dirty
    THEN FreeChain(s, payload.first) ELSE s

\* split_point: where the second half of cells of equal size begins.
SplitPoint(cells) == (Len(cells) + 1) \div 2

\* leaf_append: a key above the last one goes to the end of the leaf as it is
\* encoded, if it has the prefix of a packed leaf and there is room.
CanAppend(leaf, k) ==
    /\ leaf.cells # <<>> => k > Last(leaf.cells).key
    /\ leaf.packed => Stem(k) = Stem(leaf.cells[1].key)
    /\ CellRoom(leaf.packed, Len(leaf.cells) + 1) + leaf.hole <= LeafSize

PutCell(leaf, cell) == [leaf EXCEPT !.cells = Append(@, cell)]

\* What a step below hands up: the node's id after it, the store, the
\* separator and page of a new right sibling, the end of the appended leaf.
Outcome(id, s, split, tail) == [id |-> id, s |-> s, split |-> split, tail |-> tail]

\* encode_leaf of the halves; one that does not fit leaves its page alone.
SplitLeaf(a, id, left, right) ==
    LET s1 == IF LeafFits(right)
              THEN Write(a.s, a.id, Leaf(right, Packs(right), 0)) ELSE a.s
    IN Outcome(id,
               IF LeafFits(right) /\ LeafFits(left)
               THEN Write(s1, id, Leaf(left, Packs(left), 0)) ELSE s1,
               <<right[1].key, a.id>>, NoTail)

\* The leaf gets the new cells, in its page or in two.
PlaceCells(s, id, cells, appended) ==
    LET sp == IF appended THEN Len(cells) - 1 ELSE SplitPoint(cells)
    IN IF LeafFits(cells)
       THEN Outcome(id, Write(s, id, Leaf(cells, Packs(cells), 0)), <<>>, NoTail)
       ELSE SplitLeaf(Alloc(s), id, SubSeq(cells, 1, sp),
                      SubSeq(cells, sp + 1, Len(cells)))

InsertCell(s, id, leaf, at, cell) ==
    IF at <= Len(leaf.cells) /\ leaf.cells[at].key = cell.key
    THEN PlaceCells(FreePayload(s, leaf.cells[at].payload), id,
                    [leaf.cells EXCEPT ![at] = cell], FALSE)
    ELSE PlaceCells(s, id, InsertAt(leaf.cells, at, cell), at > Len(leaf.cells))

AppendCell(s, id, new) ==
    Outcome(id, Write(s, id, new), <<>>, [leaf |-> id, end |-> Used(new)])

\* A leaf that is dirty already: s.pages[id].
InsertLeaf(d, cell) ==
    LET leaf == d.s.pages[d.id]
    IN IF CanAppend(leaf, cell.key)
       THEN AppendCell(d.s, d.id, PutCell(leaf, cell))
       ELSE InsertCell(d.s, d.id, leaf, LowerBound(leaf, cell.key), cell)

\* An inner node with child cid at i.
WithChild(node, i, cid) ==
    IF i <= Len(node.cells)
    THEN Inner([node.cells EXCEPT ![i].child = cid], node.rightmost)
    ELSE Inner(node.cells, cid)

\* cid keeps the keys below sep, right takes the rest of its range.
WithSibling(node, i, cid, sep, right) ==
    WithChild(Inner(InsertAt(node.cells, i, [key |-> sep, child |-> cid]),
                    node.rightmost), i + 1, right)

\* The key of the cell at sp goes up; its child ends the left half.
SplitInner(a, id, node, sp, tail) ==
    LET left  == Inner(SubSeq(node.cells, 1, sp - 1), node.cells[sp].child)
        right == Inner(SubSeq(node.cells, sp + 1, Len(node.cells)),
                       node.rightmost)
    IN Outcome(id, Write(Write(a.s, a.id, right), id, left),
               <<node.cells[sp].key, a.id>>, tail)

PlaceInner(d, node, tail) ==
    IF InnerFits(node.cells)
    THEN Outcome(d.id, Write(d.s, d.id, node), <<>>, tail)
    ELSE SplitInner(Alloc(d.s), d.id, node, SplitPoint(node.cells) + 1, tail)

\* An inner node after its child at i had the outcome below.
InsertInner(node, id, i, below, tail) ==
    IF below.split = <<>> /\ below.id = ChildAt(node, i)
    THEN Outcome(id, below.s, <<>>, tail)
    ELSE PlaceInner(MakeDirty(below.s, id),
                    IF below.split = <<>> THEN WithChild(node, i, below.id)
                    ELSE WithSibling(node, i, below.id, below.split[1],
                                     below.split[2]),
                    tail)

\* Only the rightmost leaf of the whole tree has a tail to append to.
InsertUp(node, id, i, below) ==
    InsertInner(node, id, i, below,
                IF ChildAt(node, i) = node.rightmost THEN below.tail ELSE NoTail)

RECURSIVE InsertRec(_, _, _)
InsertRec(s, id, cell) ==
    IF s.pages[id].kind = "leaf" THEN InsertLeaf(MakeDirty(s, id), cell)
    ELSE LET i == ChildIndex(s.pages[id], cell.key)
         IN InsertUp(s.pages[id], id, i,
                     InsertRec(s, ChildAt(s.pages[id], i), cell))

\* The root after an insert: a split puts a new one above the halves.
Rooted(id, s, tail, k) ==
    [id |-> id, s |-> s,
     cursor |-> IF tail = NoTail THEN NoCursor
                ELSE [root |-> id, leaf |-> tail.leaf, end |-> tail.end,
                      last |-> k, cut |-> FALSE]]
NewRoot(a, out, k) ==
    Rooted(a.id,
           Write(a.s, a.id, Inner(<<[key |-> out.split[1], child |-> out.id]>>,
                                  out.split[2])),
           out.tail, k)
RootAfter(out, k) ==
    IF out.split = <<>> THEN Rooted(out.id, out.s, out.tail, k)
    ELSE NewRoot(Alloc(out.s), out, k)

FirstLeaf(a, cell) ==
    Rooted(a.id, Write(a.s, a.id, Leaf(<<cell>>, FALSE, 0)), NoTail, cell.key)

InsertPayload(s, rt, k, payload) ==
    IF rt = NoRoot THEN FirstLeaf(Alloc(s), [key |-> k, payload |-> payload])
    ELSE RootAfter(InsertRec(s, rt, [key |-> k, payload |-> payload]), k)

InsertChain(w, rt, k) == InsertPayload(w.s, rt, k, Chain(w.id))

\* The general path of insert; the cursor was taken, and is set from the tail.
InsertFull(s, rt, k, v) ==
    IF v \in BigValues THEN InsertChain(WriteChain(s, v), rt, k)
    ELSE InsertPayload(s, rt, k, Inline(v))

----------------------------------------------------------------------------
\* The page of a node takes its new content, in a copy if the file has it.
Rewrite(d, node) == [id |-> d.id, s |-> Write(d.s, d.id, node)]

DeleteLeaf(s, id, leaf, at) ==
    LET cells == RemoveAt(leaf.cells, at)
        f     == FreePayload(s, leaf.cells[at].payload)
    IN IF cells = <<>> THEN [id |-> NoRoot, s |-> Free(f, id)]
       ELSE Rewrite(MakeDirty(f, id), Leaf(cells, Packs(cells), 0))

\* The child at i is gone: its neighbour takes its range; a node with one
\* child left gives way to it.
DropChild(s, id, node, i) ==
    LET lost == IF i <= Len(node.cells)
                THEN Inner(RemoveAt(node.cells, i), node.rightmost)
                ELSE Inner(Front(node.cells), Last(node.cells).child)
    IN IF node.cells = <<>> THEN [id |-> NoRoot, s |-> Free(s, id)]
       ELSE IF lost.cells = <<>> THEN [id |-> lost.rightmost, s |-> Free(s, id)]
       ELSE Rewrite(MakeDirty(s, id), lost)

DeleteInner(id, node, i, below) ==
    IF below.id = ChildAt(node, i) THEN [id |-> id, s |-> below.s]
    ELSE IF below.id = NoRoot THEN DropChild(below.s, id, node, i)
    ELSE Rewrite(MakeDirty(below.s, id), WithChild(node, i, below.id))

RECURSIVE DeleteRec(_, _, _)
DeleteRec(s, id, k) ==
    LET node == s.pages[id]
        at   == LowerBound(node, k)
        i    == ChildIndex(node, k)
    IN IF node.kind = "inner"
       THEN DeleteInner(id, node, i, DeleteRec(s, ChildAt(node, i), k))
       ELSE IF at > Len(node.cells) \/ node.cells[at].key # k
       THEN [id |-> id, s |-> s]
       ELSE DeleteLeaf(s, id, node, at)

----------------------------------------------------------------------------
(***************************************************************************)
(* Diff of two trees, over the keys from lo up to and without hi.          *)
(***************************************************************************)
ChildIntervals(node) ==
    [i \in 1 .. Len(node.cells) + 1 |->
        [lo    |-> IF i = 1 THEN 0 ELSE node.cells[i - 1].key,
         hi    |-> IF i > Len(node.cells) THEN Infinity ELSE node.cells[i].key,
         child |-> ChildAt(node, i)]]

\* Variant of CollectRange: the upper bound is part of the range.
CollectRangeClosed(pg, id, lo, hi) ==
    SelectSeq(ScanFrom(pg, id, lo), LAMBDA e : e.key <= hi)

CollectRange(pg, id, lo, hi) ==
    SelectSeq(ScanFrom(pg, id, lo), LAMBDA e : e.key < hi)

Larger(a, b)  == IF a < b THEN b ELSE a
Smaller(a, b) == IF a < b THEN a ELSE b

\* A change of a key: its value in each of the trees, if it has one.
Absent == "absent"
Change(k, from, to) == [key |-> k, from |-> from, to |-> to]

RECURSIVE MergeEntries(_, _)
MergeEntries(a, b) ==
    IF a = <<>>
    THEN [i \in DOMAIN b |-> Change(b[i].key, Absent, b[i].value)]
    ELSE IF b = <<>> \/ a[1].key < b[1].key
    THEN <<Change(a[1].key, a[1].value, Absent)>> \o MergeEntries(Tail(a), b)
    ELSE IF b[1].key < a[1].key
    THEN <<Change(b[1].key, Absent, b[1].value)>> \o MergeEntries(a, Tail(b))
    ELSE (IF a[1].value = b[1].value THEN <<>>
          ELSE <<Change(a[1].key, a[1].value, b[1].value)>>)
         \o MergeEntries(Tail(a), Tail(b))

DiffFlat(pg, from, to, lo, hi) ==
    MergeEntries(CollectRange(pg, from, lo, hi), CollectRange(pg, to, lo, hi))

\* Subtrees with the same page are equal and are not read.
RECURSIVE DiffRange(_, _, _, _, _), DiffInner(_, _, _, _, _, _)
DiffRange(pg, from, to, lo, hi) ==
    IF from = to THEN <<>>
    ELSE IF from = NoRoot \/ to = NoRoot THEN DiffFlat(pg, from, to, lo, hi)
    ELSE IF pg[from].kind = "inner" /\ pg[to].kind = "inner"
    THEN DiffInner(pg, ChildIntervals(pg[from]), ChildIntervals(pg[to]), lo, hi,
                   <<>>)
    ELSE DiffFlat(pg, from, to, lo, hi)

\* Walks the children of two inner nodes; the one that ends first gives way.
DiffInner(pg, a, b, lo, hi, out) ==
    IF a = <<>> \/ b = <<>> THEN out
    ELSE LET from == Larger(Larger(a[1].lo, b[1].lo), lo)
             to   == Smaller(Smaller(a[1].hi, b[1].hi), hi)
             more == IF from < to
                     THEN DiffRange(pg, a[1].child, b[1].child, from, to)
                     ELSE <<>>
         IN DiffInner(pg,
                      IF a[1].hi <= b[1].hi THEN Tail(a) ELSE a,
                      IF b[1].hi <= a[1].hi THEN Tail(b) ELSE b,
                      lo, hi, out \o more)

Diff(pg, from, to) == DiffRange(pg, from, to, 0, Infinity)

----------------------------------------------------------------------------
(***************************************************************************)
(* The transaction.                                                        *)
(***************************************************************************)
EmptyMap == [k \in Keys |-> Absent]

Init ==
    /\ pages = [id \in PageIds |-> Zeroed]
    /\ dirty = {} /\ freed = <<>> /\ base = 1 /\ next = 1
    /\ cursor = NoCursor /\ root = NoRoot /\ savepoints = <<>>
    /\ map = EmptyMap
    /\ versions = {[root |-> NoRoot, map |-> EmptyMap]}
    /\ load \in Loads /\ ops = 0

\* The tree after an operation is r.id over the store r.s.
Becomes(r) ==
    /\ r.s.next <= MaxPage
    /\ pages' = r.s.pages /\ dirty' = r.s.dirty /\ freed' = r.s.freed
    /\ next' = r.s.next /\ root' = r.id
    /\ ops < MaxOps \/ load # <<>>
    /\ ops' = IF load = <<>> THEN ops + 1 ELSE ops
    /\ UNCHANGED <<base, savepoints, versions>>

BecomesWithCursor(r) == Becomes(r) /\ cursor' = r.cursor

\* The append cursor of the tree takes the key without a descent.
CursorTakes(k, v) ==
    /\ cursor # NoCursor /\ cursor.root = root
    /\ k > cursor.last
    /\ cursor.leaf \in dirty
    /\ v \in Values
    /\ pages[cursor.leaf].packed => Stem(k) = Stem(pages[cursor.leaf].cells[1].key)
    /\ cursor.end + CellRoom(pages[cursor.leaf].packed, 1)
         - (IF pages[cursor.leaf].packed THEN StemSize ELSE 0) <= LeafSize

\* The cell goes to the end the cursor remembers, wherever the cells end now.
AppendAtCursor(k, v) ==
    LET leaf == pages[cursor.leaf]
        new  == [PutCell(leaf, [key |-> k, payload |-> Inline(v)]) EXCEPT
                     !.hole = @ + (cursor.end - Used(leaf))]
    IN /\ Becomes([id |-> root, s |-> Write(Store, cursor.leaf, new)])
       /\ cursor' = [cursor EXCEPT !.end = Used(new), !.last = k]

Insert(k, v) ==
    /\ StaleAppends \/ ~cursor.cut \/ ~(k > cursor.last /\ v \in Values)
    /\ \/ CursorTakes(k, v) /\ AppendAtCursor(k, v)
       \/ /\ ~CursorTakes(k, v)
          /\ BecomesWithCursor(InsertFull(Store, root, k, v))
    /\ load # <<>> => k = load[1] /\ v \in Values
    /\ v \in BigValues => Stem(k) \in BigStems
    /\ load' = IF load = <<>> THEN load ELSE Tail(load)
    /\ map' = [map EXCEPT ![k] = v]

\* delete leaves the append cursor as it is, wherever the leaf ends now.
CursorAfterDelete ==
    [cursor EXCEPT
        !.cut = @ \/ (cursor.leaf \in dirty /\ pages'[cursor.leaf] # pages[cursor.leaf])]

Delete(k) ==
    /\ load = <<>>
    /\ Becomes(IF root = NoRoot THEN [id |-> root, s |-> Store]
               ELSE DeleteRec(Store, root, k))
    /\ map' = [map EXCEPT ![k] = Absent]
    /\ cursor' = CursorAfterDelete
    /\ UNCHANGED load

\* The pages of the transaction, as a savepoint keeps them.
DirtyPages == [id \in dirty |-> pages[id]]

SetSavepoint ==
    /\ Len(savepoints) < MaxSavepoints /\ load = <<>>
    /\ savepoints' = Append(savepoints,
           [root |-> root, dirty |-> DirtyPages, freed |-> freed,
            next |-> next, map |-> map])
    /\ UNCHANGED <<pages, dirty, freed, base, next, cursor, root, load, ops,
                   map, versions>>

\* Variant of RollbackTo: the append cursor survives.
RollbackToKeepsCursor(n) ==
    LET sp == savepoints[n]
    IN /\ root' = sp.root /\ freed' = sp.freed /\ next' = sp.next
       /\ dirty' = DOMAIN sp.dirty
       /\ pages' = [id \in PageIds |->
                       IF id \in DOMAIN sp.dirty THEN sp.dirty[id]
                       ELSE IF id < base THEN pages[id] ELSE Zeroed]
       /\ savepoints' = SubSeq(savepoints, 1, n)
       /\ map' = sp.map
       /\ UNCHANGED <<base, cursor, load, ops, versions>>

\* Back to the savepoint at n, which stays; the ones inside it go.
RollbackTo(n) ==
    LET sp == savepoints[n]
    IN /\ root' = sp.root /\ freed' = sp.freed /\ next' = sp.next
       /\ dirty' = DOMAIN sp.dirty
       /\ pages' = [id \in PageIds |->
                       IF id \in DOMAIN sp.dirty THEN sp.dirty[id]
                       ELSE IF id < base THEN pages[id] ELSE Zeroed]
       /\ cursor' = NoCursor
       /\ savepoints' = SubSeq(savepoints, 1, n)
       /\ map' = sp.map
       /\ UNCHANGED <<base, load, ops, versions>>

Release(n) ==
    /\ savepoints' = SubSeq(savepoints, 1, n - 1)
    /\ UNCHANGED <<pages, dirty, freed, base, next, cursor, root, load, ops,
                   map, versions>>

\* The next transaction starts from the tree the last one published.
NewTx ==
    /\ dirty' = {} /\ freed' = <<>> /\ cursor' = NoCursor
    /\ savepoints' = <<>>

\* The pages of the transaction become part of the file, its given back ones
\* as zeros, followed by the commit page.
Commit ==
    /\ load = <<>>
    /\ dirty # {} \/ \A v \in versions : v.root # root
    /\ Cardinality(versions) <= MaxCommits /\ next < MaxPage
    /\ base' = next + 1 /\ next' = next + 1
    /\ versions' = versions \cup {[root |-> root, map |-> map]}
    /\ NewTx
    /\ UNCHANGED <<pages, root, map, load, ops>>

Next ==
    \/ \E k \in Keys, v \in Values \cup BigValues : Insert(k, v)
    \/ \E k \in Keys : Delete(k)
    \/ SetSavepoint
    \/ \E n \in DOMAIN savepoints : RollbackTo(n) \/ Release(n)
    \/ Commit

Spec == Init /\ [][Next]_vars

----------------------------------------------------------------------------
(***************************************************************************)
(* Properties.                                                             *)
(***************************************************************************)
RECURSIVE ChainIds(_, _)
ChainIds(pg, id) ==
    IF id = NoRoot THEN <<>> ELSE <<id>> \o ChainIds(pg, pg[id].next)

\* The pages of a tree, each as often as the tree points at it.
RECURSIVE PagesOf(_, _)
PagesOf(pg, id) ==
    IF id = NoRoot THEN <<>>
    ELSE <<id>> \o
         IF pg[id].kind = "inner"
         THEN FlattenSeq([i \in 1 .. Len(pg[id].cells) + 1 |->
                             PagesOf(pg, ChildAt(pg[id], i))])
         ELSE FlattenSeq([i \in DOMAIN pg[id].cells |->
                  LET p == pg[id].cells[i].payload
                  IN IF p.kind = "chain" THEN ChainIds(pg, p.first) ELSE <<>>])

Ascending ==
    [i \in 1 .. Cardinality(Keys) |->
        CHOOSE k \in Keys : Cardinality({j \in Keys : j <= k}) = i]

\* The entries of a map with a key from start on, in order.
EntriesFrom(m, start) ==
    LET ks == SelectSeq(Ascending, LAMBDA k : k >= start /\ m[k] # Absent)
    IN [i \in DOMAIN ks |-> [key |-> ks[i], value |-> m[ks[i]]]]

\* Types of the state of a transaction over the file.
TypeOK ==
    /\ DOMAIN pages = PageIds /\ dirty \subseteq PageIds
    /\ base \in PageIds /\ next \in PageIds /\ base <= next
    /\ root \in PageIds \cup {NoRoot}
    /\ map \in [Keys -> Values \cup BigValues \cup {Absent}]

\* for_each_prefix stops at the leaf that ends the block: it must not stop
\* before it.
PrefixExact ==
    \A s \in Stems :
        LET got == ForEachPrefix(pages, root, s)
        IN [i \in DOMAIN got |-> got[i].key] =
               SelectSeq(Ascending, LAMBDA k : Stem(k) = s /\ map[k] # Absent)

\* get, scan_from and for_each_prefix answer what the inserts and deletes since
\* the beginning of the tree say, from every start key, whatever splits, chains,
\* append cursors and savepoints came between.
ReadsTheMap ==
    /\ \A k \in Keys :
          Get(pages, root, k) =
              IF map[k] = Absent THEN NotFound
              ELSE [found |-> TRUE, value |-> map[k]]
    /\ \A k \in Keys \cup {0} : ScanFrom(pages, root, k) = EntriesFrom(map, k)
    /\ PrefixExact

\* A committed root reads the same for ever: no later insert, delete, free or
\* rollback writes a page of it.
VersionsImmutable ==
    \A v \in versions : ScanFrom(pages, v.root, 0) = EntriesFrom(v.map, 0)

\* diff skips what two trees share, and still reports every changed key once,
\* in order, with both of its values.
DiffExact ==
    \A v \in versions :
        LET ks == SelectSeq(Ascending, LAMBDA k : v.map[k] # map[k])
        IN /\ Diff(pages, v.root, root) =
                  [i \in DOMAIN ks |-> Change(ks[i], v.map[ks[i]], map[ks[i]])]
           /\ Diff(pages, root, v.root) =
                  [i \in DOMAIN ks |-> Change(ks[i], map[ks[i]], v.map[ks[i]])]

\* Every page of the transaction has one place: the tree points at each dirty
\* page once, every other id it took is free to take again, and no page of a
\* chain outlives its value.
PagesAccounted ==
    LET ids == PagesOf(pages, root)
    IN /\ TypeOK
       /\ \A i, j \in DOMAIN ids : ids[i] = ids[j] => i = j
       /\ dirty = {ids[i] : i \in DOMAIN ids} \cap (base .. next - 1)
       /\ dirty \cup {freed[i] : i \in DOMAIN freed} = base .. next - 1
       /\ Cardinality(dirty) + Len(freed) = next - base

\* A leaf is read cell after cell from its start, so no room may be left
\* between two cells.
LeavesParse ==
    \A id \in Range(PagesOf(pages, root)) :
        pages[id].kind = "leaf" =>
            pages[id].hole = 0 /\ Used(pages[id]) <= LeafSize
============================================================================
