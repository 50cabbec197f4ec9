------------------------------- MODULE Query -------------------------------
(***************************************************************************)
(* How src/src/exec.rs answers a SELECT: the overlay of views and common     *)
(* table expressions, subqueries, the access plans, joins with pushed-down   *)
(* predicates, grouping, windows, order, and three-valued evaluation.        *)
(*                                                                          *)
(* A value is <<type, number>>: booleans are 0 and 1, and <<"real-", 0>> is *)
(* the negative zero.  Texts, AVG, GROUP_CONCAT and the scalar functions are *)
(* left out.                                                                 *)
(***************************************************************************)
EXTENDS Integers, Sequences, FiniteSets, SequencesExt

CONSTANTS
    MaxInt,     \* integers are -MaxInt - 1 .. MaxInt
    MaxRows,    \* MAX_ROWS of a recursive CTE
    None        \* a clause that is not there

MaxColumns == 5     \* of a table in the model

Null   == <<"null", 0>>
Integer(n) == <<"int", n>>
Real(n) == <<"real", n>>
NegZero == <<"real-", 0>>
Bool(b) == <<"bool", IF b THEN 1 ELSE 0>>
Err    == <<"error", 0>>

Fits(n) == n \in -MaxInt - 1 .. MaxInt
\* Two's complement of a number that does not fit.
Wrap(n) == ((n + MaxInt + 1) % (2 * MaxInt + 2)) - MaxInt - 1

Pick(s, Keep(_)) == SelectSeq(s, Keep)
Sum(s) == FoldLeft(LAMBDA a, b : a + b, 0, s)

-----------------------------------------------------------------------------
(* Expressions: [op, arg, kids].                                             *)

E(op, arg, kids) == [op |-> op, arg |-> arg, kids |-> kids]
Lit(v) == E("lit", v, <<>>)
Col(q, name) == E("col", <<q, name>>, <<>>)      \* q = "" when not qualified
Bin(op, x, y) == E(op, None, <<x, y>>)
Agg(func, distinct, args) == E("agg", <<func, distinct>>, args)
Win(spec, args) == E("win", spec, args)          \* spec: [func, part, order, frame]
Scalar(stmt) == E("scalar", stmt, <<>>)
Exists(stmt) == E("exists", stmt, <<>>)
InSelect(x, stmt, negated) == E("insub", [stmt |-> stmt, negated |-> negated], <<x>>)
StmtOf(e) == IF e.op = "insub" THEN e.arg.stmt ELSE e.arg

Comparisons == {"=", "<>", "<", "<=", ">", ">="}
Subqueries == {"scalar", "exists", "insub"}

WithKids(e, kids) == [e EXCEPT !.kids = kids]

\* The expressions e is built from, the PARTITION BY of a window among them.
Parts(e) == ToSet(e.kids) \union (IF e.op = "win" THEN ToSet(e.arg.part) ELSE {})
MapParts(e, F(_)) ==
    LET mapped == WithKids(e, [i \in DOMAIN e.kids |-> F(e.kids[i])]) IN
    IF e.op = "win" THEN [mapped EXCEPT !.arg.part = [i \in DOMAIN @ |-> F(@[i])]] ELSE mapped

\* has_aggregate, has_window, expr_has_subquery, is_const, ...: some node is of a kind;
\* an aggregate or a window inside of a window or an IN (SELECT) is not seen.
RECURSIVE Holds(_, _)
Holds(e, ops) ==
    \/ e.op \in ops
    \/ /\ e.op \in {"win", "insub"} => ops \subseteq Subqueries \union {"error"}
       /\ \E x \in Parts(e) : Holds(x, ops)
IsConst(e) == ~Holds(e, {"col", "agg", "win"} \union Subqueries)

\* QuerySchema: the tables of the statement, [q, def, off]; a definition is
\* [cols, alias, indexes, order], a column [name, type].
Width(schema) == IF schema = <<>> THEN 0 ELSE Last(schema).off + Len(Last(schema).def.cols)
Push(schema, q, def) == Append(schema, [q |-> q, def |-> def, off |-> Width(schema)])

\* resolve: a column without qualifier must be of one table only; 0 is an error.
Places(schema, q, name) ==
    {schema[p[1]].off + p[2] : p \in
        {p \in (DOMAIN schema) \X (1 .. MaxColumns) :
            /\ q = "" \/ schema[p[1]].q = q
            /\ p[2] \in DOMAIN schema[p[1]].def.cols
            /\ schema[p[1]].def.cols[p[2]].name = name}}
Resolve(schema, q, name) ==
    IF Cardinality(Places(schema, q, name)) = 1 THEN CHOOSE i \in Places(schema, q, name) : TRUE ELSE 0

\* validate_columns: the errors of a statement do not depend on the rows.
RECURSIVE Valid(_, _)
Valid(e, schema) ==
    /\ e.op = "col" => Resolve(schema, e.arg[1], e.arg[2]) # 0
    /\ e.op = "win" => /\ \A i \in DOMAIN e.arg.part : Valid(e.arg.part[i], schema)
                       /\ \A i \in DOMAIN e.arg.order : Valid(e.arg.order[i].expr, schema)
    /\ \A i \in DOMAIN e.kids : Valid(e.kids[i], schema)

-----------------------------------------------------------------------------
(* Evaluation.                                                               *)

Numeric(v) == v[1] \in {"int", "real", "real-"}

\* cmp_values: "none" when a NULL is involved, "error" for types that do not compare.
Cmp(x, y) ==
    IF x = Null \/ y = Null THEN "none"
    ELSE IF ~(Numeric(x) /\ Numeric(y)) /\ x[1] # y[1] THEN "error"
    ELSE IF x[2] < y[2] THEN "lt" ELSE IF x[2] > y[2] THEN "gt" ELSE "eq"

Accepts == [op \in Comparisons |->
    CASE op = "="  -> {"eq"}       [] op = "<>" -> {"lt", "gt"} [] op = "<"  -> {"lt"}
      [] op = "<=" -> {"lt", "eq"} [] op = ">"  -> {"gt"}       [] op = ">=" -> {"gt", "eq"}]

Compare(op, x, y) ==
    IF x = Err \/ y = Err \/ Cmp(x, y) = "error" THEN Err
    ELSE IF Cmp(x, y) = "none" THEN Null ELSE Bool(Cmp(x, y) \in Accepts[op])

\* truthy3: TRUE, FALSE or NULL, anything else is an error.
Trivalent(v) == v \in {Bool(TRUE), Bool(FALSE), Null}

AndValue(x, y) ==
    IF ~Trivalent(x) THEN Err
    ELSE IF x = Bool(FALSE) THEN x
    ELSE IF ~Trivalent(y) THEN Err
    ELSE IF y = Bool(FALSE) THEN y
    ELSE IF x = Null \/ y = Null THEN Null ELSE Bool(TRUE)

NotValue(x) == IF ~Trivalent(x) THEN Err ELSE IF x = Null THEN Null ELSE Bool(x = Bool(FALSE))

\* The short circuit of OR, by De Morgan.
OrValue(x, y) == NotValue(AndValue(NotValue(x), NotValue(y)))

\* arith, for the sum: integers are checked.
AddValue(x, y) ==
    IF x = Err \/ y = Err THEN Err
    ELSE IF x = Null \/ y = Null THEN Null
    ELSE IF ~Numeric(x) \/ ~Numeric(y) THEN Err
    ELSE IF x[1] = "int" /\ y[1] = "int" THEN (IF Fits(x[2] + y[2]) THEN Integer(x[2] + y[2]) ELSE Err)
    ELSE IF x = NegZero /\ y = NegZero THEN NegZero ELSE Real(x[2] + y[2])

\* IN: the first item that is equal, or does not compare, decides.
InValue(x, items, negated) ==
    LET first == SelectInSeq(items, LAMBDA v : v = Err \/ Cmp(x, v) \in {"eq", "error"}) IN
    IF x = Err THEN Err
    ELSE IF x = Null THEN Null
    ELSE IF first # 0 THEN (IF items[first] # Err /\ Cmp(x, items[first]) = "eq" THEN Bool(~negated) ELSE Err)
    ELSE IF \E i \in DOMAIN items : items[i] = Null THEN Null ELSE Bool(negated)

\* CASE WHEN c THEN r ... [ELSE r]: the first condition that holds, or fails.
CaseValue(vals, n) ==
    LET hits == {i \in 1 .. n : vals[2 * i - 1] = Bool(TRUE) \/ ~Trivalent(vals[2 * i - 1])} IN
    IF hits = {} THEN (IF Len(vals) > 2 * n THEN vals[2 * n + 1] ELSE Null)
    ELSE LET i == CHOOSE i \in hits : \A j \in hits : i <= j IN
         IF vals[2 * i - 1] = Bool(TRUE) THEN vals[2 * i] ELSE Err

RECURSIVE Eval(_, _, _)
Eval(e, schema, row) ==
    LET k == [i \in DOMAIN e.kids |-> Eval(e.kids[i], schema, row)] IN
    CASE e.op = "lit" -> e.arg
      [] e.op = "col" -> IF Resolve(schema, e.arg[1], e.arg[2]) = 0 THEN Err
                         ELSE row[Resolve(schema, e.arg[1], e.arg[2])]
      [] e.op \in Comparisons -> Compare(e.op, k[1], k[2])
      [] e.op = "and" -> AndValue(k[1], k[2])
      [] e.op = "or" -> OrValue(k[1], k[2])
      [] e.op = "not" -> NotValue(k[1])
      [] e.op = "isnull" -> IF k[1] = Err THEN Err ELSE Bool((k[1] = Null) # e.arg)
      [] e.op = "+" -> AddValue(k[1], k[2])
      [] e.op = "in" -> InValue(k[1], Tail(k), e.arg)
      [] e.op = "case" -> CaseValue(k, e.arg)
      [] OTHER -> Err

-----------------------------------------------------------------------------
(* Rows on their way: [ok, rows]; an error leaves nothing.                   *)

Ok(rows) == [ok |-> TRUE, rows |-> rows]
Fail == [ok |-> FALSE, rows |-> <<>>]
IfOk(r, Then(_)) == IF r.ok THEN Then(r.rows) ELSE Fail

\* Keeps the rows whose condition is TRUE; vals[i] is its value on row i.
KeptBy(rows, vals) ==
    IF \E i \in DOMAIN rows : ~Trivalent(vals[i]) THEN Fail
    ELSE Ok([i \in 1 .. Len(Pick([j \in DOMAIN rows |-> j], LAMBDA j : vals[j] = Bool(TRUE))) |->
                rows[Pick([j \in DOMAIN rows |-> j], LAMBDA j : vals[j] = Bool(TRUE))[i]]])

\* == on rows: the two zeros are equal, an integer and a real never are.
Alike(r, s) ==
    /\ Len(r) = Len(s)
    /\ \A i \in DOMAIN r : r[i] = s[i] \/ {r[i], s[i]} \subseteq {Real(0), NegZero}
HasRow(rows, r) == \E i \in DOMAIN rows : Alike(rows[i], r)

\* dedup_preserving
Dedup(rows) == FoldLeft(LAMBDA out, r : IF HasRow(out, r) THEN out ELSE Append(out, r), <<>>, rows)

\* Variant of Cut: LIMIT counts the rows that OFFSET skips.
CutCountsSkipped(rows, stmt) ==
    LET from == IF stmt.offset = None THEN 0 ELSE stmt.offset IN
    SubSeq(rows, from + 1, IF stmt.limit = None \/ stmt.limit > Len(rows) THEN Len(rows) ELSE stmt.limit)

\* limit_offset
Cut(rows, stmt) ==
    LET from == IF stmt.offset = None THEN 0 ELSE stmt.offset
        to == IF stmt.limit = None \/ from + stmt.limit > Len(rows) THEN Len(rows) ELSE from + stmt.limit
    IN  SubSeq(rows, from + 1, to)

\* cmp_nulls_first: NULL before everything.
Before(x, y) == (x = Null /\ y # Null) \/ Cmp(x, y) = "lt"
Same(x, y) == ~Before(x, y) /\ ~Before(y, x)

\* One key after the other; a key with DESC is turned round.
Precedes(k, l, descs) ==
    \E i \in DOMAIN descs :
        /\ \A j \in 1 .. i - 1 : Same(k[j], l[j])
        /\ IF descs[i] THEN Before(l[i], k[i]) ELSE Before(k[i], l[i])

Comparable(keys) ==
    \A i, j \in DOMAIN keys : \A c \in DOMAIN keys[i] :
        keys[i][c] # Err /\ Cmp(keys[i][c], keys[j][c]) # "error"

\* sort_by is stable: the positions of keys, in order.
Sorted(keys, descs) ==
    SortSeq([i \in DOMAIN keys |-> i],
            LAMBDA i, j : Precedes(keys[i], keys[j], descs)
                          \/ (i < j /\ ~Precedes(keys[j], keys[i], descs)))

Arranged(rows, keys, descs) ==
    IF ~Comparable(keys) THEN Fail
    ELSE Ok([i \in DOMAIN rows |-> rows[Sorted(keys, descs)[i]]])

-----------------------------------------------------------------------------
(* Access plans of a single table.  Conditions are split at their ANDs.      *)

RECURSIVE SplitAnd(_)
SplitAnd(e) == IF e.op = "and" THEN SplitAnd(e.kids[1]) \o SplitAnd(e.kids[2]) ELSE <<e>>

\* The column of the table an operand names, 0 if it names none.
ColumnOf(e, q, def) ==
    IF e.op = "col" /\ e.arg[1] \in {"", q}
    THEN SelectInSeq(def.cols, LAMBDA c : c.name = e.arg[2]) ELSE 0

\* flip_op: the operator when its operands change sides.
Flip == [op \in Comparisons |->
    CASE op = "<" -> ">" [] op = "<=" -> ">=" [] op = ">" -> "<" [] op = ">=" -> "<=" [] OTHER -> op]

\* The <<column, op, constant>> of a comparison with a constant.
Bound(e, q, def) ==
    IF e.op \notin Comparisons THEN <<>>
    ELSE IF ColumnOf(e.kids[1], q, def) # 0 /\ IsConst(e.kids[2])
         THEN <<<<ColumnOf(e.kids[1], q, def), e.op, e.kids[2]>>>>
    ELSE IF ColumnOf(e.kids[2], q, def) # 0 /\ IsConst(e.kids[1])
         THEN <<<<ColumnOf(e.kids[2], q, def), Flip[e.op], e.kids[1]>>>>
    ELSE <<>>

\* collect_equalities
Equalities(e, q, def) ==
    Pick(FlattenSeq([i \in DOMAIN SplitAnd(e) |-> Bound(SplitAnd(e)[i], q, def)]), LAMBDA b : b[2] = "=")

\* coerce_value, to the type of a column.
Coerce(v, type) ==
    IF v = Null \/ v[1] = type \/ (type = "real" /\ v = NegZero) THEN v
    ELSE IF type = "real" /\ v[1] = "int" THEN Real(v[2]) ELSE Err

\* encode_index_value: the order of the keys of an index.
KeyOf(v) ==
    IF v = Null THEN <<0, 0>>
    ELSE <<1, IF v[1] = "real-" THEN -1 ELSE IF v[1] = "real" /\ v[2] < 0 THEN v[2] - 1 ELSE v[2]>>

\* index_eq_plan: of the indexes all of whose columns are covered, the first of
\* the widest; <<>> when there is none.
IndexEqPlan(e, q, def) ==
    LET eqs == Equalities(e, q, def)
        covered == {i \in DOMAIN def.indexes :
                       \A c \in ToSet(def.indexes[i]) : \E j \in DOMAIN eqs : eqs[j][1] = c}
        best == CHOOSE i \in covered :
                   \A j \in covered : \/ Len(def.indexes[j]) < Len(def.indexes[i])
                                      \/ Len(def.indexes[j]) = Len(def.indexes[i]) /\ i <= j
    IN  IF covered = {} THEN <<>>
        ELSE [k \in DOMAIN def.indexes[best] |->
                 eqs[SelectInSeq(eqs, LAMBDA b : b[1] = def.indexes[best][k])]]

\* The rows of some rowids, in the order of the rowids.
RowsIn(table, rowids) ==
    LET order == SortSeq(SetToSeq(rowids), <) IN [i \in DOMAIN order |-> table.rows[order[i]]]
Scan(table) == RowsIn(table, DOMAIN table.rows)

\* eval_const, coerced to a column: "error" fails the statement, "none" is left to
\* the filter, which sees the whole table.
Constant(e, col) ==
    LET v == Eval(e, <<>>, <<>>) IN
    IF v = Err THEN "error"
    ELSE IF v = Null \/ Coerce(v, col.type) = Err THEN "none" ELSE "value"
ConstantKey(e, col) == KeyOf(Coerce(Eval(e, <<>>, <<>>), col.type))

\* index_eq_rows
IndexEqRows(table, plan) ==
    LET kinds == {Constant(plan[k][3], table.def.cols[plan[k][1]]) : k \in DOMAIN plan} IN
    IF "error" \in kinds THEN Fail
    ELSE IF "none" \in kinds THEN Ok(Scan(table))
    ELSE Ok(RowsIn(table, {n \in DOMAIN table.rows : \A k \in DOMAIN plan :
               KeyOf(table.rows[n][plan[k][1]]) = ConstantKey(plan[k][3], table.def.cols[plan[k][1]])}))

\* The rows of some rowids in the order of an index of one column.
RowsByKey(table, rowids, c) ==
    LET key(n) == KeyOf(table.rows[n][c])
        order == SortSeq(SetToSeq(rowids), LAMBDA m, n :
                    \/ key(m)[2] < key(n)[2]
                    \/ key(m)[2] = key(n)[2] /\ m < n)
    IN  [i \in DOMAIN order |-> table.rows[order[i]]]

\* index_scan_range: the entries on one side of a key, without those of NULL.
InRange(k, op, bound) ==
    /\ k[1] = 1
    /\ IF k[2] = bound[2] THEN op \in {"<=", ">="} ELSE k[2] < bound[2] <=> op \in {"<", "<="}

\* index_range_rows
IndexRangeRows(table, b) ==
    LET col == table.def.cols[b[1]] IN
    IF Constant(b[3], col) = "error" THEN Fail
    ELSE IF Constant(b[3], col) = "none" THEN Ok(Scan(table))
    ELSE Ok(RowsByKey(table, {n \in DOMAIN table.rows :
               InRange(KeyOf(table.rows[n][b[1]]), b[2], ConstantKey(b[3], col))}, b[1]))

\* point_lookup_key and get_row: a key that is not an integer is left to the filter.
PointRows(table, e) ==
    LET v == Eval(e, <<>>, <<>>) IN
    IF v = Err THEN Fail
    ELSE IF v[1] = "int" THEN Ok(RowsIn(table, {v[2]} \intersect DOMAIN table.rows))
    ELSE Ok(Scan(table))

RangeOps == {"<", "<=", ">", ">="}

\* The plan of run_select and candidate_rows: the rowid, an index by equality, an
\* index by range, the whole table.  WHERE is applied afterwards in any case.
Candidates(table, q, cond) ==
    LET def == table.def
        b == IF cond = None THEN <<>> ELSE Bound(cond, q, def)
        eqs == IF cond = None THEN <<>> ELSE IndexEqPlan(cond, q, def)
    IN  IF b # <<>> /\ b[1][1] = def.alias /\ b[1][2] = "=" THEN PointRows(table, b[1][3])
        ELSE IF eqs # <<>> THEN IndexEqRows(table, eqs)
        ELSE IF /\ b # <<>> /\ b[1][1] # def.alias /\ b[1][2] \in RangeOps
                /\ \E i \in DOMAIN def.indexes : def.indexes[i] = <<b[1][1]>>
             THEN IndexRangeRows(table, b[1])
        ELSE Ok(Scan(table))
=============================================================================
