------------------------------- MODULE Select -------------------------------
(***************************************************************************)
(* run_select of src/src/exec.rs and what it calls: overlays of CTEs,        *)
(* derived tables and views, subqueries answered once or per row, joins with *)
(* pushed-down predicates, GROUP BY, windows, ORDER BY, set operators.       *)
(*                                                                          *)
(* A source is [tables, views, ctes, busy]: base tables and views by name,   *)
(* the CTE overlay (first match wins) and the views being materialised.      *)
(* The caching of a materialised view, bm25 and the plans of full-text and   *)
(* vector search are left out (the last are in Search).                      *)
(***************************************************************************)
EXTENDS Query

\* A statement without clauses; a projected item is [expr, as], expr = None for *.
EmptySelect ==
    [with |-> <<>>, distinct |-> FALSE, proj |-> <<>>, from |-> None, joins |-> <<>>,
     where |-> None, group |-> <<>>, having |-> None, compound |-> <<>>,
     order |-> <<>>, limit |-> None, offset |-> None]

Qualifier(ref) == IF ref.as = None THEN ref.name ELSE ref.as
OuterQualifiers(stmt) ==
    (IF stmt.from = None THEN {} ELSE {Qualifier(stmt.from)})
    \union {Qualifier(stmt.joins[i].table) : i \in DOMAIN stmt.joins}

\* A node that makes the statement fail, whatever is around it.
Error == E("error", None, <<>>)
LitOrError(v) == IF v = Err THEN Error ELSE Lit(v)
ValueOf(e, schema, row) == IF Holds(e, {"error"}) THEN Err ELSE Eval(e, schema, row)

\* The rows, unless some value could not be computed.
Clean(rows) == IF \E i \in DOMAIN rows : Err \in ToSet(rows[i]) THEN Fail ELSE Ok(rows)

\* The rows F gives for each row, one after the other.
Collect(rows, F(_)) ==
    LET outs == [i \in DOMAIN rows |-> F(rows[i])] IN
    IF \E i \in DOMAIN rows : ~outs[i].ok THEN Fail
    ELSE Ok(FlattenSeq([i \in DOMAIN rows |-> outs[i].rows]))

Output(cols, r) == [ok |-> r.ok, cols |-> cols, rows |-> r.rows]
Failed == Output(<<>>, Fail)

-----------------------------------------------------------------------------
(* Columns of expressions.                                                   *)

\* collect_columns, col_outside_agg: skip leaves out the arguments of aggregates.
RECURSIVE ColumnsIn(_, _)
ColumnsIn(e, skip) ==
    (IF e.op = "col" THEN {e.arg} ELSE {})
    \union (IF e.op = "win" THEN UNION {ColumnsIn(e.arg.part[i], skip) : i \in DOMAIN e.arg.part} ELSE {})
    \union (IF e.op = "agg" /\ skip THEN {}
            ELSE UNION {ColumnsIn(e.kids[i], skip) : i \in DOMAIN e.kids})

\* The expressions of a SELECT that may hold a subquery, mapped one by one.
MapExprs(stmt, F(_)) ==
    [stmt EXCEPT
        !.where  = IF @ = None THEN None ELSE F(@),
        !.having = IF @ = None THEN None ELSE F(@),
        !.proj   = [i \in DOMAIN @ |-> IF @[i].expr = None THEN @[i] ELSE [@[i] EXCEPT !.expr = F(@)]],
        !.joins  = [i \in DOMAIN @ |-> [@[i] EXCEPT !.on = F(@)]],
        !.group  = [i \in DOMAIN @ |-> F(@[i])]]

ExprsOf(stmt) ==
    Pick(<<stmt.where, stmt.having>> \o [i \in DOMAIN stmt.proj |-> stmt.proj[i].expr]
         \o [i \in DOMAIN stmt.joins |-> stmt.joins[i].on] \o stmt.group, LAMBDA e : e # None)
SomeExpr(stmt, P(_)) == \E i \in DOMAIN ExprsOf(stmt) : P(ExprsOf(stmt)[i])

\* A SELECT and those that set operators chain to it.
Cores(stmt) == <<stmt>> \o [i \in DOMAIN stmt.compound |-> stmt.compound[i].select]

\* expr_refs_quals and stmt_refs_quals: is the subquery correlated?
RECURSIVE Refs(_, _)
Refs(e, quals) ==
    \/ e.op = "col" /\ e.arg[1] \in quals
    \/ e.op \in Subqueries /\
           \E i \in DOMAIN Cores(StmtOf(e)) : SomeExpr(Cores(StmtOf(e))[i], LAMBDA x : Refs(x, quals))
    \/ e.op = "win" /\ \E i \in DOMAIN e.arg.order : Refs(e.arg.order[i].expr, quals)
    \/ \E x \in Parts(e) : Refs(x, quals)

\* subst_outer_expr and subst_outer_stmt: a qualified column that the outer schema
\* resolves becomes the value of the outer row, inside of nested subqueries too.
RECURSIVE SubstOuter(_, _, _), SubstOuterStmt(_, _, _)
SubstOuter(e, schema, row) ==
    LET mapped == MapParts(e, LAMBDA x : SubstOuter(x, schema, row))
        body == SubstOuterStmt(StmtOf(e), schema, row)
    IN  IF e.op = "col" /\ e.arg[1] # "" /\ Resolve(schema, e.arg[1], e.arg[2]) # 0
        THEN Lit(row[Resolve(schema, e.arg[1], e.arg[2])])
        ELSE IF e.op = "insub" THEN [mapped EXCEPT !.arg.stmt = body]
        ELSE IF e.op \in Subqueries THEN [e EXCEPT !.arg = body]
        ELSE mapped
SubstOuterStmt(stmt, schema, row) ==
    [MapExprs(stmt, LAMBDA e : SubstOuter(e, schema, row)) EXCEPT
        !.compound = [i \in DOMAIN @ |-> [@[i] EXCEPT !.select = SubstOuterStmt(@, schema, row)]]]

\* The bodies of the subqueries of e, and not e itself, see the outer row.
RECURSIVE SubstBodies(_, _, _)
SubstBodies(e, schema, row) ==
    LET mapped == MapParts(e, LAMBDA x : SubstBodies(x, schema, row)) IN
    IF e.op = "insub" THEN [mapped EXCEPT !.arg.stmt = SubstOuterStmt(@, schema, row)]
    ELSE IF e.op \in Subqueries THEN [e EXCEPT !.arg = SubstOuterStmt(@, schema, row)]
    ELSE mapped

\* What a subquery whose answer is out stands for.
Answered(e, kids, out) ==
    IF ~out.ok \/ (e.op # "exists" /\ Len(out.cols) # 1) THEN Error
    ELSE CASE e.op = "exists" -> Lit(Bool(out.rows # <<>>))
           [] e.op = "scalar" -> IF Len(out.rows) > 1 THEN Error
                                 ELSE Lit(IF out.rows = <<>> THEN Null ELSE out.rows[1][1])
           [] e.op = "insub" -> E("in", e.arg.negated,
                                  kids \o [i \in DOMAIN out.rows |-> Lit(out.rows[i][1])])

-----------------------------------------------------------------------------
(* Joins.                                                                    *)

\* conjunct_qualifier: the one table whose columns, all qualified, e uses.
ConjunctQualifier(e) ==
    LET quals == {c[1] : c \in ColumnsIn(e, FALSE)} IN
    IF Cardinality(quals) # 1 \/ "" \in quals \/ Holds(e, {"agg", "win"} \union Subqueries)
    THEN None ELSE CHOOSE q \in quals : TRUE

\* prefilter: the conjuncts of the WHERE about table q, before the join.
Prefilter(rows, q, def, cond) ==
    LET mine == IF cond = None THEN <<>> ELSE Pick(SplitAnd(cond), LAMBDA e : ConjunctQualifier(e) = q)
        schema == Push(<<>>, q, def)
        pass(row) == FoldLeft(LAMBDA v, e : IF v = Bool(TRUE) THEN ValueOf(e, schema, row) ELSE v,
                              Bool(TRUE), mine)
    IN  KeptBy(rows, [i \in DOMAIN rows |-> pass(rows[i])])

\* One row of the left side with its matches; a LEFT JOIN keeps it without any.
JoinRow(left, right, join, schema) ==
    LET pairs == [i \in DOMAIN right |-> left \o right[i]]
        kept == KeptBy(pairs, [i \in DOMAIN pairs |-> ValueOf(join.on, schema, pairs[i])])
    IN  IF kept = Ok(<<>>) /\ join.kind = "left"
        THEN Ok(<<left \o [i \in 1 .. Width(schema) - Len(left) |-> Null]>>) ELSE kept

\* Variant of RightRows: the right side of a LEFT JOIN is filtered as well.
RightRowsLeft(table, q, join, cond) == Prefilter(Scan(table), q, table.def, cond)

\* Only the right side of an INNER JOIN may be filtered before the join.
RightRows(table, q, join, cond) ==
    IF join.kind = "inner" THEN Prefilter(Scan(table), q, table.def, cond) ELSE Ok(Scan(table))

\* One JOIN over the rows so far: [ok, rows, schema].
JoinStep(sofar, table, join, cond) ==
    LET q == Qualifier(join.table)
        schema == Push(sofar.schema, q, table.def)
        bad == \/ \E i \in DOMAIN sofar.schema : sofar.schema[i].q = q
               \/ Holds(join.on, {"agg"}) \/ ~Valid(join.on, schema)
        right == RightRows(table, q, join, cond)
        r == IF ~sofar.ok \/ bad \/ ~right.ok THEN Fail
             ELSE Collect(sofar.rows, LAMBDA left : JoinRow(left, right.rows, join, schema))
    IN  [ok |-> r.ok, rows |-> r.rows, schema |-> schema]

-----------------------------------------------------------------------------
(* Output columns and order.                                                 *)

ColN == <<"col1", "col2", "col3", "col4">>

\* The expansion of *: positions in the logical order, table after table.
StarMap(schema) ==
    FlattenSeq([t \in DOMAIN schema |->
        [i \in DOMAIN schema[t].def.order |-> schema[t].off + schema[t].def.order[i]]])
StarNames(schema) ==
    FlattenSeq([t \in DOMAIN schema |->
        [i \in DOMAIN schema[t].def.order |-> schema[t].def.cols[schema[t].def.order[i]].name]])

ColumnNames(stmt, schema) ==
    FlattenSeq([i \in DOMAIN stmt.proj |->
        LET item == stmt.proj[i] IN
        IF item.expr = None THEN StarNames(schema)
        ELSE IF item.as # None THEN <<item.as>>
        ELSE IF item.expr.op = "col" THEN <<item.expr.arg[2]>> ELSE <<ColN[i]>>])

\* One output row; V gives the value of an expression.
Projected(stmt, schema, row, V(_)) ==
    FlattenSeq([i \in DOMAIN stmt.proj |->
        IF stmt.proj[i].expr = None
        THEN [j \in DOMAIN StarMap(schema) |-> row[StarMap(schema)[j]]]
        ELSE <<V(stmt.proj[i].expr)>>])

Descs(stmt) == [i \in DOMAIN stmt.order |-> stmt.order[i].desc]
IsPosition(e) == e.op = "lit" /\ e.arg[1] = "int" /\ e.arg[2] >= 1

\* order_output_index: a column of the output, 0 if there is none.
OrderOutput(e, cols) ==
    IF e.op = "col" /\ e.arg[1] = "" THEN SelectInSeq(cols, LAMBDA c : c = e.arg[2])
    ELSE IF IsPosition(e) /\ e.arg[2] <= Len(cols) THEN e.arg[2] ELSE 0

OrderedOutput(rows, stmt, cols) ==
    LET at == [i \in DOMAIN stmt.order |-> OrderOutput(stmt.order[i].expr, cols)] IN
    IF stmt.order = <<>> THEN Ok(rows)
    ELSE IF 0 \in ToSet(at) THEN Fail
    ELSE Arranged(rows, [i \in DOMAIN rows |-> [k \in DOMAIN at |-> rows[i][at[k]]]], Descs(stmt))

\* order_key_expr: a position, an alias or an expression over the input row.
OrderKeyExpr(e, stmt) ==
    LET named == SelectInSeq(stmt.proj, LAMBDA p : p.expr # None /\ p.as # None /\ p.as = e.arg[2]) IN
    IF IsPosition(e)
    THEN (IF e.arg[2] <= Len(stmt.proj) /\ stmt.proj[e.arg[2]].expr # None
          THEN stmt.proj[e.arg[2]].expr ELSE Error)
    ELSE IF e.op = "col" /\ e.arg[1] = "" /\ named # 0 THEN stmt.proj[named].expr ELSE e

OrderedInput(rows, stmt, schema) ==
    LET keys == [k \in DOMAIN stmt.order |-> OrderKeyExpr(stmt.order[k].expr, stmt)] IN
    IF stmt.order = <<>> \/ rows = <<>> THEN Ok(rows)
    ELSE IF \E k \in DOMAIN keys : ~Valid(keys[k], schema) THEN Fail
    ELSE Arranged(rows, [i \in DOMAIN rows |-> [k \in DOMAIN keys |-> ValueOf(keys[k], schema, rows[i])]],
                  Descs(stmt))

-----------------------------------------------------------------------------
(* Aggregates and groups.                                                    *)

\* MIN and MAX keep the first of equal values.
Best(vals, wins) ==
    FoldLeft(LAMBDA b, v : IF b = Err \/ v = Err THEN Err
                           ELSE IF b = Null THEN v
                           ELSE IF Cmp(v, b) = "error" THEN Err
                           ELSE IF Cmp(v, b) = wins THEN v ELSE b, Null, vals)

\* compute_aggregate: NULLs do not count; SUM checks every integer addition.
ComputeAggregate(func, distinct, args, schema, rows) ==
    LET all == [i \in DOMAIN rows |-> Eval(args[1], schema, rows[i])]
        some == Pick(all, LAMBDA v : v # Null)
        one == [i \in DOMAIN some |-> <<some[i]>>]
        vals == IF distinct THEN [i \in DOMAIN Dedup(one) |-> Dedup(one)[i][1]] ELSE some
    IN  IF args = <<>> THEN Integer(Len(rows))
        ELSE IF Holds(args[1], {"agg"}) \/ Err \in ToSet(all) THEN Err
        ELSE CASE func = "count" -> Integer(Len(vals))
               [] func = "sum" -> IF vals = <<>> THEN Null ELSE FoldLeft(AddValue, Integer(0), vals)
               [] func = "min" -> Best(vals, "lt")
               [] func = "max" -> Best(vals, "gt")

\* fold_aggregates
RECURSIVE Folded(_, _, _)
Folded(e, schema, rows) ==
    IF e.op = "agg" THEN LitOrError(ComputeAggregate(e.arg[1], e.arg[2], e.kids, schema, rows))
    ELSE IF e.op \in {"win"} \union Subqueries THEN e
    ELSE WithKids(e, [i \in DOMAIN e.kids |-> Folded(e.kids[i], schema, rows)])

\* The rows of each group, in the order in which the keys appear; the key is the
\* encoding of the values, so the zeros differ and so do 1 and 1.0.
Groups(rows, keys) ==
    LET first == Pick([i \in DOMAIN rows |-> i], LAMBDA i : \A j \in 1 .. i - 1 : keys[j] # keys[i]) IN
    [g \in DOMAIN first |->
        Pick([i \in DOMAIN rows |-> i], LAMBDA i : keys[i] = keys[first[g]])]

\* check_grouped: a column outside of aggregates is one of the GROUP BY.
Grouped(e, stmt, schema) ==
    LET cols == UNION {ColumnsIn(stmt.group[i], FALSE) : i \in DOMAIN stmt.group} IN
    /\ Valid(e, schema)
    /\ \A c \in ColumnsIn(e, TRUE) : \E g \in cols :
           g[2] = c[2] /\ (g[1] = "" \/ c[1] = "" \/ g[1] = c[1])

\* The output row of a group, none if HAVING does not hold.
GroupRow(stmt, schema, group) ==
    LET value(e) == ValueOf(Folded(e, schema, group), schema, group[1])
        row == Projected(stmt, schema, group[1], value)
    IN  IF stmt.having = None THEN Clean(<<row>>)
        ELSE IfOk(KeptBy(<<row>>, <<value(stmt.having)>>), Clean)

\* run_grouped
RunGrouped(stmt, schema, rows) ==
    LET keys == [i \in DOMAIN rows |-> [k \in DOMAIN stmt.group |-> ValueOf(stmt.group[k], schema, rows[i])]]
        bad == \/ \E k \in DOMAIN stmt.group : ~Valid(stmt.group[k], schema)
               \/ \E i \in DOMAIN stmt.proj : stmt.proj[i].expr = None \/ ~Grouped(stmt.proj[i].expr, stmt, schema)
               \/ stmt.having # None /\ ~Grouped(stmt.having, stmt, schema)
               \/ \E i \in DOMAIN rows : Err \in ToSet(keys[i])
        cols == ColumnNames(stmt, schema)
        groups == Groups(rows, keys)
        out == Collect([g \in DOMAIN groups |-> [i \in DOMAIN groups[g] |-> rows[groups[g][i]]]],
                       LAMBDA group : GroupRow(stmt, schema, group))
    IN  IF bad THEN Failed
        ELSE Output(cols, IfOk(out, LAMBDA rs : IfOk(OrderedOutput(rs, stmt, cols), LAMBDA os : Ok(Cut(os, stmt)))))

\* aggregate_projection and HAVING: one row for all, even if there are no rows.
RunAggregate(stmt, schema, rows) ==
    LET value(e) == ValueOf(Folded(e, schema, rows), <<>>, <<>>)
        exprs == [i \in DOMAIN stmt.proj |-> stmt.proj[i].expr]
        bad == \/ \E i \in DOMAIN exprs :
                    exprs[i] = None \/ ColumnsIn(exprs[i], TRUE) # {} \/ ~Valid(exprs[i], schema)
               \/ stmt.having # None /\ ~Valid(stmt.having, schema)
        row == [i \in DOMAIN exprs |-> value(exprs[i])]
        cols == ColumnNames(stmt, schema)
    IN  IF bad THEN Failed
        ELSE Output(cols, IfOk(Clean(<<row>>), LAMBDA one :
                IF stmt.having = None THEN Ok(Cut(one, stmt))
                ELSE IfOk(KeptBy(one, <<value(stmt.having)>>), LAMBDA kept : Ok(Cut(kept, stmt)))))

-----------------------------------------------------------------------------
(* Windows: [func, part, order, frame] over positions 1 .. m of a partition. *)

\* Variant of FrameRange: the frame of a window without order ends at the row too.
FrameRangeAlwaysCurrent(frame, k, m, ordered) ==
    IF frame = None THEN 1 .. k
    ELSE (IF k - frame[1][2] < 1 THEN 1 ELSE k - frame[1][2]) .. (IF k + frame[2][2] > m THEN m ELSE k + frame[2][2])

\* frame_range: the positions of the frame of position k of m.
FrameRange(frame, k, m, ordered) ==
    LET f == IF frame # None THEN frame
             ELSE <<<<"unbounded-", 0>>, IF ordered THEN <<"current", 0>> ELSE <<"unbounded+", 0>>>>
        at(b, start) == CASE b[1] = "unbounded-" -> IF start THEN 1 ELSE 0
                          [] b[1] = "unbounded+" -> IF start THEN m + 1 ELSE m
                          [] b[1] = "preceding" -> k - b[2]
                          [] b[1] = "following" -> k + b[2]
                          [] b[1] = "current" -> k
        from == at(f[1], TRUE)
        to == at(f[2], FALSE)
    IN  (IF from < 1 THEN 1 ELSE from) .. (IF to > m THEN m ELSE to)

\* window_aggregate: as the aggregates, but SUM wraps round.
WindowAggregate(func, vals) ==
    LET some == Pick(vals, LAMBDA v : v # Null)
        total == Sum([i \in DOMAIN some |-> some[i][2]])
    IN  CASE func = "count" -> Integer(Len(some))
          [] func = "min" -> Best(some, "lt")
          [] func = "max" -> Best(some, "gt")
          [] func = "sum" ->
                IF \E i \in DOMAIN some : ~Numeric(some[i]) THEN Err
                ELSE IF some = <<>> THEN Null
                ELSE IF \A i \in DOMAIN some : some[i][1] = "int" THEN Integer(Wrap(total)) ELSE Real(total)

\* NTILE: the first tiles are one row longer; p is counted from 0.
Tile(tiles, p, m) ==
    LET base == m \div tiles
        rest == m % tiles
    IN  IF p < (base + 1) * rest THEN p \div (base + 1) + 1
        ELSE rest + (p - (base + 1) * rest) \div (IF base = 0 THEN 1 ELSE base) + 1

\* window_partition: the value at position k; vals and keys are those of the
\* partition in its order, args the arguments that must be constant (the number
\* of tiles, the offset), default is that of LAG.
WindowValue(spec, vals, keys, k, args, default) ==
    LET m == Len(keys)
        ordered == spec.order # <<>>
        starts == {j \in 1 .. k : ~ordered \/ j = 1 \/ ~Alike(keys[j - 1], keys[j])}
        second == IF Len(args) > 1 THEN args[2] ELSE Integer(1)
        frame == FrameRange(spec.frame, k, m, ordered)
        inframe == [i \in 1 .. Cardinality(frame) |-> vals[CHOOSE j \in frame : Cardinality({h \in frame : h < j}) = i - 1]]
        target == IF spec.func = "lag" THEN k - second[2] ELSE k + second[2]
    IN  CASE spec.func = "row_number" -> Integer(k)
          [] spec.func = "rank" -> Integer(CHOOSE j \in starts : \A h \in starts : h <= j)
          [] spec.func = "dense_rank" -> Integer(Cardinality(starts))
          [] spec.func = "ntile" -> IF args[1][1] = "int" /\ args[1][2] >= 1
                                    THEN Integer(Tile(args[1][2], k - 1, m)) ELSE Err
          [] spec.func \in {"lag", "lead"} ->
                IF second[1] # "int" THEN Err
                ELSE IF target \in 1 .. m THEN vals[target] ELSE default
          [] spec.func = "first_value" -> IF inframe = <<>> THEN Null ELSE inframe[1]
          [] spec.func = "last_value" -> IF inframe = <<>> THEN Null ELSE Last(inframe)
          [] spec.func = "count" /\ args = <<>> -> Integer(Len(inframe))
          [] OTHER -> IF Err \in ToSet(inframe) THEN Err ELSE WindowAggregate(spec.func, inframe)

\* compute_window: a value for every row; partitions are sorted on their own.
ComputeWindow(w, schema, rows) ==
    LET spec == w.arg
        ev(es, i) == [k \in DOMAIN es |-> ValueOf(es[k], schema, rows[i])]
        orders == [k \in DOMAIN spec.order |-> spec.order[k].expr]
        descs == [k \in DOMAIN spec.order |-> spec.order[k].desc]
        parts == [i \in DOMAIN rows |-> ev(spec.part, i)]
        keys == [i \in DOMAIN rows |-> ev(orders, i)]
        args(i) == ev(w.kids, i)
        members(i) == Pick([j \in DOMAIN rows |-> j], LAMBDA j : parts[j] = parts[i])
        order(i) == LET ms == members(i)
                        s == Sorted([x \in DOMAIN ms |-> keys[ms[x]]], descs)
                    IN  [x \in DOMAIN ms |-> ms[s[x]]]
        consts == [k \in DOMAIN w.kids |-> ValueOf(w.kids[k], <<>>, <<>>)]
        value(i, o) == WindowValue(spec,
                           [x \in DOMAIN o |-> IF w.kids = <<>> THEN Null ELSE args(o[x])[1]],
                           [x \in DOMAIN o |-> keys[o[x]]],
                           CHOOSE x \in DOMAIN o : o[x] = i, consts,
                           IF Len(w.kids) > 2 THEN args(i)[3] ELSE Null)
    IN  IF \E i \in DOMAIN rows : Err \in ToSet(parts[i]) \/ ~Comparable(keys)
        THEN [i \in DOMAIN rows |-> Err]
        ELSE [i \in DOMAIN rows |-> value(i, order(i))]

\* collect_windows and subst_windows: the expression for row i.
RECURSIVE SubstWindows(_, _, _, _)
SubstWindows(e, schema, rows, i) ==
    IF e.op = "win" THEN LitOrError(ComputeWindow(e, schema, rows)[i])
    ELSE WithKids(e, [k \in DOMAIN e.kids |-> SubstWindows(e.kids[k], schema, rows, i)])

\* A key of the ORDER BY outside: an output column or a column of the schema.
WindowKey(e, cols, schema, row, out) ==
    IF OrderOutput(e, cols) # 0 THEN out[OrderOutput(e, cols)]
    ELSE IF e.op = "col" THEN Eval(e, schema, row) ELSE Err

\* run_windowed: DISTINCT and LIMIT come after the windows.
RunWindowed(stmt, schema, rows) ==
    LET out == [i \in DOMAIN rows |->
                   Projected(stmt, schema, rows[i], LAMBDA e : ValueOf(SubstWindows(e, schema, rows, i), schema, rows[i]))]
        cols == ColumnNames(stmt, schema)
        keys == [i \in DOMAIN rows |-> [k \in DOMAIN stmt.order |->
                    WindowKey(stmt.order[k].expr, cols, schema, rows[i], out[i])]]
        bad == \E i \in DOMAIN stmt.proj : stmt.proj[i].expr # None /\ ~Valid(stmt.proj[i].expr, schema)
    IN  IF bad THEN Failed
        ELSE Output(cols, IfOk(Clean(out), LAMBDA clean :
                IfOk(Arranged(clean, keys, Descs(stmt)), LAMBDA os :
                    Ok(Cut(IF stmt.distinct THEN Dedup(os) ELSE os, stmt)))))

-----------------------------------------------------------------------------
(* Overlays.  R runs a statement against a source: it is Run below.          *)

\* synthetic_cte_def: a table without rowid alias nor indexes.
Made(out) ==
    [def |-> [cols |-> [i \in DOMAIN out.cols |-> [name |-> out.cols[i], type |-> "int"]],
              alias |-> 0, indexes |-> <<>>, order |-> [i \in DOMAIN out.cols |-> i]],
     rows |-> out.rows]

\* CteSource::table over ViewSource::table: a CTE hides a table, a table a view.
\* The body of a view sees no CTE; a view that needs itself is an error.
InCtes(src, name) == SelectInSeq(src.ctes, LAMBDA x : x.name = name)
IsView(src, name) == InCtes(src, name) = 0 /\ name \notin DOMAIN src.tables /\ name \in DOMAIN src.views \ src.busy
OfView(src, name) == [src EXCEPT !.ctes = <<>>, !.busy = @ \union {name}]
Stored(src, name) ==
    IF InCtes(src, name) # 0 THEN src.ctes[InCtes(src, name)].table
    ELSE IF name \in DOMAIN src.tables THEN src.tables[name] ELSE None
MadeIfOk(out) == IF out.ok THEN Made(out) ELSE None
Lookup(src, name, R(_, _)) ==
    IF IsView(src, name) THEN MadeIfOk(R(OfView(src, name), src.views[name])) ELSE Stored(src, name)

\* CteSource: the new name goes into the overlay.
WithTable(src, name, table) == [src EXCEPT !.ctes = Append(@, [name |-> name, table |-> table])]

\* The SELECT before the set operators.
Leading(stmt) == [stmt EXCEPT !.compound = <<>>, !.order = <<>>, !.limit = None, !.offset = None]

\* cte_is_recursive
Names(stmt) == {stmt.joins[i].table.name : i \in {j \in DOMAIN stmt.joins : stmt.joins[j].table.sub = None}}
               \union (IF stmt.from = None \/ stmt.from.sub # None THEN {} ELSE {stmt.from.name})
IsRecursive(cte) ==
    \E i \in DOMAIN Cores(cte.query) : cte.name \in Names(Cores(cte.query)[i])

\* Variant of Fresh: only the rows of the last step are known.
FreshSince(st, step, all) ==
    IF all THEN step ELSE Pick(Dedup(step), LAMBDA r : ~HasRow(st.working, r))

\* The rows of a step that are new; UNION ALL takes them all.
Fresh(st, step, all) ==
    IF all THEN step ELSE Pick(Dedup(step), LAMBDA r : ~HasRow(st.rows, r))

\* One turn of the loop of materialize_recursive: the term sees the last rows.
Grown(st, out, all) ==
    LET fresh == Fresh(st, out.rows, all)
    IN  IF st.done \/ ~st.ok THEN st
        ELSE IF ~out.ok \/ Len(out.cols) # Len(st.table.def.cols) THEN [st EXCEPT !.ok = FALSE]
        ELSE IF fresh = <<>> THEN [st EXCEPT !.done = TRUE]
        ELSE [st EXCEPT !.rows = @ \o fresh, !.working = fresh,
                        !.ok = Len(st.rows) + Len(fresh) <= MaxRows]

\* materialize_recursive: every turn adds a row, so MaxRows + 1 turns are enough.
Recursive(src, cte, R(_, _)) ==
    LET seed == R(src, Leading(cte.query))
        start == [ok |-> seed.ok, done |-> FALSE, table |-> Made(seed), rows |-> seed.rows, working |-> seed.rows]
        term == cte.query.compound[1]
        seen(st) == WithTable(src, cte.name, [st.table EXCEPT !.rows = st.working])
        end == FoldLeft(LAMBDA st, i : Grown(st, R(seen(st), term.select), term.op = "union all"),
                        start, [i \in 1 .. MaxRows + 1 |-> i])
    IN  IF Len(cte.query.compound) # 1 \/ ~end.ok THEN None ELSE [end.table EXCEPT !.rows = end.rows]

\* run_with_ctes: each sees those before it.  WITH only opens a statement, so the
\* overlay is empty at first.
CteTable(src, cte, R(_, _)) ==
    IF IsRecursive(cte) THEN Recursive(src, cte, R)
    ELSE MadeIfOk(R(src, cte.query))
AddCte(src, cte, R(_, _)) ==
    LET table == CteTable(src, cte, R) IN
    IF table = None THEN None ELSE WithTable(src, cte.name, table)
RunWithCtes(src, stmt, R(_, _)) ==
    LET over == FoldLeft(LAMBDA s, cte : IF s = None THEN None ELSE AddCte(s, cte, R), src, stmt.with) IN
    IF over = None THEN Failed ELSE R(over, [stmt EXCEPT !.with = <<>>])

\* run_with_derived: SELECTs in FROM do not see each other, and hide what is below.
HasDerived(stmt) ==
    \/ stmt.from # None /\ stmt.from.sub # None
    \/ \E i \in DOMAIN stmt.joins : stmt.joins[i].table.sub # None
Flat(ref) == IF ref.sub = None THEN ref ELSE [ref EXCEPT !.name = ref.as, !.sub = None]
DerivedIn(stmt) ==
    Pick(<<stmt.from>> \o [i \in DOMAIN stmt.joins |-> stmt.joins[i].table], LAMBDA t : t.sub # None)
WithDerived(src, stmt, outs) ==
    [src EXCEPT !.ctes = [i \in DOMAIN outs |-> [name |-> DerivedIn(stmt)[i].as, table |-> Made(outs[i])]] \o @]
FlatFrom(stmt) == [stmt EXCEPT !.from = Flat(@), !.joins = [i \in DOMAIN @ |-> [@[i] EXCEPT !.table = Flat(@)]]]
RunWithDerived(src, stmt, R(_, _)) ==
    LET outs == [i \in DOMAIN DerivedIn(stmt) |-> R(src, DerivedIn(stmt)[i].sub)] IN
    IF \E i \in DOMAIN outs : ~outs[i].ok THEN Failed
    ELSE R(WithDerived(src, stmt, outs), FlatFrom(stmt))

-----------------------------------------------------------------------------
(* run_select.  A answers the subqueries of an expression: Resolved below.   *)

\* FROM and the joins, left to right, of the tables named there: [ok, rows, schema].
RunFrom(stmt, tables) ==
    LET first == tables[1]
        q == Qualifier(stmt.from)
        start == IF first = None THEN Fail
                 ELSE IF stmt.joins = <<>> THEN Candidates(first, q, stmt.where)
                 ELSE Prefilter(Scan(first), q, first.def, stmt.where)
        schema == IF first = None THEN <<>> ELSE Push(<<>>, q, first.def)
        step(sofar, i) == IF tables[i + 1] = None THEN [sofar EXCEPT !.ok = FALSE]
                          ELSE JoinStep(sofar, tables[i + 1], stmt.joins[i], stmt.where)
    IN  FoldLeft(step, [ok |-> start.ok, rows |-> start.rows, schema |-> schema],
                 [i \in DOMAIN stmt.joins |-> i])

NamedIn(stmt) == <<stmt.from.name>> \o [i \in DOMAIN stmt.joins |-> stmt.joins[i].table.name]

\* The value of an expression on a row, its correlated subqueries included.
RowValue(src, e, schema, row, A(_, _, _)) ==
    IF Holds(e, Subqueries) THEN ValueOf(A(src, SubstBodies(e, schema, row), {}), schema, row)
    ELSE ValueOf(e, schema, row)

\* values: what the condition is on each row.
Where(stmt, from, values) ==
    IF ~from.ok THEN Fail
    ELSE IF stmt.where = None THEN Ok(from.rows)
    ELSE IF Holds(stmt.where, {"agg"}) \/ ~Valid(stmt.where, from.schema) THEN Fail
    ELSE KeptBy(from.rows, values)

\* Order, LIMIT, projection; with DISTINCT, LIMIT comes last.
RunPlain(src, stmt, schema, rows, A(_, _, _)) ==
    LET bad == \E i \in DOMAIN stmt.proj : stmt.proj[i].expr # None /\ ~Valid(stmt.proj[i].expr, schema)
        project(rs) == Clean([i \in DOMAIN rs |->
            Projected(stmt, schema, rs[i], LAMBDA e : RowValue(src, e, schema, rs[i], A))])
    IN  IF bad THEN Failed
        ELSE Output(ColumnNames(stmt, schema), IfOk(OrderedInput(rows, stmt, schema), LAMBDA os :
                IF stmt.distinct THEN IfOk(project(os), LAMBDA ps : Ok(Cut(Dedup(ps), stmt)))
                ELSE project(Cut(os, stmt))))

ProjectionHolds(stmt, ops) == \E i \in DOMAIN stmt.proj : stmt.proj[i].expr # None /\ Holds(stmt.proj[i].expr, ops)

RunRows(src, stmt, schema, rows, A(_, _, _)) ==
    IF stmt.group # <<>> THEN RunGrouped(stmt, schema, rows)
    ELSE IF ProjectionHolds(stmt, {"agg"}) \/ (stmt.having # None /\ Holds(stmt.having, {"agg"}))
         THEN RunAggregate(stmt, schema, rows)
    ELSE IF stmt.having # None THEN Failed
    ELSE IF ProjectionHolds(stmt, {"win"}) THEN RunWindowed(stmt, schema, rows)
    ELSE RunPlain(src, stmt, schema, rows, A)

\* run_select_no_from: the one implicit row; it is projected if it is kept.
RunNoFrom(stmt) ==
    LET exprs == [i \in DOMAIN stmt.proj |-> stmt.proj[i].expr]
        bad == \/ stmt.joins # <<>> \/ stmt.group # <<>> \/ stmt.having # None \/ stmt.order # <<>>
               \/ \E i \in DOMAIN exprs : exprs[i] = None \/ Holds(exprs[i], {"agg"})
        kept == KeptBy(<<<<>>>>, <<IF stmt.where = None THEN Bool(TRUE) ELSE ValueOf(stmt.where, <<>>, <<>>)>>)
    IN  IF bad THEN Failed
        ELSE Output(ColumnNames(stmt, <<>>), IfOk(kept, LAMBDA rs :
                Clean([i \in DOMAIN Cut(rs, stmt) |-> [k \in DOMAIN exprs |-> ValueOf(exprs[k], <<>>, <<>>)]])))

Combined(rows, part, op) ==
    CASE op = "union all" -> rows \o part
      [] op = "union" -> Dedup(rows \o part)
      [] op = "intersect" -> Pick(Dedup(rows), LAMBDA r : HasRow(part, r))
      [] op = "except" -> Pick(Dedup(rows), LAMBDA r : ~HasRow(part, r))

\* run_compound: from left to right; ORDER BY and LIMIT are of the whole.
RunCompound(stmt, lead, parts) ==
    LET join(sofar, i) == IF ~sofar.ok \/ ~parts[i].ok \/ Len(parts[i].cols) # Len(lead.cols) THEN Fail
                          ELSE Ok(Combined(sofar.rows, parts[i].rows, stmt.compound[i].op))
        all == FoldLeft(join, [ok |-> lead.ok, rows |-> lead.rows], [i \in DOMAIN parts |-> i])
    IN  Output(lead.cols, IfOk(all, LAMBDA rs :
            IfOk(OrderedOutput(rs, stmt, lead.cols), LAMBDA os : Ok(Cut(os, stmt)))))

\* A statement whose uncorrelated subqueries are answered.
RunResolved(src, stmt, R(_, _), A(_, _, _)) ==
    IF SomeExpr(stmt, LAMBDA e : Holds(e, {"error"})) THEN Failed
    ELSE IF stmt.compound # <<>>
         THEN RunCompound(stmt, R(src, Leading(stmt)),
                          [i \in DOMAIN stmt.compound |-> R(src, stmt.compound[i].select)])
    ELSE IF stmt.from = None THEN RunNoFrom(stmt)
    ELSE LET from == RunFrom(stmt, [i \in DOMAIN NamedIn(stmt) |-> Lookup(src, NamedIn(stmt)[i], R)])
             values == [i \in DOMAIN from.rows |-> RowValue(src, stmt.where, from.schema, from.rows[i], A)]
             kept == Where(stmt, from, values)
         IN  IF ~kept.ok THEN Failed ELSE RunRows(src, stmt, from.schema, kept.rows, A)

RECURSIVE Run(_, _), Resolved(_, _, _)

\* resolve_expr with the qualifiers of the outer statement: what refers to them is
\* left for each row; resolve_correlated_expr leaves nothing.
Resolved(src, e, outer) ==
    LET mapped == MapParts(e, LAMBDA x : Resolved(src, x, outer)) IN
    IF e.op \notin Subqueries \/ Refs(Exists(StmtOf(e)), outer) THEN mapped
    ELSE Answered(e, mapped.kids, Run(src, StmtOf(e)))

\* select_has_subquery
HasSubquery(stmt) == SomeExpr(stmt, LAMBDA e : Holds(e, Subqueries))

\* resolve_select_subqueries
ResolvedStmt(src, stmt) == MapExprs(stmt, LAMBDA e : Resolved(src, e, OuterQualifiers(stmt)))

Run(src, stmt) ==
    IF stmt.with # <<>> THEN RunWithCtes(src, stmt, Run)
    ELSE IF HasDerived(stmt) THEN RunWithDerived(src, stmt, Run)
    ELSE RunResolved(src, IF HasSubquery(stmt) THEN ResolvedStmt(src, stmt) ELSE stmt, Run, Resolved)

\* run_query: the statement against the tables and views of a database.
RunQuery(tables, views, stmt) == Run([tables |-> tables, views |-> views, ctes |-> <<>>, busy |-> {}], stmt)
=============================================================================
