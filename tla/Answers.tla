------------------------------ MODULE Answers ------------------------------
(***************************************************************************)
(* A connection asks the SELECTs of a list of a database, and each answer is *)
(* compared with what the statement means: a table is a function from row    *)
(* identities to rows, a SELECT the function of the combinations of          *)
(* identities that satisfy it, a subquery is evaluated in the environment of *)
(* its row.  No plan, no pushdown, no substitution, no order.                *)
(***************************************************************************)
EXTENDS Select

CONSTANTS
    Databases,   \* sets of tables by name, [def, rows]
    Views,       \* the SELECT of each view
    Statements   \* a sequence of [kind, stmt, keys]

VARIABLES
    db,       \* the snapshot of the connection
    asked,    \* the statement that was asked, 0 if none
    answer    \* [ok, cols, rows]

vars == <<db, asked, answer>>

Init == db \in Databases /\ asked = 0 /\ answer = Failed

\* The connection asks statement i of an engine.
AskOf(i, Engine(_, _, _)) ==
    /\ asked = 0
    /\ asked' = i
    /\ answer' = Engine(db, Views, Statements[i].stmt)
    /\ UNCHANGED db

Ask(i) == AskOf(i, RunQuery)

Close ==
    /\ asked # 0
    /\ asked' = 0
    /\ answer' = Failed
    /\ UNCHANGED db

Next == (\E i \in DOMAIN Statements : Ask(i)) \/ Close

Spec == Init /\ [][Next]_vars

-----------------------------------------------------------------------------
(* What a statement means.  An environment gives <<qualifier, column>> its    *)
(* value, with "" for columns without qualifier; a table is [cols, star, rows],*)
(* star being the names that * stands for.                                   *)

Of(f) == {f[x] : x \in DOMAIN f}

BaseTable(t) ==
    [cols |-> [i \in DOMAIN t.def.cols |-> t.def.cols[i].name],
     star |-> [i \in DOMAIN t.def.order |-> t.def.cols[t.def.order[i]].name],
     rows |-> [id \in {<<n>> : n \in DOMAIN t.rows} |-> t.rows[id[1]]]]

Binding(q, table, id) ==
    [p \in {q, ""} \X ToSet(table.cols) |->
        IF id = <<>> THEN Null ELSE table.rows[id][SelectInSeq(table.cols, LAMBDA c : c = p[2])]]

\* The environment of a combination of identities, inside of an outer one.
Within(env, quals, tables, ids) ==
    FoldLeft(LAMBDA x, i : Binding(quals[i], tables[i], ids[i]) @@ x, env, [i \in DOMAIN ids |-> i])

\* The combinations that the joins and WHERE let through; True judges a condition.
Extended(ids, table, hits, left) ==
    IF hits = {} /\ left THEN {Append(ids, <<>>)} ELSE {Append(ids, id) : id \in hits}
Chosen(stmt, tables, True(_, _)) ==
    LET joined(sofar, j) == UNION {
            Extended(ids, tables[Len(ids) + 1],
                     {id \in DOMAIN tables[Len(ids) + 1].rows : True(Append(ids, id), j.on)}, j.kind = "left")
            : ids \in sofar}
    IN  {ids \in FoldLeft(joined, IF tables = <<>> THEN {<<>>} ELSE {<<id>> : id \in DOMAIN tables[1].rows}, stmt.joins) :
            stmt.where = None \/ True(ids, stmt.where)}

\* The aggregate of a family of values, none of them NULL.
AggregateOf(func, distinct, vals) ==
    CASE func = "count" -> Integer(Cardinality(IF distinct THEN Of(vals) ELSE DOMAIN vals))
      [] vals = <<>> -> Null
      [] func = "sum" -> AddValue(Integer(0), Integer(
             IF distinct THEN MapThenSumSet(LAMBDA v : v[2], Of(vals))
             ELSE MapThenSumSet(LAMBDA x : vals[x][2], DOMAIN vals)))
      [] func = "min" -> CHOOSE v \in Of(vals) : \A w \in Of(vals) : v[2] <= w[2]
      [] func = "max" -> CHOOSE v \in Of(vals) : \A w \in Of(vals) : v[2] >= w[2]
WithoutNulls(vals) == [x \in {x \in DOMAIN vals : vals[x] # Null} |-> vals[x]]

\* The rows of families of environments, one for each group.
GroupMeaning(stmt, groups, outside, Ev(_, _, _)) ==
    LET some(k) == IF groups[k] = <<>> THEN outside ELSE groups[k][CHOOSE x \in DOMAIN groups[k] : TRUE] IN
    [k \in {k \in DOMAIN groups : stmt.having = None \/ Ev(some(k), groups[k], stmt.having) = Bool(TRUE)} |->
        [i \in DOMAIN stmt.proj |-> Ev(some(k), groups[k], stmt.proj[i].expr)]]

\* envs split by the values of GROUP BY; without it all are one group.
Split(envs, keys) == [k \in Of(keys) |-> [x \in {x \in DOMAIN envs : keys[x] = k} |-> envs[x]]]
GroupsOf(stmt, envs, Ev(_, _, _)) ==
    IF stmt.group = <<>> THEN [k \in {<<>>} |-> envs]
    ELSE Split(envs, [x \in DOMAIN envs |-> [k \in DOMAIN stmt.group |-> Ev(envs[x], <<>>, stmt.group[k])]])

StarRow(env, quals, tables) ==
    FlattenSeq([t \in DOMAIN tables |-> [c \in DOMAIN tables[t].star |-> env[<<quals[t], tables[t].star[c]>>]]])

\* A SELECT without set operators, for the environments it chooses.
CoreMeaning(stmt, quals, tables, envs, outside, Ev(_, _, _)) ==
    IF stmt.group # <<>> \/ ProjectionHolds(stmt, {"agg"})
    THEN GroupMeaning(stmt, GroupsOf(stmt, envs, Ev), outside, Ev)
    ELSE IF stmt.proj[1].expr = None THEN [x \in DOMAIN envs |-> StarRow(envs[x], quals, tables)]
    ELSE [x \in DOMAIN envs |-> [i \in DOMAIN stmt.proj |-> Ev(envs[x], <<>>, stmt.proj[i].expr)]]
SelectMeaning(env, stmt, quals, tables, Ev(_, _, _)) ==
    CoreMeaning(stmt, quals, tables,
        [x \in Chosen(stmt, tables, LAMBDA ids, e : Ev(Within(env, quals, tables, ids), <<>>, e) = Bool(TRUE)) |->
            Within(env, quals, tables, x)], env, Ev)

Distinct(f, distinct) == IF distinct THEN [r \in Of(f) |-> r] ELSE f

\* A set operator over two families of rows.
SetMeaning(f, g, op) ==
    IF op = "union all"
    THEN [x \in ({1} \X DOMAIN f) \union ({2} \X DOMAIN g) |-> IF x[1] = 1 THEN f[x[2]] ELSE g[x[2]]]
    ELSE [r \in {r \in Of(f) \union Of(g) : CASE op = "union" -> TRUE
                                              [] op = "intersect" -> r \in Of(f) \intersect Of(g)
                                              [] op = "except" -> r \notin Of(g)} |-> r]

\* A subquery with the family of its rows, x the value on the left of IN.  A NULL
\* on the left gives NULL before the rows are looked at, as exec.rs:5902 has it;
\* in standard SQL NULL IN (no rows) is FALSE and NULL NOT IN (no rows) TRUE.
SubqueryMeaning(e, x, family, items) ==
    CASE e.op = "exists" -> Bool(items # {})
      [] e.op = "scalar" -> IF Cardinality(DOMAIN family) > 1 THEN Err
                            ELSE IF items = {} THEN Null ELSE CHOOSE v \in items : TRUE
      [] x = Null -> Null
      [] x \in items -> Bool(~e.arg.negated)
      [] Null \in items -> Null
      [] OTHER -> Bool(e.arg.negated)
FirstValues(f) == {f[x][1] : x \in DOMAIN f}

Named(stmt) == [i \in DOMAIN stmt.proj |-> stmt.proj[i].as]
MadeOf(stmt, family) == [cols |-> Named(stmt), star |-> Named(stmt), rows |-> family]
RefsOf(stmt) ==
    (IF stmt.from = None THEN <<>> ELSE <<stmt.from>>) \o [i \in DOMAIN stmt.joins |-> stmt.joins[i].table]

RECURSIVE Meaning(_, _, _), Value(_, _, _, _)

\* The value of an expression in an environment, for a group of environments.
Value(d, env, group, e) ==
    CASE e.op = "col" -> env[e.arg]
      [] e.op = "agg" -> IF e.kids = <<>> THEN Integer(Cardinality(DOMAIN group))
                         ELSE AggregateOf(e.arg[1], e.arg[2],
                                  WithoutNulls([g \in DOMAIN group |-> Value(d, group[g], <<>>, e.kids[1])]))
      [] e.op \in Subqueries ->
             LET family == Meaning(d, env, StmtOf(e)) IN
             SubqueryMeaning(e, IF e.kids = <<>> THEN Null ELSE Value(d, env, group, e.kids[1]), family, FirstValues(family))
      [] OTHER -> Eval(WithKids(e, [i \in DOMAIN e.kids |-> Lit(Value(d, env, group, e.kids[i]))]), <<>>, <<>>)

\* A derived table sees the tables and not the row; a view sees no CTE.
Meaning(d, env, stmt) ==
    LET table(ref) == IF ref.sub # None THEN MadeOf(ref.sub, Meaning(d, <<>>, ref.sub))
                      ELSE IF ref.name \in DOMAIN d.tables THEN d.tables[ref.name]
                      ELSE MadeOf(d.views[ref.name], Meaning([d EXCEPT !.tables = d.base], <<>>, d.views[ref.name]))
    IN  IF stmt.with # <<>>
        THEN Meaning([d EXCEPT !.tables =
                         (stmt.with[1].name :> MadeOf(stmt.with[1].query, Meaning(d, <<>>, stmt.with[1].query))) @@ @],
                     env, [stmt EXCEPT !.with = Tail(@)])
        ELSE FoldLeft(LAMBDA f, c : SetMeaning(f, Meaning(d, env, c.select), c.op),
                      Distinct(SelectMeaning(env, stmt, [i \in DOMAIN RefsOf(stmt) |-> Qualifier(RefsOf(stmt)[i])],
                                   [i \in DOMAIN RefsOf(stmt) |-> table(RefsOf(stmt)[i])],
                                   LAMBDA x, group, e : Value(d, x, group, e)), stmt.distinct),
                      stmt.compound)

MeaningIn(base, stmt) == Meaning([tables |-> base, base |-> base, views |-> Views], <<>>, stmt)
MeaningOf(stmt) == MeaningIn([n \in DOMAIN db |-> BaseTable(db[n])], stmt)

Times(rows, r) == Cardinality({i \in DOMAIN rows : rows[i] = r})

\* The answer has the rows of a family, each as often, in any order.
SameRows(rows, family) ==
    \A r \in ToSet(rows) \union Of(family) : Times(rows, r) = Cardinality({x \in DOMAIN family : family[x] = r})

\* It fails when, and only when, some value of the family is an error.
Agrees(family) ==
    IF \E r \in Of(family) : Err \in ToSet(r) THEN ~answer.ok
    ELSE answer.ok /\ SameRows(answer.rows, family)
\* The answer to a statement of one of these kinds, against what it means.
Exact(kinds, Means(_)) ==
    asked # 0 /\ Statements[asked].kind \in kinds => Agrees(Means(Statements[asked].stmt))

-----------------------------------------------------------------------------
(* Properties.                                                               *)

Values == {Null, Bool(TRUE), Bool(FALSE)} \union {Integer(n) : n \in -MaxInt - 1 .. MaxInt}
          \union {Real(n) : n \in -MaxInt - 1 .. MaxInt}

\* Every value of an answer has a type of the engine and an integer its width: an
\* addition that does not fit fails the statement (arith and SUM are checked).
TypeOK ==
    /\ db \in Databases
    /\ asked \in 0 .. Len(Statements)
    /\ answer.ok \in BOOLEAN
    /\ \A i \in DOMAIN answer.rows :
           Len(answer.rows[i]) = Len(answer.cols) /\ ToSet(answer.rows[i]) \subseteq Values

\* The answer is the one a plain reading of the statement gives:
\*  - whatever access plan run_select takes for the WHERE of a single table (rowid,
\*    index by equality or by range, scan), it is the whole table filtered row by row;
\*  - nested-loop joins with predicates pushed to the tables answer as the product
\*    filtered at the end, and a LEFT JOIN keeps its left rows once;
\*  - a subquery, answered once when it does not use the outer row and by
\*    substitution of the outer values when it does, means what it says on each row;
\*  - groups partition the filtered rows by key, aggregates ignore NULL, DISTINCT
\*    counts a value once, and an overflow of SUM fails the statement;
\*  - DISTINCT, UNION, INTERSECT and EXCEPT leave every row once, UNION ALL keeps
\*    each as often as both sides have it, from left to right;
\*  - CTEs, derived tables and views give the rows of their SELECT, and a CTE hides
\*    the table of its name, but not from the views that use that table.
AnswersExact == TypeOK /\ Exact({"plan", "join", "subquery", "group", "set", "overlay"}, MeaningOf)

\* The answer to a statement with ORDER BY, LIMIT and OFFSET, against all of its rows.
Ordered(Means(_)) ==
    asked # 0 /\ Statements[asked].kind = "order" =>
        LET q == Statements[asked]
            all == Means([q.stmt EXCEPT !.order = <<>>, !.limit = None, !.offset = None])
            ids == DOMAIN all
            key(r) == [k \in DOMAIN q.keys |-> r[q.keys[k][1]]]
            desc == [k \in DOMAIN q.keys |-> q.keys[k][2]]
            skip == IF q.stmt.offset = None THEN 0 ELSE q.stmt.offset
            room == IF Cardinality(ids) < skip THEN 0 ELSE Cardinality(ids) - skip
        IN  /\ answer.ok
            /\ Len(answer.rows) = IF q.stmt.limit = None \/ q.stmt.limit > room THEN room ELSE q.stmt.limit
            /\ \A p \in DOMAIN answer.rows :
                   /\ Times(answer.rows, answer.rows[p]) <= Cardinality({x \in ids : all[x] = answer.rows[p]})
                   /\ Cardinality({x \in ids : Precedes(key(all[x]), key(answer.rows[p]), desc)}) < skip + p
                   /\ Cardinality({x \in ids : ~Precedes(key(answer.rows[p]), key(all[x]), desc)}) >= skip + p

\* Of all rows by the keys <<output column, desc>>, position p of the answer with
\* OFFSET o is taken by one that has at most o + p - 1 rows before it and at
\* least o + p rows not after it; LIMIT leaves out no row it has room for.
OrderRespected == Ordered(MeaningOf)

\* The value a window function has on row n of t, by counting: before(n) are the
\* rows of its partition that the window orders before it.
WindowMeaning(w, t, n) ==
    LET spec == w.arg
        schema == Push(<<>>, "t", t.def)
        ev(e, m) == Eval(e, schema, t.rows[m])
        key(m) == [k \in DOMAIN spec.order |-> ev(spec.order[k].expr, m)]
        desc == [k \in DOMAIN spec.order |-> spec.order[k].desc]
        part == {m \in DOMAIN t.rows : \A k \in DOMAIN spec.part : ev(spec.part[k], m) = ev(spec.part[k], n)}
        less(m, o) == Precedes(key(m), key(o), desc)
        before(o) == {m \in part : less(m, o) \/ (m < o /\ ~less(o, m))}
        place(m) == Cardinality(before(m))
        frame == {m \in part : CASE spec.frame = None -> desc = <<>> \/ place(m) <= place(n)
                                 [] OTHER -> place(m) \in place(n) - spec.frame[1][2] .. place(n) + spec.frame[2][2]}
        arg(m) == ev(w.kids[1], m)
        at(p) == {m \in part : place(m) = p}
        tiles == w.kids[1].arg[2]
    IN  CASE spec.func = "row_number" -> Integer(place(n) + 1)
          [] spec.func = "rank" -> Integer(Cardinality({m \in part : less(m, n)}) + 1)
          [] spec.func = "dense_rank" -> Integer(Cardinality({key(m) : m \in {o \in part : less(o, n)}}) + 1)
          [] spec.func = "ntile" -> \* tiles as equal as they can be, the longer ones first
                Integer(CHOOSE i \in 1 .. tiles :
                    LET upto(j) == j * (Cardinality(part) \div tiles)
                                   + (IF j < Cardinality(part) % tiles THEN j ELSE Cardinality(part) % tiles)
                    IN  upto(i - 1) <= place(n) /\ place(n) < upto(i))
          [] spec.func = "lag" -> IF at(place(n) - 1) = {} THEN Null ELSE arg(CHOOSE m \in at(place(n) - 1) : TRUE)
          [] spec.func = "lead" -> IF at(place(n) + 2) = {} THEN arg(n) ELSE arg(CHOOSE m \in at(place(n) + 2) : TRUE)
          [] spec.func = "last_value" -> arg(CHOOSE m \in frame : \A o \in frame : place(o) <= place(m))
          [] OTHER -> AggregateOf(spec.func, FALSE, WithoutNulls([m \in frame |-> arg(m)]))

\* The answer to a query over t whose columns but the first are windows.
Windowed(Means(_, _, _)) ==
    asked # 0 /\ Statements[asked].kind = "window" =>
        LET q == Statements[asked].stmt
            t == db["t"]
        IN  /\ answer.ok
            /\ Len(answer.rows) = Cardinality(DOMAIN t.rows)
            /\ \A i \in DOMAIN answer.rows : \A k \in 2 .. Len(q.proj) :
                   answer.rows[i][k] = Means(q.proj[k].expr, t, answer.rows[i][1][2])

\* Every window function of a query over t has on each row the value that counting
\* the rows of its partition gives, for frames that reach past either end too.
WindowsExact == Windowed(WindowMeaning)

\* The nodes that the edges t.a -> t.b reach from node 1.
Reachable ==
    LET edges == {<<r[2], r[3]>> : r \in Of(db["t"].rows)}
        grow(set, i) == set \union {e[2] : e \in {e \in edges : e[1] \in set}}
    IN  FoldLeft(grow, {Integer(1)}, [i \in 1 .. Cardinality(edges) |-> i])

\* A recursive CTE is the transitive closure: with UNION it ends, cycles or not,
\* with every reachable node once; with UNION ALL it gives just these nodes or is
\* stopped by the limit of rows, and never goes on for ever.
ClosureExact ==
    asked # 0 =>
        /\ Statements[asked].kind = "closure" =>
               answer.ok /\ SameRows(answer.rows, [n \in Reachable |-> <<n>>])
        /\ Statements[asked].kind = "walks" /\ answer.ok =>
               {r[1] : r \in ToSet(answer.rows)} = Reachable /\ Len(answer.rows) <= MaxRows
=============================================================================
