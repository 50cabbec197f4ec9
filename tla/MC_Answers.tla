---------------------------- MODULE MC_Answers ----------------------------
(***************************************************************************)
(* Two tables with and without indexes, three views, and a list of SELECTs.  *)
(***************************************************************************)
EXTENDS Answers

Column(name, type) == [name |-> name, type |-> type]
TDef == [cols |-> <<Column("id", "int"), Column("a", "int"), Column("b", "int")>>,
         alias |-> 1, indexes |-> <<<<2>>, <<2, 3>>>>, order |-> <<1, 3, 2>>]
UDef == [cols |-> <<Column("id", "int"), Column("x", "int"), Column("r", "real")>>,
         alias |-> 1, indexes |-> <<<<3>>>>, order |-> <<1, 2, 3>>]

I(n) == Lit(Integer(n))
C(name) == Col("", name)
T(name) == Col("t", name)
U(name) == Col("u", name)
V(name) == Col("v", name)
Ref(name) == [name |-> name, as |-> None, sub |-> None]
As(name, as) == [name |-> name, as |-> as, sub |-> None]
Derived(stmt, as) == [name |-> as, as |-> as, sub |-> stmt]
Item(e, as) == [expr |-> e, as |-> as]
Items(es) == [i \in DOMAIN es |-> Item(es[i], None)]
Star == <<Item(None, None)>>
From(name, proj) == [EmptySelect EXCEPT !.from = Ref(name), !.proj = proj]
Filtered(name, proj, cond) == [From(name, proj) EXCEPT !.where = cond]
Join(kind, table, on) == [kind |-> kind, table |-> table, on |-> on]
By(e, desc) == [expr |-> e, desc |-> desc]
Not(e) == E("not", None, <<e>>)
IsNull(e) == E("isnull", FALSE, <<e>>)

IdOnly == Items(<<C("id")>>)
AB == Items(<<C("a"), C("b")>>)

MCViews ==
    [big |-> [Filtered("t", <<Item(C("a"), "a"), Item(C("b"), "b")>>, Bin(">", C("a"), I(1)))
                 EXCEPT !.distinct = FALSE],
     bigger |-> [EmptySelect EXCEPT !.from = As("big", "w"), !.proj = <<Item(Col("w", "b"), "b")>>],
     loop |-> [EmptySelect EXCEPT !.from = Ref("loop"), !.proj = Star]]

MCRowsT == {<<x, y>> : x \in {Null, Integer(1), Integer(2)}, y \in {Integer(1), Integer(2)}}
MCTables == UNION {[ids -> MCRowsT] : ids \in {{}, {1}, {1, 2}, {1, 2, 3}}}
MCTablesU ==
    {<<>>,
     <<<<Integer(1), Integer(1), Real(1)>>, <<Integer(2), Null, Real(-1)>>>>,
     <<<<Integer(1), Integer(2), Null>>, <<Integer(2), Integer(2), Real(1)>>, <<Integer(3), Integer(1), Real(0)>>>>}
AllDatabases ==
    {[t |-> [def |-> TDef, rows |-> [n \in DOMAIN f |-> <<Integer(n)>> \o f[n]]],
      u |-> [def |-> UDef, rows |-> g]] : f \in MCTables, g \in MCTablesU}
\* Three rows in t only where u has rows too.
MCDatabases == {d \in AllDatabases : Len(d.u.rows) > 0 \/ Len(d.t.rows) < 3}

Q(kind, stmt) == [kind |-> kind, stmt |-> stmt, keys |-> <<>>]

MCPlans ==
   <<Filtered("t", Star, Bin("=", I(2), T("id"))),
     Filtered("t", AB, Bin("and", Bin("=", C("a"), I(1)), Bin("=", I(2), C("b")))),
     Filtered("t", AB, Bin("and", Bin("=", C("a"), I(1)), Bin("<", C("b"), I(2)))),
     Filtered("t", IdOnly, Bin("<", C("a"), I(2))),
     Filtered("t", IdOnly, Bin("<", I(1), C("a"))),
     Filtered("t", IdOnly, Bin("or", Bin("=", C("a"), I(1)), IsNull(C("a")))),
     Filtered("t", IdOnly, Not(Bin("=", C("a"), Lit(Null)))),
     Filtered("u", IdOnly, Bin(">=", C("r"), I(0))),
     Filtered("u", IdOnly, Bin("=", C("r"), I(1))),
     Filtered("t", Items(<<Bin("+", C("a"), C("b"))>>), Bin(">", C("a"), I(0)))>>

JoinU(kind, on) == <<Join(kind, Ref("u"), on)>>
TU(kind, cond) ==
    [From("t", Items(<<T("id"), U("id"), U("r")>>)) EXCEPT
        !.joins = JoinU(kind, Bin("=", T("a"), U("x"))), !.where = cond]
MCJoins ==
   <<TU("inner", None),
     TU("inner", Bin("and", Bin("=", T("b"), I(1)), Bin("<", U("r"), I(1)))),
     TU("left", Bin("=", T("b"), I(1))),
     TU("left", Bin("or", Bin("=", U("x"), I(1)), IsNull(U("x")))),
     TU("left", IsNull(U("id"))),
     [From("t", Star) EXCEPT
        !.joins = <<Join("left", As("t", "v"), Bin("<", T("a"), V("a"))), Join("inner", Ref("u"), Bin("=", T("b"), U("x")))>>,
        !.where = Bin(">", T("id"), I(1))]>>

\* SELECT item FROM u WHERE cond, over the rows of t.
Sub(item, cond) == [Filtered("u", <<Item(item, "x")>>, cond) EXCEPT !.distinct = FALSE]
MCSubqueries ==
   <<Filtered("t", IdOnly, Exists(Sub(C("id"), Bin("=", U("x"), T("a"))))),
     Filtered("t", IdOnly, Not(Exists(Sub(C("id"), Bin("and", Bin("=", U("x"), T("a")), Bin("<", C("id"), I(2))))))),
     Filtered("t", IdOnly, InSelect(C("a"), Sub(C("x"), None), TRUE)),
     Filtered("t", IdOnly, InSelect(C("b"), Sub(C("x"), Bin("<>", U("id"), T("id"))), FALSE)),
     From("t", Items(<<C("id"), Scalar(Sub(Agg("count", FALSE, <<>>), Bin("=", U("x"), T("b"))))>>)),
     From("t", Items(<<C("id"), Scalar(Sub(C("id"), Bin("=", U("x"), T("b"))))>>)),
     Filtered("t", IdOnly, Bin("=", C("a"), Scalar(Sub(Agg("max", FALSE, <<C("x")>>), None)))),
     Filtered("t", IdOnly, Exists([Sub(C("id"), Bin("=", U("x"), T("a"))) EXCEPT
         !.compound = <<[op |-> "union all",
                         select |-> Filtered("u", Items(<<C("id")>>), Bin("=", U("id"), T("b")))]>>])),
     Filtered("t", IdOnly, Exists(Sub(C("id"),
         Exists([Filtered("t", IdOnly, Bin("and", Bin("=", V("a"), U("x")), Bin("<", V("id"), T("id"))))
                    EXCEPT !.from = As("t", "v")]))))>>

G(proj, group, having) == [From("t", Items(proj)) EXCEPT !.group = group, !.having = having]
MCGroups ==
   <<G(<<C("b"), Agg("count", FALSE, <<>>), Agg("count", FALSE, <<C("a")>>), Agg("min", FALSE, <<C("a")>>)>>, <<C("b")>>, None),
     G(<<C("a"), Agg("sum", FALSE, <<C("b")>>)>>, <<C("a")>>, None),
     G(<<C("a"), Agg("sum", TRUE, <<C("b")>>)>>, <<C("a")>>, Bin(">", Agg("count", FALSE, <<>>), I(1))),
     G(<<C("a"), C("b"), Agg("max", FALSE, <<C("id")>>)>>, <<C("a"), C("b")>>, None),
     From("t", Items(<<Agg("count", TRUE, <<C("a")>>), Agg("max", FALSE, <<C("a")>>)>>)),
     [From("t", Items(<<Agg("count", FALSE, <<>>)>>)) EXCEPT !.having = Bin(">", Agg("count", FALSE, <<>>), I(1))]>>

C2(op, stmt) == [op |-> op, select |-> stmt]
Xs == From("u", Items(<<C("x")>>))
Bs == From("t", Items(<<C("b")>>))
As1 == From("t", Items(<<C("a")>>))
MCSets ==
   <<[From("t", AB) EXCEPT !.distinct = TRUE],
     [As1 EXCEPT !.compound = <<C2("union", Bs), C2("union all", Xs)>>],
     [As1 EXCEPT !.compound = <<C2("intersect", Xs)>>],
     [As1 EXCEPT !.compound = <<C2("except", Xs)>>],
     [As1 EXCEPT !.compound = <<C2("union all", Bs), C2("except", Xs)>>]>>

Cte(name, stmt) == [name |-> name, query |-> stmt]
MCOverlays ==
   <<[From("c", Items(<<C("n")>>)) EXCEPT
        !.with = <<Cte("c", Filtered("t", <<Item(C("a"), "n")>>, Bin("=", C("b"), I(1))))>>],
     [From("u", Items(<<C("m")>>)) EXCEPT
        !.with = <<Cte("t", From("u", <<Item(C("x"), "n")>>)), Cte("u", From("t", <<Item(C("n"), "m")>>))>>],
     [From("bigger", Items(<<C("b")>>)) EXCEPT
        !.with = <<Cte("t", From("u", <<Item(C("x"), "a"), Item(C("id"), "b")>>))>>],
     [From("big", Items(<<Col("big", "a"), Col("d", "x")>>)) EXCEPT
        !.joins = <<Join("left", Derived([From("u", <<Item(C("x"), "x")>>) EXCEPT !.distinct = TRUE], "d"),
                         Bin("=", Col("big", "b"), Col("d", "x")))>>],
     [EmptySelect EXCEPT !.from = Derived([From("t", <<Item(C("b"), "b"), Item(Agg("count", FALSE, <<>>), "n")>>)
                                              EXCEPT !.group = <<C("b")>>], "g"), !.proj = Star]>>

Asc(e) == By(e, FALSE)
Desc(e) == By(e, TRUE)
O(stmt, order, limit, offset) == [stmt EXCEPT !.order = order, !.limit = limit, !.offset = offset]
OQ(stmt, keys) == [kind |-> "order", stmt |-> stmt, keys |-> keys]
MCOrders ==
   <<OQ(O(From("t", AB), <<Asc(C("a")), Desc(C("b"))>>, 2, None), <<<<1, FALSE>>, <<2, TRUE>>>>),
     OQ(O([From("t", <<Item(C("a"), "k")>>) EXCEPT !.distinct = TRUE], <<Desc(C("k"))>>, 1, 1), <<<<1, TRUE>>>>),
     OQ(O([As1 EXCEPT !.compound = <<C2("union", Bs)>>], <<Desc(I(1))>>, 2, None), <<<<1, TRUE>>>>),
     OQ(O(G(<<C("b"), Agg("count", FALSE, <<>>)>>, <<C("b")>>, None), <<Desc(C("col2"))>>, 1, None), <<<<2, TRUE>>>>),
     OQ(O(Filtered("t", AB, Bin(">=", C("a"), I(1))), <<Asc(C("b")), Asc(C("a"))>>, None, 1), <<<<2, FALSE>>, <<1, FALSE>>>>)>>

W(func, part, order, frame, args) == Win([func |-> func, part |-> part, order |-> order, frame |-> frame], args)
ByA == <<Asc(C("a"))>>
PartB == <<C("b")>>
Around == <<<<"preceding", 1>>, <<"following", 1>>>>
Ahead == <<<<"preceding", 0>>, <<"following", 5>>>>
MCWindows ==
   <<From("t", Items(<<C("id"), W("row_number", PartB, ByA, None, <<>>), W("rank", PartB, ByA, None, <<>>)>>)),
     From("t", Items(<<C("id"), W("rank", <<>>, <<Desc(C("b"))>>, None, <<>>), W("dense_rank", <<>>, <<Desc(C("b"))>>, None, <<>>)>>)),
     From("t", Items(<<C("id"), W("lag", PartB, ByA, None, <<C("a")>>), W("lead", <<>>, ByA, None, <<C("id"), I(2), C("id")>>)>>)),
     From("t", Items(<<C("id"), W("count", <<>>, ByA, Around, <<C("a")>>), W("max", <<>>, ByA, Ahead, <<C("b")>>)>>)),
     From("t", Items(<<C("id"), W("ntile", <<>>, ByA, None, <<I(2)>>), W("last_value", PartB, ByA, None, <<C("id")>>)>>)),
     From("t", Items(<<C("id"), W("min", PartB, <<>>, None, <<C("a")>>), W("count", PartB, ByA, None, <<C("a")>>)>>))>>

Walks(op) ==
    [From("r", Items(<<C("n")>>)) EXCEPT
        !.with = <<Cte("r", [EmptySelect EXCEPT
            !.proj = <<Item(I(1), "n")>>,
            !.compound = <<C2(op, [From("t", Items(<<T("b")>>)) EXCEPT
                !.joins = <<Join("inner", Ref("r"), Bin("=", T("a"), Col("r", "n")))>>])>>])>>]

Each(kind, stmts) == [i \in DOMAIN stmts |-> Q(kind, stmts[i])]
MCStatements ==
    Each("plan", MCPlans) \o Each("join", MCJoins) \o Each("subquery", MCSubqueries)
    \o Each("group", MCGroups) \o Each("set", MCSets) \o Each("overlay", MCOverlays)
    \o MCOrders \o Each("window", MCWindows)
    \o <<Q("closure", Walks("union")), Q("walks", Walks("union all")), Q("loop", From("loop", Star))>>
=============================================================================
