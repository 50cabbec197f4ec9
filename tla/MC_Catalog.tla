----------------------------- MODULE MC_Catalog -----------------------------
(* Small instances of Catalog.                                               *)
EXTENDS Catalog

Col(name, type, notNull, default) ==
    [name |-> name, type |-> type, notNull |-> notNull, default |-> default, dropped |-> FALSE]

MCIndexNames == {<<"i">>}

\* t: a text key column made unique; u: a child of t.
MCTableSpecs ==
    { [name |-> "t", pk |-> "none", uniques |-> <<"a">>, fks |-> <<>>,
       columns |-> <<Col("a", "text", FALSE, NoDefault), Col("b", "blob", FALSE, NoDefault)>>],
      [name |-> "u", pk |-> "a", uniques |-> <<>>,
       fks |-> <<[cols |-> <<"b">>, parent |-> "t", pcols |-> <<"a">>]>>,
       columns |-> <<Col("a", "integer", FALSE, NoDefault), Col("b", "text", TRUE, NoDefault)>>] }

MCNewColumns == { Col("c", "text", TRUE, 1) }

MCTriggerDefs ==
    { [name |-> "t", table |-> "t", timing |-> "after", each |-> "row"],
      [name |-> "u", table |-> "u", timing |-> "instead", each |-> "row"] }

\* A table of version 4: no mark of dropped columns, no full-text or vector
\* indexes, an explicit order, a secondary index.
MCOldRecords ==
    [n \in {"t"} |->
        [version |-> 4, id |-> 1, alias |-> 0, order |-> <<2, 1>>, fks |-> <<>>,
         indexes |-> <<[kind |-> "index", name |-> <<"old">>, id |-> 1, columns |-> <<1>>, unique |-> FALSE]>>,
         columns |-> <<Col("a", "text", FALSE, NoDefault), Col("b", "blob", FALSE, NoDefault)>>]]

MCInserts == {<<None, 1>>, <<"a", 1>>}
MCUpdates == {<<"a", 0>>, <<"c", 2>>}

MCOldRow == <<1, 1>>
=============================================================================
