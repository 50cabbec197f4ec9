------------------------------- MODULE Match -------------------------------
(***************************************************************************)
(* MATCH over the indexed table: the language (src/src/fts/query.rs), its    *)
(* evaluation against the index and against one row (src/src/catalog.rs),    *)
(* the numbers a score is computed from, and the extracts that highlight()   *)
(* and snippet() show (src/src/fts/excerpt.rs).                              *)
(***************************************************************************)
EXTENDS Search

CONSTANT MatchTexts    \* the token sequences given to MATCH

-----------------------------------------------------------------------------
(* Queries: [op, ...] trees, and the tokens they are read from: <<"word",    *)
(* text>> (a bareword may hold several words, as foo-bar), <<"phrase",       *)
(* text>>, <<"near", text, distance>> and the operators.                     *)

Word(ws)     == [op |-> "term", text |-> ws, prefix |-> FALSE]
Starts(ws)   == [op |-> "term", text |-> ws, prefix |-> TRUE]
Phrase(ws)   == [op |-> "phrase", text |-> ws]
Near(ws, d)  == [op |-> "near", text |-> ws, distance |-> d]
In(f, q)     == [op |-> "column", field |-> f, query |-> q]
And(p, q)    == [op |-> "and", left |-> p, right |-> q]
Or(p, q)     == [op |-> "or", left |-> p, right |-> q]
Not(p, q)    == [op |-> "not", left |-> p, right |-> q]

Bad == [op |-> "error"]

\* A parser returns the tree and the tokens that are left.
Read(q, rest) == [q |-> q, rest |-> rest]
Failed == Read(Bad, <<>>)
NextIs(toks, t) == toks # <<>> /\ Head(toks)[1] = t

\* starts_primary: what juxtaposition may be followed by.
StartsPrimary(toks) == toks # <<>> /\ Head(toks)[1] \in {"word", "phrase", "(", "near"}

\* The three binary levels, loosest first.  An AND may be left out.
Operators == <<"OR", "AND", "NOT">>
Continues(level, toks) ==
    NextIs(toks, Operators[level]) \/ (level = 2 /\ StartsPrimary(toks))
Operand(level, toks) == IF NextIs(toks, Operators[level]) THEN Tail(toks) ELSE toks
Joined(level, p, q) == <<Or(p, q), And(p, q), Not(p, q)>>[level]

RECURSIVE Expr(_, _), More(_, _, _), Primary(_)

\* or_expr, and_expr and not_expr: operands of the next level, joined to the left.
Expr(level, toks) ==
    IF level > 3 THEN Primary(toks)
    ELSE LET r == Expr(level + 1, toks) IN More(level, r.q, r.rest)

More(level, left, toks) ==
    IF left # Bad /\ Continues(level, toks)
    THEN LET r == Expr(level + 1, Operand(level, toks)) IN
         IF r.q = Bad THEN Failed ELSE More(level, Joined(level, left, r.q), r.rest)
    ELSE Read(left, toks)

\* near: the words are read as one token, <<"near", words, distance>>; fewer
\* than two are an error.
NearExpr(tok, rest) ==
    IF Len(tok[2]) < 2 THEN Failed ELSE Read(Near(tok[2], tok[3]), rest)

Primary(toks) ==
    CASE NextIs(toks, "(") ->
            LET r == Expr(1, Tail(toks)) IN
            IF r.q # Bad /\ NextIs(r.rest, ")") THEN Read(r.q, Tail(r.rest)) ELSE Failed
      [] NextIs(toks, "near") -> NearExpr(Head(toks), Tail(toks))
      [] NextIs(toks, "phrase") -> Read(Phrase(Head(toks)[2]), Tail(toks))
      [] NextIs(toks, "word") /\ NextIs(Tail(toks), ":") ->
            LET r == Primary(Tail(Tail(toks))) IN
            IF r.q = Bad THEN Failed ELSE Read(In(Head(toks)[2], r.q), r.rest)
      [] NextIs(toks, "word") /\ NextIs(Tail(toks), "*") ->
            Read(Starts(Head(toks)[2]), Tail(Tail(toks)))
      [] NextIs(toks, "word") /\ ~NextIs(Tail(toks), ":") /\ ~NextIs(Tail(toks), "*") ->
            Read(Word(Head(toks)[2]), Tail(toks))
      [] OTHER -> Failed

\* parse_query: nothing may be left.
ParseQuery(toks) == LET r == Expr(1, toks) IN IF r.rest = <<>> THEN r.q ELSE Bad

-----------------------------------------------------------------------------
(* Evaluation against the index.                                             *)

RECURSIVE IntersectSorted(_, _), UnionSorted(_, _), DifferenceSorted(_, _)

IntersectSorted(a, b) ==
    IF a = <<>> \/ b = <<>> THEN <<>>
    ELSE IF a[1] < b[1] THEN IntersectSorted(Tail(a), b)
    ELSE IF a[1] > b[1] THEN IntersectSorted(a, Tail(b))
    ELSE <<a[1]>> \o IntersectSorted(Tail(a), Tail(b))

UnionSorted(a, b) ==
    IF a = <<>> THEN b ELSE IF b = <<>> THEN a
    ELSE IF a[1] < b[1] THEN <<a[1]>> \o UnionSorted(Tail(a), b)
    ELSE IF a[1] > b[1] THEN <<b[1]>> \o UnionSorted(a, Tail(b))
    ELSE <<a[1]>> \o UnionSorted(Tail(a), Tail(b))

DifferenceSorted(a, b) ==
    IF a = <<>> THEN <<>>
    ELSE IF b = <<>> \/ a[1] < b[1] THEN <<a[1]>> \o DifferenceSorted(Tail(a), b)
    ELSE IF a[1] > b[1] THEN DifferenceSorted(a, Tail(b))
    ELSE DifferenceSorted(Tail(a), Tail(b))

\* fts_prefix_postings: the prefix is resolved in the dictionary.
PrefixPostings(ix, prefix) ==
    UNION {PostingsOfId(ix, ix.dict[t]) : t \in {u \in DOMAIN ix.dict : IsPrefix(prefix, u)}}

InField(f, field) == field = 0 \/ f = field

\* distinct_rowids
DistinctRowids(postings, field) == SortedNumbers({p[1] : p \in {q \in postings : InField(q[2], field)}})

\* Variant of PhraseRowids: the tokens may be in different fields.
PhraseRowidsAcross(ix, tokens, field) ==
    IF tokens = <<>> THEN <<>>
    ELSE SortedNumbers({p[1] : p \in
            {q \in TermPostings(ix, tokens[1]) :
               /\ InField(q[2], field)
               /\ \A k \in 2 .. Len(tokens) :
                     \E u \in TermPostings(ix, tokens[k]) : u[1] = q[1] /\ u[3] = q[3] + k - 1}})

\* phrase_rowids: the tokens one after the other in the same field.
PhraseRowids(ix, tokens, field) ==
    IF tokens = <<>> THEN <<>>
    ELSE IF Len(tokens) = 1 THEN DistinctRowids(TermPostings(ix, tokens[1]), field)
    ELSE SortedNumbers({p[1] : p \in
            {q \in TermPostings(ix, tokens[1]) :
               /\ InField(q[2], field)
               /\ \A k \in 2 .. Len(tokens) :
                     <<q[1], q[2], q[3] + k - 1>> \in TermPostings(ix, tokens[k])}})

\* min_window_span: a window over the positions, each with its group, in order;
\* it shrinks from the left while it holds every group.
RECURSIVE Span(_, _, _, _, _)
Span(items, groups, l, r, best) ==
    LET width == items[r][1] - items[l][1] IN
    IF {items[i][2] : i \in l .. r} = groups
    THEN LET new == IF best = -1 \/ width < best THEN width ELSE best IN
         IF l < r THEN Span(items, groups, l + 1, r, new) ELSE
         IF r = Len(items) THEN new ELSE Span(items, groups, r + 1, r + 1, new)
    ELSE IF r = Len(items) THEN best ELSE Span(items, groups, l, r + 1, best)

\* groups: sequence of sets of positions; -1 when one is empty.
MinWindowSpan(groups) ==
    LET items == SortSeq(SetToSeq(UNION {{<<p, g>> : p \in groups[g]} : g \in DOMAIN groups}),
                         LAMBDA a, b : a[1] < b[1] \/ (a[1] = b[1] /\ a[2] < b[2]))
    IN  IF \E g \in DOMAIN groups : groups[g] = {} THEN -1
        ELSE Span(items, DOMAIN groups, 1, 1, -1)

Within(groups, distance) ==
    LET span == MinWindowSpan(groups) IN span # -1 /\ span <= distance

\* near_rowids
NearRowids(ix, tokens, distance, field) ==
    IF Len(tokens) < 2 THEN <<>>
    ELSE SortedNumbers({p[1] : p \in
            {q \in TermPostings(ix, tokens[1]) :
               /\ InField(q[2], field)
               /\ Within([k \in 1 .. Len(tokens) |->
                             {u[3] : u \in {v \in TermPostings(ix, tokens[k]) :
                                               v[1] = q[1] /\ v[2] = q[2]}}], distance)}})

RECURSIVE EvalQuery(_, _, _)
EvalQuery(ix, q, field) ==
    CASE q.op = "term" /\ Len(Terms(q.text)) = 1 ->
            DistinctRowids(IF q.prefix THEN PrefixPostings(ix, Terms(q.text)[1])
                           ELSE TermPostings(ix, Terms(q.text)[1]), field)
      [] q.op = "term" /\ Len(Terms(q.text)) # 1 -> PhraseRowids(ix, Terms(q.text), field)
      [] q.op = "phrase" -> PhraseRowids(ix, Terms(q.text), field)
      [] q.op = "near" -> NearRowids(ix, Terms(q.text), q.distance, field)
      [] q.op = "column" -> EvalQuery(ix, q.query, q.field)
      [] q.op = "and" -> IntersectSorted(EvalQuery(ix, q.left, field), EvalQuery(ix, q.right, field))
      [] q.op = "or" -> UnionSorted(EvalQuery(ix, q.left, field), EvalQuery(ix, q.right, field))
      [] q.op = "not" -> DifferenceSorted(EvalQuery(ix, q.left, field), EvalQuery(ix, q.right, field))

\* fts_term_doc_tf: how often a term occurs in each of its documents.
TermDocTf(ix, term) ==
    {<<n, Cardinality({p \in TermPostings(ix, term) : p[1] = n})>> :
        n \in {p[1] : p \in TermPostings(ix, term)}}

-----------------------------------------------------------------------------
(* Evaluation against one row, which WHERE applies to every candidate.       *)

DocHasTerm(doc, term, prefix, field) ==
    \E t \in doc : InField(t[2], field) /\ (IF prefix THEN IsPrefix(term, t[1]) ELSE t[1] = term)

DocHasPhrase(doc, tokens, field) ==
    /\ tokens # <<>>
    /\ \E t \in doc :
          /\ t[1] = tokens[1] /\ InField(t[2], field)
          /\ \A k \in 2 .. Len(tokens) : <<tokens[k], t[2], t[3] + k - 1>> \in doc

DocHasNear(doc, tokens, distance, field) ==
    /\ Len(tokens) >= 2
    /\ \E f \in {t[2] : t \in doc} :
          /\ InField(f, field)
          /\ Within([k \in 1 .. Len(tokens) |-> {t[3] : t \in {u \in doc : u[1] = tokens[k] /\ u[2] = f}}],
                    distance)

RECURSIVE EvalDoc(_, _, _)
EvalDoc(q, doc, field) ==
    CASE q.op = "term" /\ Len(Terms(q.text)) = 1 -> DocHasTerm(doc, Terms(q.text)[1], q.prefix, field)
      [] q.op = "term" /\ Len(Terms(q.text)) # 1 -> DocHasPhrase(doc, Terms(q.text), field)
      [] q.op = "phrase" -> DocHasPhrase(doc, Terms(q.text), field)
      [] q.op = "near" -> DocHasNear(doc, Terms(q.text), q.distance, field)
      [] q.op = "column" -> EvalDoc(q.query, doc, q.field)
      [] q.op = "and" -> EvalDoc(q.left, doc, field) /\ EvalDoc(q.right, doc, field)
      [] q.op = "or" -> EvalDoc(q.left, doc, field) \/ EvalDoc(q.right, doc, field)
      [] q.op = "not" -> EvalDoc(q.left, doc, field) /\ ~EvalDoc(q.right, doc, field)

\* positive_terms, highlight_targets and query_terms: the terms BM25 adds up,
\* those on the right of a NOT left out.
RECURSIVE QueryTerms(_)
QueryTerms(q) ==
    CASE q.op \in {"term", "phrase", "near"} -> ToSet(Terms(q.text))
      [] q.op = "column" -> QueryTerms(q.query)
      [] q.op \in {"and", "or"} -> QueryTerms(q.left) \union QueryTerms(q.right)
      [] q.op = "not" -> QueryTerms(q.left)

\* What the score of a row is computed from, taken from the index
\* (fts_bm25_topk) ...
IndexScore(ix, q, rowid) ==
    [t \in QueryTerms(q) |->
        [tf |-> LET hit == {p \in TermDocTf(ix, t) : p[1] = rowid} IN
                IF hit = {} THEN 0 ELSE (CHOOSE p \in hit : TRUE)[2],
         dl |-> At(ix.doclen, rowid), df |-> At(ix.df, t), docs |-> ix.docs, total |-> ix.total]]

\* ... and from the row, with the statistics of the index (eval_bm25).
RowScore(ix, q, row) ==
    [t \in QueryTerms(q) |->
        [tf |-> Cardinality({u \in Doc(row) : u[1] = t}),
         dl |-> Cardinality(Doc(row)), df |-> At(ix.df, t), docs |-> ix.docs, total |-> ix.total]]

-----------------------------------------------------------------------------
(* Extracts.                                                                 *)

\* token_matches, over highlight_targets.
RECURSIVE Marks(_, _)
Marks(q, term) ==
    CASE q.op = "term" ->
            \E t \in ToSet(Terms(q.text)) :
               IF q.prefix /\ Len(Terms(q.text)) = 1 THEN IsPrefix(t, term) ELSE t = term
      [] q.op \in {"phrase", "near"} -> term \in ToSet(Terms(q.text))
      [] q.op = "column" -> Marks(q.query, term)
      [] q.op \in {"and", "or"} -> Marks(q.left, term) \/ Marks(q.right, term)
      [] q.op = "not" -> Marks(q.left, term)

\* The tokens that highlight() and snippet() put between the marks.
Highlighted(text, q) == {i \in 1 .. Len(Terms(text)) : Marks(q, Terms(text)[i])}

\* snippet: the tokens of the extract, a window around the first mark.
Snippet(text, q, max) ==
    LET n == Len(Terms(text))
        hits == Highlighted(text, q)
        center == IF hits = {} THEN 0 ELSE (CHOOSE i \in hits : \A j \in hits : i <= j) - 1
        start == IF center < max \div 2 THEN 0 ELSE center - max \div 2
        end == IF start + max < n THEN start + max ELSE n
        from == IF end < max THEN 0 ELSE end - max
    IN  IF n = 0 \/ max = 0 THEN {} ELSE from + 1 .. end

-----------------------------------------------------------------------------
(* Properties.                                                               *)

\* The queries those texts are.
Queries == {ParseQuery(toks) : toks \in MatchTexts} \ {Bad}

\* MATCH finds through the index exactly the rows that match when they are read one by
\* one, in ascending order and without repetitions: the index is only a shortcut.
MatchExact ==
    fts # None =>
        \A q \in Queries :
            EvalQuery(fts, q, 0) =
                SortedNumbers({n \in DOMAIN rows : EvalDoc(q, Docs[n], 0)})

\* The ranking of the index (fts_bm25_topk) and the one of the row (eval_bm25) start
\* from the same numbers, so the shortlist cannot lose a row of the answer.
ScoresAgree ==
    fts # None =>
        \A q \in Queries, n \in DOMAIN rows : IndexScore(fts, q, n) = RowScore(fts, q, rows[n].text)

\* An extract is as long as it may be, and shows the first mark of the text.
SnippetShows ==
    \A n \in DOMAIN rows, q \in Queries, max \in 1 .. 3 :
        \A f \in DOMAIN rows[n].text :
            LET text == rows[n].text[f]
                win == Snippet(text, q, max)
                hits == Highlighted(text, q)
            IN  /\ Cardinality(win) = IF Len(Terms(text)) < max THEN Len(Terms(text)) ELSE max
                /\ hits # {} => (CHOOSE i \in hits : \A j \in hits : i <= j) \in win

\* Everything a MATCH shows is that of the rows: the rows found, the numbers they
\* are ranked by, and the extract with its marks.
QueriesAgree == MatchExact /\ ScoresAgree /\ SnippetShows
=============================================================================
