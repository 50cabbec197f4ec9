----------------------------- MODULE FullText -----------------------------
(***************************************************************************)
(* Full-text search: the tokens of a row (src/src/fts/tokenizer.rs) and the  *)
(* inverted index with its BM25 statistics (src/src/catalog.rs).  The        *)
(* language of MATCH and its evaluation are in Match.                        *)
(*                                                                          *)
(* A text is a sequence of words and a word a sequence of letters; Fold is   *)
(* what normalisation does to a letter.  BM25 scores are real numbers and    *)
(* stay out: only the integers they are computed from are modelled.          *)
(***************************************************************************)
EXTENDS Ranking, SequencesExt

CONSTANTS
    Fold,      \* [letter -> letter]: lower case without diacritics
    MaxWord    \* max_token_len: a longer word is dropped, its position is not

-----------------------------------------------------------------------------
(* Tokens.                                                                   *)

Normal(word) == [i \in 1 .. Len(word) |-> Fold[word[i]]]

\* tokenize: the words of a text that become tokens, by their ordinal; a word
\* that is dropped leaves a gap in the positions.
Kept(text) == {i \in 1 .. Len(text) : Len(Normal(text[i])) \in 1 .. MaxWord}

\* tokenize_all: the terms of a text, in order.
Terms(text) ==
    LET order == SortedNumbers(Kept(text)) IN
    [k \in 1 .. Len(order) |-> Normal(text[order[k]])]

\* The tokens of a row: <<term, field, position>> over the indexed columns.
\* A row is [column -> text]; NULL is the empty text.
Doc(row) ==
    UNION {{<<Normal(row[f][i]), f, i - 1>> : i \in Kept(row[f])} : f \in DOMAIN row}

TermsOf(doc) == {t[1] : t \in doc}

\* docs is [rowid -> tokens].  The tokens of all rows, <<rowid, token>>, and the
\* cells of the index over them, <<term, rowid>>.
Tokens(docs) == UNION {{n} \X docs[n] : n \in DOMAIN docs}
Cells(docs) == UNION {TermsOf(docs[n]) \X {n} : n \in DOMAIN docs}

-----------------------------------------------------------------------------
(* The index [dict, next, posts, df, doclen, docs, total]: dictionary and    *)
(* counter of term ids, one posting per term and document, document          *)
(* frequencies, document lengths, number of documents and of tokens.         *)

Has(f, k) == k \in DOMAIN f
Put(f, k, v) == [x \in DOMAIN f \union {k} |-> IF x = k THEN v ELSE f[x]]
Drop(f, k) == [x \in DOMAIN f \ {k} |-> f[x]]
At(f, k) == IF k \in DOMAIN f THEN f[k] ELSE 0

\* encode_posting_value: for every field with occurrences, ascending, the first
\* position and the gaps to the next ones.
Gaps(positions) ==
    [i \in 1 .. Len(positions) |->
        IF i = 1 THEN positions[1] ELSE positions[i] - positions[i - 1]]

FieldsOf(doc, term) == {t[2] : t \in {u \in doc : u[1] = term}}
PositionsOf(doc, term, field) == {t[3] : t \in {u \in doc : u[1] = term /\ u[2] = field}}

EncodePosting(doc, term) ==
    LET fields == SortedNumbers(FieldsOf(doc, term)) IN
    [k \in 1 .. Len(fields) |->
        [field |-> fields[k], gaps |-> Gaps(SortedNumbers(PositionsOf(doc, term, fields[k])))]]

\* decode_posting_value: the positions the gaps lead to, and <<field, position>> of
\* every occurrence.
Summed(gaps) ==
    LET at[i \in 0 .. Len(gaps)] == IF i = 0 THEN 0 ELSE at[i - 1] + gaps[i]
    IN  {at[i] : i \in 1 .. Len(gaps)}

DecodePosting(value) ==
    UNION {{value[k].field} \X Summed(value[k].gaps) : k \in 1 .. Len(value)}

\* scan_term_postings: <<rowid, field, position>>.
PostingsOfId(ix, id) ==
    UNION {{<<k[2], p[1], p[2]>> : p \in DecodePosting(ix.posts[k])} :
              k \in {c \in DOMAIN ix.posts : c[1] = id}}

\* fts_term_postings
TermPostings(ix, term) == IF Has(ix.dict, term) THEN PostingsOfId(ix, ix.dict[term]) ELSE {}

\* fts_alloc_term_id: an id is given once and kept for ever.
AllocTerm(ix, term) ==
    IF Has(ix.dict, term) THEN ix
    ELSE [ix EXCEPT !.dict = Put(@, term, ix.next), !.next = @ + 1]

\* fts_adjust_varint: a counter at zero has no key.
Adjust(f, k, add) ==
    LET new == IF add THEN At(f, k) + 1 ELSE IF At(f, k) = 0 THEN 0 ELSE At(f, k) - 1 IN
    IF new = 0 THEN Drop(f, k) ELSE Put(f, k, new)

\* fts_adjust_global
AdjustGlobal(ix, add, len) ==
    LET n == IF add THEN ix.docs + 1 ELSE IF ix.docs = 0 THEN 0 ELSE ix.docs - 1
        t == IF add THEN ix.total + len ELSE IF ix.total < len THEN 0 ELSE ix.total - len
    IN  [ix EXCEPT !.docs = n, !.total = IF n = 0 THEN 0 ELSE t]

\* One term of apply_fts_row.
ApplyTerm(ix, term, doc, rowid, add) ==
    LET with == IF add THEN AllocTerm(ix, term) ELSE ix
        key == <<At(with.dict, term), rowid>>
    IN  [with EXCEPT
           !.posts = IF ~Has(with.dict, term) THEN @
                     ELSE IF add THEN Put(@, key, EncodePosting(doc, term)) ELSE Drop(@, key),
           !.df = Adjust(@, term, add)]

\* Every term of a document, one after the other.
ApplyTerms(ix, doc, rowid, add) ==
    LET order == SetToSeq(TermsOf(doc))
        after[k \in 0 .. Len(order)] ==
            IF k = 0 THEN ix ELSE ApplyTerm(after[k - 1], order[k], doc, rowid, add)
    IN  after[Len(order)]

\* Variant of ApplyRow: the length of a document that leaves stays.
ApplyRowKeepsLength(ix, rowid, doc, add) ==
    AdjustGlobal(
        [ApplyTerms(ix, doc, rowid, add) EXCEPT
            !.doclen = IF add /\ doc # {} THEN Put(@, rowid, Cardinality(doc)) ELSE @],
        add, Cardinality(doc))

\* apply_fts_row: a row enters the index, or leaves it by the same tokens.
ApplyRow(ix, rowid, doc, add) ==
    AdjustGlobal(
        [ApplyTerms(ix, doc, rowid, add) EXCEPT
            !.doclen = IF ~add THEN Drop(@, rowid)
                       ELSE IF doc # {} THEN Put(@, rowid, Cardinality(doc)) ELSE @],
        add, Cardinality(doc))

\* backfill_fts_index: the index of all rows, built in memory and written in
\* the order of its keys.
Backfill(docs) ==
    LET terms == UNION {TermsOf(docs[n]) : n \in DOMAIN docs}
        order == SetToSeq(terms)
        id == [t \in terms |-> CHOOSE i \in 1 .. Len(order) : order[i] = t]
    IN  [dict |-> id, next |-> Len(order) + 1,
         posts |-> [k \in {<<id[c[1]], c[2]>> : c \in Cells(docs)} |->
                       EncodePosting(docs[k[2]], order[k[1]])],
         df |-> [t \in terms |-> Cardinality({n \in DOMAIN docs : t \in TermsOf(docs[n])})],
         doclen |-> [n \in {m \in DOMAIN docs : docs[m] # {}} |-> Cardinality(docs[n])],
         docs |-> Cardinality(DOMAIN docs),
         total |-> Cardinality(Tokens(docs))]
=============================================================================
