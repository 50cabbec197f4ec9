---------------------------- MODULE Search_proofs ----------------------------
(***************************************************************************)
(* What the operators of FullText compute: the posting a document leaves and  *)
(* what is read back from it, and the index as the cells, one per term and    *)
(* row, that it stands for.  Then the indexes of Search follow the rows: the  *)
(* statistics and postings of the one are those of the rows that are there,  *)
(* and the other probed in full is the exact plan.                           *)
(***************************************************************************)
EXTENDS Search, NatLemmas

----------------------------------------------------------------------------
(***************************************************************************)
(* A posting: what encode_posting_value writes, decode_posting_value reads.  *)
(***************************************************************************)
LEMMA SetToSeqIs ==
    ASSUME NEW S, IsFiniteSet(S)
    PROVE  Enumerates(SetToSeq(S), S)
<1> DEFINE n == Cardinality(S)
<1>1. \E f \in [1 .. n -> S] : IsInjective(f)
  <2>1. PICK f : f \in Bijection(1 .. n, S)
    BY FS_CardinalityType DEF ExistsBijection
  <2> QED BY <2>1 DEF Bijection, Injection
<1>2. SetToSeq(S) \in [1 .. n -> S] /\ IsInjective(SetToSeq(S))
  BY <1>1 DEF SetToSeq
<1>3. \A i, j \in 1 .. n : SetToSeq(S)[i] = SetToSeq(S)[j] => i = j
  BY <1>2 DEF IsInjective
<1> HIDE DEF n
<1> QED BY <1>2, <1>3, InjectionEnumerates DEF n

LEMMA FiniteImage ==
    ASSUME NEW S, IsFiniteSet(S), NEW f
    PROVE  IsFiniteSet({f[x] : x \in S}) /\ Cardinality({f[x] : x \in S}) <= Cardinality(S)
<1> DEFINE T == {f[x] : x \in S}
           g == [x \in S |-> f[x]]
<1>1. g \in Surjection(S, T)
  BY DEF Surjection
<1> HIDE DEF T, g
<1>2. IsFiniteSet(T) /\ Cardinality(T) <= Cardinality(S)
  BY <1>1, FS_Surjection
<1> QED BY <1>2 DEF T

\* The running sums of the gaps.
Sums(at, gaps, n) ==
    /\ at[0] = 0
    /\ \A i \in 1 .. n : at[i] = at[i - 1] + gaps[i]
    /\ Summed(gaps) = {at[i] : i \in 1 .. n}

LEMMA SumsAre ==
    ASSUME NEW gaps, Len(gaps) \in Nat
    PROVE  \E at : Sums(at, gaps, Len(gaps))
<1> DEFINE N == Len(gaps)
           F(g, k) == IF k = 0 THEN 0 ELSE g[k - 1] + gaps[k]
           Upto(g, j) == g = [k \in 0 .. j |-> F(g, k)]
           T == {j \in 0 .. N : \E g : Upto(g, j)}
           at == CHOOSE g : g = [k \in 0 .. N |-> F(g, k)]
<1>a. N \in Nat
  OBVIOUS
<1>1. Summed(gaps) = {at[i] : i \in 1 .. N}
  BY DEF Summed
<1> HIDE DEF N
<1>2. 0 \in T
  <2> DEFINE g == [k \in 0 .. 0 |-> 0]
  <2>1. \A k \in 0 .. 0 : g[k] = F(g, k)
    OBVIOUS
  <2>2. Upto(g, 0)
    <3> HIDE DEF F
    <3> QED BY <2>1
  <2>3. \E f : Upto(f, 0)
    <3> HIDE DEF Upto, g
    <3> QED BY <2>2
  <2> HIDE DEF Upto, g
  <2> QED BY <2>3, <1>a
<1>3. ASSUME NEW j \in 0 .. N - 1, j \in T
      PROVE  j + 1 \in T
  <2>1. PICK g : Upto(g, j)
    BY <1>3
  <2>2. \A k \in 0 .. j : g[k] = F(g, k)
    <3> HIDE DEF F
    <3> QED BY <2>1
  <2> DEFINE h == [k \in 0 .. j + 1 |-> IF k = j + 1 THEN F(g, j + 1) ELSE g[k]]
  <2>3. ASSUME NEW k \in 0 .. j + 1 PROVE h[k] = F(h, k)
    <3>1. k # 0 => k - 1 \in 0 .. j + 1 /\ k - 1 # j + 1 /\ k - 1 \in 0 .. j
      BY <1>a
    <3>2. k # 0 => h[k - 1] = g[k - 1]
      <4> HIDE DEF F
      <4> QED BY <3>1
    <3>3. F(h, k) = F(g, k)
      <4> HIDE DEF h
      <4> QED BY <3>2
    <3>4. h[k] = F(g, k)
      <4> HIDE DEF F
      <4> QED BY <2>2, <1>a
    <3> HIDE DEF F, h
    <3> QED BY <3>3, <3>4
  <2>4. Upto(h, j + 1)
    <3> HIDE DEF F
    <3> QED BY <2>3
  <2>5. \E f : Upto(f, j + 1)
    <3> HIDE DEF Upto, h
    <3> QED BY <2>4
  <2> HIDE DEF Upto, h
  <2> QED BY <2>5, <1>a
<1>4. N \in T
  <2> HIDE DEF T
  <2>1. N \in 0 .. N
    BY <1>a
  <2> QED BY <2>1, <1>2, <1>3, <1>a, BoundedInduction
<1>5. \E g : Upto(g, N)
  BY <1>4
<1> HIDE DEF F
<1>6. at = [k \in 0 .. N |-> F(at, k)]
  BY <1>5
<1> HIDE DEF at
<1>7. \A k \in 0 .. N : at[k] = F(at, k)
  BY <1>6
<1>8. at[0] = 0
  BY <1>7, <1>a DEF F
<1>9. \A k \in 1 .. N : at[k] = at[k - 1] + gaps[k]
  BY <1>7, <1>a DEF F
<1> QED BY <1>1, <1>8, <1>9 DEF N, Sums

LEMMA SummedGaps ==
    ASSUME NEW n \in Nat, NEW s, Len(s) = n, \A i \in 1 .. n : s[i] \in Nat
    PROVE  Summed(Gaps(s)) = {s[i] : i \in 1 .. n}
<1> DEFINE g == Gaps(s)
<1>1. Len(g) = n /\ \A i \in 1 .. n : g[i] = IF i = 1 THEN s[1] ELSE s[i] - s[i - 1]
  BY DEF Gaps
<1> HIDE DEF g
<1>0. PICK at : Sums(at, g, n)
  BY <1>1, SumsAre
<1>2. /\ at[0] = 0
      /\ \A i \in 1 .. n : at[i] = at[i - 1] + g[i]
      /\ Summed(g) = {at[i] : i \in 1 .. n}
  BY <1>0 DEF Sums
<1> DEFINE T == {k \in 0 .. n : k # 0 => at[k] = s[k]}
<1>3. ASSUME NEW k \in 0 .. n - 1, k \in T
      PROVE  k + 1 \in T
  <2>1. k + 1 \in 1 .. n /\ (k + 1) - 1 = k
    OBVIOUS
  <2>2. at[k + 1] = at[k] + g[k + 1]
    BY <1>2, <2>1
  <2>3. CASE k = 0
    BY <2>1, <2>2, <2>3, <1>1, <1>2
  <2>4. CASE k # 0
    <3>1. k \in 1 .. n /\ s[k] \in Nat /\ s[k + 1] \in Nat /\ at[k] = s[k] /\ k + 1 # 1
      BY <2>1, <2>4, <1>3
    <3>2. g[k + 1] = s[k + 1] - s[k]
      BY <1>1, <2>1, <3>1
    <3> QED BY <2>1, <2>2, <3>1, <3>2
  <2> QED BY <2>3, <2>4
<1>4. 0 \in T
  OBVIOUS
<1>5. 0 .. n \subseteq T
  <2> HIDE DEF T
  <2> QED BY <1>3, <1>4, BoundedInduction
<1>6. \A i \in 1 .. n : at[i] = s[i]
  BY <1>5
<1> QED BY <1>2, <1>6 DEF g

\* A document is a finite set of tokens.
IsDoc(doc) ==
    /\ IsFiniteSet(doc)
    /\ \A u \in doc : u = <<u[1], u[2], u[3]>> /\ u[2] \in Nat /\ u[3] \in Nat

LEMMA DocFinite ==
    ASSUME NEW doc, IsDoc(doc), NEW term
    PROVE  /\ IsFiniteSet(TermsOf(doc))
           /\ IsFiniteSet(FieldsOf(doc, term)) /\ FieldsOf(doc, term) \in SUBSET Nat
           /\ \A f : /\ IsFiniteSet(PositionsOf(doc, term, f))
                     /\ PositionsOf(doc, term, f) \in SUBSET Nat
<1>1. IsFiniteSet(TermsOf(doc))
  <2> DEFINE f == [u \in doc |-> u[1]]
  <2>1. IsFiniteSet({f[u] : u \in doc})
    <3> HIDE DEF f
    <3> QED BY FiniteImage DEF IsDoc
  <2> QED BY <2>1 DEF TermsOf
<1>2. IsFiniteSet(FieldsOf(doc, term))
  <2> DEFINE S == {u \in doc : u[1] = term}
             f == [u \in S |-> u[2]]
  <2>1. IsFiniteSet(S)
    BY FS_Subset DEF IsDoc
  <2>2. IsFiniteSet({f[u] : u \in S})
    <3> HIDE DEF f, S
    <3> QED BY <2>1, FiniteImage
  <2> QED BY <2>2 DEF FieldsOf
<1>3. ASSUME NEW g PROVE IsFiniteSet(PositionsOf(doc, term, g))
  <2> DEFINE S == {u \in doc : u[1] = term /\ u[2] = g}
             f == [u \in S |-> u[3]]
  <2>1. IsFiniteSet(S)
    BY FS_Subset DEF IsDoc
  <2>2. IsFiniteSet({f[u] : u \in S})
    <3> HIDE DEF f, S
    <3> QED BY <2>1, FiniteImage
  <2> QED BY <2>2 DEF PositionsOf
<1>4. FieldsOf(doc, term) \in SUBSET Nat /\ \A f : PositionsOf(doc, term, f) \in SUBSET Nat
  BY DEF FieldsOf, PositionsOf, IsDoc
<1> QED BY <1>1, <1>2, <1>3, <1>4

\* The occurrences of a term in a document.
Occurrences(doc, term) == {<<u[2], u[3]>> : u \in {v \in doc : v[1] = term}}

\* Reading a posting gives the occurrences it was written for.
LEMMA DecodeEncodePosting ==
    ASSUME NEW doc, IsDoc(doc), NEW term
    PROVE  DecodePosting(EncodePosting(doc, term)) = Occurrences(doc, term)
<1> DEFINE fields == SortedNumbers(FieldsOf(doc, term))
           m == Len(fields)
           value == EncodePosting(doc, term)
<1>1. Enumerates(fields, FieldsOf(doc, term))
  BY DocFinite, SortedNumbersIs
<1>2. m \in Nat /\ Len(value) = m
      /\ \A k \in 1 .. m :
            /\ value[k].field = fields[k]
            /\ value[k].gaps = Gaps(SortedNumbers(PositionsOf(doc, term, fields[k])))
  BY <1>1 DEF Enumerates, EncodePosting
<1>3. ASSUME NEW f PROVE Summed(Gaps(SortedNumbers(PositionsOf(doc, term, f)))) = PositionsOf(doc, term, f)
  <2> DEFINE P == PositionsOf(doc, term, f)
             s == SortedNumbers(P)
  <2>1. Enumerates(s, P) /\ P \in SUBSET Nat
    BY DocFinite, SortedNumbersIs
  <2> HIDE DEF P, s
  <2>2. Len(s) \in Nat /\ (\A i \in 1 .. Len(s) : s[i] \in P) /\ (\A x \in P : \E i \in 1 .. Len(s) : s[i] = x)
    BY <2>1 DEF Enumerates
  <2>3. {s[i] : i \in 1 .. Len(s)} = P
    BY <2>2
  <2>4. \A i \in 1 .. Len(s) : s[i] \in Nat
    BY <2>1, <2>2
  <2>5. Summed(Gaps(s)) = {s[i] : i \in 1 .. Len(s)}
    BY <2>2, <2>4, SummedGaps
  <2> QED BY <2>3, <2>5 DEF s, P
<1> HIDE DEF value, fields
<1>4. DecodePosting(value) = UNION {{fields[k]} \X PositionsOf(doc, term, fields[k]) : k \in 1 .. m}
  <2>1. \A k \in 1 .. m : {value[k].field} \X Summed(value[k].gaps)
                             = {fields[k]} \X PositionsOf(doc, term, fields[k])
    BY <1>2, <1>3
  <2> QED BY <1>2, <2>1 DEF DecodePosting
<1>5. ASSUME NEW p \in DecodePosting(value) PROVE p \in Occurrences(doc, term)
  <2>1. PICK k \in 1 .. m : p \in {fields[k]} \X PositionsOf(doc, term, fields[k])
    BY <1>4
  <2>2. PICK u \in doc : u[1] = term /\ u[2] = fields[k] /\ p = <<fields[k], u[3]>>
    BY <2>1 DEF PositionsOf
  <2> QED BY <2>2 DEF Occurrences
<1>6. ASSUME NEW p \in Occurrences(doc, term) PROVE p \in DecodePosting(value)
  <2>1. PICK u \in doc : u[1] = term /\ p = <<u[2], u[3]>>
    BY DEF Occurrences
  <2>2. u[2] \in FieldsOf(doc, term) /\ u[3] \in PositionsOf(doc, term, u[2])
    BY <2>1 DEF FieldsOf, PositionsOf
  <2>3. PICK k \in 1 .. m : fields[k] = u[2]
    BY <1>1, <2>2 DEF Enumerates
  <2>4. p \in {fields[k]} \X PositionsOf(doc, term, fields[k])
    BY <2>1, <2>2, <2>3
  <2> QED BY <1>4, <2>4
<1>7. DecodePosting(value) = Occurrences(doc, term)
  BY <1>5, <1>6
<1> QED BY <1>7 DEF value

----------------------------------------------------------------------------
(***************************************************************************)
(* The index and the cells, <<term, rowid>>, it stands for; docs gives the   *)
(* document of a rowid.                                                      *)
(***************************************************************************)
Shaped(ix) ==
    ix = [dict |-> ix.dict, next |-> ix.next, posts |-> ix.posts, df |-> ix.df,
          doclen |-> ix.doclen, docs |-> ix.docs, total |-> ix.total]

\* The rows that have a term.
RowsWith(cells, t) == {c[2] : c \in {x \in cells : x[1] = t}}

\* Ids are below the counter and no two terms share one.
Dictionary(ix) ==
    /\ ix.next \in Nat
    /\ \A t \in DOMAIN ix.dict : ix.dict[t] \in Nat /\ ix.dict[t] < ix.next
    /\ \A s, t \in DOMAIN ix.dict : ix.dict[s] = ix.dict[t] => s = t

\* Every cell has its posting, and there are no others.
Postings(ix, cells, docs) ==
    /\ \A c \in cells : c = <<c[1], c[2]>> /\ c[1] \in DOMAIN ix.dict
    /\ DOMAIN ix.posts = {<<ix.dict[c[1]], c[2]>> : c \in cells}
    /\ \A c \in cells : ix.posts[<<ix.dict[c[1]], c[2]>>] = EncodePosting(docs[c[2]], c[1])

\* The frequency of a term is the number of its rows.
Frequencies(ix, cells) ==
    /\ DOMAIN ix.df = TermsOf(cells)
    /\ \A t \in TermsOf(cells) : ix.df[t] = Cardinality(RowsWith(cells, t))

Holds(ix, cells, docs) ==
    Shaped(ix) /\ Dictionary(ix) /\ Postings(ix, cells, docs) /\ Frequencies(ix, cells)

\* ApplyTerm leaves the rest of the index alone.
SameCounts(ix, new) == new.doclen = ix.doclen /\ new.docs = ix.docs /\ new.total = ix.total

LEMMA RowsWithFinite ==
    ASSUME NEW cells, IsFiniteSet(cells), NEW t
    PROVE  IsFiniteSet(RowsWith(cells, t)) /\ Cardinality(RowsWith(cells, t)) \in Nat
<1> DEFINE S == {x \in cells : x[1] = t}
           f == [c \in S |-> c[2]]
<1>1. IsFiniteSet(S)
  BY FS_Subset
<1>2. IsFiniteSet({f[c] : c \in S})
  <2> HIDE DEF f, S
  <2> QED BY <1>1, FiniteImage
<1>3. IsFiniteSet(RowsWith(cells, t))
  BY <1>2 DEF RowsWith
<1> QED BY <1>3, FS_CardinalityType

\* A term that is in the dictionary, with nothing else changed.
LEMMA AllocTermIs ==
    ASSUME NEW ix, Shaped(ix), Dictionary(ix), NEW t
    PROVE  LET with == AllocTerm(ix, t) IN
           /\ Shaped(with) /\ Dictionary(with) /\ t \in DOMAIN with.dict
           /\ \A s \in DOMAIN ix.dict : s \in DOMAIN with.dict /\ with.dict[s] = ix.dict[s]
           /\ with.posts = ix.posts /\ with.df = ix.df /\ SameCounts(ix, with)
<1> DEFINE with == AllocTerm(ix, t)
<1>1. CASE t \in DOMAIN ix.dict
  BY <1>1 DEF AllocTerm, Has, SameCounts
<1>2. CASE t \notin DOMAIN ix.dict
  <2>1. with = [ix EXCEPT !.dict = Put(ix.dict, t, ix.next), !.next = ix.next + 1]
    BY <1>2 DEF AllocTerm, Has
  <2>2. /\ with.dict = Put(ix.dict, t, ix.next) /\ with.next = ix.next + 1
        /\ with.posts = ix.posts /\ with.df = ix.df /\ SameCounts(ix, with) /\ Shaped(with)
    BY <2>1, Zenon DEF Shaped, SameCounts
  <2> HIDE DEF with
  <2>3. DOMAIN with.dict = DOMAIN ix.dict \union {t} /\ with.dict[t] = ix.next
        /\ \A s \in DOMAIN ix.dict : with.dict[s] = ix.dict[s]
    BY <2>2, <1>2 DEF Put
  <2>4. Dictionary(with)
    <3>1. with.next \in Nat
      BY <2>2 DEF Dictionary
    <3>2. ASSUME NEW s \in DOMAIN with.dict PROVE with.dict[s] \in Nat /\ with.dict[s] < with.next
      BY <2>2, <2>3, <1>2 DEF Dictionary
    <3>3. ASSUME NEW s \in DOMAIN with.dict, NEW u \in DOMAIN with.dict, with.dict[s] = with.dict[u]
          PROVE  s = u
      BY <2>3, <3>3, <1>2 DEF Dictionary
    <3> QED BY <3>1, <3>2, <3>3 DEF Dictionary
  <2>5. t \in DOMAIN with.dict /\ \A s \in DOMAIN ix.dict : s \in DOMAIN with.dict /\ with.dict[s] = ix.dict[s]
    BY <2>3
  <2> QED BY <2>2, <2>4, <2>5 DEF with
<1> QED BY <1>1, <1>2

\* A term of a document enters the index.
LEMMA AddTermIs ==
    ASSUME NEW cells, IsFiniteSet(cells), NEW docs, NEW ix, Holds(ix, cells, docs),
           NEW t, NEW r, <<t, r>> \notin cells
    PROVE  LET new == ApplyTerm(ix, t, docs[r], r, TRUE) IN
           Holds(new, cells \union {<<t, r>>}, docs) /\ SameCounts(ix, new)
<1> DEFINE with == AllocTerm(ix, t)
           new == ApplyTerm(ix, t, docs[r], r, TRUE)
           after == cells \union {<<t, r>>}
           cell == <<t, r>>
<1>1. /\ Shaped(with) /\ Dictionary(with) /\ t \in DOMAIN with.dict
      /\ \A s \in DOMAIN ix.dict : s \in DOMAIN with.dict /\ with.dict[s] = ix.dict[s]
      /\ with.posts = ix.posts /\ with.df = ix.df /\ SameCounts(ix, with)
  BY AllocTermIs DEF Holds
<1>2. new = [with EXCEPT !.posts = Put(ix.posts, <<with.dict[t], r>>, EncodePosting(docs[r], t)),
                         !.df = Adjust(ix.df, t, TRUE)]
  <2> HIDE DEF with
  <2>1. new = [with EXCEPT !.posts = IF ~Has(with.dict, t) THEN with.posts
                     ELSE Put(with.posts, <<At(with.dict, t), r>>, EncodePosting(docs[r], t)),
                 !.df = Adjust(with.df, t, TRUE)]
    BY DEF ApplyTerm, with
  <2>2. Has(with.dict, t) /\ At(with.dict, t) = with.dict[t]
    BY <1>1 DEF Has, At
  <2> QED BY <2>1, <2>2, <1>1
<1> HIDE DEF with, new
<1>3. /\ new.dict = with.dict /\ new.next = with.next
      /\ new.posts = Put(ix.posts, <<with.dict[t], r>>, EncodePosting(docs[r], t))
      /\ new.df = Adjust(ix.df, t, TRUE)
      /\ Shaped(new) /\ SameCounts(with, new)
  BY <1>1, <1>2, Zenon DEF Shaped, SameCounts
<1>4. Dictionary(new) /\ SameCounts(ix, new)
  BY <1>1, <1>3 DEF Dictionary, SameCounts
<1> DEFINE key == <<with.dict[t], r>>
<1>5. /\ \A c \in cells : c = <<c[1], c[2]>> /\ c[1] \in DOMAIN ix.dict
      /\ DOMAIN ix.posts = {<<ix.dict[c[1]], c[2]>> : c \in cells}
      /\ \A c \in cells : ix.posts[<<ix.dict[c[1]], c[2]>>] = EncodePosting(docs[c[2]], c[1])
  BY DEF Holds, Postings
<1>6. \A c \in cells : c[1] \in DOMAIN with.dict /\ with.dict[c[1]] = ix.dict[c[1]]
  BY <1>1, <1>5
<1>7. ASSUME NEW c \in cells PROVE <<ix.dict[c[1]], c[2]>> # key
  <2> SUFFICES ASSUME ix.dict[c[1]] = with.dict[t], c[2] = r PROVE FALSE
    OBVIOUS
  <2>1. c[1] = t
    BY <1>1, <1>6 DEF Dictionary
  <2> QED BY <2>1, <1>5
<1>8. DOMAIN new.posts = DOMAIN ix.posts \union {key}
      /\ new.posts[key] = EncodePosting(docs[r], t)
      /\ \A k \in DOMAIN ix.posts : k # key => new.posts[k] = ix.posts[k]
  <2> HIDE DEF key
  <2> QED BY <1>3 DEF Put, key
<1>9. cell[1] = t /\ cell[2] = r /\ cell = <<cell[1], cell[2]>>
  OBVIOUS
<1> HIDE DEF cell
<1>10. after = cells \union {cell}
  BY DEF cell
<1> HIDE DEF after
<1>11. Postings(new, after, docs)
  <2>1. ASSUME NEW c \in after
        PROVE  /\ c = <<c[1], c[2]>> /\ c[1] \in DOMAIN new.dict
               /\ <<new.dict[c[1]], c[2]>> \in DOMAIN new.posts
               /\ new.posts[<<new.dict[c[1]], c[2]>>] = EncodePosting(docs[c[2]], c[1])
    <3>1. CASE c = cell
      BY <3>1, <1>1, <1>3, <1>8, <1>9
    <3>2. CASE c # cell
      <4>1. c \in cells
        BY <3>2, <1>10
      <4>2. <<ix.dict[c[1]], c[2]>> \in DOMAIN ix.posts /\ <<ix.dict[c[1]], c[2]>> # key
        BY <4>1, <1>5, <1>7
      <4>3. new.dict[c[1]] = ix.dict[c[1]] /\ c[1] \in DOMAIN new.dict
        BY <4>1, <1>3, <1>6
      <4>4. new.posts[<<ix.dict[c[1]], c[2]>>] = ix.posts[<<ix.dict[c[1]], c[2]>>]
            /\ <<ix.dict[c[1]], c[2]>> \in DOMAIN new.posts
        BY <4>2, <1>8
      <4> QED BY <4>1, <4>3, <4>4, <1>5
    <3> QED BY <3>1, <3>2
  <2>2. ASSUME NEW k \in DOMAIN new.posts
        PROVE  \E c \in after : k = <<new.dict[c[1]], c[2]>>
    <3>1. CASE k = key
      BY <3>1, <1>3, <1>9, <1>10
    <3>2. CASE k # key
      <4>1. PICK c \in cells : k = <<ix.dict[c[1]], c[2]>>
        BY <3>2, <1>5, <1>8
      <4> QED BY <4>1, <1>3, <1>6, <1>10
    <3> QED BY <3>1, <3>2
  <2>3. DOMAIN new.posts = {<<new.dict[c[1]], c[2]>> : c \in after}
    BY <2>1, <2>2
  <2> QED BY <2>1, <2>3 DEF Postings
<1>12. Frequencies(new, after)
  <2>1. DOMAIN ix.df = TermsOf(cells) /\ \A s \in TermsOf(cells) : ix.df[s] = Cardinality(RowsWith(cells, s))
    BY DEF Holds, Frequencies
  <2>2. IsFiniteSet(RowsWith(cells, t)) /\ Cardinality(RowsWith(cells, t)) \in Nat
    BY RowsWithFinite
  <2>3. At(ix.df, t) = Cardinality(RowsWith(cells, t))
    <3>1. CASE t \in TermsOf(cells)
      BY <3>1, <2>1 DEF At
    <3>2. CASE t \notin TermsOf(cells)
      <4>1. RowsWith(cells, t) = {}
        BY <3>2 DEF TermsOf, RowsWith
      <4> QED BY <3>2, <4>1, <2>1, FS_EmptySet DEF At
    <3> QED BY <3>1, <3>2
  <2>4. new.df = Put(ix.df, t, Cardinality(RowsWith(cells, t)) + 1)
    BY <1>3, <2>2, <2>3 DEF Adjust
  <2>5. RowsWith(after, t) = RowsWith(cells, t) \union {r} /\ r \notin RowsWith(cells, t)
    <3>1. r \notin RowsWith(cells, t)
      BY <1>5, <1>9 DEF RowsWith
    <3>2. RowsWith(after, t) = RowsWith(cells, t) \union {r}
      BY <1>9, <1>10 DEF RowsWith
    <3> QED BY <3>1, <3>2
  <2>6. Cardinality(RowsWith(after, t)) = Cardinality(RowsWith(cells, t)) + 1
    BY <2>2, <2>5, FS_AddElement
  <2>7. \A s : s # t => RowsWith(after, s) = RowsWith(cells, s)
    BY <1>9, <1>10 DEF RowsWith
  <2>8. TermsOf(after) = TermsOf(cells) \union {t}
    BY <1>9, <1>10 DEF TermsOf
  <2>9. DOMAIN new.df = TermsOf(after)
    BY <2>1, <2>4, <2>8 DEF Put
  <2>10. ASSUME NEW s \in TermsOf(after) PROVE new.df[s] = Cardinality(RowsWith(after, s))
    <3>1. CASE s = t
      BY <3>1, <2>4, <2>6 DEF Put
    <3>2. CASE s # t
      BY <3>2, <2>1, <2>4, <2>7, <2>8 DEF Put
    <3> QED BY <3>1, <3>2
  <2> QED BY <2>9, <2>10 DEF Frequencies
<1>13. Holds(new, after, docs)
  BY <1>3, <1>4, <1>11, <1>12 DEF Holds
<1> QED BY <1>4, <1>13 DEF new, after

\* A term of a document leaves the index.
LEMMA DropTermIs ==
    ASSUME NEW cells, IsFiniteSet(cells), NEW docs, NEW ix, Holds(ix, cells, docs),
           NEW doc, NEW t, NEW r, <<t, r>> \in cells
    PROVE  LET new == ApplyTerm(ix, t, doc, r, FALSE) IN
           Holds(new, cells \ {<<t, r>>}, docs) /\ SameCounts(ix, new)
<1> DEFINE new == ApplyTerm(ix, t, doc, r, FALSE)
           cell == <<t, r>>
           after == cells \ {<<t, r>>}
           key == <<ix.dict[t], r>>
<1>1. /\ \A c \in cells : c = <<c[1], c[2]>> /\ c[1] \in DOMAIN ix.dict
      /\ DOMAIN ix.posts = {<<ix.dict[c[1]], c[2]>> : c \in cells}
      /\ \A c \in cells : ix.posts[<<ix.dict[c[1]], c[2]>>] = EncodePosting(docs[c[2]], c[1])
  BY DEF Holds, Postings
<1>2. cell[1] = t /\ cell[2] = r /\ cell \in cells
  OBVIOUS
<1> HIDE DEF cell
<1>3. t \in DOMAIN ix.dict
  BY <1>1, <1>2
<1>4. new = [ix EXCEPT !.posts = Drop(ix.posts, key), !.df = Adjust(ix.df, t, FALSE)]
  <2>1. new = [ix EXCEPT !.posts = IF ~Has(ix.dict, t) THEN ix.posts ELSE Drop(ix.posts, <<At(ix.dict, t), r>>),
                         !.df = Adjust(ix.df, t, FALSE)]
    BY DEF ApplyTerm
  <2>2. Has(ix.dict, t) /\ At(ix.dict, t) = ix.dict[t]
    BY <1>3 DEF Has, At
  <2> QED BY <2>1, <2>2
<1> HIDE DEF new, key
<1>5. /\ new.dict = ix.dict /\ new.next = ix.next
      /\ new.posts = Drop(ix.posts, key) /\ new.df = Adjust(ix.df, t, FALSE)
      /\ Shaped(new) /\ SameCounts(ix, new)
  BY <1>4, Zenon DEF Holds, Shaped, SameCounts
<1>6. Dictionary(new)
  BY <1>5 DEF Holds, Dictionary
<1>7. after = cells \ {cell}
  BY DEF cell
<1> HIDE DEF after
<1>8. DOMAIN new.posts = DOMAIN ix.posts \ {key} /\ \A k \in DOMAIN new.posts : new.posts[k] = ix.posts[k]
  BY <1>5 DEF Drop
<1>9. ASSUME NEW c \in cells, <<ix.dict[c[1]], c[2]>> = key PROVE c = cell
  <2>1. ix.dict[c[1]] = ix.dict[t] /\ c[2] = r
    BY <1>9 DEF key
  <2>2. c[1] = t
    BY <2>1, <1>1, <1>3 DEF Holds, Dictionary
  <2> QED BY <2>1, <2>2, <1>1, <1>2
<1>10. <<ix.dict[cell[1]], cell[2]>> = key
  BY <1>2 DEF key
<1>11. Postings(new, after, docs)
  <2>1. ASSUME NEW c \in after
        PROVE  /\ c = <<c[1], c[2]>> /\ c[1] \in DOMAIN new.dict
               /\ <<new.dict[c[1]], c[2]>> \in DOMAIN new.posts
               /\ new.posts[<<new.dict[c[1]], c[2]>>] = EncodePosting(docs[c[2]], c[1])
    <3>1. c \in cells /\ c # cell
      BY <1>7
    <3>2. <<ix.dict[c[1]], c[2]>> \in DOMAIN ix.posts /\ <<ix.dict[c[1]], c[2]>> # key
      BY <3>1, <1>1, <1>9
    <3>3. <<ix.dict[c[1]], c[2]>> \in DOMAIN new.posts
      BY <3>2, <1>8
    <3> QED BY <3>1, <3>3, <1>1, <1>5, <1>8
  <2>2. ASSUME NEW k \in DOMAIN new.posts
        PROVE  \E c \in after : k = <<new.dict[c[1]], c[2]>>
    <3>1. PICK c \in cells : k = <<ix.dict[c[1]], c[2]>>
      BY <1>1, <1>8
    <3>2. c # cell
      BY <3>1, <1>8, <1>10
    <3> QED BY <3>1, <3>2, <1>5, <1>7
  <2>3. DOMAIN new.posts = {<<new.dict[c[1]], c[2]>> : c \in after}
    BY <2>1, <2>2
  <2> QED BY <2>1, <2>3 DEF Postings
<1>12. Frequencies(new, after)
  <2>1. DOMAIN ix.df = TermsOf(cells) /\ \A s \in TermsOf(cells) : ix.df[s] = Cardinality(RowsWith(cells, s))
    BY DEF Holds, Frequencies
  <2> DEFINE n == Cardinality(RowsWith(cells, t))
  <2>2. IsFiniteSet(RowsWith(cells, t)) /\ n \in Nat /\ r \in RowsWith(cells, t) /\ t \in TermsOf(cells)
    <3>1. r \in RowsWith(cells, t) /\ t \in TermsOf(cells)
      BY <1>2 DEF RowsWith, TermsOf
    <3> QED BY <3>1, RowsWithFinite
  <2>3. At(ix.df, t) = n /\ n # 0
    BY <2>1, <2>2, FS_EmptySet DEF At
  <2>4. RowsWith(after, t) = RowsWith(cells, t) \ {r}
    <3>1. ASSUME NEW c \in cells, c[1] = t, c # cell PROVE c[2] # r
      BY <3>1, <1>1, <1>2
    <3> QED BY <3>1, <1>2, <1>7 DEF RowsWith
  <2>5. Cardinality(RowsWith(after, t)) = n - 1
    BY <2>2, <2>4, FS_RemoveElement
  <2>6. \A s : s # t => RowsWith(after, s) = RowsWith(cells, s)
    BY <1>2, <1>7 DEF RowsWith
  <2>7. \A s : s # t => (s \in TermsOf(after) <=> s \in TermsOf(cells))
    BY <1>2, <1>7 DEF TermsOf
  <2>8. t \in TermsOf(after) <=> RowsWith(after, t) # {}
    BY DEF TermsOf, RowsWith
  <2>9. RowsWith(after, t) # {} <=> n # 1
    <3>1. IsFiniteSet(RowsWith(after, t))
      BY <2>2, <2>4, FS_RemoveElement
    <3> QED BY <3>1, <2>2, <2>5, FS_EmptySet
  <2> HIDE DEF n
  <2>10. CASE n = 1
    <3>1. new.df = Drop(ix.df, t)
      BY <2>3, <2>10, <1>5 DEF Adjust
    <3>2. DOMAIN new.df = TermsOf(cells) \ {t}
      BY <3>1, <2>1 DEF Drop
    <3>3. DOMAIN new.df = TermsOf(after)
      BY <3>2, <2>7, <2>8, <2>9, <2>10
    <3>4. ASSUME NEW s \in TermsOf(after) PROVE new.df[s] = Cardinality(RowsWith(after, s))
      <4>1. s # t /\ s \in TermsOf(cells)
        BY <2>7, <2>8, <2>9, <2>10
      <4> QED BY <4>1, <3>1, <3>3, <2>1, <2>6 DEF Drop
    <3> QED BY <3>3, <3>4 DEF Frequencies
  <2>11. CASE n # 1
    <3>1. new.df = Put(ix.df, t, n - 1)
      BY <2>2, <2>3, <2>11, <1>5 DEF Adjust
    <3>2. DOMAIN new.df = TermsOf(cells)
      BY <3>1, <2>1, <2>2 DEF Put
    <3>3. DOMAIN new.df = TermsOf(after)
      BY <3>2, <2>2, <2>7, <2>8, <2>9, <2>11
    <3>4. ASSUME NEW s \in TermsOf(after) PROVE new.df[s] = Cardinality(RowsWith(after, s))
      <4>1. CASE s = t
        BY <4>1, <3>1, <2>5 DEF Put
      <4>2. CASE s # t
        BY <4>2, <3>1, <2>1, <2>6, <2>7 DEF Put
      <4> QED BY <4>1, <4>2
    <3> QED BY <3>3, <3>4 DEF Frequencies
  <2> QED BY <2>10, <2>11
<1>13. Holds(new, after, docs)
  BY <1>5, <1>6, <1>11, <1>12 DEF Holds
<1> QED BY <1>5, <1>13 DEF new, after

----------------------------------------------------------------------------
(***************************************************************************)
(* All terms of a document.                                                  *)
(***************************************************************************)
Applies(after, ix, order, doc, r, add) ==
    /\ after[0] = ix
    /\ \A k \in 1 .. Len(order) : after[k] = ApplyTerm(after[k - 1], order[k], doc, r, add)
    /\ ApplyTerms(ix, doc, r, add) = after[Len(order)]

LEMMA AppliedAre ==
    ASSUME NEW ix, NEW doc, IsDoc(doc), NEW r, NEW add
    PROVE  LET order == SetToSeq(TermsOf(doc)) IN
           Enumerates(order, TermsOf(doc)) /\ \E after : Applies(after, ix, order, doc, r, add)
<1> DEFINE order == SetToSeq(TermsOf(doc))
           N == Len(order)
           F(g, k) == IF k = 0 THEN ix ELSE ApplyTerm(g[k - 1], order[k], doc, r, add)
           Upto(g, j) == g = [k \in 0 .. j |-> F(g, k)]
           T == {j \in 0 .. N : \E g : Upto(g, j)}
           after == CHOOSE g : g = [k \in 0 .. N |-> F(g, k)]
<1>0. Enumerates(order, TermsOf(doc))
  BY DocFinite, SetToSeqIs
<1>a. N \in Nat
  BY <1>0 DEF Enumerates
<1>1. ApplyTerms(ix, doc, r, add) = after[N]
  BY DEF ApplyTerms
<1> HIDE DEF N, order
<1>2. 0 \in T
  <2> DEFINE g == [k \in 0 .. 0 |-> ix]
  <2>1. \A k \in 0 .. 0 : g[k] = F(g, k)
    OBVIOUS
  <2>2. Upto(g, 0)
    <3> HIDE DEF F
    <3> QED BY <2>1
  <2>3. \E f : Upto(f, 0)
    <3> HIDE DEF Upto, g
    <3> QED BY <2>2
  <2> HIDE DEF Upto, g
  <2> QED BY <2>3, <1>a
<1>3. ASSUME NEW j \in 0 .. N - 1, j \in T
      PROVE  j + 1 \in T
  <2>1. PICK g : Upto(g, j)
    BY <1>3
  <2>2. \A k \in 0 .. j : g[k] = F(g, k)
    <3> HIDE DEF F
    <3> QED BY <2>1
  <2> DEFINE h == [k \in 0 .. j + 1 |-> IF k = j + 1 THEN F(g, j + 1) ELSE g[k]]
  <2>3. ASSUME NEW k \in 0 .. j + 1 PROVE h[k] = F(h, k)
    <3>1. k # 0 => k - 1 \in 0 .. j + 1 /\ k - 1 # j + 1 /\ k - 1 \in 0 .. j
      BY <1>a
    <3>2. k # 0 => h[k - 1] = g[k - 1]
      <4> HIDE DEF F
      <4> QED BY <3>1
    <3>3. F(h, k) = F(g, k)
      <4> HIDE DEF h
      <4> QED BY <3>2
    <3>4. h[k] = F(g, k)
      <4> HIDE DEF F
      <4> QED BY <2>2, <1>a
    <3> HIDE DEF F, h
    <3> QED BY <3>3, <3>4
  <2>4. Upto(h, j + 1)
    <3> HIDE DEF F
    <3> QED BY <2>3
  <2>5. \E f : Upto(f, j + 1)
    <3> HIDE DEF Upto, h
    <3> QED BY <2>4
  <2> HIDE DEF Upto, h
  <2> QED BY <2>5, <1>a
<1>4. N \in T
  <2> HIDE DEF T
  <2>1. N \in 0 .. N
    BY <1>a
  <2> QED BY <2>1, <1>2, <1>3, <1>a, BoundedInduction
<1>5. \E g : Upto(g, N)
  BY <1>4
<1> HIDE DEF F
<1>6. after = [k \in 0 .. N |-> F(after, k)]
  BY <1>5
<1> HIDE DEF after
<1>7. \A k \in 0 .. N : after[k] = F(after, k)
  BY <1>6
<1>8. after[0] = ix
  BY <1>7, <1>a DEF F
<1>9. \A k \in 1 .. N : after[k] = ApplyTerm(after[k - 1], order[k], doc, r, add)
  BY <1>7, <1>a DEF F
<1>10. Applies(after, ix, order, doc, r, add)
  BY <1>1, <1>8, <1>9 DEF N, Applies
<1> QED BY <1>0, <1>10 DEF order

\* The cells of the first k terms.
FirstCells(order, k, r) == {<<order[i], r>> : i \in 1 .. k}

LEMMA FirstCellsAre ==
    ASSUME NEW order, NEW S, Enumerates(order, S), NEW r
    PROVE  /\ FirstCells(order, 0, r) = {}
           /\ \A k \in 0 .. Len(order) - 1 :
                 /\ FirstCells(order, k + 1, r) = FirstCells(order, k, r) \union {<<order[k + 1], r>>}
                 /\ <<order[k + 1], r>> \notin FirstCells(order, k, r)
           /\ FirstCells(order, Len(order), r) = S \X {r}
<1>1. /\ Len(order) \in Nat
      /\ \A i \in 1 .. Len(order) : order[i] \in S
      /\ \A i, j \in 1 .. Len(order) : order[i] = order[j] => i = j
      /\ \A x \in S : \E i \in 1 .. Len(order) : order[i] = x
  BY DEF Enumerates
<1>2. FirstCells(order, 0, r) = {}
  BY DEF FirstCells
<1>3. ASSUME NEW k \in 0 .. Len(order) - 1
      PROVE  /\ FirstCells(order, k + 1, r) = FirstCells(order, k, r) \union {<<order[k + 1], r>>}
             /\ <<order[k + 1], r>> \notin FirstCells(order, k, r)
  <2>1. 1 .. k + 1 = (1 .. k) \union {k + 1} /\ k + 1 \in 1 .. Len(order)
        /\ \A i \in 1 .. k : i \in 1 .. Len(order) /\ i # k + 1
    BY <1>1
  <2>2. FirstCells(order, k + 1, r) = FirstCells(order, k, r) \union {<<order[k + 1], r>>}
    BY <2>1 DEF FirstCells
  <2>3. <<order[k + 1], r>> \notin FirstCells(order, k, r)
    BY <2>1, <1>1 DEF FirstCells
  <2> QED BY <2>2, <2>3
<1>4. FirstCells(order, Len(order), r) = S \X {r}
  BY <1>1 DEF FirstCells
<1> QED BY <1>2, <1>3, <1>4

\* A document's terms enter the index.
LEMMA TermsAdded ==
    ASSUME NEW cells, IsFiniteSet(cells), NEW docs, NEW ix, Holds(ix, cells, docs),
           NEW r, IsDoc(docs[r]), \A t \in TermsOf(docs[r]) : <<t, r>> \notin cells
    PROVE  LET new == ApplyTerms(ix, docs[r], r, TRUE) IN
           Holds(new, cells \union (TermsOf(docs[r]) \X {r}), docs) /\ SameCounts(ix, new)
<1> DEFINE doc == docs[r]
           S == TermsOf(doc)
           order == SetToSeq(S)
           C(k) == cells \union FirstCells(order, k, r)
<1> HIDE DEF doc
<1>1. Enumerates(order, S) /\ IsDoc(doc)
  BY AppliedAre DEF doc
<1>2. PICK after : Applies(after, ix, order, doc, r, TRUE)
  BY <1>1, AppliedAre
<1> HIDE DEF order, S
<1>3. /\ after[0] = ix
      /\ \A k \in 1 .. Len(order) : after[k] = ApplyTerm(after[k - 1], order[k], doc, r, TRUE)
      /\ ApplyTerms(ix, doc, r, TRUE) = after[Len(order)]
  BY <1>2 DEF Applies
<1>4. Len(order) \in Nat /\ \A i \in 1 .. Len(order) : order[i] \in S
  BY <1>1 DEF Enumerates
<1> DEFINE P(k) == IsFiniteSet(C(k)) /\ Holds(after[k], C(k), docs) /\ SameCounts(ix, after[k])
<1>5. P(0)
  <2>1. C(0) = cells
    BY <1>1, FirstCellsAre
  <2> HIDE DEF C
  <2> QED BY <2>1, <1>3 DEF SameCounts
<1>6. ASSUME NEW k \in 0 .. Len(order) - 1, P(k)
      PROVE  P(k + 1)
  <2> DEFINE here == C(k)
             there == C(k + 1)
             term == order[k + 1]
             at == after[k]
             next == after[k + 1]
  <2>1. k + 1 \in 1 .. Len(order) /\ (k + 1) - 1 = k
    BY <1>4
  <2>2. next = ApplyTerm(at, term, docs[r], r, TRUE)
    BY <1>3, <2>1 DEF doc
  <2>3. FirstCells(order, k + 1, r) = FirstCells(order, k, r) \union {<<term, r>>}
        /\ <<term, r>> \notin FirstCells(order, k, r)
    BY <1>1, FirstCellsAre
  <2>4. there = here \union {<<term, r>>}
    <3> HIDE DEF term
    <3> QED BY <2>3
  <2>5. <<term, r>> \notin here
    BY <2>1, <2>3, <1>4 DEF S, doc
  <2>6. IsFiniteSet(here) /\ Holds(at, here, docs) /\ SameCounts(ix, at)
    BY <1>6
  <2> HIDE DEF here, there, term, at, next
  <2>7. Holds(next, there, docs) /\ SameCounts(at, next)
    BY <2>2, <2>4, <2>5, <2>6, AddTermIs
  <2>8. IsFiniteSet(there)
    BY <2>4, <2>6, FS_AddElement
  <2>9. SameCounts(ix, next)
    BY <2>6, <2>7 DEF SameCounts
  <2> QED BY <2>7, <2>8, <2>9 DEF there, next
<1>7. P(Len(order))
  <2> DEFINE N == Len(order)
             T == {k \in 0 .. N : P(k)}
  <2>1. N \in Nat /\ 0 \in T /\ \A k \in 0 .. N - 1 : k \in T => k + 1 \in T
    <3> HIDE DEF P
    <3> QED BY <1>4, <1>5, <1>6
  <2> HIDE DEF T, P, N
  <2>2. 0 .. N \subseteq T /\ N \in 0 .. N
    BY <2>1, BoundedInduction
  <2> QED BY <2>2 DEF T, N
<1>8. C(Len(order)) = cells \union (S \X {r})
  BY <1>1, FirstCellsAre
<1> HIDE DEF C
<1> QED BY <1>3, <1>7, <1>8 DEF S, doc

\* A document's terms leave the index.
LEMMA TermsDropped ==
    ASSUME NEW cells, IsFiniteSet(cells), NEW docs, NEW ix, Holds(ix, cells, docs),
           NEW doc, IsDoc(doc), NEW r, \A t \in TermsOf(doc) : <<t, r>> \in cells
    PROVE  LET new == ApplyTerms(ix, doc, r, FALSE) IN
           Holds(new, cells \ (TermsOf(doc) \X {r}), docs) /\ SameCounts(ix, new)
<1> DEFINE S == TermsOf(doc)
           order == SetToSeq(S)
           C(k) == cells \ FirstCells(order, k, r)
<1>1. Enumerates(order, S)
  BY AppliedAre
<1>2. PICK after : Applies(after, ix, order, doc, r, FALSE)
  BY AppliedAre
<1> HIDE DEF order, S
<1>3. /\ after[0] = ix
      /\ \A k \in 1 .. Len(order) : after[k] = ApplyTerm(after[k - 1], order[k], doc, r, FALSE)
      /\ ApplyTerms(ix, doc, r, FALSE) = after[Len(order)]
  BY <1>2 DEF Applies
<1>4. Len(order) \in Nat /\ \A i \in 1 .. Len(order) : order[i] \in S
  BY <1>1 DEF Enumerates
<1> DEFINE P(k) == IsFiniteSet(C(k)) /\ Holds(after[k], C(k), docs) /\ SameCounts(ix, after[k])
<1>5. P(0)
  <2>1. C(0) = cells
    BY <1>1, FirstCellsAre
  <2> HIDE DEF C
  <2> QED BY <2>1, <1>3 DEF SameCounts
<1>6. ASSUME NEW k \in 0 .. Len(order) - 1, P(k)
      PROVE  P(k + 1)
  <2> DEFINE here == C(k)
             there == C(k + 1)
             term == order[k + 1]
             at == after[k]
             next == after[k + 1]
  <2>1. k + 1 \in 1 .. Len(order) /\ (k + 1) - 1 = k
    BY <1>4
  <2>2. next = ApplyTerm(at, term, doc, r, FALSE)
    BY <1>3, <2>1
  <2>3. FirstCells(order, k + 1, r) = FirstCells(order, k, r) \union {<<term, r>>}
        /\ <<term, r>> \notin FirstCells(order, k, r)
    BY <1>1, FirstCellsAre
  <2>4. there = here \ {<<term, r>>}
    <3> HIDE DEF term
    <3> QED BY <2>3
  <2>5. <<term, r>> \in here
    BY <2>1, <2>3, <1>4 DEF S
  <2>6. IsFiniteSet(here) /\ Holds(at, here, docs) /\ SameCounts(ix, at)
    BY <1>6
  <2> HIDE DEF here, there, term, at, next
  <2>7. Holds(next, there, docs) /\ SameCounts(at, next)
    BY <2>2, <2>4, <2>5, <2>6, DropTermIs
  <2>8. IsFiniteSet(there)
    BY <2>4, <2>6, FS_RemoveElement
  <2>9. SameCounts(ix, next)
    BY <2>6, <2>7 DEF SameCounts
  <2> QED BY <2>7, <2>8, <2>9 DEF there, next
<1>7. P(Len(order))
  <2> DEFINE N == Len(order)
             T == {k \in 0 .. N : P(k)}
  <2>1. N \in Nat /\ 0 \in T /\ \A k \in 0 .. N - 1 : k \in T => k + 1 \in T
    <3> HIDE DEF P
    <3> QED BY <1>4, <1>5, <1>6
  <2> HIDE DEF T, P, N
  <2>2. 0 .. N \subseteq T /\ N \in 0 .. N
    BY <2>1, BoundedInduction
  <2> QED BY <2>2 DEF T, N
<1>8. C(Len(order)) = cells \ (S \X {r})
  BY <1>1, FirstCellsAre
<1> HIDE DEF C
<1> QED BY <1>3, <1>7, <1>8 DEF S

----------------------------------------------------------------------------
(***************************************************************************)
(* The index of a table: docs is [rowid -> document].                        *)
(***************************************************************************)
AreDocs(docs) == IsFiniteSet(DOMAIN docs) /\ \A n \in DOMAIN docs : IsDoc(docs[n])

Counts(ix, docs) ==
    /\ DOMAIN ix.doclen = {n \in DOMAIN docs : docs[n] # {}}
    /\ \A n \in DOMAIN ix.doclen : ix.doclen[n] = Cardinality(docs[n])
    /\ ix.docs = Cardinality(DOMAIN docs)
    /\ ix.total = Cardinality(Tokens(docs))

\* ix is the index of docs.
IndexOf(ix, docs) == Holds(ix, Cells(docs), docs) /\ Counts(ix, docs)

LEMMA CellsFinite ==
    ASSUME NEW docs, AreDocs(docs)
    PROVE  IsFiniteSet(Cells(docs)) /\ IsFiniteSet(Tokens(docs))
<1>1. IsFiniteSet(Cells(docs))
  <2> DEFINE f == [n \in DOMAIN docs |-> TermsOf(docs[n]) \X {n}]
             S == {f[n] : n \in DOMAIN docs}
  <2>1. IsFiniteSet(S)
    <3> HIDE DEF f
    <3> QED BY FiniteImage DEF AreDocs
  <2>2. ASSUME NEW T \in S PROVE IsFiniteSet(T)
    <3>1. PICK n \in DOMAIN docs : T = TermsOf(docs[n]) \X {n}
      OBVIOUS
    <3>2. IsFiniteSet(TermsOf(docs[n])) /\ IsFiniteSet({n})
      BY DocFinite, FS_Singleton DEF AreDocs
    <3> QED BY <3>1, <3>2, FS_Product
  <2>3. Cells(docs) = UNION S
    BY DEF Cells
  <2> HIDE DEF S
  <2> QED BY <2>1, <2>2, <2>3, FS_UNION
<1>2. IsFiniteSet(Tokens(docs))
  <2> DEFINE f == [n \in DOMAIN docs |-> {n} \X docs[n]]
             S == {f[n] : n \in DOMAIN docs}
  <2>1. IsFiniteSet(S)
    <3> HIDE DEF f
    <3> QED BY FiniteImage DEF AreDocs
  <2>2. ASSUME NEW T \in S PROVE IsFiniteSet(T)
    <3>1. PICK n \in DOMAIN docs : T = {n} \X docs[n]
      OBVIOUS
    <3>2. IsFiniteSet(docs[n]) /\ IsFiniteSet({n})
      BY FS_Singleton DEF AreDocs, IsDoc
    <3> QED BY <3>1, <3>2, FS_Product
  <2>3. Tokens(docs) = UNION S
    BY DEF Tokens
  <2> HIDE DEF S
  <2> QED BY <2>1, <2>2, <2>3, FS_UNION
<1> QED BY <1>1, <1>2

\* A document more.
LEMMA PutDoc ==
    ASSUME NEW docs, AreDocs(docs), NEW r, r \notin DOMAIN docs, NEW doc, IsDoc(doc)
    PROVE  LET new == Put(docs, r, doc) IN
           /\ AreDocs(new)
           /\ DOMAIN new = DOMAIN docs \union {r} /\ new[r] = doc
           /\ \A n \in DOMAIN docs : new[n] = docs[n]
           /\ Cells(new) = Cells(docs) \union (TermsOf(doc) \X {r})
           /\ \A c \in Cells(docs) : c[2] \in DOMAIN docs
           /\ Cardinality(Tokens(new)) = Cardinality(Tokens(docs)) + Cardinality(doc)
           /\ Cardinality(DOMAIN new) = Cardinality(DOMAIN docs) + 1
           /\ Cardinality(Tokens(docs)) \in Nat /\ Cardinality(doc) \in Nat
           /\ Cardinality(DOMAIN docs) \in Nat
<1> DEFINE new == Put(docs, r, doc)
<1>1. DOMAIN new = DOMAIN docs \union {r} /\ new[r] = doc /\ \A n \in DOMAIN docs : new[n] = docs[n]
  BY DEF Put
<1> HIDE DEF new
<1>2. AreDocs(new) /\ Cardinality(DOMAIN new) = Cardinality(DOMAIN docs) + 1
  <2>1. IsFiniteSet(DOMAIN new) /\ Cardinality(DOMAIN new) = Cardinality(DOMAIN docs) + 1
    BY <1>1, FS_AddElement DEF AreDocs
  <2> QED BY <1>1, <2>1 DEF AreDocs
<1>3. Cells(new) = Cells(docs) \union (TermsOf(doc) \X {r})
  <2>1. \A c : c \in Cells(new) <=> \E n \in DOMAIN new : c \in TermsOf(new[n]) \X {n}
    BY DEF Cells
  <2>2. \A c : c \in Cells(docs) <=> \E n \in DOMAIN docs : c \in TermsOf(docs[n]) \X {n}
    BY DEF Cells
  <2>3. ASSUME NEW c \in Cells(new) PROVE c \in Cells(docs) \union (TermsOf(doc) \X {r})
    <3>1. PICK n \in DOMAIN new : c \in TermsOf(new[n]) \X {n}
      BY <2>1
    <3>2. CASE n = r
      BY <3>1, <3>2, <1>1
    <3>3. CASE n # r
      BY <3>1, <3>3, <1>1, <2>2
    <3> QED BY <3>2, <3>3
  <2>4. ASSUME NEW c \in Cells(docs) PROVE c \in Cells(new)
    <3>1. PICK n \in DOMAIN docs : c \in TermsOf(docs[n]) \X {n}
      BY <2>2
    <3> QED BY <3>1, <2>1, <1>1
  <2>5. ASSUME NEW c \in TermsOf(doc) \X {r} PROVE c \in Cells(new)
    BY <2>1, <1>1
  <2> QED BY <2>3, <2>4, <2>5
<1>4. \A c \in Cells(docs) : c[2] \in DOMAIN docs
  BY DEF Cells
<1>5. Tokens(new) = Tokens(docs) \union ({r} \X doc) /\ Tokens(docs) \intersect ({r} \X doc) = {}
  <2>1. \A x : x \in Tokens(new) <=> \E n \in DOMAIN new : x \in {n} \X new[n]
    BY DEF Tokens
  <2>2. \A x : x \in Tokens(docs) <=> \E n \in DOMAIN docs : x \in {n} \X docs[n]
    BY DEF Tokens
  <2>3. ASSUME NEW x \in Tokens(new) PROVE x \in Tokens(docs) \union ({r} \X doc)
    <3>1. PICK n \in DOMAIN new : x \in {n} \X new[n]
      BY <2>1
    <3>2. CASE n = r
      BY <3>1, <3>2, <1>1
    <3>3. CASE n # r
      BY <3>1, <3>3, <1>1, <2>2
    <3> QED BY <3>2, <3>3
  <2>4. ASSUME NEW x \in Tokens(docs) PROVE x \in Tokens(new) /\ x \notin {r} \X doc
    <3>1. PICK n \in DOMAIN docs : x \in {n} \X docs[n]
      BY <2>2
    <3> QED BY <3>1, <2>1, <1>1
  <2>5. ASSUME NEW x \in {r} \X doc PROVE x \in Tokens(new)
    BY <2>1, <1>1
  <2> QED BY <2>3, <2>4, <2>5
<1>6. IsFiniteSet({r} \X doc) /\ Cardinality({r} \X doc) = Cardinality(doc) /\ Cardinality(doc) \in Nat
  <2>1. IsFiniteSet({r}) /\ Cardinality({r}) = 1
    BY FS_Singleton
  <2>2. IsFiniteSet(doc) /\ Cardinality(doc) \in Nat
    BY FS_CardinalityType DEF IsDoc
  <2>3. IsFiniteSet({r} \X doc) /\ Cardinality({r} \X doc) = Cardinality({r}) * Cardinality(doc)
    BY <2>1, <2>2, FS_Product
  <2> QED BY <2>1, <2>2, <2>3
<1>7. Cardinality(Tokens(new)) = Cardinality(Tokens(docs)) + Cardinality(doc)
      /\ Cardinality(Tokens(docs)) \in Nat
  <2>1. IsFiniteSet(Tokens(docs)) /\ Cardinality(Tokens(docs)) \in Nat
    BY CellsFinite, FS_CardinalityType
  <2>2. Cardinality(Tokens(docs) \union ({r} \X doc))
          = Cardinality(Tokens(docs)) + Cardinality({r} \X doc) - Cardinality(Tokens(docs) \intersect ({r} \X doc))
    BY <2>1, <1>6, FS_Union
  <2>3. Cardinality(Tokens(docs) \intersect ({r} \X doc)) = 0
    BY <1>5, FS_EmptySet
  <2> QED BY <2>1, <2>2, <2>3, <1>5, <1>6
<1>8. Cardinality(DOMAIN docs) \in Nat
  BY FS_CardinalityType DEF AreDocs
<1> QED BY <1>1, <1>2, <1>3, <1>4, <1>6, <1>7, <1>8 DEF new

\* The postings are those of any documents that are the same where there are cells.
LEMMA HoldsSame ==
    ASSUME NEW ix, NEW cells, NEW docs, Holds(ix, cells, docs),
           NEW other, \A c \in cells : other[c[2]] = docs[c[2]]
    PROVE  Holds(ix, cells, other)
  BY DEF Holds, Postings

WithDoclen(ix, doclen) == [ix EXCEPT !.doclen = doclen]
Gained(ix, doclen, len) == AdjustGlobal(WithDoclen(ix, doclen), TRUE, len)
Lost(ix, doclen, len) == AdjustGlobal(WithDoclen(ix, doclen), FALSE, len)

\* The counts after a row more.
LEMMA CountsUp ==
    ASSUME NEW ix, Shaped(ix), NEW cells, NEW docs, Holds(ix, cells, docs), NEW doclen, NEW len
    PROVE  LET new == Gained(ix, doclen, len) IN
           /\ Holds(new, cells, docs) /\ new.doclen = doclen
           /\ new.docs = ix.docs + 1
           /\ new.total = IF new.docs = 0 THEN 0 ELSE ix.total + len
<1> DEFINE one == WithDoclen(ix, doclen)
           new == AdjustGlobal(one, TRUE, len)
           n == ix.docs + 1
           t == ix.total + len
<1>0. one = [ix EXCEPT !.doclen = doclen]
  BY DEF WithDoclen
<1> HIDE DEF one
<1>1. /\ Shaped(one) /\ one.dict = ix.dict /\ one.next = ix.next /\ one.posts = ix.posts
      /\ one.df = ix.df /\ one.doclen = doclen /\ one.docs = ix.docs /\ one.total = ix.total
  BY <1>0, Zenon DEF Shaped
<1>2. new = [one EXCEPT !.docs = n, !.total = IF n = 0 THEN 0 ELSE t]
  BY <1>1 DEF AdjustGlobal
<1> HIDE DEF new, n, t
<1>3. /\ Shaped(new) /\ new.dict = ix.dict /\ new.next = ix.next /\ new.posts = ix.posts
      /\ new.df = ix.df /\ new.doclen = doclen /\ new.docs = n /\ new.total = IF n = 0 THEN 0 ELSE t
  BY <1>1, <1>2, Zenon DEF Shaped
<1>4. Holds(new, cells, docs)
  BY <1>3 DEF Holds, Dictionary, Postings, Frequencies
<1>5. new.docs = n /\ new.total = IF new.docs = 0 THEN 0 ELSE t
  BY <1>3
<1>6. new.doclen = doclen
  BY <1>3
<1>7. /\ new.docs = ix.docs + 1
      /\ new.total = IF new.docs = 0 THEN 0 ELSE ix.total + len
  BY <1>5, Zenon DEF n, t
<1> QED BY <1>4, <1>6, <1>7, Zenon DEF new, one, Gained, Lost

\* The counts after a row less.
LEMMA CountsDown ==
    ASSUME NEW ix, Shaped(ix), NEW cells, NEW docs, Holds(ix, cells, docs), NEW doclen, NEW len
    PROVE  LET new == Lost(ix, doclen, len) IN
           /\ Holds(new, cells, docs) /\ new.doclen = doclen
           /\ new.docs = IF ix.docs = 0 THEN 0 ELSE ix.docs - 1
           /\ new.total = IF new.docs = 0 THEN 0 ELSE IF ix.total < len THEN 0 ELSE ix.total - len
<1> DEFINE one == WithDoclen(ix, doclen)
           new == AdjustGlobal(one, FALSE, len)
           n == IF ix.docs = 0 THEN 0 ELSE ix.docs - 1
           t == IF ix.total < len THEN 0 ELSE ix.total - len
<1>0. one = [ix EXCEPT !.doclen = doclen]
  BY DEF WithDoclen
<1> HIDE DEF one
<1>1. /\ Shaped(one) /\ one.dict = ix.dict /\ one.next = ix.next /\ one.posts = ix.posts
      /\ one.df = ix.df /\ one.doclen = doclen /\ one.docs = ix.docs /\ one.total = ix.total
  BY <1>0, Zenon DEF Shaped
<1>2. new = [one EXCEPT !.docs = n, !.total = IF n = 0 THEN 0 ELSE t]
  BY <1>1 DEF AdjustGlobal
<1> HIDE DEF new, n, t
<1>3. /\ Shaped(new) /\ new.dict = ix.dict /\ new.next = ix.next /\ new.posts = ix.posts
      /\ new.df = ix.df /\ new.doclen = doclen /\ new.docs = n /\ new.total = IF n = 0 THEN 0 ELSE t
  BY <1>1, <1>2, Zenon DEF Shaped
<1>4. Holds(new, cells, docs)
  BY <1>3 DEF Holds, Dictionary, Postings, Frequencies
<1>5. new.docs = n /\ new.total = IF new.docs = 0 THEN 0 ELSE t
  BY <1>3
<1>6. new.doclen = doclen
  BY <1>3
<1>7. /\ new.docs = IF ix.docs = 0 THEN 0 ELSE ix.docs - 1
      /\ new.total = IF new.docs = 0 THEN 0 ELSE IF ix.total < len THEN 0 ELSE ix.total - len
  BY <1>5, Zenon DEF n, t
<1> QED BY <1>4, <1>6, <1>7, Zenon DEF new, one, Gained, Lost

\* A row enters the index.
LEMMA RowAdded ==
    ASSUME NEW docs, AreDocs(docs), NEW ix, IndexOf(ix, docs),
           NEW r, r \notin DOMAIN docs, NEW doc, IsDoc(doc)
    PROVE  IndexOf(ApplyRow(ix, r, doc, TRUE), Put(docs, r, doc))
<1> DEFINE new == Put(docs, r, doc)
           ready == ApplyTerms(ix, doc, r, TRUE)
           L == IF doc # {} THEN Put(ready.doclen, r, Cardinality(doc)) ELSE ready.doclen
           after == Gained(ready, L, Cardinality(doc))
<1>1. /\ AreDocs(new)
      /\ DOMAIN new = DOMAIN docs \union {r} /\ new[r] = doc
      /\ \A n \in DOMAIN docs : new[n] = docs[n]
      /\ Cells(new) = Cells(docs) \union (TermsOf(doc) \X {r})
      /\ \A c \in Cells(docs) : c[2] \in DOMAIN docs
      /\ Cardinality(Tokens(new)) = Cardinality(Tokens(docs)) + Cardinality(doc)
      /\ Cardinality(DOMAIN new) = Cardinality(DOMAIN docs) + 1
      /\ Cardinality(Tokens(docs)) \in Nat /\ Cardinality(doc) \in Nat
      /\ Cardinality(DOMAIN docs) \in Nat
  BY PutDoc
<1>2. ApplyRow(ix, r, doc, TRUE) = after
  BY DEF ApplyRow, WithDoclen, Gained, Lost
<1> HIDE DEF new
<1>3. Holds(ix, Cells(docs), new)
  BY <1>1, HoldsSame DEF IndexOf
<1>4. \A t \in TermsOf(doc) : <<t, r>> \notin Cells(docs)
  BY <1>1
<1>5. Holds(ready, Cells(new), new) /\ SameCounts(ix, ready)
  <2>1. IsFiniteSet(Cells(docs))
    BY CellsFinite
  <2>2. /\ Holds(ApplyTerms(ix, new[r], r, TRUE), Cells(docs) \union (TermsOf(new[r]) \X {r}), new)
        /\ SameCounts(ix, ApplyTerms(ix, new[r], r, TRUE))
    BY <2>1, <1>1, <1>3, <1>4, TermsAdded
  <2> QED BY <2>2, <1>1
<1> HIDE DEF ready
<1>6. /\ Holds(after, Cells(new), new) /\ after.doclen = L
      /\ after.docs = ready.docs + 1
      /\ after.total = IF after.docs = 0 THEN 0 ELSE ready.total + Cardinality(doc)
  <2>1. Shaped(ready)
    BY <1>5 DEF Holds
  <2> HIDE DEF L
  <2> QED BY <2>1, <1>5, CountsUp
<1> HIDE DEF after
<1>7. /\ ready.docs = Cardinality(DOMAIN docs) /\ ready.total = Cardinality(Tokens(docs))
      /\ DOMAIN ready.doclen = {n \in DOMAIN docs : docs[n] # {}}
      /\ \A n \in DOMAIN ready.doclen : ready.doclen[n] = Cardinality(docs[n])
  BY <1>5 DEF SameCounts, IndexOf, Counts
<1>8. after.docs = Cardinality(DOMAIN new) /\ after.total = Cardinality(Tokens(new))
  BY <1>1, <1>6, <1>7
<1>9. DOMAIN after.doclen = {n \in DOMAIN new : new[n] # {}}
      /\ \A n \in DOMAIN after.doclen : after.doclen[n] = Cardinality(new[n])
  <2>1. CASE doc = {}
    BY <2>1, <1>1, <1>6, <1>7
  <2>2. CASE doc # {}
    <3>1. after.doclen = Put(ready.doclen, r, Cardinality(doc))
      BY <2>2, <1>6
    <3>2. DOMAIN after.doclen = DOMAIN ready.doclen \union {r} /\ after.doclen[r] = Cardinality(doc)
          /\ \A n \in DOMAIN ready.doclen : n # r => after.doclen[n] = ready.doclen[n]
      BY <3>1 DEF Put
    <3> QED BY <2>2, <3>2, <1>1, <1>7
  <2> QED BY <2>1, <2>2
<1>10. IndexOf(after, new)
  BY <1>6, <1>8, <1>9 DEF IndexOf, Counts
<1> QED BY <1>2, <1>10 DEF new

\* A row leaves the index.
LEMMA RowDropped ==
    ASSUME NEW docs, AreDocs(docs), NEW r, r \notin DOMAIN docs, NEW doc, IsDoc(doc),
           NEW ix, IndexOf(ix, Put(docs, r, doc))
    PROVE  IndexOf(ApplyRow(ix, r, doc, FALSE), docs)
<1> DEFINE new == Put(docs, r, doc)
           ready == ApplyTerms(ix, doc, r, FALSE)
           L == Drop(ready.doclen, r)
           after == Lost(ready, L, Cardinality(doc))
<1>1. /\ AreDocs(new)
      /\ DOMAIN new = DOMAIN docs \union {r} /\ new[r] = doc
      /\ \A n \in DOMAIN docs : new[n] = docs[n]
      /\ Cells(new) = Cells(docs) \union (TermsOf(doc) \X {r})
      /\ \A c \in Cells(docs) : c[2] \in DOMAIN docs
      /\ Cardinality(Tokens(new)) = Cardinality(Tokens(docs)) + Cardinality(doc)
      /\ Cardinality(DOMAIN new) = Cardinality(DOMAIN docs) + 1
      /\ Cardinality(Tokens(docs)) \in Nat /\ Cardinality(doc) \in Nat
      /\ Cardinality(DOMAIN docs) \in Nat
  BY PutDoc
<1>2. ApplyRow(ix, r, doc, FALSE) = after
  BY DEF ApplyRow, WithDoclen, Gained, Lost
<1>a. IndexOf(ix, new)
  OBVIOUS
<1> HIDE DEF new
<1>3. Holds(ready, Cells(docs), docs) /\ SameCounts(ix, ready)
  <2>1. IsFiniteSet(Cells(new)) /\ Holds(ix, Cells(new), new)
    BY <1>1, <1>a, CellsFinite DEF IndexOf
  <2>2. \A t \in TermsOf(doc) : <<t, r>> \in Cells(new)
    BY <1>1
  <2>3. Holds(ready, Cells(new) \ (TermsOf(doc) \X {r}), new) /\ SameCounts(ix, ready)
    BY <2>1, <2>2, TermsDropped
  <2>4. Cells(new) \ (TermsOf(doc) \X {r}) = Cells(docs)
    BY <1>1
  <2>5. \A c \in Cells(docs) : docs[c[2]] = new[c[2]]
    BY <1>1
  <2> QED BY <2>3, <2>4, <2>5, HoldsSame
<1> HIDE DEF ready
<1>4. /\ Holds(after, Cells(docs), docs) /\ after.doclen = L
      /\ after.docs = IF ready.docs = 0 THEN 0 ELSE ready.docs - 1
      /\ after.total = IF after.docs = 0 THEN 0
                       ELSE IF ready.total < Cardinality(doc) THEN 0 ELSE ready.total - Cardinality(doc)
  <2>1. Shaped(ready)
    BY <1>3 DEF Holds
  <2> HIDE DEF L
  <2> QED BY <2>1, <1>3, CountsDown
<1> HIDE DEF after
<1>5. /\ ready.docs = Cardinality(DOMAIN docs) + 1
      /\ ready.total = Cardinality(Tokens(docs)) + Cardinality(doc)
      /\ DOMAIN ready.doclen = {n \in DOMAIN new : new[n] # {}}
      /\ \A n \in DOMAIN ready.doclen : ready.doclen[n] = Cardinality(new[n])
  BY <1>1, <1>3, <1>a DEF SameCounts, IndexOf, Counts
<1>6. after.docs = Cardinality(DOMAIN docs)
  BY <1>1, <1>4, <1>5
<1>7. after.total = Cardinality(Tokens(docs))
  <2>1. CASE after.docs = 0
    <3>1. DOMAIN docs = {}
      BY <2>1, <1>6, FS_EmptySet DEF AreDocs
    <3>2. Tokens(docs) = {}
      BY <3>1 DEF Tokens
    <3> QED BY <2>1, <3>2, <1>4, FS_EmptySet
  <2>2. CASE after.docs # 0
    BY <2>2, <1>1, <1>4, <1>5
  <2> QED BY <2>1, <2>2
<1>8. DOMAIN after.doclen = {n \in DOMAIN docs : docs[n] # {}}
      /\ \A n \in DOMAIN after.doclen : after.doclen[n] = Cardinality(docs[n])
  <2>1. DOMAIN after.doclen = DOMAIN ready.doclen \ {r}
        /\ \A n \in DOMAIN after.doclen : after.doclen[n] = ready.doclen[n]
    BY <1>4 DEF Drop
  <2> QED BY <2>1, <1>1, <1>5
<1>9. IndexOf(after, docs)
  BY <1>4, <1>6, <1>7, <1>8 DEF IndexOf, Counts
<1> QED BY <1>2, <1>9

LEMMA CellsAre ==
    ASSUME NEW docs
    PROVE  /\ TermsOf(Cells(docs)) = UNION {TermsOf(docs[n]) : n \in DOMAIN docs}
           /\ \A t : RowsWith(Cells(docs), t) = {n \in DOMAIN docs : t \in TermsOf(docs[n])}
           /\ \A c \in Cells(docs) : /\ c = <<c[1], c[2]>> /\ c[2] \in DOMAIN docs
                                     /\ c[1] \in TermsOf(docs[c[2]])
           /\ \A n \in DOMAIN docs : \A t \in TermsOf(docs[n]) : <<t, n>> \in Cells(docs)
<1>1. \A c \in Cells(docs) : c = <<c[1], c[2]>> /\ c[2] \in DOMAIN docs /\ c[1] \in TermsOf(docs[c[2]])
  BY DEF Cells
<1>2. \A n \in DOMAIN docs : \A t \in TermsOf(docs[n]) : <<t, n>> \in Cells(docs)
  BY DEF Cells
<1>3. ASSUME NEW t PROVE RowsWith(Cells(docs), t) = {n \in DOMAIN docs : t \in TermsOf(docs[n])}
  <2>1. ASSUME NEW n \in RowsWith(Cells(docs), t) PROVE n \in DOMAIN docs /\ t \in TermsOf(docs[n])
    BY <1>1 DEF RowsWith
  <2>2. ASSUME NEW n \in DOMAIN docs, t \in TermsOf(docs[n]) PROVE n \in RowsWith(Cells(docs), t)
    <3> DEFINE c == <<t, n>>
    <3>1. c \in Cells(docs) /\ c[1] = t /\ c[2] = n
      BY <1>2, <2>2
    <3> HIDE DEF c
    <3> QED BY <3>1 DEF RowsWith
  <2> QED BY <2>1, <2>2
<1>4. TermsOf(Cells(docs)) = UNION {TermsOf(docs[n]) : n \in DOMAIN docs}
  <2>1. ASSUME NEW t \in TermsOf(Cells(docs)) PROVE \E n \in DOMAIN docs : t \in TermsOf(docs[n])
    <3>1. PICK c \in Cells(docs) : t = c[1]
      BY DEF TermsOf
    <3> QED BY <3>1, <1>1
  <2>2. ASSUME NEW n \in DOMAIN docs, NEW t \in TermsOf(docs[n]) PROVE t \in TermsOf(Cells(docs))
    <3> DEFINE c == <<t, n>>
    <3>1. c \in Cells(docs) /\ c[1] = t
      BY <1>2
    <3> HIDE DEF c
    <3> QED BY <3>1 DEF TermsOf
  <2> QED BY <2>1, <2>2
<1> QED BY <1>1, <1>2, <1>3, <1>4

\* The index made in memory is the index of the rows.
LEMMA BackfillIs ==
    ASSUME NEW docs, AreDocs(docs)
    PROVE  IndexOf(Backfill(docs), docs)
<1> DEFINE terms == UNION {TermsOf(docs[n]) : n \in DOMAIN docs}
           order == SetToSeq(terms)
           id == [t \in terms |-> CHOOSE i \in 1 .. Len(order) : order[i] = t]
           keys == {<<id[c[1]], c[2]>> : c \in Cells(docs)}
           ix == Backfill(docs)
<1>1. /\ terms = TermsOf(Cells(docs))
      /\ \A t : RowsWith(Cells(docs), t) = {n \in DOMAIN docs : t \in TermsOf(docs[n])}
      /\ \A c \in Cells(docs) : /\ c = <<c[1], c[2]>> /\ c[2] \in DOMAIN docs
                                /\ c[1] \in TermsOf(docs[c[2]])
  BY CellsAre
<1>2. IsFiniteSet(terms)
  <2> DEFINE f == [c \in Cells(docs) |-> c[1]]
  <2>1. IsFiniteSet({f[c] : c \in Cells(docs)})
    <3> HIDE DEF f
    <3> QED BY CellsFinite, FiniteImage
  <2>2. {f[c] : c \in Cells(docs)} = TermsOf(Cells(docs))
    BY DEF TermsOf
  <2> QED BY <2>1, <2>2, <1>1
<1>3. /\ ix = [dict |-> ix.dict, next |-> ix.next, posts |-> ix.posts, df |-> ix.df,
               doclen |-> ix.doclen, docs |-> ix.docs, total |-> ix.total]
      /\ ix.dict = id /\ ix.next = Len(order) + 1
      /\ ix.posts = [k \in keys |-> EncodePosting(docs[k[2]], order[k[1]])]
      /\ ix.df = [t \in terms |-> Cardinality({n \in DOMAIN docs : t \in TermsOf(docs[n])})]
      /\ ix.doclen = [n \in {m \in DOMAIN docs : docs[m] # {}} |-> Cardinality(docs[n])]
      /\ ix.docs = Cardinality(DOMAIN docs)
      /\ ix.total = Cardinality(Tokens(docs))
  BY Zenon DEF Backfill
<1> HIDE DEF ix, terms
<1>4. Enumerates(order, terms)
  BY <1>2, SetToSeqIs
<1> HIDE DEF order
<1>5. Len(order) \in Nat /\ DOMAIN id = terms
      /\ \A t \in terms : id[t] \in 1 .. Len(order) /\ order[id[t]] = t
  BY <1>4 DEF Enumerates
<1> HIDE DEF id
<1>6. Dictionary(ix)
  BY <1>3, <1>5 DEF Dictionary
<1>7. Postings(ix, Cells(docs), docs)
  <2>1. ASSUME NEW c \in Cells(docs)
        PROVE  /\ c = <<c[1], c[2]>> /\ c[1] \in DOMAIN ix.dict
               /\ ix.posts[<<ix.dict[c[1]], c[2]>>] = EncodePosting(docs[c[2]], c[1])
    <3>1. c[1] \in terms /\ c = <<c[1], c[2]>>
      BY <1>1 DEF TermsOf
    <3> DEFINE k == <<id[c[1]], c[2]>>
    <3>2. k \in keys /\ k[1] = id[c[1]] /\ k[2] = c[2]
      OBVIOUS
    <3> HIDE DEF k, keys
    <3>3. ix.posts[k] = EncodePosting(docs[c[2]], order[id[c[1]]])
      BY <3>2, <1>3
    <3>4. order[id[c[1]]] = c[1]
      BY <3>1, <1>5
    <3> QED BY <3>1, <3>3, <3>4, <1>3, <1>5 DEF k
  <2>2. DOMAIN ix.posts = {<<ix.dict[c[1]], c[2]>> : c \in Cells(docs)}
    <3>1. DOMAIN ix.posts = keys
      <4> HIDE DEF keys
      <4> QED BY <1>3
    <3> QED BY <3>1, <1>3
  <2> QED BY <2>1, <2>2 DEF Postings
<1>8. Frequencies(ix, Cells(docs))
  BY <1>1, <1>3 DEF Frequencies
<1>9. Counts(ix, docs)
  BY <1>3 DEF Counts
<1>10. IndexOf(ix, docs)
  BY <1>3, <1>6, <1>7, <1>8, <1>9 DEF IndexOf, Holds, Shaped
<1> QED BY <1>10 DEF ix

\* What is read for a term: its occurrences in every row.
LEMMA TermPostingsIs ==
    ASSUME NEW docs, AreDocs(docs), NEW ix, IndexOf(ix, docs), NEW t \in TermsOf(Cells(docs))
    PROVE  TermPostings(ix, t) = {<<x[1], x[2][2], x[2][3]>> : x \in {y \in Tokens(docs) : y[2][1] = t}}
<1> DEFINE id == ix.dict[t]
           read == TermPostings(ix, t)
           held == {<<x[1], x[2][2], x[2][3]>> : x \in {y \in Tokens(docs) : y[2][1] = t}}
<1>1. /\ \A c \in Cells(docs) : c = <<c[1], c[2]>> /\ c[1] \in DOMAIN ix.dict
      /\ DOMAIN ix.posts = {<<ix.dict[c[1]], c[2]>> : c \in Cells(docs)}
      /\ \A c \in Cells(docs) : ix.posts[<<ix.dict[c[1]], c[2]>>] = EncodePosting(docs[c[2]], c[1])
  BY DEF IndexOf, Holds, Postings
<1>2. t \in DOMAIN ix.dict
  BY <1>1 DEF TermsOf
<1>3. \A s \in DOMAIN ix.dict : ix.dict[s] = id => s = t
  BY <1>2 DEF IndexOf, Holds, Dictionary
<1>4. \A c \in Cells(docs) : c[2] \in DOMAIN docs /\ c[1] \in TermsOf(docs[c[2]])
  BY CellsAre
<1>5. \A n \in DOMAIN docs : DecodePosting(EncodePosting(docs[n], t)) = Occurrences(docs[n], t)
  BY DecodeEncodePosting DEF AreDocs
<1>6. \A p : p \in read <=>
        \E k \in DOMAIN ix.posts : k[1] = id /\ \E q \in DecodePosting(ix.posts[k]) : p = <<k[2], q[1], q[2]>>
  BY <1>2 DEF TermPostings, PostingsOfId, Has
<1> HIDE DEF read
<1>7. ASSUME NEW p \in read PROVE p \in held
  <2>1. PICK k \in DOMAIN ix.posts : k[1] = id /\ \E q \in DecodePosting(ix.posts[k]) : p = <<k[2], q[1], q[2]>>
    BY <1>6
  <2>2. PICK q \in DecodePosting(ix.posts[k]) : p = <<k[2], q[1], q[2]>>
    BY <2>1
  <2>3. PICK c \in Cells(docs) : k = <<ix.dict[c[1]], c[2]>>
    BY <1>1
  <2>4. c[1] = t /\ k[2] = c[2]
    BY <2>1, <2>3, <1>1, <1>3
  <2>5. c[2] \in DOMAIN docs /\ q \in Occurrences(docs[c[2]], t)
    BY <2>2, <2>3, <2>4, <1>1, <1>4, <1>5
  <2>6. PICK u \in docs[c[2]] : u[1] = t /\ q = <<u[2], u[3]>>
    BY <2>5 DEF Occurrences
  <2> DEFINE x == <<c[2], u>>
  <2>7. x \in Tokens(docs)
    BY <2>5 DEF Tokens
  <2>8. x[1] = c[2] /\ x[2] = u
    OBVIOUS
  <2>9. p = <<x[1], x[2][2], x[2][3]>> /\ x[2][1] = t
    BY <2>2, <2>4, <2>6, <2>8
  <2> HIDE DEF x
  <2> QED BY <2>7, <2>9
<1>8. ASSUME NEW p \in held PROVE p \in read
  <2>1. PICK x \in Tokens(docs) : x[2][1] = t /\ p = <<x[1], x[2][2], x[2][3]>>
    OBVIOUS
  <2>2. x[1] \in DOMAIN docs /\ x[2] \in docs[x[1]]
    BY DEF Tokens
  <2> DEFINE n == x[1]
             u == x[2]
             k == <<id, n>>
             c == <<t, n>>
             q == <<u[2], u[3]>>
  <2>3. t \in TermsOf(docs[n])
    BY <2>1, <2>2 DEF TermsOf
  <2>4. c \in Cells(docs) /\ c[1] = t /\ c[2] = n
    BY <2>2, <2>3, CellsAre
  <2>5. k[1] = id /\ k[2] = n /\ q[1] = u[2] /\ q[2] = u[3]
    OBVIOUS
  <2> HIDE DEF c
  <2>6. k \in DOMAIN ix.posts /\ ix.posts[k] = EncodePosting(docs[n], t)
    BY <2>4, <1>1
  <2>7. q \in Occurrences(docs[n], t)
    BY <2>1, <2>2 DEF Occurrences
  <2>8. q \in DecodePosting(ix.posts[k])
    BY <2>2, <2>6, <2>7, <1>5
  <2>9. p = <<k[2], q[1], q[2]>>
    BY <2>1, <2>5
  <2> HIDE DEF k, q
  <2> QED BY <2>5, <2>6, <2>8, <2>9, <1>6
<1> QED BY <1>7, <1>8 DEF read
----------------------------------------------------------------------------
(***************************************************************************)
(* Vectors.                                                                  *)
(***************************************************************************)
LEMMA DistNat ==
    ASSUME NEW a \in Int, NEW b \in Int
    PROVE  Dist(a, b) \in Nat
<1>1. ASSUME NEW d \in Int PROVE d * d \in Nat
  <2>1. d * d \in Int
    OBVIOUS
  <2>2. d * d >= 0
    <3>1. CASE d >= 0
      BY <3>1
    <3>2. CASE d < 0
      BY <3>2
    <3> QED BY <3>1, <3>2
  <2> QED BY <2>1, <2>2
<1>2. a - b \in Int
  OBVIOUS
<1> QED BY <1>1, <1>2 DEF Dist

LEMMA NearestIs ==
    ASSUME NEW centroids \in Seq(Int), centroids # <<>>, NEW v \in Int
    PROVE  Nearest(centroids, v) \in 1 .. Len(centroids)
<1> DEFINE N == 1 .. Len(centroids)
           d == [c \in N |-> Dist(centroids[c], v)]
           B == {c \in N : \A e \in N : d[c] <= d[e]}
<1>0. Len(centroids) \in Nat /\ Len(centroids) # 0
  OBVIOUS
<1>1. Len(centroids) \in Nat /\ N # {} /\ N \in SUBSET Nat /\ \A c \in N : centroids[c] \in Int
  <2>1. 1 \in N /\ N \in SUBSET Nat
    BY <1>0
  <2>2. \A c \in N : centroids[c] \in Int
    OBVIOUS
  <2> QED BY <1>0, <2>1, <2>2
<1>2. \A c \in N : d[c] \in Nat /\ d[c] = Dist(centroids[c], v)
  BY <1>1, DistNat
<1> HIDE DEF N, d
<1>3. Least(N, d) \in N /\ \A e \in N : d[Least(N, d)] <= d[e]
  BY <1>1, <1>2, LeastIs
<1>4. B \in SUBSET Nat /\ B # {}
  BY <1>1, <1>3
<1>5. PICK c \in B : \A e \in B : c <= e
  <2> HIDE DEF B
  <2> QED BY <1>4, LeastElement
<1>6. c \in N /\ \A e \in N : d[c] <= d[e]
  BY <1>5
<1>7. ASSUME NEW e \in 1 .. c - 1 PROVE d[e] > d[c]
  <2>1. e \in N /\ c \in Nat /\ e < c
    BY <1>1, <1>6 DEF N
  <2>2. e \notin B
    BY <2>1, <1>5, <1>4
  <2>3. PICK g \in N : ~(d[e] <= d[g])
    BY <2>1, <2>2
  <2> QED BY <2>1, <2>3, <1>2, <1>6
<1>8. /\ \A e \in 1 .. Len(centroids) : Dist(centroids[c], v) <= Dist(centroids[e], v)
      /\ \A e \in 1 .. c - 1 : Dist(centroids[e], v) > Dist(centroids[c], v)
      /\ c \in 1 .. Len(centroids)
  <2>1. \A e \in 1 .. c - 1 : e \in N
    BY <1>1, <1>6 DEF N
  <2> QED BY <1>2, <1>6, <1>7, <2>1 DEF N
<1> QED BY <1>8 DEF Nearest

PostingOf(centroids, n, v) == [cid |-> Nearest(centroids, v), rowid |-> n, code |-> Quant[v]]
PostingsOf(centroids, column) == {PostingOf(centroids, n, column[n]) : n \in Vectored(column)}

\* ix is the vector index of a column.
VectorsOf(ix, column) ==
    /\ ix = [nprobe |-> ix.nprobe, rerank |-> ix.rerank, centroids |-> ix.centroids, posts |-> ix.posts]
    /\ ix.nprobe \in Nat /\ ix.centroids \in Seq(Int)
    /\ ix.centroids # <<>> => ix.posts = PostingsOf(ix.centroids, column)

LEMMA PutPosting ==
    ASSUME NEW column, NEW r, r \notin DOMAIN column, NEW v, NEW centroids
    PROVE  /\ PostingsOf(centroids, Put(column, r, v)) =
                PostingsOf(centroids, column) \union (IF v = NoVector THEN {} ELSE {PostingOf(centroids, r, v)})
           /\ \A p \in PostingsOf(centroids, column) : p.rowid # r
           /\ PostingOf(centroids, r, v).rowid = r
           /\ PostingOf(centroids, r, v).cid = Nearest(centroids, v)
<1> DEFINE new == Put(column, r, v)
<1>1. DOMAIN new = DOMAIN column \union {r} /\ new[r] = v /\ \A n \in DOMAIN column : new[n] = column[n]
  BY DEF Put
<1> HIDE DEF new
<1>2. \A n, x : PostingOf(centroids, n, x).rowid = n /\ PostingOf(centroids, n, x).cid = Nearest(centroids, x)
  BY DEF PostingOf
<1>3. \A p \in PostingsOf(centroids, column) : p.rowid # r
  BY <1>2 DEF PostingsOf, Vectored
<1>4. Vectored(new) = Vectored(column) \union (IF v = NoVector THEN {} ELSE {r})
  BY <1>1 DEF Vectored
<1>5. \A n \in Vectored(column) : new[n] = column[n] /\ n # r
  BY <1>1 DEF Vectored
<1>6. PostingsOf(centroids, new) =
        PostingsOf(centroids, column) \union (IF v = NoVector THEN {} ELSE {PostingOf(centroids, r, v)})
  <2>1. CASE v = NoVector
    BY <2>1, <1>4, <1>5 DEF PostingsOf
  <2>2. CASE v # NoVector
    <3>1. Vectored(new) = Vectored(column) \union {r}
      BY <2>2, <1>4
    <3>2. PostingsOf(centroids, new) = PostingsOf(centroids, column) \union {PostingOf(centroids, r, v)}
      BY <3>1, <1>1, <1>5 DEF PostingsOf
    <3> QED BY <2>2, <3>2
  <2> QED BY <2>1, <2>2
<1> QED BY <1>2, <1>3, <1>6 DEF new

WithPosts(ix, posts) == [ix EXCEPT !.posts = posts]

\* A row's vector enters the index.
LEMMA VectorAdded ==
    ASSUME NEW column, NEW ix, VectorsOf(ix, column), NEW r, r \notin DOMAIN column, NEW v
    PROVE  VectorsOf(ApplyVector(ix, r, v, TRUE), Put(column, r, v))
<1> DEFINE new == Put(column, r, v)
           after == ApplyVector(ix, r, v, TRUE)
<1>1. CASE v = NoVector \/ ix.centroids = <<>>
  <2>1. after = ix
    BY <1>1 DEF ApplyVector
  <2>2. ix.centroids # <<>> => PostingsOf(ix.centroids, new) = PostingsOf(ix.centroids, column)
    <3>1. PostingsOf(ix.centroids, new) = PostingsOf(ix.centroids, column)
            \union (IF v = NoVector THEN {} ELSE {PostingOf(ix.centroids, r, v)})
      BY PutPosting
    <3> HIDE DEF new
    <3>2. ASSUME ix.centroids # <<>> PROVE PostingsOf(ix.centroids, new) = PostingsOf(ix.centroids, column)
      <4>1. v = NoVector
        BY <1>1, <3>2
      <4> QED BY <3>1, <4>1
    <3> QED BY <3>2
  <2> HIDE DEF new, after
  <2>3. VectorsOf(after, new)
    BY <2>1, <2>2 DEF VectorsOf
  <2> QED BY <2>3 DEF new, after
<1>2. CASE ~(v = NoVector \/ ix.centroids = <<>>)
  <2> DEFINE p0 == PostingOf(ix.centroids, r, v)
             posts == {p \in ix.posts : p.cid # Nearest(ix.centroids, v) \/ p.rowid # r} \union {p0}
  <2>1. after = WithPosts(ix, posts)
    BY <1>2 DEF ApplyVector, WithPosts, PostingOf
  <2>2. ix.posts = PostingsOf(ix.centroids, column)
        /\ PostingsOf(ix.centroids, new) = ix.posts \union {p0}
        /\ \A p \in ix.posts : p.rowid # r
    BY <1>2, PutPosting DEF VectorsOf
  <2> HIDE DEF p0, new, after
  <2>3. posts = PostingsOf(ix.centroids, new)
    BY <2>2
  <2> HIDE DEF posts
  <2>4. after = [nprobe |-> ix.nprobe, rerank |-> ix.rerank, centroids |-> ix.centroids, posts |-> posts]
    BY <2>1 DEF WithPosts, VectorsOf
  <2>5. VectorsOf(after, new)
    BY <2>3, <2>4 DEF VectorsOf
  <2> QED BY <2>5 DEF new, after
<1> QED BY <1>1, <1>2

\* A row's vector leaves the index: it is found under the centroid it came to.
LEMMA VectorDropped ==
    ASSUME NEW column, NEW r, r \notin DOMAIN column, NEW v,
           NEW ix, VectorsOf(ix, Put(column, r, v))
    PROVE  VectorsOf(ApplyVector(ix, r, v, FALSE), column)
<1> DEFINE new == Put(column, r, v)
           after == ApplyVector(ix, r, v, FALSE)
<1>0. VectorsOf(ix, new)
  OBVIOUS
<1>1. CASE v = NoVector \/ ix.centroids = <<>>
  <2>1. after = ix
    BY <1>1 DEF ApplyVector
  <2>2. ix.centroids # <<>> => PostingsOf(ix.centroids, new) = PostingsOf(ix.centroids, column)
    <3>1. PostingsOf(ix.centroids, new) = PostingsOf(ix.centroids, column)
            \union (IF v = NoVector THEN {} ELSE {PostingOf(ix.centroids, r, v)})
      BY PutPosting
    <3> HIDE DEF new
    <3>2. ASSUME ix.centroids # <<>> PROVE PostingsOf(ix.centroids, new) = PostingsOf(ix.centroids, column)
      <4>1. v = NoVector
        BY <1>1, <3>2
      <4> QED BY <3>1, <4>1
    <3> QED BY <3>2
  <2> HIDE DEF new, after
  <2>3. VectorsOf(after, column)
    BY <1>0, <2>1, <2>2 DEF VectorsOf
  <2> QED BY <2>3 DEF after
<1>2. CASE ~(v = NoVector \/ ix.centroids = <<>>)
  <2> DEFINE p0 == PostingOf(ix.centroids, r, v)
             posts == {p \in ix.posts : p.cid # Nearest(ix.centroids, v) \/ p.rowid # r}
  <2>1. after = WithPosts(ix, posts)
    BY <1>2 DEF ApplyVector, WithPosts
  <2>2. /\ PostingsOf(ix.centroids, new) = PostingsOf(ix.centroids, column) \union {p0}
        /\ \A p \in PostingsOf(ix.centroids, column) : p.rowid # r
        /\ p0.rowid = r /\ p0.cid = Nearest(ix.centroids, v)
    BY <1>2, PutPosting
  <2> HIDE DEF p0, new, after
  <2>3. ix.posts = PostingsOf(ix.centroids, new)
    BY <1>0, <1>2 DEF VectorsOf
  <2>4. posts = PostingsOf(ix.centroids, column)
    BY <2>2, <2>3
  <2> HIDE DEF posts
  <2>5. after = [nprobe |-> ix.nprobe, rerank |-> ix.rerank, centroids |-> ix.centroids, posts |-> posts]
    BY <1>0, <2>1 DEF WithPosts, VectorsOf
  <2>6. VectorsOf(after, column)
    BY <1>0, <2>4, <2>5 DEF VectorsOf
  <2> QED BY <2>6 DEF after
<1> QED BY <1>1, <1>2

\* What the index of a column is built as.
LEMMA BuiltIs ==
    ASSUME NEW setting, setting.nprobe \in Nat, NEW centroids \in Seq(Int)
    PROVE  VectorsOf(Built(setting, centroids), Column)
<1> DEFINE ix == Built(setting, centroids)
<1>1. CASE Vectored(Column) = {}
  <2>1. BuildClusters(Column, centroids) = [centroids |-> <<>>, posts |-> {}]
    BY <1>1 DEF BuildClusters
  <2>2. ix = [nprobe |-> setting.nprobe, rerank |-> setting.rerank, centroids |-> <<>>, posts |-> {}]
    BY <2>1 DEF Built
  <2> HIDE DEF ix
  <2>3. VectorsOf(ix, Column)
    BY <2>2 DEF VectorsOf
  <2> QED BY <2>3 DEF ix
<1>2. CASE Vectored(Column) # {}
  <2> DEFINE posts == PostingsOf(centroids, Column)
  <2>1. BuildClusters(Column, centroids) = [centroids |-> centroids, posts |-> posts]
    BY <1>2 DEF BuildClusters, PostingsOf, PostingOf
  <2> HIDE DEF posts
  <2>2. ix = [nprobe |-> setting.nprobe, rerank |-> setting.rerank, centroids |-> centroids, posts |-> posts]
    BY <2>1 DEF Built
  <2> HIDE DEF ix
  <2>3. VectorsOf(ix, Column)
    BY <2>2 DEF VectorsOf, posts
  <2> QED BY <2>3 DEF ix
<1> QED BY <1>1, <1>2

----------------------------------------------------------------------------
(***************************************************************************)
(* The rows and what the indexes are made of.                                *)
(***************************************************************************)
FieldTokens(text, f) == {<<Normal(text[i]), f, i - 1>> : i \in Kept(text)}

\* The tokens of a row are a document.
LEMMA DocIs ==
    ASSUME NEW row, IsFiniteSet(DOMAIN row), DOMAIN row \subseteq Nat,
           \A f \in DOMAIN row : Len(row[f]) \in Nat
    PROVE  IsDoc(Doc(row))
<1> DEFINE g == [f \in DOMAIN row |-> FieldTokens(row[f], f)]
           S == {g[f] : f \in DOMAIN row}
<1>1. Doc(row) = UNION S
  BY DEF Doc, FieldTokens
<1>2. ASSUME NEW f \in DOMAIN row
      PROVE  /\ IsFiniteSet(FieldTokens(row[f], f))
             /\ \A u \in FieldTokens(row[f], f) : u = <<u[1], u[2], u[3]>> /\ u[2] \in Nat /\ u[3] \in Nat
  <2> DEFINE text == row[f]
             h == [i \in Kept(text) |-> <<Normal(text[i]), f, i - 1>>]
  <2>1. Len(text) \in Nat /\ f \in Nat
    OBVIOUS
  <2> HIDE DEF text
  <2>2. IsFiniteSet(1 .. Len(text)) /\ Kept(text) \subseteq 1 .. Len(text)
    BY <2>1, FS_Interval DEF Kept
  <2>3. IsFiniteSet(Kept(text))
    BY <2>2, FS_Subset
  <2>4. FieldTokens(text, f) = {h[i] : i \in Kept(text)}
    BY DEF FieldTokens
  <2>5. IsFiniteSet({h[i] : i \in Kept(text)})
    <3> HIDE DEF h
    <3> QED BY <2>3, FiniteImage
  <2>6. \A i \in Kept(text) : i - 1 \in Nat
    BY <2>1, <2>2
  <2>7. ASSUME NEW u \in FieldTokens(text, f)
        PROVE  u = <<u[1], u[2], u[3]>> /\ u[2] \in Nat /\ u[3] \in Nat
    <3>1. PICK i \in Kept(text) : u = <<Normal(text[i]), f, i - 1>>
      BY DEF FieldTokens
    <3>2. i - 1 \in Nat
      BY <2>6
    <3> QED BY <2>1, <3>1, <3>2
  <2> QED BY <2>4, <2>5, <2>7 DEF text
<1>3. IsFiniteSet(S)
  <2> HIDE DEF g
  <2> QED BY FiniteImage
<1>4. \A T \in S : IsFiniteSet(T)
  BY <1>2
<1>5. \A u \in UNION S : u = <<u[1], u[2], u[3]>> /\ u[2] \in Nat /\ u[3] \in Nat
  BY <1>2
<1> HIDE DEF S
<1>6. IsFiniteSet(UNION S)
  BY <1>3, <1>4, FS_UNION
<1> QED BY <1>1, <1>5, <1>6 DEF IsDoc

DocsOf(R) == [n \in DOMAIN R |-> Doc(R[n].text)]
ColumnOf(R) == [n \in DOMAIN R |-> R[n].vec]

AreRows(R) == DOMAIN R \subseteq 1 .. MaxRow /\ \A n \in DOMAIN R : R[n] \in Contents

LEMMA RowsAre ==
    ASSUME NEW R, AreRows(R)
    PROVE  /\ AreDocs(DocsOf(R))
           /\ IsFiniteSet(DOMAIN R) /\ Cardinality(DOMAIN R) \in 0 .. MaxRow
           /\ DOMAIN DocsOf(R) = DOMAIN R /\ DOMAIN ColumnOf(R) = DOMAIN R
<1>1. IsFiniteSet(1 .. MaxRow) /\ Cardinality(1 .. MaxRow) = MaxRow /\ MaxRow \in Nat
  BY StatementsAssumption, FS_Interval
<1>2. IsFiniteSet(DOMAIN R) /\ Cardinality(DOMAIN R) <= Cardinality(1 .. MaxRow)
  BY <1>1, FS_Subset DEF AreRows
<1>3. Cardinality(DOMAIN R) \in 0 .. MaxRow
  BY <1>1, <1>2, FS_CardinalityType
<1>4. \A n \in DOMAIN R : IsDoc(Doc(R[n].text))
  <2>1. TAKE n \in DOMAIN R
  <2>2. /\ IsFiniteSet(DOMAIN R[n].text) /\ DOMAIN R[n].text \subseteq Nat
        /\ \A f \in DOMAIN R[n].text : Len(R[n].text[f]) \in Nat
    BY ContentsAssumption DEF AreRows
  <2> QED BY <2>2, DocIs
<1> QED BY <1>2, <1>3, <1>4 DEF AreDocs, DocsOf, ColumnOf

LEMMA ContentDoc ==
    ASSUME NEW c \in Contents
    PROVE  IsDoc(Doc(c.text))
<1>1. /\ IsFiniteSet(DOMAIN c.text) /\ DOMAIN c.text \subseteq Nat
      /\ \A f \in DOMAIN c.text : Len(c.text[f]) \in Nat
  BY ContentsAssumption
<1> QED BY <1>1, DocIs

LEMMA PutRow ==
    ASSUME NEW R, AreRows(R), NEW n \in 1 .. MaxRow, NEW c \in Contents
    PROVE  /\ AreRows(Put(R, n, c))
           /\ DocsOf(Put(R, n, c)) = Put(DocsOf(R), n, Doc(c.text))
           /\ ColumnOf(Put(R, n, c)) = Put(ColumnOf(R), n, c.vec)
<1>1. AreRows(Put(R, n, c))
  BY DEF AreRows, Put
<1>2. DocsOf(Put(R, n, c)) = Put(DocsOf(R), n, Doc(c.text))
  BY DEF DocsOf, Put
<1>3. ColumnOf(Put(R, n, c)) = Put(ColumnOf(R), n, c.vec)
  BY DEF ColumnOf, Put
<1> QED BY <1>1, <1>2, <1>3

LEMMA DropRow ==
    ASSUME NEW R, AreRows(R), NEW n \in DOMAIN R
    PROVE  /\ AreRows(Drop(R, n)) /\ n \notin DOMAIN Drop(R, n)
           /\ DocsOf(R) = Put(DocsOf(Drop(R, n)), n, Doc(R[n].text))
           /\ ColumnOf(R) = Put(ColumnOf(Drop(R, n)), n, R[n].vec)
           /\ \A c : [R EXCEPT ![n] = c] = Put(Drop(R, n), n, c)
<1> DEFINE S == Drop(R, n)
<1>1. DOMAIN S = DOMAIN R \ {n} /\ \A m \in DOMAIN S : S[m] = R[m]
  BY DEF Drop
<1>2. \A c : [R EXCEPT ![n] = c] = Put(S, n, c)
  BY DEF Put, Drop
<1> HIDE DEF S
<1>3. AreRows(S)
  BY <1>1 DEF AreRows
<1>4. DOMAIN DocsOf(S) = DOMAIN S /\ \A m \in DOMAIN S : DocsOf(S)[m] = Doc(R[m].text)
  BY <1>1 DEF DocsOf
<1>5. DocsOf(R) = Put(DocsOf(S), n, Doc(R[n].text))
  BY <1>1, <1>4 DEF DocsOf, Put
<1>6. DOMAIN ColumnOf(S) = DOMAIN S /\ \A m \in DOMAIN S : ColumnOf(S)[m] = R[m].vec
  BY <1>1 DEF ColumnOf
<1>7. ColumnOf(R) = Put(ColumnOf(S), n, R[n].vec)
  BY <1>1, <1>6 DEF ColumnOf, Put
<1> QED BY <1>1, <1>2, <1>3, <1>5, <1>7 DEF S

----------------------------------------------------------------------------
(***************************************************************************)
(* The invariant: each index that is there is the index of the rows.         *)
(***************************************************************************)
Follow(f, v, R) ==
    /\ f # None => IndexOf(f, DocsOf(R))
    /\ v # None => VectorsOf(v, ColumnOf(R))

IInv == AreRows(rows) /\ Follow(fts, vec, rows)

\* A row enters the indexes that are there.
LEMMA RowIndexed ==
    ASSUME NEW R, AreRows(R), NEW f, NEW v, Follow(f, v, R),
           NEW n \in 1 .. MaxRow, n \notin DOMAIN R, NEW c \in Contents,
           Indexed([fts |-> f, vec |-> v], n, c)
    PROVE  AreRows(Put(R, n, c)) /\ Follow(fts', vec', Put(R, n, c))
<1>1. /\ fts' = IF f = None THEN None ELSE ApplyRow(f, n, Doc(c.text), TRUE)
      /\ vec' = IF v = None THEN None ELSE ApplyVector(v, n, c.vec, TRUE)
  BY DEF Indexed
<1>2. /\ AreRows(Put(R, n, c))
      /\ DocsOf(Put(R, n, c)) = Put(DocsOf(R), n, Doc(c.text))
      /\ ColumnOf(Put(R, n, c)) = Put(ColumnOf(R), n, c.vec)
  BY PutRow
<1>3. n \notin DOMAIN DocsOf(R) /\ n \notin DOMAIN ColumnOf(R) /\ AreDocs(DocsOf(R)) /\ IsDoc(Doc(c.text))
  BY RowsAre, ContentDoc
<1>4. ASSUME f # None PROVE IndexOf(ApplyRow(f, n, Doc(c.text), TRUE), DocsOf(Put(R, n, c)))
  BY <1>2, <1>3, <1>4, RowAdded DEF Follow
<1>5. ASSUME v # None PROVE VectorsOf(ApplyVector(v, n, c.vec, TRUE), ColumnOf(Put(R, n, c)))
  BY <1>2, <1>3, <1>5, VectorAdded DEF Follow
<1> QED BY <1>1, <1>2, <1>4, <1>5 DEF Follow

\* A row leaves the indexes that are there.
LEMMA RowUnindexed ==
    ASSUME IInv, NEW n \in DOMAIN rows
    PROVE  Follow(Unindexed(n, rows[n]).fts, Unindexed(n, rows[n]).vec, Drop(rows, n))
<1> DEFINE R == Drop(rows, n)
           f == IF fts = None THEN None ELSE ApplyRow(fts, n, Doc(rows[n].text), FALSE)
           v == IF vec = None THEN None ELSE ApplyVector(vec, n, rows[n].vec, FALSE)
<1>1. Unindexed(n, rows[n]).fts = f /\ Unindexed(n, rows[n]).vec = v
  BY DEF Unindexed
<1>2. /\ AreRows(R) /\ n \notin DOMAIN R
      /\ DocsOf(rows) = Put(DocsOf(R), n, Doc(rows[n].text))
      /\ ColumnOf(rows) = Put(ColumnOf(R), n, rows[n].vec)
  BY DropRow DEF IInv
<1> HIDE DEF R
<1>3. n \notin DOMAIN DocsOf(R) /\ n \notin DOMAIN ColumnOf(R) /\ AreDocs(DocsOf(R))
  BY <1>2, RowsAre
<1>4. IsDoc(Doc(rows[n].text))
  BY ContentDoc DEF IInv, AreRows
<1>5. ASSUME fts # None PROVE IndexOf(ApplyRow(fts, n, Doc(rows[n].text), FALSE), DocsOf(R))
  <2>1. IndexOf(fts, Put(DocsOf(R), n, Doc(rows[n].text)))
    BY <1>2, <1>5 DEF IInv, Follow
  <2> QED BY <2>1, <1>3, <1>4, RowDropped
<1>6. ASSUME vec # None PROVE VectorsOf(ApplyVector(vec, n, rows[n].vec, FALSE), ColumnOf(R))
  <2>1. VectorsOf(vec, Put(ColumnOf(R), n, rows[n].vec))
    BY <1>2, <1>6 DEF IInv, Follow
  <2> QED BY <2>1, <1>3, VectorDropped
<1>7. Follow(f, v, R)
  BY <1>5, <1>6 DEF Follow
<1> HIDE DEF f, v
<1> QED BY <1>1, <1>7 DEF R

LEMMA IInvInit == Init => IInv
  BY DEF Init, IInv, AreRows, Follow

LEMMA DocsColumn == Docs = DocsOf(rows) /\ Column = ColumnOf(rows)
  BY DEF Docs, Column, DocsOf, ColumnOf

LEMMA InsertFollows ==
    ASSUME IInv, NEW n \in 1 .. MaxRow, NEW c \in Contents, InsertRow(n, c)
    PROVE  IInv'
<1>1. /\ n \notin DOMAIN rows /\ rows' = Put(rows, n, c)
      /\ Indexed([fts |-> fts, vec |-> vec], n, c)
  BY DEF InsertRow, Has
<1>2. AreRows(Put(rows, n, c)) /\ Follow(fts', vec', Put(rows, n, c))
  BY <1>1, RowIndexed DEF IInv
<1> QED BY <1>1, <1>2 DEF IInv

LEMMA UpdateFollows ==
    ASSUME IInv, NEW n \in 1 .. MaxRow, NEW c \in Contents, UpdateRow(n, c)
    PROVE  IInv'
<1> DEFINE R == Drop(rows, n)
           ixs == Unindexed(n, rows[n])
<1>1. /\ n \in DOMAIN rows /\ rows' = [rows EXCEPT ![n] = c]
      /\ Indexed(ixs, n, c)
  BY DEF UpdateRow, Has
<1>2. AreRows(R) /\ n \notin DOMAIN R /\ rows' = Put(R, n, c)
  BY <1>1, DropRow DEF IInv
<1>3. Follow(ixs.fts, ixs.vec, R)
  BY <1>1, RowUnindexed
<1>4. Indexed([fts |-> ixs.fts, vec |-> ixs.vec], n, c)
  BY <1>1 DEF Indexed
<1> HIDE DEF R, ixs
<1>5. AreRows(Put(R, n, c)) /\ Follow(fts', vec', Put(R, n, c))
  BY <1>2, <1>3, <1>4, RowIndexed
<1> QED BY <1>2, <1>5 DEF IInv

LEMMA DeleteFollows ==
    ASSUME IInv, NEW n \in 1 .. MaxRow, DeleteRow(n)
    PROVE  IInv'
<1>1. /\ n \in DOMAIN rows /\ rows' = Drop(rows, n)
      /\ fts' = Unindexed(n, rows[n]).fts /\ vec' = Unindexed(n, rows[n]).vec
  BY DEF DeleteRow, Has
<1>2. AreRows(Drop(rows, n))
  BY <1>1, DropRow DEF IInv
<1>3. Follow(Unindexed(n, rows[n]).fts, Unindexed(n, rows[n]).vec, Drop(rows, n))
  BY <1>1, RowUnindexed
<1> QED BY <1>1, <1>2, <1>3 DEF IInv

LEMMA CreateFtsFollows ==
    ASSUME IInv, CreateFts
    PROVE  IInv'
<1>1. fts' = Backfill(DocsOf(rows)) /\ vec' = vec /\ rows' = rows
  BY DocsColumn DEF CreateFts
<1>2. IndexOf(Backfill(DocsOf(rows)), DocsOf(rows))
  BY RowsAre, BackfillIs DEF IInv
<1> QED BY <1>1, <1>2 DEF IInv, Follow

LEMMA DropFtsFollows ==
    ASSUME IInv, DropFts
    PROVE  IInv'
  BY DEF DropFts, IInv, Follow

LEMMA BuildFollows ==
    ASSUME IInv, NEW setting, setting.nprobe \in Nat, NEW c \in Training,
           vec' = Built(setting, c), UNCHANGED <<rows, fts>>
    PROVE  IInv'
<1>1. VectorsOf(Built(setting, c), ColumnOf(rows))
  BY BuiltIs, DocsColumn, StatementsAssumption
<1> QED BY <1>1 DEF IInv, Follow

LEMMA DropVectorFollows ==
    ASSUME IInv, DropVector
    PROVE  IInv'
  BY DEF DropVector, IInv, Follow

LEMMA IInvNext == IInv /\ [Next]_vars => IInv'
<1> SUFFICES ASSUME IInv, [Next]_vars PROVE IInv'
  OBVIOUS
<1>1. ASSUME NEW n \in 1 .. MaxRow, NEW c \in Contents, InsertRow(n, c) PROVE IInv'
  BY <1>1, InsertFollows
<1>2. ASSUME NEW n \in 1 .. MaxRow, NEW c \in Contents, UpdateRow(n, c) PROVE IInv'
  BY <1>2, UpdateFollows
<1>3. ASSUME NEW n \in 1 .. MaxRow, DeleteRow(n) PROVE IInv'
  BY <1>3, DeleteFollows
<1>4. CASE CreateFts
  BY <1>4, CreateFtsFollows
<1>5. CASE DropFts
  BY <1>5, DropFtsFollows
<1>6. ASSUME NEW s \in Settings, NEW c \in Training, CreateVector(s, c) PROVE IInv'
  <2>1. s.nprobe \in Nat
    BY StatementsAssumption
  <2> QED BY <1>6, <2>1, BuildFollows DEF CreateVector
<1>7. CASE DropVector
  BY <1>7, DropVectorFollows
<1>8. ASSUME NEW c \in Training, RebuildVector(c) PROVE IInv'
  <2>1. vec.nprobe \in Nat
    BY <1>8 DEF RebuildVector, IInv, Follow, VectorsOf
  <2> QED BY <1>8, <2>1, BuildFollows DEF RebuildVector
<1>9. CASE UNCHANGED vars
  BY <1>9 DEF vars, IInv
<1> QED BY <1>1, <1>2, <1>3, <1>4, <1>5, <1>6, <1>7, <1>8, <1>9 DEF Next

\* Cut no shorter than the set, the best are all of it.
LEMMA ClosestEnumerates ==
    ASSUME NEW S, IsFiniteSet(S), NEW d, \A x \in S : d[x] \in Nat, NEW n \in Nat, Cardinality(S) <= n
    PROVE  Enumerates(Closest(S, d, n), S) /\ DOMAIN Closest(S, d, n) = 1 .. Len(Closest(S, d, n))
<1> DEFINE s == Closest(S, d, n)
           m == IF Cardinality(S) < n THEN Cardinality(S) ELSE n
<1>1. Len(s) = m /\ Enumerates(s, S)
  BY ClosestIs
<1>2. DOMAIN s = 1 .. m
  BY DEF Closest
<1> HIDE DEF s, m
<1> QED BY <1>1, <1>2 DEF s

----------------------------------------------------------------------------
(***************************************************************************)
(* What the invariant gives the readers of the indexes.                      *)
(***************************************************************************)
\* The counters, the lengths and the postings of the full-text index.
Exactly(ix, docs, terms) ==
    /\ DOMAIN ix.df = terms
    /\ \A t \in terms :
          /\ ix.df[t] = Cardinality({n \in DOMAIN docs : t \in TermsOf(docs[n])})
          /\ ix.df[t] \in Nat /\ ix.df[t] # 0 /\ ix.df[t] <= Cardinality(DOMAIN docs)
          /\ TermPostings(ix, t) =
                {<<x[1], x[2][2], x[2][3]>> : x \in {y \in Tokens(docs) : y[2][1] = t}}
    /\ \A n \in DOMAIN ix.doclen : ix.doclen[n] \in Nat \ {0}
    /\ \A n \in DOMAIN docs : At(ix.doclen, n) = Cardinality(docs[n])
    /\ \A k \in DOMAIN ix.posts : k[2] \in DOMAIN docs

LEMMA IndexIsExact ==
    ASSUME NEW docs, AreDocs(docs), NEW ix, IndexOf(ix, docs)
    PROVE  Exactly(ix, docs, UNION {TermsOf(docs[n]) : n \in DOMAIN docs})
<1> DEFINE terms == UNION {TermsOf(docs[n]) : n \in DOMAIN docs}
           Of(t) == {n \in DOMAIN docs : t \in TermsOf(docs[n])}
<1>1. TermsOf(Cells(docs)) = terms /\ \A t : RowsWith(Cells(docs), t) = Of(t)
  BY CellsAre
<1>2. DOMAIN ix.df = terms /\ \A t \in terms : ix.df[t] = Cardinality(Of(t))
  <2>1. /\ DOMAIN ix.df = TermsOf(Cells(docs))
        /\ \A t \in TermsOf(Cells(docs)) : ix.df[t] = Cardinality(RowsWith(Cells(docs), t))
    BY DEF IndexOf, Holds, Frequencies
  <2> HIDE DEF terms, Of
  <2> QED BY <1>1, <2>1
<1>3. ASSUME NEW t \in terms
      PROVE  Cardinality(Of(t)) \in Nat /\ Cardinality(Of(t)) # 0 /\ Cardinality(Of(t)) <= Cardinality(DOMAIN docs)
  <2>1. Of(t) # {} /\ Of(t) \subseteq DOMAIN docs
    OBVIOUS
  <2>2. IsFiniteSet(Of(t)) /\ Cardinality(Of(t)) <= Cardinality(DOMAIN docs)
    BY <2>1, FS_Subset DEF AreDocs
  <2> HIDE DEF Of
  <2> QED BY <2>1, <2>2, FS_CardinalityType, FS_EmptySet
<1>4. ASSUME NEW t \in terms
      PROVE  TermPostings(ix, t) = {<<x[1], x[2][2], x[2][3]>> : x \in {y \in Tokens(docs) : y[2][1] = t}}
  <2>1. t \in TermsOf(Cells(docs))
    <3> HIDE DEF terms
    <3> QED BY <1>1
  <2> QED BY <2>1, TermPostingsIs
<1>5. /\ DOMAIN ix.doclen = {n \in DOMAIN docs : docs[n] # {}}
      /\ \A n \in DOMAIN ix.doclen : ix.doclen[n] = Cardinality(docs[n])
  BY DEF IndexOf, Counts
<1>6. \A n \in DOMAIN ix.doclen : ix.doclen[n] \in Nat \ {0}
  <2>1. TAKE n \in DOMAIN ix.doclen
  <2>2. IsFiniteSet(docs[n]) /\ docs[n] # {}
    BY <1>5 DEF AreDocs, IsDoc
  <2>3. Cardinality(docs[n]) \in Nat /\ Cardinality(docs[n]) # 0
    BY <2>2, FS_CardinalityType, FS_EmptySet
  <2> QED BY <2>3, <1>5
<1>7. \A n \in DOMAIN docs : At(ix.doclen, n) = Cardinality(docs[n])
  BY <1>5, FS_EmptySet DEF At
<1>8. \A k \in DOMAIN ix.posts : k[2] \in DOMAIN docs
  <2>1. TAKE k \in DOMAIN ix.posts
  <2>2. PICK c \in Cells(docs) : k = <<ix.dict[c[1]], c[2]>>
    BY DEF IndexOf, Holds, Postings
  <2> QED BY <2>2, CellsAre
<1> HIDE DEF Of
<1>9. \A t \in terms : /\ ix.df[t] = Cardinality(Of(t))
                       /\ ix.df[t] \in Nat /\ ix.df[t] # 0 /\ ix.df[t] <= Cardinality(DOMAIN docs)
  <2> HIDE DEF terms
  <2> QED BY <1>2, <1>3
<1>10. Exactly(ix, docs, terms)
  <2> HIDE DEF terms
  <2> QED BY <1>2, <1>4, <1>6, <1>7, <1>8, <1>9, Zenon DEF Of, Exactly
<1> QED BY <1>10

LEMMA StatsFollow == IInv => StatsExact
<1> SUFFICES ASSUME IInv PROVE StatsExact
  OBVIOUS
<1>1. /\ Docs = DocsOf(rows) /\ DOMAIN Docs = DOMAIN rows /\ AreDocs(Docs)
      /\ Cardinality(DOMAIN rows) \in 0 .. MaxRow /\ DOMAIN rows \subseteq 1 .. MaxRow
  BY DocsColumn, RowsAre DEF IInv, AreRows
<1>2. ASSUME fts # None PROVE IndexOf(fts, Docs)
  BY <1>1, <1>2 DEF IInv, Follow
<1> DEFINE terms == UNION {TermsOf(Docs[n]) : n \in DOMAIN rows}
<1>3. ASSUME fts # None
      PROVE  /\ DOMAIN fts.df = terms
             /\ \A t \in terms :
                   /\ fts.df[t] = Cardinality({n \in DOMAIN rows : t \in TermsOf(Docs[n])})
                   /\ fts.df[t] \in 1 .. MaxRow
                   /\ TermPostings(fts, t) =
                         {<<x[1], x[2][2], x[2][3]>> : x \in {y \in Tokens(Docs) : y[2][1] = t}}
             /\ \A n \in DOMAIN fts.doclen : fts.doclen[n] \in Nat \ {0}
             /\ \A n \in DOMAIN rows : At(fts.doclen, n) = Cardinality(Docs[n])
             /\ \A k \in DOMAIN fts.posts : k[2] \in DOMAIN rows
  <2>1. IndexOf(fts, Docs)
    BY <1>2, <1>3
  <2> HIDE DEF Docs
  <2>2. Exactly(fts, Docs, UNION {TermsOf(Docs[n]) : n \in DOMAIN Docs})
    BY <1>1, <2>1, IndexIsExact
  <2>3. DOMAIN Docs = DOMAIN rows /\ Exactly(fts, Docs, terms)
    BY <1>1, <2>2
  <2>4. \A t \in terms : fts.df[t] \in 1 .. MaxRow
    <3>1. \A t \in terms : fts.df[t] \in Nat /\ fts.df[t] # 0 /\ fts.df[t] <= Cardinality(DOMAIN rows)
      <4> HIDE DEF terms
      <4> QED BY <2>3 DEF Exactly
    <3> HIDE DEF terms
    <3> QED BY <3>1, <1>1, StatementsAssumption
  <2>5. /\ DOMAIN fts.df = terms
        /\ \A t \in terms :
              /\ fts.df[t] = Cardinality({n \in DOMAIN rows : t \in TermsOf(Docs[n])})
              /\ TermPostings(fts, t) =
                    {<<x[1], x[2][2], x[2][3]>> : x \in {y \in Tokens(Docs) : y[2][1] = t}}
        /\ \A n \in DOMAIN fts.doclen : fts.doclen[n] \in Nat \ {0}
        /\ \A n \in DOMAIN rows : At(fts.doclen, n) = Cardinality(Docs[n])
        /\ \A k \in DOMAIN fts.posts : k[2] \in DOMAIN rows
    <3> HIDE DEF terms
    <3> QED BY <2>3, Zenon DEF Exactly
  <2> HIDE DEF terms
  <2> QED BY <2>4, <2>5, Zenon
<1>4. ASSUME fts # None
      PROVE  /\ fts.docs = Cardinality(DOMAIN rows) /\ fts.total = Cardinality(Tokens(Docs))
             /\ fts.total \in Nat
  <2>1. fts.docs = Cardinality(DOMAIN Docs) /\ fts.total = Cardinality(Tokens(Docs))
    BY <1>2, <1>4 DEF IndexOf, Counts
  <2>2. Cardinality(Tokens(Docs)) \in Nat
    BY <1>1, CellsFinite, FS_CardinalityType
  <2> QED BY <1>1, <2>1, <2>2
<1>5. ASSUME fts # None
      PROVE  /\ \A s, t \in DOMAIN fts.dict : fts.dict[s] = fts.dict[t] => s = t
             /\ \A t \in DOMAIN fts.dict : fts.dict[t] < fts.next
  BY <1>2, <1>5 DEF IndexOf, Holds, Dictionary
<1>6. TypeOK
  <2>1. ASSUME fts # None
        PROVE  /\ \A t \in DOMAIN fts.df : fts.df[t] \in 1 .. MaxRow
               /\ \A n \in DOMAIN fts.doclen : fts.doclen[n] \in Nat \ {0}
               /\ fts.docs \in 0 .. MaxRow /\ fts.total \in Nat
    <3> HIDE DEF terms
    <3> QED BY <2>1, <1>1, <1>3, <1>4
  <2> QED BY <1>1, <1>5, <2>1 DEF TypeOK
<1> QED BY <1>3, <1>4, <1>6 DEF StatsExact

\* What VectorSearch finds with centroids, probe of them read.
Searched(ix, query, probe, limit) ==
    LET near == ToSet(Closest(1 .. Len(ix.centroids),
                              [c \in 1 .. Len(ix.centroids) |-> Dist(ix.centroids[c], query)],
                              probe))
        hits == {p \in ix.posts : p.cid \in near}
    IN  Closest({p.rowid : p \in hits},
                [n \in {p.rowid : p \in hits} |-> Dist((CHOOSE p \in hits : p.rowid = n).code, query)],
                limit)

\* Probed in full and cut no shorter than the table, the index gives the exact plan.
LEMMA FullProbe ==
    ASSUME NEW column, IsFiniteSet(DOMAIN column), Cardinality(DOMAIN column) <= MaxRow,
           \A n \in Vectored(column) : column[n] \in Int /\ Quant[column[n]] \in Int,
           NEW ix, VectorsOf(ix, column), ix.centroids # <<>>,
           ix.nprobe >= Len(ix.centroids), ~ix.rerank, NEW v \in Int, NEW k
    PROVE  VectorPlan(ix, column, v, k, MaxRow) = KnnExact(column, v, k)
<1> DEFINE L == Len(ix.centroids)
           N == 1 .. L
           far == [c \in N |-> Dist(ix.centroids[c], v)]
           near == ToSet(Closest(N, far, L))
           V == Vectored(column)
           hits == {p \in ix.posts : p.cid \in near}
           coded == [n \in {p.rowid : p \in hits} |-> Dist((CHOOSE p \in hits : p.rowid = n).code, v)]
           short == Closest({p.rowid : p \in hits}, coded, MaxRow)
<1>1. /\ L \in Nat /\ ix.centroids \in Seq(Int) /\ ix.nprobe \in Nat
      /\ \A c \in N : ix.centroids[c] \in Int
  BY DEF VectorsOf
<1>2. near = N
  <2>1. \A c \in N : far[c] \in Nat
    BY <1>1, DistNat
  <2>2. IsFiniteSet(N) /\ Cardinality(N) = L
    BY <1>1, FS_Interval
  <2> HIDE DEF N, far, L
  <2>3. Enumerates(Closest(N, far, L), N) /\ DOMAIN Closest(N, far, L) = 1 .. Len(Closest(N, far, L))
    BY <1>1, <2>1, <2>2, ClosestEnumerates
  <2> QED BY <2>3 DEF Enumerates, ToSet
<1>3. ix.posts = PostingsOf(ix.centroids, column)
  BY DEF VectorsOf
<1>4. \A n \in V : Nearest(ix.centroids, column[n]) \in N
  BY <1>1, NearestIs
<1>5. \A n \in V : LET p == PostingOf(ix.centroids, n, column[n]) IN
                     p.rowid = n /\ p.cid \in N /\ p.code = Quant[column[n]]
  <2> HIDE DEF V, N
  <2> QED BY <1>4 DEF PostingOf
<1>6. hits = {PostingOf(ix.centroids, n, column[n]) : n \in V}
  <2>1. PostingsOf(ix.centroids, column) = {PostingOf(ix.centroids, n, column[n]) : n \in V}
    BY DEF PostingsOf
  <2> HIDE DEF near, N, V
  <2> QED BY <1>2, <1>3, <1>5, <2>1
<1>7. {p.rowid : p \in hits} = V
  <2> HIDE DEF hits, V
  <2> QED BY <1>5, <1>6
<1>8. \A n \in V : coded[n] \in Nat
  <2> HIDE DEF hits
  <2>1. TAKE n \in V
  <2>2. \E p \in hits : p.rowid = n
    <3> HIDE DEF V
    <3> QED BY <1>5, <1>6
  <2>3. \A p \in hits : p.rowid = n => p.code = Quant[column[n]]
    <3> HIDE DEF V
    <3> QED BY <1>5, <1>6
  <2>4. (CHOOSE p \in hits : p.rowid = n).code = Quant[column[n]]
    BY <2>2, <2>3
  <2>5. coded[n] = Dist(Quant[column[n]], v)
    <3> HIDE DEF V
    <3> QED BY <1>7, <2>4
  <2> QED BY <2>5, DistNat
<1>9. IsFiniteSet(V) /\ Cardinality(V) <= MaxRow /\ Cardinality(V) \in Nat /\ MaxRow \in Nat
  <2>1. IsFiniteSet(V) /\ Cardinality(V) <= Cardinality(DOMAIN column)
    BY FS_Subset DEF Vectored
  <2> HIDE DEF V
  <2> QED BY <2>1, FS_CardinalityType, StatementsAssumption
<1>10. ToSet(short) = V
  <2> HIDE DEF coded, V, hits
  <2>1. Enumerates(Closest(V, coded, MaxRow), V)
        /\ DOMAIN Closest(V, coded, MaxRow) = 1 .. Len(Closest(V, coded, MaxRow))
    BY <1>8, <1>9, ClosestEnumerates
  <2> DEFINE q == Closest(V, coded, MaxRow)
  <2>2. short = q
    BY <1>7
  <2>3. Enumerates(q, V) /\ DOMAIN q = 1 .. Len(q)
    BY <2>1
  <2> HIDE DEF q, short
  <2>4. ToSet(q) = V
    BY <2>3 DEF Enumerates, ToSet
  <2> QED BY <2>2, <2>4
<1>11. VectorSearch(ix, v, ix.nprobe, MaxRow) = short
  <2>1. (IF ix.nprobe > L THEN L ELSE ix.nprobe) = L
    BY <1>1
  <2>2. VectorSearch(ix, v, ix.nprobe, MaxRow)
          = Searched(ix, v, IF ix.nprobe > L THEN L ELSE ix.nprobe, MaxRow)
    BY DEF VectorSearch, Searched
  <2>3. Searched(ix, v, L, MaxRow) = short
    BY DEF Searched
  <2> HIDE DEF short
  <2> QED BY <2>1, <2>2, <2>3
<1>12. {n \in ToSet(short) : n \in V} = V
  <2> HIDE DEF short, V
  <2> QED BY <1>10
<1>13. VectorPlan(ix, column, v, k, MaxRow) =
          LET found == {n \in ToSet(short) : n \in V} IN Closest(found, [n \in found |-> Dist(column[n], v)], k)
  <2> HIDE DEF short
  <2> QED BY <1>11, Zenon DEF VectorPlan
<1> HIDE DEF short
<1> QED BY <1>12, <1>13 DEF KnnExact

LEMMA VectorsFollow == IInv => VectorsExact
<1> SUFFICES ASSUME IInv PROVE VectorsExact
  OBVIOUS
<1>1. /\ Column = ColumnOf(rows) /\ DOMAIN Column = DOMAIN rows
      /\ IsFiniteSet(DOMAIN rows) /\ Cardinality(DOMAIN rows) <= MaxRow
  BY DocsColumn, RowsAre, StatementsAssumption DEF IInv
<1>2. ASSUME vec # None PROVE VectorsOf(vec, Column)
  BY <1>1, <1>2 DEF IInv, Follow
<1>3. \A n \in Vectored(Column) : Column[n] = rows[n].vec /\ Column[n] \in Int /\ Quant[Column[n]] \in Int
  <2>1. TAKE n \in Vectored(Column)
  <2>2. n \in DOMAIN rows /\ Column[n] = rows[n].vec /\ Column[n] # NoVector
    BY DEF Vectored, Column
  <2>3. rows[n].vec = NoVector \/ (rows[n].vec \in Int /\ Quant[rows[n].vec] \in Int)
    BY <2>2, ContentsAssumption DEF IInv, AreRows
  <2> QED BY <2>2, <2>3
<1>4. PostingsExact
  <2>1. SUFFICES ASSUME vec # None, vec.centroids # <<>>
                 PROVE  vec.posts = {[cid |-> Nearest(vec.centroids, rows[n].vec), rowid |-> n, code |-> Quant[rows[n].vec]] :
                                        n \in Vectored(Column)}
    BY DEF PostingsExact
  <2>2. vec.posts = PostingsOf(vec.centroids, Column)
    BY <1>2, <2>1 DEF VectorsOf
  <2> HIDE DEF Column
  <2> QED BY <1>3, <2>2 DEF PostingsOf, PostingOf
<1>5. AllProbesExact
  <2>1. SUFFICES ASSUME vec # None, vec.centroids # <<>>, vec.nprobe >= Len(vec.centroids), ~vec.rerank,
                        NEW v \in Targets, NEW k \in 1 .. 2
                 PROVE  VectorPlan(vec, Column, v, k, MaxRow) = KnnExact(Column, v, k)
    BY DEF AllProbesExact
  <2>2. v \in Int
    BY StatementsAssumption
  <2> HIDE DEF Column
  <2> QED BY <1>1, <1>2, <1>3, <2>1, <2>2, FullProbe
<1> QED BY <1>4, <1>5 DEF VectorsExact

----------------------------------------------------------------------------
(***************************************************************************)
(* The theorems.                                                             *)
(***************************************************************************)
\* Each index that is there is the index of the rows, after any sequence of writes
\* and index statements: what apply_fts_row and apply_vector_row take out is what
\* the row put in, and what backfill_fts_index and build_vector_clusters make in one
\* go is what the rows would have made one by one.
THEOREM IndexesFollowRows == Spec => []IInv
<1>1. Init => IInv
  BY IInvInit
<1>2. IInv /\ [Next]_vars => IInv'
  BY IInvNext
<1> QED BY <1>1, <1>2, PTL DEF Spec

\* The statistics BM25 reads (documents, tokens, document frequencies, lengths) and
\* the postings of every term are those of the rows that are there.
THEOREM StatisticsAreExact == Spec => []StatsExact
<1>1. IInv => StatsExact
  BY StatsFollow
<1> QED BY <1>1, IndexesFollowRows, PTL

\* A row with a vector has one posting, under the centroid nearest to it, and with
\* every cluster probed vector_plan answers as knn_exact does.
THEOREM VectorsAreExact == Spec => []VectorsExact
<1>1. IInv => VectorsExact
  BY VectorsFollow
<1> QED BY <1>1, IndexesFollowRows, PTL
=============================================================================
