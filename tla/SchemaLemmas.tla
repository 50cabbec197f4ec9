---------------------------- MODULE SchemaLemmas ----------------------------
(***************************************************************************)
(* Lemmas about the schema of one table: where its columns are, what its   *)
(* record reads back as, and what CREATE INDEX, DROP INDEX and every       *)
(* ALTER TABLE of Catalog leave of it, for any columns and indexes.        *)
(***************************************************************************)
EXTENDS Catalog, NatLemmas, FiniteSetTheorems, SequenceTheorems

----------------------------------------------------------------------------
(***************************************************************************)
(* Positions of columns.                                                   *)
(***************************************************************************)
\* A position chosen among some is one of them.
LEMMA MinOfPositions ==
    ASSUME NEW n \in Nat, NEW I \in SUBSET (1 .. n), I # {}
    PROVE  Min(I) \in I
  BY I \in SUBSET Nat, MinOfNat

\* The first column of a name.
LEMMA PositionIs ==
    ASSUME NEW def, Len(def.columns) \in Nat, NEW name
    PROVE  /\ Position(def, name) \in 0 .. Len(def.columns)
           /\ Position(def, name) = 0 => \A i \in 1 .. Len(def.columns) : def.columns[i].name # name
           /\ Position(def, name) # 0 => def.columns[Position(def, name)].name = name
<1> DEFINE I == {i \in 1 .. Len(def.columns) : def.columns[i].name = name}
<1>a. I \in SUBSET (1 .. Len(def.columns)) /\ Len(def.columns) \in Nat
  OBVIOUS
<1>1. Position(def, name) = IF I # {} THEN Min(I) ELSE 0
  BY DEF Position, SelectInSeq
<1>2. I # {} => Min(I) \in I
  BY <1>a, MinOfPositions
<1> QED BY <1>1, <1>2

\* The first visible column of a name; it is the only one.
LEMMA VisiblePositionIs ==
    ASSUME NEW def, IsDef(def), NEW name
    PROVE  /\ VisiblePosition(def, name) \in 0 .. Len(def.columns)
           /\ \A i \in Visible(def) : def.columns[i].name = name => VisiblePosition(def, name) = i
           /\ VisiblePosition(def, name) # 0 =>
                 /\ VisiblePosition(def, name) \in Visible(def)
                 /\ def.columns[VisiblePosition(def, name)].name = name
<1> DEFINE I == {i \in 1 .. Len(def.columns) :
                    ~def.columns[i].dropped /\ def.columns[i].name = name}
<1>a. I \in SUBSET (1 .. Len(def.columns)) /\ Len(def.columns) \in Nat
  BY DEF IsDef
<1>1. VisiblePosition(def, name) = IF I # {} THEN Min(I) ELSE 0
  BY DEF VisiblePosition, SelectInSeq
<1>2. I # {} => Min(I) \in I
  BY <1>a, MinOfPositions
<1>3. I = {i \in Visible(def) : def.columns[i].name = name}
  BY DEF Visible
<1>4. \A i, j \in Visible(def) : def.columns[i].name = def.columns[j].name => i = j
  BY DEF IsDef
<1>5. \A i \in I : i \in 1 .. Len(def.columns) /\ i # 0
  BY <1>a
<1>6. \A i \in I : i \in Visible(def) /\ def.columns[i].name = name
  BY <1>3
<1>7. \A i \in Visible(def) : def.columns[i].name = name => i \in I
  BY <1>3
<1> HIDE DEF I
<1>8. CASE I = {}
  <2>1. VisiblePosition(def, name) = 0
    BY <1>1, <1>8
  <2> QED BY <2>1, <1>7, <1>8, <1>a
<1>9. CASE I # {}
  <2>1. VisiblePosition(def, name) \in I
    BY <1>1, <1>2, <1>9
  <2>2. \A i \in I : VisiblePosition(def, name) = i
    BY <2>1, <1>6, <1>4
  <2> DEFINE p == VisiblePosition(def, name)
  <2>3. p \in 1 .. Len(def.columns) /\ p \in Visible(def) /\ def.columns[p].name = name
    BY <2>1, <1>5, <1>6
  <2>4. p \in 0 .. Len(def.columns)
    BY <2>3
  <2>5. \A i \in Visible(def) : def.columns[i].name = name => p = i
    BY <2>2, <1>7
  <2> QED BY <2>3, <2>4, <2>5
<1> QED BY <1>8, <1>9

LEMMA SpecPositionIs ==
    ASSUME NEW spec, Len(spec.columns) \in Nat, NEW name
    PROVE  /\ SpecPosition(spec, name) \in 0 .. Len(spec.columns)
           /\ SpecPosition(spec, name) # 0 => spec.columns[SpecPosition(spec, name)].name = name
<1> DEFINE I == {i \in 1 .. Len(spec.columns) : spec.columns[i].name = name}
<1>a. I \in SUBSET (1 .. Len(spec.columns)) /\ Len(spec.columns) \in Nat
  OBVIOUS
<1>1. SpecPosition(spec, name) = IF I # {} THEN Min(I) ELSE 0
  BY DEF SpecPosition, SelectInSeq
<1>2. I # {} => Min(I) \in I
  BY <1>a, MinOfPositions
<1> QED BY <1>1, <1>2

----------------------------------------------------------------------------
(***************************************************************************)
(* Records of schemas.                                                     *)
(***************************************************************************)
\* What is written is read back.
LEMMA DecodeEncode ==
    ASSUME NEW def, IsDef(def)
    PROVE  DecodeDef(EncodeDef(def)) = def
<1> DEFINE rec == EncodeDef(def)
           n == Len(def.columns)
<1>1. /\ rec.version = 10 /\ rec.id = def.id /\ rec.alias = def.alias
      /\ rec.columns = def.columns /\ rec.indexes = def.indexes /\ rec.fks = def.fks
      /\ rec.order = IF def.order = Identity(n) THEN <<>> ELSE def.order
  BY DEF EncodeDef
<1>2. /\ def.columns \in Seq(ColumnDefs) /\ n \in 1 .. MaxColumns /\ n \in Nat /\ n <= MaxColumns
      /\ IsPermutation(def.order, n) /\ def.order \in Seq(Nat)
      /\ def.alias <= n
  BY BoundsAssumption DEF IsDef
<1> DEFINE columns == [i \in 1 .. Len(rec.columns) |->
                         IF rec.version >= 5 THEN rec.columns[i]
                         ELSE [rec.columns[i] EXCEPT !.dropped = FALSE]]
           order == IF rec.version < 3 \/ rec.order = <<>>
                    THEN Identity(Len(columns)) ELSE rec.order
<1>3. columns = def.columns
  <2>1. columns = [i \in 1 .. n |-> def.columns[i]]
    BY <1>1
  <2>2. def.columns = [i \in 1 .. n |-> def.columns[i]]
    BY <1>2
  <2> HIDE DEF columns
  <2> QED BY <2>1, <2>2
<1>4. order = def.order
  <2>1. def.order # <<>>
    BY <1>2 DEF IsPermutation
  <2> HIDE DEF rec, columns
  <2> QED BY <1>1, <1>3, <2>1
<1>5. \A i \in 1 .. Len(def.indexes) :
         /\ def.indexes[i].columns # <<>>
         /\ ToSet(def.indexes[i].columns) \subseteq 1 .. n
  BY DEF IsDef, ToSet
<1>6. def = [id |-> def.id, alias |-> def.alias, columns |-> def.columns,
             indexes |-> def.indexes, order |-> def.order, fks |-> def.fks]
  BY DEF IsDef
<1> DEFINE indexes == IF rec.version >= 9 THEN rec.indexes
                      ELSE SelectSeq(rec.indexes,
                             LAMBDA ix : ix.kind = "index" \/ (ix.kind = "fts" /\ rec.version = 8))
<1>7. indexes = def.indexes
  BY <1>1
<1> DEFINE fks == Section(rec, 4, rec.fks, <<>>)
<1>8. fks = def.fks
  BY <1>1 DEF Section
<1>9. DecodeDef(rec) =
         IF /\ rec.version \in 2 .. 10
            /\ Len(columns) <= MaxColumns
            /\ IsPermutation(order, Len(columns))
            /\ rec.alias <= Len(columns)
            /\ \A i \in 1 .. Len(indexes) :
                  /\ indexes[i].columns # <<>>
                  /\ ToSet(indexes[i].columns) \subseteq 1 .. Len(columns)
            /\ FksInRange(fks, Len(columns))
         THEN [id |-> rec.id, alias |-> rec.alias, columns |-> columns,
               indexes |-> indexes, order |-> order, fks |-> fks]
         ELSE Corrupt
  BY DEF DecodeDef
<1>10. FksInRange(def.fks, n)
  BY DEF IsDef
<1> HIDE DEF rec, columns, order, indexes, fks
<1> QED BY <1>1, <1>2, <1>3, <1>4, <1>5, <1>6, <1>7, <1>8, <1>9, <1>10 DEF rec

----------------------------------------------------------------------------
(***************************************************************************)
(* Sequences with one element less or more.                                *)
(***************************************************************************)
LEMMA RemoveAtIs ==
    ASSUME NEW S, NEW s \in Seq(S), NEW p \in 1 .. Len(s)
    PROVE  /\ RemoveAt(s, p) \in Seq(S)
           /\ Len(RemoveAt(s, p)) = Len(s) - 1
           /\ \A i \in 1 .. Len(s) - 1 :
                 RemoveAt(s, p)[i] = IF i < p THEN s[i] ELSE s[i + 1]
<1> DEFINE a == SubSeq(s, 1, p - 1)
           b == SubSeq(s, p + 1, Len(s))
<1>1. Len(s) \in Nat /\ \A i \in 1 .. Len(s) : s[i] \in S
  OBVIOUS
<1>2. a \in Seq(S) /\ Len(a) = p - 1 /\ \A i \in 1 .. p - 1 : a[i] = s[i]
  BY <1>1, SubSeqProperties
<1>3. b \in Seq(S) /\ Len(b) = Len(s) - p /\ \A i \in 1 .. Len(s) - p : b[i] = s[p + i]
  <2>1. \A i \in p + 1 .. Len(s) : s[i] \in S
    BY <1>1
  <2>2. \A i \in 1 .. Len(s) - (p + 1) + 1 : b[i] = s[(p + 1) + i - 1]
    BY <2>1, <1>1, SubSeqProperties
  <2>3. b \in Seq(S) /\ Len(b) = IF p + 1 <= Len(s) THEN Len(s) - (p + 1) + 1 ELSE 0
    BY <2>1, <1>1, SubSeqProperties
  <2> HIDE DEF b
  <2> QED BY <2>2, <2>3, <1>1
<1>4. RemoveAt(s, p) = a \o b
  BY DEF RemoveAt
<1> HIDE DEF a, b
<1>5. /\ a \o b \in Seq(S) /\ Len(a \o b) = Len(a) + Len(b)
      /\ \A i \in 1 .. Len(a) + Len(b) :
            (a \o b)[i] = IF i <= Len(a) THEN a[i] ELSE b[i - Len(a)]
  BY <1>2, <1>3, ConcatProperties
<1>6. ASSUME NEW i \in 1 .. Len(s) - 1
      PROVE  (a \o b)[i] = IF i < p THEN s[i] ELSE s[i + 1]
  <2>1. (a \o b)[i] = IF i <= p - 1 THEN a[i] ELSE b[i - (p - 1)]
    BY <1>1, <1>2, <1>3, <1>5
  <2>2. CASE i < p
    BY <2>1, <2>2, <1>1, <1>2
  <2>3. CASE ~(i < p)
    <3> DEFINE j == i - (p - 1)
    <3>1. j \in 1 .. Len(s) - p /\ p + j = i + 1
      BY <2>3, <1>1
    <3>2. b[j] = s[i + 1]
      <4> HIDE DEF j
      <4> QED BY <3>1, <1>3
    <3> QED BY <2>1, <2>3, <3>2, <1>1
  <2> QED BY <2>2, <2>3
<1>7. Len(a) + Len(b) = Len(s) - 1
  BY <1>1, <1>2, <1>3
<1> QED BY <1>4, <1>5, <1>6, <1>7

LEMMA InsertAtIs ==
    ASSUME NEW s \in Seq(Nat), NEW at \in 1 .. Len(s) + 1, NEW e \in Nat
    PROVE  /\ InsertAt(s, at, e) \in Seq(Nat)
           /\ Len(InsertAt(s, at, e)) = Len(s) + 1
           /\ \A i \in 1 .. at - 1 : InsertAt(s, at, e)[i] = s[i]
           /\ InsertAt(s, at, e)[at] = e
           /\ \A i \in at + 1 .. Len(s) + 1 : InsertAt(s, at, e)[i] = s[i - 1]
<1> DEFINE a == SubSeq(s, 1, at - 1)
           b == SubSeq(s, at, Len(s))
<1>1. Len(s) \in Nat /\ \A i \in 1 .. Len(s) : s[i] \in Nat
  OBVIOUS
<1>2. a \in Seq(Nat) /\ Len(a) = at - 1 /\ \A i \in 1 .. at - 1 : a[i] = s[i]
  <2>1. \A i \in 1 .. at - 1 : s[i] \in Nat
    BY <1>1
  <2>2. \A i \in 1 .. (at - 1) - 1 + 1 : a[i] = s[1 + i - 1]
    BY <2>1, <1>1, SubSeqProperties
  <2>3. a \in Seq(Nat) /\ Len(a) = IF 1 <= at - 1 THEN (at - 1) - 1 + 1 ELSE 0
    BY <2>1, <1>1, SubSeqProperties
  <2> HIDE DEF a
  <2> QED BY <2>2, <2>3, <1>1
<1>3. b \in Seq(Nat) /\ Len(b) = Len(s) - at + 1 /\ \A i \in 1 .. Len(s) - at + 1 : b[i] = s[at + i - 1]
  <2>1. \A i \in at .. Len(s) : s[i] \in Nat
    BY <1>1
  <2>2. \A i \in 1 .. Len(s) - at + 1 : b[i] = s[at + i - 1]
    BY <2>1, <1>1, SubSeqProperties
  <2>3. b \in Seq(Nat) /\ Len(b) = IF at <= Len(s) THEN Len(s) - at + 1 ELSE 0
    BY <2>1, <1>1, SubSeqProperties
  <2> HIDE DEF b
  <2> QED BY <2>2, <2>3, <1>1
<1> DEFINE m == <<e>>
<1>4. m \in Seq(Nat) /\ Len(m) = 1 /\ m[1] = e
  OBVIOUS
<1>5. InsertAt(s, at, e) = (a \o m) \o b
  BY DEF InsertAt
<1> HIDE DEF a, b, m
<1>6. /\ a \o m \in Seq(Nat) /\ Len(a \o m) = at
      /\ \A i \in 1 .. at : (a \o m)[i] = IF i <= at - 1 THEN a[i] ELSE m[i - (at - 1)]
  <2>1. /\ a \o m \in Seq(Nat) /\ Len(a \o m) = Len(a) + Len(m)
        /\ \A i \in 1 .. Len(a) + Len(m) :
              (a \o m)[i] = IF i <= Len(a) THEN a[i] ELSE m[i - Len(a)]
    BY <1>2, <1>4, ConcatProperties
  <2>2. Len(a) + Len(m) = at
    BY <1>1, <1>2, <1>4
  <2> QED BY <2>1, <2>2, <1>2
<1> DEFINE am == a \o m
<1> HIDE DEF am
<1>7. /\ am \o b \in Seq(Nat) /\ Len(am \o b) = Len(am) + Len(b)
      /\ \A i \in 1 .. Len(am) + Len(b) :
            (am \o b)[i] = IF i <= Len(am) THEN am[i] ELSE b[i - Len(am)]
  <2>1. am \in Seq(Nat)
    BY <1>6 DEF am
  <2> QED BY <1>3, <2>1, ConcatProperties
<1>8. Len(am) = at /\ \A i \in 1 .. at : am[i] = IF i <= at - 1 THEN a[i] ELSE m[i - (at - 1)]
  BY <1>6 DEF am
<1>9. /\ \A i \in 1 .. at : (am \o b)[i] = am[i]
      /\ \A i \in at + 1 .. Len(s) + 1 : (am \o b)[i] = b[i - at]
  <2>1. Len(am) + Len(b) = Len(s) + 1 /\ Len(am) = at
    BY <1>1, <1>3, <1>8
  <2>2. ASSUME NEW i \in 1 .. at PROVE (am \o b)[i] = am[i]
    <3>1. i \in 1 .. Len(am) + Len(b) /\ i <= Len(am)
      BY <2>1, <1>1
    <3> QED BY <3>1, <1>7
  <2>3. ASSUME NEW i \in at + 1 .. Len(s) + 1 PROVE (am \o b)[i] = b[i - at]
    <3>1. i \in 1 .. Len(am) + Len(b) /\ ~(i <= Len(am)) /\ i - Len(am) = i - at
      BY <2>1, <1>1
    <3> QED BY <3>1, <1>7
  <2> QED BY <2>2, <2>3
<1>10. \A i \in 1 .. at - 1 : (am \o b)[i] = s[i]
  BY <1>1, <1>2, <1>8, <1>9
<1>11. (am \o b)[at] = e
  BY <1>1, <1>4, <1>8, <1>9
<1>12. ASSUME NEW i \in at + 1 .. Len(s) + 1
       PROVE  (am \o b)[i] = s[i - 1]
  <2>1. i - at \in 1 .. Len(s) - at + 1 /\ at + (i - at) - 1 = i - 1
    BY <1>1
  <2> QED BY <2>1, <1>9, <1>3
<1> DEFINE w == am \o b
<1>13. InsertAt(s, at, e) = w
  BY <1>5 DEF am
<1>14. w \in Seq(Nat) /\ Len(w) = Len(s) + 1
  BY <1>1, <1>3, <1>7, <1>8
<1> HIDE DEF w
<1> QED BY <1>10, <1>11, <1>12, <1>13, <1>14 DEF w

LEMMA SeqOfItsOwn ==
    ASSUME NEW S, NEW s \in Seq(S)
    PROVE  s \in Seq(ToSet(s)) /\ \A i \in 1 .. Len(s) : s[i] \in ToSet(s)
<1>1. Len(s) \in Nat /\ \A i \in 1 .. Len(s) : s[i] \in ToSet(s)
  BY DEF ToSet
<1>2. s = [i \in 1 .. Len(s) |-> s[i]]
  OBVIOUS
<1> DEFINE n == Len(s)
<1> HIDE DEF n
<1>3. [i \in 1 .. n |-> s[i]] \in Seq(ToSet(s))
  BY <1>1, IsASeq DEF n
<1> QED BY <1>1, <1>2, <1>3 DEF n

----------------------------------------------------------------------------
(***************************************************************************)
(* The statements keep a schema well formed.                               *)
(***************************************************************************)
\* The shape of a schema.
Shaped(def) == def = [id |-> def.id, alias |-> def.alias, columns |-> def.columns,
                      indexes |-> def.indexes, order |-> def.order, fks |-> def.fks]

\* A schema that differs in its indexes.
WithIndexes(def, new, indexes) ==
    /\ Shaped(new) /\ new.indexes = indexes
    /\ new.id = def.id /\ new.alias = def.alias /\ new.columns = def.columns
    /\ new.order = def.order /\ new.fks = def.fks

\* What a list of indexes must be.
IndexesOf(def) ==
    /\ def.indexes \in Seq(ToSet(def.indexes))
    /\ \A i \in 1 .. Len(def.indexes) :
          /\ def.indexes[i].kind \in Kinds /\ def.indexes[i].id \in Nat \ {0}
          /\ def.indexes[i].columns \in Seq(1 .. Len(def.columns)) \ {<<>>}
    /\ \A i, j \in 1 .. Len(def.indexes) :
          def.indexes[i].kind = def.indexes[j].kind /\ def.indexes[i].id = def.indexes[j].id => i = j

LEMMA WithIndexesIs ==
    ASSUME NEW def, IsDef(def), NEW indexes, NEW new, new = [def EXCEPT !.indexes = indexes]
    PROVE  WithIndexes(def, new, indexes)
<1>1. Shaped(def)
  BY DEF IsDef, Shaped
<1> QED BY <1>1 DEF Shaped, WithIndexes

\* CREATE INDEX adds one.
LEMMA AddIndexIs ==
    ASSUME NEW def, IsDef(def), NEW ix,
           ix.kind \in Kinds, ix.id \in Nat \ {0},
           ix.columns \in Seq(1 .. Len(def.columns)) \ {<<>>},
           \A jx \in OfKind(def, ix.kind) : jx.id # ix.id,
           NEW new, WithIndexes(def, new, Append(def.indexes, ix))
    PROVE  /\ IsDef(new)
           /\ \A k : OfKind(new, k) = OfKind(def, k) \union (IF k = ix.kind THEN {ix} ELSE {})
<1> DEFINE s == def.indexes
           t == Append(s, ix)
           n == Len(s)
<1>1. /\ Shaped(new) /\ new.id = def.id /\ new.alias = def.alias /\ new.columns = def.columns
      /\ new.order = def.order /\ new.fks = def.fks /\ new.indexes = t
  BY DEF WithIndexes
<1>2. s \in Seq(ToSet(s)) /\ n \in Nat /\ \A i \in 1 .. n : s[i] \in ToSet(s)
  BY SeqOfItsOwn DEF IsDef
<1>3. t \in Seq(ToSet(s) \union {ix}) /\ Len(t) = n + 1
      /\ (\A i \in 1 .. n : t[i] = s[i]) /\ t[n + 1] = ix
  <2>1. s \in Seq(ToSet(s) \union {ix})
    BY <1>2, SeqMonotonic
  <2> HIDE DEF s
  <2> QED BY <2>1, AppendProperties
<1>4. t \in Seq(ToSet(t))
  BY <1>3, SeqOfItsOwn
<1>5. /\ \A i \in 1 .. n :
            /\ s[i].kind \in Kinds /\ s[i].id \in Nat \ {0}
            /\ s[i].columns \in Seq(1 .. Len(def.columns)) \ {<<>>}
      /\ \A i, j \in 1 .. n : s[i].kind = s[j].kind /\ s[i].id = s[j].id => i = j
  BY DEF IsDef
<1>6. \A i \in 1 .. n : s[i].kind = ix.kind => s[i].id # ix.id
  BY DEF OfKind
<1>7. \A i \in 1 .. n + 1 : i \in 1 .. n \/ i = n + 1
  BY <1>2
<1>8. \A k : {t[i] : i \in {j \in 1 .. n + 1 : t[j].kind = k}}
             = {s[i] : i \in {j \in 1 .. n : s[j].kind = k}} \union (IF k = ix.kind THEN {ix} ELSE {})
  <2> HIDE DEF s, t, n
  <2> TAKE k
  <2> DEFINE P == {j \in 1 .. n + 1 : t[j].kind = k}
             Q == {j \in 1 .. n : s[j].kind = k}
  <2>1. \A j \in P : j \in Q \/ (j = n + 1 /\ k = ix.kind)
    BY <1>3, <1>7
  <2>2. \A j \in Q : j \in P /\ t[j] = s[j]
    BY <1>2, <1>3
  <2>3. k = ix.kind => n + 1 \in P /\ t[n + 1] = ix
    BY <1>2, <1>3
  <2> HIDE DEF P, Q
  <2>4. {t[i] : i \in P} = {s[i] : i \in Q} \union (IF k = ix.kind THEN {ix} ELSE {})
    BY <2>1, <2>2, <2>3, <1>3
  <2> QED BY <2>4 DEF P, Q
<1>9. \A k : OfKind(new, k) = OfKind(def, k) \union (IF k = ix.kind THEN {ix} ELSE {})
  BY <1>1, <1>3, <1>8 DEF OfKind
<1>10. IndexesOf(new)
  <2> HIDE DEF s, t, n
  <2>1. \A i \in 1 .. n + 1 :
           /\ t[i].kind \in Kinds /\ t[i].id \in Nat \ {0}
           /\ t[i].columns \in Seq(1 .. Len(def.columns)) \ {<<>>}
    BY <1>3, <1>5, <1>7
  <2>2. \A i, j \in 1 .. n + 1 : t[i].kind = t[j].kind /\ t[i].id = t[j].id => i = j
    <3> TAKE i, j \in 1 .. n + 1
    <3>1. CASE i \in 1 .. n /\ j \in 1 .. n
      BY <3>1, <1>3, <1>5
    <3>2. CASE i = n + 1 /\ j \in 1 .. n
      BY <3>2, <1>3, <1>6
    <3>3. CASE i \in 1 .. n /\ j = n + 1
      BY <3>3, <1>3, <1>6
    <3> QED BY <3>1, <3>2, <3>3, <1>7
  <2>3. new.indexes = t /\ new.columns = def.columns
    BY <1>1
  <2>4. Len(new.indexes) = n + 1
    BY <2>3, <1>3
  <2>5. new.indexes \in Seq(ToSet(new.indexes))
    BY <2>3, <1>4
  <2>6. \A i \in 1 .. Len(new.indexes) :
           /\ new.indexes[i].kind \in Kinds /\ new.indexes[i].id \in Nat \ {0}
           /\ new.indexes[i].columns \in Seq(1 .. Len(new.columns)) \ {<<>>}
    BY <2>1, <2>3, <2>4
  <2>7. \A i, j \in 1 .. Len(new.indexes) :
           new.indexes[i].kind = new.indexes[j].kind /\ new.indexes[i].id = new.indexes[j].id => i = j
    <3> TAKE i, j \in 1 .. Len(new.indexes)
    <3>1. i \in 1 .. n + 1 /\ j \in 1 .. n + 1 /\ new.indexes[i] = t[i] /\ new.indexes[j] = t[j]
      BY <2>3, <2>4
    <3> QED BY <3>1, <2>2
  <2> QED BY <2>5, <2>6, <2>7 DEF IndexesOf
<1>11. IsDef(new)
  <2> HIDE DEF s, t, n
  <2> QED BY <1>1, <1>10 DEF IsDef, IndexesOf, Visible, Shaped
<1> QED BY <1>1, <1>9, <1>11

\* DROP INDEX takes one out.
LEMMA RemoveIndexIs ==
    ASSUME NEW def, IsDef(def), NEW p \in 1 .. Len(def.indexes),
           NEW new, WithIndexes(def, new, RemoveAt(def.indexes, p))
    PROVE  /\ IsDef(new)
           /\ \A k : OfKind(new, k) = IF k = def.indexes[p].kind
                                      THEN OfKind(def, k) \ {def.indexes[p]} ELSE OfKind(def, k)
<1> DEFINE s == def.indexes
           t == RemoveAt(s, p)
           n == Len(s)
           from == [i \in 1 .. n - 1 |-> IF i < p THEN i ELSE i + 1]
<1>1. /\ Shaped(new) /\ new.id = def.id /\ new.alias = def.alias /\ new.columns = def.columns
      /\ new.order = def.order /\ new.fks = def.fks /\ new.indexes = t
  BY DEF WithIndexes
<1>2. s \in Seq(ToSet(s)) /\ n \in Nat /\ p \in 1 .. n
  BY DEF IsDef
<1>3. t \in Seq(ToSet(s)) /\ Len(t) = n - 1
      /\ \A i \in 1 .. n - 1 : t[i] = IF i < p THEN s[i] ELSE s[i + 1]
  BY <1>2, RemoveAtIs
<1>4. t \in Seq(ToSet(t))
  BY <1>3, SeqOfItsOwn
<1>5. /\ \A i \in 1 .. n :
            /\ s[i].kind \in Kinds /\ s[i].id \in Nat \ {0}
            /\ s[i].columns \in Seq(1 .. Len(def.columns)) \ {<<>>}
      /\ \A i, j \in 1 .. n : s[i].kind = s[j].kind /\ s[i].id = s[j].id => i = j
  BY DEF IsDef
<1> HIDE DEF s, t, n
<1>6. /\ \A i \in 1 .. n - 1 : from[i] \in 1 .. n /\ from[i] # p /\ t[i] = s[from[i]]
      /\ \A i, j \in 1 .. n - 1 : from[i] = from[j] => i = j
      /\ \A j \in 1 .. n : j # p => \E i \in 1 .. n - 1 : from[i] = j
  <2>1. \A i \in 1 .. n - 1 : from[i] \in 1 .. n /\ from[i] # p /\ t[i] = s[from[i]]
    BY <1>2, <1>3
  <2>2. \A i, j \in 1 .. n - 1 : from[i] = from[j] => i = j
    BY <1>2
  <2>3. ASSUME NEW j \in 1 .. n, j # p PROVE \E i \in 1 .. n - 1 : from[i] = j
    <3>1. CASE j < p
      <4>1. j \in 1 .. n - 1 /\ from[j] = j
        BY <1>2, <3>1
      <4> QED BY <4>1
    <3>2. CASE j > p
      <4>1. j - 1 \in 1 .. n - 1 /\ from[j - 1] = j
        BY <1>2, <3>2
      <4> QED BY <4>1
    <3> QED BY <2>3, <3>1, <3>2, <1>2
  <2> QED BY <2>1, <2>2, <2>3
<1> HIDE DEF from
<1>7. \A k : {t[i] : i \in {j \in 1 .. n - 1 : t[j].kind = k}}
             = {s[i] : i \in {j \in 1 .. n : s[j].kind = k /\ j # p}}
  <2> TAKE k
  <2> DEFINE P == {j \in 1 .. n - 1 : t[j].kind = k}
             Q == {j \in 1 .. n : s[j].kind = k /\ j # p}
  <2>1. \A i \in P : from[i] \in Q /\ t[i] = s[from[i]]
    BY <1>6
  <2>2. \A j \in Q : \E i \in P : from[i] = j
    <3> TAKE j \in Q
    <3>1. PICK i \in 1 .. n - 1 : from[i] = j
      BY <1>6
    <3> QED BY <3>1, <1>6
  <2> HIDE DEF P, Q
  <2>3. {t[i] : i \in P} = {s[i] : i \in Q}
    BY <2>1, <2>2
  <2> QED BY <2>3 DEF P, Q
<1>8. ASSUME NEW k
      PROVE  {s[i] : i \in {j \in 1 .. n : s[j].kind = k /\ j # p}}
             = IF k = s[p].kind THEN {s[i] : i \in {j \in 1 .. n : s[j].kind = k}} \ {s[p]}
                                ELSE {s[i] : i \in {j \in 1 .. n : s[j].kind = k}}
  <2> DEFINE P == {j \in 1 .. n : s[j].kind = k /\ j # p}
             Q == {j \in 1 .. n : s[j].kind = k}
  <2>1. \A i \in P : i \in Q /\ s[i] # s[p]
    BY <1>2, <1>5
  <2>2. \A i \in Q : i \in P \/ i = p
    OBVIOUS
  <2>3. k # s[p].kind => p \notin Q
    OBVIOUS
  <2> HIDE DEF P, Q
  <2>4. {s[i] : i \in P} = IF k = s[p].kind THEN {s[i] : i \in Q} \ {s[p]} ELSE {s[i] : i \in Q}
    BY <2>1, <2>2, <2>3
  <2> QED BY <2>4 DEF P, Q
<1>9. \A k : OfKind(new, k) = IF k = s[p].kind THEN OfKind(def, k) \ {s[p]} ELSE OfKind(def, k)
  <2>1. \A k : OfKind(new, k) = {t[i] : i \in {j \in 1 .. n - 1 : t[j].kind = k}}
    BY <1>1, <1>3 DEF OfKind
  <2>2. \A k : OfKind(def, k) = {s[i] : i \in {j \in 1 .. n : s[j].kind = k}}
    BY DEF OfKind, s, n
  <2> QED BY <2>1, <2>2, <1>7, <1>8
<1>10. IndexesOf(new)
  <2>1. \A i \in 1 .. n - 1 :
           /\ t[i].kind \in Kinds /\ t[i].id \in Nat \ {0}
           /\ t[i].columns \in Seq(1 .. Len(def.columns)) \ {<<>>}
    BY <1>6, <1>5
  <2>2. \A i, j \in 1 .. n - 1 : t[i].kind = t[j].kind /\ t[i].id = t[j].id => i = j
    <3> TAKE i, j \in 1 .. n - 1
    <3>1. /\ t[i] = s[from[i]] /\ t[j] = s[from[j]]
          /\ from[i] \in 1 .. n /\ from[j] \in 1 .. n
      BY <1>6
    <3> HAVE t[i].kind = t[j].kind /\ t[i].id = t[j].id
    <3>2. from[i] = from[j]
      BY <3>1, <1>5
    <3> QED BY <3>2, <1>6
  <2> QED BY <1>1, <1>3, <1>4, <2>1, <2>2 DEF IndexesOf
<1>11. IsDef(new)
  BY <1>1, <1>10 DEF IsDef, IndexesOf, Visible, Shaped
<1> QED BY <1>1, <1>9, <1>11 DEF s

----------------------------------------------------------------------------
(***************************************************************************)
(* ALTER TABLE.                                                            *)
(***************************************************************************)
\* What every ALTER TABLE does to a schema: it stays well formed, keeps its id
\* and its indexes, and what an old row reads in a column it had.
Altered(def, new) ==
    /\ IsDef(new)
    /\ new.id = def.id /\ new.indexes = def.indexes
    /\ Len(def.columns) <= Len(new.columns)
    /\ \A i \in 1 .. Len(def.columns) : new.columns[i].default = def.columns[i].default
    /\ \A name : VisiblePosition(def, name) # 0 /\ VisiblePosition(new, name) # 0
                    => VisiblePosition(new, name) = VisiblePosition(def, name)

\* Every position has its place in the order.
Covers(s, n) == \A v \in 1 .. n : \E i \in 1 .. n : s[i] = v

LEMMA PermutationIs ==
    ASSUME NEW n \in Nat, NEW s \in Seq(Nat), Len(s) = n
    PROVE  IsPermutation(s, n) <=> (\A i \in 1 .. n : s[i] \in 1 .. n) /\ Covers(s, n)
<1>1. DOMAIN s = 1 .. n
  OBVIOUS
<1> QED BY <1>1 DEF IsPermutation, ToSet, Covers

\* The facts about a schema the proofs below start from.
LEMMA DefFacts ==
    ASSUME NEW def, IsDef(def)
    PROVE  /\ Shaped(def) /\ IndexesOf(def)
           /\ Len(def.columns) \in Nat /\ Len(def.columns) >= 1 /\ Len(def.columns) <= MaxColumns
           /\ \A i \in 1 .. Len(def.columns) : def.columns[i] \in ColumnDefs
           /\ Len(def.order) = Len(def.columns)
           /\ \A i \in 1 .. Len(def.columns) : def.order[i] \in 1 .. Len(def.columns)
           /\ Covers(def.order, Len(def.columns))
<1>1. Shaped(def) /\ IndexesOf(def)
  BY DEF IsDef, Shaped, IndexesOf
<1>2. /\ Len(def.columns) \in Nat /\ Len(def.columns) >= 1 /\ Len(def.columns) <= MaxColumns
      /\ \A i \in 1 .. Len(def.columns) : def.columns[i] \in ColumnDefs
  BY BoundsAssumption DEF IsDef
<1>3. /\ def.order \in Seq(Nat) /\ IsPermutation(def.order, Len(def.columns))
      /\ Len(def.order) = Len(def.columns)
  BY DEF IsDef, IsPermutation
<1> QED BY <1>1, <1>2, <1>3, PermutationIs

\* A schema with another order.
LEMMA OrderAlters ==
    ASSUME NEW def, IsDef(def), NEW s \in Seq(Nat), IsPermutation(s, Len(def.columns))
    PROVE  Altered(def, [def EXCEPT !.order = s])
<1> DEFINE new == [def EXCEPT !.order = s]
<1>1. /\ Shaped(new) /\ new.order = s
      /\ new.id = def.id /\ new.alias = def.alias /\ new.columns = def.columns
      /\ new.indexes = def.indexes /\ new.fks = def.fks
  <2>1. Shaped(def)
    BY DefFacts
  <2> QED BY <2>1 DEF Shaped
<1> HIDE DEF new
<1>2. IsDef(new)
  BY <1>1 DEF IsDef, Shaped, Visible
<1>3. \A name : VisiblePosition(new, name) = VisiblePosition(def, name)
  BY <1>1 DEF VisiblePosition
<1>4. Len(def.columns) \in Nat
  BY DefFacts
<1>5. Altered(def, new)
  BY <1>1, <1>2, <1>3, <1>4 DEF Altered
<1> QED BY <1>5 DEF new

\* A schema with one column changed in its name, its mark or both.
LEMMA ColumnAlters ==
    ASSUME NEW def, IsDef(def), NEW p \in 1 .. Len(def.columns), NEW c \in ColumnDefs,
           c.default = def.columns[p].default,
           \A i \in Visible(def) \ {p} : ~c.dropped => def.columns[i].name # c.name,
           p \in Visible(def)
    PROVE  Altered(def, [def EXCEPT !.columns = [@ EXCEPT ![p] = c]])
<1> DEFINE cols == [def.columns EXCEPT ![p] = c]
           n == Len(def.columns)
           new == [def EXCEPT !.columns = cols]
<1>1. /\ Shaped(new) /\ new.columns = cols
      /\ new.id = def.id /\ new.alias = def.alias
      /\ new.indexes = def.indexes /\ new.order = def.order /\ new.fks = def.fks
  <2>1. Shaped(def)
    BY DefFacts
  <2> HIDE DEF cols
  <2> QED BY <2>1 DEF Shaped
<1>2. /\ cols \in Seq(ColumnDefs) /\ Len(cols) = n
      /\ \A i \in 1 .. n : cols[i] = IF i = p THEN c ELSE def.columns[i]
  <2>1. def.columns \in Seq(ColumnDefs)
    BY DEF IsDef
  <2> QED BY <2>1, ExceptSeq
<1> HIDE DEF cols, new
<1>3. Visible(new) = IF c.dropped THEN Visible(def) \ {p} ELSE Visible(def)
  <2>1. Visible(new) = {i \in 1 .. n : ~cols[i].dropped}
    BY <1>1, <1>2 DEF Visible
  <2>2. Visible(def) = {i \in 1 .. n : ~def.columns[i].dropped}
    BY DEF Visible
  <2> QED BY <2>1, <2>2, <1>2
<1>4. \A i \in Visible(def) : i \in 1 .. n
  BY DEF Visible
<1>5. \A i, j \in Visible(def) : def.columns[i].name = def.columns[j].name => i = j
  BY DEF IsDef
<1>6. ASSUME NEW i \in Visible(new), NEW j \in Visible(new), cols[i].name = cols[j].name
      PROVE  i = j
  <2>1. i \in Visible(def) /\ j \in Visible(def) /\ i \in 1 .. n /\ j \in 1 .. n
    BY <1>3, <1>4
  <2>2. CASE i = p /\ j # p
    <3>1. ~c.dropped
      BY <1>3, <2>2
    <3> QED BY <3>1, <2>1, <2>2, <1>2, <1>6
  <2>3. CASE j = p /\ i # p
    <3>1. ~c.dropped
      BY <1>3, <2>3
    <3> QED BY <3>1, <2>1, <2>3, <1>2, <1>6
  <2>4. CASE i # p /\ j # p
    BY <2>1, <2>4, <1>2, <1>5, <1>6
  <2> QED BY <2>2, <2>3, <2>4
<1>7. IsDef(new)
  <2>1. /\ new.columns \in Seq(ColumnDefs) /\ Len(new.columns) = Len(def.columns)
        /\ \A i, j \in Visible(new) : new.columns[i].name = new.columns[j].name => i = j
    BY <1>1, <1>2, <1>6
  <2> HIDE DEF n
  <2> QED BY <1>1, <2>1 DEF IsDef, Shaped
<1>8. ASSUME NEW name, VisiblePosition(def, name) # 0, VisiblePosition(new, name) # 0
      PROVE  VisiblePosition(new, name) = VisiblePosition(def, name)
  <2> DEFINE i == VisiblePosition(def, name)
             j == VisiblePosition(new, name)
  <2>1. i \in Visible(def) /\ def.columns[i].name = name
    BY <1>8, VisiblePositionIs
  <2>2. j \in Visible(new) /\ cols[j].name = name
    <3>1. j \in Visible(new) /\ new.columns[j].name = name
      BY <1>7, <1>8, VisiblePositionIs
    <3> QED BY <3>1, <1>1
  <2> HIDE DEF i, j
  <2>3. j \in Visible(def) /\ j \in 1 .. n
    BY <2>2, <1>3, <1>4
  <2>4. CASE j # p
    <3>1. def.columns[j].name = name
      BY <2>2, <2>3, <2>4, <1>2
    <3> QED BY <3>1, <2>1, <2>3, <1>5 DEF i, j
  <2>5. CASE j = p
    <3>1. ~c.dropped
      BY <2>2, <2>5, <1>3
    <3>2. c.name = name
      BY <2>2, <2>3, <2>5, <1>2
    <3>3. i = p
      BY <2>1, <3>1, <3>2
    <3> QED BY <3>3, <2>5 DEF i, j
  <2> QED BY <2>4, <2>5
<1>9. \A i \in 1 .. n : new.columns[i].default = def.columns[i].default
  BY <1>1, <1>2
<1>10. n \in Nat /\ Len(new.columns) = n
  BY DefFacts, <1>1, <1>2
<1> HIDE DEF n
<1>11. Altered(def, new)
  BY <1>1, <1>7, <1>8, <1>9, <1>10 DEF Altered, n
<1> QED BY <1>11 DEF new, cols

\* RENAME COLUMN and DROP COLUMN change the name or the mark of one column.
LEMMA RenameAlters ==
    ASSUME NEW def, IsDef(def), NEW old, NEW name \in ColNames, CanRename(def, old, name)
    PROVE  Altered(def, RenameIn(def, old, name))
<1> DEFINE p == VisiblePosition(def, old)
           c == [def.columns[p] EXCEPT !.name = name]
<1>1. p \in Visible(def) /\ p \in 1 .. Len(def.columns)
  <2>1. p # 0
    BY DEF CanRename
  <2>2. p \in Visible(def)
    BY <2>1, VisiblePositionIs
  <2> QED BY <2>2 DEF Visible
<1>2. def.columns[p] \in ColumnDefs
  BY <1>1, DefFacts
<1>3. \A i \in Visible(def) : def.columns[i].name # name
  <2>1. VisiblePosition(def, name) = 0
    BY DEF CanRename
  <2>2. \A i \in Visible(def) : i # 0
    BY DEF Visible
  <2> QED BY <2>1, <2>2, VisiblePositionIs
<1>4. RenameIn(def, old, name) = [def EXCEPT !.columns = [@ EXCEPT ![p] = c]]
  BY DEF RenameIn
<1> HIDE DEF p
<1>5. c \in ColumnDefs /\ c.default = def.columns[p].default /\ c.name = name
  BY <1>2 DEF ColumnDefs
<1> HIDE DEF c
<1>6. Altered(def, [def EXCEPT !.columns = [@ EXCEPT ![p] = c]])
  BY <1>1, <1>3, <1>5, ColumnAlters
<1> QED BY <1>4, <1>6

LEMMA DropColumnAlters ==
    ASSUME NEW def, IsDef(def), NEW name, CanDropColumn(def, name)
    PROVE  Altered(def, DropColumnIn(def, name))
<1> DEFINE p == VisiblePosition(def, name)
           c == [def.columns[p] EXCEPT !.dropped = TRUE]
<1>1. p \in Visible(def) /\ p \in 1 .. Len(def.columns)
  <2>1. p \in 0 .. Len(def.columns) /\ p # 0
    <3>1. p > 0
      BY DEF CanDropColumn
    <3>2. p \in 0 .. Len(def.columns)
      BY VisiblePositionIs
    <3> HIDE DEF p
    <3> QED BY <3>1, <3>2
  <2>2. p \in Visible(def)
    BY <2>1, VisiblePositionIs
  <2> QED BY <2>2 DEF Visible
<1>2. def.columns[p] \in ColumnDefs
  BY <1>1, DefFacts
<1>4. DropColumnIn(def, name) = [def EXCEPT !.columns = [@ EXCEPT ![p] = c]]
  BY DEF DropColumnIn
<1> HIDE DEF p
<1>5. c \in ColumnDefs /\ c.default = def.columns[p].default /\ c.dropped
  BY <1>2 DEF ColumnDefs
<1> HIDE DEF c
<1>6. Altered(def, [def EXCEPT !.columns = [@ EXCEPT ![p] = c]])
  BY <1>1, <1>5, ColumnAlters
<1> QED BY <1>4, <1>6

\* A permutation is one still when an element is moved.
LEMMA MovedPermutation ==
    ASSUME NEW n \in Nat, NEW o \in Seq(Nat), Len(o) = n,
           \A i \in 1 .. n : o[i] \in 1 .. n,
           Covers(o, n),
           NEW q \in 1 .. n, NEW at \in 1 .. n
    PROVE  /\ InsertAt(RemoveAt(o, q), at, o[q]) \in Seq(Nat)
           /\ IsPermutation(InsertAt(RemoveAt(o, q), at, o[q]), n)
<1> DEFINE rest == RemoveAt(o, q)
           s == InsertAt(rest, at, o[q])
<1>1. rest \in Seq(Nat) /\ Len(rest) = n - 1
      /\ (\A i \in 1 .. n - 1 : rest[i] = IF i < q THEN o[i] ELSE o[i + 1])
  BY RemoveAtIs
<1> HIDE DEF rest
<1>2. /\ s \in Seq(Nat) /\ Len(s) = n
      /\ \A i \in 1 .. at - 1 : s[i] = rest[i]
      /\ s[at] = o[q]
      /\ \A i \in at + 1 .. n : s[i] = rest[i - 1]
  <2>1. at \in 1 .. Len(rest) + 1 /\ Len(rest) + 1 = n /\ o[q] \in Nat
    BY <1>1
  <2>a. rest \in Seq(Nat) /\ at \in 1 .. Len(rest) + 1 /\ o[q] \in Nat
    BY <2>1, <1>1
  <2>2. s \in Seq(Nat) /\ Len(s) = Len(rest) + 1
    BY <2>a, InsertAtIs
  <2>3. \A i \in 1 .. at - 1 : s[i] = rest[i]
    BY <2>a, InsertAtIs
  <2>4. s[at] = o[q]
    BY <2>a, InsertAtIs
  <2>5. \A i \in at + 1 .. Len(rest) + 1 : s[i] = rest[i - 1]
    BY <2>a, InsertAtIs
  <2> HIDE DEF s
  <2> QED BY <2>1, <2>2, <2>3, <2>4, <2>5
<1> HIDE DEF s
<1>3. \A i \in 1 .. n - 1 : rest[i] \in 1 .. n
  <2> TAKE i \in 1 .. n - 1
  <2>1. i \in 1 .. n /\ i + 1 \in 1 .. n
    OBVIOUS
  <2>2. o[i] \in 1 .. n /\ o[i + 1] \in 1 .. n
    BY <2>1
  <2> QED BY <2>2, <1>1
<1>4. ASSUME NEW v \in 1 .. n, v # o[q] PROVE \E i \in 1 .. n - 1 : rest[i] = v
  <2>1. PICK j \in 1 .. n : o[j] = v
    BY DEF Covers
  <2>2. j # q
    BY <2>1, <1>4
  <2>3. CASE j < q
    <3>1. j \in 1 .. n - 1
      BY <2>3
    <3>2. rest[j] = v
      BY <3>1, <2>1, <2>3, <1>1
    <3> QED BY <3>1, <3>2
  <2>4. CASE j > q
    <3>1. j - 1 \in 1 .. n - 1 /\ ~(j - 1 < q) /\ (j - 1) + 1 = j
      BY <2>4
    <3>2. rest[j - 1] = v
      BY <3>1, <2>1, <1>1
    <3> QED BY <3>1, <3>2
  <2> QED BY <2>2, <2>3, <2>4
<1>5. ASSUME NEW i \in 1 .. n PROVE s[i] \in 1 .. n
  <2>1. CASE i < at
    <3>1. i \in 1 .. n - 1
      BY <2>1
    <3>2. i \in 1 .. at - 1
      BY <2>1
    <3>3. s[i] = rest[i]
      BY <3>2, <1>2
    <3> QED BY <3>1, <3>3, <1>3
  <2>2. CASE i = at
    BY <2>2, <1>2
  <2>3. CASE i > at
    <3>1. i - 1 \in 1 .. n - 1
      BY <2>3
    <3>2. s[i] = rest[i - 1]
      <4>1. i \in at + 1 .. n
        BY <2>3
      <4> QED BY <4>1, <1>2
    <3> QED BY <3>1, <3>2, <1>3
  <2> QED BY <2>1, <2>2, <2>3
<1>6. ASSUME NEW v \in 1 .. n PROVE \E i \in 1 .. n : s[i] = v
  <2>1. CASE v = o[q]
    <3>1. s[at] = o[q]
      BY <1>2
    <3> QED BY <3>1, <2>1
  <2>2. CASE v # o[q]
    <3>1. PICK j \in 1 .. n - 1 : rest[j] = v
      BY <2>2, <1>4
    <3>2. CASE j < at
      <4>1. j \in 1 .. n /\ j \in 1 .. at - 1
        BY <3>2
      <4>2. s[j] = v
        BY <4>1, <3>1, <1>2
      <4> QED BY <4>1, <4>2
    <3>3. CASE j >= at
      <4>1. j + 1 \in 1 .. n /\ j + 1 \in at + 1 .. n /\ (j + 1) - 1 = j
        BY <3>3
      <4>2. s[j + 1] = v
        BY <4>1, <3>1, <1>2
      <4> QED BY <4>1, <4>2
    <3> QED BY <3>2, <3>3
  <2> QED BY <2>1, <2>2
<1>7. IsPermutation(s, n)
  <2>1. (\A i \in 1 .. n : s[i] \in 1 .. n) /\ Covers(s, n)
    BY <1>5, <1>6 DEF Covers
  <2> QED BY <2>1, <1>2, PermutationIs
<1> QED BY <1>2, <1>7 DEF s, rest

\* The first place of an element is the one it leaves.
LEMMA RemoveFirstIs ==
    ASSUME NEW m \in Nat, NEW s \in Seq(Nat), Len(s) = m, NEW v, \E i \in 1 .. m : s[i] = v
    PROVE  \E q \in 1 .. m : s[q] = v /\ RemoveFirst(s, v) = RemoveAt(s, q)
<1> DEFINE I == {i \in 1 .. m : s[i] = v}
<1>1. I # {} /\ I \in SUBSET (1 .. m)
  OBVIOUS
<1>2. Min(I) \in I
  <2> HIDE DEF I
  <2> QED BY <1>1, MinOfPositions
<1>3. RemoveFirst(s, v) = RemoveAt(s, Min(I))
  BY <1>1 DEF RemoveFirst, SelectInSeq
<1> QED BY <1>2, <1>3

\* MOVE COLUMN puts a position of the order at another place.
LEMMA MoveColumnAlters ==
    ASSUME NEW def, IsDef(def), NEW name, NEW where, NEW ref, CanMove(def, name, where, ref)
    PROVE  Altered(def, MoveColumnIn(def, name, where, ref))
<1> DEFINE n == Len(def.columns)
           order == def.order
           phys == Position(def, name)
           other == Position(def, ref)
           seq == RemoveFirst(order, phys)
           back == SelectInSeq(seq, LAMBDA p : p = other)
           at == IF where = "first" THEN 1 ELSE back + (IF where = "after" THEN 1 ELSE 0)
           s == InsertAt(seq, at, phys)
<1>1. n \in Nat /\ n >= 1 /\ Len(order) = n /\ order \in Seq(Nat)
      /\ (\A i \in 1 .. n : order[i] \in 1 .. n)
      /\ Covers(order, n)
  BY DefFacts DEF IsDef
<1>2. phys \in 0 .. n /\ (phys # 0 => def.columns[phys].name = name)
  BY <1>1, PositionIs
<1>3. other \in 0 .. n /\ (other # 0 => def.columns[other].name = ref)
  BY <1>1, PositionIs
<1>4. phys > 0 /\ (where # "first" => other > 0 /\ ref # name)
  BY DEF CanMove
<1>5. MoveColumnIn(def, name, where, ref) = [def EXCEPT !.order = s]
  BY DEF MoveColumnIn
<1>6. IsPermutation(s, n) /\ s \in Seq(Nat) => Altered(def, [def EXCEPT !.order = s])
  BY OrderAlters
<1> HIDE DEF n, order, phys, other
<1>7. phys \in 1 .. n /\ (where # "first" => other \in 1 .. n /\ other # phys)
  BY <1>1, <1>2, <1>3, <1>4
<1>8. PICK q \in 1 .. n : order[q] = phys /\ seq = RemoveAt(order, q)
  <2>1. \E i \in 1 .. n : order[i] = phys
    BY <1>1, <1>7 DEF Covers
  <2> QED BY <2>1, <1>1, RemoveFirstIs
<1>9. seq \in Seq(Nat) /\ Len(seq) = n - 1
      /\ (\A i \in 1 .. n - 1 : seq[i] = IF i < q THEN order[i] ELSE order[i + 1])
  BY <1>1, <1>8, RemoveAtIs
<1> HIDE DEF seq
<1>10. at \in 1 .. n
  <2>1. CASE where = "first"
    BY <2>1, <1>1
  <2>2. CASE where # "first"
    <3>1. \E i \in 1 .. n - 1 : seq[i] = other
      <4>1. PICK j \in 1 .. n : order[j] = other
        BY <1>1, <1>7, <2>2 DEF Covers
      <4>2. j # q
        BY <4>1, <1>7, <1>8, <2>2
      <4>3. CASE j < q
        <5>1. j \in 1 .. n - 1
          BY <4>3, <1>1
        <5>2. seq[j] = other
          BY <5>1, <4>1, <4>3, <1>9
        <5> QED BY <5>1, <5>2
      <4>4. CASE j > q
        <5>1. j - 1 \in 1 .. n - 1 /\ ~(j - 1 < q) /\ (j - 1) + 1 = j
          BY <4>4, <1>1
        <5>2. seq[j - 1] = other
          BY <5>1, <4>1, <1>9
        <5> QED BY <5>1, <5>2
      <4> QED BY <4>2, <4>3, <4>4
    <3>2. back \in 1 .. n - 1
      <4>1. n - 1 \in Nat /\ seq \in Seq(Nat) /\ Len(seq) = n - 1
        BY <1>1, <1>9
      <4> DEFINE I == {i \in 1 .. n - 1 : seq[i] = other}
      <4>2. I # {} /\ I \in SUBSET (1 .. n - 1)
        BY <3>1
      <4>3. back = Min(I)
        BY <4>1, <4>2 DEF SelectInSeq
      <4> HIDE DEF I, back
      <4>4. Min(I) \in I
        BY <4>1, <4>2, MinOfPositions
      <4> QED BY <4>2, <4>3, <4>4
    <3> HIDE DEF back
    <3> QED BY <3>2, <2>2, <1>1
  <2> QED BY <2>1, <2>2
<1> HIDE DEF at
<1>11. s \in Seq(Nat) /\ IsPermutation(s, n)
  BY <1>1, <1>8, <1>10, MovedPermutation
<1> QED BY <1>5, <1>6, <1>11

\* REORDER COLUMNS names every column once.
LEMMA ReorderAlters ==
    ASSUME NEW def, IsDef(def), NEW names, CanReorder(def, names)
    PROVE  Altered(def, ReorderIn(def, names))
<1> DEFINE n == Len(def.columns)
           s == [k \in 1 .. n |-> Position(def, names[k])]
<1>1. n \in Nat /\ Len(names) = n
  BY DefFacts DEF CanReorder
<1>2. ReorderIn(def, names) = [def EXCEPT !.order = s]
  BY <1>1 DEF ReorderIn
<1>3. \A k \in 1 .. n : Position(def, names[k]) \in 1 .. n
  <2> TAKE k \in 1 .. n
  <2>1. Position(def, names[k]) \in 0 .. n
    BY <1>1, PositionIs
  <2>2. Position(def, names[k]) > 0
    BY <1>1 DEF CanReorder
  <2> HIDE DEF n
  <2> QED BY <1>1, <2>1, <2>2
<1>4. \A j, k \in 1 .. n : Position(def, names[j]) = Position(def, names[k]) => j = k
  BY <1>1 DEF CanReorder
<1> HIDE DEF n
<1>5. s \in [1 .. n -> 1 .. n] /\ \A j, k \in 1 .. n : s[j] = s[k] => j = k
  BY <1>3, <1>4
<1>6. s \in Surjection(1 .. n, 1 .. n)
  <2>1. s \in Injection(1 .. n, 1 .. n)
    BY <1>5 DEF Injection, IsInjective
  <2>2. IsFiniteSet(1 .. n)
    BY <1>1, FS_Interval
  <2> HIDE DEF s
  <2> QED BY <2>1, <2>2, FS_Injection
<1>7. Covers(s, n)
  BY <1>6 DEF Surjection, Covers
<1>8. s \in Seq(Nat) /\ Len(s) = n
  BY <1>1, <1>5
<1> HIDE DEF s
<1>9. IsPermutation(s, n)
  BY <1>1, <1>5, <1>7, <1>8, PermutationIs
<1> QED BY <1>2, <1>8, <1>9, OrderAlters DEF n

LEMMA LongerPermutation ==
    ASSUME NEW n \in Nat, NEW o \in Seq(Nat), Len(o) = n,
           \A i \in 1 .. n : o[i] \in 1 .. n,
           Covers(o, n)
    PROVE  Append(o, n + 1) \in Seq(Nat) /\ IsPermutation(Append(o, n + 1), n + 1)
<1> DEFINE s == Append(o, n + 1)
<1>1. s \in Seq(Nat) /\ Len(s) = n + 1
      /\ (\A i \in 1 .. n : s[i] = o[i]) /\ s[n + 1] = n + 1
  <2>1. n + 1 \in Nat
    OBVIOUS
  <2> QED BY <2>1, AppendProperties
<1>2. \A i \in 1 .. n + 1 : i \in 1 .. n \/ i = n + 1
  OBVIOUS
<1> HIDE DEF s
<1>3. \A i \in 1 .. n + 1 : s[i] \in 1 .. n + 1
  BY <1>1, <1>2
<1>4. ASSUME NEW v \in 1 .. n + 1 PROVE \E i \in 1 .. n + 1 : s[i] = v
  <2>1. CASE v \in 1 .. n
    <3>1. PICK i \in 1 .. n : o[i] = v
      BY <2>1 DEF Covers
    <3>2. i \in 1 .. n + 1 /\ s[i] = v
      BY <3>1, <1>1
    <3> QED BY <3>2
  <2>2. CASE v = n + 1
    <3>1. n + 1 \in 1 .. n + 1
      OBVIOUS
    <3> QED BY <3>1, <2>2, <1>1
  <2> QED BY <2>1, <2>2, <1>2
<1>5. n + 1 \in Nat
  OBVIOUS
<1>6. IsPermutation(s, n + 1)
  <2>1. Covers(s, n + 1)
    BY <1>4 DEF Covers
  <2> QED BY <2>1, <1>1, <1>3, <1>5, PermutationIs
<1> QED BY <1>1, <1>6 DEF s

\* ADD COLUMN puts one at the end.
LEMMA AddColumnAlters ==
    ASSUME NEW def, IsDef(def), NEW col \in ColumnDefs, CanAddColumn(def, col)
    PROVE  Altered(def, AddColumnTo(def, col))
<1> DEFINE n == Len(def.columns)
           cols == Append(def.columns, col)
           s == Append(def.order, n + 1)
           new == AddColumnTo(def, col)
<1>1. n \in Nat /\ n >= 1 /\ def.columns \in Seq(ColumnDefs)
  BY DefFacts DEF IsDef
<1>2. s \in Seq(Nat) /\ IsPermutation(s, n + 1)
  <2>1. /\ Len(def.order) = n /\ def.order \in Seq(Nat)
        /\ (\A i \in 1 .. n : def.order[i] \in 1 .. n)
        /\ Covers(def.order, n)
    BY DefFacts DEF IsDef
  <2> HIDE DEF n
  <2> QED BY <1>1, <2>1, LongerPermutation
<1>3. /\ Shaped(new) /\ new.columns = cols /\ new.order = s
      /\ new.id = def.id /\ new.alias = def.alias /\ new.indexes = def.indexes /\ new.fks = def.fks
  <2>1. Shaped(def)
    BY DefFacts
  <2>2. new = [def EXCEPT !.columns = cols, !.order = s]
    BY DEF AddColumnTo
  <2> HIDE DEF cols, s, new
  <2> QED BY <2>1, <2>2 DEF Shaped
<1>4. cols \in Seq(ColumnDefs) /\ Len(cols) = n + 1
      /\ (\A i \in 1 .. n : cols[i] = def.columns[i]) /\ cols[n + 1] = col
  BY <1>1, AppendProperties
<1>5. n + 1 <= MaxColumns /\ MaxColumns \in Nat
  <2>1. n < MaxColumns
    BY DEF CanAddColumn
  <2> HIDE DEF n
  <2> QED BY <2>1, <1>1, BoundsAssumption
<1>6. \A i \in 1 .. n : def.columns[i].name # col.name
  <2>1. Position(def, col.name) = 0
    BY DEF CanAddColumn
  <2> QED BY <2>1, <1>1, PositionIs
<1>7. Visible(def) = {i \in 1 .. n : ~def.columns[i].dropped}
  BY DEF Visible
<1>8. \A i, j \in Visible(def) : def.columns[i].name = def.columns[j].name => i = j
  BY DEF IsDef
<1>9. IndexesOf(def) /\ def.id \in Nat \ {0} /\ def.alias \in 0 .. n
  BY DefFacts DEF IsDef
<1>10. \A name : VisiblePosition(def, name) # 0 =>
            /\ VisiblePosition(def, name) \in Visible(def)
            /\ def.columns[VisiblePosition(def, name)].name = name
  BY VisiblePositionIs
<1>11. IsDef(new) => \A name : \A i \in Visible(new) : new.columns[i].name = name => VisiblePosition(new, name) = i
  BY VisiblePositionIs
<1>12. \A i \in 1 .. Len(def.indexes) : def.indexes[i].columns \in Seq(1 .. n) \ {<<>>}
  BY <1>9 DEF IndexesOf
<1> HIDE DEF cols, s, new, n
<1>13. 1 .. n + 1 = (1 .. n) \union {n + 1} /\ n + 1 \notin 1 .. n
  BY <1>1
<1>14. Visible(new) = Visible(def) \union (IF col.dropped THEN {} ELSE {n + 1})
  <2>1. Visible(new) = {i \in 1 .. n + 1 : ~cols[i].dropped}
    BY <1>3, <1>4 DEF Visible
  <2> QED BY <2>1, <1>7, <1>13, <1>4
<1>15. \A i \in Visible(def) : i \in 1 .. n /\ cols[i] = def.columns[i]
  BY <1>4, <1>7
<1>16. \A i, j \in Visible(new) : cols[i].name = cols[j].name => i = j
  <2>1. \A i \in Visible(new) : i \in Visible(def) \/ i = n + 1
    BY <1>14
  <2>2. \A i \in Visible(def) : cols[i].name # cols[n + 1].name
    BY <1>4, <1>6, <1>15
  <2>3. \A i, j \in Visible(def) : cols[i].name = cols[j].name => i = j
    BY <1>8, <1>15
  <2> QED BY <2>1, <2>2, <2>3
<1>17. IndexesOf(new)
  <2>1. \A i \in 1 .. Len(def.indexes) : def.indexes[i].columns \in Seq(1 .. n + 1) \ {<<>>}
    <3>1. Seq(1 .. n) \subseteq Seq(1 .. n + 1)
      BY <1>13, SeqMonotonic
    <3> QED BY <1>12, <3>1
  <2>2. Len(new.columns) = n + 1 /\ new.indexes = def.indexes
    BY <1>3, <1>4
  <2> QED BY <2>1, <2>2, <1>9 DEF IndexesOf
<1>18. IsDef(new)
  <2>1. new.columns \in Seq(ColumnDefs) /\ Len(new.columns) = n + 1 /\ Len(new.columns) \in 1 .. MaxColumns
    BY <1>1, <1>3, <1>4, <1>5
  <2>2. new.order \in Seq(Nat) /\ IsPermutation(new.order, Len(new.columns))
    BY <1>2, <1>3, <2>1
  <2>3. \A i, j \in Visible(new) : new.columns[i].name = new.columns[j].name => i = j
    BY <1>3, <1>16
  <2>4. new.id \in Nat \ {0} /\ new.alias \in 0 .. Len(new.columns)
    BY <1>1, <1>3, <1>9, <2>1
  <2>5. FksInRange(new.fks, Len(new.columns))
    <3>1. FksInRange(def.fks, n) /\ new.fks = def.fks
      BY <1>3 DEF IsDef, n
    <3> QED BY <3>1, <2>1, <1>13 DEF FksInRange
  <2> QED BY <1>3, <1>17, <2>1, <2>2, <2>3, <2>4, <2>5 DEF IsDef, Shaped, IndexesOf
<1>19. ASSUME NEW name, VisiblePosition(def, name) # 0
       PROVE  VisiblePosition(new, name) = VisiblePosition(def, name)
  <2> DEFINE i == VisiblePosition(def, name)
  <2>1. i \in Visible(def) /\ def.columns[i].name = name
    BY <1>19, <1>10
  <2> HIDE DEF i
  <2>2. i \in Visible(new) /\ new.columns[i].name = name
    BY <2>1, <1>3, <1>14, <1>15
  <2> QED BY <2>2, <1>18, <1>11 DEF i
<1>20. Len(new.columns) = n + 1 /\ \A i \in 1 .. n : new.columns[i].default = def.columns[i].default
  BY <1>3, <1>4
<1>21. Altered(def, new)
  BY <1>1, <1>3, <1>18, <1>19, <1>20 DEF Altered, n
<1> QED BY <1>21 DEF new
============================================================================
