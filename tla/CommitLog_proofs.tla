-------------------------- MODULE CommitLog_proofs --------------------------
(***************************************************************************)
(* Proofs about CommitLog, for every file size, every number of commits,   *)
(* kills and power cuts.                                                   *)
(***************************************************************************)
EXTENDS CommitLog, NatLemmas

----------------------------------------------------------------------------
(***************************************************************************)
(* The recursive functions of the model satisfy their equations: the scan  *)
(* and the loss of a power cut refer to the page before, the audit to a    *)
(* page of the chain, which is further down.                               *)
(***************************************************************************)
\* The audit walks down: prev_page of a commit page is below it.
LinksGoDown ==
    \A p \in Pages : rec[p].kind = "commit" => rec[p].prevPage \in 0 .. p - 1

\* Back satisfies its equation while links go down.
LEMMA BackEquation ==
    ASSUME LinksGoDown
    PROVE  Back = [p \in 0 .. MaxPages |->
               IF p = 0 THEN {}
               ELSE IF rec[p].kind # "commit" THEN {p}
               ELSE {p} \cup Back[rec[p].prevPage]]
<1> DEFINE E(g, p) == IF p = 0 THEN {}
                      ELSE IF rec[p].kind # "commit" THEN {p}
                      ELSE {p} \cup g[rec[p].prevPage]
           Upto(g, n) == g = [p \in 0 .. n |-> E(g, p)]
           S == {n \in 0 .. MaxPages : \E g : Upto(g, n)}
<1>1. 0 \in S
  <2> DEFINE g == [p \in 0 .. 0 |-> {}]
  <2>1. Upto(g, 0)
    OBVIOUS
  <2>2. \E f : Upto(f, 0)
    <3> HIDE DEF Upto
    <3> QED BY <2>1
  <2> HIDE DEF Upto, g
  <2> QED BY <2>2, BoundsAssumption
<1>2. ASSUME NEW n \in 0 .. MaxPages - 1, n \in S
      PROVE  n + 1 \in S
  <2>1. PICK g : Upto(g, n)
    BY <1>2
  <2>2. \A p \in 0 .. n : g[p] = E(g, p)
    <3> HIDE DEF E
    <3> QED BY <2>1
  <2> DEFINE h == [p \in 0 .. n + 1 |-> IF p = n + 1 THEN E(g, n + 1) ELSE g[p]]
  <2>3. ASSUME NEW p \in 0 .. n + 1 PROVE h[p] = E(h, p)
    <3>1. CASE p = n + 1
      <4>1. p # 0 /\ (rec[p].kind = "commit" => rec[p].prevPage \in 0 .. n)
        BY <3>1, BoundsAssumption DEF Pages, LinksGoDown
      <4>2. rec[p].kind = "commit" => h[rec[p].prevPage] = g[rec[p].prevPage]
        BY <4>1
      <4>3. h[p] = E(g, p)
        BY <3>1
      <4> HIDE DEF h
      <4> QED BY <4>1, <4>2, <4>3
    <3>2. CASE p # n + 1
      <4>1. p \in 0 .. n
        BY <3>2
      <4>2. h[p] = g[p]
        BY <3>2
      <4>3. p # 0 /\ rec[p].kind = "commit" =>
              rec[p].prevPage \in 0 .. n + 1 /\ rec[p].prevPage # n + 1
        BY <4>1, BoundsAssumption DEF Pages, LinksGoDown
      <4>4. p # 0 /\ rec[p].kind = "commit" =>
              h[rec[p].prevPage] = g[rec[p].prevPage]
        BY <4>3
      <4> HIDE DEF h
      <4> QED BY <2>2, <4>1, <4>2, <4>4
    <3> QED BY <3>1, <3>2
  <2>4. Upto(h, n + 1)
    <3> HIDE DEF E
    <3> QED BY <2>3
  <2>5. \E f : Upto(f, n + 1)
    <3> HIDE DEF Upto, h
    <3> QED BY <2>4
  <2> HIDE DEF Upto, h
  <2> QED BY <2>5, BoundsAssumption
<1>3. MaxPages \in S
  <2> HIDE DEF S
  <2> QED BY <1>1, <1>2, BoundedInduction, BoundsAssumption
<1>4. \E g : g = [p \in 0 .. MaxPages |-> E(g, p)]
  BY <1>3
<1>5. Back = CHOOSE g : g = [p \in 0 .. MaxPages |-> E(g, p)]
  BY DEF Back
<1> HIDE DEF E
<1>6. Back = [p \in 0 .. MaxPages |-> E(Back, p)]
  BY <1>4, <1>5
<1> QED BY <1>6 DEF E

\* Scan satisfies its equation.
LEMMA ScanEquation ==
    ASSUME StartHead.page \in 0 .. MaxPages
    PROVE  \A p \in 0 .. MaxPages :
              Scan[p] =
                IF p <= StartHead.page THEN [head |-> StartHead, go |-> TRUE]
                ELSE LET before == Scan[p - 1]
                         chained == /\ before.go
                                    /\ rec[p].kind = "commit"
                                    /\ Chains(before.head, rec[p])
                     IN [head |-> IF chained THEN HeadFrom(rec[p], p)
                                  ELSE before.head,
                         go |-> before.go /\ (chained \/ rec[p].kind = "data")]
<1> DEFINE After(before, p) ==
             LET chained == /\ before.go
                            /\ rec[p].kind = "commit"
                            /\ Chains(before.head, rec[p])
             IN [head |-> IF chained THEN HeadFrom(rec[p], p) ELSE before.head,
                 go |-> before.go /\ (chained \/ rec[p].kind = "data")]
           E(g, p) == IF p <= StartHead.page THEN [head |-> StartHead, go |-> TRUE]
                      ELSE After(g[p - 1], p)
           Upto(g, n) == g = [p \in 0 .. n |-> E(g, p)]
           S == {n \in 0 .. MaxPages : \E g : Upto(g, n)}
<1>1. \E g : g = [p \in 0 .. MaxPages |-> E(g, p)]
  <2> HIDE DEF After
  <2>1. 0 \in S
    <3> DEFINE g == [p \in 0 .. 0 |-> [head |-> StartHead, go |-> TRUE]]
    <3>1. Upto(g, 0)
      OBVIOUS
    <3>2. \E f : Upto(f, 0)
      <4> HIDE DEF Upto
      <4> QED BY <3>1
    <3> HIDE DEF Upto, g
    <3> QED BY <3>2, BoundsAssumption
  <2>2. ASSUME NEW n \in 0 .. MaxPages - 1, n \in S
        PROVE  n + 1 \in S
    <3>1. PICK g : Upto(g, n)
      BY <2>2
    <3>2. \A p \in 0 .. n : g[p] = E(g, p)
      <4> HIDE DEF E
      <4> QED BY <3>1
    <3> DEFINE h == [p \in 0 .. n + 1 |-> IF p = n + 1 THEN E(g, n + 1) ELSE g[p]]
    <3>3. ASSUME NEW p \in 0 .. n + 1 PROVE h[p] = E(h, p)
      <4>1. CASE p = n + 1
        <5>1. h[p] = E(g, p)
          BY <4>1
        <5>2. p > StartHead.page => h[p - 1] = g[p - 1]
          BY <4>1
        <5> HIDE DEF h
        <5> QED BY <5>1, <5>2
      <4>2. CASE p # n + 1
        <5>1. h[p] = g[p] /\ g[p] = E(g, p)
          <6> HIDE DEF E
          <6> QED BY <3>2, <4>2
        <5>2. p > StartHead.page => h[p - 1] = g[p - 1]
          BY <4>2
        <5> HIDE DEF h
        <5> QED BY <5>1, <5>2
      <4> QED BY <4>1, <4>2
    <3>4. Upto(h, n + 1)
      <4> HIDE DEF E
      <4> QED BY <3>3
    <3>5. \E f : Upto(f, n + 1)
      <4> HIDE DEF Upto, h
      <4> QED BY <3>4
    <3> HIDE DEF Upto, h
    <3> QED BY <3>5, BoundsAssumption
  <2>3. MaxPages \in S
    <3> HIDE DEF S
    <3> QED BY <2>1, <2>2, BoundedInduction, BoundsAssumption
  <2> QED BY <2>3
<1>2. Scan = CHOOSE g : g = [p \in 0 .. MaxPages |-> E(g, p)]
  BY DEF Scan
<1> HIDE DEF E
<1>3. Scan = [p \in 0 .. MaxPages |-> E(Scan, p)]
  BY <1>1, <1>2
<1>4. \A p \in 0 .. MaxPages : Scan[p] = E(Scan, p)
  BY <1>3
<1> QED BY <1>4 DEF E

\* The commit page at p continues the head the scan has before it.
Chained(p) ==
    /\ Scan[p - 1].go
    /\ rec[p].kind = "commit"
    /\ Chains(Scan[p - 1].head, rec[p])

\* One step of the scan.
LEMMA ScanAt ==
    ASSUME StartHead.page \in 0 .. MaxPages, NEW p \in 0 .. MaxPages
    PROVE  /\ p <= StartHead.page =>
                 Scan[p].head = StartHead /\ Scan[p].go
           /\ p > StartHead.page =>
                 /\ Chained(p) => Scan[p].head = HeadFrom(rec[p], p) /\ Scan[p].go
                 /\ ~Chained(p) =>
                       /\ Scan[p].head = Scan[p - 1].head
                       /\ Scan[p].go <=> Scan[p - 1].go /\ rec[p].kind = "data"
<1>1. CASE p <= StartHead.page
  <2>1. Scan[p] = [head |-> StartHead, go |-> TRUE]
    BY <1>1, ScanEquation
  <2> QED BY <1>1, <2>1
<1>2. CASE p > StartHead.page
  <2>1. Scan[p] = [head |-> IF Chained(p) THEN HeadFrom(rec[p], p) ELSE Scan[p - 1].head,
                   go |-> Scan[p - 1].go /\ (Chained(p) \/ rec[p].kind = "data")]
    BY <1>2, ScanEquation DEF Chained
  <2>2. Scan[p].head = IF Chained(p) THEN HeadFrom(rec[p], p) ELSE Scan[p - 1].head
    BY <2>1
  <2>3. Scan[p].go = (Scan[p - 1].go /\ (Chained(p) \/ rec[p].kind = "data"))
    BY <2>1
  <2>4. Chained(p) => Scan[p - 1].go
    BY DEF Chained
  <2>5. ~(p <= StartHead.page)
    BY <1>2
  <2> QED BY <2>2, <2>3, <2>4, <2>5, Zenon
<1> QED BY <1>1, <1>2

\* Leftovers satisfies its equation.
LEMMA LeftoversEquation ==
    /\ Leftovers[0] = {rec}
    /\ \A n \in 1 .. MaxPages :
          Leftovers[n] = {[r EXCEPT ![n] = c] : r \in Leftovers[n - 1], c \in may[n]}
<1> DEFINE After(before, n) == {[r EXCEPT ![n] = c] : r \in before, c \in may[n]}
           E(g, n) == IF n = 0 THEN {rec} ELSE After(g[n - 1], n)
           Upto(g, m) == g = [n \in 0 .. m |-> E(g, n)]
           S == {m \in 0 .. MaxPages : \E g : Upto(g, m)}
<1>1. \E g : g = [n \in 0 .. MaxPages |-> E(g, n)]
  <2> HIDE DEF After
  <2>1. 0 \in S
    <3> DEFINE g == [n \in 0 .. 0 |-> {rec}]
    <3>1. Upto(g, 0)
      OBVIOUS
    <3>2. \E f : Upto(f, 0)
      <4> HIDE DEF Upto
      <4> QED BY <3>1
    <3> HIDE DEF Upto, g
    <3> QED BY <3>2, BoundsAssumption
  <2>2. ASSUME NEW m \in 0 .. MaxPages - 1, m \in S
        PROVE  m + 1 \in S
    <3>1. PICK g : Upto(g, m)
      BY <2>2
    <3>2. \A n \in 0 .. m : g[n] = E(g, n)
      <4> HIDE DEF E
      <4> QED BY <3>1
    <3> DEFINE h == [n \in 0 .. m + 1 |-> IF n = m + 1 THEN E(g, m + 1) ELSE g[n]]
    <3>3. ASSUME NEW n \in 0 .. m + 1 PROVE h[n] = E(h, n)
      <4>1. n # 0 => h[n - 1] = g[n - 1]
        OBVIOUS
      <4>2. CASE n = m + 1
        <5>1. h[n] = E(g, n)
          BY <4>2
        <5> HIDE DEF h
        <5> QED BY <4>1, <5>1
      <4>3. CASE n # m + 1
        <5>1. h[n] = g[n] /\ g[n] = E(g, n)
          <6> HIDE DEF E
          <6> QED BY <3>2, <4>3
        <5> HIDE DEF h
        <5> QED BY <4>1, <5>1
      <4> QED BY <4>2, <4>3
    <3>4. Upto(h, m + 1)
      <4> HIDE DEF E
      <4> QED BY <3>3
    <3>5. \E f : Upto(f, m + 1)
      <4> HIDE DEF Upto, h
      <4> QED BY <3>4
    <3> HIDE DEF Upto, h
    <3> QED BY <3>5, BoundsAssumption
  <2>3. MaxPages \in S
    <3> HIDE DEF S
    <3> QED BY <2>1, <2>2, BoundedInduction, BoundsAssumption
  <2> QED BY <2>3
<1>2. Leftovers = CHOOSE g : g = [n \in 0 .. MaxPages |-> E(g, n)]
  BY DEF Leftovers
<1> HIDE DEF E
<1>3. Leftovers = [n \in 0 .. MaxPages |-> E(Leftovers, n)]
  BY <1>1, <1>2
<1>4. \A n \in 0 .. MaxPages : Leftovers[n] = E(Leftovers, n)
  BY <1>3
<1>5. Leftovers[0] = {rec}
  <2>1. 0 \in 0 .. MaxPages
    BY BoundsAssumption
  <2>2. E(Leftovers, 0) = {rec}
    BY DEF E
  <2> QED BY <1>4, <2>1, <2>2
<1>6. ASSUME NEW n \in 1 .. MaxPages
      PROVE  Leftovers[n] = After(Leftovers[n - 1], n)
  <2> HIDE DEF After
  <2>1. n \in 0 .. MaxPages /\ n # 0
    BY BoundsAssumption
  <2> QED BY <1>4, <2>1 DEF E
<1> QED BY <1>5, <1>6

\* The four faces of the file are functions, and a read returns one of the
\* contents a power cut may leave.
FileShape ==
    /\ DOMAIN rec = Pages /\ DOMAIN may = Pages
    /\ DOMAIN slot = {0, 1} /\ DOMAIN maySlot = {0, 1}
    /\ \A p \in Pages : rec[p] \in may[p]
    /\ \A s \in {0, 1} : slot[s] \in maySlot[s]

\* A power cut leaves one of the possible contents of each slot.
LEMMA PowerCutLeaves ==
    ASSUME FileShape, PowerCut
    PROVE  /\ FileShape'
           /\ \A p \in Pages : rec'[p] \in may[p] /\ may'[p] = {rec'[p]}
           /\ \A s \in {0, 1} :
                 slot'[s] \in maySlot[s] /\ maySlot'[s] = {slot'[s]}
<1> DEFINE Leaves(r) == DOMAIN r = Pages /\ \A p \in Pages : r[p] \in may[p]
           S == {n \in 0 .. MaxPages : \A r \in Leftovers[n] : Leaves(r)}
<1>1. 0 \in S
  BY LeftoversEquation, BoundsAssumption DEF FileShape
<1>2. ASSUME NEW n \in 0 .. MaxPages - 1, n \in S
      PROVE  n + 1 \in S
  <2>1. n + 1 \in 1 .. MaxPages /\ n + 1 \in Pages /\ n + 1 - 1 = n
    BY BoundsAssumption DEF Pages
  <2>2. Leftovers[n + 1] =
          {[r EXCEPT ![n + 1] = c] : r \in Leftovers[n], c \in may[n + 1]}
    BY <2>1, LeftoversEquation
  <2>3. ASSUME NEW f \in Leftovers[n + 1]
        PROVE  Leaves(f)
    <3>1. PICK r \in Leftovers[n], c \in may[n + 1] :
              f = [r EXCEPT ![n + 1] = c]
      BY <2>2
    <3>2. Leaves(r)
      BY <1>2
    <3> QED BY <3>1, <3>2
  <2> HIDE DEF Leaves
  <2> QED BY <2>1, <2>3, BoundsAssumption
<1>3. MaxPages \in S
  <2> HIDE DEF S
  <2> QED BY <1>1, <1>2, BoundedInduction, BoundsAssumption
<1>4. PICK r \in Leftovers[MaxPages] :
          rec' = r /\ may' = [p \in Pages |-> {r[p]}]
  BY DEF PowerCut
<1>5. Leaves(r)
  BY <1>3
<1>6. PICK m \in SlotLeftovers :
          slot' = m /\ maySlot' = [s \in {0, 1} |-> {m[s]}]
  BY DEF PowerCut
<1>7. DOMAIN m = {0, 1} /\ m[0] \in maySlot[0] /\ m[1] \in maySlot[1]
  BY <1>6 DEF SlotLeftovers
<1> QED BY <1>4, <1>5, <1>6, <1>7 DEF FileShape

----------------------------------------------------------------------------
(***************************************************************************)
(* Types.                                                                  *)
(***************************************************************************)
\* A head is the genesis head or that of a commit that was begun.
HeadOK(h) ==
    /\ h.id \in 0 .. attempts /\ h.version \in Nat /\ h.page \in 0 .. MaxPages
    /\ h.counter \in Nat
    /\ h.id = 0 => h.page = 0

\* A record that page p may hold.
RecordOK(p, c) ==
    /\ c.kind \in {"empty", "torn", "data", "commit"}
    /\ c.kind = "commit" =>
          /\ c.id \in 1 .. attempts /\ c.version \in Nat
          /\ c.prev \in 0 .. c.id - 1 /\ c.prevPage \in 0 .. p - 1
          /\ c.prev = 0 => c.prevPage = 0
          /\ c.counter \in Nat

RecordsOK == \A p \in Pages : \A c \in may[p] : RecordOK(p, c)

SlotsOK ==
    \A s \in {0, 1} : \A m \in maySlot[s] :
        m.version \in Int /\ m.page \in 0 .. MaxPages

\* While the pages of a commit are being written its attempt is the newest
\* one, and its pages lie behind the head.
WriterOK ==
    /\ DOMAIN writer = {"id", "kind", "size", "done", "phase", "new"}
    /\ writer.phase \in {"none", "write", "sync", "meta"}
    /\ writer.phase = "write" =>
          /\ writer.size \in Sizes /\ writer.done \in 0 .. writer.size - 1
          /\ nextPage + writer.size - 1 <= MaxPages
          /\ writer.id = attempts /\ head.id < attempts
          /\ \A p \in Pages : \A c \in may[p] :
                c.kind = "commit" => c.id < attempts
    /\ writer.phase \in {"sync", "meta"} => writer.new.page < nextPage

TypeInv ==
    /\ FileShape /\ RecordsOK /\ SlotsOK
    /\ mode \in {"up", "down", "refused"}
    /\ attempts \in Ids
    /\ HeadOK(head) /\ HeadOK(written)
    /\ HeadOK(leader.target) /\ HeadOK(writer.new)
    /\ \A h \in pending \cup acked : HeadOK(h)
    /\ nextPage \in 1 .. MaxPages + 1 /\ head.page < nextPage
    /\ nonce \in Nat /\ durable \in Nat
    /\ leader.phase \in {"none", "sync", "meta"}
    /\ DOMAIN leader = {"target", "phase"}
    /\ WriterOK
    /\ mode # "up" => writer = NoCommit /\ leader = NoLeader /\ pending = {}

\* Naturals among the constants.
LEMMA Constants ==
    /\ MaxAttempts \in Nat /\ MaxPages \in Nat /\ RecordUnits \in Nat
    /\ \A n \in Sizes : n \in Nat /\ n >= 2
  BY BoundsAssumption, SizesAssumption, RecordUnitsAssumption

\* The invariant of types has the type invariant of the model.
LEMMA TypeInvGivesTypeOK == TypeInv => TypeOK
  BY Constants DEF TypeInv, TypeOK, FileShape, HeadOK, HeadType, Ids, WriterOK

\* Writing a record changes one slot.
LEMMA RecordWritten ==
    ASSUME FileShape, NEW p \in Pages, NEW c, WriteRecord(p, c),
           UNCHANGED <<slot, maySlot>>
    PROVE  /\ FileShape'
           /\ \A q \in Pages :
                 /\ rec'[q] = IF q = p THEN c ELSE rec[q]
                 /\ may'[q] = IF q = p THEN may[p] \cup {c, Torn} ELSE may[q]
  BY DEF FileShape, WriteRecord

\* What the sweep of the file finds.
LEMMA Swept ==
    /\ SweptPages \in 0 .. MaxPages
    /\ \A p \in 1 .. SweptPages : rec[p] # Empty
    /\ \A n \in 0 .. MaxPages :
          (\A p \in 1 .. n : rec[p] # Empty) => n <= SweptPages
<1> DEFINE S == {n \in 0 .. MaxPages : \A p \in 1 .. n : rec[p] # Empty}
<1>1. S \in SUBSET (0 .. MaxPages) /\ 0 \in S
  BY Constants
<1>2. Max(S) \in S /\ \A n \in S : Max(S) >= n
  <2> HIDE DEF S
  <2> QED BY <1>1, MaxOfBounded, Constants
<1>3. SweptPages = Max(S)
  BY DEF SweptPages
<1> QED BY <1>1, <1>2, <1>3, Constants

\* The end of the file is one of its slots, or 0.
LEMMA EndOfFileType == EndOfFile \in 0 .. MaxPages
<1> DEFINE S == {0} \cup {p \in Pages : rec[p] # Empty}
<1>1. S \in SUBSET (0 .. MaxPages) /\ S # {}
  BY Constants DEF Pages
<1>2. Max(S) \in S
  <2> HIDE DEF S
  <2> QED BY <1>1, MaxOfBounded, Constants
<1>3. EndOfFile = Max(S)
  BY DEF EndOfFile
<1> QED BY <1>1, <1>2, <1>3

\* Recovery starts from genesis or from the commit page some slot names.
LEMMA StartFound ==
    ASSUME FileShape, SlotsOK
    PROVE  \/ StartHead = GenesisHead
           \/ \E s \in {0, 1} :
                 /\ slot[s].page \in 1 .. SweptPages
                 /\ rec[slot[s].page].kind = "commit"
                 /\ StartHead = HeadFrom(rec[slot[s].page], slot[s].page)
<1>1. CASE Candidates = {}
  BY <1>1 DEF StartHead
<1>2. CASE Candidates # {}
  <2> DEFINE Newest(m) == m \in Candidates /\ \A n \in Candidates : n.version <= m.version
             found == CHOOSE m \in Candidates : \A n \in Candidates : n.version <= m.version
  <2>1. slot[0].version \in Int /\ slot[1].version \in Int
    BY DEF FileShape, SlotsOK
  <2>2. Candidates \subseteq {slot[0], slot[1]}
    BY DEF Candidates
  <2>3. \E m \in Candidates : \A n \in Candidates : n.version <= m.version
    <3>1. CASE slot[0] \in Candidates /\ slot[1] \in Candidates
      <4>1. CASE slot[0].version <= slot[1].version
        BY <2>1, <2>2, <3>1, <4>1
      <4>2. CASE slot[1].version <= slot[0].version
        BY <2>1, <2>2, <3>1, <4>2
      <4> QED BY <2>1, <4>1, <4>2
    <3>2. CASE slot[0] \notin Candidates
      BY <1>2, <2>1, <2>2, <3>2
    <3>3. CASE slot[1] \notin Candidates
      BY <1>2, <2>1, <2>2, <3>3
    <3> QED BY <3>1, <3>2, <3>3
  <2>4. found \in Candidates
    BY <2>3
  <2>5. StartHead = HeadFrom(rec[found.page], found.page)
    BY <1>2 DEF StartHead
  <2> HIDE DEF found
  <2> QED BY <2>4, <2>5 DEF Candidates
<1> QED BY <1>1, <1>2

\* The head a start and a scan make is well formed and lies in the sweep.
LEMMA ScanType ==
    ASSUME FileShape, SlotsOK, RecordsOK, attempts \in Nat
    PROVE  /\ HeadOK(StartHead) /\ StartHead.page <= SweptPages
           /\ \A p \in 0 .. SweptPages : HeadOK(Scan[p].head)
<1> USE Constants, Swept
<1>1. ASSUME NEW p \in 1 .. SweptPages, rec[p].kind = "commit"
      PROVE  HeadOK(HeadFrom(rec[p], p)) /\ HeadFrom(rec[p], p).page = p
  BY <1>1 DEF FileShape, RecordsOK, RecordOK, Pages, HeadFrom, HeadOK
<1>2. HeadOK(GenesisHead) /\ GenesisHead.page = 0
  BY DEF GenesisHead, HeadOK
<1>3. HeadOK(StartHead) /\ StartHead.page \in 0 .. SweptPages
  BY <1>1, <1>2, StartFound
<1> DEFINE S == {p \in 0 .. SweptPages : HeadOK(Scan[p].head)}
<1>4. StartHead.page \in 0 .. MaxPages
  BY <1>3
<1>5. 0 \in S
  <2>1. 0 \in 0 .. MaxPages /\ 0 <= StartHead.page
    BY <1>4
  <2>2. Scan[0].head = StartHead
    BY <1>4, <2>1, ScanAt
  <2> QED BY <1>3, <2>2
<1>6. ASSUME NEW p \in 0 .. SweptPages - 1, p \in S
      PROVE  p + 1 \in S
  <2>1. p + 1 \in 0 .. MaxPages /\ p + 1 \in 1 .. SweptPages /\ p + 1 - 1 = p
    OBVIOUS
  <2>2. Scan[p + 1].head \in {StartHead, Scan[p].head}
        \/ (rec[p + 1].kind = "commit" /\ Scan[p + 1].head = HeadFrom(rec[p + 1], p + 1))
    BY <1>4, <2>1, ScanAt DEF Chained
  <2>3. HeadOK(Scan[p + 1].head)
    BY <1>1, <1>3, <1>6, <2>1, <2>2
  <2> QED BY <2>1, <2>3
<1>7. 0 .. SweptPages \subseteq S
  <2> HIDE DEF S
  <2> QED BY <1>5, <1>6, BoundedInduction
<1> QED BY <1>3, <1>7

\* Everything a new process knows is well formed.
LEMMA OpenType ==
    ASSUME TypeInv, Open
    PROVE  TypeInv'
<1> USE Constants DEF TypeInv
<1>1. /\ UNCHANGED <<rec, may, slot, maySlot, attempts, writer, leader, pending, acked>>
      /\ head' = Recover /\ nextPage' = head'.page + 1
      /\ nonce' = head'.counter + Max({0, EndOfFile - head'.page}) * RecordUnits
      /\ durable' = head'.version /\ written' = head' /\ mode' = "up"
  BY DEF Open, fileVars
<1>2. HeadOK(Recover)
  BY ScanType, Swept DEF Recover, Ids
<1>3. Max({0, EndOfFile - head'.page}) \in Nat
  BY <1>1, <1>2, EndOfFileType, MaxOfTwo DEF HeadOK
<1>4. nonce' \in Nat
  <2>1. \A k \in Nat : k * RecordUnits \in Nat
    OBVIOUS
  <2> QED BY <1>1, <1>2, <1>3, <2>1 DEF HeadOK
<1>5. FileShape' /\ RecordsOK' /\ SlotsOK'
  BY <1>1 DEF FileShape, RecordsOK, RecordOK, SlotsOK
<1>6. /\ HeadOK(head)' /\ HeadOK(written)' /\ HeadOK(leader.target)' 
      /\ HeadOK(writer.new)' /\ \A h \in pending' \cup acked' : HeadOK(h)'
  BY <1>1, <1>2 DEF HeadOK
<1>7. nextPage' \in 1 .. MaxPages + 1 /\ head'.page < nextPage' /\ durable' \in Nat
  BY <1>1, <1>2 DEF HeadOK
<1>8. WriterOK'
  BY <1>1 DEF Open, WriterOK, NoCommit
<1> QED BY <1>1, <1>4, <1>5, <1>6, <1>7, <1>8

\* Where the writer stands, the next slot exists.
LEMMA WriterSlot ==
    ASSUME TypeInv, writer.phase = "write"
    PROVE  /\ nextPage + writer.done \in Pages
           /\ nextPage + writer.size - 1 \in Pages
           /\ writer.size \in Nat /\ writer.done \in Nat
  BY Constants DEF TypeInv, WriterOK, Pages

\* The commit page of the writer is a record of its slot, and its head one of
\* the attempt.
LEMMA NewPageType ==
    ASSUME TypeInv, writer.phase = "write"
    PROVE  /\ NewHead.page = nextPage + writer.size - 1
           /\ RecordOK(NewHead.page, NewCommitPage)
           /\ NewCommitPage.kind = "commit" /\ NewCommitPage.id = attempts
           /\ HeadOK(NewHead)
           /\ NewHead = HeadFrom(NewCommitPage, NewHead.page)
<1>1. /\ attempts \in Nat /\ head.id \in 0 .. attempts - 1 /\ head.version \in Nat
      /\ head.page \in 0 .. nextPage - 1 /\ nonce \in Nat
      /\ writer.id = attempts
      /\ head.id = 0 => head.page = 0
  BY DEF TypeInv, WriterOK, HeadOK, Ids
<1>2. /\ nextPage + writer.size - 1 \in Pages /\ nextPage \in Nat
      /\ nextPage <= nextPage + writer.size - 1
  BY WriterSlot, Constants DEF TypeInv, WriterOK
<1>3. NewHead.page = nextPage + writer.size - 1
  BY DEF NewHead, HeadFrom
<1> DEFINE c == NewCommitPage
<1>4. /\ c.kind = "commit" /\ c.id = attempts /\ c.version = head.version + 1
      /\ c.prev = head.id /\ c.prevPage = head.page /\ c.counter = nonce + 1
  BY <1>1 DEF NewCommitPage, CommitPage
<1>5. /\ NewHead.id = c.id /\ NewHead.version = c.version
      /\ NewHead.counter = c.counter
  BY DEF NewHead, HeadFrom
<1> HIDE DEF c
<1>6. RecordOK(NewHead.page, c)
  <2>1. c.id \in 1 .. attempts /\ c.prev \in 0 .. c.id - 1
    BY <1>1, <1>4
  <2>2. c.prevPage \in 0 .. NewHead.page - 1
    BY <1>1, <1>2, <1>3, <1>4 DEF Pages
  <2>3. c.version \in Nat /\ c.counter \in Nat
    BY <1>1, <1>4
  <2> QED BY <1>1, <1>4, <2>1, <2>2, <2>3 DEF RecordOK
<1>7. HeadOK(NewHead)
  BY <1>1, <1>2, <1>3, <1>4, <1>5 DEF HeadOK, Pages
<1>8. NewHead = HeadFrom(c, NewHead.page)
  BY DEF NewHead, HeadFrom, c
<1> QED BY <1>3, <1>4, <1>6, <1>7, <1>8 DEF c

\* Record types after a write.
LEMMA RecordsAfterWrite ==
    ASSUME TypeInv, NEW p \in Pages, NEW c, WriteRecord(p, c), RecordOK(p, c),
           UNCHANGED <<slot, maySlot, attempts>>
    PROVE  FileShape' /\ RecordsOK' /\ SlotsOK'
<1>1. FileShape' /\ \A q \in Pages : \A d \in may'[q] :
        d \in may[q] \/ (q = p /\ d \in {c, Torn})
  BY RecordWritten DEF TypeInv
<1>2. RecordOK(p, Torn)
  BY DEF RecordOK, Torn
<1>3. ASSUME NEW q \in Pages, NEW d \in may'[q]
      PROVE  RecordOK(q, d)
  BY <1>1, <1>2 DEF TypeInv, RecordsOK
<1>4. RecordsOK'
  BY <1>3 DEF RecordsOK, RecordOK
<1> QED BY <1>1, <1>4 DEF TypeInv, SlotsOK

\* An fdatasync keeps the types of the file.
LEMMA SyncType ==
    ASSUME TypeInv, SyncData, attempts' = attempts
    PROVE  FileShape' /\ RecordsOK' /\ SlotsOK'
  BY DEF TypeInv, SyncData, FileShape, RecordsOK, RecordOK, SlotsOK

\* A meta slot written for a head, whole or in part, keeps them too.
LEMMA MetaType ==
    ASSUME TypeInv, NEW h, HeadOK(h), UNCHANGED <<rec, may, attempts>>,
           WriteMetaSlot(h) \/ MetaWriteFails(h)
    PROVE  FileShape' /\ RecordsOK' /\ SlotsOK'
<1>1. SlotOf(h) \in {0, 1}
  BY DEF SlotOf, HeadOK
<1>2. /\ DOMAIN slot' = {0, 1} /\ DOMAIN maySlot' = {0, 1}
      /\ \A s \in {0, 1} : slot'[s] \in maySlot'[s]
      /\ \A s \in {0, 1} : \A m \in maySlot'[s] :
            m \in maySlot[s] \/ m = MetaFor(h) \/ m = TornSlot
  BY <1>1 DEF TypeInv, FileShape, WriteMetaSlot, MetaWriteFails
<1>3. SlotsOK'
  BY <1>2, Constants DEF SlotsOK, TypeInv, MetaFor, TornSlot, HeadOK
<1> QED BY <1>2, <1>3 DEF TypeInv, FileShape, RecordsOK, RecordOK

\* A step that leaves the file alone keeps its types.
LEMMA FileKept ==
    ASSUME TypeInv, UNCHANGED <<rec, may, slot, maySlot>>,
           attempts' \in Nat, attempts <= attempts'
    PROVE  FileShape' /\ RecordsOK' /\ SlotsOK'
<1>1. attempts \in Nat
  BY Constants DEF TypeInv, Ids
<1>2. RecordsOK'
  BY <1>1 DEF TypeInv, FileShape, RecordsOK, RecordOK
<1> QED BY <1>2 DEF TypeInv, FileShape, SlotsOK

\* A process that died leaves nothing in memory that could be wrong.
LEMMA DownType ==
    ASSUME TypeInv, Down, FileShape', RecordsOK', SlotsOK'
    PROVE  TypeInv'
<1>1. HeadOK(GenesisHead)'
  BY Constants DEF HeadOK, GenesisHead, TypeInv, Down, Ids
<1>2. /\ mode' = "down" /\ head' = GenesisHead /\ written' = GenesisHead
      /\ nextPage' = 1 /\ nonce' = 0 /\ durable' = 0
      /\ writer' = NoCommit /\ leader' = NoLeader /\ pending' = {}
      /\ attempts' = attempts /\ acked' = acked
  BY DEF Down
<1>3. WriterOK'
  BY <1>2 DEF WriterOK, NoCommit
<1>4. \A h \in acked' : HeadOK(h)'
  BY <1>2 DEF TypeInv, HeadOK
<1>5. /\ writer'.new = GenesisHead /\ DOMAIN leader' = {"target", "phase"}
      /\ leader'.target = GenesisHead /\ leader'.phase = "none"
  BY <1>2 DEF NoCommit, NoLeader
<1>6. nextPage' \in 1 .. MaxPages + 1 /\ head'.page < nextPage'
  BY <1>2, Constants DEF GenesisHead
<1> QED BY <1>1, <1>2, <1>3, <1>4, <1>5, <1>6 DEF TypeInv

\* TypeInv holds initially.
LEMMA TypeInit == Init => TypeInv
<1> SUFFICES ASSUME Init PROVE TypeInv
  OBVIOUS
<1> USE Constants
<1>1. /\ may = [p \in Pages |-> {rec[p]}] /\ mode = "up" /\ writer = NoCommit
      /\ durable = head.version /\ written = head /\ leader = NoLeader
      /\ pending = {}
  BY DEF Init
<1>2. CASE InitCreated
  <2>1. FileShape /\ RecordsOK /\ SlotsOK
    BY <1>1, <1>2 DEF InitCreated, FileShape, RecordsOK, RecordOK, SlotsOK,
                      Empty, GenesisSlot
  <2>2. /\ HeadOK(GenesisHead) /\ head = GenesisHead /\ acked = {} /\ attempts \in Ids
        /\ nextPage \in 1 .. MaxPages + 1 /\ head.page < nextPage
        /\ nonce \in Nat /\ durable \in Nat
    BY <1>1, <1>2 DEF InitCreated, HeadOK, GenesisHead, Ids
  <2> QED BY <1>1, <2>1, <2>2 DEF TypeInv, WriterOK, NoCommit, NoLeader
<1>3. CASE "compacted" \in Origins /\ InitCompacted
  <2>0. MaxPages >= 2 /\ MaxAttempts >= 1
    BY <1>3, OriginsAssumption
  <2>1. /\ SlotOf(CheckpointHead) = 0 /\ MetaFor(CheckpointHead).version = 2
        /\ MetaFor(CheckpointHead).page = 2
    BY DEF SlotOf, CheckpointHead, CheckpointPage, HeadFrom, MetaFor, CheckpointVersion
  <2>2. \A p \in Pages : RecordOK(p, rec[p])
    <3>1. attempts = 1
      BY <1>3 DEF InitCompacted
    <3>2. RecordOK(2, CheckpointPage)
      BY <3>1 DEF RecordOK, CheckpointPage, CheckpointVersion
    <3>3. \A p \in Pages : rec[p] \in {DataPage(1, 0), Empty} \/ (p = 2 /\ rec[p] = CheckpointPage)
      BY <1>3 DEF InitCompacted
    <3>4. \A p \in Pages : RecordOK(p, DataPage(1, 0)) /\ RecordOK(p, Empty)
      BY DEF RecordOK, DataPage, Empty
    <3> HIDE DEF CheckpointPage
    <3> QED BY <3>2, <3>3, <3>4
  <2>3. FileShape /\ RecordsOK
    <3>1. /\ DOMAIN rec = Pages /\ DOMAIN slot = {0, 1} /\ DOMAIN maySlot = {0, 1}
          /\ \A s \in {0, 1} : slot[s] \in maySlot[s]
      BY <1>3 DEF InitCompacted
    <3> QED BY <1>1, <2>2, <3>1 DEF FileShape, RecordsOK
  <2>4. SlotsOK
    BY <1>3, <2>0, <2>1 DEF InitCompacted, SlotsOK, GenesisSlot, TornSlot
  <2>5. /\ head = CheckpointHead /\ acked = {CheckpointHead}
        /\ attempts = 1 /\ nextPage = 3 /\ nonce = 2
    BY <1>3 DEF InitCompacted
  <2>6. HeadOK(CheckpointHead) /\ CheckpointHead.page = 2 /\ CheckpointHead.version = 2
    BY <2>0, <2>5 DEF HeadOK, CheckpointHead, CheckpointPage, HeadFrom, CheckpointVersion
  <2>7. HeadOK(GenesisHead)
    BY <2>5 DEF HeadOK, GenesisHead
  <2> HIDE DEF CheckpointHead
  <2>8. /\ attempts \in Ids /\ nextPage \in 1 .. MaxPages + 1
        /\ head.page < nextPage /\ nonce \in Nat /\ durable \in Nat
    BY <1>1, <2>0, <2>5, <2>6 DEF Ids
  <2> QED BY <1>1, <2>3, <2>4, <2>5, <2>6, <2>7, <2>8 DEF TypeInv, WriterOK, NoCommit, NoLeader
<1> QED BY <1>2, <1>3 DEF Init

\* A commit keeps the types: each of its steps writes one record or none.
LEMMA CommitStepsType ==
    ASSUME TypeInv,
           \/ \E kind \in {"tx", "publish"}, size \in Sizes : BeginCommit(kind, size)
           \/ WriteDataPage \/ WriteCommitPage \/ WriteFails
    PROVE  TypeInv'
<1> USE Constants
<1>1. ASSUME NEW kind, NEW size \in Sizes, BeginCommit(kind, size)
      PROVE  TypeInv'
  <2>1. /\ UNCHANGED <<rec, may, slot, maySlot, mode, head, nextPage, nonce,
                       written, leader, pending, durable, acked>>
        /\ attempts \in Nat /\ attempts' = attempts + 1 /\ attempts' \in Ids
        /\ writer'.phase = "write" /\ writer'.id = attempts'
        /\ writer'.size = size /\ writer'.done = 0 /\ writer'.new = GenesisHead
        /\ nextPage + size - 1 <= MaxPages /\ mode = "up"
    BY <1>1 DEF BeginCommit, fileVars, TypeInv, Ids
  <2>5. DOMAIN writer' = {"id", "kind", "size", "done", "phase", "new"}
    BY <1>1 DEF BeginCommit
  <2>2. FileShape' /\ RecordsOK' /\ SlotsOK'
    BY <2>1, FileKept
  <2>3. WriterOK'
    <3>1. \A p \in Pages : \A c \in may'[p] : c.kind = "commit" => c.id < attempts'
      BY <2>1 DEF TypeInv, RecordsOK, RecordOK
    <3>2. head'.id < attempts'
      BY <2>1 DEF TypeInv, HeadOK
    <3>3. writer'.size \in Sizes /\ writer'.done \in 0 .. writer'.size - 1
      BY <2>1
    <3>4. nextPage' + writer'.size - 1 <= MaxPages
      BY <2>1
    <3> QED BY <2>1, <2>5, <3>1, <3>2, <3>3, <3>4 DEF WriterOK
  <2>4. /\ HeadOK(head)' /\ HeadOK(written)'
        /\ HeadOK(leader.target)' /\ HeadOK(writer.new)'
        /\ \A h \in pending' \cup acked' : HeadOK(h)'
    BY <2>1 DEF TypeInv, HeadOK, GenesisHead
  <2> QED BY <2>1, <2>2, <2>3, <2>4 DEF TypeInv
<1>2. CASE WriteDataPage
  <2> DEFINE p == nextPage + writer.done
             c == DataPage(writer.id, nonce)
  <2>1. p \in Pages /\ writer.phase = "write" /\ mode = "up"
    BY <1>2, WriterSlot DEF WriteDataPage
  <2>2. /\ WriteRecord(p, c)
        /\ UNCHANGED <<slot, maySlot, attempts, mode, head, nextPage, written,
                       leader, pending, durable, acked>>
        /\ nonce' = nonce + 1 /\ writer' = [writer EXCEPT !.done = @ + 1]
        /\ writer.done < writer.size - 1
    BY <1>2 DEF WriteDataPage, histVars
  <2>3. c.kind = "data" /\ RecordOK(p, c)
    BY DEF DataPage, RecordOK
  <2>4. \A q \in Pages : \A d \in may'[q] : d \in may[q] \/ d = c \/ d = Torn
    <3> HIDE DEF c, p
    <3>1. FileShape
      BY DEF TypeInv
    <3>2. \A q \in Pages : may'[q] = IF q = p THEN may[p] \cup {c, Torn} ELSE may[q]
      BY <2>1, <2>2, <3>1, RecordWritten
    <3> QED BY <3>2
  <2>5. \A q \in Pages : \A d \in may'[q] : d.kind = "commit" => d \in may[q]
    BY <2>3, <2>4 DEF Torn
  <2> HIDE DEF c, p
  <2>6. FileShape' /\ RecordsOK' /\ SlotsOK'
    BY <2>1, <2>2, <2>3, RecordsAfterWrite
  <2>7. /\ writer'.phase = writer.phase /\ writer'.id = writer.id
        /\ writer'.size = writer.size /\ writer'.new = writer.new
    BY <2>2
  <2>8. writer'.done \in 0 .. writer'.size - 1
    <3>1. writer'.done \in {writer.done + 1, writer.done}
      BY <2>2
    <3> QED BY <2>1, <2>2, <2>7, <3>1 DEF TypeInv, WriterOK
  <2>9. WriterOK'
    BY <2>1, <2>2, <2>5, <2>7, <2>8 DEF TypeInv, WriterOK
  <2> QED BY <2>1, <2>2, <2>6, <2>7, <2>9 DEF TypeInv, HeadOK
<1>3. CASE WriteCommitPage
  <2> DEFINE p == NewHead.page
             c == NewCommitPage
  <2>1. writer.phase = "write" /\ mode = "up"
    BY <1>3 DEF WriteCommitPage
  <2>2. /\ p = nextPage + writer.size - 1 /\ p \in Pages
        /\ RecordOK(p, c) /\ HeadOK(NewHead)
    BY <2>1, WriterSlot, NewPageType
  <2>3. /\ WriteRecord(p, c) /\ nonce' = nonce + 1 /\ nextPage' = p + 1
        /\ UNCHANGED <<slot, maySlot, attempts, mode, leader, durable, acked>>
    BY <1>3 DEF WriteCommitPage, histVars
  <2>4. HeadOK(head) /\ HeadOK(written) /\ nextPage \in Nat /\ head.page < nextPage
        /\ writer.size \in Nat /\ writer.size >= 2
    BY <2>1, WriterSlot DEF TypeInv, WriterOK
  <2> HIDE DEF c, p
  <2>5. FileShape' /\ RecordsOK' /\ SlotsOK'
    BY <2>2, <2>3, RecordsAfterWrite
  <2>6. CASE writer.kind = "tx"
    <3>1. /\ head' = NewHead /\ written' = NewHead /\ writer' = NoCommit
          /\ pending' = pending \cup {NewHead}
      BY <1>3, <2>6 DEF WriteCommitPage
    <3>2. head'.page = p
      BY <3>1 DEF p
    <3>3. WriterOK'
      BY <3>1 DEF WriterOK, NoCommit
    <3>4. HeadOK(writer.new)'
      <4>1. writer'.new = GenesisHead /\ attempts' \in Nat
        BY <3>1, <2>3 DEF NoCommit, TypeInv, Ids
      <4> QED BY <4>1 DEF GenesisHead, HeadOK
    <3> HIDE DEF NewHead
    <3>5. nextPage' \in 1 .. MaxPages + 1 /\ head'.page < nextPage'
      BY <2>2, <2>3, <3>2 DEF Pages
    <3>6. HeadOK(head)' /\ HeadOK(written)' /\ \A h \in pending' : HeadOK(h)'
      BY <2>2, <2>3, <3>1 DEF HeadOK, TypeInv
    <3> QED BY <2>1, <2>3, <2>5, <3>3, <3>4, <3>5, <3>6 DEF TypeInv, HeadOK
  <2>7. CASE writer.kind # "tx"
    <3>1. /\ writer' = [writer EXCEPT !.phase = "sync", !.new = NewHead]
          /\ UNCHANGED <<head, written, pending>>
      BY <1>3, <2>7 DEF WriteCommitPage
    <3> HIDE DEF NewHead
    <3>2. writer'.phase \in {"sync", writer.phase} /\ writer'.new \in {NewHead, writer.new}
      BY <3>1
    <3>3. WriterOK'
      <4>1. /\ DOMAIN writer' = {"id", "kind", "size", "done", "phase", "new"}
            /\ writer'.phase = "sync" /\ writer'.new = NewHead
        BY <3>1 DEF TypeInv, WriterOK
      <4>2. writer'.new.page < nextPage'
        BY <2>2, <2>3, <4>1 DEF Pages, p
      <4> QED BY <4>1, <4>2 DEF WriterOK
    <3>4. HeadOK(writer.new)'
      BY <2>2, <2>3, <3>2 DEF HeadOK, TypeInv
    <3>5. nextPage' \in 1 .. MaxPages + 1 /\ head'.page < nextPage'
      <4>1. head'.page = head.page /\ head.page \in Nat
        BY <2>4, <3>1 DEF HeadOK
      <4> QED BY <2>2, <2>3, <2>4, <4>1 DEF Pages
    <3> QED BY <2>1, <2>3, <2>5, <3>1, <3>3, <3>4, <3>5 DEF TypeInv, HeadOK
  <2> QED BY <2>6, <2>7
<1>4. CASE WriteFails
  <2> DEFINE p == nextPage + writer.done
  <2>1. p \in Pages /\ writer.phase = "write" /\ mode = "up"
    BY <1>4, WriterSlot DEF WriteFails
  <2>2. PICK c \in {rec[p], Torn} : WriteRecord(p, c)
    BY <1>4 DEF WriteFails
  <2>3. /\ UNCHANGED <<slot, maySlot, attempts, mode, head, nextPage, written,
                       leader, pending, durable, acked>>
        /\ nonce' = nonce + 1 /\ writer' = NoCommit
    BY <1>4 DEF WriteFails, histVars
  <2>4. RecordOK(p, c)
    BY <2>1, <2>2 DEF TypeInv, FileShape, RecordsOK, RecordOK, Torn
  <2> HIDE DEF p
  <2>5. FileShape' /\ RecordsOK' /\ SlotsOK'
    BY <2>1, <2>2, <2>3, <2>4, RecordsAfterWrite
  <2>6. WriterOK' /\ HeadOK(writer.new)'
    BY <2>3 DEF WriterOK, NoCommit, HeadOK, GenesisHead, TypeInv, Ids
  <2> QED BY <2>1, <2>3, <2>5, <2>6 DEF TypeInv, HeadOK
<1> QED BY <1>1, <1>2, <1>3, <1>4

\* The call of a phase fails: the types of the file stay.
LEMMA CallFailsType ==
    ASSUME TypeInv, NEW h, HeadOK(h), NEW op, NEW phase, CallFails(op, phase, h),
           attempts' = attempts
    PROVE  FileShape' /\ RecordsOK' /\ SlotsOK'
<1>1. UNCHANGED <<rec, may>>
  BY DEF CallFails
<1>2. attempts \in Nat
  BY Constants DEF TypeInv, Ids
<1>3. CASE MetaWriteFails(h)
  BY <1>1, <1>3, MetaType
<1>4. CASE UNCHANGED <<slot, maySlot>>
  BY <1>1, <1>2, <1>4, FileKept
<1> QED BY <1>3, <1>4 DEF CallFails

\* The steps of publish_commit keep the types.
LEMMA PublishStepsType ==
    ASSUME TypeInv, PublishSync \/ PublishFails \/ PublishHead
    PROVE  TypeInv'
<1> USE Constants
<1>1. HeadOK(writer.new) /\ HeadOK(GenesisHead) /\ attempts \in Nat
  BY DEF TypeInv, HeadOK, GenesisHead, Ids
<1>2. CASE PublishSync
  <2>1. /\ SyncData /\ writer' = [writer EXCEPT !.phase = "meta"]
        /\ UNCHANGED <<mode, head, nextPage, nonce, durable, written, leader,
                       pending, attempts, acked>>
        /\ mode = "up" /\ writer.phase = "sync"
    BY <1>2 DEF PublishSync, histVars
  <2>2. FileShape' /\ RecordsOK' /\ SlotsOK'
    BY <2>1, SyncType
  <2>3. WriterOK' /\ writer'.new = writer.new
    <3>1. /\ DOMAIN writer' = {"id", "kind", "size", "done", "phase", "new"}
          /\ writer'.phase = "meta" /\ writer'.new = writer.new
      BY <2>1 DEF TypeInv, WriterOK
    <3> QED BY <2>1, <3>1 DEF TypeInv, WriterOK
  <2> QED BY <2>1, <2>2, <2>3 DEF TypeInv, HeadOK
<1>3. CASE PublishFails
  <2>1. /\ CallFails("publish", writer.phase, writer.new) /\ writer' = NoCommit
        /\ UNCHANGED <<mode, head, nextPage, nonce, durable, written, leader,
                       pending, attempts, acked>>
    BY <1>3 DEF PublishFails, histVars
  <2>2. FileShape' /\ RecordsOK' /\ SlotsOK'
    BY <1>1, <2>1, CallFailsType
  <2>3. WriterOK' /\ writer'.new = GenesisHead
    BY <2>1 DEF WriterOK, NoCommit
  <2> QED BY <1>1, <2>1, <2>2, <2>3 DEF TypeInv, HeadOK
<1>4. CASE PublishHead
  <2>1. /\ WriteMetaSlot(writer.new) /\ writer' = NoCommit /\ head' = writer.new
        /\ acked' = acked \cup {writer.new}
        /\ UNCHANGED <<rec, may, mode, nextPage, nonce, durable, written, leader,
                       pending, attempts>>
    BY <1>4 DEF PublishHead
  <2>2. FileShape' /\ RecordsOK' /\ SlotsOK'
    BY <1>1, <2>1, MetaType
  <2>3. WriterOK' /\ writer'.new = GenesisHead
    BY <2>1 DEF WriterOK, NoCommit
  <2>4. writer.new.page < nextPage
    BY <1>4 DEF TypeInv, WriterOK, PublishHead
  <2> QED BY <1>1, <2>1, <2>2, <2>3, <2>4 DEF TypeInv, HeadOK
<1> QED BY <1>2, <1>3, <1>4

\* The steps of make_durable keep the types.
LEMMA SealStepsType ==
    ASSUME TypeInv, LeadSeal \/ SealSync \/ SealDone \/ SealFails
    PROVE  TypeInv'
<1> USE Constants
<1>1. /\ HeadOK(leader.target) /\ HeadOK(written) /\ HeadOK(GenesisHead)
      /\ attempts \in Nat /\ DOMAIN NoLeader = {"target", "phase"}
      /\ NoLeader.target = GenesisHead /\ NoLeader.phase = "none"
  BY DEF TypeInv, HeadOK, GenesisHead, Ids, NoLeader
<1> DEFINE Kept == UNCHANGED <<mode, head, nextPage, nonce, writer, written, attempts>>
<1>2. ASSUME FileShape', RecordsOK', SlotsOK', Kept, mode = "up",
             HeadOK(leader'.target), DOMAIN leader' = {"target", "phase"},
             leader'.phase \in {"none", "sync", "meta"},
             durable' \in Nat, \A h \in pending' \cup acked' : HeadOK(h),
             \A p \in Pages : \A c \in may'[p] : c.kind = "commit" => c \in may[p]
      PROVE  TypeInv'
  <2>1. WriterOK'
    BY <1>2 DEF TypeInv, WriterOK
  <2> QED BY <1>2, <2>1 DEF TypeInv, HeadOK
<1>3. CASE LeadSeal
  <2>1. /\ UNCHANGED <<rec, may, slot, maySlot, pending, acked, durable>> /\ Kept
        /\ mode = "up" /\ leader' = [target |-> written, phase |-> "sync"]
    BY <1>3 DEF LeadSeal, fileVars, histVars
  <2>2. FileShape' /\ RecordsOK' /\ SlotsOK'
    BY <1>1, <2>1, FileKept
  <2>3. /\ leader'.target = written /\ leader'.phase = "sync"
        /\ DOMAIN leader' = {"target", "phase"}
    BY <2>1
  <2>4. durable' \in Nat /\ \A h \in pending' \cup acked' : HeadOK(h)
    BY <2>1 DEF TypeInv
  <2> QED BY <1>1, <1>2, <2>1, <2>2, <2>3, <2>4
<1>4. CASE SealSync
  <2>1. /\ SyncData /\ UNCHANGED <<pending, acked, durable>> /\ Kept
        /\ mode = "up" /\ leader' = [leader EXCEPT !.phase = "meta"]
    BY <1>4 DEF SealSync, histVars
  <2>2. FileShape' /\ RecordsOK' /\ SlotsOK'
    BY <1>1, <2>1, SyncType
  <2>3. /\ leader'.target = leader.target /\ leader'.phase = "meta"
        /\ DOMAIN leader' = {"target", "phase"}
    BY <2>1 DEF TypeInv
  <2>4. durable' \in Nat /\ \A h \in pending' \cup acked' : HeadOK(h)
    BY <2>1 DEF TypeInv
  <2>5. \A p \in Pages : \A c \in may'[p] : c \in may[p]
    BY <2>1 DEF SyncData, TypeInv, FileShape
  <2> QED BY <1>1, <1>2, <2>1, <2>2, <2>3, <2>4, <2>5
<1>5. CASE SealDone
  <2>1. /\ WriteMetaSlot(leader.target) /\ UNCHANGED <<rec, may>> /\ Kept
        /\ mode = "up" /\ leader' = NoLeader
        /\ durable' = Max({durable, leader.target.version})
        /\ acked' = acked \cup {h \in pending : h.version <= durable'}
        /\ pending' = {h \in pending : h.version > durable'}
    BY <1>5 DEF SealDone
  <2>2. FileShape' /\ RecordsOK' /\ SlotsOK'
    BY <1>1, <2>1, MetaType
  <2>3. durable' \in Nat
    BY <1>1, <2>1, MaxOfTwo DEF TypeInv, HeadOK
  <2>4. \A h \in pending' \cup acked' : HeadOK(h)
    BY <2>1 DEF TypeInv
  <2> QED BY <1>1, <1>2, <2>1, <2>2, <2>3, <2>4
<1>6. CASE SealFails
  <2>1. /\ CallFails("seal", leader.phase, leader.target) /\ Kept
        /\ mode = "up" /\ leader' = NoLeader /\ UNCHANGED <<acked, durable>>
        /\ \E h \in pending : pending' = pending \ {h}
    BY <1>6 DEF SealFails, histVars
  <2>2. FileShape' /\ RecordsOK' /\ SlotsOK'
    BY <1>1, <2>1, CallFailsType
  <2>3. durable' \in Nat /\ \A h \in pending' \cup acked' : HeadOK(h)
    BY <2>1 DEF TypeInv
  <2>4. UNCHANGED may
    BY <2>1 DEF CallFails
  <2> QED BY <1>1, <1>2, <2>1, <2>2, <2>3, <2>4
<1> QED BY <1>3, <1>4, <1>5, <1>6

\* TypeInv is inductive.
LEMMA TypeStep == TypeInv /\ [Next]_vars => TypeInv'
<1> SUFFICES ASSUME TypeInv, [Next]_vars PROVE TypeInv'
  OBVIOUS
<1> USE Constants
<1>1. CASE Kill
  <2>1. UNCHANGED <<rec, may, slot, maySlot, attempts>> /\ Down
    BY <1>1 DEF Kill, Down, fileVars
  <2>2. FileShape' /\ RecordsOK' /\ SlotsOK'
    BY <2>1, FileKept DEF TypeInv, Ids
  <2> QED BY <2>1, <2>2, DownType
<1>2. CASE PowerCut
  <2>1. Down /\ attempts' = attempts
    BY <1>2 DEF PowerCut, Down
  <2>2. FileShape' /\ RecordsOK' /\ SlotsOK'
    BY <1>2, <2>1, PowerCutLeaves DEF TypeInv, RecordsOK, RecordOK, SlotsOK
  <2> QED BY <2>1, <2>2, DownType
<1>3. CASE OpenRefused
  <2>1. UNCHANGED <<rec, may, slot, maySlot, head, nextPage, nonce, writer,
                    durable, written, leader, pending, attempts, acked>>
        /\ mode = "down" /\ mode' = "refused"
    BY <1>3 DEF OpenRefused, fileVars, memVars, histVars
  <2>2. FileShape' /\ RecordsOK' /\ SlotsOK'
    BY <2>1, FileKept DEF TypeInv, Ids
  <2> QED BY <2>1, <2>2 DEF TypeInv, HeadOK, WriterOK
<1>4. CASE UNCHANGED vars
  <2>1. UNCHANGED <<rec, may, slot, maySlot, mode, head, nextPage, nonce, writer,
                    durable, written, leader, pending, attempts, acked>>
    BY <1>4 DEF vars
  <2>2. FileShape' /\ RecordsOK' /\ SlotsOK'
    BY <2>1, FileKept DEF TypeInv, Ids
  <2> QED BY <2>1, <2>2 DEF TypeInv, HeadOK, WriterOK
<1> QED
  BY <1>1, <1>2, <1>3, <1>4, OpenType, CommitStepsType, PublishStepsType,
     SealStepsType DEF Next

\* The types of the store hold in every reachable state, whatever fails and
\* however often the process dies.
THEOREM TypeCorrect == Spec => []TypeOK
<1>1. TypeInv => TypeOK
  BY TypeInvGivesTypeOK
<1> QED BY <1>1, TypeInit, TypeStep, PTL DEF Spec

----------------------------------------------------------------------------
(***************************************************************************)
(* No acknowledged commit is lost.                                         *)
(*                                                                         *)
(* Good(n) says that pages 1 to n are a history: every page is readable    *)
(* and every commit page continues the one before it, with nothing but     *)
(* data pages in between.  An anchor is the commit page of a good and      *)
(* synced history.  The argument is that every commit a caller was told    *)
(* about, and every commit a meta slot may name, is an anchor; that no     *)
(* step writes at or below one; and that the scan of an open, which can    *)
(* only start from an anchor, goes past all of them.                       *)
(***************************************************************************)
IsCommit(p) == p \in Pages /\ rec[p].kind = "commit"

\* The ids of the commits that a read or a power cut may turn up name their
\* slots: the tail of an abandoned write is never mistaken for a commit.
UniqueIds ==
    \A p, q \in Pages : \A c \in may[p], d \in may[q] :
        c.kind = "commit" /\ d.kind = "commit" =>
            /\ c.id = d.id => p = q
            /\ d.prev = c.id => d.prevPage = p

\* A head stands for a commit page of the file.
OnFile(h) ==
    \/ h = GenesisHead
    \/ IsCommit(h.page) /\ h = HeadFrom(rec[h.page], h.page)

\* The commit page p continues the commit before it.
Linked(p) ==
    /\ rec[p].prevPage \in 0 .. p - 1
    /\ \A q \in rec[p].prevPage + 1 .. p - 1 : rec[q].kind = "data"
    /\ rec[p].prevPage = 0 =>
          rec[p].prev = 0 /\ (rec[p].checkpoint \/ rec[p].version = 1)
    /\ rec[p].prevPage # 0 =>
          /\ rec[rec[p].prevPage].kind = "commit"
          /\ rec[rec[p].prevPage].id = rec[p].prev
          /\ rec[rec[p].prevPage].version + 1 = rec[p].version

Newest(p) == \A q \in 1 .. p - 1 : rec[q].kind = "commit" => rec[q].version < rec[p].version

Good(n) ==
    \A p \in 1 .. n :
       /\ rec[p].kind \in {"data", "commit"}
       /\ rec[p].kind = "commit" => Linked(p) /\ Newest(p)

Hard(n) == \A p \in 1 .. n : may[p] = {rec[p]}

Anchor(n) == IsCommit(n) /\ Good(n) /\ Hard(n)

\* Whatever a caller or a meta slot holds on to is an anchor.
AnchorsInv ==
    /\ \A a \in acked : OnFile(a) /\ Anchor(a.page)
    /\ \A s \in {0, 1} : \A m \in maySlot[s] : m.page # 0 => Anchor(m.page)
    /\ leader.phase = "meta" => Anchor(leader.target.page)
    /\ writer.phase = "meta" => Anchor(writer.new.page)

\* The head of a store that is up covers all of it.
ReachInv ==
    mode = "up" =>
       /\ \A a \in acked : a.page <= head.page
       /\ \A s \in {0, 1} : \A m \in maySlot[s] : m.page <= head.page

Below(h) == OnFile(h) /\ h.page <= head.page

HeadsInv ==
    mode = "up" =>
       /\ OnFile(head) /\ Good(head.page)
       /\ Below(written)
       /\ \A h \in pending : Below(h) /\ h.page # 0 /\ h.version > durable
       /\ pending # {} => written.page # 0
       /\ leader.phase # "none" => Below(leader.target) /\ leader.target.page # 0
       /\ durable <= head.version

\* The pages of a commit in progress lie right behind the head.
WriterInv ==
    mode = "up" =>
       /\ writer.phase \in {"none", "write"} => nextPage = head.page + 1
       /\ writer.phase = "write" =>
             \A q \in nextPage .. nextPage + writer.done - 1 : rec[q].kind = "data"
       /\ writer.phase \in {"sync", "meta"} =>
             /\ IsCommit(writer.new.page) /\ OnFile(writer.new)
             /\ Good(writer.new.page)
             /\ nextPage = writer.new.page + 1 /\ writer.new.page > head.page
             /\ writer.new.version = head.version + 1

LogInv ==
    TypeInv /\ UniqueIds /\ AnchorsInv /\ ReachInv /\ HeadsInv /\ WriterInv

\* The prefix of a history is a history.
LEMMA GoodPrefix ==
    ASSUME NEW n \in Nat, NEW m \in Nat, m <= n, Good(n)
    PROVE  Good(m)
  BY DEF Good

\* A commit of a synced history is an anchor.
LEMMA AnchorPrefix ==
    ASSUME NEW n \in Nat, NEW m \in Nat, m <= n, Anchor(n), IsCommit(m)
    PROVE  Anchor(m)
  BY GoodPrefix DEF Anchor, Hard

\* A history stays one while its pages stay.
LEMMA GoodKept ==
    ASSUME NEW n \in Nat, Good(n), \A p \in 1 .. n : rec'[p] = rec[p]
    PROVE  Good(n)'
<1>1. ASSUME NEW p \in 1 .. n, rec[p].kind = "commit"
      PROVE  Linked(p)' /\ Newest(p)'
  <2>1. Linked(p) /\ Newest(p)
    BY <1>1 DEF Good
  <2>2. rec'[p] = rec[p]
    OBVIOUS
  <2>3. rec[p].prevPage \in 0 .. p - 1
    BY <2>1 DEF Linked
  <2>4. \A q \in 1 .. p - 1 : rec'[q] = rec[q]
    OBVIOUS
  <2>5. Newest(p)'
    BY <2>1, <2>2, <2>4 DEF Newest
  <2>6. \A q \in rec[p].prevPage + 1 .. p - 1 : rec'[q].kind = "data"
    BY <2>1, <2>3, <2>4 DEF Linked
  <2>7. rec[p].prevPage # 0 => rec'[rec[p].prevPage] = rec[rec[p].prevPage]
    BY <2>3, <2>4
  <2>8. Linked(p)'
    BY <2>1, <2>2, <2>6, <2>7 DEF Linked
  <2> QED BY <2>5, <2>8
<1> QED BY <1>1 DEF Good

\* So does an anchor whose pages are not written.
LEMMA AnchorKept ==
    ASSUME NEW n \in Nat, Anchor(n),
           \A p \in 1 .. n : rec'[p] = rec[p] /\ may'[p] = {rec[p]}
    PROVE  Anchor(n)'
<1>1. n \in Pages /\ n \in 1 .. n
  BY DEF Anchor, IsCommit, Pages
<1> QED BY <1>1, GoodKept DEF Anchor, IsCommit, Hard

\* A head keeps its commit page while that page is not written.
LEMMA OnFileKept ==
    ASSUME NEW h, OnFile(h), h.page # 0 => rec'[h.page] = rec[h.page]
    PROVE  OnFile(h)'
  BY DEF OnFile, IsCommit, Pages, GenesisHead

\* Where a head that is on the file stands in a history.
LEMMA HeadsOrdered ==
    ASSUME NEW g, NEW h, HeadOK(g), HeadOK(h), OnFile(g), OnFile(h), Good(h.page),
           g.page <= h.page
    PROVE  /\ g.version <= h.version
           /\ g.page # h.page /\ g.page # 0 => g.version < h.version
           /\ h.page # 0 => IsCommit(h.page) /\ h = HeadFrom(rec[h.page], h.page)
           /\ h.page = 0 => h = GenesisHead
<1>1. h.page \in Nat /\ g.page \in Nat /\ h.version \in Nat
  BY Constants DEF HeadOK
<1>2. \A f : OnFile(f) => /\ f.page # 0 => IsCommit(f.page) /\ f = HeadFrom(rec[f.page], f.page)
                          /\ f.page = 0 => f = GenesisHead
  BY DEF OnFile, IsCommit, Pages, GenesisHead
<1>3. CASE g.page = 0
  BY <1>1, <1>2, <1>3 DEF GenesisHead
<1>4. CASE g.page # 0 /\ g.page = h.page
  BY <1>1, <1>2, <1>4
<1>5. CASE g.page # 0 /\ g.page # h.page
  <2>1. g.page \in 1 .. h.page - 1 /\ h.page \in 1 .. h.page
    BY <1>1, <1>5
  <2>2. IsCommit(h.page) /\ IsCommit(g.page)
    BY <1>2, <1>5, <2>1
  <2>3. Newest(h.page)
    BY <2>1, <2>2 DEF Good, IsCommit
  <2>4. rec[g.page].version < rec[h.page].version
    BY <2>1, <2>2, <2>3 DEF Newest, IsCommit
  <2>5. g.version = rec[g.page].version /\ h.version = rec[h.page].version
    BY <1>2, <1>5, <2>1 DEF HeadFrom
  <2> QED BY <1>1, <1>2, <2>4, <2>5, Constants DEF HeadOK
<1> QED BY <1>3, <1>4, <1>5

\* The audit of a history finds every commit page of it.
LEMMA ChainComplete ==
    ASSUME LinksGoDown, NEW n \in 0 .. MaxPages, Good(n), IsCommit(n),
           NEW p \in 1 .. n, rec[p].kind = "commit"
    PROVE  p \in Back[n]
<1> USE Constants
<1> DEFINE S == {m \in Nat : m \in 1 .. n /\ IsCommit(m) =>
                    \A q \in 1 .. m : rec[q].kind = "commit" => q \in Back[m]}
<1>1. ASSUME NEW m \in Nat, \A k \in 0 .. m - 1 : k \in S
      PROVE  m \in S
  <2> SUFFICES ASSUME m \in 1 .. n, IsCommit(m), NEW q \in 1 .. m,
                      rec[q].kind = "commit"
               PROVE  q \in Back[m]
    OBVIOUS
  <2>1. Linked(m)
    BY DEF Good, IsCommit
  <2> DEFINE k == rec[m].prevPage
  <2>2. Back[m] = {m} \cup Back[k]
    BY BackEquation DEF IsCommit
  <2>3. CASE q = m
    BY <2>2, <2>3
  <2>4. CASE q # m
    <3>1. k \in 0 .. m - 1 /\ (\A r \in k + 1 .. m - 1 : rec[r].kind = "data")
          /\ (k # 0 => rec[k].kind = "commit")
      BY <2>1 DEF Linked
    <3> HIDE DEF k
    <3>2. q <= k
      BY <2>4, <3>1
    <3>3. k \in S /\ k \in 1 .. n /\ IsCommit(k)
      BY <1>1, <3>1, <3>2 DEF IsCommit, Pages
    <3>4. q \in Back[k]
      BY <3>2, <3>3
    <3> QED BY <2>2, <3>4
  <2> QED BY <2>3, <2>4
<1>2. \A m \in Nat : m \in S
  <2> HIDE DEF S
  <2> QED BY <1>1, StrongInduction
<1> QED BY <1>2

\* The commit that prev_chain names is the one that prev_page names.
LEMMA PrevPageNamed ==
    ASSUME UniqueIds, NEW p \in Pages, NEW q \in Pages,
           rec[p].kind = "commit", rec[q].kind = "commit",
           rec[p] \in may[p], rec[q] \in may[q], rec[p].prev = rec[q].id
    PROVE  rec[p].prevPage = q
  BY DEF UniqueIds

\* What an open recovers, when its start is the head of a history: a commit
\* of the file with a history, beyond every commit that has one.
LEMMA RecoverFinds ==
    ASSUME FileShape, SlotsOK, RecordsOK, attempts \in Nat, UniqueIds,
           OnFile(StartHead), Good(StartHead.page)
    PROVE  /\ OnFile(Recover) /\ Good(Recover.page) /\ HeadOK(Recover)
           /\ Recover.page \in 0 .. MaxPages
           /\ \A n \in Pages : IsCommit(n) /\ Good(n) => n <= Recover.page
<1> USE Constants, Swept
<1>1. /\ HeadOK(StartHead) /\ StartHead.page \in 0 .. SweptPages
      /\ StartHead.page \in 0 .. MaxPages
      /\ \A p \in 0 .. SweptPages : HeadOK(Scan[p].head)
  BY ScanType DEF HeadOK
<1>2. \A p \in Pages : RecordOK(p, rec[p])
  BY DEF FileShape, RecordsOK
<1> DEFINE Found(h, p) == OnFile(h) /\ h.page \in 0 .. p /\ Good(h.page)
           Ahead(h, p) == \A q \in h.page + 1 .. p : rec[q].kind = "data"
           Passed(h, go, p) ==
              \A n \in Pages : IsCommit(n) /\ Good(n) =>
                 (p <= n => go) /\ (n <= p => n <= h.page)
           Sound(p) == /\ Found(Scan[p].head, p)
                       /\ Scan[p].go => Ahead(Scan[p].head, p)
                       /\ Passed(Scan[p].head, Scan[p].go, p)
           S == {k \in 0 .. SweptPages - StartHead.page : Sound(StartHead.page + k)}
<1>3. 0 \in S
  <2>1. Scan[StartHead.page].head = StartHead /\ Scan[StartHead.page].go
    BY <1>1, ScanAt
  <2>2. StartHead.page + 0 = StartHead.page
    BY <1>1
  <2>3. Found(StartHead, StartHead.page) /\ Ahead(StartHead, StartHead.page)
    BY <1>1
  <2>4. Passed(StartHead, TRUE, StartHead.page)
    OBVIOUS
  <2> HIDE DEF Found, Ahead
  <2>5. Sound(StartHead.page)
    BY <2>1, <2>3, <2>4
  <2> HIDE DEF Sound
  <2> QED BY <1>1, <2>2, <2>5
<1>4. ASSUME NEW k \in 0 .. SweptPages - StartHead.page - 1, k \in S
      PROVE  k + 1 \in S
  <2> DEFINE b == StartHead.page + k
             p == b + 1
             h == Scan[b].head
  <2>1. /\ b \in 0 .. SweptPages - 1 /\ p \in Pages /\ p \in 0 .. MaxPages
        /\ p > StartHead.page /\ p - 1 = b /\ b \in Nat
        /\ StartHead.page + (k + 1) = p
    BY <1>1 DEF Pages
  <2>2. Sound(b)
    BY <1>4
  <2> HIDE DEF b, p, Found, Ahead, Passed
  <2>3. Found(h, b) /\ (Scan[b].go => Ahead(h, b)) /\ Passed(h, Scan[b].go, b)
    BY <2>2
  <2>4. HeadOK(h) /\ h.page \in 0 .. b
    BY <1>1, <2>1, <2>3 DEF Found
  <2> HIDE DEF h, Sound
  <2>5. /\ Chained(p) => Scan[p].head = HeadFrom(rec[p], p) /\ Scan[p].go
        /\ ~Chained(p) => /\ Scan[p].head = h
                          /\ Scan[p].go <=> Scan[b].go /\ rec[p].kind = "data"
    BY <1>1, <2>1, ScanAt DEF h
  <2>6. Chained(p) <=> /\ Scan[b].go /\ rec[p].kind = "commit" /\ Chains(h, rec[p])
    BY <2>1 DEF Chained, h
  \* A commit with a history chains to what the scan has.
  <2>7. ASSUME NEW n \in Pages, IsCommit(n), Good(n), p <= n
        PROVE  rec[p].kind = "data" \/ Chained(p)
    <3>1. Scan[b].go /\ Ahead(h, b)
      BY <2>1, <2>3, <2>7 DEF Passed, Pages
    <3> SUFFICES ASSUME rec[p].kind = "commit" PROVE Chains(h, rec[p])
      BY <2>1, <2>6, <2>7, <3>1 DEF Good, Pages
    <3>2. Linked(p)
      BY <2>1, <2>7 DEF Good, Pages
    <3>3. h.page = rec[p].prevPage
      <4>1. rec[p].prevPage \in 0 .. b /\ \A q \in rec[p].prevPage + 1 .. b : rec[q].kind = "data"
        BY <2>1, <3>2 DEF Linked
      <4>2. h.page # 0 => rec[h.page].kind = "commit"
        BY <2>3 DEF Found, OnFile, IsCommit, GenesisHead
      <4>3. rec[p].prevPage # 0 => rec[rec[p].prevPage].kind = "commit"
        BY <3>2 DEF Linked
      <4>4. ~(h.page < rec[p].prevPage)
        BY <2>1, <2>4, <3>1, <4>1, <4>3 DEF Ahead
      <4>5. ~(rec[p].prevPage < h.page)
        BY <2>1, <2>4, <4>1, <4>2
      <4> QED BY <2>1, <2>4, <4>1, <4>4, <4>5
    <3>4. CASE h.page = 0
      <4>1. h = GenesisHead
        BY <2>3, <3>4 DEF Found, OnFile, IsCommit, Pages
      <4> QED BY <3>2, <3>3, <3>4, <4>1 DEF Linked, Chains, GenesisHead
    <3>5. CASE h.page # 0
      <4>1. h = HeadFrom(rec[h.page], h.page)
        BY <2>3, <3>5 DEF Found, OnFile, GenesisHead
      <4>2. h.id = rec[h.page].id /\ h.version = rec[h.page].version
        BY <4>1 DEF HeadFrom
      <4> QED BY <3>2, <3>3, <3>5, <4>2 DEF Linked, Chains
    <3> QED BY <3>4, <3>5
  <2>8. ASSUME ~Chained(p) PROVE Sound(p)
    <3>1. Found(Scan[p].head, p)
      BY <2>1, <2>3, <2>4, <2>5, <2>8 DEF Found
    <3>2. Scan[p].go => Ahead(Scan[p].head, p)
      BY <2>1, <2>3, <2>4, <2>5, <2>8 DEF Ahead
    <3>3. Passed(Scan[p].head, Scan[p].go, p)
      <4> SUFFICES ASSUME NEW n \in Pages, IsCommit(n), Good(n)
                   PROVE  (p <= n => Scan[p].go) /\ (n <= p => n <= h.page)
        BY <2>5, <2>8 DEF Passed
      <4>1. n \in Nat /\ (b <= n => Scan[b].go) /\ (n <= b => n <= h.page)
        BY <2>3 DEF Passed, Pages
      <4>2. CASE p <= n
        <5>1. rec[p].kind = "data"
          BY <2>7, <2>8, <4>2
        <5>2. n # p
          BY <5>1 DEF IsCommit
        <5> QED BY <2>1, <2>5, <2>8, <4>1, <4>2, <5>1, <5>2
      <4>3. CASE ~(p <= n)
        BY <2>1, <4>1, <4>3
      <4> QED BY <4>2, <4>3
    <3> QED BY <3>1, <3>2, <3>3 DEF Sound
  <2>9. ASSUME Chained(p) PROVE Sound(p)
    <3> DEFINE g == HeadFrom(rec[p], p)
    <3>1. /\ Scan[p].head = g /\ Scan[p].go /\ g.page = p
          /\ rec[p].kind = "commit" /\ Chains(h, rec[p]) /\ Ahead(h, b)
      BY <2>3, <2>5, <2>6, <2>9 DEF HeadFrom
    <3>2. IsCommit(p) /\ OnFile(g)
      BY <2>1, <3>1 DEF OnFile, IsCommit
    <3>3. Good(h.page) /\ OnFile(h)
      BY <2>3 DEF Found
    <3>4. /\ rec[p].prev \in Nat /\ rec[p].prevPage \in Nat /\ rec[p].version \in Nat
          /\ rec[p].prev = 0 => rec[p].prevPage = 0
      BY <1>2, <2>1, <3>1 DEF RecordOK, Pages
    <3>5. /\ rec[p].prevPage = h.page
          /\ h.page = 0 => rec[p].prev = 0 /\ (rec[p].checkpoint \/ rec[p].version = 1)
          /\ h.page # 0 => /\ IsCommit(h.page) /\ rec[h.page].id = rec[p].prev
                           /\ rec[h.page].version + 1 = rec[p].version
      <4>1. CASE h.page = 0
        <5>1. h = GenesisHead
          BY <3>3, <4>1 DEF OnFile, IsCommit, Pages
        <5> QED BY <3>1, <3>4, <4>1, <5>1 DEF Chains, GenesisHead
      <4>2. CASE h.page # 0
        <5>1. IsCommit(h.page) /\ h = HeadFrom(rec[h.page], h.page)
          BY <3>3, <4>2 DEF OnFile, GenesisHead
        <5>2. h.id = rec[h.page].id /\ h.version = rec[h.page].version
          BY <5>1 DEF HeadFrom
        <5>3. rec[p].prev = rec[h.page].id /\ rec[h.page].version + 1 = rec[p].version
          BY <3>1, <4>2, <5>2 DEF Chains
        <5>4. rec[p] \in may[p] /\ rec[h.page] \in may[h.page]
          BY <2>1, <5>1 DEF FileShape, IsCommit
        <5>5. rec[p].prevPage = h.page
          <6>1. p \in Pages /\ h.page \in Pages
            BY <2>1, <5>1 DEF IsCommit
          <6>2. rec[p].kind = "commit" /\ rec[h.page].kind = "commit"
            BY <3>1, <5>1 DEF IsCommit
          <6> QED BY <5>3, <5>4, <6>1, <6>2, PrevPageNamed
        <5> QED BY <4>2, <5>1, <5>3, <5>5
      <4> QED BY <4>1, <4>2
    <3>6. \A q \in h.page + 1 .. p - 1 : rec[q].kind = "data"
      BY <2>1, <3>1 DEF Ahead
    <3>7. Linked(p)
      BY <2>1, <2>4, <3>5, <3>6 DEF Linked, IsCommit
    <3>8. Newest(p)
      <4> SUFFICES ASSUME NEW q \in 1 .. p - 1, rec[q].kind = "commit"
                   PROVE  rec[q].version < rec[p].version
        BY DEF Newest
      <4>1. q <= h.page
        BY <2>1, <2>4, <3>6
      <4>2. IsCommit(h.page) /\ IsCommit(q) /\ h.page # 0
        BY <2>1, <2>4, <3>5, <4>1 DEF IsCommit, Pages
      <4>3. q # h.page => rec[q].version < rec[h.page].version
        BY <2>4, <3>3, <4>1, <4>2 DEF Good, Newest, IsCommit, Pages
      <4>4. rec[q].version \in Nat /\ rec[h.page].version \in Nat
        BY <1>2, <4>2 DEF RecordOK, IsCommit
      <4> QED BY <3>4, <3>5, <4>2, <4>3, <4>4
    <3>9. Good(p)
      <4> SUFFICES ASSUME NEW q \in 1 .. p
                   PROVE  /\ rec[q].kind \in {"data", "commit"}
                          /\ rec[q].kind = "commit" => Linked(q) /\ Newest(q)
        BY DEF Good
      <4>1. CASE q = p
        BY <3>1, <3>7, <3>8, <4>1
      <4>2. CASE q # p /\ q > h.page
        BY <2>1, <2>4, <3>6, <4>2
      <4>3. CASE q <= h.page
        BY <2>4, <3>3, <4>3 DEF Good
      <4> QED BY <2>1, <2>4, <4>1, <4>2, <4>3
    <3>10. Found(g, p) /\ Ahead(g, p)
      BY <2>1, <3>1, <3>2, <3>9 DEF Found, Ahead
    <3>11. Passed(g, Scan[p].go, p)
      BY <3>1, <2>1 DEF Passed, Pages
    <3> HIDE DEF g
    <3> QED BY <3>1, <3>10, <3>11 DEF Sound
  <2>10. Sound(p)
    BY <2>8, <2>9
  <2>11. k + 1 \in 0 .. SweptPages - StartHead.page
    BY <1>1
  <2> QED BY <2>1, <2>10, <2>11
<1>5. 0 .. SweptPages - StartHead.page \subseteq S
  <2> HIDE DEF S
  <2>1. SweptPages - StartHead.page \in Nat
    BY <1>1
  <2> QED BY <1>3, <1>4, <2>1, BoundedInduction
<1>6. Sound(SweptPages)
  <2>1. SweptPages - StartHead.page \in S
    BY <1>1, <1>5
  <2>2. StartHead.page + (SweptPages - StartHead.page) = SweptPages
    BY <1>1
  <2> HIDE DEF Sound
  <2> QED BY <2>1, <2>2
<1>7. ASSUME NEW n \in Pages, IsCommit(n), Good(n)
      PROVE  n <= SweptPages
  <2>1. \A p \in 1 .. n : rec[p] # Empty
    BY <1>7 DEF Good, Empty
  <2> QED BY <2>1 DEF Pages
<1> HIDE DEF Found, Ahead, Passed, S
<1>8. Found(Recover, SweptPages) /\ Passed(Recover, Scan[SweptPages].go, SweptPages)
  BY <1>6 DEF Recover
<1> QED BY <1>1, <1>7, <1>8 DEF Found, Passed, Recover, Pages

\* A step that writes no record keeps heads and histories.
LEMMA RecordsKept ==
    ASSUME UNCHANGED rec
    PROVE  /\ \A h : OnFile(h) => OnFile(h)'
           /\ \A n \in Nat : Good(n) => Good(n)'
           /\ \A n : IsCommit(n) => IsCommit(n)'
  BY GoodKept, OnFileKept DEF IsCommit

\* What the invariant says of page numbers.
LEMMA PageNumbers ==
    ASSUME TypeInv
    PROVE  /\ head.page \in Nat /\ nextPage \in Nat /\ head.page < nextPage
           /\ written.page \in Nat /\ leader.target.page \in Nat
           /\ writer.new.page \in Nat
           /\ head.version \in Nat /\ durable \in Nat /\ leader.target.version \in Nat
           /\ \A h \in pending \cup acked : h.page \in Nat /\ h.version \in Nat
           /\ \A s \in {0, 1} : \A m \in maySlot[s] : m.page \in Nat
           /\ \A p \in Pages : p \in Nat /\ p <= MaxPages /\ p # 0
  BY Constants DEF TypeInv, HeadOK, SlotsOK, Pages

\* Recovery starts from an anchor, or from the beginning of the file.
LEMMA StartAnchored ==
    ASSUME TypeInv, AnchorsInv
    PROVE  OnFile(StartHead) /\ Good(StartHead.page)
<1>1. CASE StartHead = GenesisHead
  BY <1>1 DEF OnFile, GenesisHead, Good
<1>2. ASSUME NEW s \in {0, 1}, slot[s].page \in 1 .. SweptPages,
             rec[slot[s].page].kind = "commit",
             StartHead = HeadFrom(rec[slot[s].page], slot[s].page)
      PROVE  OnFile(StartHead) /\ Good(StartHead.page)
  <2>1. Anchor(slot[s].page)
    BY <1>2, Swept DEF AnchorsInv, TypeInv, FileShape
  <2>2. StartHead.page = slot[s].page
    BY <1>2 DEF HeadFrom
  <2> QED BY <1>2, <2>1, <2>2 DEF Anchor, OnFile
<1> QED BY <1>1, <1>2, StartFound DEF TypeInv

\* Opening recovers a head that covers every anchor.
LEMMA OpenKeepsLog ==
    ASSUME LogInv, Open
    PROVE  LogInv'
<1> USE DEF LogInv
<1>1. /\ UNCHANGED <<rec, may, slot, maySlot, writer, leader, pending, acked>>
      /\ mode = "down" /\ mode' = "up" /\ head' = Recover
      /\ nextPage' = head'.page + 1 /\ durable' = head'.version /\ written' = head'
      /\ writer = NoCommit /\ leader = NoLeader /\ pending = {}
  BY DEF Open, fileVars, TypeInv
<1>2. /\ OnFile(Recover) /\ Good(Recover.page) /\ HeadOK(Recover)
      /\ Recover.page \in 0 .. MaxPages
      /\ \A n \in Pages : IsCommit(n) /\ Good(n) => n <= Recover.page
  BY RecoverFinds, StartAnchored, Constants DEF TypeInv, Ids
<1>3. UniqueIds'
  BY <1>1 DEF UniqueIds
<1>4. ASSUME NEW n \in Nat, Anchor(n)
      PROVE  Anchor(n)' /\ n <= Recover.page
  <2>1. n \in Pages /\ IsCommit(n) /\ Good(n)
    BY <1>4 DEF Anchor, IsCommit
  <2>2. \A p \in 1 .. n : may[p] = {rec[p]}
    BY <1>4 DEF Anchor, Hard
  <2> QED BY <1>1, <1>2, <1>4, <2>1, <2>2, AnchorKept
<1>5. AnchorsInv'
  BY <1>1, <1>4, PageNumbers, RecordsKept DEF AnchorsInv, NoCommit, NoLeader
<1>6. ReachInv'
  BY <1>1, <1>2, <1>4, PageNumbers DEF ReachInv, AnchorsInv
<1>7. OnFile(head)' /\ Good(head.page)'
  BY <1>1, <1>2, RecordsKept
<1>8. HeadsInv'
  <2>1. Below(written)'
    BY <1>1, <1>2, <1>7 DEF Below
  <2>2. durable' <= head'.version
    BY <1>1, <1>2 DEF HeadOK
  <2> QED BY <1>1, <1>7, <2>1, <2>2 DEF HeadsInv, NoLeader
<1>9. WriterInv'
  BY <1>1 DEF WriterInv, NoCommit
<1> QED BY <1>3, <1>5, <1>6, <1>8, <1>9, OpenType

\* A crash: a kill leaves the file, a power cut what had been synced of it.
LEMMA CrashKeepsLog ==
    ASSUME LogInv, Kill \/ PowerCut, TypeInv'
    PROVE  LogInv'
<1> USE DEF LogInv
<1>1. /\ mode' = "down" /\ writer' = NoCommit /\ leader' = NoLeader
      /\ pending' = {} /\ acked' = acked
  BY DEF Kill, PowerCut, Down
<1>2. /\ \A p \in Pages : rec'[p] \in may[p] /\ may'[p] \subseteq may[p]
      /\ \A s \in {0, 1} : maySlot'[s] \subseteq maySlot[s]
      /\ \A p \in Pages : may[p] = {rec[p]} => may'[p] = {rec[p]} /\ rec'[p] = rec[p]
  <2>1. CASE Kill
    BY <2>1 DEF Kill, fileVars, TypeInv, FileShape
  <2>2. CASE PowerCut
    BY <2>2, PowerCutLeaves DEF TypeInv
  <2> QED BY <2>1, <2>2
<1>3. UniqueIds'
  BY <1>2 DEF UniqueIds
<1>4. ASSUME NEW n \in Nat, Anchor(n)
      PROVE  Anchor(n)' /\ rec'[n] = rec[n]
  <2>1. n \in Pages
    BY <1>4 DEF Anchor, IsCommit
  <2>2. \A p \in 1 .. n : p \in Pages /\ may[p] = {rec[p]}
    BY <1>4, <2>1, Constants DEF Anchor, Hard, Pages
  <2>3. \A p \in 1 .. n : rec'[p] = rec[p] /\ may'[p] = {rec[p]}
    BY <1>2, <2>2
  <2>4. n \in 1 .. n
    BY <2>1 DEF Pages
  <2> QED BY <1>4, <2>3, <2>4, AnchorKept
<1>5. AnchorsInv'
  <2>1. \A a \in acked : OnFile(a)'
    BY <1>4, PageNumbers, OnFileKept DEF AnchorsInv
  <2> QED BY <1>1, <1>2, <1>4, <2>1, PageNumbers DEF AnchorsInv, NoCommit, NoLeader
<1> QED BY <1>1, <1>3, <1>5 DEF ReachInv, HeadsInv, WriterInv

\* A record written behind the head leaves every anchor and every head alone.
LEMMA WriteBehindHead ==
    ASSUME LogInv, mode = "up", writer.phase = "write",
           NEW p \in Pages, NEW c, p >= nextPage, WriteRecord(p, c),
           UNCHANGED <<slot, maySlot>>
    PROVE  /\ \A q \in 1 .. head.page : rec'[q] = rec[q] /\ may'[q] = may[q]
           /\ rec'[p] = c
           /\ \A q \in Pages : may'[q] = IF q = p THEN may[p] \cup {c, Torn} ELSE may[q]
           /\ \A n \in Nat : Anchor(n) /\ n <= head.page => Anchor(n)'
           /\ \A n \in Nat : Good(n) /\ n <= head.page => Good(n)'
           /\ \A h : Below(h) => OnFile(h)'
<1>1. /\ FileShape /\ head.page \in Nat /\ nextPage \in Nat /\ head.page < nextPage
      /\ \A q \in 1 .. head.page : q \in Pages /\ q < p
  BY Constants, PageNumbers DEF LogInv, TypeInv, Pages
<1>2. \A q \in Pages : /\ rec'[q] = IF q = p THEN c ELSE rec[q]
                       /\ may'[q] = IF q = p THEN may[p] \cup {c, Torn} ELSE may[q]
  BY <1>1, RecordWritten
<1>3. \A q \in 1 .. head.page : rec'[q] = rec[q] /\ may'[q] = may[q]
  BY <1>1, <1>2
<1>4. ASSUME NEW n \in Nat, Anchor(n), n <= head.page
      PROVE  Anchor(n)'
  <2>1. \A q \in 1 .. n : rec'[q] = rec[q] /\ may'[q] = {rec[q]}
    BY <1>1, <1>3, <1>4 DEF Anchor, Hard
  <2> QED BY <1>4, <2>1, AnchorKept
<1>5. \A n \in Nat : Good(n) /\ n <= head.page => Good(n)'
  BY <1>1, <1>3, GoodKept
<1>6. ASSUME NEW h, Below(h)
      PROVE  OnFile(h)'
  <2>1. h.page # 0 => h.page \in 1 .. head.page
    BY <1>1, <1>6 DEF Below, OnFile, IsCommit, Pages, GenesisHead
  <2> QED BY <1>3, <1>6, <2>1, OnFileKept DEF Below
<1> QED BY <1>1, <1>2, <1>3, <1>4, <1>5, <1>6

\* After such a write the anchors are still anchors, and still covered.
LEMMA AnchorsBehindHead ==
    ASSUME LogInv, mode = "up", writer.phase = "write",
           NEW p \in Pages, NEW c, p >= nextPage, WriteRecord(p, c),
           UNCHANGED <<slot, maySlot, acked, leader>>,
           writer'.phase # "meta", head'.page \in Nat, head.page <= head'.page
    PROVE  AnchorsInv' /\ ReachInv'
<1> USE DEF LogInv
<1>1. /\ \A n \in Nat : Anchor(n) /\ n <= head.page => Anchor(n)'
      /\ \A h : Below(h) => OnFile(h)'
  BY WriteBehindHead
<1>2. \A a \in acked : OnFile(a)' /\ Anchor(a.page)' /\ a.page <= head'.page
  BY <1>1, PageNumbers DEF AnchorsInv, ReachInv, Below
<1>3. \A s \in {0, 1} : \A m \in maySlot[s] :
         (m.page # 0 => Anchor(m.page)') /\ m.page <= head'.page
  BY <1>1, PageNumbers DEF AnchorsInv, ReachInv
<1>4. leader.phase = "meta" => Anchor(leader.target.page)'
  BY <1>1, PageNumbers DEF AnchorsInv, HeadsInv, Below
<1> QED BY <1>2, <1>3, <1>4 DEF AnchorsInv, ReachInv

\* And so are the heads the store keeps.
LEMMA HeadsBehindHead ==
    ASSUME LogInv, mode = "up", writer.phase = "write",
           NEW p \in Pages, NEW c, p >= nextPage, WriteRecord(p, c),
           UNCHANGED <<slot, maySlot, mode, head, written, pending, leader, durable>>
    PROVE  HeadsInv'
<1> USE DEF LogInv
<1>1. /\ \A n \in Nat : Good(n) /\ n <= head.page => Good(n)'
      /\ \A h : Below(h) => OnFile(h)'
  BY WriteBehindHead
<1>2. OnFile(head)' /\ Good(head.page)'
  BY <1>1, PageNumbers DEF HeadsInv, Below
<1>3. \A h : Below(h) => Below(h)'
  BY <1>1 DEF Below
<1>4. Below(written)' /\ (Below(leader.target) => Below(leader.target)')
  BY <1>3 DEF HeadsInv
<1>5. \A h \in pending' : Below(h)'
  BY <1>3 DEF HeadsInv
<1> QED BY <1>2, <1>4, <1>5 DEF HeadsInv

\* A record that is no commit gives no id away.
LEMMA NoNewCommit ==
    ASSUME UniqueIds,
           \A p \in Pages : \A c \in may'[p] : c.kind = "commit" => c \in may[p]
    PROVE  UniqueIds'
  BY DEF UniqueIds

\* Data pages, and writes that fail, stay behind the head.
LEMMA DataKeepsLog ==
    ASSUME LogInv, WriteDataPage \/ WriteFails, TypeInv'
    PROVE  LogInv'
<1> USE DEF LogInv
<1> DEFINE p == nextPage + writer.done
<1>1. /\ mode = "up" /\ writer.phase = "write" /\ p \in Pages /\ p >= nextPage
      /\ UNCHANGED <<slot, maySlot, mode, head, nextPage, written, pending,
                     leader, durable, acked>>
  <2>1. writer.phase = "write"
    BY DEF WriteDataPage, WriteFails
  <2> QED BY <2>1, WriterSlot, PageNumbers DEF WriteDataPage, WriteFails, histVars
<1>2. PICK c : WriteRecord(p, c) /\ (c.kind = "commit" => c = rec[p])
               /\ (WriteDataPage => c.kind = "data")
  <2>1. CASE WriteDataPage
    <3>1. DataPage(writer.id, nonce).kind = "data"
      BY DEF DataPage
    <3> QED BY <2>1, <3>1 DEF WriteDataPage
  <2>2. CASE WriteFails /\ ~WriteDataPage
    BY <2>2 DEF WriteFails, Torn
  <2> QED BY <2>1, <2>2
<1> HIDE DEF p
<1>3. rec'[p] = c /\ \A q \in Pages : may'[q] = IF q = p THEN may[p] \cup {c, Torn} ELSE may[q]
  BY <1>1, <1>2, WriteBehindHead
<1>4. UniqueIds'
  <2>1. \A q \in Pages : \A d \in may'[q] : d.kind = "commit" => d \in may[q]
    BY <1>1, <1>2, <1>3 DEF TypeInv, FileShape, Torn
  <2> QED BY <2>1, NoNewCommit
<1>5. writer'.phase \in {"write", "none"} /\ (writer'.phase = "write" => WriteDataPage)
  <2>1. WriteDataPage => writer'.phase = "write"
    BY DEF WriteDataPage, TypeInv, WriterOK
  <2>2. ~WriteDataPage => writer'.phase = "none"
    BY DEF WriteFails, NoCommit
  <2> QED BY <2>1, <2>2
<1>6. AnchorsInv' /\ ReachInv'
  BY <1>1, <1>2, <1>5, AnchorsBehindHead, PageNumbers
<1>7. HeadsInv'
  BY <1>1, <1>2, HeadsBehindHead
<1>8. WriterInv'
  <2>1. nextPage' = head'.page + 1
    BY <1>1 DEF WriterInv
  <2>2. ASSUME writer'.phase = "write", NEW q \in nextPage .. nextPage + writer'.done - 1
        PROVE  rec'[q].kind = "data"
    <3>1. writer' = [writer EXCEPT !.done = @ + 1]
      BY <1>5, <2>2 DEF WriteDataPage
    <3>2. writer'.done = writer.done + 1 /\ writer.done \in Nat
      BY <1>1, <3>1, WriterSlot DEF TypeInv, WriterOK
    <3>3. CASE q = p
      BY <1>2, <1>3, <1>5, <2>2, <3>3
    <3>4. CASE q # p
      <4>1. q \in nextPage .. nextPage + writer.done - 1
        BY <3>2, <3>4, PageNumbers DEF p
      <4>2. rec[q].kind = "data"
        BY <1>1, <4>1 DEF WriterInv
      <4>3. rec'[q] = rec[q]
        BY <1>1, <1>2, <3>4 DEF WriteRecord, TypeInv, FileShape
      <4> QED BY <4>2, <4>3
    <3> QED BY <3>3, <3>4
  <2> QED BY <1>1, <1>5, <2>1, <2>2 DEF WriterInv
<1> QED BY <1>4, <1>6, <1>7, <1>8

\* The commit page closes the history behind the head: what it makes is the
\* head of a history, one version on.
LEMMA NewCommitGood ==
    ASSUME LogInv, WriteCommitPage, NEW h, h = NewHead
    PROVE  /\ UniqueIds'
           /\ h.page \in Pages /\ h.page > head.page
           /\ h.version = head.version + 1
           /\ OnFile(h)' /\ IsCommit(h.page)' /\ Good(h.page)'
<1> USE DEF LogInv
<1> USE Constants
<1> DEFINE p == h.page
           c == NewCommitPage
<1>1. /\ mode = "up" /\ writer.phase = "write" /\ writer.done = writer.size - 1
      /\ WriteRecord(p, c) /\ UNCHANGED <<slot, maySlot>>
  BY DEF WriteCommitPage
<1>2. /\ p = nextPage + writer.size - 1 /\ p \in Pages /\ p \in Nat
      /\ writer.size \in Nat /\ writer.size >= 2 /\ writer.id = attempts
      /\ h = HeadFrom(c, p) /\ nextPage = head.page + 1
      /\ head.page \in Nat /\ head.page < p /\ p >= nextPage
  BY <1>1, NewPageType, WriterSlot, PageNumbers DEF TypeInv, WriterOK, WriterInv
<1>3. /\ c.kind = "commit" /\ c.id = attempts /\ c.version = head.version + 1
      /\ c.prev = head.id /\ c.prevPage = head.page
  BY <1>2 DEF NewCommitPage, CommitPage
<1>4. /\ h.id = c.id /\ h.version = c.version
  BY <1>2 DEF HeadFrom
<1> HIDE DEF p, c
<1>5. /\ \A q \in 1 .. head.page : rec'[q] = rec[q] /\ may'[q] = may[q]
      /\ rec'[p] = c
      /\ \A q \in Pages : may'[q] = IF q = p THEN may[p] \cup {c, Torn} ELSE may[q]
      /\ \A n \in Nat : Good(n) /\ n <= head.page => Good(n)'
      /\ \A q \in Pages : q # p => rec'[q] = rec[q]
  BY <1>1, <1>2, WriteBehindHead DEF WriteRecord, TypeInv, FileShape
<1>6. \A q \in head.page + 1 .. p - 1 : rec'[q].kind = "data"
  <2> SUFFICES ASSUME NEW q \in head.page + 1 .. p - 1 PROVE rec'[q].kind = "data"
    OBVIOUS
  <2>1. q \in nextPage .. nextPage + writer.done - 1
    BY <1>1, <1>2
  <2>2. rec[q].kind = "data"
    BY <1>1, <2>1 DEF WriterInv
  <2>3. q \in Pages /\ q # p
    BY <1>2 DEF Pages
  <2> QED BY <1>5, <2>2, <2>3
<1>7. /\ OnFile(head) /\ Good(head.page)
      /\ head.page = 0 => head.id = 0 /\ head.version = 0
      /\ head.page # 0 => /\ IsCommit(head.page)
                          /\ head.id = rec[head.page].id
                          /\ head.version = rec[head.page].version
  <2>1. OnFile(head) /\ Good(head.page)
    BY <1>1 DEF HeadsInv
  <2>2. CASE head = GenesisHead
    BY <2>1, <2>2 DEF GenesisHead
  <2>3. CASE IsCommit(head.page) /\ head = HeadFrom(rec[head.page], head.page)
    <3>1. head.id = rec[head.page].id /\ head.version = rec[head.page].version
      BY <2>3 DEF HeadFrom
    <3> QED BY <2>1, <2>3, <3>1 DEF IsCommit, Pages
  <2> QED BY <2>1, <2>2, <2>3 DEF OnFile
<1>8. head.page # 0 => rec'[head.page] = rec[head.page]
  BY <1>2, <1>5
<1>9. Linked(p)'
  <2>1. rec'[p].prevPage = head.page /\ rec'[p].prev = head.id
        /\ rec'[p].version = head.version + 1
    BY <1>3, <1>5
  <2> QED BY <1>2, <1>6, <1>7, <1>8, <2>1 DEF Linked, IsCommit
<1>10. Newest(p)'
  <2> SUFFICES ASSUME NEW q \in 1 .. p - 1, rec'[q].kind = "commit"
               PROVE  rec'[q].version < rec'[p].version
    BY DEF Newest
  <2>1. q \in 1 .. head.page
    BY <1>2, <1>6
  <2>2. rec'[q] = rec[q] /\ IsCommit(head.page) /\ head.page \in 1 .. head.page
    BY <1>2, <1>5, <1>7, <2>1
  <2>3. Newest(head.page)
    BY <1>7, <2>2 DEF Good, IsCommit
  <2>4. q # head.page => rec[q].version < rec[head.page].version
    BY <1>2, <2>1, <2>2, <2>3 DEF Newest
  <2>5. rec[q].version \in Nat /\ head.version \in Nat
    <3>1. q \in Pages
      BY <1>2, <2>1 DEF Pages
    <3> QED BY <2>2, <3>1, PageNumbers DEF TypeInv, FileShape, RecordsOK, RecordOK
  <2>6. head.version = rec[head.page].version
    BY <1>2, <1>7, <2>2
  <2> QED BY <1>3, <1>5, <2>2, <2>4, <2>5, <2>6
<1>11. Good(p)'
  <2> SUFFICES ASSUME NEW q \in 1 .. p
               PROVE  /\ rec'[q].kind \in {"data", "commit"}
                      /\ rec'[q].kind = "commit" => Linked(q)' /\ Newest(q)'
    BY DEF Good
  <2>1. CASE q = p
    BY <1>3, <1>5, <1>9, <1>10, <2>1
  <2>2. CASE q # p /\ q > head.page
    BY <1>2, <1>6, <2>2
  <2>3. CASE q <= head.page
    <3>1. \A n \in Nat : n = head.page => Good(n)'
      BY <1>5, <1>7
    <3>2. PICK n \in Nat : n = head.page
      BY <1>2
    <3>3. Good(n)' /\ q \in 1 .. n
      BY <1>2, <2>3, <3>1, <3>2
    <3> QED BY <3>3 DEF Good
  <2> QED BY <1>2, <2>1, <2>2, <2>3
<1>12. UniqueIds'
  <2>1. \A q \in Pages : \A d \in may'[q] : d.kind = "commit" =>
           d \in may[q] \/ (q = p /\ d = c)
    BY <1>5 DEF Torn
  <2>2. \A q \in Pages : \A d \in may[q] : d.kind = "commit" =>
           d.id < attempts /\ d.id \in Nat /\ d.prev < d.id /\ d.prev \in Nat
    BY <1>1 DEF TypeInv, WriterOK, RecordsOK, RecordOK
  <2>3. \A q \in Pages : \A d \in may[q] : d.kind = "commit" /\ d.id = head.id => q = head.page
    <3> SUFFICES ASSUME NEW q \in Pages, NEW d \in may[q], d.kind = "commit",
                        d.id = head.id
                 PROVE  q = head.page
      OBVIOUS
    <3>1. head.page # 0
      BY <1>7 DEF TypeInv, RecordsOK, RecordOK
    <3>2. IsCommit(head.page) /\ rec[head.page] \in may[head.page]
          /\ rec[head.page].id = head.id
      BY <1>7, <3>1 DEF TypeInv, FileShape, IsCommit
    <3> QED BY <3>2 DEF UniqueIds, IsCommit
  <2>4. attempts \in Nat /\ head.id < attempts
    BY <1>1 DEF TypeInv, WriterOK, Ids
  <2> SUFFICES ASSUME NEW q \in Pages, NEW r \in Pages, NEW d \in may'[q], NEW e \in may'[r],
                      d.kind = "commit", e.kind = "commit"
               PROVE  /\ d.id = e.id => q = r
                      /\ e.prev = d.id => e.prevPage = q
    BY DEF UniqueIds
  <2>5. CASE d \in may[q] /\ e \in may[r]
    BY <2>5 DEF UniqueIds
  <2>6. CASE d \in may[q] /\ r = p /\ e = c
    BY <1>3, <2>2, <2>3, <2>6
  <2>7. CASE q = p /\ d = c /\ e \in may[r]
    BY <1>3, <2>2, <2>4, <2>7
  <2>8. CASE q = p /\ d = c /\ r = p /\ e = c
    BY <1>3, <2>4, <2>8
  <2> QED BY <2>1, <2>5, <2>6, <2>7, <2>8
<1> QED
  BY <1>2, <1>3, <1>4, <1>5, <1>11, <1>12 DEF OnFile, IsCommit, p

\* The commit page: a transaction moves the head, publish_commit keeps what it
\* made until it is synced.
LEMMA CommitKeepsLog ==
    ASSUME LogInv, WriteCommitPage, TypeInv'
    PROVE  LogInv'
<1> USE DEF LogInv
<1>1. PICK h : h = NewHead
  OBVIOUS
<1>2. /\ UniqueIds' /\ h.page \in Pages /\ h.page \in Nat /\ h.page > head.page
      /\ h.version = head.version + 1
      /\ OnFile(h)' /\ IsCommit(h.page)' /\ Good(h.page)'
  BY <1>1, NewCommitGood, PageNumbers
<1>3. /\ mode = "up" /\ writer.phase = "write" /\ WriteRecord(h.page, NewCommitPage)
      /\ UNCHANGED <<slot, maySlot, acked, leader, mode, durable>>
      /\ h.page >= nextPage /\ nextPage' = h.page + 1
  <2>1. WriterInv /\ mode = "up" /\ writer.phase = "write"
    BY DEF WriteCommitPage
  <2> QED BY <1>1, <1>2, <2>1, PageNumbers DEF WriteCommitPage, WriterInv, histVars
<1>4. \A g : Below(g) => OnFile(g)'
  BY <1>2, <1>3, WriteBehindHead
<1>5. CASE writer.kind = "tx"
  <2>1. /\ head' = h /\ written' = h /\ writer' = NoCommit
        /\ pending' = pending \cup {h}
    BY <1>1, <1>5 DEF WriteCommitPage
  <2>2. AnchorsInv' /\ ReachInv'
    BY <1>2, <1>3, <2>1, AnchorsBehindHead, PageNumbers DEF NoCommit
  <2>3. OnFile(head)' /\ Good(head.page)' /\ Below(written)'
    BY <1>2, <2>1 DEF Below
  <2>4. \A g : Below(g) /\ g.page \in Nat => Below(g)'
    BY <1>2, <1>4, <2>1, PageNumbers DEF Below
  <2>5. \A g \in pending' : Below(g)' /\ g.page # 0 /\ g.version > durable'
    <3>1. \A g \in pending : Below(g)' /\ g.page # 0 /\ g.version > durable
      BY <1>3, <2>4, PageNumbers DEF HeadsInv
    <3>2. Below(h)' /\ h.page # 0 /\ h.version > durable
      BY <1>2, <1>3, <2>1, PageNumbers DEF Below, HeadsInv
    <3> QED BY <1>3, <2>1, <3>1, <3>2
  <2>6. leader'.phase # "none" => Below(leader.target)' /\ leader'.target.page # 0
    BY <1>3, <2>4, PageNumbers DEF HeadsInv
  <2>7. durable' <= head'.version /\ written'.page # 0
    BY <1>2, <1>3, <2>1, PageNumbers DEF HeadsInv
  <2>8. HeadsInv'
    BY <2>3, <2>5, <2>6, <2>7 DEF HeadsInv
  <2>9. WriterInv'
    BY <1>3, <2>1 DEF WriterInv, NoCommit
  <2> QED BY <1>2, <2>2, <2>8, <2>9
<1>6. CASE writer.kind # "tx"
  <2>1. /\ writer' = [writer EXCEPT !.phase = "sync", !.new = h]
        /\ UNCHANGED <<head, written, pending>>
    BY <1>1, <1>6 DEF WriteCommitPage
  <2>2. writer'.phase = "sync" /\ writer'.new = h
    BY <2>1 DEF TypeInv, WriterOK
  <2>3. AnchorsInv' /\ ReachInv'
    BY <1>2, <1>3, <2>1, <2>2, AnchorsBehindHead, PageNumbers
  <2>4. HeadsInv'
    BY <1>2, <1>3, <2>1, HeadsBehindHead
  <2>5. WriterInv'
    BY <1>2, <1>3, <2>1, <2>2 DEF WriterInv
  <2> QED BY <1>2, <2>3, <2>4, <2>5
<1> QED BY <1>5, <1>6

\* A step that writes no record and promises nothing keeps the anchors.
LEMMA AnchorsStay ==
    ASSUME LogInv, UNCHANGED <<rec, may, slot, maySlot, acked>>,
           leader'.phase = "meta" => UNCHANGED leader,
           writer'.phase = "meta" => UNCHANGED writer
    PROVE  UniqueIds' /\ AnchorsInv'
<1>1. UniqueIds'
  BY DEF LogInv, UniqueIds
<1>2. \A n \in Nat : Anchor(n) => Anchor(n)'
  BY AnchorKept DEF Anchor, Hard
<1> QED BY <1>1, <1>2, PageNumbers, RecordsKept DEF LogInv, AnchorsInv

\* An fdatasync makes anchors of the commits of every history.
LEMMA SyncAnchors ==
    ASSUME LogInv, SyncData, UNCHANGED acked
    PROVE  /\ UniqueIds'
           /\ \A n \in Nat : IsCommit(n) /\ Good(n) => Anchor(n)'
           /\ \A n \in Nat : Anchor(n) => Anchor(n)'
           /\ \A a \in acked' : OnFile(a)' /\ Anchor(a.page)'
           /\ \A s \in {0, 1} : \A m \in maySlot'[s] : m \in maySlot[s]
           /\ \A s \in {0, 1} : \A m \in maySlot'[s] : m.page # 0 => Anchor(m.page)'
<1> USE DEF LogInv
<1>1. /\ may' = [p \in Pages |-> {rec[p]}] /\ UNCHANGED <<rec, slot>>
      /\ maySlot' = [s \in {0, 1} |-> {slot[s]}]
  BY DEF SyncData
<1>2. \A p \in Pages : may'[p] \subseteq may[p]
  BY <1>1 DEF TypeInv, FileShape
<1>3. UniqueIds'
  BY <1>2 DEF UniqueIds
<1>4. ASSUME NEW n \in Nat, IsCommit(n), Good(n)
      PROVE  Anchor(n)'
  <2>1. \A p \in 1 .. n : p \in Pages
    BY <1>4, Constants DEF IsCommit, Pages
  <2>2. Hard(n)'
    BY <1>1, <2>1 DEF Hard
  <2> QED BY <1>1, <1>4, <2>2, RecordsKept DEF Anchor
<1>5. \A n \in Nat : Anchor(n) => Anchor(n)'
  BY <1>4 DEF Anchor
<1>6. \A s \in {0, 1} : \A m \in maySlot'[s] : m \in maySlot[s]
  BY <1>1 DEF TypeInv, FileShape
<1>7. \A a \in acked' : OnFile(a)' /\ Anchor(a.page)'
  BY <1>1, <1>5, PageNumbers, RecordsKept DEF AnchorsInv
<1>8. \A s \in {0, 1} : \A m \in maySlot'[s] : m.page # 0 => Anchor(m.page)'
  BY <1>5, <1>6, PageNumbers DEF AnchorsInv
<1> QED BY <1>3, <1>4, <1>5, <1>6, <1>7, <1>8

\* A meta slot written for an anchor, whole or in part, names an anchor.
LEMMA MetaAnchors ==
    ASSUME LogInv, NEW h, HeadOK(h), Anchor(h.page), UNCHANGED <<rec, may>>,
           WriteMetaSlot(h) \/ MetaWriteFails(h)
    PROVE  /\ UniqueIds'
           /\ \A n \in Nat : Anchor(n) => Anchor(n)'
           /\ \A s \in {0, 1} : \A m \in maySlot'[s] :
                 /\ m \in maySlot[s] \/ m.page = 0 \/ m.page = h.page
                 /\ m.page # 0 => Anchor(m.page)'
<1> USE DEF LogInv
<1>1. UniqueIds'
  BY DEF UniqueIds
<1>2. \A n \in Nat : Anchor(n) => Anchor(n)'
  BY AnchorKept DEF Anchor, Hard
<1>3. SlotOf(h) \in {0, 1} /\ h.page \in Nat
  BY DEF SlotOf, HeadOK
<1>4. MetaFor(h).page = h.page /\ TornSlot.page = 0
  BY DEF MetaFor, TornSlot
<1> HIDE DEF MetaFor, TornSlot, SlotOf
<1>5. \A s \in {0, 1} : \A m \in maySlot'[s] :
         m \in maySlot[s] \/ m = MetaFor(h) \/ m = TornSlot
  BY <1>3 DEF WriteMetaSlot, MetaWriteFails, TypeInv, FileShape
<1> QED BY <1>1, <1>2, <1>3, <1>4, <1>5, PageNumbers DEF AnchorsInv

\* A step that writes no record and leaves the heads alone keeps them good.
LEMMA HeadsStay ==
    ASSUME LogInv, UNCHANGED <<rec, mode, head, written, durable>>,
           pending' \subseteq pending,
           leader'.phase # "none" =>
              leader'.target = leader.target /\ leader.phase # "none"
    PROVE  HeadsInv'
<1> USE DEF LogInv
<1> SUFFICES ASSUME mode = "up" PROVE HeadsInv'
  BY DEF HeadsInv
<1>1. \A h : Below(h) => Below(h)'
  BY RecordsKept DEF Below
<1>2. OnFile(head)' /\ Good(head.page)' /\ Below(written)'
  BY <1>1, RecordsKept, PageNumbers DEF HeadsInv
<1>3. \A h \in pending' : Below(h)' /\ h.page # 0 /\ h.version > durable'
  BY <1>1 DEF HeadsInv
<1>4. leader'.phase # "none" => Below(leader.target)' /\ leader'.target.page # 0
  BY <1>1 DEF HeadsInv
<1> QED BY <1>2, <1>3, <1>4 DEF HeadsInv

\* A writer that takes no step stays good.
LEMMA WriterStays ==
    ASSUME LogInv, UNCHANGED <<rec, mode, head, nextPage, writer>>
    PROVE  WriterInv'
<1> USE DEF LogInv
<1>1. writer.phase \in {"sync", "meta"} /\ mode = "up" =>
         IsCommit(writer.new.page)' /\ OnFile(writer.new)' /\ Good(writer.new.page)'
  BY RecordsKept, PageNumbers DEF WriterInv
<1> QED BY <1>1 DEF WriterInv

\* The seal keeps the log: what it acknowledges lies below its synced target.
LEMMA SealKeepsLog ==
    ASSUME LogInv, LeadSeal \/ SealSync \/ SealDone \/ SealFails, TypeInv'
    PROVE  LogInv'
<1> USE DEF LogInv
<1>1. /\ UNCHANGED <<rec, mode, head, nextPage, writer, written>> /\ mode = "up"
      /\ DOMAIN leader = {"target", "phase"}
  BY DEF LeadSeal, SealSync, SealDone, SealFails, fileVars, WriteMetaSlot, SyncData,
         CallFails, TypeInv
<1>2. WriterInv'
  BY <1>1, WriterStays
<1>3. CASE LeadSeal
  <2>1. /\ UNCHANGED <<rec, may, slot, maySlot, acked, pending, durable>>
        /\ leader'.target = written /\ leader'.phase = "sync" /\ pending # {}
    BY <1>3 DEF LeadSeal, fileVars, histVars
  <2>2. UniqueIds' /\ AnchorsInv'
    BY <1>1, <2>1, AnchorsStay
  <2>3. ReachInv'
    BY <1>1, <2>1 DEF ReachInv
  <2>4. written.page # 0
    BY <1>1, <2>1 DEF HeadsInv
  <2>5. HeadsInv'
    <3>1. \A h : Below(h) => Below(h)'
      BY <1>1, RecordsKept DEF Below
    <3>2. OnFile(head)' /\ Good(head.page)' /\ Below(written)'
      BY <1>1, <3>1, RecordsKept, PageNumbers DEF HeadsInv
    <3>3. \A h \in pending' : Below(h)' /\ h.page # 0 /\ h.version > durable'
      BY <1>1, <2>1, <3>1 DEF HeadsInv
    <3>4. Below(leader.target)' /\ leader'.target.page # 0
      BY <1>1, <2>1, <2>4, <3>2 DEF Below
    <3> QED BY <1>1, <2>1, <2>4, <3>2, <3>3, <3>4 DEF HeadsInv
  <2> QED BY <1>2, <2>2, <2>3, <2>5
<1>4. CASE SealSync
  <2>1. /\ SyncData /\ UNCHANGED <<acked, pending, durable>> /\ leader.phase = "sync"
        /\ leader'.target = leader.target /\ leader'.phase = "meta"
    BY <1>1, <1>4 DEF SealSync, histVars
  <2>2. IsCommit(leader.target.page) /\ Good(leader.target.page)
    <3>1. /\ OnFile(leader.target) /\ leader.target.page # 0
          /\ leader.target.page <= head.page /\ Good(head.page)
      BY <1>1, <2>1 DEF HeadsInv, Below
    <3> QED BY <3>1, GoodPrefix, PageNumbers DEF OnFile, GenesisHead
  <2>3. UniqueIds' /\ Anchor(leader.target.page)'
    BY <2>1, <2>2, SyncAnchors, PageNumbers
  <2>4. AnchorsInv'
    BY <1>1, <2>1, <2>3, SyncAnchors, PageNumbers DEF AnchorsInv
  <2>5. ReachInv'
    BY <1>1, <2>1, SyncAnchors DEF ReachInv
  <2>6. HeadsInv'
    BY <1>1, <2>1, HeadsStay
  <2> QED BY <1>2, <2>3, <2>4, <2>5, <2>6
<1>5. CASE SealDone
  <2> DEFINE t == leader.target
  <2>1. /\ WriteMetaSlot(t) /\ UNCHANGED <<rec, may>> /\ leader.phase = "meta"
        /\ leader' = NoLeader /\ durable' = Max({durable, t.version})
        /\ acked' = acked \cup {h \in pending : h.version <= durable'}
        /\ pending' = {h \in pending : h.version > durable'}
    BY <1>5 DEF SealDone
  <2>2. Anchor(t.page) /\ HeadOK(t) /\ Below(t) /\ t.page # 0
    BY <1>1, <2>1 DEF AnchorsInv, HeadsInv, TypeInv
  <2>3. /\ UniqueIds' /\ \A n \in Nat : Anchor(n) => Anchor(n)'
        /\ \A s \in {0, 1} : \A m \in maySlot'[s] :
              /\ m \in maySlot[s] \/ m.page = 0 \/ m.page = t.page
              /\ m.page # 0 => Anchor(m.page)'
    BY <2>1, <2>2, MetaAnchors
  <2>4. HeadOK(head) /\ OnFile(head) /\ Good(head.page)
    BY <1>1 DEF HeadsInv, TypeInv
  <2>5. t.version <= head.version /\ durable <= head.version
    BY <1>1, <2>2, <2>4, HeadsOrdered DEF Below, HeadsInv
  <2>6. durable' = IF durable >= t.version THEN durable ELSE t.version
    BY <2>1, MaxOfTwo, PageNumbers
  \* A waiting commit that the seal covers lies below its target.
  <2>7. ASSUME NEW h \in pending, h.version <= durable'
        PROVE  Anchor(h.page) /\ h.page <= head.page
    <3>1. HeadOK(h) /\ Below(h) /\ h.page # 0 /\ h.version > durable
      BY <1>1 DEF HeadsInv, TypeInv
    <3>2. h.version <= t.version
      BY <2>6, <2>7, <3>1, PageNumbers
    <3>3. Good(h.page)
      BY <2>4, <3>1, GoodPrefix, PageNumbers DEF Below
    <3>4. h.page <= t.page
      <4> SUFFICES ASSUME t.page < h.page PROVE FALSE
        BY PageNumbers
      <4>1. t.version < h.version
        BY <2>2, <3>1, <3>3, HeadsOrdered, PageNumbers DEF Below
      <4> QED BY <3>2, <4>1, PageNumbers
    <3>5. IsCommit(h.page)
      BY <3>1 DEF Below, OnFile, GenesisHead
    <3> QED BY <2>2, <3>1, <3>4, <3>5, AnchorPrefix, PageNumbers DEF Below
  <2>8. \A a \in acked' : OnFile(a)' /\ Anchor(a.page)' /\ a.page <= head'.page
    <3> SUFFICES ASSUME NEW a \in acked' 
                 PROVE  OnFile(a)' /\ Anchor(a.page)' /\ a.page <= head'.page
      OBVIOUS
    <3>1. CASE a \in acked
      BY <1>1, <2>1, <2>3, <3>1, PageNumbers, RecordsKept DEF AnchorsInv, ReachInv
    <3>2. CASE a \in pending /\ a.version <= durable'
      <4>1. Anchor(a.page) /\ a.page <= head.page /\ OnFile(a) /\ a.page \in Nat
        BY <1>1, <2>7, <3>2, PageNumbers DEF HeadsInv, Below
      <4> QED BY <1>1, <2>3, <4>1, RecordsKept
    <3> QED BY <2>1, <3>1, <3>2
  <2>9. AnchorsInv'
    <3>1. writer.phase = "meta" => Anchor(writer.new.page)'
      BY <1>1, <2>3, PageNumbers DEF AnchorsInv
    <3> QED BY <1>1, <2>1, <2>3, <2>8, <3>1 DEF AnchorsInv, NoLeader
  <2>10. ReachInv'
    BY <1>1, <2>2, <2>3, <2>8, PageNumbers DEF ReachInv, Below
  <2>11. HeadsInv'
    <3>1. \A h : Below(h) => Below(h)'
      BY <1>1, RecordsKept DEF Below
    <3>2. OnFile(head)' /\ Good(head.page)' /\ Below(written)'
      BY <1>1, <2>4, <3>1, RecordsKept, PageNumbers DEF HeadsInv
    <3>3. \A h \in pending' : Below(h)' /\ h.page # 0 /\ h.version > durable'
      BY <1>1, <2>1, <3>1 DEF HeadsInv
    <3>4. durable' <= head'.version
      BY <1>1, <2>5, <2>6
    <3>5. pending' # {} => written'.page # 0
      BY <1>1, <2>1 DEF HeadsInv
    <3> QED BY <2>1, <3>2, <3>3, <3>4, <3>5 DEF HeadsInv, NoLeader
  <2> QED BY <1>2, <2>3, <2>9, <2>10, <2>11
<1>6. CASE SealFails
  <2> DEFINE t == leader.target
  <2>1. /\ CallFails("seal", leader.phase, t) /\ UNCHANGED <<rec, may, acked, durable>>
        /\ leader' = NoLeader /\ pending' \subseteq pending
        /\ leader.phase \in {"sync", "meta"}
    BY <1>6 DEF SealFails, CallFails, histVars
  <2>2. HeadsInv'
    BY <1>1, <2>1, HeadsStay DEF NoLeader
  <2>3. CASE leader.phase = "meta"
    <3>1. MetaWriteFails(t) /\ Anchor(t.page) /\ HeadOK(t) /\ Below(t)
      BY <1>1, <2>1, <2>3 DEF CallFails, AnchorsInv, HeadsInv, TypeInv
    <3>2. /\ UniqueIds' /\ \A n \in Nat : Anchor(n) => Anchor(n)'
          /\ \A s \in {0, 1} : \A m \in maySlot'[s] :
                /\ m \in maySlot[s] \/ m.page = 0 \/ m.page = t.page
                /\ m.page # 0 => Anchor(m.page)'
      BY <2>1, <3>1, MetaAnchors
    <3>3. AnchorsInv'
      <4>1. \A a \in acked' : OnFile(a)' /\ Anchor(a.page)'
        BY <2>1, <3>2, PageNumbers, RecordsKept DEF AnchorsInv
      <4>2. writer'.phase = "meta" => Anchor(writer.new.page)'
        BY <1>1, <3>2, PageNumbers DEF AnchorsInv
      <4> QED BY <2>1, <3>2, <4>1, <4>2 DEF AnchorsInv, NoLeader
    <3>4. ReachInv'
      BY <1>1, <2>1, <3>1, <3>2, PageNumbers DEF ReachInv, Below
    <3> QED BY <1>2, <2>2, <3>2, <3>3, <3>4
  <2>4. CASE leader.phase # "meta"
    <3>1. UNCHANGED <<slot, maySlot>>
      BY <2>1, <2>4 DEF CallFails
    <3>2. UniqueIds' /\ AnchorsInv'
      BY <1>1, <2>1, <3>1, AnchorsStay DEF NoLeader
    <3>3. ReachInv'
      BY <1>1, <2>1, <3>1 DEF ReachInv
    <3> QED BY <1>2, <2>2, <3>2, <3>3
  <2> QED BY <2>3, <2>4
<1> QED BY <1>3, <1>4, <1>5, <1>6

\* publish_commit keeps the log, as long as it does not fail: its commit is
\* synced before a slot names it and before it becomes the head.
LEMMA PublishKeepsLog ==
    ASSUME LogInv, PublishSync \/ PublishHead, TypeInv'
    PROVE  LogInv'
<1> USE DEF LogInv
<1> DEFINE t == writer.new
<1>1. /\ UNCHANGED <<rec, mode, nextPage, written, leader, pending, durable>>
      /\ mode = "up" /\ writer.phase \in {"sync", "meta"}
  BY DEF PublishSync, PublishHead, SyncData, histVars
<1>2. /\ IsCommit(t.page) /\ OnFile(t) /\ Good(t.page) /\ nextPage = t.page + 1
      /\ t.page > head.page /\ t.version = head.version + 1
  BY <1>1 DEF WriterInv
<1>3. CASE PublishSync
  <2>1. /\ SyncData /\ UNCHANGED <<acked, head>>
        /\ writer'.new = t /\ writer'.phase = "meta"
    BY <1>1, <1>3 DEF PublishSync, histVars, TypeInv, WriterOK
  <2>2. UniqueIds' /\ Anchor(t.page)'
    BY <1>2, <2>1, SyncAnchors, PageNumbers
  <2>3. AnchorsInv'
    <3>1. leader'.phase = "meta" => Anchor(leader.target.page)'
      BY <1>1, <2>1, SyncAnchors, PageNumbers DEF AnchorsInv
    <3> QED BY <1>1, <2>1, <2>2, <3>1, SyncAnchors DEF AnchorsInv
  <2>4. ReachInv'
    BY <1>1, <2>1, SyncAnchors DEF ReachInv
  <2>5. HeadsInv'
    BY <1>1, <2>1, HeadsStay
  <2>6. WriterInv'
    BY <1>1, <1>2, <2>1, RecordsKept, PageNumbers DEF WriterInv
  <2> QED BY <2>2, <2>3, <2>4, <2>5, <2>6
<1>4. CASE PublishHead
  <2>1. /\ WriteMetaSlot(t) /\ UNCHANGED <<rec, may>> /\ writer.phase = "meta"
        /\ head' = t /\ acked' = acked \cup {t} /\ writer' = NoCommit
    BY <1>4 DEF PublishHead
  <2>2. Anchor(t.page) /\ HeadOK(t)
    BY <2>1 DEF AnchorsInv, TypeInv
  <2>3. /\ UniqueIds' /\ \A n \in Nat : Anchor(n) => Anchor(n)'
        /\ \A s \in {0, 1} : \A m \in maySlot'[s] :
              /\ m \in maySlot[s] \/ m.page = 0 \/ m.page = t.page
              /\ m.page # 0 => Anchor(m.page)'
    BY <2>1, <2>2, MetaAnchors
  <2>4. \A a \in acked' : OnFile(a)' /\ Anchor(a.page)' /\ a.page <= head'.page
    BY <1>1, <1>2, <2>1, <2>2, <2>3, PageNumbers, RecordsKept DEF AnchorsInv, ReachInv
  <2>5. AnchorsInv'
    <3>1. leader'.phase = "meta" => Anchor(leader.target.page)'
      BY <1>1, <2>3, PageNumbers DEF AnchorsInv
    <3> QED BY <1>1, <2>1, <2>3, <2>4, <3>1 DEF AnchorsInv, NoCommit
  <2>6. ReachInv'
    BY <1>1, <1>2, <2>1, <2>3, <2>4, PageNumbers DEF ReachInv
  <2>7. HeadsInv'
    <3>1. \A h : Below(h) /\ h.page \in Nat => Below(h)'
      BY <1>1, <1>2, <2>1, RecordsKept, PageNumbers DEF Below
    <3>2. OnFile(head)' /\ Good(head.page)' /\ Below(written)'
      BY <1>1, <1>2, <2>1, <3>1, RecordsKept, PageNumbers DEF HeadsInv
    <3>3. \A h \in pending' : Below(h)' /\ h.page # 0 /\ h.version > durable'
      BY <1>1, <3>1, PageNumbers DEF HeadsInv
    <3>4. leader'.phase # "none" => Below(leader.target)' /\ leader'.target.page # 0
      BY <1>1, <3>1, PageNumbers DEF HeadsInv
    <3>5. durable' <= head'.version
      BY <1>1, <1>2, <2>1, PageNumbers DEF HeadsInv
    <3>6. pending' # {} => written'.page # 0
      BY <1>1 DEF HeadsInv
    <3> QED BY <3>2, <3>3, <3>4, <3>5, <3>6 DEF HeadsInv
  <2>8. WriterInv'
    BY <1>1, <1>2, <2>1 DEF WriterInv, NoCommit
  <2> QED BY <2>3, <2>5, <2>6, <2>7, <2>8
<1> QED BY <1>3, <1>4

\* A new commit has written nothing yet.
LEMMA BeginKeepsLog ==
    ASSUME LogInv, NEW kind, NEW size, BeginCommit(kind, size), TypeInv'
    PROVE  LogInv'
<1> USE DEF LogInv
<1>1. /\ UNCHANGED <<rec, may, slot, maySlot, mode, head, nextPage, written,
                     leader, pending, durable, acked>>
      /\ mode = "up" /\ writer = NoCommit
      /\ writer'.phase = "write" /\ writer'.done = 0
  BY DEF BeginCommit, fileVars
<1>2. UniqueIds' /\ AnchorsInv'
  BY <1>1, AnchorsStay
<1>3. ReachInv'
  BY <1>1 DEF ReachInv
<1>4. HeadsInv'
  BY <1>1, HeadsStay
<1>5. WriterInv'
  <2>1. nextPage = head.page + 1
    BY <1>1 DEF WriterInv, NoCommit
  <2>2. nextPage' .. nextPage' + writer'.done - 1 = {}
    BY <1>1, PageNumbers
  <2> QED BY <1>1, <2>1, <2>2 DEF WriterInv
<1> QED BY <1>2, <1>3, <1>4, <1>5

\* A new file, and one that a vacuum left, hold an anchored history.
LEMMA LogInit == Init => LogInv
<1> SUFFICES ASSUME Init PROVE LogInv
  OBVIOUS
<1> USE Constants
<1>1. /\ may = [p \in Pages |-> {rec[p]}] /\ mode = "up" /\ writer = NoCommit
      /\ durable = head.version /\ written = head /\ leader = NoLeader
      /\ pending = {}
  BY DEF Init
<1>2. TypeInv
  BY TypeInit
<1>3. WriterInv
  <2>1. nextPage = head.page + 1
    BY DEF Init, InitCreated, InitCompacted, GenesisHead, CheckpointHead, HeadFrom
  <2> QED BY <1>1, <2>1 DEF WriterInv, NoCommit
<1>4. CASE InitCreated
  <2>1. /\ \A p \in Pages : rec[p].kind = "empty" /\ may[p] = {rec[p]}
        /\ \A s \in {0, 1} : \A m \in maySlot[s] : m.page = 0
        /\ head = GenesisHead /\ acked = {}
    BY <1>1, <1>4 DEF InitCreated, Empty, GenesisSlot
  <2>2. UniqueIds
    BY <2>1 DEF UniqueIds
  <2>3. AnchorsInv
    BY <1>1, <2>1 DEF AnchorsInv, NoCommit, NoLeader
  <2>4. ReachInv
    BY <2>1 DEF ReachInv, GenesisHead
  <2>5. HeadsInv
    BY <1>1, <1>2, <2>1, PageNumbers DEF HeadsInv, OnFile, Good, Below, GenesisHead, NoLeader
  <2> QED BY <1>2, <1>3, <2>2, <2>3, <2>4, <2>5 DEF LogInv
<1>5. CASE "compacted" \in Origins /\ InitCompacted
  <2>1. MaxPages >= 2
    BY <1>5, OriginsAssumption
  <2>2. /\ rec = [p \in Pages |-> IF p = 1 THEN DataPage(1, 0)
                                  ELSE IF p = 2 THEN CheckpointPage ELSE Empty]
        /\ head = CheckpointHead /\ acked = {CheckpointHead}
    BY <1>5 DEF InitCompacted
  <2>3. /\ rec[1].kind = "data" /\ rec[2] = CheckpointPage
        /\ \A p \in Pages : rec[p].kind = "commit" => p = 2
        /\ \A p \in Pages : may[p] = {rec[p]}
    BY <1>1, <2>1, <2>2 DEF Pages, DataPage, Empty
  <2>4. /\ rec[2].kind = "commit" /\ rec[2].prevPage = 0 /\ rec[2].prev = 0
        /\ rec[2].checkpoint /\ rec[2].id = 1
    BY <2>3 DEF CheckpointPage
  <2>5. /\ head = HeadFrom(rec[2], 2) /\ head.page = 2
    BY <2>2, <2>3 DEF CheckpointHead, HeadFrom
  <2>6. 1 \in Pages /\ 2 \in Pages
    BY <2>1 DEF Pages
  <2>7. UniqueIds
    BY <2>3, <2>4 DEF UniqueIds
  <2>8. Linked(2) /\ Newest(2)
    <3>1. \A q \in 1 .. 1 : rec[q].kind = "data"
      BY <2>3
    <3> QED BY <2>4, <3>1 DEF Linked, Newest
  <2>9. Good(2)
    <3>1. \A p \in 1 .. 2 : p = 1 \/ p = 2
      OBVIOUS
    <3> QED BY <2>3, <2>4, <2>8, <3>1 DEF Good
  <2>10. Anchor(2) /\ OnFile(head)
    BY <2>3, <2>4, <2>5, <2>6, <2>9 DEF Anchor, IsCommit, Hard, Pages, OnFile
  <2>11. \A s \in {0, 1} : \A m \in maySlot[s] : m.page = 0 \/ m.page = 2
    BY <1>5 DEF InitCompacted, GenesisSlot, MetaFor, TornSlot, CheckpointHead, HeadFrom
  <2>12. AnchorsInv
    BY <1>1, <2>2, <2>5, <2>10, <2>11 DEF AnchorsInv, NoCommit, NoLeader
  <2>13. ReachInv
    BY <2>2, <2>5, <2>11 DEF ReachInv
  <2>14. HeadsInv
    BY <1>1, <1>2, <2>5, <2>9, <2>10, PageNumbers DEF HeadsInv, Below, NoLeader
  <2> QED BY <1>2, <1>3, <2>7, <2>12, <2>13, <2>14 DEF LogInv
<1> QED BY <1>4, <1>5 DEF Init

\* No call of publish_commit fails.  If one does, the store goes on behind an
\* orphan that recovery may adopt: what is acknowledged after it can be lost.
PublishIsSound ==
    <<"publish", "sync">> \notin Faults /\ <<"publish", "meta">> \notin Faults

\* LogInv is inductive.
LEMMA LogStep ==
    ASSUME PublishIsSound
    PROVE  LogInv /\ [Next]_vars => LogInv'
<1> SUFFICES ASSUME LogInv, [Next]_vars PROVE LogInv'
  OBVIOUS
<1>1. TypeInv'
  BY TypeStep DEF LogInv
<1>2. ~PublishFails
  BY DEF PublishFails, CallFails, PublishIsSound
<1>3. ASSUME NEW kind \in {"tx", "publish"}, NEW size \in Sizes, BeginCommit(kind, size)
      PROVE  LogInv'
  BY <1>1, <1>3, BeginKeepsLog
<1>4. CASE OpenRefused \/ UNCHANGED vars
  <2>1. /\ UNCHANGED <<rec, may, slot, maySlot, head, nextPage, writer, durable,
                       written, leader, pending, acked>>
        /\ mode' = mode \/ mode' = "refused"
    BY <1>4 DEF OpenRefused, vars, fileVars, memVars, histVars
  <2>2. UniqueIds' /\ AnchorsInv'
    BY <2>1, AnchorsStay
  <2>3. CASE mode' = "refused"
    BY <1>1, <2>2, <2>3 DEF LogInv, ReachInv, HeadsInv, WriterInv
  <2>4. CASE mode' = mode
    <3>1. ReachInv'
      BY <2>1, <2>4 DEF LogInv, ReachInv
    <3>2. leader'.phase # "none" => leader.phase # "none"
      BY <2>1
    <3> QED BY <1>1, <2>1, <2>2, <2>4, <3>1, <3>2, HeadsStay, WriterStays DEF LogInv
  <2> QED BY <2>1, <2>3, <2>4
<1> QED
  BY <1>1, <1>2, <1>3, <1>4, DataKeepsLog, CommitKeepsLog, PublishKeepsLog,
     SealKeepsLog, CrashKeepsLog, OpenKeepsLog DEF Next

\* What the invariant says of a store that is up.
LEMMA LogInvGives ==
    ASSUME LogInv
    PROVE  NoAckedLoss /\ SlotsInHistory
<1> USE DEF LogInv
<1> SUFFICES ASSUME mode = "up"
             PROVE  /\ \A a \in acked : AnchorHolds(head, a)
                    /\ \A s \in {0, 1} : slot[s].page # 0 => slot[s].page \in ChainPages(head)
  BY DEF NoAckedLoss, SlotsInHistory
<1>1. LinksGoDown
  BY DEF LinksGoDown, TypeInv, FileShape, RecordsOK, RecordOK
<1>2. OnFile(head) /\ Good(head.page) /\ head.page \in 0 .. MaxPages
  BY DEF HeadsInv, TypeInv, HeadOK
<1>3. ASSUME NEW n \in Nat, Anchor(n), n <= head.page
      PROVE  n \in ChainPages(head) /\ rec[n].kind = "commit"
  <2>1. n \in Pages /\ rec[n].kind = "commit" /\ n \in 1 .. head.page
    BY <1>3, <1>2, Constants DEF Anchor, IsCommit, Pages
  <2>2. IsCommit(head.page)
    BY <1>2, <2>1 DEF OnFile, GenesisHead
  <2> QED BY <1>1, <1>2, <2>1, <2>2, ChainComplete DEF ChainPages
<1>4. ASSUME NEW a \in acked
      PROVE  AnchorHolds(head, a)
  <2>1. OnFile(a) /\ Anchor(a.page) /\ a.page <= head.page /\ a.page \in Nat
    BY PageNumbers DEF AnchorsInv, ReachInv
  <2>2. a = HeadFrom(rec[a.page], a.page)
    BY <2>1 DEF OnFile, Anchor, IsCommit, Pages, GenesisHead
  <2>3. a.id = rec[a.page].id /\ a.version = rec[a.page].version
    BY <2>2 DEF HeadFrom
  <2> QED BY <1>3, <2>1, <2>3 DEF AnchorHolds
<1>5. \A s \in {0, 1} : slot[s].page # 0 => slot[s].page \in ChainPages(head)
  BY <1>3, PageNumbers DEF TypeInv, FileShape, AnchorsInv, ReachInv
<1> QED BY <1>4, <1>5

\* Whatever a kill or a power cut leaves of the file, and however often they
\* strike, a store that is open again still has every commit that was
\* acknowledged, torn pages, lost writes and failing seals included.
THEOREM AckedCommitsSurvive ==
    ASSUME PublishIsSound
    PROVE  Spec => []NoAckedLoss
<1>1. LogInv => NoAckedLoss
  BY LogInvGives
<1> QED BY <1>1, LogInit, LogStep, PTL DEF Spec

\* The meta slots never name anything but a commit of the history of the head.
THEOREM SlotsNeverStray ==
    ASSUME PublishIsSound
    PROVE  Spec => []SlotsInHistory
<1>1. LogInv => SlotsInHistory
  BY LogInvGives
<1> QED BY <1>1, LogInit, LogStep, PTL DEF Spec

----------------------------------------------------------------------------
(***************************************************************************)
(* What the store runs on passes the audit.                                *)
(*                                                                         *)
(* Full(p) says that the data pages of the commit at p are its own.  After *)
(* kills alone this is so for every commit page of the file, because none  *)
(* of them is ever left behind the head.  A power cut may keep a commit    *)
(* page and lose the pages below it; as long as every slot was written     *)
(* once, a page that is still readable is the one the commit wrote.        *)
(***************************************************************************)
Full(p) ==
    /\ rec[p].pagesWritten \in Nat
    /\ \A q \in (p - rec[p].pagesWritten + 1) .. (p - 1) :
          q \in Pages /\ rec[q].kind = "data" /\ rec[q].id = rec[p].id

FullUpTo(n) == \A p \in 1 .. n : rec[p].kind = "commit" => Full(p)

\* The slot the writer will write next.
NextSlot == nextPage + (IF writer.phase = "write" THEN writer.done ELSE 0)

NoWriteFails == <<"commit", "write">> \notin Faults

\* The process may be killed any number of times; or it is interrupted once,
\* and no write of a record fails.
FewInterruptions ==
    MaxPowerCuts = 0 \/ (MaxKills + MaxPowerCuts <= 1 /\ NoWriteFails)

\* The pages the running process counts on are those of their commits.
HeadFull ==
    mode = "up" =>
       /\ FullUpTo(head.page)
       /\ writer.phase = "write" =>
             \A q \in nextPage .. nextPage + writer.done - 1 : rec[q].id = writer.id
       /\ writer.phase \in {"sync", "meta"} => FullUpTo(writer.new.page)

\* Before the first power cut no commit page is left behind the head.
NoOrphans ==
    powerCuts = 0 =>
       \A p \in Pages : rec[p].kind = "commit" =>
          Good(p) /\ Full(p) /\ (mode = "up" => p < nextPage)

\* Before the first interruption every slot is written once.
WrittenOnce ==
    kills = 0 /\ powerCuts = 0 /\ NoWriteFails =>
       /\ mode = "up"
       /\ \A q \in Pages : /\ may[q] \subseteq {rec[q], Empty, Torn}
                           /\ q >= NextSlot => rec[q] = Empty

\* What recovery may adopt after a crash is full.
TailSound ==
    mode # "up" => \A p \in Pages : rec[p].kind = "commit" /\ Linked(p) => Full(p)

AuditInv ==
    /\ LogInv
    /\ kills \in 0 .. MaxKills /\ powerCuts \in 0 .. MaxPowerCuts
    /\ HeadFull /\ NoOrphans /\ WrittenOnce /\ TailSound

\* A commit keeps its data pages while they are not written.
LEMMA FullKept ==
    ASSUME NEW p \in Pages, Full(p), \A q \in 1 .. p : rec'[q] = rec[q]
    PROVE  Full(p)'
<1>1. p \in Nat /\ p \in 1 .. p
  BY Constants DEF Pages
<1>2. rec'[p] = rec[p] /\ rec[p].pagesWritten \in Nat
  BY <1>1 DEF Full
<1>3. ASSUME NEW q \in (p - rec[p].pagesWritten + 1) .. (p - 1)
      PROVE  q \in Pages /\ rec'[q].kind = "data" /\ rec'[q].id = rec'[p].id
  <2>1. q \in Pages /\ rec[q].kind = "data" /\ rec[q].id = rec[p].id
    BY <1>3 DEF Full
  <2>2. q \in 1 .. p
    BY <1>1, <1>2, <1>3, <2>1 DEF Pages
  <2> QED BY <1>2, <2>1, <2>2
<1> QED BY <1>2, <1>3 DEF Full

\* So does a whole prefix.
LEMMA FullUpToKept ==
    ASSUME NEW n \in 0 .. MaxPages, FullUpTo(n), \A q \in 1 .. n : rec'[q] = rec[q]
    PROVE  FullUpTo(n)'
<1> SUFFICES ASSUME NEW p \in 1 .. n, rec'[p].kind = "commit" PROVE Full(p)'
  BY DEF FullUpTo
<1>1. p \in Pages /\ Full(p) /\ \A q \in 1 .. p : rec'[q] = rec[q]
  BY Constants DEF FullUpTo, Pages
<1> QED BY <1>1, FullKept

\* The audit visits nothing but commit pages of the history.
LEMMA ChainSound ==
    ASSUME LinksGoDown, NEW n \in 0 .. MaxPages, Good(n), n = 0 \/ IsCommit(n)
    PROVE  \A p \in Back[n] : p \in 1 .. n /\ rec[p].kind = "commit"
<1> USE Constants
<1> DEFINE S == {m \in Nat : m \in 0 .. n /\ (m = 0 \/ IsCommit(m)) =>
                    \A p \in Back[m] : p \in 1 .. m /\ rec[p].kind = "commit"}
<1>1. ASSUME NEW m \in Nat, \A k \in 0 .. m - 1 : k \in S
      PROVE  m \in S
  <2> SUFFICES ASSUME m \in 0 .. n, m = 0 \/ IsCommit(m), NEW p \in Back[m]
               PROVE  p \in 1 .. m /\ rec[p].kind = "commit"
    OBVIOUS
  <2>1. m # 0 /\ IsCommit(m)
    BY BackEquation
  <2>2. Linked(m)
    BY <2>1 DEF Good, IsCommit, Pages
  <2> DEFINE k == rec[m].prevPage
  <2>3. Back[m] = {m} \cup Back[k]
    BY <2>1, BackEquation DEF IsCommit
  <2>4. k \in 0 .. m - 1 /\ (k # 0 => rec[k].kind = "commit")
    BY <2>2 DEF Linked
  <2> HIDE DEF k
  <2>5. k \in S /\ k \in 0 .. n /\ (k = 0 \/ IsCommit(k))
    BY <1>1, <2>4 DEF IsCommit, Pages
  <2>6. CASE p = m
    BY <2>1, <2>6 DEF IsCommit
  <2>7. CASE p \in Back[k]
    BY <2>4, <2>5, <2>7
  <2> QED BY <2>3, <2>6, <2>7
<1>2. \A m \in Nat : m \in S
  <2> HIDE DEF S
  <2> QED BY <1>1, StrongInduction
<1> QED BY <1>2

\* A head with a full history passes the audit.
LEMMA FullAudits ==
    ASSUME AuditInv
    PROVE  RecoveryAudits
<1> USE DEF AuditInv, LogInv
<1>1. TypeOK /\ SlotsInHistory
  BY TypeInvGivesTypeOK, LogInvGives
<1>2. ASSUME mode = "up"
      PROVE  Verifies(head)
  <2>1. LinksGoDown
    BY DEF LinksGoDown, TypeInv, FileShape, RecordsOK, RecordOK
  <2>2. OnFile(head) /\ Good(head.page) /\ head.page \in 0 .. MaxPages
    BY <1>2 DEF HeadsInv, TypeInv, HeadOK
  <2>3. /\ head.page # 0 => IsCommit(head.page) /\ head = HeadFrom(rec[head.page], head.page)
    BY <2>2 DEF OnFile, GenesisHead
  <2>4. head.page # 0 => rec[head.page].id = head.id
    BY <2>3 DEF HeadFrom
  <2>5. \A p \in ChainPages(head) : p \in 1 .. head.page /\ rec[p].kind = "commit"
    BY <2>1, <2>2, <2>3, ChainSound DEF ChainPages
  <2>6. ASSUME NEW p \in ChainPages(head)
        PROVE  CommitAudits(p)
    <3>1. p \in 1 .. head.page /\ rec[p].kind = "commit"
      BY <2>5
    <3>2. Linked(p) /\ Full(p)
      BY <1>2, <2>2, <3>1 DEF Good, HeadFull, FullUpTo
    <3> QED BY <3>1, <3>2 DEF CommitAudits, Linked, Full
  <2> QED BY <2>4, <2>6 DEF Verifies
<1> QED BY <1>1, <1>2 DEF RecoveryAudits, HeadVerifies

\* AuditInv holds initially.
LEMMA AuditInit == Init => AuditInv
<1> SUFFICES ASSUME Init PROVE AuditInv
  OBVIOUS
<1> USE Constants
<1>1. /\ may = [p \in Pages |-> {rec[p]}] /\ mode = "up" /\ writer = NoCommit
      /\ kills = 0 /\ powerCuts = 0 /\ LogInv
  BY LogInit DEF Init
<1>2. kills \in 0 .. MaxKills /\ powerCuts \in 0 .. MaxPowerCuts
  BY <1>1, BoundsAssumption
<1>3. NextSlot = nextPage
  BY <1>1, PageNumbers DEF NextSlot, NoCommit, LogInv
<1>4. ASSUME NEW p \in Pages, rec[p].kind = "commit"
      PROVE  Good(p) /\ Full(p) /\ p < nextPage
  <2>1. InitCompacted
    BY <1>4 DEF Init, InitCreated, Empty
  <2>2. p = 2 /\ rec[p] = CheckpointPage /\ head = CheckpointHead /\ nextPage = 3
    BY <1>4, <2>1 DEF InitCompacted, DataPage, Empty
  <2>3. Good(p)
    <3>1. head.page = 2
      BY <2>2 DEF CheckpointHead, HeadFrom
    <3> QED BY <1>1, <2>2, <3>1 DEF LogInv, HeadsInv
  <2>4. Full(p)
    <3>1. rec[p].pagesWritten = 2 /\ rec[p].id = 1
      BY <2>2 DEF CheckpointPage
    <3>2. 1 \in Pages
      BY <2>2 DEF Pages
    <3>3. rec[1].kind = "data" /\ rec[1].id = 1
      BY <2>1, <3>2 DEF InitCompacted, DataPage
    <3>4. \A q \in (2 - 2 + 1) .. (2 - 1) : q = 1
      OBVIOUS
    <3> QED BY <2>2, <3>1, <3>2, <3>3, <3>4 DEF Full
  <2> QED BY <2>2, <2>3, <2>4
<1>5. HeadFull
  <2>1. FullUpTo(head.page)
    <3>1. head.page \in 0 .. MaxPages
      BY <1>1 DEF LogInv, TypeInv, HeadOK
    <3> QED BY <1>4, <3>1 DEF FullUpTo, Pages
  <2> QED BY <1>1, <2>1 DEF HeadFull, NoCommit
<1>6. \A q \in Pages : q >= nextPage => rec[q] = Empty
  BY DEF Init, InitCreated, InitCompacted, Pages
<1> QED
  BY <1>1, <1>2, <1>3, <1>4, <1>5, <1>6 DEF AuditInv, NoOrphans, WrittenOnce, TailSound

\* Steps that write no record.
LEMMA AuditStays ==
    ASSUME AuditInv, LogInv', UNCHANGED <<rec, mode, nextPage, kills, powerCuts>>,
           \A q \in Pages : may'[q] \subseteq may[q] \cup {rec[q]},
           FullUpTo(head.page) => \A n \in Nat : n = head'.page => FullUpTo(n),
           writer'.phase = "write" =>
              UNCHANGED writer \/ (writer'.done = 0 /\ writer.phase # "write"),
           writer.phase = "write" => writer'.phase = "write",
           writer'.phase \in {"sync", "meta"} =>
              writer'.new = writer.new /\ writer.phase \in {"sync", "meta"}
    PROVE  AuditInv'
<1> USE DEF AuditInv
<1>1. \A p \in Pages : (Good(p) => Good(p)') /\ (Full(p) => Full(p)')
  BY RecordsKept, FullKept, Constants DEF Pages
<1>2. \A n \in 0 .. MaxPages : FullUpTo(n) => FullUpTo(n)'
  BY FullUpToKept
<1>3. HeadFull'
  <2> SUFFICES ASSUME mode = "up" PROVE HeadFull'
    BY DEF HeadFull
  <2>1. FullUpTo(head.page)'
    <3>1. head'.page \in 0 .. MaxPages
      BY DEF LogInv, TypeInv, HeadOK
    <3> QED BY <1>2, <3>1, Constants DEF HeadFull
  <2>2. writer'.phase = "write" =>
          \A q \in nextPage' .. nextPage' + writer'.done - 1 : rec'[q].id = writer'.id
    <3>1. CASE UNCHANGED writer
      BY <3>1 DEF HeadFull
    <3>2. CASE writer'.done = 0
      <4>1. nextPage' .. nextPage' + writer'.done - 1 = {}
        BY <3>2, PageNumbers DEF LogInv
      <4> QED BY <4>1
    <3> QED BY <3>1, <3>2
  <2>3. writer'.phase \in {"sync", "meta"} => FullUpTo(writer.new.page)'
    <3>1. writer.new.page \in 0 .. MaxPages
      BY DEF LogInv, TypeInv, HeadOK
    <3> QED BY <1>2, <3>1 DEF HeadFull
  <2> QED BY <2>1, <2>2, <2>3 DEF HeadFull
<1>4. NoOrphans'
  BY <1>1 DEF NoOrphans
<1>5. WrittenOnce'
  <2> SUFFICES ASSUME kills = 0, powerCuts = 0, NoWriteFails PROVE WrittenOnce'
    BY DEF WrittenOnce
  <2>1. /\ writer.phase = "write" => writer.done \in Nat
        /\ writer'.phase = "write" => writer'.done \in Nat
    BY Constants DEF LogInv, TypeInv, WriterOK
  <2>2. NextSlot \in Nat /\ NextSlot' \in Nat /\ NextSlot <= NextSlot'
    <3>1. CASE writer.phase = "write"
      BY <2>1, <3>1, PageNumbers DEF NextSlot, LogInv
    <3>2. CASE writer.phase # "write"
      BY <2>1, <3>2, PageNumbers DEF NextSlot, LogInv
    <3> QED BY <3>1, <3>2
  <2>3. \A q \in Pages : q >= NextSlot' => q >= NextSlot
    BY <2>2, PageNumbers DEF LogInv
  <2> QED BY <2>3 DEF WrittenOnce
<1>6. TailSound'
  <2>1. \A p \in Pages : rec[p].kind = "commit" => (Linked(p)' => Linked(p))
    BY DEF Linked
  <2> QED BY <1>1, <2>1 DEF TailSound
<1> QED BY <1>3, <1>4, <1>5, <1>6

\* Everything below the next slot stays while a record is written there.
LEMMA WriteBelowStays ==
    ASSUME AuditInv, mode = "up", writer.phase = "write",
           NEW p \in Pages, p >= nextPage, NEW c, WriteRecord(p, c),
           UNCHANGED <<slot, maySlot>>
    PROVE  /\ \A q \in Pages : rec'[q] = IF q = p THEN c ELSE rec[q]
           /\ \A q \in Pages : may'[q] = IF q = p THEN may[p] \cup {c, Torn} ELSE may[q]
           /\ \A q \in Pages : q < nextPage =>
                 (Good(q) => Good(q)') /\ (Full(q) => Full(q)')
           /\ \A n \in 0 .. MaxPages : n < nextPage /\ FullUpTo(n) => FullUpTo(n)'
<1> USE DEF AuditInv, LogInv
<1>1. \A q \in Pages : /\ rec'[q] = IF q = p THEN c ELSE rec[q]
                       /\ may'[q] = IF q = p THEN may[p] \cup {c, Torn} ELSE may[q]
  BY RecordWritten DEF TypeInv
<1>2. \A q \in 1 .. nextPage - 1 : rec'[q] = rec[q]
  BY <1>1, PageNumbers, Constants DEF Pages
<1>3. ASSUME NEW q \in Pages, q < nextPage
      PROVE  (Good(q) => Good(q)') /\ (Full(q) => Full(q)')
  <2>1. q \in Nat /\ \A r \in 1 .. q : rec'[r] = rec[r]
    BY <1>2, <1>3, PageNumbers
  <2> QED BY <2>1, GoodKept, FullKept
<1>4. ASSUME NEW n \in 0 .. MaxPages, n < nextPage, FullUpTo(n)
      PROVE  FullUpTo(n)'
  <2>1. \A q \in 1 .. n : rec'[q] = rec[q]
    BY <1>2, <1>4, PageNumbers, Constants
  <2> QED BY <1>4, <2>1, FullUpToKept
<1> QED BY <1>1, <1>3, <1>4

\* The writes of a commit keep the audit invariant.
LEMMA AuditWrites ==
    ASSUME AuditInv, WriteDataPage \/ WriteFails \/ WriteCommitPage, LogInv'
    PROVE  AuditInv'
<1> USE DEF AuditInv, LogInv
<1> USE Constants
<1>1. /\ mode = "up" /\ mode' = "up" /\ writer.phase = "write"
      /\ UNCHANGED <<slot, maySlot, kills, powerCuts>>
  BY DEF WriteDataPage, WriteFails, WriteCommitPage, histVars
<1>2. /\ nextPage \in Nat /\ writer.done \in Nat /\ writer.size \in Nat
      /\ nextPage + writer.done \in Pages /\ nextPage = head.page + 1
      /\ head.page \in 0 .. MaxPages /\ NextSlot = nextPage + writer.done
      /\ writer.size >= 2 /\ writer.id = attempts
  BY <1>1, WriterSlot, PageNumbers
     DEF WriterInv, TypeInv, WriterOK, HeadOK, NextSlot
<1>3. TailSound'
  BY <1>1 DEF TailSound
<1>4. CASE WriteDataPage
  <2> DEFINE p == nextPage + writer.done
             c == DataPage(writer.id, nonce)
  <2>1. WriteRecord(p, c) /\ UNCHANGED <<head, nextPage>>
        /\ writer' = [writer EXCEPT !.done = @ + 1]
    BY <1>4 DEF WriteDataPage
  <2>2. c.kind = "data" /\ c.id = writer.id /\ p >= nextPage
    BY <1>2 DEF DataPage
  <2>3. /\ writer'.done = writer.done + 1 /\ writer'.phase = "write"
        /\ writer'.id = writer.id
    BY <1>1, <2>1 DEF TypeInv, WriterOK
  <2> HIDE DEF c, p
  <2>4. /\ \A q \in Pages : rec'[q] = IF q = p THEN c ELSE rec[q]
        /\ \A q \in Pages : may'[q] = IF q = p THEN may[p] \cup {c, Torn} ELSE may[q]
        /\ \A q \in Pages : q < nextPage =>
              (Good(q) => Good(q)') /\ (Full(q) => Full(q)')
        /\ \A n \in 0 .. MaxPages : n < nextPage /\ FullUpTo(n) => FullUpTo(n)'
    BY <1>1, <1>2, <2>1, <2>2, WriteBelowStays DEF p
  <2>5. HeadFull'
    <3>1. FullUpTo(head.page)'
      BY <1>1, <1>2, <2>1, <2>4 DEF HeadFull
    <3>2. ASSUME NEW q \in nextPage .. nextPage + writer'.done - 1
          PROVE  rec'[q].id = writer'.id
      <4>1. q = p \/ q \in nextPage .. nextPage + writer.done - 1
        BY <1>2, <2>3 DEF p
      <4>2. q \in Pages
        BY <1>2, <2>3 DEF Pages
      <4>3. q # p => rec[q].id = writer.id
        BY <1>1, <4>1 DEF HeadFull
      <4> QED BY <2>2, <2>3, <2>4, <4>2, <4>3
    <3> QED BY <1>1, <2>1, <2>3, <3>1, <3>2 DEF HeadFull
  <2>6. NoOrphans'
    <3> SUFFICES ASSUME powerCuts = 0, NEW q \in Pages, rec'[q].kind = "commit"
                 PROVE  Good(q)' /\ Full(q)' /\ q < nextPage'
      BY <1>1 DEF NoOrphans
    <3>1. q # p /\ rec[q].kind = "commit"
      BY <2>2, <2>4
    <3> QED BY <1>1, <2>1, <2>4, <3>1 DEF NoOrphans
  <2>7. WrittenOnce'
    <3> SUFFICES ASSUME kills = 0, powerCuts = 0, NoWriteFails PROVE WrittenOnce'
      BY <1>1 DEF WrittenOnce
    <3>1. NextSlot' = p + 1
      BY <1>2, <2>1, <2>3 DEF NextSlot, p
    <3>2. may[p] \subseteq {Empty, Torn}
      BY <1>2 DEF WrittenOnce, p
    <3>3. \A q \in Pages : q >= NextSlot' => q # p /\ q >= NextSlot
      BY <1>2, <3>1, PageNumbers DEF p
    <3> QED BY <1>1, <2>4, <3>2, <3>3 DEF WrittenOnce
  <2> QED BY <1>1, <1>3, <2>5, <2>6, <2>7
<1>5. CASE WriteFails
  <2> DEFINE p == nextPage + writer.done
  <2>1. PICK c \in {rec[p], Torn} : WriteRecord(p, c)
    BY <1>5 DEF WriteFails
  <2>2. UNCHANGED <<head, nextPage>> /\ writer' = NoCommit /\ ~NoWriteFails
        /\ p >= nextPage
    BY <1>2, <1>5 DEF WriteFails, NoWriteFails
  <2> HIDE DEF p
  <2>3. /\ \A q \in Pages : rec'[q] = IF q = p THEN c ELSE rec[q]
        /\ \A q \in Pages : q < nextPage =>
              (Good(q) => Good(q)') /\ (Full(q) => Full(q)')
        /\ \A n \in 0 .. MaxPages : n < nextPage /\ FullUpTo(n) => FullUpTo(n)'
    BY <1>1, <1>2, <2>1, <2>2, WriteBelowStays DEF p
  <2>4. HeadFull'
    <3>1. FullUpTo(head.page)'
      BY <1>1, <1>2, <2>2, <2>3 DEF HeadFull
    <3> QED BY <2>2, <3>1 DEF HeadFull, NoCommit
  <2>5. NoOrphans'
    <3> SUFFICES ASSUME powerCuts = 0, NEW q \in Pages, rec'[q].kind = "commit"
                 PROVE  Good(q)' /\ Full(q)' /\ q < nextPage'
      BY <1>1 DEF NoOrphans
    <3>1. rec[q].kind = "commit"
      BY <2>1, <2>3 DEF Torn
    <3> QED BY <1>1, <2>2, <2>3, <3>1 DEF NoOrphans
  <2> QED BY <1>1, <1>3, <2>2, <2>4, <2>5 DEF WrittenOnce
<1>6. CASE WriteCommitPage
  <2>1. PICK h : h = NewHead
    OBVIOUS
  <2> DEFINE p == h.page
             c == NewCommitPage
  <2>2. /\ p \in Pages /\ p > head.page /\ Good(p)'
        /\ p = nextPage + writer.size - 1 /\ writer.done = writer.size - 1
        /\ WriteRecord(p, c) /\ nextPage' = p + 1
    BY <1>1, <1>6, <2>1, NewCommitGood, NewPageType DEF WriteCommitPage
  <2>3. c.kind = "commit" /\ c.id = writer.id /\ c.pagesWritten = writer.size
    BY DEF NewCommitPage, CommitPage
  <2> HIDE DEF c
  <2>4. p >= nextPage /\ p = nextPage + writer.done /\ p \in Nat
    BY <1>2, <2>2
  <2>5. /\ \A q \in Pages : rec'[q] = IF q = p THEN c ELSE rec[q]
        /\ \A q \in Pages : may'[q] = IF q = p THEN may[p] \cup {c, Torn} ELSE may[q]
        /\ \A q \in Pages : q < nextPage =>
              (Good(q) => Good(q)') /\ (Full(q) => Full(q)')
        /\ \A n \in 0 .. MaxPages : n < nextPage /\ FullUpTo(n) => FullUpTo(n)'
    BY <1>1, <2>2, <2>4, WriteBelowStays
  <2>6. Full(p)'
    <3>1. rec'[p] = c
      BY <2>2, <2>5
    <3>2. ASSUME NEW q \in (p - writer.size + 1) .. (p - 1)
          PROVE  q \in Pages /\ rec'[q].kind = "data" /\ rec'[q].id = writer.id
      <4>1. q \in nextPage .. nextPage + writer.done - 1 /\ q \in Pages /\ q # p
        BY <1>2, <2>2, <2>4 DEF Pages
      <4>2. rec[q].kind = "data" /\ rec[q].id = writer.id
        BY <1>1, <4>1 DEF WriterInv, HeadFull
      <4> QED BY <2>5, <4>1, <4>2
    <3> QED BY <1>2, <2>3, <3>1, <3>2 DEF Full
  <2>7. \A q \in Pages : rec'[q].kind = "commit" /\ q # p => rec[q].kind = "commit"
    BY <2>5
  <2>8. FullUpTo(p)'
    <3> SUFFICES ASSUME NEW q \in 1 .. p, rec'[q].kind = "commit"
                 PROVE  Full(q)'
      BY DEF FullUpTo
    <3>1. q \in Pages
      BY <2>2 DEF Pages
    <3>2. q # p => q < nextPage /\ q <= head.page
      <4> SUFFICES ASSUME q # p PROVE ~(q > head.page)
        BY <1>2, <3>1, PageNumbers
      <4>1. q > head.page => q \in nextPage .. nextPage + writer.done - 1
        BY <1>2, <2>4
      <4>2. rec[q].kind = "commit"
        BY <2>7, <3>1
      <4> QED BY <1>1, <4>1, <4>2 DEF WriterInv
    <3>3. q # p => Full(q)
      BY <1>1, <1>2, <2>7, <3>1, <3>2 DEF HeadFull, FullUpTo, Pages
    <3> QED BY <2>5, <2>6, <3>1, <3>2, <3>3
  <2>9. FullUpTo(head.page) /\ head.page < nextPage
    BY <1>1, <1>2 DEF HeadFull
  <2>10. HeadFull'
    <3>1. CASE writer.kind = "tx"
      <4>1. head' = h /\ writer' = NoCommit
        BY <1>6, <2>1, <3>1 DEF WriteCommitPage
      <4> QED BY <2>8, <4>1 DEF HeadFull, NoCommit
    <3>2. CASE writer.kind # "tx"
      <4>1. head' = head /\ writer' = [writer EXCEPT !.phase = "sync", !.new = h]
        BY <1>6, <2>1, <3>2 DEF WriteCommitPage
      <4>2. writer'.phase = "sync" /\ writer'.new = h
        BY <4>1 DEF TypeInv, WriterOK
      <4>3. FullUpTo(head.page)'
        BY <1>2, <2>5, <2>9, <4>1
      <4> QED BY <2>8, <4>2, <4>3 DEF HeadFull
    <3> QED BY <3>1, <3>2
  <2>11. NoOrphans'
    <3> SUFFICES ASSUME powerCuts = 0, NEW q \in Pages, rec'[q].kind = "commit"
                 PROVE  Good(q)' /\ Full(q)' /\ q < nextPage'
      BY <1>1 DEF NoOrphans
    <3>1. CASE q = p
      BY <2>2, <2>4, <2>6, <3>1
    <3>2. CASE q # p
      <4>1. Good(q) /\ Full(q) /\ q < nextPage
        BY <1>1, <2>7, <3>2 DEF NoOrphans
      <4> QED BY <1>2, <2>2, <2>4, <2>5, <4>1, PageNumbers
    <3> QED BY <3>1, <3>2
  <2>12. WrittenOnce'
    <3> SUFFICES ASSUME kills = 0, powerCuts = 0, NoWriteFails PROVE WrittenOnce'
      BY <1>1 DEF WrittenOnce
    <3>1. NextSlot' = p + 1
      <4>1. writer'.phase \in {"none", "sync"}
        <5>1. CASE writer.kind = "tx"
          BY <1>6, <5>1 DEF WriteCommitPage, NoCommit
        <5>2. CASE writer.kind # "tx"
          <6>1. writer' = [writer EXCEPT !.phase = "sync", !.new = h]
            BY <1>6, <2>1, <5>2 DEF WriteCommitPage
          <6> QED BY <6>1 DEF TypeInv, WriterOK
        <5> QED BY <5>1, <5>2
      <4> QED BY <2>2, <2>4, <4>1 DEF NextSlot
    <3>2. may[p] \subseteq {Empty, Torn}
      BY <1>2, <2>2, <2>4 DEF WrittenOnce
    <3>3. \A q \in Pages : q >= NextSlot' => q # p /\ q >= NextSlot
      BY <1>2, <2>4, <3>1, PageNumbers
    <3> QED BY <1>1, <2>5, <3>2, <3>3 DEF WrittenOnce
  <2> QED BY <1>1, <1>3, <2>10, <2>11, <2>12
<1> QED BY <1>4, <1>5, <1>6

\* After kills no commit page lies behind the head; after the only power cut a
\* commit page that is still linked to its predecessor has its data pages.
LEMMA AuditCrash ==
    ASSUME AuditInv, FewInterruptions, Kill \/ PowerCut, LogInv'
    PROVE  AuditInv'
<1> USE BoundsAssumption DEF AuditInv
<1>1. mode = "up" /\ mode' = "down"
  BY DEF Kill, PowerCut, Down
<1>2. CASE Kill
  <2>1. /\ kills' = kills + 1 /\ UNCHANGED <<rec, powerCuts>> /\ powerCuts = 0
        /\ kills' \in 0 .. MaxKills
    BY <1>2 DEF Kill, fileVars, FewInterruptions
  <2>2. \A p \in Pages : rec[p].kind = "commit" => Good(p)' /\ Full(p)'
    BY <2>1, RecordsKept, FullKept, Constants DEF NoOrphans, Pages
  <2>3. NoOrphans' /\ TailSound'
    BY <1>1, <2>1, <2>2 DEF NoOrphans, TailSound
  <2> QED BY <1>1, <2>1, <2>3 DEF HeadFull, WrittenOnce
<1>3. CASE PowerCut
  <2>1. /\ powerCuts' = 1 /\ powerCuts = 0 /\ kills = 0 /\ kills' = 0 /\ NoWriteFails
        /\ powerCuts' \in 0 .. MaxPowerCuts
    BY <1>3 DEF PowerCut, FewInterruptions
  <2>2. \A q \in Pages : rec'[q] \in {rec[q], Empty, Torn}
    BY <1>3, <2>1, PowerCutLeaves DEF WrittenOnce, LogInv, TypeInv
  <2>3. \A q \in Pages : rec'[q].kind \in {"data", "commit"} => rec'[q] = rec[q]
    BY <2>2 DEF Empty, Torn
  <2>4. ASSUME NEW p \in Pages, rec'[p].kind = "commit", Linked(p)'
        PROVE  Full(p)'
    <3>1. rec'[p] = rec[p] /\ Good(p) /\ Full(p)
      BY <2>1, <2>3, <2>4 DEF NoOrphans
    <3>2. Linked(p) /\ p \in Nat
      BY <2>4, <3>1, Constants DEF Good, Pages
    <3>3. PICK k : k = rec[p].prevPage
      OBVIOUS
    <3>4. k \in 0 .. p - 1 /\ (k # 0 => rec[k].kind = "commit")
      BY <3>2, <3>3 DEF Linked
    <3>5. PICK n \in Nat : n = rec[p].pagesWritten
      BY <3>1 DEF Full
    <3>6. ASSUME NEW q \in (p - n + 1) .. (p - 1)
          PROVE  q \in Pages /\ rec'[q].kind = "data" /\ rec'[q].id = rec'[p].id
      <4>1. q \in Pages /\ rec[q].kind = "data" /\ rec[q].id = rec[p].id
        BY <3>1, <3>5, <3>6 DEF Full
      <4>2. k # 0 => ~(k \in (p - n + 1) .. (p - 1))
        <5> SUFFICES ASSUME k # 0, k \in (p - n + 1) .. (p - 1) PROVE FALSE
          OBVIOUS
        <5>1. rec[k].kind = "data"
          BY <3>1, <3>5 DEF Full
        <5> QED BY <3>4, <5>1
      <4>3. q \in k + 1 .. p - 1
        BY <3>2, <3>4, <3>5, <3>6, <4>1, <4>2 DEF Pages
      <4>4. rec'[q].kind = "data"
        BY <2>4, <3>1, <3>3, <4>3 DEF Linked
      <4> QED BY <2>3, <3>1, <4>1, <4>4
    <3> QED BY <3>1, <3>5, <3>6 DEF Full
  <2> QED BY <1>1, <2>1, <2>4 DEF HeadFull, NoOrphans, WrittenOnce, TailSound
<1> QED BY <1>2, <1>3

\* What an open adopts is full.
LEMMA AuditOpen ==
    ASSUME AuditInv, Open \/ OpenRefused, LogInv'
    PROVE  AuditInv'
<1> USE Constants DEF AuditInv, LogInv
<1>1. UNCHANGED <<rec, kills, powerCuts>> /\ mode = "down" /\ writer = NoCommit
      /\ writer' = NoCommit
  BY DEF Open, OpenRefused, fileVars, memVars, histVars, TypeInv
<1>2. WrittenOnce'
  BY <1>1 DEF WrittenOnce
<1>3. \A p \in Pages : /\ Good(p) => Good(p)'
                       /\ Full(p) => Full(p)'
                       /\ Linked(p)' => Linked(p)
  BY <1>1, RecordsKept, FullKept DEF Pages, Linked
<1>4. CASE OpenRefused
  <2>1. mode' = "refused"
    BY <1>4 DEF OpenRefused
  <2>2. NoOrphans' /\ TailSound'
    BY <1>1, <1>3, <2>1 DEF NoOrphans, TailSound
  <2> QED BY <1>1, <1>2, <2>1, <2>2 DEF HeadFull
<1>5. CASE Open
  <2>1. mode' = "up" /\ head' = Recover /\ nextPage' = head'.page + 1
    BY <1>5 DEF Open
  <2>2. /\ Good(Recover.page) /\ Recover.page \in 0 .. MaxPages
        /\ \A n \in Pages : IsCommit(n) /\ Good(n) => n <= Recover.page
    BY RecoverFinds, StartAnchored DEF TypeInv, Ids
  <2>3. PICK r \in 0 .. MaxPages : r = Recover.page
    BY <2>2
  <2>4. FullUpTo(r)
    <3> SUFFICES ASSUME NEW p \in 1 .. r, rec[p].kind = "commit" PROVE Full(p)
      BY DEF FullUpTo
    <3>1. Linked(p) /\ p \in Pages
      BY <2>2, <2>3 DEF Good, Pages
    <3> QED BY <1>1, <3>1 DEF TailSound
  <2>5. FullUpTo(r)'
    BY <1>1, <2>4, FullUpToKept
  <2>6. HeadFull'
    BY <1>1, <2>1, <2>3, <2>5 DEF HeadFull, NoCommit
  <2>7. NoOrphans'
    BY <1>1, <1>3, <2>1, <2>2, PageNumbers DEF NoOrphans, IsCommit
  <2> QED BY <1>1, <1>2, <2>1, <2>6, <2>7 DEF TailSound
<1> QED BY <1>4, <1>5

\* AuditInv is inductive.
LEMMA AuditStep ==
    ASSUME PublishIsSound, FewInterruptions
    PROVE  AuditInv /\ [Next]_vars => AuditInv'
<1> SUFFICES ASSUME AuditInv, [Next]_vars PROVE AuditInv'
  OBVIOUS
<1>1. LogInv' /\ ~PublishFails
  BY LogStep DEF AuditInv, PublishFails, CallFails, PublishIsSound
<1>2. TypeInv /\ FileShape /\ WriterOK
  BY DEF AuditInv, LogInv, TypeInv
<1>3. CASE UNCHANGED vars
  BY <1>1, <1>3, AuditStays DEF vars
<1>4. ASSUME NEW kind \in {"tx", "publish"}, NEW size \in Sizes, BeginCommit(kind, size)
      PROVE  AuditInv'
  BY <1>1, <1>4, AuditStays DEF BeginCommit, fileVars, NoCommit
<1>5. CASE PublishSync
  BY <1>1, <1>2, <1>5, AuditStays DEF PublishSync, SyncData, histVars, WriterOK
<1>6. CASE PublishHead
  <2>1. FullUpTo(writer.new.page)
    BY <1>6 DEF PublishHead, AuditInv, HeadFull
  <2> QED BY <1>1, <1>6, <2>1, AuditStays DEF PublishHead, NoCommit
<1>7. CASE LeadSeal
  BY <1>1, <1>7, AuditStays DEF LeadSeal, fileVars, histVars
<1>8. CASE SealSync
  BY <1>1, <1>8, AuditStays DEF SealSync, SyncData, histVars
<1>9. CASE SealDone \/ SealFails
  BY <1>1, <1>9, AuditStays DEF SealDone, SealFails, CallFails, histVars
<1> QED
  BY <1>1, <1>3, <1>4, <1>5, <1>6, <1>7, <1>8, <1>9, AuditWrites, AuditCrash,
     AuditOpen DEF Next

\* Whatever head an open recovers passes a complete audit, and so does every
\* head after it: after any number of kills, or after one power cut if no
\* write of a record failed before it.
THEOREM RecoveredHeadsAudit ==
    ASSUME PublishIsSound, FewInterruptions
    PROVE  Spec => []RecoveryAudits
<1>1. AuditInv => RecoveryAudits
  BY FullAudits
<1> QED BY <1>1, AuditInit, AuditStep, PTL DEF Spec

----------------------------------------------------------------------------
(***************************************************************************)
(* A value of the sealing counter seals one record.                        *)
(*                                                                         *)
(* Until the first interruption the record of slot p is sealed with p - 1. *)
(* What an open finds is below the end of the file, so the counter resumes *)
(* past all of it, and from there it runs at a fixed distance from the     *)
(* slots.                                                                  *)
(***************************************************************************)
\* The process is interrupted once at most and no write of a record fails: a
\* failing write, and a second tail, spend values the margin does not count.
OneInterruption == MaxKills + MaxPowerCuts <= 1 /\ NoWriteFails

\* The counters of records that an uninterrupted process wrote.
InOrder ==
    \A p \in Pages : \A c \in may[p] :
       Readable(c) => c.nonce = p - 1 /\ (c.kind = "commit" => c.counter = p)

\* What the open found: one record per slot, all of them behind the counter.
SeenBehind ==
    /\ \A s \in seen : s.nonce \in 0 .. nonce - 1 /\ s.page = s.nonce + 1
    /\ \A s, t \in seen : s.page = t.page => s = t

\* The record of slot p was found, or sealed after the open.
WasFound(p) == [nonce |-> rec[p].nonce, id |-> rec[p].id, page |-> p] \in seen
SealedSince(p) ==
    /\ p < NextSlot
    /\ rec[p].nonce = nonce - NextSlot + p
    /\ \A s \in seen : s.nonce < rec[p].nonce

CounterInv ==
    /\ TypeInv
    /\ kills \in 0 .. MaxKills /\ powerCuts \in 0 .. MaxPowerCuts
    /\ kills + powerCuts = 0 => mode = "up" /\ nonce = NextSlot - 1
    /\ kills + powerCuts = 0 \/ mode # "up" => seen = {} /\ InOrder
    /\ kills + powerCuts # 0 /\ mode = "up" =>
          SeenBehind /\ \A p \in Pages : Readable(rec[p]) => WasFound(p) \/ SealedSince(p)
\* The invariant has what the property says.
LEMMA CounterInvGives == CounterInv => CounterFresh
<1> SUFFICES ASSUME CounterInv, NEW r \in SealedRecords, NEW s \in SealedRecords \cup seen,
                    r.nonce = s.nonce
             PROVE  r = s
  BY DEF CounterFresh
<1> DEFINE At(p) == [nonce |-> rec[p].nonce, id |-> rec[p].id, page |-> p]
<1>1. \A t \in SealedRecords : \E p \in Pages : Readable(rec[p]) /\ t = At(p)
  BY DEF SealedRecords
<1>2. PICK p \in Pages : Readable(rec[p]) /\ r = At(p)
  BY <1>1
<1>3. \A q \in Pages : At(q).nonce = rec[q].nonce /\ At(q).page = q
  OBVIOUS
<1>4. \A q \in Pages : WasFound(q) <=> At(q) \in seen
  BY DEF WasFound
<1>5. Pages \subseteq Nat
  BY Constants DEF Pages
<1> HIDE DEF At
<1>6. CASE kills + powerCuts = 0 \/ mode # "up"
  <2>1. seen = {} /\ InOrder /\ FileShape
    BY <1>6 DEF CounterInv, TypeInv
  <2>2. PICK q \in Pages : Readable(rec[q]) /\ s = At(q)
    BY <1>1, <2>1
  <2>3. rec[p].nonce = p - 1 /\ rec[q].nonce = q - 1
    BY <1>2, <2>1, <2>2 DEF InOrder, FileShape
  <2> QED BY <1>2, <1>3, <1>5, <2>2, <2>3
<1>7. CASE kills + powerCuts # 0 /\ mode = "up"
  <2>1. SeenBehind /\ (WasFound(p) \/ SealedSince(p)) /\ nonce \in Nat /\ NextSlot \in Int
    BY <1>2, <1>7, PageNumbers, Constants DEF CounterInv, TypeInv, WriterOK, NextSlot
  <2>2. \A t \in seen : t.page = t.nonce + 1 /\ t.nonce \in Int
    BY <2>1 DEF SeenBehind
  <2>3. CASE s \in seen
    <3>1. ~SealedSince(p)
      <4> SUFFICES ASSUME SealedSince(p) PROVE FALSE
        OBVIOUS
      <4>1. s.nonce < rec[p].nonce /\ s.nonce \in Int
        BY <1>5, <2>1, <2>3 DEF SealedSince, SeenBehind
      <4> QED BY <1>2, <1>3, <4>1
    <3>2. r \in seen
      BY <1>2, <1>4, <2>1, <3>1
    <3>3. r.page = s.page
      BY <2>3, <2>2, <3>2
    <3> QED BY <2>1, <2>3, <3>2, <3>3 DEF SeenBehind
  <2>4. CASE s \notin seen
    <3>1. PICK q \in Pages : Readable(rec[q]) /\ s = At(q)
      BY <1>1, <2>4
    <3>2. SealedSince(q)
      BY <1>4, <1>7, <2>4, <3>1 DEF CounterInv
    <3>3. SealedSince(p)
      <4> SUFFICES ASSUME r \in seen PROVE FALSE
        BY <1>2, <1>4, <2>1
      <4>1. r.nonce < rec[q].nonce /\ r.nonce \in Int
        BY <2>2, <3>2 DEF SealedSince
      <4> QED BY <1>2, <1>3, <3>1, <4>1
    <3>4. p = q
      BY <1>2, <1>3, <1>5, <2>1, <3>1, <3>2, <3>3 DEF SealedSince
    <3> QED BY <1>2, <3>1, <3>4
  <2> QED BY <2>3, <2>4
<1> QED BY <1>6, <1>7

\* CounterInv holds initially.
LEMMA CounterInit == Init => CounterInv
<1> SUFFICES ASSUME Init PROVE CounterInv
  OBVIOUS
<1>1. /\ may = [p \in Pages |-> {rec[p]}] /\ mode = "up" /\ writer = NoCommit
      /\ kills = 0 /\ powerCuts = 0 /\ seen = {} /\ TypeInv
  BY TypeInit DEF Init
<1>2. kills \in 0 .. MaxKills /\ powerCuts \in 0 .. MaxPowerCuts
  BY <1>1, BoundsAssumption
<1>3. NextSlot = nextPage
  BY <1>1, PageNumbers DEF NextSlot, NoCommit
<1>4. nonce = nextPage - 1
  BY DEF Init, InitCreated, InitCompacted
<1>5. ASSUME NEW p \in Pages, Readable(rec[p])
      PROVE  rec[p].nonce = p - 1 /\ (rec[p].kind = "commit" => rec[p].counter = p)
  <2>1. InitCompacted
    BY <1>5 DEF Init, InitCreated, Empty, Readable
  <2>2. (p = 1 /\ rec[p] = DataPage(1, 0)) \/ (p = 2 /\ rec[p] = CheckpointPage)
    BY <1>5, <2>1 DEF InitCompacted, Empty, Readable
  <2> QED BY <2>2 DEF DataPage, CheckpointPage
<1>6. InOrder
  BY <1>1, <1>5 DEF InOrder
<1> QED BY <1>1, <1>2, <1>3, <1>4, <1>6 DEF CounterInv
\* Steps that write no record leave the counter at its slot.
LEMMA CounterStays ==
    ASSUME CounterInv, TypeInv', UNCHANGED <<rec, mode, nonce, kills, powerCuts, seen>>,
           NextSlot' = NextSlot, \A p \in Pages : may'[p] \subseteq may[p]
    PROVE  CounterInv'
<1>1. InOrder => InOrder'
  BY DEF InOrder
<1>2. SeenBehind => SeenBehind'
  BY DEF SeenBehind
<1>3. \A p \in Pages : /\ WasFound(p) => WasFound(p)'
                       /\ SealedSince(p) => SealedSince(p)'
  BY DEF WasFound, SealedSince
<1> QED BY <1>1, <1>2, <1>3 DEF CounterInv

\* A record is sealed with the counter that belongs to its slot.
LEMMA CounterWrites ==
    ASSUME CounterInv, WriteDataPage \/ WriteCommitPage, TypeInv'
    PROVE  CounterInv'
<1> USE Constants DEF CounterInv
<1>1. /\ mode = "up" /\ mode' = "up" /\ writer.phase = "write" /\ nonce' = nonce + 1
      /\ UNCHANGED <<slot, maySlot, kills, powerCuts, seen>> /\ nonce \in Nat
  BY DEF WriteDataPage, WriteCommitPage, histVars, TypeInv
<1>2. PICK p \in Pages : p = nextPage + writer.done
  BY <1>1, WriterSlot
<1>3. NextSlot = p /\ p \in Nat /\ nextPage \in Nat /\ writer.done \in Nat
      /\ writer.size \in Nat
  BY <1>1, <1>2, WriterSlot, PageNumbers DEF NextSlot
<1>4. PICK c : /\ WriteRecord(p, c) /\ c.nonce = nonce
               /\ c.kind = "commit" => c.counter = nonce + 1
               /\ c.kind \in {"data", "commit"}
  <2>1. CASE WriteDataPage
    BY <1>2, <2>1 DEF WriteDataPage, DataPage
  <2>2. CASE WriteCommitPage
    <3>1. NewHead.page = p
      BY <1>2, <1>3, <2>2 DEF WriteCommitPage, NewHead, HeadFrom
    <3>2. NewCommitPage.nonce = nonce /\ NewCommitPage.counter = nonce + 1
          /\ NewCommitPage.kind = "commit"
      BY DEF NewCommitPage, CommitPage
    <3> HIDE DEF NewCommitPage, NewHead
    <3> QED BY <2>2, <3>1, <3>2 DEF WriteCommitPage
  <2> QED BY <2>1, <2>2
<1>5. NextSlot' = p + 1
  <2>1. CASE WriteDataPage
    <3>1. writer'.phase = "write" /\ writer'.done = writer.done + 1 /\ nextPage' = nextPage
      BY <1>1, <2>1 DEF WriteDataPage, TypeInv, WriterOK
    <3> QED BY <1>2, <1>3, <3>1 DEF NextSlot
  <2>2. CASE WriteCommitPage
    <3>1. PICK h : h = NewHead
      OBVIOUS
    <3>2. h.page = p /\ nextPage' = h.page + 1
      BY <1>2, <1>3, <2>2, <3>1 DEF WriteCommitPage, NewHead, HeadFrom
    <3>3. writer'.phase # "write"
      <4>1. CASE writer.kind = "tx"
        BY <2>2, <4>1 DEF WriteCommitPage, NoCommit
      <4>2. CASE writer.kind # "tx"
        <5>1. writer' = [writer EXCEPT !.phase = "sync", !.new = h]
          BY <2>2, <3>1, <4>2 DEF WriteCommitPage
        <5> QED BY <5>1 DEF TypeInv, WriterOK
      <4> QED BY <4>1, <4>2
    <3> QED BY <1>3, <3>2, <3>3 DEF NextSlot
  <2> QED BY <2>1, <2>2
<1>6. \A q \in Pages : /\ rec'[q] = IF q = p THEN c ELSE rec[q]
                       /\ may'[q] = IF q = p THEN may[p] \cup {c, Torn} ELSE may[q]
  BY <1>1, <1>4, RecordWritten DEF TypeInv
<1>7. CASE kills + powerCuts = 0
  <2>1. nonce = p - 1 /\ nonce' = NextSlot' - 1
    BY <1>1, <1>3, <1>5, <1>7
  <2>2. ASSUME NEW q \in Pages, NEW d \in may'[q], Readable(d)
        PROVE  d.nonce = q - 1 /\ (d.kind = "commit" => d.counter = q)
    <3>1. CASE d \in may[q]
      BY <1>7, <2>2, <3>1 DEF InOrder
    <3>2. CASE d \notin may[q]
      <4>1. q = p /\ d = c
        BY <1>6, <2>2, <3>2 DEF Torn, Readable
      <4> QED BY <1>3, <1>4, <2>1, <4>1
    <3> QED BY <3>1, <3>2
  <2>3. InOrder'
    BY <2>2 DEF InOrder, Readable
  <2> QED BY <1>1, <1>7, <2>1, <2>3
<1>8. CASE kills + powerCuts # 0
  <2>1. SeenBehind /\ \A q \in Pages : Readable(rec[q]) => WasFound(q) \/ SealedSince(q)
    BY <1>1, <1>8
  <2>2. SeenBehind'
    BY <1>1, <2>1 DEF SeenBehind
  <2>3. ASSUME NEW q \in Pages, Readable(rec'[q])
        PROVE  WasFound(q)' \/ SealedSince(q)'
    <3>1. CASE q = p
      <4>1. rec'[q] = c
        BY <1>6, <3>1
      <4>2. nonce' - NextSlot' + q = nonce
        BY <1>1, <1>3, <1>5, <3>1
      <4>3. \A s \in seen : s.nonce < nonce
        BY <1>1, <2>1 DEF SeenBehind
      <4>4. SealedSince(q)'
        BY <1>1, <1>3, <1>4, <1>5, <3>1, <4>1, <4>2, <4>3 DEF SealedSince
      <4> QED BY <4>4
    <3>2. CASE q # p
      <4>1. rec'[q] = rec[q]
        BY <1>6, <3>2
      <4>2. WasFound(q) => WasFound(q)'
        BY <1>1, <4>1 DEF WasFound
      <4>3. nonce' - NextSlot' + q = nonce - NextSlot + q /\ (q < NextSlot => q < NextSlot')
        BY <1>1, <1>3, <1>5 DEF Pages
      <4>4. SealedSince(q) => SealedSince(q)'
        BY <1>1, <4>1, <4>3 DEF SealedSince
      <4> QED BY <2>1, <2>3, <4>1, <4>2, <4>4
    <3> QED BY <3>1, <3>2
  <2>4. \A q \in Pages : Readable(rec[q])' => WasFound(q)' \/ SealedSince(q)'
    BY <2>3 DEF Readable
  <2> QED BY <1>1, <1>8, <2>2, <2>4
<1> QED BY <1>7, <1>8

\* The one interruption leaves records in order.
LEMMA CounterCrash ==
    ASSUME CounterInv, OneInterruption, Kill \/ PowerCut, TypeInv'
    PROVE  CounterInv'
<1> USE BoundsAssumption DEF CounterInv
<1>1. /\ kills + powerCuts = 0 /\ kills' + powerCuts' = 1 /\ mode' = "down"
      /\ kills' \in 0 .. MaxKills /\ powerCuts' \in 0 .. MaxPowerCuts /\ seen' = seen
  BY DEF OneInterruption, Kill, PowerCut, Down
<1>2. \A p \in Pages : may'[p] \subseteq may[p]
  <2>1. CASE Kill
    BY <2>1 DEF Kill, fileVars
  <2>2. CASE PowerCut
    BY <2>2, PowerCutLeaves DEF TypeInv
  <2> QED BY <2>1, <2>2
<1>3. InOrder'
  BY <1>1, <1>2 DEF InOrder
<1> QED BY <1>1, <1>3

\* What the scan of an open finds is on the file.
LEMMA RecoverOnFile ==
    ASSUME TypeInv
    PROVE  OnFile(Recover)
<1> USE Constants, Swept
<1>1. /\ FileShape /\ SlotsOK /\ RecordsOK /\ attempts \in Nat
  BY DEF TypeInv, Ids
<1>2. StartHead.page \in 0 .. SweptPages
  BY <1>1, ScanType DEF HeadOK
<1>3. \A p \in 1 .. SweptPages : rec[p].kind = "commit" => OnFile(HeadFrom(rec[p], p))
  BY DEF OnFile, IsCommit, Pages, HeadFrom
<1>4. OnFile(StartHead)
  BY <1>1, <1>3, StartFound DEF OnFile
<1> DEFINE S == {p \in 0 .. SweptPages : OnFile(Scan[p].head)}
<1>5. StartHead.page \in 0 .. MaxPages
  BY <1>2
<1>6. 0 \in S
  <2>1. 0 \in 0 .. MaxPages /\ 0 <= StartHead.page
    BY <1>5
  <2>2. Scan[0].head = StartHead
    BY <1>5, <2>1, ScanAt
  <2> QED BY <1>4, <2>2
<1>7. ASSUME NEW p \in 0 .. SweptPages - 1, p \in S
      PROVE  p + 1 \in S
  <2>1. p + 1 \in 0 .. MaxPages /\ p + 1 \in 1 .. SweptPages /\ p + 1 - 1 = p
    OBVIOUS
  <2>2. Scan[p + 1].head \in {StartHead, Scan[p].head}
        \/ (rec[p + 1].kind = "commit" /\ Scan[p + 1].head = HeadFrom(rec[p + 1], p + 1))
    BY <1>5, <2>1, ScanAt DEF Chained
  <2>3. OnFile(Scan[p + 1].head)
    BY <1>3, <1>4, <1>7, <2>1, <2>2
  <2> QED BY <2>1, <2>3
<1>8. 0 .. SweptPages \subseteq S
  <2> HIDE DEF S
  <2> QED BY <1>6, <1>7, BoundedInduction
<1> QED BY <1>8 DEF Recover
\* The counter of an open resumes past every record it finds.
LEMMA CounterOpen ==
    ASSUME CounterInv, Open \/ OpenRefused, TypeInv'
    PROVE  CounterInv'
<1> USE Constants DEF CounterInv
<1>1. /\ mode = "down" /\ UNCHANGED <<rec, may, kills, powerCuts>>
      /\ seen = {} /\ InOrder /\ kills + powerCuts # 0 /\ FileShape
  BY DEF Open, OpenRefused, fileVars, histVars, TypeInv
<1>2. CASE OpenRefused
  <2>1. mode' = "refused" /\ seen' = {} /\ InOrder'
    BY <1>1, <1>2 DEF OpenRefused, histVars, InOrder
  <2> QED BY <1>1, <2>1
<1>3. CASE Open
  <2>1. /\ mode' = "up" /\ head' = Recover /\ seen' = SealedRecords
        /\ nonce' = head'.counter + Max({0, EndOfFile - head'.page}) * RecordUnits
    BY <1>1, <1>3 DEF Open
  <2>2. Recover.counter = Recover.page /\ Recover.page \in Nat
    <3>1. CASE Recover = GenesisHead
      BY <3>1 DEF GenesisHead
    <3>2. CASE IsCommit(Recover.page) /\ Recover = HeadFrom(rec[Recover.page], Recover.page)
      <4>1. PICK p \in Pages : p = Recover.page
        BY <3>2 DEF IsCommit
      <4>2. rec[p].counter = p
        BY <1>1, <3>2, <4>1 DEF InOrder, FileShape, IsCommit, Readable
      <4>3. Recover.counter = rec[p].counter
        BY <3>2, <4>1 DEF HeadFrom
      <4> QED BY <4>1, <4>2, <4>3 DEF Pages
    <3> QED BY <3>1, <3>2, RecoverOnFile DEF OnFile
  <2>3. EndOfFile \in Nat /\ nonce' >= EndOfFile /\ nonce' \in Nat
    <3>1. EndOfFile \in Nat /\ nonce' \in Nat /\ RecordUnits >= 1
      BY EndOfFileType, RecordUnitsAssumption DEF TypeInv
    <3>2. PICK h \in Nat : h = Recover.page
      BY <2>2
    <3>3. PICK m \in Nat : m = Max({0, EndOfFile - h}) /\ m >= EndOfFile - h
      BY <3>1, MaxOfTwo
    <3>4. nonce' = h + m * RecordUnits
      BY <2>1, <2>2, <3>2, <3>3
    <3>5. m * RecordUnits >= m
      <4>1. PICK u \in Nat : RecordUnits = u + 1
        BY <3>1, RecordUnitsAssumption
      <4>2. m * (u + 1) = m * u + m /\ m * u \in Nat
        OBVIOUS
      <4> QED BY <4>1, <4>2
    <3> QED BY <3>1, <3>3, <3>4, <3>5
  <2>4. ASSUME NEW p \in Pages, Readable(rec[p])
        PROVE  rec[p].nonce \in 0 .. nonce' - 1 /\ p = rec[p].nonce + 1
    <3>1. p <= EndOfFile
      <4> DEFINE S == {0} \cup {q \in Pages : rec[q] # Empty}
      <4>1. S \in SUBSET (0 .. MaxPages) /\ p \in S
        BY <2>4 DEF Pages, Readable, Empty
      <4>2. EndOfFile = Max(S)
        BY DEF EndOfFile
      <4> HIDE DEF S
      <4> QED BY <4>1, <4>2, MaxOfBounded DEF Pages
    <3>2. rec[p].nonce = p - 1
      BY <1>1, <2>4 DEF InOrder, FileShape
    <3>3. p \in Nat /\ p - 1 >= 0 /\ p - 1 + 1 = p
      BY DEF Pages
    <3>4. PICK n \in Nat : n = nonce'
      BY <2>3
    <3>5. n >= EndOfFile
      BY <2>3, <3>4
    <3>6. p <= n
      BY <2>3, <3>1, <3>3, <3>5
    <3>7. p - 1 \in 0 .. n - 1
      BY <3>3, <3>6
    <3> QED BY <3>2, <3>3, <3>4, <3>7
  <2>5. \A s \in seen' : \E p \in Pages :
            /\ Readable(rec[p])
            /\ s = [nonce |-> rec[p].nonce, id |-> rec[p].id, page |-> p]
    BY <2>1 DEF SealedRecords
  <2>6. SeenBehind'
    <3>1. ASSUME NEW s \in seen'
          PROVE  s.nonce \in 0 .. nonce' - 1 /\ s.page = s.nonce + 1
      BY <2>4, <2>5
    <3>2. ASSUME NEW s \in seen', NEW t \in seen', s.page = t.page
          PROVE  s = t
      BY <2>5, <3>2
    <3> QED BY <3>1, <3>2 DEF SeenBehind
  <2>7. ASSUME NEW p \in Pages, Readable(rec[p])
        PROVE  WasFound(p)'
    BY <1>1, <2>1, <2>7 DEF WasFound, SealedRecords
  <2>8. \A p \in Pages : Readable(rec[p])' => WasFound(p)'
    BY <1>1, <2>7 DEF Readable
  <2> QED BY <1>1, <2>1, <2>6, <2>8
<1> QED BY <1>2, <1>3

\* CounterInv is inductive.
LEMMA CounterStep ==
    ASSUME OneInterruption
    PROVE  CounterInv /\ [Next]_vars => CounterInv'
<1> SUFFICES ASSUME CounterInv, [Next]_vars PROVE CounterInv'
  OBVIOUS
<1>1. TypeInv /\ TypeInv' /\ FileShape /\ WriterOK /\ nextPage \in Nat
  BY TypeStep, PageNumbers DEF CounterInv, TypeInv
<1>2. ~WriteFails
  BY DEF WriteFails, OneInterruption, NoWriteFails
<1>3. \A p \in Pages : {rec[p]} \subseteq may[p]
  BY <1>1 DEF FileShape
<1>4. CASE UNCHANGED vars
  BY <1>1, <1>4, CounterStays DEF vars, NextSlot
<1>5. ASSUME NEW kind \in {"tx", "publish"}, NEW size \in Sizes, BeginCommit(kind, size)
      PROVE  CounterInv'
  <2>1. NextSlot' = NextSlot
    BY <1>1, <1>5 DEF BeginCommit, NextSlot, NoCommit
  <2> QED BY <1>1, <1>5, <2>1, CounterStays DEF BeginCommit, fileVars
<1>6. CASE PublishSync \/ PublishFails \/ PublishHead
  <2>1. NextSlot' = NextSlot
    <3>1. writer.phase \in {"sync", "meta"} /\ nextPage' = nextPage
      BY <1>6 DEF PublishSync, PublishFails, PublishHead
    <3>2. writer'.phase # "write"
      BY <1>1, <1>6 DEF PublishSync, PublishFails, PublishHead, NoCommit, WriterOK
    <3> QED BY <3>1, <3>2 DEF NextSlot
  <2>2. UNCHANGED <<rec, mode, nonce, kills, powerCuts, seen>>
    BY <1>6 DEF PublishSync, PublishFails, PublishHead, SyncData, CallFails, histVars
  <2>3. \A p \in Pages : may'[p] \subseteq may[p]
    BY <1>3, <1>6 DEF PublishSync, PublishFails, PublishHead, SyncData, CallFails
  <2> QED BY <1>1, <2>1, <2>2, <2>3, CounterStays
<1>7. CASE LeadSeal \/ SealSync \/ SealDone \/ SealFails
  <2>1. UNCHANGED <<rec, mode, nonce, kills, powerCuts, seen, writer, nextPage>>
    BY <1>7 DEF LeadSeal, SealSync, SealDone, SealFails, SyncData, CallFails, fileVars,
                histVars
  <2>2. \A p \in Pages : may'[p] \subseteq may[p]
    BY <1>3, <1>7 DEF LeadSeal, SealSync, SealDone, SealFails, SyncData, CallFails,
                      fileVars
  <2>3. NextSlot' = NextSlot
    BY <2>1 DEF NextSlot
  <2> QED BY <1>1, <2>1, <2>2, <2>3, CounterStays
<1> QED
  BY <1>1, <1>2, <1>4, <1>5, <1>6, <1>7, CounterWrites, CounterCrash, CounterOpen DEF Next

\* The sealing counter never seals two records of the file with one value,
\* nor one that an open found there before: across one kill or power cut, in
\* files of any size and with records of any length, also when the calls of a
\* publish fail.
THEOREM CountersSealOnce ==
    ASSUME OneInterruption
    PROVE  Spec => []CounterFresh
<1> QED BY CounterInvGives, CounterInit, CounterStep, PTL DEF Spec
============================================================================
