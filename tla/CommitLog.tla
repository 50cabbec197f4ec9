----------------------------- MODULE CommitLog -----------------------------
(***************************************************************************)
(* The database file: what commits write to it, what a kill or a power cut *)
(* leaves of it, and what opening it recovers (src/src/pager.rs,           *)
(* src/src/commit.rs, open and commit of src/src/tx.rs).                   *)
(*                                                                         *)
(* The append region is a row of record slots, one per page id.  rec[p] is *)
(* what a read of slot p returns now (the operating system's cache) and    *)
(* may[p] the contents a power cut may leave there: everything written     *)
(* since the last fdatasync, the content before it, and a torn record,     *)
(* which fails its tag.  The two meta slots are rewritten in place and     *)
(* have the same two faces.                                                *)
(*                                                                         *)
(* Data is abstracted to the commit attempt that wrote it: a data page is  *)
(* [kind, id, nonce], a commit page also carries its header.  chain_hash   *)
(* is collision free, so the id of an attempt stands for it, and the       *)
(* prev_chain field is the id of the attempt it was chained after; the     *)
(* content_hash of attempt id matches the data pages written by id.        *)
(* All records take RecordUnits times the least length of a record, so a   *)
(* record that overwrites the torn tail lines up with the one below it;    *)
(* records of different lengths leave the slots after them unreadable,     *)
(* which is a torn record here.                                            *)
(***************************************************************************)
EXTENDS Integers, FiniteSets, FiniteSetsExt

CONSTANTS
    MaxAttempts,   \* bound: commits begun
    MaxPages,      \* bound: record slots of the file
    Sizes,         \* pages of a commit, its commit page included
    RecordUnits,   \* length of a record, in units of MIN_RECORD_LEN
    MaxKills,      \* bound: process deaths
    MaxPowerCuts,  \* bound: power cuts
    Encryption,    \* values of the FLAG_ENCRYPTED bit of the header
    Origins,       \* how the file came to be: subset of OriginKinds
    Faults         \* system calls that may fail: subset of FaultKinds

FaultKinds  == {<<"commit", "write">>} \cup
                  ({"seal", "publish"} \X {"sync", "meta"})
OriginKinds == {"created", "compacted"}

ASSUME BoundsAssumption ==
    /\ MaxAttempts \in Nat /\ MaxPages \in Nat
    /\ MaxKills \in Nat /\ MaxPowerCuts \in Nat
ASSUME SizesAssumption == Sizes \subseteq Nat \ {0, 1}
ASSUME RecordUnitsAssumption == RecordUnits \in Nat \ {0}
ASSUME ModeAssumption ==
    Encryption \subseteq BOOLEAN /\ Origins \subseteq OriginKinds
\* A compacted file has a data page and a commit page of one attempt.
ASSUME OriginsAssumption ==
    "compacted" \in Origins => MaxPages >= 2 /\ MaxAttempts >= 1
ASSUME FaultsAssumption == Faults \subseteq FaultKinds

VARIABLES
    encrypted,  \* FLAG_ENCRYPTED
    rec,        \* page slot -> record read now
    may,        \* page slot -> records a power cut may leave
    slot,       \* meta slot 0 (A) or 1 (B) -> content read now
    maySlot,    \* meta slot -> contents a power cut may leave
    mode,       \* "up", "down" (after a crash), "refused" (open failed)
    head,       \* DbState.head
    nextPage,   \* AppendState.next_page (write_offset, dir: same slots)
    nonce,      \* AppendState.nonce_counter
    writer,     \* the commit that holds the writer, or NoCommit
    durable,    \* SyncGroup.durable_version
    written,    \* SyncGroup.written_head (its version is written_version)
    leader,     \* leader in make_durable: NoLeader, or its target and phase
    pending,    \* heads of the commits waiting in make_durable
    attempts,   \* commits begun so far; the next one gets attempts + 1
    kills, powerCuts,
    acked,      \* heads some caller was told are committed (history)
    seen        \* sealed records found in the file at an open (history)

fileVars == <<encrypted, rec, may, slot, maySlot>>
memVars  == <<head, nextPage, nonce, writer, durable, written, leader, pending>>
histVars == <<attempts, kills, powerCuts, acked, seen>>
vars     == <<encrypted, rec, may, slot, maySlot, mode, head,
              nextPage, nonce, writer,
              durable, written, leader, pending, attempts, kills, powerCuts,
              acked, seen>>

Pages == 1 .. MaxPages

(***************************************************************************)
(* Contents.                                                               *)
(***************************************************************************)
Empty == [kind |-> "empty"]     \* never written: the length prefix is zero
Torn  == [kind |-> "torn"]      \* written in part: the tag does not match

DataPage(a, n) == [kind |-> "data", id |-> a, nonce |-> n]

\* commit::Head: version, chain_hash (id), commit_page, nonce_counter.
\* n_pages is page + 1.
GenesisHead == [id |-> 0, version |-> 0, page |-> 0, counter |-> 0]

\* CommitHeader of attempt a, written after head h (CommitParams::after).
CommitPage(a, n, h, count) ==
    [kind |-> "commit", id |-> a, nonce |-> n, version |-> h.version + 1,
     prev |-> h.id, prevPage |-> h.page, pagesWritten |-> count,
     counter |-> n + 1, checkpoint |-> FALSE]

\* head_from: the head a commit page at p stands for.
HeadFrom(c, p) ==
    [id |-> c.id, version |-> c.version, page |-> p, counter |-> c.counter]

Readable(c) == c.kind \in {"data", "commit"}

\* MetaSlot and meta_for: the version of a head and its commit page.
MetaFor(h) == [version |-> h.version, page |-> h.page]
TornSlot == [version |-> -1, page |-> 0]
SlotOf(h) == h.version % 2

NoCommit == [id |-> 0, kind |-> "none", size |-> 0, done |-> 0,
             phase |-> "none", new |-> GenesisHead]
NoLeader == [target |-> GenesisHead, phase |-> "none"]

----------------------------------------------------------------------------
(***************************************************************************)
(* File operations.                                                        *)
(***************************************************************************)
WriteRecord(p, c) ==
    /\ rec' = [rec EXCEPT ![p] = c]
    /\ may' = [may EXCEPT ![p] = @ \cup {c, Torn}]

WriteMetaSlot(h) ==
    /\ slot' = [slot EXCEPT ![SlotOf(h)] = MetaFor(h)]
    /\ maySlot' = [maySlot EXCEPT ![SlotOf(h)] = @ \cup {MetaFor(h), TornSlot}]

\* write_all_at of a meta slot returns an error: any part of it is written.
MetaWriteFails(h) ==
    \E m \in {slot[SlotOf(h)], MetaFor(h), TornSlot} :
        /\ slot' = [slot EXCEPT ![SlotOf(h)] = m]
        /\ maySlot' = [maySlot EXCEPT ![SlotOf(h)] =
                                          @ \cup {MetaFor(h), TornSlot}]

\* The call of a phase fails: "sync" leaves the file as it was.
CallFails(op, phase, h) ==
    /\ <<op, phase>> \in Faults
    /\ IF phase = "meta" THEN MetaWriteFails(h) ELSE UNCHANGED <<slot, maySlot>>
    /\ UNCHANGED <<encrypted, rec, may>>

\* fdatasync of the whole file, meta slots included.
SyncData ==
    /\ may' = [p \in Pages |-> {rec[p]}]
    /\ maySlot' = [s \in {0, 1} |-> {slot[s]}]
    /\ UNCHANGED <<encrypted, rec, slot>>

----------------------------------------------------------------------------
(***************************************************************************)
(* Commits.  kind "tx" is WriteTx::commit (sealed by the SyncGroup), kind  *)
(* "publish" the synchronous publish_commit of create_branch, drop_branch  *)
(* and merge.                                                              *)
(***************************************************************************)
BeginCommit(kind, size) ==
    /\ mode = "up"
    /\ writer = NoCommit
    /\ attempts < MaxAttempts
    /\ nextPage + size - 1 <= MaxPages
    /\ attempts' = attempts + 1
    /\ writer' = [id |-> attempts + 1, kind |-> kind, size |-> size,
                  done |-> 0, phase |-> "write", new |-> GenesisHead]
    /\ UNCHANGED <<fileVars, mode, head, nextPage, nonce, durable, written,
                   leader, pending, kills, powerCuts, acked, seen>>

\* write_commit_pages, one data page: write_record_at seals it with the next
\* counter and writes it at the next slot.
WriteDataPage ==
    /\ mode = "up"
    /\ writer.phase = "write"
    /\ writer.done < writer.size - 1
    /\ WriteRecord(nextPage + writer.done, DataPage(writer.id, nonce))
    /\ nonce' = nonce + 1
    /\ writer' = [writer EXCEPT !.done = @ + 1]
    /\ UNCHANGED <<encrypted, slot, maySlot, mode, head, nextPage,
                   durable, written, leader, pending, histVars>>

\* Variant of NewCommitPage: it continues the last head marked as written.
NewCommitPageOnWritten == CommitPage(writer.id, nonce, written, writer.size)

\* The commit page of the writer and the head it makes.
NewCommitPage == CommitPage(writer.id, nonce, head, writer.size)
NewHead == HeadFrom(NewCommitPage, nextPage + writer.size - 1)

\* The commit page and install_commit.  A transaction then publishes the
\* head, marks it written and releases the writer.
WriteCommitPage ==
    /\ mode = "up"
    /\ writer.phase = "write"
    /\ writer.done = writer.size - 1
    /\ WriteRecord(NewHead.page, NewCommitPage)
    /\ nonce' = nonce + 1
    /\ nextPage' = NewHead.page + 1
    /\ IF writer.kind = "tx"
       THEN /\ head' = NewHead
            /\ written' = NewHead
            /\ pending' = pending \cup {NewHead}
            /\ writer' = NoCommit
       ELSE /\ writer' = [writer EXCEPT !.phase = "sync", !.new = NewHead]
            /\ UNCHANGED <<head, written, pending>>
    /\ UNCHANGED <<encrypted, slot, maySlot, mode, durable, leader, histVars>>

\* A write of write_commit_pages fails: the error drops the transaction and
\* nothing is installed, but the counter is spent and the slot is garbage.
WriteFails ==
    /\ mode = "up"
    /\ writer.phase = "write"
    /\ <<"commit", "write">> \in Faults
    /\ \E c \in {rec[nextPage + writer.done], Torn} :
          WriteRecord(nextPage + writer.done, c)
    /\ nonce' = nonce + 1
    /\ writer' = NoCommit
    /\ UNCHANGED <<encrypted, slot, maySlot, mode, head, nextPage,
                   durable, written, leader, pending, histVars>>

\* publish_commit: pager.sync().
PublishSync ==
    /\ mode = "up"
    /\ writer.phase = "sync"
    /\ SyncData
    /\ writer' = [writer EXCEPT !.phase = "meta"]
    /\ UNCHANGED <<mode, head, nextPage, nonce, durable, written, leader,
                   pending, histVars>>

\* publish_commit returns the error of its fdatasync or of write_meta: the
\* head of the store stays, but install_commit has already moved next_page
\* past the commit.
PublishFails ==
    /\ mode = "up"
    /\ writer.phase \in {"sync", "meta"}
    /\ CallFails("publish", writer.phase, writer.new)
    /\ writer' = NoCommit
    /\ UNCHANGED <<mode, head, nextPage, nonce, durable, written,
                   leader, pending, histVars>>

\* publish_commit: write_meta; the caller then publishes the head and returns.
PublishHead ==
    /\ mode = "up"
    /\ writer.phase = "meta"
    /\ WriteMetaSlot(writer.new)
    /\ head' = writer.new
    /\ acked' = acked \cup {writer.new}
    /\ writer' = NoCommit
    /\ UNCHANGED <<encrypted, rec, may, mode, nextPage, nonce, durable,
                   written, leader, pending, attempts, kills, powerCuts, seen>>

----------------------------------------------------------------------------
(***************************************************************************)
(* make_durable, with the waiting threads abstracted to the set of heads   *)
(* they wait for (GroupCommit has the threads).                            *)
(***************************************************************************)
LeadSeal ==
    /\ mode = "up"
    /\ leader = NoLeader
    /\ \E h \in pending : h.version > durable
    /\ leader' = [target |-> written, phase |-> "sync"]
    /\ UNCHANGED <<fileVars, mode, head, nextPage, nonce, writer, durable,
                   written, pending, histVars>>

SealSync ==
    /\ mode = "up"
    /\ leader.phase = "sync"
    /\ SyncData
    /\ leader' = [leader EXCEPT !.phase = "meta"]
    /\ UNCHANGED <<mode, head, nextPage, nonce, writer, durable, written,
                   pending, histVars>>

\* write_meta(target_head), durable_version raised, everyone it covers returns.
SealDone ==
    /\ mode = "up"
    /\ leader.phase = "meta"
    /\ WriteMetaSlot(leader.target)
    /\ durable' = Max({durable, leader.target.version})
    /\ acked' = acked \cup {h \in pending : h.version <= durable'}
    /\ pending' = {h \in pending : h.version > durable'}
    /\ leader' = NoLeader
    /\ UNCHANGED <<encrypted, rec, may, mode, head, nextPage, nonce, writer,
                   written, attempts, kills, powerCuts, seen>>

\* The fdatasync or write_meta fails: the leader's caller gets the error, the
\* rest retry.
SealFails ==
    /\ mode = "up"
    /\ leader.phase \in {"sync", "meta"}
    /\ CallFails("seal", leader.phase, leader.target)
    /\ \E h \in pending : pending' = pending \ {h}
    /\ leader' = NoLeader
    /\ UNCHANGED <<mode, head, nextPage, nonce, writer, durable,
                   written, histVars>>

----------------------------------------------------------------------------
(***************************************************************************)
(* Crashes.  The process state is gone; Down is what a dead process keeps. *)
(***************************************************************************)
Down ==
    /\ mode = "up"
    /\ mode' = "down"
    /\ head' = GenesisHead
    /\ nextPage' = 1
    /\ nonce' = 0
    /\ writer' = NoCommit
    /\ durable' = 0
    /\ written' = GenesisHead
    /\ leader' = NoLeader
    /\ pending' = {}
    /\ UNCHANGED <<attempts, acked, seen>>

Kill ==
    /\ kills < MaxKills
    /\ kills' = kills + 1
    /\ Down
    /\ UNCHANGED <<fileVars, powerCuts>>

\* What a power cut may leave of the first n slots: one possible content each.
Leftovers[n \in 0 .. MaxPages] ==
    IF n = 0 THEN {rec}
    ELSE {[r EXCEPT ![n] = c] : r \in Leftovers[n - 1], c \in may[n]}

\* And of the meta slots.
SlotLeftovers ==
    {[s \in {0, 1} |-> IF s = 0 THEN a ELSE b] :
        a \in maySlot[0], b \in maySlot[1]}

PowerCut ==
    /\ powerCuts < MaxPowerCuts
    /\ powerCuts' = powerCuts + 1
    /\ \E r \in Leftovers[MaxPages] :
          /\ rec' = r
          /\ may' = [p \in Pages |-> {r[p]}]
    /\ \E m \in SlotLeftovers :
          /\ slot' = m
          /\ maySlot' = [s \in {0, 1} |-> {m[s]}]
    /\ Down
    /\ UNCHANGED <<kills, encrypted>>

----------------------------------------------------------------------------
(***************************************************************************)
(* Opening: Pager::open_keyed_with, commit::recover, truncate_to_head and  *)
(* the margin of the nonce counter (Store::open_keyed_with_cache).         *)
(***************************************************************************)
\* sweep_append_region: the frames are walked up to the first zero length.
SweptPages ==
    Max({n \in 0 .. MaxPages : \A p \in 1 .. n : rec[p] # Empty})

\* The physical end of the file.
EndOfFile == Max({0} \cup {p \in Pages : rec[p] # Empty})

\* try_head_at succeeds on the page a meta slot names.
Candidates ==
    {m \in {slot[0], slot[1]} :
        /\ m # TornSlot
        /\ m.page \in 1 .. SweptPages
        /\ rec[m.page].kind = "commit"}

\* The newest slot whose commit page validates, else genesis.
StartHead ==
    IF Candidates = {} THEN GenesisHead
    ELSE LET m == CHOOSE m \in Candidates :
                      \A n \in Candidates : n.version <= m.version
         IN HeadFrom(rec[m.page], m.page)

\* Variant of Chains: a checkpoint does not open a file.
ChainsNoCheckpoint(h, c) == c.version = h.version + 1 /\ c.prev = h.id

\* The commit page c continues the chain of h, or is the checkpoint that
\* opens a compacted file.
Chains(h, c) ==
    \/ c.version = h.version + 1 /\ c.prev = h.id
    \/ h.page = 0 /\ c.checkpoint /\ c.prev = h.id

\* Variant of Recover: the scan steps over unreadable pages.
RecoverOverHoles ==
    LET start == StartHead
        scan[p \in start.page .. SweptPages] ==
            IF p = start.page THEN start
            ELSE IF rec[p].kind = "commit" /\ Chains(scan[p - 1], rec[p])
            THEN HeadFrom(rec[p], p)
            ELSE scan[p - 1]
    IN scan[SweptPages]

\* The forward scan, page by page: the head after page p and whether to go
\* on.  It stops at an unreadable page or at a commit that does not chain, and
\* steps over data pages.
Scan[p \in 0 .. MaxPages] ==
    IF p <= StartHead.page THEN [head |-> StartHead, go |-> TRUE]
    ELSE LET before == Scan[p - 1]
             chained == /\ before.go
                        /\ rec[p].kind = "commit"
                        /\ Chains(before.head, rec[p])
         IN [head |-> IF chained THEN HeadFrom(rec[p], p) ELSE before.head,
             go |-> before.go /\ (chained \/ rec[p].kind = "data")]

Recover == Scan[SweptPages].head

\* read_meta finds no valid slot, or the first page of an encrypted file does
\* not open (reported as WrongKey).
Refuses ==
    \/ slot[0] = TornSlot /\ slot[1] = TornSlot
    \/ encrypted /\ SweptPages >= 1 /\ ~Readable(rec[1])

OpenRefused ==
    /\ mode = "down"
    /\ Refuses
    /\ mode' = "refused"
    /\ UNCHANGED <<fileVars, memVars, histVars>>

SealedRecords ==
    {[nonce |-> rec[p].nonce, id |-> rec[p].id, page |-> p] :
        p \in {q \in Pages : Readable(rec[q])}}

\* Variant of Open: the counter resumes at the head.
OpenNoMargin ==
    /\ mode = "down"
    /\ ~Refuses
    /\ mode' = "up"
    /\ head' = Recover
    /\ nextPage' = head'.page + 1
    /\ nonce' = head'.counter
    /\ durable' = head'.version
    /\ written' = head'
    /\ seen' = seen \cup SealedRecords
    /\ UNCHANGED <<fileVars, writer, leader, pending, attempts, kills,
                   powerCuts, acked>>

\* truncate_to_head; the counter resumes past what the tail can have used;
\* SyncGroup::new takes the recovered head as durable.
Open ==
    /\ mode = "down"
    /\ ~Refuses
    /\ mode' = "up"
    /\ head' = Recover
    /\ nextPage' = head'.page + 1
    /\ nonce' = head'.counter
                   + Max({0, EndOfFile - head'.page}) * RecordUnits
    /\ durable' = head'.version
    /\ written' = head'
    /\ seen' = seen \cup SealedRecords
    /\ UNCHANGED <<fileVars, writer, leader, pending, attempts, kills,
                   powerCuts, acked>>

----------------------------------------------------------------------------
\* create_with_crypto: both slots at version 0, everything synced.
GenesisSlot == [version |-> 0, page |-> 0]

\* What a vacuum leaves: a checkpoint commit that numbers from its own
\* version, synced, and a meta slot written after the last fdatasync.
CheckpointVersion == 2
CheckpointPage ==
    [kind |-> "commit", id |-> 1, nonce |-> 1, version |-> CheckpointVersion,
     prev |-> 0, prevPage |-> 0, pagesWritten |-> 2, counter |-> 2,
     checkpoint |-> TRUE]
CheckpointHead == HeadFrom(CheckpointPage, 2)

InitCreated ==
    /\ rec = [p \in Pages |-> Empty]
    /\ slot = [s \in {0, 1} |-> GenesisSlot]
    /\ maySlot = [s \in {0, 1} |-> {GenesisSlot}]
    /\ head = GenesisHead
    /\ nextPage = 1
    /\ nonce = 0
    /\ attempts = 0
    /\ acked = {}

InitCompacted ==
    /\ rec = [p \in Pages |-> IF p = 1 THEN DataPage(1, 0)
                              ELSE IF p = 2 THEN CheckpointPage ELSE Empty]
    /\ slot = [s \in {0, 1} |-> IF s = SlotOf(CheckpointHead)
                                THEN MetaFor(CheckpointHead) ELSE GenesisSlot]
    /\ maySlot = [s \in {0, 1} |->
                     IF s = SlotOf(CheckpointHead)
                     THEN {GenesisSlot, MetaFor(CheckpointHead), TornSlot}
                     ELSE {GenesisSlot}]
    /\ head = CheckpointHead
    /\ nextPage = 3
    /\ nonce = 2
    /\ attempts = 1
    /\ acked = {CheckpointHead}

Init ==
    /\ \/ "created" \in Origins /\ InitCreated
       \/ "compacted" \in Origins /\ InitCompacted
    /\ encrypted \in Encryption
    /\ may = [p \in Pages |-> {rec[p]}]
    /\ mode = "up"
    /\ writer = NoCommit
    /\ durable = head.version
    /\ written = head
    /\ leader = NoLeader
    /\ pending = {}
    /\ kills = 0
    /\ powerCuts = 0
    /\ seen = {}

Next ==
    \/ \E kind \in {"tx", "publish"}, size \in Sizes : BeginCommit(kind, size)
    \/ WriteDataPage \/ WriteCommitPage \/ WriteFails
    \/ PublishSync \/ PublishFails \/ PublishHead
    \/ LeadSeal \/ SealSync \/ SealDone \/ SealFails
    \/ Kill \/ PowerCut \/ OpenRefused \/ Open

Spec == Init /\ [][Next]_vars

----------------------------------------------------------------------------
(***************************************************************************)
(* The audit (commit::verify_anchored): walk prev_page back from the head. *)
(***************************************************************************)
Back[p \in 0 .. MaxPages] ==
    IF p = 0 THEN {}
    ELSE IF rec[p].kind # "commit" THEN {p}
    ELSE {p} \cup Back[rec[p].prevPage]

ChainPages(h) == Back[h.page]

\* One commit of the chain: its header is readable, its data pages are the
\* ones it hashed, and it links to its predecessor.
CommitAudits(p) ==
    LET c == rec[p]
    IN /\ c.kind = "commit"
       /\ \A q \in (p - c.pagesWritten + 1) .. (p - 1) :
             q \in Pages /\ rec[q].kind = "data" /\ rec[q].id = c.id
       /\ IF c.prevPage = 0
          THEN c.prev = 0 /\ (c.checkpoint \/ c.version = 1)
          ELSE /\ rec[c.prevPage].kind = "commit"
               /\ rec[c.prevPage].id = c.prev
               /\ rec[c.prevPage].version + 1 = c.version

Verifies(h) ==
    /\ \A p \in ChainPages(h) : CommitAudits(p)
    /\ h.page # 0 => rec[h.page].id = h.id

\* verify_anchor: the chain of h still holds the anchored commit a.
AnchorHolds(h, a) ==
    \E p \in ChainPages(h) :
        rec[p].kind = "commit" /\ rec[p].id = a.id /\ rec[p].version = a.version

----------------------------------------------------------------------------
(***************************************************************************)
(* Properties.                                                             *)
(***************************************************************************)
Ids == 0 .. MaxAttempts
HeadType(h) ==
    /\ h.id \in Ids /\ h.version \in Nat /\ h.page \in 0 .. MaxPages
    /\ h.counter \in Nat

\* Type invariant; what a read returns is one of the contents a power cut may
\* leave.
TypeOK ==
    /\ \A p \in Pages : rec[p] \in may[p]
    /\ \A s \in {0, 1} : slot[s] \in maySlot[s]
    /\ mode \in {"up", "down", "refused"}
    /\ HeadType(head) /\ HeadType(written)
    /\ nextPage \in 1 .. MaxPages + 1
    /\ nonce \in Nat /\ durable \in Nat
    /\ writer.phase \in {"none", "write", "sync", "meta"}
    /\ leader.phase \in {"none", "sync", "meta"}
    /\ \A h \in pending \cup acked : HeadType(h)
    /\ attempts \in Ids

\* No acknowledged commit is ever lost: whenever the store is up, the anchor
\* a caller kept of any commit it was told about still verifies.
NoAckedLoss == mode = "up" => \A a \in acked : AnchorHolds(head, a)

\* Whatever head the store runs on passes a complete audit: a commit written
\* in part is never adopted, no page of the history is anybody else's.
HeadVerifies == mode = "up" => Verifies(head)

\* The meta slots are hints that never point ahead of or beside the history:
\* a readable slot names a commit of the chain of the head.
SlotsInHistory ==
    mode = "up" =>
        \A s \in {0, 1} :
            slot[s] # TornSlot /\ slot[s].page # 0
                => slot[s].page \in ChainPages(head)

\* What recovery runs on is sound: the head audits, and the slots the next
\* recovery starts from name commits of its chain.
RecoveryAudits == TypeOK /\ HeadVerifies /\ SlotsInHistory

\* A value of the sealing counter seals one record: no record in the file
\* shares it with another one in the file, or with one that an earlier open
\* found there.
CounterFresh ==
    \A r \in SealedRecords, s \in SealedRecords \cup seen :
        r.nonce = s.nonce => r = s
============================================================================
