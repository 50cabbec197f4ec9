# Arkeion in TLA+

A model of Arkeion, an embedded, versioned and auditable SQL database
(`src/src/`), with TLC runs on small instances and TLAPS proofs for all instances.
Source comments and documents quoted here are in Spanish, as in the repository.
Line numbers in `PROJECT.json` ("map") say which code each definition stands for.

## The system

| Component | State | Operations | Where it is hard | What makes it correct |
|---|---|---|---|---|
| Writer gate (`tx.rs`, WriterGate) | `held`, a condvar | `try_acquire`, `acquire_timeout`, `release` | released by `commit` before sealing, by `Drop` otherwise; notify against timeout | one owner; no lost wake-up |
| Group commit (`tx.rs`, SyncGroup) | `in_progress`, `durable_version`, `written_version`, `written_head`, one per file | `mark_written`, `make_durable` | leader unlocks for the fdatasync; a failing leader; vacuum replaces the group | acknowledged implies durable; every commit returns |
| Store (`tx.rs`, DbState) | pager, head, sync group under one mutex | `begin_on`, `commit`, branches, `vacuum` | captured state against the swap of a vacuum | captured state is current until published |
| Commit log (`pager.rs`, `commit.rs`) | the append region, two meta slots, `next_page`, `nonce_counter` | `write_commit_pages`, `publish_commit`, `recover`, `verify` | one fdatasync per commit, unsynced meta slots, torn tails, repeated crashes | what was acknowledged survives; what is recovered audits |
| History (`tx.rs`, meta tree) | `META_HIST` (root, time, parent per version), `META_REF` (head per branch) | transactions, `create_branch`, `drop_branch`, `merge`, AS OF, `changes`, `vacuum` | global version numbers shared by branches; merge base; compaction | branches are isolated; the past does not change |
| WriteTx (`tx.rs`) | dirty pages, rowid, schema and trigger caches, savepoints | row operations, savepoints, foreign keys, triggers | caches against `ROLLBACK TO`; deferred counters | rowids are not reused; a rollback restores everything |
| Page cache (`pager.rs`) | CLOCK ring, sharded | `get`, `insert` | reused page ids | a hit is what the file holds |
| B-tree (`btree/`) | pages | insert, delete, diff, append cursor | copy on write, splits, shared subtrees | it is a map; a diff is exact |
| Catalog (`catalog.rs`) | keys of the data tree | tables, indexes, ALTER, FTS and vector entries | index kept in step with its table | an index holds what its table holds |
| Connection (`api.rs`) | open transaction, branch, AS OF | execute, query, begin, commit | autocommit against an open transaction | a failed statement leaves nothing |
| Executor and SQL front end (`exec.rs`, `sql/`) | none of their own | parse, plan, evaluate | three-valued logic, trigger order | an answer is what a plain reading of the query gives |
| Encodings (`format.rs`, `record.rs`, `keyenc.rs`, `compress.rs`, `ecc.rs`, `crypto.rs`) | none | encode, decode | boundaries | round trip, order |
| Search (`fts/`, `vector.rs`, `ivf.rs`, `pq.rs`) | entries of the tree | index, query | kept in step with the table | same rows as a scan |

Threads share one `Store` (cheap clones). A write takes the gate, captures
(pager, head, sync group), appends pages, publishes the head, releases the gate
and seals in `make_durable`. Branch operations and merges commit synchronously
under the gate with `publish_commit`. A vacuum writes a new file under the gate,
renames it over the old one and swaps pager, head and sync group. Opening a file
sweeps its records, picks a start from the meta slots, scans forward, and cuts
the tail off.

## Modules

| Module | Contents |
|---|---|
| `GroupCommit` | gate, group commit, commit phases, synchronous commits, vacuum swap: `n` threads, one action per critical section or system call |
| `DurableLog` | what callers of `commit` are promised: a log of published versions, the ones on stable storage, and what was told |
| `GroupCommit_proofs` | the theorems about `GroupCommit` |
| `CommitLog` | the file and its two faces (what a read returns, what a power cut may leave), commits, kill, power cut, open, audit |
| `CommitLog_proofs` | the theorems about `CommitLog` |
| `History` | versions, branches, transactions on rows, merge, AS OF, vacuum |
| `TimeTravel` | what a reader of the past is promised: versions do not change, compaction takes a prefix |
| `History_proofs` | the theorems about `History` |
| `NatLemmas` | induction, Max and Min over naturals, the existence of walks and iterations, and what `Ranking` computes: what the proof modules share |
| `BTree` | the copy-on-write tree over the pages of a write transaction: insert, split, delete, append cursor, overflow chains, scans, diff, savepoints, commit |
| `Rows` | what one SQL write does to rows, index entries and counters: foreign keys, upsert, checks, triggers, bulk load (operators only) |
| `Session` | connections over `Rows`: autocommit, BEGIN, savepoints, pinned versions, streamed results |
| `Session_proofs` | what every operator of `Rows` leaves of the indexes, and the theorems about `Session` |
| `Catalog` | the schema, its records, ALTER TABLE over old rows, indexes, the schema and trigger caches of a transaction |
| `SchemaLemmas`, `Catalog_proofs` | what the operators of `Catalog` leave of a schema, and the theorems about `Catalog` |
| `Ranking` | the best of a set, and its members in order (operators only) |
| `FullText`, `Vectors` | the tokens of a row and the full-text index, and the IVF index (operators only) |
| `Search` | a table with both indexes, kept in step by every write |
| `Match` | MATCH over `Search`: its language, its evaluation by index and by row, scores and extracts |
| `Search_proofs` | what the operators of `FullText` compute, and the theorems about `Search` |
| `Query`, `Select` | expressions under three-valued logic and access plans; `run_select` with overlays, joins, subqueries, groups, windows (operators only) |
| `Answers` | a connection asks SELECTs of a database; each answer is compared with what the statement means |
| `MC_*` | constants for TLC |

The layers are cut where the code above relies on a promise of the code below, and
each promise is a property of the module below: `GroupCommit` shows that the writer
is exclusive and a capture current, so an operation is one step in `History`,
`BTree` and `Session`; `BTree` shows that a tree is a map, so a tree is a map in
`History`, `Rows` and `Catalog`; `CommitLog` shows that what was acknowledged is
recovered, so versions are never lost in `History`; `Rows` and `Catalog` show that
an index holds what its table holds, so an access plan of `Query` reads the rows.

Definitions whose comment begins with "Variant" are not part of a specification.
Each is a plausible fault in the code of the operator it varies; `PROJECT.json`
("mutants") pairs it with the property that detects it.

### GroupCommit

`held` is the flag of the gate, and the threads whose `pc` is "parked" are in its
condvar; `release` moves one of them to "woken" (notify_one), and a woken thread
may still lose the race or time out. `gen`, `head` are the fields of DbState; a
*generation* is a pager with its file and its SyncGroup, and a vacuum makes a new
one. A file is reduced to `pages[g]`, the number of commit records written to it,
`synced[g]`, how many of them an fdatasync covers, and `place[g]`, which record is
that of a version: when the fdatasync or the meta write of `publish_commit` fails
(`MaintenanceFails`, `tx.rs:2688-2689`) its record stays in the file below no head,
and the next commit writes another one for the same version behind it. `named` is the
generation the path names. An fdatasync covers what was written before the call
(`SyncCall`) and completes later (`SyncOk`, `SyncFails`), so commits written in
between are not covered. `acked` holds the versions for which some caller got Ok.
`AckDurable` asks of each of them that its record and those of all versions below it
are covered; which of two records of a version recovery adopts is for `CommitLog`.

### CommitLog

A slot of the append region holds one record; `rec` is what a read returns and
`may` the set of contents a power cut may leave: each write adds the new record
and a torn one, an fdatasync leaves the current content only. The two meta slots
have the same two faces. A commit attempt has an identity that stands for its
`chain_hash`, and its data pages carry that identity, which stands for
`content_hash`. `Open` is the whole of `open_keyed_with_cache`: sweep, start from
the newest meta slot whose commit page validates, forward scan, truncation,
sealing counter. The first state is a file just created, or one a vacuum just
wrote (`Origins`), encrypted or not. `Verifies` is `verify_anchored`, and
`AnchorHolds` its check of one anchor; `NoAckedLoss` uses it, so losing a commit
means that the anchor its caller could have kept no longer verifies. Records have
equal length; with unequal lengths the records after an overwritten one become
unreadable, which the torn record covers. A failing write of a record leaves the old
content or a torn record; one of a meta slot may also leave the new slot. A failing
fdatasync changes nothing, and a later one that succeeds is taken to cover the writes
of both.

### History

The gate makes operations atomic (proved in `GroupCommit_proofs`), so an
operation is one action and only a transaction lasts. A tree is a map from one
table's keys: 0 is its rowid counter, the others are rows. `page` says which
version wrote the root of a tree, because `commit` compares root pages. `hist` and
`refs` are the two parts of the meta tree. `origin` records the parent
a version is published with and nothing reads it but properties. `Walk`
shows a missing entry as -1; `merge_base`, `is_ancestor` and AS OF walk the same
way. Branch names, table schemas and values are small sets. `before` logs what a
transaction finds under each key when it first writes it, and `changed` keeps for each
version the keys that its operation left with another value: it is made from the writes,
while `changes(v)` reads two trees back, later, and possibly after a vacuum replayed them.

### BTree

Keys are numbers; keys of one `Stem` share a prefix that a packed leaf stores once,
so whether a leaf has room depends on its keys, as in `encode_leaf`. Sizes are in
units, and byte offsets are reduced to the room between cells (`hole`). `dirty`,
`freed`, `base`, `next` and `cursor` are the fields of `TxStore`; `root` and
`savepoints` those of `WriteTx`. The first transaction starts with a load, so that
trees of one leaf and of three levels are both reached. `map` and `versions` record
what was put in and read only by properties. `StaleAppends` says whether an append
through a stale cursor may happen: see `BTree_cursor` below.

### Rows and Session

A step is a function from the transaction to a result `[ok, tx]`, and `InTurn` runs
steps one after the other up to the first that fails: the loops of the code over
foreign keys, child rows, rows of a statement, triggers and their bodies. A failed
result carries the writes made before the failure, because dirty pages are changed in
place and nothing undoes them inside BEGIN (`Settle`). The recursion of the code is in
two functions: `Cascades[k]` is the step of a change whose cascades go `k` deep, and
`Runs[left]` that of a statement with `left` levels of triggers below it. The code
bounds the triggers (`enter_trigger`) and not the cascades, which `MaxCascade` does
here: deeper ones are refused. Index entries are
`<<table, column, value, rowid>>`; rowid counters are cached in the transaction and
written at commit. In `Session` the gate is free or taken, `versions` are the
committed trees, `work` the transaction that holds the gate (autocommit, BEGIN or a
Transaction object), `pin` the AS OF connections and `rows` the result each one is
reading. `tainted` says that a transaction with a failed statement was committed.
Statements, trigger bodies and constraints are parameters.

### Catalog

A table definition is stored as a record of some version (`EncodeDef`, `DecodeDef`),
a row is as long as the schema was when it was written, and `FinishRow` completes it
on every read. A statement that fails leaves nothing here (its transaction is
dropped), so early returns are guards. Full-text and vector indexes have a name, an id and columns;
`Search` has their contents.

### Search

A text is a sequence of words, a word a sequence of letters, `Fold` what
normalisation does to a letter. A row is the set of its tokens
`<<term, field, position>>`, and a posting the gaps between the positions of a term.
MATCH (`Match`) is parsed from tokens. Scores are reduced to
the integers they are computed from. A vector is a number, training is any choice of
centroids, and a code is the vector rounded by `Quant`.

### Query, Select and Answers

`Run` of `Select` follows `run_select`: CTEs and derived tables into an overlay,
uncorrelated subqueries once, correlated ones by substitution on every row, access
plan or joins with pushdown, WHERE, groups, windows, order, limits. `Meaning` of
`Answers` is the reference: a table is a function from row identities to rows and a
SELECT the function of the combinations of identities that satisfy it, without plan,
pushdown, substitution or order. Integers have the width `MaxInt`. A table of an
overlay is found by its name; the code finds its rows by a synthetic `table_id`, so
a subquery that has a derived table of its own and names one of the outer statement
is outside the model.

## Runs

Bounds are chosen so that every action of the model happens in some run, and the
cases the properties are about happen in theirs: a second commit while the first one
seals, a third to follow it, a vacuum under both; a tail overwritten by an attempt
of another length; a branch merged twice; a split at each level and a leaf emptied
afterwards; a cascade that meets a trigger; a row shorter than its schema.

| Run | Instance | Question |
|---|---|---|
| `GroupCommit_safety` | 3 threads (symmetric), 3 versions, 3 records per file, 1 vacuum; every call may fail, those of `publish_commit` too, but the directory fsync | type; exclusion (`SingleWriter`); currency of captures; one owner per version; acknowledged versions are durable; `DurableLog` is implemented |
| `GroupCommit_progress` | 3 threads, 3 versions, 2 records per file, 1 vacuum, fairness; every call may fail | nobody sleeps without someone to wake him (`NoStrandedThread`); commits return |
| `CommitLog_power` | a file just created or just compacted, plain or encrypted; 4 attempts of 2 or 3 pages, seals that fail, 1 power cut | acknowledged commits survive; the head audits and the slots stay in the history (`RecoveryAudits`); the sealing counter is fresh |
| `CommitLog_kills` | 4 attempts, 2 kills, failing record writes and fdatasyncs | the head audits and the slots stay in the history |
| `History_merge` | 2 branches, 4 versions, 2 rows, 2 values | merges keep both sides; rowids stay below the counter |
| `History_vacuum` | 3 branches (symmetric but main), 4 versions, 2 clock values, 2 vacuums | `TimeTravel` is implemented; AS OF stays on its timeline; timelines are whole; `changes` names what the writes changed; branches are isolated |
| `BTree_maps` | 9 keys of 3 stems, small and overflow values, loads of one leaf and of three levels, then 3 operations, 1 commit, 1 savepoint | reads, scans and prefix scans are those of the map; versions do not change; diffs are exact; pages are accounted for; leaves parse |
| `Session_sql` | a parent, a child and a view; 17 statements, 3 bulk loads, 4 triggers, 3 foreign keys; 3 versions, 3 statements per transaction, cascades 3 deep (no statement of the run goes that far) and triggers 2 deep | index entries match rows; UNIQUE, CHECK and foreign keys hold together; rowids stay below the counter, also when it saturates; a streamed result has exactly the rows of its OFFSET and LIMIT |
| `Catalog_ddl` | 2 tables, an old schema record with a row, 3 schema changes, 1 savepoint | the relational catalog is whole (`CatalogWhole`); caches agree with the tree; index entries match what reads show; values survive ALTER |
| `Search_indexes` | 3 rows, 4 contents with two texts and a vector, 13 MATCH texts, 3 trainings | statistics are those of the rows; index and row agree on matches, scores and extracts; vector postings follow the rows and probing all is exact |
| `Answers_exact` | 2 tables of up to 3 rows, 3 views, 55 statements, integers of 3 bits | the answers are those of the reference; order, LIMIT and OFFSET; windows; recursive CTEs end with the closure |
| `BTree_cursor` | as `BTree_maps`, with appends through a stale cursor | expected violation of `LeavesParse` |

`CHECK_DEADLOCK FALSE` stands where a bound is reached by every behaviour (a file
that refuses to open, a transaction that used up its operations, an answer that was
given). The properties of `Session_sql` are about what a reader can see: the head, and an open
transaction none of whose statements failed; its constraint `Untainted` stops at the
commit of one in which a statement failed.

### What the code and its documents say differently

`BTree_cursor`: `insert` keeps the append cursor across a `delete` in the leaf it
describes (`btree/mod.rs:215`). The delete compacts the leaf in place and keeps the
root, so the conditions that the comment at `btree/mod.rs:69` calls sufficient hold,
and the next ascending insert writes its cell after a hole. `BTree_maps` excludes
exactly that append and nothing else.

The models also have the following behaviours, which the constants of the passing
runs exclude. Each can be reproduced with the constants given:

* the directory fsync fails after the rename of a vacuum (`tx.rs:1029`): the store
  keeps the file without a name and later acknowledged commits are lost
  (`GroupCommit`, `Faults <- AllFaults`, `AckDurable`);
* after two interruptions the commit page of an abandoned attempt can stand above the data
  page of another; recovery adopts it and the audit fails (`commit.rs:226`;
  `CommitLog`, one kill and one power cut, `HeadVerifies`);
* a synchronous commit that fails after `install_commit` leaves its pages; the next
  commit takes its number, is acknowledged and loses at recovery (`tx.rs:2688`;
  `Faults <- PublishFaults`, one power cut, `NoAckedLoss`). A kill is enough when the
  leader of an older version writes its meta slot last (`tx.rs:277`): the scan starts below
  the abandoned commit, adopts it and stops at the commits that were acknowledged after
  it (`CommitLog_kills` with `NoAckedLoss`, 8 pages, one kill; with 6 pages the four
  commits this takes have no room);
* two kills over one tail use a value of the sealing counter twice (`tx.rs:388`;
  `Encryption <- Sealed`, two kills, sizes 2 and 3, `CounterFresh`);
* after a vacuum `changes(v)` compares with `v - 1` (`tx.rs:1167`;
  `ChangesAreProvenance` without its premise that the recorded parent is the one the
  version was published with, one vacuum);
* a vacuum also makes the versions of dropped branches ancestors of main; a branch
  from such a version that inserts a rowid below the counter of that version, merged
  into main, leaves main with a counter below one of its rows, and the next automatic
  rowid overwrites that row (`tx.rs:1167`; `RowidsBelowCounter` without its premise
  `vacuums = 0`, one vacuum);
* a record write that fails leaves the store going on over the pages of the attempt;
  a power cut can then bring back a data page of that attempt under a later commit page,
  and the audit of the recovered head fails (`pager.rs:735`; `CommitLog`, faults with
  `<<"commit", "write">>`, one power cut, `HeadVerifies`);
* a record write that fails has spent a value of the sealing counter that the margin of
  the next open does not count (`tx.rs:388`; the same faults, encrypted, one kill,
  `CounterFresh`);
* a statement that fails inside BEGIN keeps what it had written (`api.rs:514`), and
  COMMIT publishes it: rows without index entries, rowids above the counter
  (`Session` without `Untainted`, and with the head always among `Trees`).

Smaller differences met while modelling, which the model has as the code has them
unless marked (*), which it leaves out:

* both meta slots torn: `read_meta` fails and the open with it (`pager.rs:453`, `:834`),
  while `docs/02-formato-archivo.md:219` falls back to a scan of the file. One power cut
  is enough when a leader and a synchronous commit write their slots after both of their
  fdatasyncs; the properties of `CommitLog` speak of stores that open;
* an encrypted file whose first commit is torn is reported as a wrong key
  (`pager.rs:463`), although a torn tail "se ignora por construcción";
* `vacuum(KeepAll)` fails once an earlier vacuum dropped version 1 (`tx.rs:1076`);
* `changes(v)` uses the recorded parent, while `api.rs:239` says `v - 1`;
* an empty transaction on a branch that is not the global tip publishes a version
  (`tx.rs:2553`); `merge` does not know main before its first commit (`tx.rs:710`);
* a dropped column is still found by name: after DROP a, RENAME b TO a, an index on
  `a` may be built on the dropped one (`exec.rs:678`); a dropped NOT NULL column
  without default refuses every INSERT;
* `drop_table` does not look for foreign keys that refer to the table and leaves the
  names and contents of its full-text and vector indexes and its triggers
  (`catalog.rs:1365-1384`); `CatalogWhole` is about rows, secondary indexes and their
  names and claims nothing of those. `drop_index` may take the UNIQUE index a foreign key
  needs;
* a bulk load checks neither foreign keys nor CHECKs and fires no trigger; cascades
  bypass CHECKs and triggers;
* a subquery that uses the qualifier of the outer statement again has its own columns
  substituted (`exec.rs:3790`);
* NULL [NOT] IN (empty subquery) is NULL in the code (`exec.rs:5902`), and in `Meaning`,
  which follows it; standard SQL says FALSE, and TRUE for NOT IN;
* a recursive UNION does not deduplicate its seed; the SUM of a window wraps while
  the aggregate fails;
* a vector index built on an empty column has no centroids and finds nothing later
  (`exec.rs:1199`);
* (*) a vector of another dimension makes the quantiser index past its end, and a
  cycle of ON DELETE CASCADE recurses without bound.

### Fairness

`FairSpec` assumes weak fairness of each thread inside `make_durable` and of the
drop of its transaction: the fdatasync and the meta write return, with or without
error, and a notified thread runs. It assumes nothing about starting, committing
or abandoning transactions or about time-outs of the gate. Under it a commit that
wrote its pages returns (`CommitReturns`), whatever the seals of others do.

## Proofs

The proofs hold for every value of the constants that satisfies the named ASSUMEs of
the modules (finite bounds are naturals, `Main` is a branch, times are naturals, faults
are among the kinds of faults, a compacted file has its two pages, statements and
contents are of the shape the front end gives them). Each theorem about states goes
along an inductive invariant.

### GroupCommit

For every set of threads, number of versions and of vacuums and every set of faults:

* `TypeCorrect`, `OneWriter`, `CapturesStayCurrent`: type, exclusion of the
  writer, currency of captured state, along `WriterInv`. Exclusion needs
  `ReleasedFlag`: `Drop` decides by `writer_released`, so the flag has to be set
  exactly between the early release and the end.
* `HeadMovesByOne`, `VersionsHaveOneOwner`, `NobodyIsStranded`: along `FlowInv`, which
  adds how files, watermarks and the numbers held by threads stand to each other and
  says nothing of durability, so that no fault has to be excluded. That nobody is
  stranded needs that a group in progress has exactly one leader (`LeadersInv`).

Assuming that "dirsync" is not among the faults (with it `AckDurable` fails, see
above), and nothing else of them: `DurabilityHolds`, `AckedIsDurable`,
`StoreImplementsDurableLog`. `AckDurable` is not inductive. `StoreInv` adds what holds it
up: every version up to the written watermark and to the head has its record in the
current file, whatever records of failed commits lie between; those up to the durable
watermark are covered; the target of a leader is covered by its fdatasync; the path names
the current file except between rename and swap; and a commit that still seals in a replaced file
is already hard in the replacement, because the vacuum copied everything published
under the gate and synced it. The proof of each step rests on four lemmas: which steps
write a shared variable (`WhoWrites`), that only the owner of the writer writes head,
name and current pages (`OwnersOnly`), what a step leaves to other threads
(`OthersStay`), and which step leads to a program counter (`WhoArrives`).

### CommitLog

For every number of attempts, pages, sizes of commits, kills and power cuts:

| Theorem | Assumes | Inductive invariant |
|---|---|---|
| `TypeCorrect` | nothing | `TypeInv` |
| `AckedCommitsSurvive`, `SlotsNeverStray` | `PublishIsSound`: the calls of `publish_commit` succeed | `LogInv` |
| `RecoveredHeadsAudit` | the same, and `FewInterruptions`: only kills, or one interruption without a failing record write | `AuditInv` |
| `CountersSealOnce` | `OneInterruption`: one kill or power cut, no failing record write | `CounterInv` |

Each assumption is needed: the list under "What the code and its documents say
differently" has the behaviour that breaks the theorem without it. The argument for
durability: an *anchor* is a commit page below which every record is stable and chains
to genesis. Whatever a caller was told, and whatever a meta slot may name after a power
cut, is an anchor (`AnchorsInv`); no step writes at or below one; and the scan of an
open, which starts from an anchor or from genesis, goes past all of them. For the
audit, `AuditInv` adds that the data pages of each commit page are its own (`Full`);
this survives a power cut because every slot was written once before it. For the
counter, `CounterInv` adds that before the interruption slot `p` holds counter `p - 1`,
and that after it every value found lies below the resumed counter.

### History

For every number of branches, versions, rows, values and vacuums, without assumptions
beyond the ASSUMEs: `TimelinesAreWhole`, `BranchesStayIsolated`,
`HistoryImplementsTimeTravel` and, for the versions whose recorded parent a vacuum did not
replace, `ChangesStayProvenance`; and, until the first vacuum, as the properties say,
`AsOfOnBranch`, `MergesKeepBothSides`, `CountersStayAhead`.

`StoreInv` is the common invariant: what a vacuum leaves of the history is a suffix of
it, the recorded parent of a version is older and still there, every ref is, the head is
the newest version, and a transaction starts from the head of its branch. Commits,
branch operations and merges are then one lemma (`Published`: a version is appended, one
ref moves, the past stays), and a vacuum another (`VacuumCompacts`, on `ReplayTrees`:
replaying differences gives every version its content). `OriginInv` says that recorded
and original parents agree before a vacuum, so walks are lineages (`WalkIsLineage`) and
`merge_base`, which stops at the first common version, finds the newest
(`MergeBaseFound`). `ChangesInv` says that the open transaction differs from the tree it
began with in no key but those it logged, with their logged values, and that the log of a
published version names the keys in which it differs from its parent; a vacuum keeps it
because a replayed tree has the content of the one it replaces (`ChangesCompacted`).
`RowInv` adds that counters do not go back along a timeline: so the
base of a merge is not ahead of either side, the counters are reconciled by the greater
one, and rows of both sides lie below it. Without that part the property is not
inductive: a merge whose base had the greater counter could take the smaller one.

### Catalog

For any names, column definitions, statements, rows and number of schema changes, and
any old schema record that decodes to a well-formed definition whose indexes have ids
up to their number and no kind and name in common (`OldAssumption`): `TreesAreWhole`,
`CatalogIsWhole`, `CachesAreFresh`, `IndexesMatchTables`, `ValuesSurvive`.

The invariant is `TreeInv` of the tree of the transaction and of the one its savepoint
keeps, with `CachesFresh`. `EntriesMatchRows` alone is not inductive: DROP TABLE and
DROP INDEX take away entries by the id of an index and rows by the id of a table, so
nothing may share one (`Apart`, `Numbered`); the drop finds the index by its name
(`NamesLead`); a new table must find no rows under its id (`RowsOwned`); and entries of
no index would come back with the next index of that id, so there are none
(`EntriesExact`). Rows keep their length while columns come and go, hence every ALTER
is shown to keep what an index reads of a row (`Alike`, `Kept`); `AllKept` is also what
`ValuesSurviveAlter` follows from. `SchemaLemmas` has the facts about one schema: where
a column is after others were dropped, what its record reads back as, and what each
ALTER, CREATE INDEX and DROP INDEX leaves of it.

### Search

For any rows, folding of letters, longest word, training, quantisation and settings,
where a text has a length, a vector and its code are numbers and columns are numbered
(`ContentsAssumption`, `StatementsAssumption`): `IndexesFollowRows`,
`StatisticsAreExact`, `VectorsAreExact`.

The statistics are not inductive by themselves: a row that leaves is taken out by its
tokens, so what it put in must be known exactly. `IndexOf(ix, docs)` says that the
full-text index stands for the cells `<<term, row>>` of the documents: ids below the
counter and one per term, one posting per cell with the encoding of its occurrences,
the frequency of a term the number of its cells, lengths and totals those of the
documents. The steps are `RowAdded`, `RowDropped` (which finds the terms in any order:
`AppliedAre`) and `BackfillIs`, so an index made by CREATE and one kept row by row say
the same, but for the ids of terms. That postings read back as the occurrences is
`DecodeEncodePosting`: sums of gaps give the positions (`SummedGaps`).

`VectorsOf` says that with centroids the postings are one per row with a vector, under
its nearest centroid. A row that leaves is looked for under the centroid nearest to the
vector it had, which is where it went, because centroids change only with the whole
index. `FullProbe` shows that with all clusters probed and no cut the plan through the
index is `KnnExact` of the same rows, whatever the codes say.

### Session

For any tables, indexes, foreign keys, defaults, CHECKs, views, triggers, statements and
batches of the shape the front end gives them (`SchemaAssumption`, `WritesAssumption`,
`StatementsAssumption`), any number of connections, versions and savepoints and any
depth of triggers and cascades: `IndexesFollowWrites`, `UniqueIsKept`, `CountersBound`,
`SessionIsTyped`, `StreamsAreExact`.

`Keeping(S)` is the set of the steps that stay in `S` when they succeed, and
`InTurnKeeps` says that steps of it run in turn belong to it; so each operator of `Rows`
has a lemma that puts its step in `Keeping(SoundTxs)`, up to `CascadesKeep` and
`ExecutedKeeps`, which go up the levels of the recursion (`Iterates`,
`BoundedInduction`). A sound transaction has exact entries, no UNIQUE value twice and
counters above the rowids, and the three need each other: the UNIQUE check of an insert
reads entries, not rows, so it shows something of rows only when entries are exact;
entries stay exact only when an insert does not overwrite a row whose entries would be
left behind, which is what the counter excludes where the probe for a duplicate is
skipped. Between the rows and the entries of a bulk load neither holds, so `ExactBut` and
`UniqueBut` leave the new rows out until `AddEntries` has run (`EntriesAdded`,
`UniqueAdded`). `SessionSound` carries it to the head, the open transaction and every
savepoint, because `ROLLBACK TO` brings an old transaction back; what a failed statement
left is out until a rollback takes it away, as in the properties.

`StreamsAreExact` needs an invariant of its own, `RowsInv`: an open stream has the first
rows of its window, has the rest of its LIMIT left, and stands on the last row it
returned, or before the first with its whole OFFSET to go. A call of `next` keeps it or
ends at the end of the window (`StepIs`), because what lies ahead of a row of the
snapshot begins with the row after it (`AheadIs`); every other step keeps it because it
only adds versions (`VersionsStay`).

### Induction

Walks, scans, replays, orders and sums are recursive functions. That they exist is proved
in `NatLemmas` (`CollectExists`, `SeekExists`) or beside the lemma about them, and what
they compute is proved with `StrongInduction` and `BoundedInduction`, which are stated
about sets instead of predicates.

### Model-checked only

* `CommitReturns`: liveness is out of the prover's reach.
* `BTree`, `Query`, `Select`, `Answers` and `Match`: trees, expressions and queries are
  nested, the operators over them are RECURSIVE, and the prover neither reads those nor
  does induction over data. What they compute is compared with reference definitions on
  bounded inputs.
* `NoDanglingChild` and `ChecksHold` (in `ConstraintsHold`) do not hold for every value
  of the constants, because bulk loads check neither foreign keys nor CHECKs and
  cascades skip CHECKs; TLC checks them for batches and cascades that respect them.
* `CommitLog_kills` also lets the fdatasync of `publish_commit` fail, which
  `RecoveredHeadsAudit` excludes. That acknowledged commits survive kills is proved
  (`AckedCommitsSurvive`), and checked by TLC under a power cut only.

## Not modelled

* The page cache (`pager.rs`): a map from page ids to pages that do not change. A
  page id can be written twice after a failed commit (`pager.rs:805`); no module
  has the cache.
* Lexer and parser, formatting, JSON and date functions, LIKE, CAST, AVG,
  GROUP_CONCAT, RETURNING, CREATE TABLE AS, named parameters. The substitution of OLD
  and NEW into a trigger body is the parameter `Body`.
* Byte layouts of pages, records and keys, compression, error correction and scrub:
  their interesting inputs are longer than TLC can enumerate.
* Floating point: BM25 scores, k-means and product quantisation. `Comparable` in
  `Query` fails a sort if any two values cannot be compared; a real sort may not
  meet that pair.
* The wire protocol and the command line tools: encoding and I/O without state.
* Merges across tables with constraints: `History` has one table and `Rows` one
  timeline, and a merge checks neither foreign keys nor UNIQUE (`tx.rs:762`). A
  second merge of one branch starts from the old base (`tx.rs:785`); no document
  says which base is meant.
* What an operating system keeps after a failed fdatasync (`tx.rs:279`): a later one
  that succeeds is taken to cover the writes of both.

## Plan

1. Done: `GroupCommit` with its proofs, `CommitLog`, `History`, `BTree`, `Rows`,
   `Session`, `Catalog`, `Search`, `Answers`.
2. Done: proofs of every safety property of `GroupCommit`, `CommitLog`, `History`,
   `Catalog`, of the indexes of `Search` and of the indexes, counters and streams of `Session`.
   Next: `RecoveryAudits` with failing calls of `publish_commit` when there are only
   kills; foreign keys, under the assumption that batches respect them.
3. A page cache over `CommitLog` with reused page ids; merges of branches whose
   tables have constraints.
