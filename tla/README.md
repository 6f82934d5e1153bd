# frappe-sync in TLA+

*sync* is a Frappe app that keeps Frappe documents and the records of external
systems ("partners": SQL databases, REST APIs) in agreement.  A *Sync
Definition* says what is synchronised, in which direction, how records are
matched and when it runs; a *Sync Run* row is one execution of it, a *Sync Run
Item* row the audit of one record.  This directory models the part of the app
that decides what happens to data: who may run, what a run reads and writes,
what it leaves behind, and how failures are repaired.

Paths below are relative to `sync/sync/service/` unless they start with `sync/`.

## Inventory

| Component | State | Operations | Hard because |
|---|---|---|---|
| Run lifecycle (`orchestrator.py`, `audit.py`, `sync/api.py`) | Sync Run rows, Redis lock `sync:lock:<definition>`, RQ jobs, `last_run*` of the definition | `enqueue_sync_definition`, `execute_sync_definition`, `run_sync_definition_job`, `run_sync_now` | web requests, the scheduler job and workers interleave; the lock is a lease; reads are snapshots; processes die |
| Recovery of stale runs (`management.py`) | the same rows | `recover_stale_runs` | reads, decides, writes later and without the lock |
| Scheduler (`scheduler.py`, `scheduling.py`) | `next_run_at`, finished rows | `list_due_sync_definitions`, `run_due_sync_definitions(_scheduled)`, `_set_next_run_at` | one LockError ends the job, a limit, a fixed order, rows that vanish |
| Delta baseline (`audit.py`, `changes.py`, `models.py`, `execution/sources.py`) | `last_sync_at` of rows, `last_successful_sync` | `_get_last_successful_sync`, `_record_changed_since` | time stamps older than their commit, failed, dry, recovered and pruned runs |
| One-way execution (`execution/one_way.py`, `engine.py`, `writes.py`) | target records, open batch, counters, run items | create, update, delete, after-match hooks, identity write-back, flush | batches on one side, autocommit on the other |
| Bidirectional execution (`execution/bidirectional.py`, `changes.py`) | both sides | conflict resolution, pair processing, deletion | stale baselines, ties, duplicates of identities |
| Matching (`matching.py`) | in-memory lookups | index by key, by identity, by match fields | duplicates, keys that appear during a run |
| Scripted processing (`execution/scripted.py`, `script_support.py`) | Sync Record State rows | plan, apply, reverse journal, prepared snapshot | optimistic revision check, source changing while read |
| Manual resolution (`management.py: resolve_sync_run_item`) | Sync Run Items in review | resolve to Frappe, to the partner | resolves stored payloads against records that moved on |
| Retention (`retention.py`, `management.py`) | old rows and items | `cleanup_sync_run_retention` | concurrent cleaners, interruption between batches |
| Connectors (`connectors.py`) | partner tables | upsert, insert with id strategies, keyset paging | no transaction around update-then-insert, `max_plus_one` |
| Mapping, values (`mapping.py`, `mapping_rules.py`, `values.py`) | none | render, parse, compare | round trips |
| Rules, configuration, YAML (`definition_rules.py`, `configuration.py`, `config_access.py`, `yaml_io.py`, doctype controllers) | definitions and partners | validate, import, export | combinations of options |
| Metadata, query templates, progress, setup, patches, browser forms | none, or one-off | | pure I/O and text |

How they meet: the scheduler and the API call `enqueue_sync_definition`; it
takes the Redis lock, looks for an active row, inserts one, releases the lock
and pushes an RQ job.  The job takes the same lock again for its whole run,
calls the engine, which reads both sides through sources and connectors,
matches, writes, audits and commits in batches, and ends with one commit of the
row, the definition and `next_run_at`.  Recovery and retention touch the rows
without the lock.

What must be right, per component: one engine per definition and no admission
beside it, or beside an active run the check can see; a definition that never stays blocked and never
misreports its last run; no due definition forgotten; no source change lost by
the delta baseline; a write audited exactly when it is kept; both sides equal
after a quiet bidirectional run, and nobody's newer change overwritten; a review
item resolved once; old rows removed completely although cleaners are
interrupted.

## Structure

Every module is about one question and takes the answers of the others as
given; nothing is composed of all of them, since the product would be out of
reach.

| Module | Question | Takes as given |
|---|---|---|
| `RunLedger` | what the rows of a definition promise | |
| `RunLifecycle` | who may run, and what remains of it; implements `RunLedger` | |
| `Scheduler` | is every due definition run? | the life of one run |
| `DeltaSync` | which changes does a delta run see? | one engine (`RunLifecycle`) |
| `PartnerToFrappe`, `FrappeToPartner` | one-way runs: matching, batches, writes, links, deletion | one engine |
| `IdentityLinks` | bidirectional runs: who is whose counterpart | one engine; who wins is arbitrary |
| `ConflictWinner` | bidirectional runs: whose value stays; resolution by hand | one engine; one pair |
| `RecordState` | scripted runs: which group owns which document | one engine; an arbitrary script |
| `AuditRetention` | what is deleted, and is it complete? | |

What would come next: several records that share a match key in a
bidirectional definition (`match_fields`), keyset paging of the relational
connector while its table changes, the preview of scripted runs.  What is left
without a theorem, and why, is at the end of Proofs.

## Modules

### RunLifecycle

The rows of one definition and everybody who touches them.  `status`, `dry`,
`idle` are the Sync Run rows (`idle` is the age of `modified`, the only time
stamp recovery uses); `jobs` is RQ; `lastRun`, `lastStatus` are the definition's
fields; `owner`, `ttl` the Redis lock; `pc`, `my`, `spent`, `stale` are
the local state of the processes, `seen` the rows in the snapshot of their open
transactions.  Actions follow the statements between two
points where another process can interfere:

| Action | Code |
|---|---|
| `OpenEnqueue`, `EnqueueLock`, `LockError`, `EnqueueCheck`, `EnqueueCreate`, `EnqueueUnlock`, `Submit` | `enqueue_sync_definition`, the calls before it that open the transaction, and `_definition_lock` |
| `Dequeue`, `RunNow`, `ExecuteLock`, `RunCheck`, `RunCreate`, `Start` | `run_sync_definition_job`, `run_sync_now`, the head of `execute_sync_definition` |
| `Flush`, `Finish`, `Fail`, `Unlock` | `_flush_pending_run_writes`, both ends of `execute_sync_definition` |
| `RecoverRead`, `RecoverWrite` | `recover_stale_runs` |
| `Crash`, `Tick` | a killed process; an hour |

External parts, modelled from how the code uses them: the lock is a lease with
an owner token (`Lock.release` of an expired owner changes nothing), RQ delivers
a job at most once, a plain read in an open transaction sees the snapshot of its
first read (repeatable read), taken before the lock was asked for.  `Tick` stops while any process is between two
points of a short section: those take seconds, not hours.

### DeltaSync

One one-way definition with `use_last_sync_date`.  Source records change at any
time, with a stamp that may be late, early or missing; runs are admitted,
executed record by record, flushed, finished, aborted, recovered (also after
they ended: the late write of `recover_stale_runs`) and pruned.  `Batched`
selects where the target's commits happen.  A change is *punctual* if its stamp
is not older than its commit; the code compares nothing but stamps, so only
punctual changes can be promised.  Not in this module: deletion (the delta
mode never deletes) and matching.

### Scheduler

All enabled definitions and the cron job of `sync/hooks.py`.  `next_run_at`
and the finished rows are abstracted to what the comparisons with `now` and with
the previous cron moment yield.  The run of a definition is a small automaton
(`queued`, `executing`, `orphan`, `lost`, `stale`) that summarises
`RunLifecycle`.

### PartnerToFrappe

One "Frappe <- Partner" definition and its records.  `partner` is the partner's
table, `docs` the documents as the run's transaction sees them, `saved` as
committed, `pending` the audit items since the last commit, `source` what the
run's SELECT returned, `rest` what is not fetched yet, `seen`, `work`, `doomed`
the batch: documents loaded, matches found, documents to delete.

| Action | Code |
|---|---|
| `Start` | `one_way.py: run_partner_to_frappe`, the stream of the SELECT |
| `Batch` (`Inputs`, `Candidates`, `Lookups`, `Matches`, `Plan`, `Missing`) | `_load_frappe_match_candidates`, `_build_frappe_match_lookup`, `_find_existing_frappe_records`, the list of documents loaded for `delete_missing` |
| `Write` (`Create`, `Update`, `Error`, `Rejected`) with `Log` | `_sync_partner_to_frappe`, `_register_and_log`, the commit when enough items are pending |
| `Delete` | `_delete_missing_frappe_records` |
| `EndBatch`, `Finish`, `Crash` | `_flush_pending_run_writes`, the end of the run, a killed worker |
| `Change` | somebody at the partner inserts, edits, renames, blanks or deletes a record |

Abstractions.  A record is its match key and one more mapped value.  One engine
at a time, complete loads, no dry runs.  Documents are not edited while a run is
at work; the SELECT sees one state of the table, whatever batch it is fetched
in.  `_build_frappe_match_lookup` keeps the last document of a key by
`modified`: the model picks any.  Documents made by hand may have the same key
(*twins*, `MaxMade` of them at most): `all_matches` links both to one record,
`first_match` hides one.  `made`, the keys they had at first, is history.  The order of records in a batch is free, which
covers every order the partner may deliver.  After-match hooks and scripts are
not in this module.  The definition is chosen in `Init` from `Configs` and does
not change; turning identities on for existing documents is the case of
documents made by hand.

`ReuseKeys = FALSE` is an assumption about the partner, not about the code: a
record is never given a key another record has or had, a linked record is renamed
only to keys that no foreign document has, and only a record without history
takes over a document made by hand.  Without it an update may steal the document
of another record, since the key is the second thing the code looks for.

### FrappeToPartner

One "Frappe -> Partner" definition with a relational partner.  `rows` is the
partner's table, indexed by its identity column, `lastId` the greatest identity
it gave; `docs` the documents, `link` the identities stored on them as the run's
transaction sees them, `saved` as committed; `known` the rows the run loaded and
indexed, `source` the documents it read, `work`, `keys`, `doomed` the batch.  The
field `from` of a row, the document it was inserted for, and `owner` are history:
no code reads them.

| Action | Code |
|---|---|
| `Start` (`Indexes`) | the head of `_run_engine`, `_build_partner_match_lookup` |
| `Fetch` (`Matches`, `Targets`, `SourceKeys`) | `_iter_frappe_source_batches`, `_find_existing_partner_records`, `_frappe_source_key_set_from_batches` |
| `Write` (`Create`, `Update`) | `_sync_frappe_to_partner` for one record: `upsert_record` (`Upsert`, with the rows `ForWrite` or `ForExistingMatch` selects), `_persist_frappe_partner_identity` (`Persist`), the audit item (`Log`) |
| `NewId`, `Resolved` | the identity strategies, `_resolved_key_values` |
| `Delete` | `_delete_missing_partner_records` |
| `EndBatch`, `Finish`, `Crash` | `_flush_pending_run_writes`, the end of the run, a killed worker |
| `Edit`, `Insert`, `Vanish` | users of Frappe and of the partner |

Abstractions.  Any audit item may commit the transaction, which covers every
threshold.  A run that deletes reads documents and keys in one step (one
transaction).  An update writes the match fields too, since the row is selected
by its identity; there is a mapped field besides the match fields, so that the
UPDATE is never empty.  The identity column is not mapped, so `payload` behaves
like `connector_default`; the scope of `max_plus_one` is the whole table.  The
lookup that follows an insert is part of the insert.  With a partner identity
field but no field on the document nothing is stored: that case, dry runs, the
partner's cross-link field and scripts are left out.  A delta sync fetches some
of the documents, any.

`Reuse = FALSE` is an assumption about the users: a key belongs to one document
for ever, with stored identities a document is renamed only between runs and
while its row is linked, the partner deletes no row during a run that shares its
key, and under `max_plus_one` never the row with the greatest identity.  One
discipline was found by a proof attempt (`Findable`): under `first_match` the
index by identity has only the rows that the index by key has kept, so that a
linked row whose document was renamed must not share its old key with another
row, or the run finds neither and inserts a second one.

### IdentityLinks

One "Frappe <-> Partner" definition in `identity_fields` mode.  `docs`, `saved`
and `rows` are the two sides, reduced to the links they store (`pid` on a
document, `fid` on a row); `born` is history.  `opDocs`, `knownDocs`, `opRows`,
`knownRows` are the four lists a run reads (the second of each side only in a
delta sync, later), `conflicted`, `pairs`, `onlyDocs`, `onlyRows`, `doomed` what
it makes of them.

| Action | Code |
|---|---|
| `Start`, `ReadLookup`, `ReadPartner`, `Index` | `engine.py`, the reads in their order; `_build_identity_record_state` |
| `ResolveDoc`, `ResolveRow`, `Plan` (`Duplicates`, `RowsOf`, `Orphans`) | `_sync_bidirectional_identity_fields`, `_resolve_identity_*`, `_delete_missing_identity_records` |
| `SyncPair` (`UpdatePartner`, `UpdateFrappe`, `Leave`, `Persist`) | `_sync_bidirectional_identity_pair` and the writes under it |
| `DeleteOrphan`, `CreateRow`, `CreateDoc` | the deletions and creations |
| `EndRun`, `Finish`, `Crash` | last commit, end, a killed worker |
| `NewDoc`, `DeleteDoc`, `NewRow`, `DeleteRow` | users, copies of records with their links included |

Which side of a pair is written is arbitrary here, so every policy is covered.
`Unruly = FALSE` is an assumption about users: a copy, or what it was copied from,
is not deleted while a run is at work, and no row between the two reads of the
partner in a delta sync.  `NewNames` says that names of rolled back documents do
not return.

### ConflictWinner

One document and its row, edited by users, in `identity_fields` and
`match_fields` mode.  A value is the number of the edit it comes from, so that
"newer" has a meaning that is independent of the stamps the code compares; `at`
is the time of every edit.  `opDoc` ... `knownRow` are the reads, `push` and
`pull` the writes decided on, `items` the open conflict items, `baseline` the
`last_successful_sync`.

| Action | Code |
|---|---|
| `Start`, `ReadLookup`, `ReadPartner` (`Listed`, `ChangedSince`) | `engine.py`, the delta filter |
| `Decide` (`DecidePair`, `DecideAlone`, `SameToken`, `Winner`, `Compare`) | `_sync_bidirectional`, `resolve_conflict`, `_pair_token_from_*` |
| `Push`, `Link`, `Pull` | `_apply_partner_update`, `_persist_frappe_partner_identity`, `_apply_frappe_update` with the stamps they write |
| `Finish`, `Crash` | the end of the run and its `last_sync_at`, a killed worker |
| `AcceptRow`, `AcceptDoc`, `ResolutionFails` | `resolve_sync_run_item` |
| `EditDoc`, `EditRow`, `Tick` | users, time |

`Breaches` names the disciplines that are dropped.  With the empty set: an item is
resolved while the records still are what it shows (`late` drops it), a
partner does not edit a row between the run's write of the row and the save
of its link, and nobody edits in the moment of that save (`race`), documents in
`match_fields` mode with identity fields store their identity (`adopt`).

### RecordState

A definition whose records a script processes.  The script is arbitrary: a step
takes any action whose preconditions hold.  `docs` and `states` are the committed
Journal Entries and Sync Record State rows, `view` what the open transaction of
the run sees, `staged` the source on disk, `batch` and `cache` the groups being
planned and what was loaded for them.

| Action | Code |
|---|---|
| `Read`, `Verified`, `Changed` | `script_support.py`: staging, the second reading, three attempts |
| `LoadBatch` | `prepared_batches` |
| `Process` (`Separate`, `Sound`, `Allowed`, `Current`, `AppliedDocs`, `AppliedStates`) | `plan_record`, `apply_plan` in its savepoint |
| `Reject` | a refused group, or one whose writes fail |
| `Flush`, `Finish`, `Crash` | `_flush_pending_run_writes`, the end, a killed worker |
| `User...` | insert, edit, submit, reverse, cancel, delete in the desk |

A read sees the snapshot of its transaction (repeatable read).  A user's
reversal that is in flight while a transaction of the run is open is therefore
not seen by `apply_plan`; the property speaks of the beginning of the transaction.

### AuditRetention

Sync Run rows and the number of their items, jobs of runs that may start late,
and cleanups.  Time is days; jobs end within a day, so `Tick` waits for engines.

| Action | Code |
|---|---|
| `Begin`, `Page` (`Ranges`, `InRange`, `Beyond`, `PageOf`) | `cleanup_sync_run_retention`, `expired_run_names` |
| `Take` (`IsExpired`, `ItemBatch`) | the row read for update and judged again, `item_batch` |
| `Commit` | the deletion of a batch, or of the run, and its commit |
| `Finish`, `Fail` | the end, an exception or a killed process |
| `Queue`, `Load`, `Start`, `AddItem`, `End`, `Recover`, `Dies` | runs meanwhile |

"Error" stands for the four statuses that are kept for `ErrorDays`.

### RunLedger

What readers of the rows rely on, without locks, jobs and clocks: a row is begun
once, nothing but an admission, an engine or a recovery writes it, the definition
is told of every end, recoveries write late.  `Leased` adds what holds under a
condition only: one engine and no admission beside it.  That admissions exclude
each other is not promised: the code does not.  `RunLifecycle!Ledger` is the refinement mapping:
`waiting` are the runs of `Waiting` (queued, or with a process that has not begun
them), `working` those of the processes in the engine, and `Leased` is
`StaleTimeout < LockTimeout`.

### MC modules, proof modules

The modules `MC...` add symmetry sets, the definitions considered and constants
for TLC.  `RunLifecycleProofs`, `DeltaSyncProofs`, `PartnerToFrappeProofs`,
`FrappeToPartnerProofs`, `IdentityLinksProofs`, `ConflictWinnerProofs`,
`RecordStateProofs` and `AuditRetentionProofs` extend the specifications and hold
the theorems.  Operators with the comment *mutated* are plausible mistakes;
each is a variant of the operator after it and is not used by the specification;
exchanging it for the original breaks the property named for it in
`PROJECT.json`.

## Runs

| Run | Shows |
|---|---|
| `inorder` | stale timeout (2) below the lease (3), two processes, two runs, dry and real, a crash: types, `OneEngine`, `AdmissionExcludesEngines`, and how far the old snapshot of the active-run check can mislead, `JoinsOnlyLaterRuns` |
| `shipped` | shipped order of the timeouts (lease 2, stale 3), one crash: `DefinitionAgrees` although engines overlap, `NeverBlockedForGood` under `FairSpec`, `ImplementsLedger`: no row is begun twice |
| `delta` | `NoLostChange` with one engine, two records, two runs, three instants |
| `schedule` | `EveryDueDefinitionRuns` for two definitions, one manual run, two lost workers |
| `mirror` | two records, three documents, two keys, two values, all 32 definitions, up to two documents made by hand, with one key or two, three changes, one fault: `UniqueIdentity`, `LinkStable`, `DeletesOnlyMissing`, `MirrorsSource` |
| `push` | two documents, two keys, two values, three identities, every strategy, three changes, two faults: `OneRowPerDocument`, `OwnRows`, `LinkResolved`, `DeletesOnlyMissing`, `MirrorsSource` |
| `links` | two names, three identities, three changes of users, two faults, full and delta runs: `OneCounterpart`, `UnambiguousPairs`, `DeletesOnlyOrphans`, `Completes` |
| `winner` | two edits, three instants, one fault, both modes, `frappe_wins` with a buffer and `partner_wins` without, `manual` with both: `DivergenceIsSeen`, `NewestWins`, `Converges` under `FairSpec` |
| `scripted` | three groups, three documents, batches of two, two runs, one change of a user, one crash: `OneOwner`, `NothingLetGo`, `AbsorbedForGood`, `ReversesWhatWasShown` |
| `retention` | two runs, two cleanups, pages and batches of one, two days, legacy rows, one failure: `NoOrphans`, `SparesUnexpired`, `CompleteCleanup` |
| `overlap`, `swapped` | expected violations, see Divergences |

Bounds.  Two processes are enough for every race here: each hazard is between a
pair (two callers, a caller and an engine, an engine and recovery), and a
process that returned to `idle` plays the next role.  Two runs: one to be
recovered or ended, one to be admitted meanwhile.  Lease 2 and stale timeout 3
keep the order of the shipped values (120 and 180 minutes) and let the lease end
before, at and after every event; the configuration `inorder` exchanges them.
`inorder` was checked by hand with three processes, and with two crashes, with
the same result.  `JoinsOnlyLaterRuns` with the shipped timeouts and
`DefinitionAgrees` with dry runs, which no run checks, follow from the theorems.
In `delta` two runs are needed for the
second baseline; three instants separate stamp, start and end.  The theorems
below remove these bounds for the safety properties.
In `mirror` three changes are an insert,
a second insert or a rename, and a deletion or a rename back; one fault is a
rejected write or a killed worker between two commits; batch size and commit
threshold are both 2, so that a batch can end with a commit, before one and
after one.  No definition is left out of `mirror`: what those with identities and
deletion delete wrongly (Divergences, *renamed*) is what `Rekeyed` says in
`DeletesOnlyMissing`, and for them `MirrorsSource` says nothing.

In `push` three changes are a document, its renaming or another document, and a
row that appears or vanishes; two faults are a killed worker and a rejected write
or a document that cannot be saved.  Three keys with four changes, or four
changes with two values, were checked by hand with the same result.  It leaves
out `max_plus_one` with deletion, which gives identities again (Divergences,
*reissued*), and
`all_matches` or deletion with creation or updates switched off.

In `links` three identities are a row, its copy, and one the run inserts; three
changes are a record, a copy of it and a deletion, or a contradiction on both
sides; two faults are a crash and a write that fails after it.  In `winner` two
edits are one on each side, or two in a row on one, and three instants put them
before, at and after a baseline and a buffer of one; that two edits are not
enough for every flaw is why the proofs matter here (Proofs, `NewestStays`).  In
`scripted` three groups
are what a merge and a split need; the second run meets what the first left, a
crashed one included.  Versions do not differ there: the code compares them to
save a write, never to decide one.  In `retention` pages of one make every page
full, so that each run is listed from a list another cleanup has shortened; a
day is long enough for `SuccessDays` and `ErrorDays` of one.  The proofs remove
these bounds for retention.

`delta` and `scripted` are run without deadlock checking: when all names,
versions and runs are used up the model stops.

Fairness.  `RunLifecycle!FairSpec`: begun work continues or crashes (weak
fairness per process), recovery is called by the scheduler entry every five
minutes (strong fairness, since it may be disabled in between), and time passes.
`Scheduler!FairSpec`: the cron entry recurs, the workers of the long queue take
and end every job (they have a timeout), leases and stale periods end, cron
moments recur.  `ConflictWinner!FairSpec`: runs are started again and again and
go on (weak fairness of the run's own steps), which is what `Scheduler` shows.
No fairness on users, crashes, resolutions or pruning.

## Proofs

Checked by TLAPS, for every number of processes, runs, crashes, records,
documents, cleanups and instants.

* `TypeCorrect` (`RunLifecycleProofs`, `DeltaSyncProofs`,
  `PartnerToFrappeProofs`, `FrappeToPartnerProofs`, `IdentityLinksProofs`,
  `ConflictWinnerProofs`, `RecordStateProofs`, `AuditRetentionProofs`).  In `RunLifecycle` it needs
  `MyDefined`: a process that is past the point where it has a run knows which.
* `DefinitionAgreesAlways`, without assumptions.  `StaleFunctional` says that a
  recovery remembers one status per row, so that the status it writes to the
  last row is the one it writes to the definition.
* `OneEngineIfLeaseOutlastsJobs`, assuming `StaleTimeout < LockTimeout`.
  `SectionHoldsLease` (whoever is in a short section holds the lock with an
  unspent lease), `Unspent`, and `EngineHoldsLease` (an engine that has run
  for `spent` ticks holds the lock with at least `LockTimeout - spent` left).
  The shipped values violate the assumption, and run `overlap` shows what
  follows.
* `AdmissionExcludesEnginesIfLeaseOutlastsJobs`, the same assumption: an
  admission holds the lock too.
* `JoinsOnlyLaterRunsAlways`, without assumptions, for all timeouts: when a
  process inserts a row, every active row was inserted since its transaction
  opened.  The check itself gives that no row was active in the snapshot
  (`SawNoneActive`); what must be shown is that none which had ended by then has
  become active again, although a late job restarts an ended row, `Submit` writes
  Queued again, and recoveries and engines write late.  `EndedStays` says that
  such a row is never Queued again, and is Running only while the lock has not
  been given back since its job took it (`LockedFor`), so that nobody is between
  lock and insert.
* `LifecycleImplementsLedger`, without assumptions: initial states map to initial
  states and each step to a step of the ledger or a stutter, the shipped
  timeouts included.  With `StaleTimeout < LockTimeout` the two lease invariants
  keep engines and admissions apart (`SectionExcludesEngine`).  Beside the invariants above it needs to know
  what is still to come: a job in the queue or in a worker's hands has not begun
  (`JobsNotBegun`, `MineNotBegun`, `MineAlone`), an idle process has forgotten
  its run (`IdleForgot`), and what a recovery saw running has begun
  (`SeenRunning`).  So no row begins twice.
* `NoLostChangeWithOneEngine`, assuming at most one engine.  The invariant
  speaks of every stamp *in use* (a possible baseline, or the one a running
  engine started from): `StampsSafe` (what the target lacks, and would lack
  after a rollback, is selected from it on) and `EnginesSafe` (what the engine
  has passed is planned, written, or counted as failed).
* `OneDocumentPerRecord` and `LinksAreStable`, assuming `~ReuseKeys`, for every
  definition and for documents made by hand with whatever keys, several of them
  with the same.  `UniqueIdentity` is not inductive: a step of the writing phase
  acts on what the batch was matched with earlier.  `LinkInv` adds what makes the
  old lookups still right: a linked document has a key of its record
  (`LinksOwn`, `OwnKeys`), only twins share a key with a document not linked yet
  (`SameKey`, with the keys they were made with, `HandKeys`), a record that gets a
  new document has no match (`NewOrMatched`, `CreatesNew`), what will be updated
  is the record's own or shares its key and is nobody's (`UpdatesMatch`,
  `NotLinkedYet`), and only a record without another key takes a document over
  (`TakesOver`).  All of it holds of the committed documents as well, since a
  crash returns to them.  Twins are excepted because `all_matches` does give one
  record to both; nothing else may.
* `DeletesOnlyMissingOrRekeyed`, without assumptions: every definition, those with
  deletion and identities included, and every partner.  The writes after the load
  do change keys there, so the proof compares with what was loaded:
  `DoomedAsLoaded` says that a document to be deleted had the key of no record when
  it was loaded, and still has the identity it had then, or none and the same
  key, because a document is matched by the one or the other (`LoadedMatches`).  So the only
  document of a record that can go is one that was linked to it under another key.
* `EndMirrorsSource` (`PartnerToFrappeProofs`), assuming `~ReuseKeys`; the property
  excepts definitions that combine deletion and identities.  A run that ends
  without a failed record leaves a document with the content of each record it
  read.  Its
  invariant accounts for every record that was read: not fetched yet, planned in
  the batch, or mirrored, and what is mirrored is not undone by the writes of
  other records, because records and documents have one another's keys only.
* `FrappeToPartnerProofs`.  `NewRowsAreLinked` needs nothing (`PlanInv`: what is
  planned was read and is still linked as it was read).  The others assume
  `Disciplined`, that is `Reuse = FALSE` and no `max_plus_one` with deletion, and
  are proved in a chain, each invariant with the one before: `RowsAreOwned`
  (`OwnInv`: keys, rows and links belong to one document), `OneRowForEachDocument`
  (`RowInv`: the row of a document is linked or has its key, and is in the index
  while the document waits to be written), `EndMirrorsSource` (`ImageInv`: what
  was loaded is unchanged, or written with what was read) and
  `OnlyMissingAreDeleted` (`LinkInv`: both, and a linked row has the key the run
  read).  That the greatest identity exists (`MaxIsGreatest`) follows from the
  well-foundedness of the naturals.
* `IdentityLinksProofs`.  All but `TypeCorrect` assume `NewNames` and `~Unruly`.
  `OneEach` follows a run: `TableInv` (what the tables store of each other,
  committed or not, with both ends of a link possibly lost), `ReadInv` (what the
  lists a run has read still say of the tables, which users change meanwhile),
  `ResolveInv` (what was concluded from the lists) and `WriteInv` (what holds of
  the writes that are left, although nothing is looked up again).  `PlanWrites`
  is the lemma that carries the second and third over to the fourth.
  `PairsAreUnambiguous` adds `Fresh` (until something changes, the lists are the
  tables) and that the contradictions include every link stored twice, so that
  what is outside them is claimed once (`OneClaim`): neither paired wrongly,
  created again, nor deleted.  `OnlyOrphansAreDeleted`
  adds `FullCover` (a full sync has read every record a link leads to) and
  `DoomedInv` (what is to be deleted stays an orphan, and is in no pair), and
  holds although users and faults strike at any point.  `FullSyncLinksAll` adds
  `TodoInv` (every listed record is to be resolved, or has a pair, or is known to
  have none), `Quiet` (what is to be written exists) and `Complete` (from the
  plan to the end every record is linked, to be deleted, or to be given a
  counterpart).
* `DivergenceStaysSeen`, assuming that neither `adopt` nor `late` is dropped;
  `race` may be.  A run leaves a baseline only if it leaves the sides `Rested`:
  equal, or one changed since it began, hence with a stamp not before its start
  (`StampInv`).  That it does so is `WriteInv` while it writes, and before that
  `ReadInv`: what was read is exact unless an edit or a resolution intervened, and
  what was not listed is older than the baseline.  A resolution is harmless
  because of `ItemInv`: what an item shows is a tie under the present baseline, or
  one of its two values is gone for good (edits have numbers), so that the item
  can never be current again.
* `NewestStays` (`NewestWins`), assuming that no discipline is dropped.  Stamps
  decide who wins, and stamps are not the times of edits: a run copies them, and
  the save of a link renews one.  `TimeInv` says how far they may be off (a stamp
  is the time of its edit, or later, up to the last save of a link), and
  `HonestInv` that a stamp that is off does not matter: what carries it may
  replace the other side all the same, or the other side is newer even than the
  stamp.  `WinnerIsFair` concludes that the winner of two honest sides may replace
  the loser.  `FairInv` keeps this for what was read while users edit and resolve;
  what they edit is newer than all that was read, and visibly so (`LaterInv`).
  The proof needed one more discipline than TLC had asked for with two edits
  (Divergences, *race*).
* `OneOwnerEver`, `NothingLetGoEver`, `AbsorbedStay` and `ReversesOnlyShown`,
  without assumptions beyond those on the constants, for every number of keys,
  documents, runs, crashes and changes of users.  The invariant speaks of two
  pairs of tables, the committed ones and those the transaction sees
  (`TableInv` of both), and of three relations.  `CachedFor`: the states of the
  groups still to be planned are those the batch was loaded with, since groups
  share no key (`EmittedGroups`) and only the engine writes states.  `Follows`:
  a document keeps its key and its origin, and its status too if `modified` did
  not change, which is what makes the comparison in `apply_plan` enough.
  `Behind`: what is committed differs from what the transaction sees only by the
  steps of users and by what the transaction itself has done, so that a flush
  keeps the relations (`Merged`).  `OwnedKeyed` is the part that is easy to
  miss: the key of an owned document has a state, so that no group without one
  can be matched with it.
* `NoOrphansEver`, `UnexpiredSpared`, `CleanupCompletes`, without assumptions.
  `Held` (the row a cleanup holds is expired and its items do not change) needs
  that no engine works for an expired run (`ExpiredIdle`), which holds because
  days do not pass while one works.  Completeness is `NonePassed`: whatever is
  expired and listed before the cursor is gone or queued.  It rests on
  `PageCovers`: a page with fewer rows than its size leaves nothing behind it,
  a full one nothing before its last row (take the least run left out), and on
  `ExpiredOld`: nothing becomes expired for a cleanup that has begun.

With two engines `NoLostChange` does not hold: one that read a record before a
change writes it after the other wrote the newer content.  That is what makes
`OneEngine` matter.

Only model-checked: liveness (out of the prover's reach: `NeverBlockedForGood`,
`EveryDueDefinitionRuns`, `Converges`) and `Scheduler` as a whole (its due list
uses `SelectSeq`, about which the library proves nothing that is needed here).

## Divergences

Shown by runs:

* `overlap`: lease 2 hours, jobs up to 3 hours, no extension of the lease.
* `swapped`: in `match_fields` mode with identity fields a document without its
  identity gets another pair token than its row (`matching.py:609`).  Each is
  synchronised alone, from what was read: the values change sides and the newer
  row is overwritten, in a run that reports success.

Seen with earlier configurations of the models, and excluded by the ones that
are run now (the constant or definition that brings it back in brackets):

* *dry run*: the recovery of a stale dry run writes the definition's `last_run`
  (`management.py:91`), which the repository's `README.md:69` says dry runs do
  not touch; `RecoverWrite` does it.
* *shadowed* [`ReuseKeys = TRUE`]: the index of identities is built from the
  documents that are left after one document per key was kept (`matching.py:98`).
  If another record got the key, the document of a record is hidden and a second
  one is created for it.
* *reissued* [`max_plus_one` with deletion]: `max_plus_one` counts from the rows
  that are there (`connectors.py:611`).  If the row with the greatest identity was
  deleted as missing while its document was only without a key, the next run
  gives the identity to a new document and lets the first one overwrite that
  row, since its stored identity is looked up first.  The run reports success;
  the new document has no row.
* *late* [`Breaches = {"late"}`]: resolving a conflict item writes the payload and
  the stamps stored with it, whatever the records are by then; the status of the
  item is checked without a lock (`management.py:213`), so that two opposite
  requests both pass.
* *race* [`Breaches = {"race"}`]: saving a link stamps the document anew
  (`writes.py:729`) and hides an edit the partner made just before.  It may also
  stamp an edit of the document the run has not pushed; the next run copies that
  stamp to the row, and if the document is edited again in the same moment, the
  newer edit ties with the older one and `partner_wins` undoes it.  The two edits
  of `winner` do not show this, three do: the search for an invariant of
  `NewestWins` found it.
* *doubled* [`Unruly = TRUE`]: in a delta run a row that is deleted between the
  read of the changes and the read of the lookup is paired and missing at once;
  the document gets a second row.

Part of the models as they are run:

* *snapshot*: the active-run check is a plain read in a transaction that the
  permission checks (or the due list) opened before the lock was asked for.  Under
  repeatable read it misses a row committed in between, and a second run is
  admitted beside an active one: `OpenEnqueue` of two callers, then the rest of
  both.  The cleaner's comment (`management.py:161`) names this effect.
  `JoinsOnlyLaterRuns` says that this is all that goes wrong: only a row inserted
  after the snapshot is missed.  The lock still keeps both engines apart while its
  lease lasts (`OneEngine` in `inorder`).
* *renamed*: `delete_missing` compares the match keys documents had before the run
  with those of the source (`one_way.py:762`); matching goes by identity first.
  The document of a record that was renamed is updated and then deleted in the
  same run, the next one creates it again; the document of a record whose key was
  blanked is deleted too, although the complete load contains the record.
  `DeletesOnlyMissing` excepts exactly these (`Rekeyed`); without the exception
  TLC finds the deletion.
* `recover_stale_runs` decides on rows read earlier; a run that flushed in
  between is ended (on MariaDB; a database that rejects the lost update raises
  instead).
* `modified` is never empty, so the fall-back to `started_at` is dead code and
  `Start` does not touch `modified`: a run that waited in RQ for the stale
  period is recovered as soon as it starts.
* `_set_next_run_at` is outside `if not dry_run`, so a dry run plans the next
  real one.
* A definition without finished rows counts as never run, even if `next_run_at`
  lies ahead; retention can bring that about for rare schedules.
* More due definitions than the limit of 20, all failing, starve the ones
  behind them, as the list has no order that rotates.
* `first_match` drops records without a match key silently; `all_matches` writes
  an error item for each.
* `all_matches` with identities writes the identity of one record to several
  documents if several have its key; later runs then update one of them
  only (`Twin` in `UniqueIdentity`).

* Towards the partner, a document that matches a row without differing from it is
  skipped and its stored identity stays empty.  A killed worker between the
  partner's commit and Frappe's leaves such a pair; if the document is renamed
  before it differs, its row is not found and a second one is inserted.
* An insert under `connector_default` for a document with a stale identity looks
  the new row up by that identity, finds none and reports the stale value: the
  document is not linked to its row.
* The row a document is linked to is not indexed while another row has its key
  under `first_match`; `delete_missing` may then delete it by its old key, or, if
  the document was renamed, the run inserts a second row (`Findable` excludes
  it).

* `_create_identity_frappe_from_partner` writes the name of the new document to
  the row before Frappe commits the document.  A killed worker leaves a row that
  names a document that never was: it is never created again, and the next full
  run with `delete_missing` deletes it (`DeletesOnlyOrphans` excepts it by name;
  `lost` counts such documents).
* A row deleted by the partner while a run has it in a pair is inserted again
  under a new identity; with `delete_missing` the same run may then delete the
  document by the identity it looked up before.
* Under `connector_default` the identity of an inserted row reaches the document
  one run later.
* `recover_stale_runs` may write after the run has ended (`RecoverWrite`, and
  `Recover` of `AuditRetention` on the day of the end).
* An edit made during a bidirectional run after its side was read is overwritten
  by what was decided from the older value, whichever is newer; nothing is read
  again before the write.  `NewestWins` speaks of the values that were there when
  the run began.
* With `update_existing` off a run with differences is a success and moves the
  baseline past them.
* A group that absorbed others cannot be absorbed together with its aliases, and
  a draft a user gives another key may be adopted by a second group.
* A run that was queued or recovered and whose row retention deleted fails when
  its job starts; an update of the missing row changes nothing.

## Not modelled

Text of queries, templates, summaries and messages; metadata lookups; progress
messages; setup, patches and browser forms; SQL dialects and HTTP.  Runs with
`queue=False` have no RQ timeout but the web server's; the theorems about one
engine count them with the job timeout.  Values of mapped fields are opaque
everywhere.  Of scripted processing: the preview, the reuse of a prepared
source, the cancellation of reversals.  Of bidirectional runs: several records
that share a match key in `match_fields` mode, and dry runs, which write nothing
but audit items.  Of connectors: paging, REST, everything about SQL.  YAML import
is one transaction of inserts.  The validation rules are the sets `Config` of
the modules; they keep no state.
