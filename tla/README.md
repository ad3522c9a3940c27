# Datacron, specified

TLA+ models of Datacron, the MCP server that lets language models read and write
a Markdown vault, with TLC runs on small instances and TLAPS proofs for
all of them. Source references are relative to `src/datacron/` of the
repository unless they name another directory; `map` in `PROJECT.json` ties each
definition to the lines it stands for.

## The system

Datacron is a set of processes around a directory of notes. MCP servers (one per
client), the Companion's local web server and the command line all open the same
vault; nothing but the file system and advisory locks joins them. The vault is
Markdown files, edited at will by people and sync clients. Beside it a *sidecar*
holds what Datacron adds: the operation journal, the pending manifests, the
history of prior bytes, note identities, and an SQLite index.

| Component | State it keeps | Operations | Talks to |
| --- | --- | --- | --- |
| Note transaction: `core/vault_writer.py`, `core/operation_log.py`, `core/durability.py`, `mcp/tools/write_requests.py` | notes, `oplog/operations.jsonl`, `oplog/pending`, `oplog/history`, lock files | create, overwrite, section edits, revert, recover, inspect, repair, purge | every writer; recovery runs before each write and at startup |
| Organization batch: `core/batch_transaction.py` | batch receipts, staged payloads, journal records, notes | apply, recover, inspect, rollback | uses the writer's lock and journal |
| History retention and journal reader: `core/operation_log.py` | timestamps, hash chain, tail cache, purge throttle | append, read backwards, migrate legacy log, sweep | writer, batch, Companion |
| Identities: `core/vault.py` | `ulids.json`, its older twin, each server's copy, deferred writes | load, resolve, defer, flush, invalidate | reader, reconciliation, index, batches, `ops repair-id` |
| Index: `indexing/reconcile.py`, `indexing/rebuild.py`, `indexing/fts5_store.py` | rows, stored mtimes, generation, chunker version | reconcile pass, rebuild and swap, upsert, delete | read repair of every search, CLI |
| Search and ranking: `mcp/tools/search.py`, `indexing/ripgrep.py`, `core/temporal.py` | none but caches | fuse, rerank, page | index |
| Markdown algorithms: `core/markdown_sections.py`, `indexing/chunker.py`, `mcp/tools/section_move.py` | none | section extents, insertion, move, chunking | write tools, index |
| MCP server: `mcp/server.py`, `mcp/tools/*` | application object, startup gates | startup recovery, tools, write progress | all of the above |
| Organization planning: `organization/*` | plans, manifests | plan, freeze, apply, library workbench | batch transaction |
| Companion: `companion/*` | review marks, HTTP sessions | inbox, mark, revert | writer, journal |
| Write progress: `mcp/tools/write_progress.py` | none | tell a client what became of its request | journal, index, note, read one after the other |
| Scrubber: `scrubber.py` | canaries, checkpoint | scrub, resume, report health | index, reader |
| Migration: `migration.py` | copy manifest, tombstone | plan, copy, initialise, verify, bury, delete | two vaults, servers between runs |
| Compaction: `memory_compaction.py` | digests, marks in journal notes | list, digest, mark | reader, writer; runs of CLI and Companion |
| Installers, setup, configuration: `installers/*`, `setup_wizard.py`, `core/config.py` | foreign configuration files | merge, install | user's files |

What is hard here: several processes share durable state with only advisory
locks; each of them may die between any two file operations; editors ignore the
locks; answers get lost and clients retry; operators repair what recovery
refuses to guess; a background sweep deletes history; the index follows a vault
that moves while it is being read. `hazards` in `PROJECT.json` lists these at
their lines, with the properties that cover them.

What would make each component correct:

- note transaction: every byte Datacron wrote is accounted for after any crash;
  an operation is journaled exactly once; a retry does not repeat; nothing is
  clobbered unseen; prior bytes survive as long as a manifest may need them;
- batch: all of a batch's notes are published or the vault says it is blocked,
  and a rollback restores exactly the prior bytes or touches nothing;
- retention and reader: a sweep never deletes bytes a record in the window
  names, whatever the clock does; readers never see a broken chain;
- index: a finished pass on a still vault leaves the index equal to the vault,
  and a served row is never older than the generation says;
- identities: no two live notes share one, no note changes its own;
- review marks, scrub checkpoints, migration: no update is lost, an interrupted
  run resumes without skipping or repeating, an undo restores;
- compaction: a note marked as archived has its text in the digest it names, once.

## Modules

| Module | What it is |
| --- | --- |
| `AuditTrail` | what a journal promises, with neither locks nor processes |
| `NoteTransaction` | the transaction as the code runs it |
| `NoteTransactionProofs`, `TrailProofs` | its theorems: locks, recovery, audit and answers; refinement, retries and baselines |
| `AtomicBatch` | what an organization batch promises about a vault |
| `BatchTransaction` | the batch transaction as the code runs it |
| `Reconcile` | passes that bring the index up to the vault, and the caches over it |
| `HistoryRetention` | timestamps, the backward scan and the sweep, on a clock that steps |
| `WriteProgress` | what a client that lost an answer is told, and what follows from it |
| `ReviewState` | review marks under several inbox windows |
| `IndexRebuild` | the offline rebuild and its swap |
| `Migration` | single to dual vault, cut short and run again |
| `Scrubber` | scrubs that die, resume and overlap |
| `MemoryCompaction` | journal notes copied to digests and marked, by runs that die and overlap |
| `IdentitySidecar` | `ulids.json` and the copies of it that servers write back |
| `BatchTransactionProofs`, `ReconcileProofs`, `MigrationProofs`, `MemoryCompactionProofs`, `IdentitySidecarProofs` | theorems of these |
| `UpkeepProofs` | theorems of `HistoryRetention`, `ReviewState`, `IndexRebuild`, `Scrubber` and `WriteProgress`, which share nothing |
| `MCNoteTransaction`, `MCNotes`, `MCBatchTransaction`, `MCBatches`, `MCReconcile`, `MCLive`, `MCUpkeep` | instances for TLC |

`MCUpkeep` checks seven components in one run, `MCLive` and `MCNotes` two, with `part` or `about` saying
which one a behaviour is about. These parts share no variable: a product of them would only repeat each
part's states once per state of the others. Where components do share state the models compose
them: `NoteTransaction` has locks, journal, recovery and retention in one; `BatchTransaction`
has the ordinary writes, repairs and sweeps that run around a batch; `Reconcile` has every
process over one index; `WriteProgress` has the writer's replay rule beside the tool's advice.
`MCBatches` and `MCReconcile` choose among several settings at the start, so that a deep
behaviour of one kind does not have to be multiplied by another.

### `NoteTransaction`

Variables are the durable state (`disk`, `log`, `tail`, `pending`, `history`),
the advisory lock `mutation` (`lock`) and, for each process, the step it is at
(`pc`), its request (`job`), the operation in hand (`rec`), the manifests its
recovery has still to read (`todo`) and whether it met a blocked one (`hit`).
`origin` (whose bytes a note holds) and `told` (what callers were told) are ghosts that
no guard reads. The steps of a call follow `_write_note_atomic_sync`:

    waiting -> torn -> scan -> check -> save -> declare -> replace -> append -> forget -> sweep
                                                              \-> inspect (OSError)
    waiting -> repair -> save -> declare -> replace -> append -> forget -> settle  (ops repair)

- *Recovery* (`RepairTornTail`, `RecoverFinished`, `RecoverLanded`, `RecoverBlocked`,
  `RecoverRefused`, `RecoverDone`) is `_recover_operations_scan_sync`: each manifest is
  finished, journaled or left blocked by what the journal and the note say; one
  blocked manifest refuses the whole vault's writes.
- *Check* (`CheckReplay`, `CheckAccept`, `CheckRefuse`) is request replay, committed
  baseline, `expected_hash` and what each kind of call asks of the note.
- *Commit* is `_commit_operation_sync` and `_commit_repair`, with `ReplaceFails` and
  `AppendFails` for I/O errors and `DiscardUnstarted` for the handler.
- *Operators* inspect under the journal lock and repair with the disk hash
  they saw (`BeginRepair`, `RepairAccept`, `SettleRepaired`).
- `Crash` is death at any step. It also stands for exceptions at steps that no
  other action names: these leave the same state behind. At `append` the file may
  keep a fragment (`torn`) or a complete record without its newline
  (`unterminated`); the latter refuses writes until an operator intervenes
  (docs/en/operational-health.md), who is not modelled.
- `EditOutside` is an editor, a sync client or a deletion. `EditorRaces` says whether it
  may fall inside a transaction.

Abstractions: a content stands for its bytes and its SHA-256; operation ids are
consecutive numbers in place of UUIDs; temp file, fsync and rename are one step, whose
failure may leave either side; the retention window is any suffix of the
journal that holds the record just written, and a sweep may keep more than it
must (throttle, failed unlink, error); `history_mode` is `full`; a mutation may compute any
content from the note. When `MaxOps` ids are used up further calls are refused:
that is an artefact of the bound. Identity collisions, path resolution and batch
recovery, which runs at the same point, are left to other modules.

### `AuditTrail`

A journal in four variables. An operation is declared on the bytes a note has, changes
it from exactly those, is recorded at most once and only while the note
holds its bytes, never after a repair replaced it, and is withdrawn without a
record only if the note does not hold its bytes. `ImplementsAuditTrail` says
that `NoteTransaction`, with `disk`, `pending`, `log` and `told` read as the four
variables, does nothing else.

### `BatchTransaction`

A batch is a member list (a target with its new bytes, and a source if the member is a move)
and the vault it was validated on. Durable state: `disk`, `stage`, `history`,
`pending` and `committed` receipts, the `log` of members with a record, and `manifest`, the
one ordinary operation that may be left over. `proc` has each process's step; `origin` and
`told` are ghosts. Apply mode of `apply_organization_manifest` is

    waiting -> recover -> finish -> resolve -> preview           (lock released)
    waiting -> recover -> finish -> check -> stage -> save -> declare -> classify
            -> roll -> record -> receipt -> forget -> unstage -> sweep

- *Validation* (`Preview`) hands out a confirmed batch; `Confirm` is the token comparison of apply
  mode outside the lock, `CheckAccept` and `CheckRefuse` the exact comparison under it.
- *Recovery* (`RecoverNothing`, `RecoverRefused`, `RecoverBatch`) is `recover`, which then takes
  the steps of apply from `classify` on and ends in `finish`, the recovery of ordinary operations.
- *The handler* (`Handle`, `Undo`, `Verify`, `DropPending`, `ClearStage`) withdraws a batch that has
  no record; one whose records were started waits for recovery.
- Apply classifies inside its inventory pass, so its view of scope notes is that of the
  check (`Classify`, `Caught`, `Handle`); recovery reads them again.
- Every durable step may fail before or after it takes effect (`Fails`, `Advance`), and a process may
  die anywhere (`Crash`).
- Ordinary writes are one step here, whole or interrupted (`WriteNote`, `WriteInterrupted`);
  `NoteTransaction` has their inside. `AdoptDisk` is the repair
  that keeps what the disk holds; `restore-before` is, to a batch, that and an ordinary write after it.

Abstractions: a path's content stands for its bytes, hash and existence; the identity, alias,
configuration and policy validators of the stage (`_stage_error`) are one refusal, which differs in nothing from a failure of the step they guard;
created directories and receipt formats are left out; validate mode reads
vault and receipts in one step; a stage is removed in one step (a partial removal leaves an
orphan no receipt names, like the whole stage does).

`AtomicBatch` says what remains when receipts, stages and steps are forgotten: a batch enters doubt on
exactly the vault it was validated on, its paths flip between two contents, no other
Datacron write happens meanwhile, and it leaves doubt whole.

### `IdentitySidecar`

A note without an `id` in its frontmatter has the identity `ulids.json` gives for its path, and else one
derived from the path. `own` is the frontmatter ids, `primary` and `migrated` the two files (`ulids.json` and
`ulids.json.migrated`, which goes first when both name a path), `memory` each server's copy (`JsonIdStore`).
`Load` and `Mend` are `_load_sync` and the repair it may write; `Ask` and `Assign` the two halves of `_resolve_id`,
between which other coroutines run; `BeginPass`, `EndPass` and `FlushDeferred` a pass that defers its
writes (the flush works on a snapshot, outside the lock); `OpenStore` and `Seal` the copies the
index makes when it is opened. Every write may fail, and every server die (`Restart`). `Move` is an organization batch
and `RepairId` is `ops repair-id --action adopt-frontmatter`: both change single keys of the file behind the
servers' backs; the other action, `adopt-index`, writes the note's frontmatter and is an `EditNote`. `Garble` makes the file unreadable for a while. `reference` is what the sidecar last
recorded for a place on purpose; `behind` and `overrun` name the one case in which it is lost, see below.
Left out: the inside of a batch (`BatchTransaction`), keys that differ in case only, read-only stores, which write nothing,
and the index that is realigned after a repair.

### `Reconcile`

`disk` is the vault (identity, hash and mtime of each path), `index` the rows, `gen` the
generation, `lock` the SQLite write lock with the rows of an uncommitted batch, `pass` what
each process holds in memory, `cache` the temporal metadata each server keeps and `stale` its
marks of notes a search found stale. A pass goes

    walk -> snapshot -> prepare* -> purge -> (skip | read -> store)* -> stamp -> get -> set

as `reconcile_index` does: the walk fixes the mtimes, the gate compares them with a snapshot of
the index, a note that is not skipped is read once for its identity and, if it must be stored, a
second time for its text; rows are committed every `commit_every` notes, the chunker version and
the generation after them. `Target` is the refresh of one note after a write; `StoreFails`, `Cancel`,
`Crash` and the failed reads of `ReadNow` may come between any two steps. `AskGeneration` and
`AskRows` are a search that fills the temporal cache, `Hit` one that finds a stale note.
Mtimes are ticks; `SaveSameTick` and `Restore` are edits that do not move them forward.
`RecordMtime` is `record_mtime`, which looks a row up by its identity alone.
Seven ghosts, read by no guard: `calm` (nothing disturbed the pass), `touched` (notes edited since the start), `returned` (paths
to which a file came back under an old mtime), `missed` (notes that could not be read when their turn came, whose mark
or chunks stay as they were), `found` (notes a server's search found stale), `crossed` (notes whose row was another one
than the pass took its mtime for) and `slipped` (the generation has moved backwards). An entry of `found` lasts until
the note is edited, or another server stores older bytes of it late, which is a change like an edit; a hit counts when no other
server holds uncommitted rows, since it does not tell then what is about to be the index. Left out: the throttle of read repair, progress reports and the order of the walk; a text of a
note is its hash, also for its chunks.

One outcome of a cancelled request is left out as well. `bulk_writes` rolls back over any exception (`fts5_store.py:1144`), but a
single `upsert_note`, `delete_note` or `set_*` only handles `Exception` or nothing (1112, 1226, 1637-1643), and `CancelledError` is none: cancelled
between its first statement and its commit it leaves a transaction open on the server's connection, which keeps the SQLite writer from everybody, and that server's own
`BEGIN IMMEDIATE` from succeeding, until a later `set_*` of the server commits what there is, or the server ends. `Cancel`
always rolls back: the properties of the index are about servers whose cancelled calls do.

### `HistoryRetention`

`Write` is one complete transaction (its inside is `NoteTransaction`'s), `WriteCut` one that a
crash cut off, `Recover` the recovery of such a manifest, with its record restamped past the tail.
`Retained` is the backward scan that stops at the first record older than the window and
falls back to the whole journal when it finds a contradiction; `Sweep` deletes every blob
not retained, and `Sweeps` the throttle, which is per process. `Clock` moves the wall clock
either way; `Journals` and `Leftovers` are what an earlier version, which did not advance
timestamps, may have left. `SwitchMode` turns `history_mode` to redacted and back.

### `WriteProgress`

The note is a counter of each caller's entries, so that two appends of one entry show. A request is
performed (`Perform`), perhaps several times and perhaps after its caller gave up on it, or cut off
by a crash (`Cut`); `Verdict` is the replay check. `Ask`, `List` and `Answer` are the tool's
three moments: path, journal, note. `Follow` is a client that does what the answer says. `Revert` and
`Move` change the note meanwhile; a move keeps the old path in its records.

### `ReviewState`

`LoadState` and `LoadPage` are the two readings of a page request, marks before journal, and `Toggle` its
change, with one retry after a refusal; a window does one of these at a time (`runAction`). `Lock` to
`Replace` the update under the review lock: journal, then file, then comparison of the
expected hash, pruning of unknown marks, the cap and the atomic replacement. `Record` and
`RestoreJournal` change the journal, `Garble` the file.

### `IndexRebuild`

`BuildNote` and `CheckNote` are the two walks, note by note, with edits (`Touch`) between any two
of them; `Valid` compares the built database with the second walk and with the expected generation;
`Guard` and `Swap` are the two looks for a rollback journal and `os.replace`. `Transaction` is a
server that dies and leaves such a journal. Servers are stopped during a rebuild, as `cli.py` says.
A read that fails leaves the note out of that walk (`CannotRead`). Two notes of one identity end the rebuild with an
error wherever the first walk meets the second of them (`DuplicateNoteIdentityError`): that is one of the errors of `RebuildStops`, which can
come at any step, and a version stands for hash and identity of a note that is alone in having it.

### `Migration`

`StartRun` to `SwitchClients` are a copying run, `Verify` to `Delete` the cleanup, which may
be part of it or a run of its own. A run stops at any step (`StopRun`), and servers and clients
write to either vault between runs (`SaveSource`, `SaveTarget`); during a run they are stopped
(docs/en/setup.md:366) and the source is locked. The tombstone is filled item by item; a failed
rename undoes the earlier ones, and that may fail too (`BuryFails`, `Undo`). The rebuild in a run opens its
reader read-only (`indexing/rebuild.py:163`, `core/vault.py:322-324`): it assigns no identities, and writes nothing but
the index, which is not among the files that are copied. A tree of files is
a function to texts; path checks and the refusals of the lock are left out, and so is the refusal of a run with nothing to
migrate, since an empty `_memory` directory already counts as something (`migration.py:171`).

### `Scrubber`

An invocation reads rows and generation (`ReadIndex`, `ReadRest`: two queries, in either order),
resumes a pass or begins one (`Resume`), checks the canaries and then note after note,
writing the checkpoint now and then. Nothing keeps two invocations apart. A file that is there and
cannot be read is an alert like one that differs (`Unread`). `PublishRow` and
`MoveGeneration` are a server's index passes, whose process may die between them; `MoveLate` is a pass whose
read-then-set of the counter others overtook, which takes it back to a value it had. The pacing and a
checkpoint damaged from outside are left out.

### `MemoryCompaction`

`diary` is the journal notes (text, `updated`, `compacted_into`, and whether their frontmatter can
be edited in place), `digest` the digests: the sections under each heading and `compacted_notes`.

    list* -> month -> write -> mark* -> month -> ... -> idle

A run reads note after note (`ListNext`), groups what it found by month, asks whether a month has a
digest (`NextMonth`), writes it (`WriteDigest`: creating, or adding to what it then finds) and marks the notes
(`MarkNext`), each of which it finds changed, gone or no longer editable. `SaveDiary` and
`EditDigest` are the owner, who may also save a buffer older than a mark; `CompactionStops` is
death or a failed write at any point. Each of the writes is a transaction of `NoteTransaction`. Headings are a
day and an identity; in the code the test for them is one for a substring of the body. Sections that
an owner edits or removes are left out, and so is the reconcile after the last month.

## Runs

| Run | What may happen | Shows |
| --- | --- | --- |
| `note_races` | 2 processes, 1 note, 2 contents, 4 calls, 3 operations, 2 faults, 1 edit anywhere; or the identity sidecar: 2 servers, 2 places, 3 identities, 1 pass, 1 move or repair, 1 edit | types, `AuditCoverage`, `ToldIsJournaled`, `RecoveryFirst`, `RestoreStaysPossible`, `RetryNeverRepeats`, `IdentitiesStay` |
| `note_quiet` | 2 processes, 3 contents, 2 operations, 2 faults, 2 edits between transactions | `JournalSound`, `UnhashedFollowsBaseline`, `NoSilentClobber`, `ImplementsAuditTrail` |
| `note_creation` | no fault, 1 edit | `CreationNeverOverwrites` is violated |
| `note_offer` | 1 fault, 1 edit | `OfferedRestoreIsAccepted` is violated |
| `batch_races` | one manifest: a move and a replacement, 2 faults, 1 edit anywhere; or one manifest on two scopes, 1 fault | `TypedOneInDoubt`, `BothWaysStayOpen`, `TracesMatchReceipts`, `EitherOnlyEditsBlock`, `ManifestCommitsOnce` |
| `batch_quiet` | 2 processes, a move in a scope of three notes, 2 faults, 1 edit between calls | `ImplementsAtomicBatch` |
| `batch_third` | as the large setting of `batch_races` | `ThirdBytesBlock` is violated |
| `reconcile_passes` | 2 paths, 2 identities, 3 contents in seven settings, see below | `GateSound`, `CalmPassSettles`, `TypedNotesStay`, `CacheFresh`, `MarksSurvive`, `UpgradeReachesEveryNote` |
| `reconcile_twice` | two servers, two edits | `GateTrusted` is violated |
| `live` | calls: 2 processes, 2 operations, 1 fault, 1 edit; or index: one sweeping server, 2 notes, 2 edits, 1 failed read; fair | `EveryCallEnds`, `IndexCatchesUp` |
| `upkeep` | seven components, see below | types with `HealthIsHonest` (`TypedAndHonest`) and the fourteen other properties of these components |
| `loss` | as the migration part of `upkeep` | `NothingIsLost` is violated |

*The core.* One note is enough: notes interact only through the shared journal and the rule that
one blocked manifest stops everybody, and both show with one. Three operations allow an
operation, its repair and a later write; two faults interrupt an operation and its repair; two
edits block a manifest and put bytes back. Two processes suffice for everything that rests on the
lock, which does not tell the third process from the second. The calls cover a keyed retry with
and without `expected_hash`, one key with two argument sets, a creation and a revert.

*Batches.* One move and one replacement exercise every kind of path (created, removed, replaced)
and give partial states of every length; two faults interrupt apply and then its rollback or
its recovery; one edit makes third bytes. A second manifest adds nothing while one receipt at
most exists (`OneInDoubt`), except in the narrow setting, where two validations compete.

*Identities.* Two servers are one that is behind and one that is not; two places are what a move needs. One
pass lets a flush overlap an assignment, one move or repair is enough to be behind of, and the failures of writes,
deaths and unreadable moments are unbounded. The starts are a note with an id of its own next to one
without, or one that may move, with every state of the two files those tell apart.

*Reconcile.* Two notes are the least that have a neighbour, change places or contest an identity.
The settings are: one server with sweeps, refreshes and passes after writes, two edits and one failure; two servers
whose passes interleave around one edit; searches that cache, under backups and deaths; two rewrites
within one tick under sweeps, full passes and a cancelled one; an index of another chunker version; two servers with caches and a deletion; two servers
whose sweeps meet a rewrite within one tick. `MaxGen` 3 stops targeted refreshes only.
With two servers *and* two edits `GateTrusted`, which has no exception for `crossed`, fails: that is
`reconcile_twice`. `GateSound` and `CalmPassSettles` except what a gate by mtime cannot
see (`SavesMoveMtime`, `returned`) and what crossed, `CacheFresh` the passes that end between rows and generation
(`UncutPasses`; the death of a server takes its cache along, so it is only an exception for the others) and a generation
that slipped, `MarksSurvive` and `UpgradeReachesEveryNote` the notes in `missed`.

*Upkeep.* One server of the journal on a clock of four ticks with a window and a throttle of one,
two writes, and inherited journals in and out of order; two callers with two request ids each, one
revert, one move, one crash; two windows, two operations, a cap of one mark, two toggles; a
rebuild of two places run twice among two edits or failed reads; three migrations of configuration, identities
and one memory note around one save (the run that copied, the one cut in its refresh, and the one that is refused), and in `loss`
two around two; two scrub invocations of two
notes, two events (edits, published rows, failed reads; the counter has two values) and two passes; two compactions of two notes, one dated by its name, on two
days of two months with one save. Marks and compactions have theorems for every bound. In each part the bound allows what its property is about once more than
the shortest story needs, except in retention, where one server is enough: the throttle is
its only private state, and `Never` for a process that just started is reachable at the beginning.

*Fairness.* In `live` a process that runs keeps running (`WF` of `Proceed(p)`, of the index
server's `Step`). Waiting for the lock is polling with a deadline (`hold_sidecar_lock`,
`vault_lock_timeout_seconds`), so `Timeout` is among the steps weak fairness drives; nothing
is assumed of the lock's holder but that. The server's `Step` includes the start of the next
sweep: clients keep searching and every search may start one. Editors, faults and failed reads are
not fair and are bounded, so the vault comes to rest.

### What the checks found

- `note_creation`: docs/en/spec.md:298 says creation always refuses to overwrite. The
  existence test comes before history and manifest are written and the publishing
  call is `os.replace`: a file that appears in between is replaced, and its
  bytes are kept nowhere since the operation's `before_hash` is null.
- `note_offer`: `ops inspect` lists `restore-before: available` for a blocked
  operation whose note was deleted; `ops repair` always refuses it, as its note must exist.
  Every write stays refused until someone puts a file at the path.
- `UnhashedFollowsBaseline` needed an exemption. An operation A is interrupted after
  landing; the note is edited; an adopt-disk repair R of A is interrupted; the note is
  edited again and RR repairs R; then an editor restores A's exact bytes. Recovery
  finds A landed and journals it after RR, though A does not start from RR's bytes. It
  takes three edits and two faults. It is the code's choice (A's bytes are on disk), so
  the property exempts operations declared before the record they follow.
- `batch_third`: docs/en/spec.md:211-213 says recovery rolls forward only while every path
  has its expected before or after hash. Paths are classified once, before the first write: one that
  an editor changes before its turn is overwritten or deleted, and its bytes are in no history.
- A batch that fails in apply is withdrawn only if nothing else in its scope moved: an edit
  of an uninvolved scope note during a roll-forward that then fails leaves the receipt blocked
  until the note is put back. This follows the documentation and is no finding; `OnlyEditsBlock` says
  that nothing but an edit leads there.
- An adopt-disk repair leaves no record with the request key, so retrying the
  repaired call is a new write. `RetryNeverRepeats` speaks of records, not of intents.
- `reconcile_twice`: `record_mtime` (`indexing/fts5_store.py:1206`) puts a new mtime on whatever row
  has the identity. Server A reads a note for its identity, a second server stores the older bytes it
  had read, and A, which finds its snapshot's hash unchanged, stamps the new mtime on them. The gate skips
  the note from then on, until it is edited again or a search returns it. `GateIsSound` proves that this is the only hole
  in the gate, and `AloneNothingCrosses` that it takes two servers.
- `increment_generation` reads the generation and writes it back (`indexing/fts5_store.py:1671`) in two steps. Two
  servers that read the same number move it once for two passes; if a third move falls in between, the later write takes
  the generation backwards, to a number a cached answer may already carry. `AnswersAreFresh` proves that such a step
  back (`slipped`) is the only way an answer between uncut passes is stale; two passes sharing one move are harmless, since every move
  follows the rows of its pass.
- A server that dies between rows and generation leaves the caches of the *other* servers stale, until the next pass that changes
  something. `UncutPasses` allows deaths with one server only.
- A sweep takes the marks of stale notes along and drops them all at its end (`mcp/tools/search.py:633`,
  `difference_update(stale)`), those of notes it could not read included, and those set again meanwhile. `MarksSurvive` has
  the first as `missed`; the second is in `Hit`, where such a mark does not count as found.
- The chunker version is stamped at the end of an upgrade although a note could not be read in it. Its rows keep the
  older chunks, and nothing looks for them again until the note is edited or a search finds it stale.
- `_PassCounts.deleted` is assigned after all deletions (`indexing/reconcile.py:259`): a purge that fails in the
  middle has deleted rows without moving the generation. The same goes for a targeted refresh that drops the old
  row and then refuses the new one, and for a cancelled pass: hence `UncutPasses` in `CacheFresh`.
- `loss`: a migration writes its manifest, with the hash of every file, before it copies the first
  one. If it dies after `VAULT.yaml` and is followed by a run that only cleans up, that run finds every
  source file in the manifest and deletes notes the memory vault never held
  (`migration.py:546`). `OnlyCutCopiesAreLost` is what remains true.
- A migration that dies before it has refreshed every file that an earlier run copied and the source changed
  since refuses those files on the next run: the manifest names their new text by then, and the file holds the
  old one (`RerunWorks` is false; `RerunWorksUnlessHalted` is checked, and exempts such a death and nothing else).
- A rebuild of a vault with notes but none that decodes fails every time: no row moves the generation, and
  the validation wants it moved (`AnyQuietRebuildPublishes` is false;
  `QuietRebuildPublishes` is checked). The docstring at `indexing/rebuild.py:106-108`
  and CHANGELOG.md:2323 want such notes left out.
- docs/en/daily-workflows.md has a client replay the identical request when the answer is
  `committed_reverted`. If the note was moved meanwhile, the replay is refused
  (`ReplayAdviceAlwaysWorks` is false; `ReplayAdviceWorks` is checked).
- Scrub health says `complete` for an index whose rows changed while the server that changed them died before
  it moved the generation, for one whose generation a late `increment_generation` took back to the number the pass began with, and for a
  pass that read rows and generation at two moments; and of two
  overlapping scrubs one may overwrite the other's alerts. `HealthIsHonest` and `EvidenceIsKept` name
  these exceptions; nothing in the documentation speaks of them.
- A server that holds a copy of `ulids.json` from before a batch moved a note, or an operator repaired an
  identity, writes that copy back whole with the next identity it assigns: the moved key returns to its old place, the repaired
  one to its old value. `deferred_writes` calls the file "a cache of a derivation" whose flush "is never
  worse" (core/vault.py:344-347), which is so of derived identities and not of these. `IdentitiesStay` without `\ overrun` is violated;
  with it, it says that nothing else changes an identity.
- `compacted_notes` "names only marked notes" (memory_compaction.py:127) unless a run dies between digest
  and marks, a note can no longer be edited when its turn comes, or its owner saves a buffer from before the
  mark. `MarksAndDigestsAgree` names these cases in `excused`; a rerun mends the first.
- A journal note edited between listing and mark is marked with the new text, and the digest keeps the text
  that was listed. The mark only adds keys, so nothing is lost, but the digest is not the note; and an undated note
  saved between a death and the rerun gets a second section, under its new day. Both are outside what
  `CalmNotesAreHeldOnce` promises (`disturbed`).

## Proofs

| Theorem | States | Rests on |
| --- | --- | --- |
| `TypeCorrect` | `Spec => []TypeOK` | `TypeInv`: the step fixes the type of `job` and `rec` |
| `OneTransactionAtATime` | `MutualExclusion` | `TypeInv` |
| `WritesComeAfterRecovery` | `RecoveryFirst` | `WorkInv`: what the process past the scan knows of `pending` |
| `RestoreIsNeverLost` | `RestoreStaysPossible` | `HistoryInv`, `WorkInv` |
| `BytesAreAccountedFor` | `AuditCoverage` | `AuditInv` |
| `OperationsAreJournaledOnce` | `JournalSound` | `AuditInv` |
| `AnswersAreDurable` | `ToldIsJournaled` | `AuditInv` |
| `NothingIsClobbered` | `NoSilentClobber`, if editors keep out | `ExactInv` |
| `TransactionIsATrail` | `ImplementsAuditTrail`, if editors keep out | `ExactInv`, `AuditInv` |
| `RequestsCommitOnce` | `RetryNeverRepeats` | `OnceInv` |
| `CallsBuildOnTheBaseline` | `UnhashedFollowsBaseline` | `BaseInv`, `AuditInv` |
| `BatchTypes` | types, and that only the holder of the lock is inside | `PlacedInv` |
| `OneBatchInDoubt` | `OneInDoubt` | `DoubtInv` |
| `OneReceiptPerManifest` | `ManifestCommitsOnce` | `RecordInv` |
| `BatchWaysStayOpen` | `BothWaysStayOpen` | `KeepInv` |
| `BatchTracesMatch` | `TracesMatchReceipts` | `RecordInv`, `OriginInv` |
| `OnlyEditsCanBlock` | `OnlyEditsBlock` | `CalmInv`, `KeepInv`, `RecordInv` |
| `BatchAnswersAreDurable` | who was told of success has a receipt | `Told` with what each process holds |
| `BatchIsAtomic` | `ImplementsAtomicBatch`, if editors keep out | `CalmInv`, `OriginInv`, `RecordInv` |
| `PassTypesHold` | types of `Reconcile` | itself |
| `SteadyRows` | `TypedNotesStay` | `Steady` |
| `UpgradeIsComplete` | `UpgradeReachesEveryNote` | `Upgrading` |
| `GateIsSound` | `GateSound` | `PassInv`: `Rightly`, `Known`, `InOrder` |
| `AloneNothingCrosses` | one server: `crossed` stays empty, `slipped` false | `Alone`, `PassInv` |
| `GateIsTrusted` | one server: `GateTrusted` | `Alone`, `PassInv` |
| `AnswersAreFresh` | `CacheFresh` | `Fresh`, `PassInv` |
| `MarksAreKept` | `MarksSurvive` | `Marked`, `PassInv` |
| `CalmPassMirrors` | `CalmPassSettles` | `Calm`, `PassInv` |
| `RetentionTypes` | `RetentionTypeOK` | itself |
| `RecordsAreAccepted` | `NoRecordIsRefused` | `RetentionInv` |
| `WindowStays` | `WindowIsKept` | `RetentionInv`; what an early stop of the scan implies |
| `OrderStays` | appends keep an ordered journal ordered | `RetentionInv` |
| `ReviewTypes` | `ReviewTypeOK`, with the cap | itself |
| `MarksAreMerged` | `MarksFollowLastChange` | `ListedInv`, `LockHolderInv` |
| `RebuildTypes` | `RebuildTypeOK` | `RebuildInv` |
| `SwapsAreExact` | `SwapIsExact` | `RebuildInv` |
| `QuietRebuildsSucceed` | `QuietRebuildPublishes` | `RebuildInv` |
| `ScrubTypes` | `ScrubTypeOK` | `ScrubTypeInv` |
| `CompleteMeansRead` | `HealthIsHonest` | `LookedInv`, `CurrentInv` |
| `AlertsNeedProof` | `EvidenceIsKept` | `EvidenceInv`, `LookedInv` |
| `ProgressTypes` | `ProgressTypeOK` | `AdviceInv` |
| `AdviceAppendsOnce` | `NoEntryTwice` | `AdviceInv`: `LogInv`, `AskInv` |
| `ReplaysAreAccepted` | `ReplayAdviceWorks` | `AdviceInv`, `QuietInv`, `StillInv` |
| `MigrationTypes` | `MigrationTypeOK`: what is in the tombstone has left the source | `MovedAway`, `MigrationInv` |
| `CopiesComeFirst` | `OnlyCutCopiesAreLost` | `MigrationInv` |
| `ClientsKeepTheirWork` | `OthersWorkStays` | `MigrationInv` |
| `SourceGoesWhole` | `WholeOrNothing` | `MigrationInv` |
| `RerunsGoOn` | `RerunWorksUnlessHalted` | `RerunInv`, `MigrationInv` |
| `CompactionTypes` | `CompactionTypeOK` | `RunInv`: a run only has what it read |
| `DigestsComeFirst` | `MarksAndDigestsAgree` | `CompactionInv` |
| `CompactionRepeatsNothing` | `CalmNotesAreHeldOnce` | `CompactionInv` |
| `IdentityTypes` | `IdentityTypeOK` | itself |
| `IdentitiesAreKept` | `IdentitiesStay` | `SidecarInv` |

They hold for any processes, notes, contents, keys, calls, bounds and initial states that meet the
modules' named assumptions. The theorems hold with editors racing or not, but for three that
assume `EditorRaces = FALSE`: `NothingIsClobbered` and `TransactionIsATrail` (the setting of `note_quiet`;
`note_creation` shows that they need it) and `BatchIsAtomic` (that of `batch_quiet`; `batch_third` shows the
same for it). Two theorems about `Reconcile`, `AloneNothingCrosses` and `GateIsTrusted`, assume `SingleServer`: no setting has
two processes. `reconcile_twice` shows that the second needs it. All the others are about any number of servers; editors,
failures, cancelled passes and restarts are as free as in the model.

*The core.* None of the safety invariants is inductive alone. `MutualExclusion` carries every
other: facts about the process in hand are stable because nobody else is past `waiting`. `Work(p)`
then says, step by step, what `p` has established: past the scan nothing is pending, after
`declare` exactly its own manifest is. `HistoryInv` adds that the prior bytes of the operation in hand are
saved before it is declared, and that a sweep only happens when no ordinary manifest is left.
`AuditInv` joins `IdsInv` (ids are fresh), `CoverInv` (the operation whose bytes a note
holds is journaled, or its manifest still describes the note), `RepairsInv` (whatever a repair
resolves can be withdrawn) and `JournalSound`, with `Hand(p)` for the operation in hand: unlogged
before `append`, in the journal after.

`ExactInv` says that what a step checked still holds when it acts: the note has the `before` bytes of the
operation at `save`, `declare` and `replace`, and its `after` bytes at `append`. The refinement
follows by cases: every action is a step of `AuditTrail` or changes none of its variables.
`OnceInv` says that a pending keyed call, and the one in hand, passed the replay check
against the journal as it now is, and that there is one such call at a time. `BaseInv` says the same of the baseline:
an unlogged operation with no `expected_hash` fits the last record of its note, or was declared before it.

*Batches.* The invariants are layers, each with a statement about the receipts and one about what each
process may rely on at its step. `PlacedInv` has types and the lock. `DoubtInv` adds at which steps a receipt, and
the manifest of an ordinary write, can be pending: past recovery there is neither. `RecordInv` follows the journal of
members (the records of a batch are a prefix of its members, all of them once it is committed), `KeepInv` the
bytes: what a stage must still hold to go forward, and a history to go back. `OriginInv` says that bytes a batch
wrote belong to a receipt or a roll that is being undone. `CalmInv` is the deep one: until an edit falls into a batch, a pending
batch has each of its paths in one of two states (`Between`), a roll has all paths before its place written and none
after, and records are only made of a vault that holds the whole image. From it follow that only edits can block, and the
refinement: each action either keeps the state of the abstract batch or is one of its steps, and without racing
editors a batch leaves doubt as a whole.

*Index passes.* `Steady` says, of a note nobody touched, that no process has found it gone,
undecodable or under another identity, so no purge, store or targeted refresh takes its row; that rests on rows written
inside one SQLite transaction being seen by their owner alone (`View`). `Upgrading` says that old rows only ever
disappear, and that a pass which found the older version has each of them in its snapshot and still ahead of it, in hand, or missed.

`PassInv` is what the remaining five rest on. `InOrder` has what a pass holds at each step, and `Known` what it may conclude
about the index while nobody else has written: an identity it has not come to has the row of the snapshot, or none. `Rightly` is
the gate's argument, about three moments at once: a row, a snapshot entry, a walked mtime and a reading may
each be older than the file, of whichever server they are, but if its mtime is the file's then its hash is, since mtimes are handed
out once (`Truths`). A reading carries an mtime of before it, so a store keeps this whoever wrote in between; `record_mtime`
keeps it only if the row it finds is the one of the snapshot, and the identity is in `crossed` otherwise. That is why a row
and a snapshot may be excused (`Excused`) and a reading may not. `Alone` is `Known` without the condition: with one
server nothing else writes, so nothing crosses.

`Fresh` says that while an answer of generation g is out of date and g is not yet passed, some server is bound to move
the generation beyond g (`Ahead`): it still has to read the generation, or has read one that was not below g. A server sees
its own uncommitted rows, and answers from them; one for which they differ from the index is bound to move, too (`FreshAt`).
`Marked` says that a sweep which carries a mark owes the note a reading (`Owed`) until it has given it (`Served`) or missed it, and
that what another server has written and not committed is no step back for the note (`Apart`): each of its rows is whole,
or was there before (`Fewer`).
`Calm` follows an undisturbed pass: what it walked and read is what the vault is now (`Settling`), the notes it has stored,
skipped or purged have their row and no other (`MirrorAt`), and the rest are still in `todo` or in hand. When
`todo` is empty, that is the mirror.

*Around the core.* `RetentionInv` is little more than types: acceptance follows since each new
record is stamped past the tail, and the window theorem from what the scan has read when it stops.
`LockHolderInv` says that the window holding the review lock read the file as it is, and
`ListedInv` relates the ghost to every mark of a known operation. `RebuildInv` says of each of the two
walks that what was read of a place neither touched nor unreadable since is what is there. `MigrationInv` follows a file on its way: `DeliveryInv` (what the manifest names and no cut
run planned did reach the memory vault), `BurialInv` (what is in the tombstone was verified) and
`SeenInv` (where the texts of the manifest come from). `RerunInv` has what stands in the memory
vault but for what a run has still to copy: nothing, what the manifest names, or what is not only a copy; a run cut short then leaves
nothing else unless there was an old copy to refresh. `CompactionInv` has what a run may rely on when it writes
(`RunInv`), that marks follow sections (`MarkInv`), that listings have an excuse or a mark (`ListInv`),
and that a calm note is known under one day everywhere (`CalmInv`). `SidecarInv` says of every map a server
may write, its copy and what it took from it, that it gives each place its recorded identity unless the place changed
behind that server's back (`CopyInv`), and of an assignment under way that the derived identity is the recorded one.

A scrub walks its rows in order and stores a cursor. `LookedInv` says that every row before the cursor, of
the checkpoint and of each invocation, was found right in that pass or has an alert; the position in the walk is a
rank in a finite set, and that ranks and notes correspond is proved from cardinalities (`RanksGrow`,
`RanksAreTaken`), there being no recursion. `CurrentInv` ties rows and counter of an invocation to those of the index, but
for the changes the property names. `EvidenceInv` says that without an overlap the one active invocation
carries every alert of the checkpoint that it has no reason to drop.

The invariant of `WriteProgress` is about the journal as recovery will leave it (`Log`). `LogInv`: no entry is
twice in the note or in any bytes a record names, and a caller's entry is only there once its first request has a record.
`AskInv`: every request under way expects bytes without its entry, or is the caller's first without a hash, which
the replay rule then stops. That is why it matters that the tool answers `new request id` with the hash of
the note it read, and only if the record's `before` is what the note shows.

*Model-checked only.* `EveryCallEnds` and `IndexCatchesUp`, liveness being out of the prover's reach. `TypedOneInDoubt`,
`EitherOnlyEditsBlock` and `TypedAndHonest` put several components' properties into one invariant of a run; their parts are the
theorems `BatchTypes` and `OneBatchInDoubt`, `OnlyEditsCanBlock`, and the types and `CompleteMeansRead` above. What recursive definitions compute and `ENABLED` are out of
reach too; the models use neither.

## Plan

1. Startup order; the duplicate check; case-only differences of sidecar keys.
2. The journal's hash chain and legacy migration; organization planning.
3. Pure algorithms against reference definitions: section extents and moves, chunking, temporal
   ranking, environment merge.

## Not modelled

SQL and FTS5 ranking, YAML and Markdown text layout, HTTP, ripgrep processes, tool schemas,
localisation, packaging and the evaluation harness: input and output or wording, with
no protocol of their own. Within the modelled components: servers that run during a rebuild and clients that
write during a migration, which the documentation forbids; the pacing of scrubs and a
checkpoint damaged from outside; Windows sharing violations, except where a rename fails over them;
the byte formats of journal and receipts. Most of the source is such code, or argument parsing
(`cli.py`, `core/config.py`, the tools' schemas): the map covers what changes shared state.
`components` in `PROJECT.json` gives the reason for each part.
